---------------------------- MODULE SigningProofs ----------------------------
(***************************************************************************)
(* The signing path for every set of transactions, every length of the     *)
(* signatures and every number of attempts and width of the counters.      *)
(***************************************************************************)
EXTENDS SigningSafety, SequenceTheorems, TLAPS

-----------------------------------------------------------------------------
(* The serialization of the core: how long it is, that it begins and ends  *)
(* as the loop expects, and that what is hashed determines what is signed. *)

(* Lengths. *)

LEMMA CatType ==
  ASSUME NEW S, NEW s \in Seq(S), NEW t \in Seq(S)
  PROVE  s \o t \in Seq(S) /\ Len(s \o t) = Len(s) + Len(t)
BY ConcatProperties

LEMMA BytesIn ==
  ASSUME NEW S, Byte \subseteq S, NEW s \in Seq(Byte)
  PROVE  s \in Seq(S)
BY SeqMonotonic

LEMMA NumberType ==
  ASSUME NEW n \in Nat
  PROVE  /\ U8(n) \in Seq(Byte) /\ Len(U8(n)) = 1
         /\ U32LE(n) \in Seq(Byte) /\ Len(U32LE(n)) = 4
         /\ U64LE(n) \in Seq(Byte) /\ Len(U64LE(n)) = 8
<1>1. \A m \in Nat : U8(m) \in Seq(Byte) /\ Len(U8(m)) = 1
  BY DEF U8, Byte
<1>2. \A m \in Nat : U32LE(m) \in Seq(Byte) /\ Len(U32LE(m)) = 4
  <2> TAKE m \in Nat
  <2>1. m % 256 \in Byte /\ (m \div 256) % 256 \in Byte /\ (m \div 65536) % 256 \in Byte
          /\ (m \div 16777216) % 256 \in Byte
    BY DEF Byte
  <2> QED
    BY <2>1 DEF U32LE
<1> DEFINE high == (n \div 65536) \div 65536
<1>3. high \in Nat
  OBVIOUS
<1>4. U64LE(n) = U32LE(n) \o U32LE(high)
  BY DEF U64LE
<1> HIDE DEF high
<1>5. /\ U32LE(n) \in Seq(Byte) /\ Len(U32LE(n)) = 4
      /\ U32LE(high) \in Seq(Byte) /\ Len(U32LE(high)) = 4
  BY <1>2, <1>3
<1>6. U64LE(n) \in Seq(Byte) /\ Len(U64LE(n)) = Len(U32LE(n)) + Len(U32LE(high))
  BY <1>4, <1>5, CatType
<1>7. Len(U64LE(n)) = 8
  BY <1>5, <1>6
<1>8. U8(n) \in Seq(Byte) /\ Len(U8(n)) = 1
  BY <1>1
<1> QED
  BY <1>5, <1>6, <1>7, <1>8

LEMMA ConstantType ==
  /\ Sequence \in Seq(Byte) /\ Len(Sequence) = 4
  /\ Locktime \in Seq(Byte) /\ Len(Locktime) = 4
  /\ U32LE(SighashAll) \in Seq(Byte) /\ Len(U32LE(SighashAll)) = 4
  /\ U32LE(1) \in Seq(Byte) /\ Len(U32LE(1)) = 4
  /\ U8(2) \in Seq(Byte) /\ Len(U8(2)) = 1
BY NumberType DEF Sequence, Locktime, SighashAll, Byte

LEMMA ScriptFieldType ==
  ASSUME NEW S, Byte \subseteq S, NEW script \in Seq(S)
  PROVE  ScriptField(script) \in Seq(S) /\ Len(ScriptField(script)) = 1 + Len(script)
<1>1. U8(Len(script)) \in Seq(S) /\ Len(U8(Len(script))) = 1
  BY NumberType, BytesIn, LenProperties
<1>2. /\ ScriptField(script) \in Seq(S)
      /\ Len(ScriptField(script)) = Len(U8(Len(script))) + Len(script)
  BY <1>1, CatType DEF ScriptField
<1> QED
  BY <1>1, <1>2

LEMMA InputFieldType ==
  ASSUME NEW S, Byte \subseteq S, NEW coin, IsCoin(coin), NEW script \in Seq(S)
  PROVE  /\ InputField(coin, script) \in Seq(S)
         /\ Len(InputField(coin, script)) = 41 + Len(script)
<1>1. coin.txid \in Seq(S) /\ Len(coin.txid) = 32
  BY BytesIn DEF IsCoin
<1>2. U32LE(coin.vout) \in Seq(S) /\ Len(U32LE(coin.vout)) = 4
  BY NumberType, BytesIn DEF IsCoin
<1>3. ScriptField(script) \in Seq(S) /\ Len(ScriptField(script)) = 1 + Len(script)
  BY ScriptFieldType
<1>4. Sequence \in Seq(S) /\ Len(Sequence) = 4
  BY ConstantType, BytesIn
<1> DEFINE outpoint == coin.txid \o U32LE(coin.vout)
           field == outpoint \o ScriptField(script)
<1>5. outpoint \in Seq(S) /\ Len(outpoint) = Len(coin.txid) + Len(U32LE(coin.vout))
  BY <1>1, <1>2, CatType
<1>6. field \in Seq(S) /\ Len(field) = Len(outpoint) + Len(ScriptField(script))
  <2> HIDE DEF outpoint
  <2> QED
    BY <1>3, <1>5, CatType
<1>7. /\ InputField(coin, script) \in Seq(S)
      /\ Len(InputField(coin, script)) = Len(field) + Len(Sequence)
  <2>1. InputField(coin, script) = field \o Sequence
    BY DEF InputField
  <2> HIDE DEF field
  <2> QED
    BY <1>4, <1>6, <2>1, CatType
<1> HIDE DEF outpoint, field
<1> QED
  BY <1>1, <1>2, <1>3, <1>4, <1>5, <1>6, <1>7, LenProperties

LEMMA OutputFieldType ==
  ASSUME NEW S, Byte \subseteq S, NEW output, IsOutput(output)
  PROVE  /\ OutputField(output) \in Seq(S)
         /\ Len(OutputField(output)) = 9 + Len(output.script)
<1>1. output.script \in Seq(S) /\ output.sats \in Nat
  BY BytesIn, TxCoreAssumption DEF IsOutput, Amount
<1>2. U64LE(output.sats) \in Seq(S) /\ Len(U64LE(output.sats)) = 8
  BY <1>1, NumberType, BytesIn
<1>3. /\ ScriptField(output.script) \in Seq(S)
      /\ Len(ScriptField(output.script)) = 1 + Len(output.script)
  BY <1>1, ScriptFieldType
<1>4. /\ OutputField(output) \in Seq(S)
      /\ Len(OutputField(output)) = Len(U64LE(output.sats)) + Len(ScriptField(output.script))
  BY <1>2, <1>3, CatType DEF OutputField
<1> QED
  BY <1>1, <1>2, <1>3, <1>4, LenProperties

LEMMA Regroup ==
  ASSUME NEW S, NEW s \in Seq(S), NEW t \in Seq(S), NEW u \in Seq(S)
  PROVE  (s \o t) \o u = s \o (t \o u)
BY ConcatAssociative

(* What is hashed for input i of a transaction puts at its inputs. *)
Placed(tx, i) == [j \in DOMAIN tx.inputs |-> IF j = i THEN tx.inputs[j].script ELSE <<>>]

Placeable(tx, scripts) ==
  /\ IsTx(tx)
  /\ \A j \in DOMAIN tx.inputs : scripts[j] \in Seq(Byte) /\ Len(scripts[j]) <= MaxScript

LEMMA PlacedPlaceable ==
  ASSUME NEW tx, NEW i, IsTx(tx), PreimageBuilds(tx, i)
  PROVE  Placeable(tx, Placed(tx, i))
<1>1. <<>> \in Seq(Byte) /\ Len(<<>>) = 0
  OBVIOUS
<1>2. ASSUME NEW j \in DOMAIN tx.inputs
      PROVE  Placed(tx, i)[j] \in Seq(Byte) /\ Len(Placed(tx, i)[j]) <= MaxScript
  <2>1. tx.inputs[j].script \in Seq(Byte) /\ Len(tx.inputs[j].script) <= MaxScript
    BY DEF IsTx, IsCoin, PreimageBuilds
  <2>2. Placed(tx, i)[j] = IF j = i THEN tx.inputs[j].script ELSE <<>>
    BY DEF Placed
  <2>3. CASE j = i
    BY <2>1, <2>2, <2>3, Zenon
  <2>4. CASE j # i
    <3>1. Placed(tx, i)[j] = <<>>
      BY <2>2, <2>4, Zenon
    <3> QED
      BY <1>1, <3>1 DEF MaxScript
  <2> QED
    BY <2>3, <2>4
<1> QED
  BY <1>2 DEF Placeable

LEMMA Counted ==
  ASSUME NEW tx, IsTx(tx)
  PROVE  \/ Len(tx.inputs) = 1 /\ DOMAIN tx.inputs = {1}
         \/ Len(tx.inputs) = 2 /\ DOMAIN tx.inputs = {1, 2}
<1>1. PICK n \in 1 .. MaxInputs : Len(tx.inputs) = n /\ DOMAIN tx.inputs = 1 .. n
  BY DEF IsTx
<1>2. 1 .. 1 = {1} /\ 1 .. 2 = {1, 2} /\ (n = 1 \/ n = 2)
  BY DEF MaxInputs
<1> QED
  BY <1>1, <1>2

-----------------------------------------------------------------------------
(* Signed transactions: how long they are and how they begin and end. *)

LEMMA DerType ==
  ASSUME NEW S, Byte \subseteq S, NEW sig \in S, NEW len \in 1 .. MaxDer
  PROVE  /\ Der(sig, len) \o U8(SighashAll) \in Seq(S)
         /\ Len(Der(sig, len) \o U8(SighashAll)) = len + 1
<1> DEFINE zeroes == [k \in 1 .. len - 1 |-> 0]
<1>1. zeroes \in Seq(S) /\ Len(zeroes) = len - 1
  <2>1. len - 1 \in Nat /\ 0 \in S
    BY DEF Byte
  <2> QED
    BY <2>1
<1>2. <<sig>> \in Seq(S) /\ Len(<<sig>>) = 1
  OBVIOUS
<1>3. Der(sig, len) = <<sig>> \o zeroes
  BY DEF Der
<1>4. Der(sig, len) \in Seq(S) /\ Len(Der(sig, len)) = 1 + (len - 1)
  <2> HIDE DEF zeroes
  <2> QED
    BY <1>1, <1>2, <1>3, CatType
<1>5. U8(SighashAll) \in Seq(S) /\ Len(U8(SighashAll)) = 1
  BY NumberType, BytesIn DEF SighashAll
<1> HIDE DEF zeroes
<1>6. /\ Der(sig, len) \o U8(SighashAll) \in Seq(S)
      /\ Len(Der(sig, len) \o U8(SighashAll)) = Len(Der(sig, len)) + Len(U8(SighashAll))
  BY <1>4, <1>5, CatType
<1> QED
  BY <1>4, <1>5, <1>6

LEMMA PubkeyType == Pubkey \in Seq(Byte) /\ Len(Pubkey) = 33
<1> DEFINE zeroes == [k \in 1 .. 32 |-> 0]
<1>1. zeroes \in Seq(Byte) /\ Len(zeroes) = 32
  BY DEF Byte
<1>2. <<2>> \in Seq(Byte) /\ Len(<<2>>) = 1
  BY DEF Byte
<1> DEFINE tag == <<2>>
<1>3. Pubkey = tag \o zeroes
  BY DEF Pubkey
<1> HIDE DEF tag, zeroes
<1>4. tag \o zeroes \in Seq(Byte) /\ Len(tag \o zeroes) = Len(tag) + Len(zeroes)
  BY <1>1, <1>2, CatType DEF tag
<1>5. Pubkey \in Seq(Byte) /\ Len(Pubkey) = Len(tag) + Len(zeroes)
  BY <1>3, <1>4, Zenon
<1>6. Len(tag) = 1
  BY <1>2 DEF tag
<1> QED
  BY <1>1, <1>5, <1>6

LEMMA ScriptSigType ==
  ASSUME NEW S, Byte \subseteq S, NEW sig \in Seq(S), NEW key33 \in Seq(S)
  PROVE  /\ ScriptSig(sig, key33) \in Seq(S)
         /\ Len(ScriptSig(sig, key33)) = 2 + Len(sig) + Len(key33)
<1>1. /\ ScriptField(sig) \in Seq(S) /\ Len(ScriptField(sig)) = 1 + Len(sig)
      /\ ScriptField(key33) \in Seq(S) /\ Len(ScriptField(key33)) = 1 + Len(key33)
  BY ScriptFieldType
<1>2. /\ ScriptSig(sig, key33) \in Seq(S)
      /\ Len(ScriptSig(sig, key33)) = Len(ScriptField(sig)) + Len(ScriptField(key33))
  BY <1>1, CatType DEF ScriptSig
<1> QED
  BY <1>1, <1>2, LenProperties

Carries(S, tx, scripts) ==
  /\ Byte \subseteq S /\ IsTx(tx)
  /\ \A j \in DOMAIN tx.inputs : scripts[j] \in Seq(S)

InputsMeasured(S, tx, scripts) ==
  /\ InputFields(tx, scripts) \in Seq(S)
  /\ Len(tx.inputs) = 1 => Len(InputFields(tx, scripts)) = 41 + Len(scripts[1])
  /\ Len(tx.inputs) = 2 =>
       Len(InputFields(tx, scripts)) = 82 + Len(scripts[1]) + Len(scripts[2])

LEMMA InputFieldsType ==
  ASSUME NEW S, NEW tx, NEW scripts
  PROVE  Carries(S, tx, scripts) => InputsMeasured(S, tx, scripts)
<1>0. SUFFICES ASSUME Byte \subseteq S, IsTx(tx),
                      \A j \in DOMAIN tx.inputs : scripts[j] \in Seq(S)
               PROVE  InputsMeasured(S, tx, scripts)
  BY DEF Carries
<1> DEFINE first == InputField(tx.inputs[1], scripts[1])
           second == InputField(tx.inputs[2], scripts[2])
<1>1. ASSUME NEW j \in DOMAIN tx.inputs
      PROVE  /\ InputField(tx.inputs[j], scripts[j]) \in Seq(S)
             /\ Len(InputField(tx.inputs[j], scripts[j])) = 41 + Len(scripts[j])
             /\ Len(scripts[j]) \in Nat
  <2>1. IsCoin(tx.inputs[j]) /\ scripts[j] \in Seq(S)
    BY <1>0 DEF IsTx
  <2> QED
    BY <1>0, <2>1, InputFieldType, LenProperties
<1>2. CASE Len(tx.inputs) = 1 /\ DOMAIN tx.inputs = {1}
  <2>1. first \in Seq(S) /\ Len(first) = 41 + Len(scripts[1])
    BY <1>1, <1>2
  <2>2. InputFields(tx, scripts) = first \o <<>>
    BY <1>2 DEF InputFields
  <2> HIDE DEF first
  <2>3. first \o <<>> = first
    BY <2>1, ConcatEmptySeq, Zenon
  <2> QED
    BY <1>2, <2>1, <2>2, <2>3 DEF InputsMeasured
<1>3. CASE Len(tx.inputs) = 2 /\ DOMAIN tx.inputs = {1, 2}
  <2>1. /\ first \in Seq(S) /\ Len(first) = 41 + Len(scripts[1]) /\ Len(scripts[1]) \in Nat
        /\ second \in Seq(S) /\ Len(second) = 41 + Len(scripts[2]) /\ Len(scripts[2]) \in Nat
    BY <1>1, <1>3
  <2>2. InputFields(tx, scripts) = first \o second
    BY <1>3 DEF InputFields
  <2> HIDE DEF first, second
  <2>3. first \o second \in Seq(S) /\ Len(first \o second) = Len(first) + Len(second)
    BY <2>1, CatType
  <2>4. /\ InputFields(tx, scripts) \in Seq(S)
        /\ Len(InputFields(tx, scripts)) = Len(first) + Len(second)
    BY <2>2, <2>3, Zenon
  <2>5. Len(InputFields(tx, scripts)) = 82 + Len(scripts[1]) + Len(scripts[2])
    <3>1. /\ Len(first) = 41 + Len(scripts[1]) /\ Len(scripts[1]) \in Nat
          /\ Len(second) = 41 + Len(scripts[2]) /\ Len(scripts[2]) \in Nat
          /\ Len(InputFields(tx, scripts)) = Len(first) + Len(second)
      BY <2>1, <2>4, Zenon
    <3>2. PICK x, y \in Nat : x = Len(scripts[1]) /\ y = Len(scripts[2])
      BY <3>1
    <3>3. (41 + x) + (41 + y) = 82 + x + y
      OBVIOUS
    <3>4. Len(InputFields(tx, scripts)) = (41 + x) + (41 + y)
      BY <3>1, <3>2, Zenon
    <3> QED
      BY <3>2, <3>3, <3>4, Zenon
  <2>6. ~(Len(tx.inputs) = 1)
    BY <1>3
  <2> QED
    BY <2>4, <2>5, <2>6, Zenon DEF InputsMeasured
<1> QED
  BY <1>0, <1>2, <1>3, Counted

(* The beginning of a transaction of n inputs, however it goes on. *)
Headed(S, s, n) == s \in Seq(S) /\ Len(s) \in Nat /\ Len(s) >= 5 /\ s[1] = 1 /\ s[5] = n

LEMMA HeadedCat ==
  ASSUME NEW S, NEW s, NEW t, NEW n
  PROVE  Headed(S, s, n) /\ t \in Seq(S)
         => Headed(S, s \o t, n) /\ Len(s \o t) = Len(s) + Len(t)
<1>0. SUFFICES ASSUME Headed(S, s, n), t \in Seq(S)
               PROVE  Headed(S, s \o t, n) /\ Len(s \o t) = Len(s) + Len(t)
  OBVIOUS
<1>1. s \in Seq(S) /\ Len(s) \in Nat /\ Len(t) \in Nat /\ Len(s) >= 5
  BY <1>0, LenProperties DEF Headed
<1>2. s \o t \in Seq(S) /\ Len(s \o t) = Len(s) + Len(t)
  BY <1>0, <1>1, CatType
<1>3. \A i \in 1 .. Len(s) + Len(t) : (s \o t)[i] = IF i <= Len(s) THEN s[i] ELSE t[i - Len(s)]
  BY <1>0, <1>1, ConcatProperties
<1>4. (s \o t)[1] = s[1] /\ (s \o t)[5] = s[5]
  BY <1>1, <1>3
<1> QED
  BY <1>0, <1>1, <1>2, <1>4 DEF Headed

LEMMA HeadedStart ==
  ASSUME NEW S, Byte \subseteq S, NEW n \in 1 .. 2
  PROVE  Headed(S, U32LE(1) \o U8(n), n) /\ Len(U32LE(1) \o U8(n)) = 5
<1> DEFINE s == U32LE(1)
           t == U8(n)
<1>1. s \in Seq(S) /\ Len(s) = 4 /\ t \in Seq(S) /\ Len(t) = 1
  BY NumberType, BytesIn
<1>2. s[1] = 1 /\ t[1] = n
  <2>1. \A m \in 1 .. 2 : U8(m)[1] = m
    BY DEF U8
  <2> QED
    BY <2>1 DEF U32LE
<1> HIDE DEF s, t
<1>3. s \o t \in Seq(S) /\ Len(s \o t) = Len(s) + Len(t)
  BY <1>1, CatType
<1>4. \A i \in 1 .. Len(s) + Len(t) : (s \o t)[i] = IF i <= Len(s) THEN s[i] ELSE t[i - Len(s)]
  BY <1>1, ConcatProperties
<1>5. (s \o t)[1] = s[1] /\ (s \o t)[5] = t[1]
  <2>1. Len(s) = 4 /\ Len(t) = 1
    BY <1>1
  <2>2. \A i \in 1 .. 5 : (s \o t)[i] = IF i <= 4 THEN s[i] ELSE t[i - 4]
    <3>1. 4 + 1 = 5
      OBVIOUS
    <3> QED
      BY <1>4, <2>1, <3>1, Zenon
  <2> DEFINE st == s \o t
  <2> HIDE DEF st
  <2>3. \A i \in 1 .. 5 : st[i] = IF i <= 4 THEN s[i] ELSE t[i - 4]
    BY <2>2, Zenon DEF st
  <2>4. st[1] = s[1] /\ st[5] = t[5 - 4]
    BY <2>3
  <2>5. 5 - 4 = 1
    OBVIOUS
  <2> QED
    BY <2>4, <2>5, Zenon DEF st
<1>6. Headed(S, s \o t, n) /\ Len(s \o t) = 5
  BY <1>1, <1>2, <1>3, <1>5 DEF Headed
<1> QED
  BY <1>6 DEF s, t

(* The bytes that the loop looks at before it answers. *)
Framed(bytes, n) ==
  /\ Len(bytes) > 4
  /\ \A k \in 0 .. 3 : bytes[Len(bytes) - k] = 0
  /\ bytes[1] = 1 /\ bytes[5] = n

LEMMA FramedEnd ==
  ASSUME NEW S, Byte \subseteq S, NEW s, NEW n, Headed(S, s, n)
  PROVE  Framed(s \o Locktime, n) /\ Len(s \o Locktime) = Len(s) + 4
<1> DEFINE t == Locktime
<1>1. t \in Seq(S) /\ Len(t) = 4
  BY ConstantType, BytesIn
<1>2. \A k \in 0 .. 3 : t[4 - k] = 0
  BY DEF Locktime, U32LE
<1> HIDE DEF t
<1>3. s \in Seq(S) /\ Len(s) \in Nat /\ Len(s) >= 5
  BY DEF Headed
<1>4. Headed(S, s \o t, n) /\ Len(s \o t) = Len(s) + 4
  <2>1. Headed(S, s \o t, n) /\ Len(s \o t) = Len(s) + Len(t)
    <3>1. Headed(S, s, n) /\ t \in Seq(S)
      BY <1>1
    <3> QED
      BY <3>1, HeadedCat, Zenon
  <2> QED
    BY <1>1, <2>1, Zenon
<1>5. \A i \in 1 .. Len(s) + Len(t) : (s \o t)[i] = IF i <= Len(s) THEN s[i] ELSE t[i - Len(s)]
  BY <1>1, <1>3, ConcatProperties
<1>6. ASSUME NEW k \in 0 .. 3 PROVE (s \o t)[Len(s \o t) - k] = 0
  <2>1. Len(s \o t) - k = Len(s) + (4 - k)
    BY <1>3, <1>4
  <2>2. (s \o t)[Len(s) + (4 - k)] = t[4 - k]
    <3> DEFINE m == Len(s)
               i == m + (4 - k)
    <3>1. m \in Nat
      BY <1>3
    <3>2. \A x \in 1 .. m + 4 : (s \o t)[x] = IF x <= m THEN s[x] ELSE t[x - m]
      BY <1>1, <1>5, Zenon
    <3> HIDE DEF m
    <3>3. i \in 1 .. m + 4 /\ ~(i <= m) /\ i - m = 4 - k
      BY <3>1
    <3> HIDE DEF i
    <3>4. (s \o t)[i] = t[i - m]
      BY <3>2, <3>3
    <3> QED
      BY <3>3, <3>4, Zenon DEF i, m
  <2> QED
    BY <1>2, <2>1, <2>2
<1>7. Framed(s \o t, n)
  BY <1>3, <1>4, <1>6 DEF Framed, Headed
<1> QED
  BY <1>4, <1>7 DEF t

(* The length of a transaction, and the bytes the loop looks at. *)
LEMMA SerializedType ==
  ASSUME NEW S, Byte \subseteq S, NEW tx, IsTx(tx), NEW scripts,
         \A j \in DOMAIN tx.inputs : scripts[j] \in Seq(S)
  PROVE  /\ Serialized(tx, scripts) \in Seq(S)
         /\ Len(Serialized(tx, scripts))
              = Len(InputFields(tx, scripts)) + Len(tx.pay.script) + Len(tx.change.script) + 28
         /\ Framed(Serialized(tx, scripts), Len(tx.inputs))
<1> DEFINE ab == U32LE(1) \o U8(Len(tx.inputs))
           c == InputFields(tx, scripts)
           d == U8(2)
           e == OutputField(tx.pay)
           f == OutputField(tx.change)
           abc == ab \o c
           abcd == abc \o d
           abcde == abcd \o e
           abcdef == abcde \o f
           n == Len(tx.inputs)
<1>1. d \in Seq(S) /\ Len(d) = 1 /\ Locktime \in Seq(S) /\ Len(Locktime) = 4
  BY ConstantType, BytesIn
<1>mark. d \in Seq(S)
  BY <1>1
<1>2. Headed(S, ab, n) /\ Len(ab) = 5
  <2>1. Len(tx.inputs) \in 1 .. 2
    BY Counted
  <2> QED
    BY <2>1, HeadedStart, Zenon
<1>3. c \in Seq(S) /\ Len(c) \in Nat
  <2>1. Carries(S, tx, scripts)
    BY DEF Carries
  <2>2. c \in Seq(S)
    BY <2>1, InputFieldsType, Zenon DEF InputsMeasured
  <2> QED
    BY <2>2, LenProperties
<1>4. /\ e \in Seq(S) /\ Len(e) = 9 + Len(tx.pay.script) /\ Len(tx.pay.script) \in Nat
      /\ f \in Seq(S) /\ Len(f) = 9 + Len(tx.change.script) /\ Len(tx.change.script) \in Nat
  BY OutputFieldType, LenProperties DEF IsTx, IsOutput
<1>5. Serialized(tx, scripts) = abcdef \o Locktime
  BY DEF Serialized
<1> HIDE DEF ab, c, d, e, f, n
<1>outs. e \in Seq(S) /\ f \in Seq(S)
  BY <1>4
<1> HIDE DEF ab
<1>6. Headed(S, abc, n) /\ Len(abc) = Len(ab) + Len(c)
  <2>1. Headed(S, ab, n) /\ c \in Seq(S)
    BY <1>2, <1>3
  <2> QED
    BY <2>1, HeadedCat, Zenon
<1> HIDE DEF abc
<1>7. Headed(S, abcd, n) /\ Len(abcd) = Len(abc) + Len(d)
  <2>1. Headed(S, abc, n) /\ d \in Seq(S)
    BY <1>mark, <1>6
  <2> QED
    BY <2>1, HeadedCat, Zenon
<1> HIDE DEF abcd
<1>8. Headed(S, abcde, n) /\ Len(abcde) = Len(abcd) + Len(e)
  <2>1. Headed(S, abcd, n) /\ e \in Seq(S)
    BY <1>outs, <1>7
  <2> QED
    BY <2>1, HeadedCat, Zenon
<1> HIDE DEF abcde
<1>9. Headed(S, abcdef, n) /\ Len(abcdef) = Len(abcde) + Len(f)
  <2>1. Headed(S, abcde, n) /\ f \in Seq(S)
    BY <1>outs, <1>8
  <2> QED
    BY <2>1, HeadedCat, Zenon
<1> HIDE DEF abcdef
<1>10. /\ Framed(abcdef \o Locktime, n)
       /\ Len(abcdef \o Locktime) = Len(abcdef) + 4
       /\ abcdef \o Locktime \in Seq(S)
  BY <1>1, <1>9, FramedEnd, HeadedCat DEF Headed
<1>11. /\ Framed(Serialized(tx, scripts), n)
       /\ Len(Serialized(tx, scripts)) = Len(abcdef) + 4
       /\ Serialized(tx, scripts) \in Seq(S)
  BY <1>5, <1>10, Zenon
<1>12. Len(Serialized(tx, scripts))
         = Len(c) + Len(tx.pay.script) + Len(tx.change.script) + 28
  <2> DEFINE x == Len(c)
             y == Len(tx.pay.script)
             z == Len(tx.change.script)
  <2>1. x \in Nat /\ y \in Nat /\ z \in Nat
    BY <1>3, <1>4, Zenon
  <2>2. Len(Serialized(tx, scripts)) = ((((5 + x) + 1) + (9 + y)) + (9 + z)) + 4
    BY <1>1, <1>2, <1>4, <1>6, <1>7, <1>8, <1>9, <1>11, Zenon
  <2> HIDE DEF x, y, z
  <2>3. Len(Serialized(tx, scripts)) = x + y + z + 28
    BY <2>1, <2>2
  <2> QED
    BY <2>3 DEF x, y, z
<1> QED
  BY <1>11, <1>12, Zenon DEF c, n

(* ... and how long it is at most when no script is longer than m. *)
ScriptsWithin(S, tx, scripts, m) ==
  /\ Byte \subseteq S /\ IsTx(tx) /\ m \in Nat
  /\ \A j \in DOMAIN tx.inputs : scripts[j] \in Seq(S) /\ Len(scripts[j]) <= m
  /\ Len(tx.pay.script) <= 25 /\ Len(tx.change.script) <= 25

LEMMA SerializedBound ==
  ASSUME NEW S, NEW tx, NEW scripts, NEW m, ScriptsWithin(S, tx, scripts, m)
  PROVE  Len(Serialized(tx, scripts)) \in 0 .. 160 + m + m
<1>0. /\ Byte \subseteq S /\ IsTx(tx) /\ m \in Nat
      /\ \A j \in DOMAIN tx.inputs : scripts[j] \in Seq(S) /\ Len(scripts[j]) <= m
      /\ Len(tx.pay.script) <= 25 /\ Len(tx.change.script) <= 25
  BY DEF ScriptsWithin
<1> DEFINE ins == Len(InputFields(tx, scripts))
           pay == Len(tx.pay.script)
           change == Len(tx.change.script)
           first == Len(scripts[1])
           second == Len(scripts[2])
<1>1. pay \in 0 .. 25 /\ change \in 0 .. 25
  <2>1. tx.pay.script \in Seq(Byte) /\ tx.change.script \in Seq(Byte)
    BY <1>0 DEF IsTx, IsOutput
  <2>2. pay \in Nat /\ change \in Nat /\ pay <= 25 /\ change <= 25
    BY <1>0, <2>1, LenProperties
  <2> HIDE DEF pay, change
  <2> QED
    BY <2>2
<1>2. Len(Serialized(tx, scripts)) = ins + pay + change + 28
  BY <1>0, SerializedType
<1>3. /\ Len(tx.inputs) = 1 => ins = 41 + first
      /\ Len(tx.inputs) = 2 => ins = 82 + first + second
  <2>1. Carries(S, tx, scripts)
    BY <1>0 DEF Carries
  <2>2. InputsMeasured(S, tx, scripts)
    BY <2>1, InputFieldsType, Zenon
  <2> QED
    BY <2>2 DEF InputsMeasured
<1>4. ASSUME NEW j \in DOMAIN tx.inputs PROVE Len(scripts[j]) \in 0 .. m
  BY <1>0, LenProperties
<1>5. \/ Len(tx.inputs) = 1 /\ first \in 0 .. m
      \/ Len(tx.inputs) = 2 /\ first \in 0 .. m /\ second \in 0 .. m
  BY <1>0, <1>4, Counted
<1> HIDE DEF ins, pay, change, first, second
<1>6. ins \in 0 .. 82 + m + m
  BY <1>0, <1>3, <1>5
<1> QED
  BY <1>0, <1>1, <1>2, <1>6
LEMMA CountFitsByte ==
  ASSUME NEW tx, IsTx(tx)
  PROVE  Len(tx.inputs) \in Nat /\ Len(tx.inputs) \in 0 .. 255
<1>1. PICK count : count = Len(tx.inputs)
  OBVIOUS
<1>2. count = 1 \/ count = 2
  BY <1>1, Counted, Zenon
<1>3. count \in Nat /\ count \in 0 .. 255
  BY <1>2
<1> QED
  BY <1>1, <1>3, Zenon
-----------------------------------------------------------------------------
(* What a reader makes of the bytes. *)

(* Left opaque to the provers, concatenation is but a function. *)
Cat(s, t) == s \o t

LEMMA CatIn ==
  ASSUME NEW S, NEW s \in Seq(S), NEW t \in Seq(S)
  PROVE  /\ Cat(s, t) \in Seq(S) /\ Len(Cat(s, t)) = Len(s) + Len(t)
         /\ Len(s) \in Nat /\ Len(t) \in Nat
         /\ \A i \in 1 .. Len(s) + Len(t) :
              Cat(s, t)[i] = IF i <= Len(s) THEN s[i] ELSE t[i - Len(s)]
BY ConcatProperties, LenProperties DEF Cat

(* The bytes b have s from at on. *)
Has(S, b, from, s) ==
  /\ s \in Seq(S) /\ from \in Nat \ {0}
  /\ from + Len(s) <= Len(b) + 1
  /\ \A k \in 1 .. Len(s) : b[from + (k - 1)] = s[k]

LEMMA HasAll ==
  ASSUME NEW S, NEW b \in Seq(S)
  PROVE  Has(S, b, 1, b)
<1>1. Len(b) \in Nat
  BY LenProperties
<1>2. \A k \in 1 .. Len(b) : 1 + (k - 1) = k
  BY <1>1
<1> QED
  BY <1>1, <1>2 DEF Has

LEMMA HasParts ==
  ASSUME NEW S, NEW b \in Seq(S), NEW from, NEW s \in Seq(S), NEW t \in Seq(S),
         Has(S, b, from, Cat(s, t))
  PROVE  Has(S, b, from, s) /\ Has(S, b, from + Len(s), t)
<1>1. PICK st : st = Cat(s, t)
  OBVIOUS
<1>2. /\ Len(s) \in Nat /\ Len(t) \in Nat /\ Len(st) = Len(s) + Len(t)
      /\ \A i \in 1 .. Len(s) + Len(t) : st[i] = IF i <= Len(s) THEN s[i] ELSE t[i - Len(s)]
  BY <1>1, CatIn
<1>3. /\ from \in Nat \ {0} /\ from + (Len(s) + Len(t)) <= Len(b) + 1
      /\ \A k \in 1 .. Len(s) + Len(t) : b[from + (k - 1)] = st[k]
  BY <1>1, <1>2 DEF Has
<1>4. Len(b) \in Nat
  BY LenProperties
<1>5. ASSUME NEW k \in 1 .. Len(s) PROVE b[from + (k - 1)] = s[k]
  <2>1. k \in 1 .. Len(s) + Len(t) /\ k <= Len(s)
    BY <1>2
  <2> QED
    BY <1>2, <1>3, <2>1
<1>6. ASSUME NEW k \in 1 .. Len(t) PROVE b[(from + Len(s)) + (k - 1)] = t[k]
  <2>1. /\ Len(s) + k \in 1 .. Len(s) + Len(t) /\ ~(Len(s) + k <= Len(s))
        /\ (Len(s) + k) - Len(s) = k /\ from + ((Len(s) + k) - 1) = (from + Len(s)) + (k - 1)
    BY <1>2, <1>3
  <2> QED
    BY <1>2, <1>3, <2>1
<1> QED
  BY <1>2, <1>3, <1>4, <1>5, <1>6 DEF Has

LEMMA TakeHas ==
  ASSUME NEW S, NEW b \in Seq(S), NEW from, NEW s \in Seq(S), Has(S, b, from, s)
  PROVE  Take(b, from, Len(s)) = s
<1>1. Len(s) \in Nat /\ Len(b) \in Nat /\ from \in Nat \ {0} /\ from + Len(s) <= Len(b) + 1
  BY LenProperties DEF Has
<1>2. from \in 1 .. Len(b) + 1 /\ from + Len(s) - 1 \in from - 1 .. Len(b)
  BY <1>1
<1>3. PICK m, n : m = from /\ n = from + Len(s) - 1
  OBVIOUS
<1>4. /\ SubSeq(b, m, n) \in Seq(S)
      /\ Len(SubSeq(b, m, n)) = n - m + 1
      /\ \A i \in 1 .. n - m + 1 : SubSeq(b, m, n)[i] = b[m + i - 1]
  <2>1. m \in 1 .. Len(b) + 1 /\ n \in m - 1 .. Len(b)
    BY <1>2, <1>3
  <2> QED
    BY <2>1, SubSeqProperties
<1>5. PICK t : t = SubSeq(b, m, n)
  OBVIOUS
<1>6. n - m + 1 = Len(s)
  BY <1>1, <1>3
<1>7. \A i \in 1 .. Len(s) : t[i] = s[i]
  <2>1. \A i \in 1 .. Len(s) : m + i - 1 = from + (i - 1)
    BY <1>1, <1>3
  <2>2. \A i \in 1 .. Len(s) : b[from + (i - 1)] = s[i]
    BY DEF Has
  <2> QED
    BY <1>4, <1>5, <1>6, <2>1, <2>2
<1>8. t \in Seq(S) /\ Len(t) = Len(s)
  BY <1>4, <1>5, <1>6
<1>9. t = s
  BY <1>7, <1>8, SeqEqual
<1> QED
  BY <1>3, <1>5, <1>9 DEF Take

-----------------------------------------------------------------------------
(* Numbers. *)

LEMMA FourBytes ==
  ASSUME NEW b, NEW from
  PROVE  NumberAt(b, from, 4)
           = b[from + 0] + 256 * (b[from + 1] + 256 * (b[from + 2] + 256 * (b[from + 3] + 256 * 0)))
<1> DEFINE h3 == b[from + 3] + 256 * 0
           h2 == b[from + 2] + 256 * h3
           h1 == b[from + 1] + 256 * h2
           h0 == b[from + 0] + 256 * h1
           f == [k \in 0 .. 4 |-> IF k = 4 THEN 0 ELSE IF k = 3 THEN h3 ELSE
                                  IF k = 2 THEN h2 ELSE IF k = 1 THEN h1 ELSE h0]
           High(g, k) == IF k = 4 THEN 0 ELSE b[from + k] + 256 * g[k + 1]
<1>1. f = [k \in 0 .. 4 |-> High(f, k)]
  OBVIOUS
<1>2. \E g : g = [k \in 0 .. 4 |-> High(g, k)]
  BY <1>1
<1>3. PICK g : g = [k \in 0 .. 4 |-> High(g, k)] /\ NumberAt(b, from, 4) = g[0]
  BY <1>2 DEF NumberAt
<1> QED
  BY <1>3

Folded(b0, b1, b2, b3, b4, b5, b6, b7) ==
  b0 + 256 * (b1 + 256 * (b2 + 256 * (b3 + 256 *
   (b4 + 256 * (b5 + 256 * (b6 + 256 * (b7 + 256 * 0)))))))

LEMMA EightBytes ==
  ASSUME NEW b, NEW from
  PROVE  NumberAt(b, from, 8)
           = Folded(b[from + 0], b[from + 1], b[from + 2], b[from + 3],
                    b[from + 4], b[from + 5], b[from + 6], b[from + 7])
<1> DEFINE h7 == b[from + 7] + 256 * 0
           h6 == b[from + 6] + 256 * h7
           h5 == b[from + 5] + 256 * h6
           h4 == b[from + 4] + 256 * h5
           h3 == b[from + 3] + 256 * h4
           h2 == b[from + 2] + 256 * h3
           h1 == b[from + 1] + 256 * h2
           h0 == b[from + 0] + 256 * h1
           f == [k \in 0 .. 8 |->
                  IF k = 8 THEN 0 ELSE IF k = 7 THEN h7 ELSE IF k = 6 THEN h6 ELSE
                  IF k = 5 THEN h5 ELSE IF k = 4 THEN h4 ELSE IF k = 3 THEN h3 ELSE
                  IF k = 2 THEN h2 ELSE IF k = 1 THEN h1 ELSE h0]
           High(g, k) == IF k = 8 THEN 0 ELSE b[from + k] + 256 * g[k + 1]
<1>1. f = [k \in 0 .. 8 |-> High(f, k)]
  <2> HIDE DEF h0, h1, h2, h3, h4, h5, h6, h7
  <2>1. \A k \in 0 .. 8 : k \in {0, 1, 2, 3, 4, 5, 6, 7, 8}
    OBVIOUS
  <2>2. /\ f[1] = h1 /\ f[2] = h2 /\ f[3] = h3 /\ f[4] = h4 /\ f[5] = h5 /\ f[6] = h6
        /\ f[7] = h7 /\ f[8] = 0 /\ f[0] = h0
    OBVIOUS
  <2> HIDE DEF f
  <2>3. /\ High(f, 0) = b[from + 0] + 256 * h1 /\ High(f, 1) = b[from + 1] + 256 * h2
        /\ High(f, 2) = b[from + 2] + 256 * h3 /\ High(f, 3) = b[from + 3] + 256 * h4
        /\ High(f, 4) = b[from + 4] + 256 * h5 /\ High(f, 5) = b[from + 5] + 256 * h6
        /\ High(f, 6) = b[from + 6] + 256 * h7 /\ High(f, 7) = b[from + 7] + 256 * 0
        /\ High(f, 8) = 0
    BY <2>2
  <2>4. /\ h0 = b[from + 0] + 256 * h1 /\ h1 = b[from + 1] + 256 * h2
        /\ h2 = b[from + 2] + 256 * h3 /\ h3 = b[from + 3] + 256 * h4
        /\ h4 = b[from + 4] + 256 * h5 /\ h5 = b[from + 5] + 256 * h6
        /\ h6 = b[from + 6] + 256 * h7 /\ h7 = b[from + 7] + 256 * 0
    BY Zenon DEF h0, h1, h2, h3, h4, h5, h6, h7
  <2> HIDE DEF High
  <2>5. /\ f[0] = High(f, 0) /\ f[1] = High(f, 1) /\ f[2] = High(f, 2)
        /\ f[3] = High(f, 3) /\ f[4] = High(f, 4) /\ f[5] = High(f, 5)
        /\ f[6] = High(f, 6) /\ f[7] = High(f, 7) /\ f[8] = High(f, 8)
    <3>1. /\ h0 = High(f, 0) /\ h1 = High(f, 1) /\ h2 = High(f, 2) /\ h3 = High(f, 3)
          /\ h4 = High(f, 4) /\ h5 = High(f, 5) /\ h6 = High(f, 6) /\ h7 = High(f, 7)
      BY <2>3, <2>4, Zenon
    <3>2. 0 = High(f, 8)
      BY <2>3, Zenon
    <3> QED
      BY <2>2, <3>1, <3>2, Zenon
  <2>6. \A k \in 0 .. 8 : f[k] = High(f, k)
    BY <2>1, <2>5
  <2>7. f = [k \in 0 .. 8 |-> f[k]]
    BY DEF f
  <2> QED
    BY <2>6, <2>7, Zenon
<1>2. \E g : g = [k \in 0 .. 8 |-> High(g, k)]
  BY <1>1
<1>3. PICK g : g = [k \in 0 .. 8 |-> High(g, k)] /\ NumberAt(b, from, 8) = g[0]
  BY <1>2 DEF NumberAt
<1>4. /\ g[0] = b[from + 0] + 256 * g[1] /\ g[1] = b[from + 1] + 256 * g[2]
      /\ g[2] = b[from + 2] + 256 * g[3] /\ g[3] = b[from + 3] + 256 * g[4]
      /\ g[4] = b[from + 4] + 256 * g[5] /\ g[5] = b[from + 5] + 256 * g[6]
      /\ g[6] = b[from + 6] + 256 * g[7] /\ g[7] = b[from + 7] + 256 * g[8] /\ g[8] = 0
  BY <1>3
<1>5. g[7] = h7 /\ g[6] = h6
  BY <1>4
<1>6. g[5] = h5 /\ g[4] = h4
  <2> HIDE DEF h6
  <2> QED
    BY <1>4, <1>5
<1>7. g[3] = h3 /\ g[2] = h2
  <2> HIDE DEF h4
  <2> QED
    BY <1>4, <1>6
<1>8. g[1] = h1 /\ g[0] = h0
  <2> HIDE DEF h2
  <2> QED
    BY <1>4, <1>7
<1>9. NumberAt(b, from, 8) = h0
  <2> HIDE DEF h0
  <2> QED
    BY <1>3, <1>8
<1> QED
  BY <1>9 DEF Folded

(* The bytes of a number and its halves, opaque to the provers. *)
B0(n) == n % 256
B1(n) == (n \div 256) % 256
B2(n) == (n \div 65536) % 256
B3(n) == (n \div 16777216) % 256
Low(n) == n % 65536
Middle(n) == (n \div 65536) % 65536
High(n) == (n \div 65536) \div 65536

LEMMA BytesOf ==
  ASSUME NEW n \in Nat
  PROVE  /\ B0(n) \in Nat /\ B1(n) \in Nat /\ B2(n) \in Nat /\ B3(n) \in Nat
         /\ Low(n) \in Nat /\ Middle(n) \in Nat /\ High(n) \in Nat
         /\ B0(n) + 256 * B1(n) = Low(n)
         /\ B2(n) + 256 * B3(n) = Middle(n)
         /\ n = Low(n) + 65536 * (Middle(n) + 65536 * High(n))
         /\ n \div 65536 < 65536 => n = Low(n) + 65536 * Middle(n)
<1>1. \A k \in Nat : k % 65536 = (k % 256) + 256 * ((k \div 256) % 256)
  OBVIOUS
<1>2. n \div 65536 \in Nat /\ (n \div 65536) \div 256 = n \div 16777216
  OBVIOUS
<1>3. B0(n) \in Nat /\ B1(n) \in Nat /\ B2(n) \in Nat /\ B3(n) \in Nat
  BY DEF B0, B1, B2, B3
<1>4. Low(n) \in Nat /\ Middle(n) \in Nat /\ High(n) \in Nat
  BY DEF Low, Middle, High
<1>5. B0(n) + 256 * B1(n) = Low(n) /\ B2(n) + 256 * B3(n) = Middle(n)
  BY <1>1, <1>2 DEF B0, B1, B2, B3, Low, Middle
<1>6. n = Low(n) + 65536 * (Middle(n) + 65536 * High(n))
  BY DEF Low, Middle, High
<1>7. n \div 65536 < 65536 => n = Low(n) + 65536 * Middle(n)
  BY DEF Low, Middle
<1> QED
  BY <1>3, <1>4, <1>5, <1>6, <1>7

Bytes4(b, from, n) ==
  /\ from \in Nat
  /\ b[from + 0] = B0(n) /\ b[from + 1] = B1(n)
  /\ b[from + 2] = B2(n) /\ b[from + 3] = B3(n)

LEMMA HasBytes4 ==
  ASSUME NEW S, NEW b \in Seq(S), NEW from, NEW n \in Nat, Has(S, b, from, U32LE(n))
  PROVE  Bytes4(b, from, n)
<1>1. PICK s : s = U32LE(n)
  OBVIOUS
<1>2. Len(s) = 4 /\ s[1] = B0(n) /\ s[2] = B1(n) /\ s[3] = B2(n) /\ s[4] = B3(n)
  BY <1>1 DEF U32LE, B0, B1, B2, B3
<1>3. Has(S, b, from, s)
  BY <1>1
<1>4. from \in Nat /\ \A k \in 1 .. 4 : b[from + (k - 1)] = s[k]
  BY <1>2, <1>3 DEF Has
<1>5. /\ b[from + 0] = s[1] /\ b[from + 1] = s[2]
      /\ b[from + 2] = s[3] /\ b[from + 3] = s[4]
  <2>1. /\ b[from + (1 - 1)] = s[1] /\ b[from + (2 - 1)] = s[2]
        /\ b[from + (3 - 1)] = s[3] /\ b[from + (4 - 1)] = s[4]
    BY <1>4
  <2> QED
    BY <2>1
<1> QED
  BY <1>2, <1>4, <1>5 DEF Bytes4

LEMMA WordIs ==
  ASSUME NEW n \in Nat, n \div 65536 < 65536
  PROVE  B0(n) + 256 * (B1(n) + 256 * (B2(n) + 256 * (B3(n) + 256 * 0))) = n
<1>1. /\ B0(n) \in Nat /\ B1(n) \in Nat /\ B2(n) \in Nat /\ B3(n) \in Nat
      /\ B0(n) + 256 * B1(n) = Low(n) /\ B2(n) + 256 * B3(n) = Middle(n)
      /\ n = Low(n) + 65536 * Middle(n)
  BY BytesOf
<1> QED
  BY <1>1

(* A number is what its bytes say. *)
LEMMA ReadNumber4 ==
  ASSUME NEW S, NEW b \in Seq(S), NEW from, NEW n \in Nat, n \div 65536 < 65536,
         Has(S, b, from, U32LE(n))
  PROVE  NumberAt(b, from, 4) = n
<1>1. NumberAt(b, from, 4) = B0(n) + 256 * (B1(n) + 256 * (B2(n) + 256 * (B3(n) + 256 * 0)))
  <2>1. Bytes4(b, from, n)
    BY HasBytes4
  <2>2. /\ b[from + 0] = B0(n) /\ b[from + 1] = B1(n)
        /\ b[from + 2] = B2(n) /\ b[from + 3] = B3(n)
    BY <2>1 DEF Bytes4
  <2> QED
    BY <2>2, FourBytes
<1> QED
  BY <1>1, WordIs

LEMMA FoldedIs ==
  ASSUME NEW n \in Nat, High(n) \div 65536 < 65536
  PROVE  Folded(B0(n), B1(n), B2(n), B3(n),
                B0(High(n)), B1(High(n)), B2(High(n)), B3(High(n))) = n
<1>1. PICK m \in Nat : m = High(n)
  BY BytesOf
<1>2. /\ B0(n) \in Nat /\ B1(n) \in Nat /\ B2(n) \in Nat /\ B3(n) \in Nat
      /\ B0(n) + 256 * B1(n) = Low(n) /\ B2(n) + 256 * B3(n) = Middle(n)
      /\ n = Low(n) + 65536 * (Middle(n) + 65536 * m)
  BY <1>1, BytesOf
<1>3. /\ B0(m) \in Nat /\ B1(m) \in Nat /\ B2(m) \in Nat /\ B3(m) \in Nat
      /\ B0(m) + 256 * B1(m) = Low(m) /\ B2(m) + 256 * B3(m) = Middle(m)
      /\ m = Low(m) + 65536 * Middle(m)
  BY <1>1, BytesOf
<1>4. Folded(B0(n), B1(n), B2(n), B3(n), B0(m), B1(m), B2(m), B3(m)) = n
  BY <1>2, <1>3 DEF Folded
<1> QED
  BY <1>1, <1>4

LEMMA ReadNumber8 ==
  ASSUME NEW S, Byte \subseteq S, NEW b \in Seq(S), NEW from, NEW n \in Amount,
         Has(S, b, from, U64LE(n))
  PROVE  NumberAt(b, from, 8) = n
<1>1. n \in Nat /\ High(n) \div 65536 < 65536
  BY TxCoreAssumption DEF Amount, High
<1>2. PICK m \in Nat : m = High(n) /\ U64LE(n) = Cat(U32LE(n), U32LE(m))
  <2>1. High(n) \in Nat
    BY <1>1, BytesOf
  <2>2. U64LE(n) = Cat(U32LE(n), U32LE(High(n)))
    BY DEF U64LE, High, Cat
  <2> QED
    BY <2>1, <2>2
<1>3. /\ U32LE(n) \in Seq(S) /\ Len(U32LE(n)) = 4 /\ U32LE(m) \in Seq(S)
  <2>1. \A k \in Nat : U32LE(k) \in Seq(Byte) /\ Len(U32LE(k)) = 4
    BY NumberType
  <2> QED
    BY <1>1, <2>1, BytesIn
<1>4. PICK behind : /\ behind = from + 4
                    /\ Has(S, b, from, U32LE(n)) /\ Has(S, b, behind, U32LE(m))
  <2>1. PICK whole, low, high : whole = U64LE(n) /\ low = U32LE(n) /\ high = U32LE(m)
    OBVIOUS
  <2>2. /\ Has(S, b, from, Cat(low, high)) /\ low \in Seq(S) /\ high \in Seq(S)
        /\ Len(low) = 4
    BY <1>2, <1>3, <2>1, Zenon
  <2>3. Has(S, b, from, low) /\ Has(S, b, from + Len(low), high)
    BY <2>2, HasParts, Zenon
  <2> QED
    BY <2>1, <2>2, <2>3, Zenon
<1>5. Bytes4(b, from, n) /\ Bytes4(b, behind, m)
  BY <1>1, <1>4, HasBytes4
<1>6. /\ b[from + 0] = B0(n) /\ b[from + 1] = B1(n)
      /\ b[from + 2] = B2(n) /\ b[from + 3] = B3(n)
      /\ b[from + 4] = B0(m) /\ b[from + 5] = B1(m)
      /\ b[from + 6] = B2(m) /\ b[from + 7] = B3(m)
  <2>1. /\ behind + 0 = from + 4 /\ behind + 1 = from + 5
        /\ behind + 2 = from + 6 /\ behind + 3 = from + 7
    BY <1>4, <1>5 DEF Bytes4
  <2> QED
    BY <1>5, <2>1 DEF Bytes4
<1>7. NumberAt(b, from, 8)
        = Folded(B0(n), B1(n), B2(n), B3(n), B0(m), B1(m), B2(m), B3(m))
  BY <1>6, EightBytes
<1>8. Folded(B0(n), B1(n), B2(n), B3(n), B0(m), B1(m), B2(m), B3(m)) = n
  BY <1>1, <1>2, FoldedIs
<1> QED
  BY <1>7, <1>8

-----------------------------------------------------------------------------
(* Fields. *)

LEMMA ReadField ==
  ASSUME NEW S, Byte \subseteq S, NEW b \in Seq(S), NEW from, NEW script \in Seq(S),
         Len(script) <= MaxScript, Has(S, b, from, ScriptField(script))
  PROVE  /\ FieldAt(b, from) = script
         /\ AfterField(b, from) = from + (1 + Len(script))
         /\ from \in Nat /\ Len(script) \in Nat
<1>1. PICK n \in Nat : n = Len(script) /\ n <= MaxScript
  BY LenProperties
<1>2. ScriptField(script) = Cat(U8(n), script)
  BY <1>1 DEF ScriptField, Cat
<1>3. U8(n) \in Seq(S) /\ Len(U8(n)) = 1 /\ U8(n)[1] = n
  <2>1. U8(n) \in Seq(Byte) /\ Len(U8(n)) = 1
    BY NumberType
  <2>2. U8(n)[1] = n
    BY <1>1 DEF U8, MaxScript
  <2> QED
    BY <2>1, <2>2, BytesIn
<1>4. Has(S, b, from, U8(n)) /\ Has(S, b, from + 1, script)
  BY <1>2, <1>3, HasParts
<1>5. b[from] = n /\ from \in Nat
  <2>1. from \in Nat /\ \A k \in 1 .. 1 : b[from + (k - 1)] = U8(n)[k]
    BY <1>3, <1>4 DEF Has
  <2>2. from + (1 - 1) = from
    BY <2>1
  <2> QED
    BY <1>3, <2>1, <2>2
<1>6. FieldAt(b, from) = script
  BY <1>1, <1>4, <1>5, TakeHas DEF FieldAt
<1>7. AfterField(b, from) = from + (1 + n)
  BY <1>5 DEF AfterField
<1> QED
  BY <1>1, <1>5, <1>6, <1>7

LEMMA ReadsInput ==
  ASSUME NEW S, Byte \subseteq S, NEW b \in Seq(S), NEW from, NEW coin, IsCoin(coin),
         NEW script \in Seq(S), Len(script) <= MaxScript,
         Has(S, b, from, InputField(coin, script))
  PROVE  /\ ReadInput(b, from)
              = [outpoint |-> [txid |-> coin.txid, vout |-> coin.vout], script |-> script]
         /\ AfterField(b, from + 36) + 4 = from + Len(InputField(coin, script))
<1>1. PICK t, v, f : t = coin.txid /\ v = U32LE(coin.vout) /\ f = ScriptField(script)
  OBVIOUS
<1>2. /\ t \in Seq(S) /\ Len(t) = 32 /\ v \in Seq(S) /\ Len(v) = 4
      /\ f \in Seq(S) /\ Len(f) = 1 + Len(script) /\ Sequence \in Seq(S) /\ Len(Sequence) = 4
  <2>1. t \in Seq(S) /\ Len(t) = 32
    BY <1>1, BytesIn DEF IsCoin
  <2>2. v \in Seq(S) /\ Len(v) = 4
    BY <1>1, NumberType, BytesIn DEF IsCoin
  <2>3. f \in Seq(S) /\ Len(f) = 1 + Len(script)
    BY <1>1, ScriptFieldType
  <2> QED
    BY <2>1, <2>2, <2>3, ConstantType, BytesIn
<1>3. InputField(coin, script) = Cat(Cat(Cat(t, v), f), Sequence)
  BY <1>1 DEF InputField, Cat
<1>4. /\ Cat(t, v) \in Seq(S) /\ Len(Cat(t, v)) = 36
      /\ Cat(Cat(t, v), f) \in Seq(S)
  <2>1. Cat(t, v) \in Seq(S) /\ Len(Cat(t, v)) = Len(t) + Len(v)
    <3>1. t \in Seq(S) /\ v \in Seq(S)
      BY <1>2
    <3> QED
      BY <3>1, CatIn, Zenon
  <2>2. Len(Cat(t, v)) = 36
    BY <1>2, <2>1
  <2>3. Cat(Cat(t, v), f) \in Seq(S)
    BY <1>2, <2>1, CatIn
  <2> QED
    BY <2>1, <2>2, <2>3
<1>5. Has(S, b, from, Cat(Cat(t, v), f))
  <2>1. /\ Cat(Cat(t, v), f) \in Seq(S) /\ Sequence \in Seq(S)
        /\ Has(S, b, from, Cat(Cat(Cat(t, v), f), Sequence))
    BY <1>2, <1>3, <1>4
  <2> QED
    BY <2>1, HasParts, Zenon
<1>6. Has(S, b, from, Cat(t, v)) /\ Has(S, b, from + 36, f)
  <2>1. Cat(t, v) \in Seq(S) /\ f \in Seq(S)
    BY <1>2, <1>4
  <2>2. Has(S, b, from, Cat(t, v)) /\ Has(S, b, from + Len(Cat(t, v)), f)
    BY <1>5, <2>1, HasParts, Zenon
  <2>3. PICK size : size = Len(Cat(t, v)) /\ size = 36
    BY <1>4
  <2> QED
    BY <2>2, <2>3
<1>7. Has(S, b, from, t) /\ Has(S, b, from + 32, v)
  <2>1. t \in Seq(S) /\ v \in Seq(S)
    BY <1>2
  <2>2. Has(S, b, from, t) /\ Has(S, b, from + Len(t), v)
    BY <1>6, <2>1, HasParts, Zenon
  <2>3. PICK size : size = Len(t) /\ size = 32
    BY <1>2
  <2> QED
    BY <2>2, <2>3
<1>8. Take(b, from, 32) = coin.txid
  <2>1. Take(b, from, Len(t)) = t
    BY <1>2, <1>7, TakeHas
  <2> QED
    BY <1>1, <1>2, <2>1
<1>9. NumberAt(b, from + 32, 4) = coin.vout
  BY <1>1, <1>7, ReadNumber4 DEF IsCoin
<1>10. /\ FieldAt(b, from + 36) = script
       /\ AfterField(b, from + 36) = (from + 36) + (1 + Len(script))
       /\ Len(script) \in Nat
  BY <1>1, <1>6, ReadField
<1>11. Len(InputField(coin, script)) = 41 + Len(script) /\ from \in Nat
  BY InputFieldType DEF Has
<1>12. AfterField(b, from + 36) + 4 = from + Len(InputField(coin, script))
  BY <1>10, <1>11
<1> QED
  BY <1>8, <1>9, <1>10, <1>12 DEF ReadInput

LEMMA ReadsOutput ==
  ASSUME NEW S, Byte \subseteq S, NEW b \in Seq(S), NEW from, NEW output, IsOutput(output),
         Len(output.script) <= MaxScript, Has(S, b, from, OutputField(output))
  PROVE  /\ ReadOutput(b, from) = output
         /\ AfterField(b, from + 8) + 0 = from + Len(OutputField(output))
<1>1. PICK v, f : v = U64LE(output.sats) /\ f = ScriptField(output.script)
  OBVIOUS
<1>2. output.script \in Seq(S) /\ output.sats \in Amount
      /\ output = [script |-> output.script, sats |-> output.sats]
  BY BytesIn DEF IsOutput
<1>3. v \in Seq(S) /\ Len(v) = 8 /\ f \in Seq(S) /\ Len(f) = 1 + Len(output.script)
  <2>1. v \in Seq(S) /\ Len(v) = 8
    BY <1>1, <1>2, NumberType, BytesIn, TxCoreAssumption DEF Amount
  <2> QED
    BY <1>1, <1>2, <2>1, ScriptFieldType
<1>4. OutputField(output) = Cat(v, f)
  BY <1>1 DEF OutputField, Cat
<1>5. Has(S, b, from, v) /\ Has(S, b, from + 8, f)
  <2>1. Has(S, b, from, Cat(v, f))
    BY <1>4
  <2>2. Has(S, b, from, v) /\ Has(S, b, from + Len(v), f)
    BY <1>3, <2>1, HasParts
  <2> QED
    BY <1>3, <2>2
<1>6. NumberAt(b, from, 8) = output.sats
  BY <1>1, <1>2, <1>5, ReadNumber8
<1>7. /\ FieldAt(b, from + 8) = output.script
      /\ AfterField(b, from + 8) = (from + 8) + (1 + Len(output.script))
      /\ Len(output.script) \in Nat
  BY <1>1, <1>2, <1>5, ReadField
<1>8. Len(OutputField(output)) = 9 + Len(output.script) /\ from \in Nat
  BY OutputFieldType DEF Has
<1>9. AfterField(b, from + 8) + 0 = from + Len(OutputField(output))
  <2>1. PICK l \in Nat : l = Len(output.script)
    BY <1>7
  <2>2. (from + 8) + (1 + l) + 0 = from + (9 + l)
    BY <1>8
  <2> QED
    BY <1>7, <1>8, <2>1, <2>2
<1> QED
  BY <1>2, <1>6, <1>7, <1>9 DEF ReadOutput

(* Where one or two items begin. *)
LEMMA OneItem ==
  ASSUME NEW b, NEW from, NEW before, NEW after
  PROVE  /\ ItemsAt(b, from, 1, before, after)[1] = from
         /\ ItemsAt(b, from, 1, before, after)[2] = AfterField(b, from + before) + after
<1> DEFINE f == [k \in 1 .. 1 + 1 |-> IF k = 1 THEN from ELSE AfterField(b, from + before) + after]
           Begin(g, k) == IF k = 1 THEN from ELSE AfterField(b, g[k - 1] + before) + after
<1>1. f = [k \in 1 .. 1 + 1 |-> Begin(f, k)]
  OBVIOUS
<1>2. \E g : g = [k \in 1 .. 1 + 1 |-> Begin(g, k)]
  BY <1>1
<1>3. PICK g : g = [k \in 1 .. 1 + 1 |-> Begin(g, k)] /\ ItemsAt(b, from, 1, before, after) = g
  BY <1>2 DEF ItemsAt
<1> QED
  BY <1>3

LEMMA TwoItems ==
  ASSUME NEW b, NEW from, NEW before, NEW after
  PROVE  LET second == AfterField(b, from + before) + after
             start == ItemsAt(b, from, 2, before, after)
         IN  /\ start[1] = from /\ start[2] = second
             /\ start[3] = AfterField(b, second + before) + after
<1> DEFINE second == AfterField(b, from + before) + after
           f == [k \in 1 .. 2 + 1 |-> IF k = 1 THEN from ELSE IF k = 2 THEN second
                                      ELSE AfterField(b, second + before) + after]
           Begin(g, k) == IF k = 1 THEN from ELSE AfterField(b, g[k - 1] + before) + after
<1>1. f = [k \in 1 .. 2 + 1 |-> Begin(f, k)]
  OBVIOUS
<1>2. \E g : g = [k \in 1 .. 2 + 1 |-> Begin(g, k)]
  BY <1>1
<1>3. PICK g : g = [k \in 1 .. 2 + 1 |-> Begin(g, k)] /\ ItemsAt(b, from, 2, before, after) = g
  BY <1>2 DEF ItemsAt
<1> QED
  BY <1>3

-----------------------------------------------------------------------------
(* A transaction. *)

ItemsOf(b, n, inputs, from, outputs) ==
  /\ n = b[5] /\ inputs = ItemsAt(b, 6, n, 36, 4) /\ from = inputs[n + 1]
  /\ b[from] = 2 /\ outputs = ItemsAt(b, from + 1, 2, 8, 0)

LEMMA ReadTxIs ==
  ASSUME NEW b, NEW n, NEW inputs, NEW from, NEW outputs, ItemsOf(b, n, inputs, from, outputs)
  PROVE  ReadTx(b) = [version |-> NumberAt(b, 1, 4),
                      inputs |-> [k \in 1 .. n |-> ReadInput(b, inputs[k])],
                      outputs |-> [k \in 1 .. 2 |-> ReadOutput(b, outputs[k])],
                      behind |-> SubSeq(b, outputs[2 + 1], Len(b))]
BY DEF ReadTx, ItemsOf

(* What is written of the inputs, with the scripts put in. *)
Written(tx, scripts) ==
  [j \in DOMAIN tx.inputs |-> [outpoint |-> Promise!Outpoint(tx.inputs[j]), script |-> scripts[j]]]

(* Scripts of one length byte. *)
Short(S, tx, scripts) ==
  /\ \A j \in DOMAIN tx.inputs : scripts[j] \in Seq(S) /\ Len(scripts[j]) <= MaxScript
  /\ Len(tx.pay.script) <= MaxScript /\ Len(tx.change.script) <= MaxScript

LEMMA ReadsInputs ==
  ASSUME NEW S, Byte \subseteq S, NEW b \in Seq(S), NEW tx, IsTx(tx), NEW scripts,
         Short(S, tx, scripts), Has(S, b, 6, InputFields(tx, scripts)),
         NEW n, n = Len(tx.inputs)
  PROVE  LET start == ItemsAt(b, 6, n, 36, 4)
         IN  /\ [k \in 1 .. n |-> ReadInput(b, start[k])] = Written(tx, scripts)
             /\ start[n + 1] = 6 + Len(InputFields(tx, scripts))
<1> DEFINE start == ItemsAt(b, 6, n, 36, 4)
           Item(j) == InputField(tx.inputs[j], scripts[j])
<1>1. ASSUME NEW j \in DOMAIN tx.inputs
      PROVE  /\ Item(j) \in Seq(S)
             /\ \A from : Has(S, b, from, Item(j)) =>
                  /\ ReadInput(b, from) = Written(tx, scripts)[j]
                  /\ AfterField(b, from + 36) + 4 = from + Len(Item(j))
  <2>1. IsCoin(tx.inputs[j]) /\ scripts[j] \in Seq(S) /\ Len(scripts[j]) <= MaxScript
    BY DEF IsTx, Short
  <2>2. PICK coin, script : coin = tx.inputs[j] /\ script = scripts[j]
    OBVIOUS
  <2>3. IsCoin(coin) /\ script \in Seq(S) /\ Len(script) <= MaxScript
    BY <2>1, <2>2
  <2>4. InputField(coin, script) \in Seq(S)
    BY <2>3, InputFieldType
  <2>5. \A from : Has(S, b, from, InputField(coin, script)) =>
          /\ ReadInput(b, from)
               = [outpoint |-> [txid |-> coin.txid, vout |-> coin.vout], script |-> script]
          /\ AfterField(b, from + 36) + 4 = from + Len(InputField(coin, script))
    BY <2>3, ReadsInput
  <2>6. Written(tx, scripts)[j]
          = [outpoint |-> [txid |-> coin.txid, vout |-> coin.vout], script |-> script]
    BY <2>2 DEF Written, Promise!Outpoint
  <2> QED
    BY <2>2, <2>4, <2>5, <2>6
<1>2. CASE Len(tx.inputs) = 1 /\ DOMAIN tx.inputs = {1}
  <2>1. InputFields(tx, scripts) = Item(1)
    <3>1. InputFields(tx, scripts) = Item(1) \o <<>>
      BY <1>2 DEF InputFields
    <3>2. Item(1) \in Seq(S)
      BY <1>1, <1>2
    <3> HIDE DEF Item
    <3> QED
      BY <3>1, <3>2, ConcatEmptySeq, Zenon
  <2> HIDE DEF Item
  <2>2. Has(S, b, 6, Item(1))
    BY <2>1
  <2>3. start[1] = 6 /\ start[2] = AfterField(b, 6 + 36) + 4
    BY <1>2, OneItem
  <2>4. start[2] = 6 + Len(Item(1)) /\ ReadInput(b, start[1]) = Written(tx, scripts)[1]
    BY <1>1, <1>2, <2>2, <2>3
  <2>5. [k \in 1 .. n |-> ReadInput(b, start[k])] = Written(tx, scripts)
    <3>1. 1 .. n = {1} /\ DOMAIN tx.inputs = {1}
      BY <1>2
    <3>2. PICK w : w = Written(tx, scripts) /\ w = [k \in {1} |-> w[k]]
      BY <3>1 DEF Written
    <3> HIDE DEF start
    <3> QED
      BY <2>4, <3>1, <3>2
  <2> QED
    BY <1>2, <2>1, <2>4, <2>5
<1>3. CASE Len(tx.inputs) = 2 /\ DOMAIN tx.inputs = {1, 2}
  <2>1. InputFields(tx, scripts) = Cat(Item(1), Item(2))
    BY <1>3 DEF InputFields, Cat
  <2>2. Item(1) \in Seq(S) /\ Item(2) \in Seq(S)
    BY <1>1, <1>3
  <2> HIDE DEF Item
  <2>3. PICK from : /\ from = 6 + Len(Item(1))
                    /\ Has(S, b, 6, Item(1)) /\ Has(S, b, from, Item(2))
    <3>1. Has(S, b, 6, Cat(Item(1), Item(2)))
      BY <2>1
    <3> QED
      BY <2>2, <3>1, HasParts
  <2>4. AfterField(b, 6 + 36) + 4 = from
    BY <1>1, <1>3, <2>3
  <2>5. start[1] = 6 /\ start[2] = from /\ start[3] = AfterField(b, from + 36) + 4
    BY <1>3, <2>4, TwoItems
  <2>6. /\ ReadInput(b, start[1]) = Written(tx, scripts)[1]
        /\ ReadInput(b, start[2]) = Written(tx, scripts)[2]
        /\ start[3] = from + Len(Item(2))
    BY <1>1, <1>3, <2>3, <2>5
  <2>7. start[3] = 6 + Len(InputFields(tx, scripts))
    <3>1. /\ Len(Cat(Item(1), Item(2))) = Len(Item(1)) + Len(Item(2))
          /\ Len(Item(1)) \in Nat /\ Len(Item(2)) \in Nat
      BY <2>2, CatIn
    <3>2. PICK x, y \in Nat : x = Len(Item(1)) /\ y = Len(Item(2))
      BY <3>1
    <3>3. (6 + x) + y = 6 + (x + y)
      OBVIOUS
    <3> QED
      BY <2>1, <2>3, <2>6, <3>1, <3>2, <3>3
  <2>8. [k \in 1 .. n |-> ReadInput(b, start[k])] = Written(tx, scripts)
    <3>1. 1 .. n = {1, 2} /\ DOMAIN tx.inputs = {1, 2}
      BY <1>3
    <3>2. PICK w : w = Written(tx, scripts) /\ w = [k \in {1, 2} |-> w[k]]
      BY <3>1 DEF Written
    <3> HIDE DEF start
    <3> QED
      BY <2>6, <3>1, <3>2
  <2> QED
    BY <1>3, <2>7, <2>8
<1> QED
  BY <1>2, <1>3, Counted

LEMMA ReadsOutputs ==
  ASSUME NEW S, Byte \subseteq S, NEW b \in Seq(S), NEW tx, IsTx(tx), NEW scripts,
         Short(S, tx, scripts), NEW from \in Nat,
         Has(S, b, from, OutputField(tx.pay)),
         Has(S, b, from + Len(OutputField(tx.pay)), OutputField(tx.change))
  PROVE  LET start == ItemsAt(b, from, 2, 8, 0)
         IN  /\ [k \in 1 .. 2 |-> ReadOutput(b, start[k])] = Promise!Outputs(tx)
             /\ start[3] = (from + Len(OutputField(tx.pay))) + Len(OutputField(tx.change))
<1> DEFINE start == ItemsAt(b, from, 2, 8, 0)
<1>1. PICK second : second = from + Len(OutputField(tx.pay))
  OBVIOUS
<1>2. /\ IsOutput(tx.pay) /\ Len(tx.pay.script) <= MaxScript
      /\ IsOutput(tx.change) /\ Len(tx.change.script) <= MaxScript
  BY DEF IsTx, Short
<1>3. ReadOutput(b, from) = tx.pay /\ AfterField(b, from + 8) + 0 = second
  BY <1>1, <1>2, ReadsOutput
<1>4. /\ ReadOutput(b, second) = tx.change
      /\ AfterField(b, second + 8) + 0 = second + Len(OutputField(tx.change))
  BY <1>1, <1>2, ReadsOutput
<1>5. start[1] = from /\ start[2] = second /\ start[3] = AfterField(b, second + 8) + 0
  BY <1>3, TwoItems
<1> HIDE DEF start
<1>6. [k \in 1 .. 2 |-> ReadOutput(b, start[k])] = <<tx.pay, tx.change>>
  <2>1. PICK p, q : p = tx.pay /\ q = tx.change
    OBVIOUS
  <2>2. ReadOutput(b, start[1]) = p /\ ReadOutput(b, start[2]) = q
    BY <1>3, <1>4, <1>5, <2>1
  <2>3. [k \in 1 .. 2 |-> ReadOutput(b, start[k])] = <<p, q>>
    BY <2>2
  <2> QED
    BY <2>1, <2>3
<1> QED
  BY <1>1, <1>4, <1>5, <1>6 DEF start, Promise!Outputs

(* The fields of a transaction, one behind the other. *)
Fields(a, n, c, d, e, f, h) == Cat(Cat(Cat(Cat(Cat(Cat(a, n), c), d), e), f), h)

LEMMA Joined ==
  ASSUME NEW S, NEW s \in Seq(S), NEW t \in Seq(S), NEW st, st = Cat(s, t)
  PROVE  st \in Seq(S) /\ Len(st) = Len(s) + Len(t)
BY CatIn

Strings(S, a, n, c, d, e, f, h) ==
  /\ a \in Seq(S) /\ n \in Seq(S) /\ c \in Seq(S) /\ d \in Seq(S)
  /\ e \in Seq(S) /\ f \in Seq(S) /\ h \in Seq(S)
  /\ Len(a) = 4 /\ Len(n) = 1 /\ Len(d) = 1

LEMMA FieldsAt ==
  ASSUME NEW S, NEW a, NEW n, NEW c, NEW d, NEW e, NEW f, NEW h, NEW b,
         Strings(S, a, n, c, d, e, f, h), b = Fields(a, n, c, d, e, f, h)
  PROVE  \E from \in Nat :
           /\ from = 6 + Len(c) /\ b \in Seq(S)
           /\ Has(S, b, 1, a) /\ Has(S, b, 5, n) /\ Has(S, b, 6, c) /\ Has(S, b, from, d)
           /\ Has(S, b, from + 1, e) /\ Has(S, b, from + 1 + Len(e), f)
           /\ Has(S, b, from + 1 + Len(e) + Len(f), h)
           /\ Len(b) = from + Len(e) + Len(f) + Len(h)
<1>0. /\ a \in Seq(S) /\ n \in Seq(S) /\ c \in Seq(S) /\ d \in Seq(S)
      /\ e \in Seq(S) /\ f \in Seq(S) /\ h \in Seq(S)
      /\ Len(a) = 4 /\ Len(n) = 1 /\ Len(d) = 1
  BY DEF Strings
<1>1. PICK s1, s2, s3, s4, s5 :
        /\ s1 = Cat(a, n) /\ s2 = Cat(s1, c) /\ s3 = Cat(s2, d) /\ s4 = Cat(s3, e)
        /\ s5 = Cat(s4, f)
  OBVIOUS
<1>2. b = Cat(s5, h)
  BY <1>1 DEF Fields
<1>3. s1 \in Seq(S) /\ Len(s1) = Len(a) + Len(n)
  <2>1. a \in Seq(S) /\ n \in Seq(S)
    BY <1>0
  <2>2. s1 = Cat(a, n)
    BY <1>1
  <2> QED
    BY <2>1, <2>2, Joined
<1>4. s2 \in Seq(S) /\ Len(s2) = Len(s1) + Len(c)
  <2>1. s1 \in Seq(S) /\ c \in Seq(S)
    BY <1>0, <1>3
  <2>2. s2 = Cat(s1, c)
    BY <1>1
  <2> QED
    BY <2>1, <2>2, Joined
<1>5. s3 \in Seq(S) /\ Len(s3) = Len(s2) + Len(d)
  <2>1. s2 \in Seq(S) /\ d \in Seq(S)
    BY <1>0, <1>4
  <2>2. s3 = Cat(s2, d)
    BY <1>1
  <2> QED
    BY <2>1, <2>2, Joined
<1>6. s4 \in Seq(S) /\ Len(s4) = Len(s3) + Len(e)
  <2>1. s3 \in Seq(S) /\ e \in Seq(S)
    BY <1>0, <1>5
  <2>2. s4 = Cat(s3, e)
    BY <1>1
  <2> QED
    BY <2>1, <2>2, Joined
<1>7. s5 \in Seq(S) /\ Len(s5) = Len(s4) + Len(f)
  <2>1. s4 \in Seq(S) /\ f \in Seq(S)
    BY <1>0, <1>6
  <2>2. s5 = Cat(s4, f)
    BY <1>1
  <2> QED
    BY <2>1, <2>2, Joined
<1>8. b \in Seq(S) /\ Len(b) = Len(s5) + Len(h)
  <2>1. s5 \in Seq(S) /\ h \in Seq(S)
    BY <1>0, <1>7
  <2>2. b = Cat(s5, h)
    BY <1>2
  <2> QED
    BY <2>1, <2>2, Joined
<1>9. PICK x, y, z, w \in Nat : x = Len(c) /\ y = Len(e) /\ z = Len(f) /\ w = Len(h)
  BY <1>0, LenProperties
<1>10. /\ Len(s1) = 5 /\ Len(s2) = 5 + x /\ Len(s3) = 6 + x /\ Len(s4) = 6 + x + y
       /\ Len(s5) = 6 + x + y + z /\ Len(b) = 6 + x + y + z + w
  BY <1>0, <1>3, <1>4, <1>5, <1>6, <1>7, <1>8, <1>9
<1>11. Has(S, b, 1, s5) /\ Has(S, b, 1 + Len(s5), h)
  <2>1. Has(S, b, 1, Cat(s5, h))
    BY <1>2, <1>8, HasAll
  <2> QED
    BY <1>0, <1>7, <1>8, <2>1, HasParts
<1>12. Has(S, b, 1, s4) /\ Has(S, b, 1 + Len(s4), f)
  BY <1>0, <1>1, <1>6, <1>8, <1>11, HasParts
<1>13. Has(S, b, 1, s3) /\ Has(S, b, 1 + Len(s3), e)
  BY <1>0, <1>1, <1>5, <1>8, <1>12, HasParts
<1>14. Has(S, b, 1, s2) /\ Has(S, b, 1 + Len(s2), d)
  BY <1>0, <1>1, <1>4, <1>8, <1>13, HasParts
<1>15. Has(S, b, 1, s1) /\ Has(S, b, 1 + Len(s1), c)
  BY <1>0, <1>1, <1>3, <1>8, <1>14, HasParts
<1>16. Has(S, b, 1, a) /\ Has(S, b, 1 + Len(a), n)
  BY <1>0, <1>1, <1>8, <1>15, HasParts
<1>17. /\ 1 + Len(a) = 5 /\ 1 + Len(s1) = 6 /\ 1 + Len(s2) = 6 + x /\ 1 + Len(s3) = 6 + x + 1
       /\ 1 + Len(s4) = 6 + x + 1 + y /\ 1 + Len(s5) = 6 + x + 1 + y + z
  BY <1>0, <1>10
<1>18. 6 + x \in Nat /\ 6 + x = 6 + Len(c)
  BY <1>9
<1> QED
  BY <1>8, <1>9, <1>10, <1>11, <1>12, <1>13, <1>14, <1>15, <1>16, <1>17, <1>18

LEMMA HasOne ==
  ASSUME NEW S, NEW b \in Seq(S), NEW from, NEW n \in Byte, Has(S, b, from, U8(n))
  PROVE  b[from] = n
<1>1. Len(U8(n)) = 1 /\ U8(n)[1] = n
  BY DEF U8, Byte
<1>2. b[from + (1 - 1)] = U8(n)[1] /\ from \in Nat
  BY <1>1 DEF Has
<1>3. from + (1 - 1) = from
  BY <1>2
<1> QED
  BY <1>1, <1>2, <1>3

LEMMA CatRegroup ==
  ASSUME NEW S, NEW s \in Seq(S), NEW t \in Seq(S), NEW u \in Seq(S)
  PROVE  Cat(Cat(s, t), u) = Cat(s, Cat(t, u))
<1>1. (s \o t) \o u = s \o (t \o u)
  BY Regroup
<1> QED
  BY <1>1, Zenon DEF Cat

(* What the reader makes of a transaction of the core, and of the bytes    *)
(* behind it.                                                              *)
LEMMA ReadsTx ==
  ASSUME NEW S, Byte \subseteq S, NEW tx, IsTx(tx), NEW scripts, Short(S, tx, scripts),
         NEW tail \in Seq(S), NEW b, b = Cat(Serialized(tx, scripts), tail)
  PROVE  ReadTx(b) = [version |-> Promise!Version, inputs |-> Written(tx, scripts),
                      outputs |-> Promise!Outputs(tx), behind |-> Cat(Locktime, tail)]
<1>1. PICK a, n, c, d, e, f, h :
        /\ a = U32LE(1) /\ n = U8(Len(tx.inputs)) /\ c = InputFields(tx, scripts) /\ d = U8(2)
        /\ e = OutputField(tx.pay) /\ f = OutputField(tx.change) /\ h = Cat(Locktime, tail)
  OBVIOUS
<1>2. /\ a \in Seq(S) /\ Len(a) = 4 /\ d \in Seq(S) /\ Len(d) = 1 /\ Locktime \in Seq(S)
  BY <1>1, ConstantType, BytesIn
<1>3. n \in Seq(S) /\ Len(n) = 1 /\ Len(tx.inputs) \in 0 .. 255
  <2>1. Len(tx.inputs) \in Nat /\ Len(tx.inputs) \in 0 .. 255
    BY CountFitsByte, Zenon
  <2>2. n \in Seq(Byte) /\ Len(n) = 1
    BY <1>1, <2>1, NumberType
  <2> QED
    BY <2>1, <2>2, BytesIn
<1>4. c \in Seq(S)
  <2>1. Carries(S, tx, scripts)
    BY DEF Carries, Short
  <2> QED
    BY <1>1, <2>1, InputFieldsType, Zenon DEF InputsMeasured
<1>5. e \in Seq(S) /\ f \in Seq(S)
  BY <1>1, OutputFieldType DEF IsTx
<1>6. h \in Seq(S)
  BY <1>1, <1>2, CatIn
<1>7. b = Fields(a, n, c, d, e, f, h)
  <2>1. PICK x : x = Cat(Cat(Cat(Cat(Cat(a, n), c), d), e), f)
    OBVIOUS
  <2>2. x \in Seq(S)
    <3>1. Cat(a, n) \in Seq(S)
      BY <1>2, <1>3, CatIn
    <3>2. Cat(Cat(a, n), c) \in Seq(S)
      BY <1>4, <3>1, CatIn
    <3>3. Cat(Cat(Cat(a, n), c), d) \in Seq(S)
      BY <1>2, <3>2, CatIn
    <3>4. Cat(Cat(Cat(Cat(a, n), c), d), e) \in Seq(S)
      BY <1>5, <3>3, CatIn
    <3> QED
      BY <1>5, <2>1, <3>4, CatIn
  <2>3. Serialized(tx, scripts) = Cat(x, Locktime)
    BY <1>1, <2>1 DEF Serialized, Cat
  <2>4. Cat(Cat(x, Locktime), tail) = Cat(x, Cat(Locktime, tail))
    BY <1>2, <2>2, CatRegroup
  <2> QED
    BY <1>1, <2>1, <2>3, <2>4 DEF Fields
<1>8. PICK from \in Nat :
           /\ from = 6 + Len(c) /\ b \in Seq(S)
           /\ Has(S, b, 1, a) /\ Has(S, b, 5, n) /\ Has(S, b, 6, c) /\ Has(S, b, from, d)
           /\ Has(S, b, from + 1, e) /\ Has(S, b, from + 1 + Len(e), f)
           /\ Has(S, b, from + 1 + Len(e) + Len(f), h)
           /\ Len(b) = from + Len(e) + Len(f) + Len(h)
  <2>1. Strings(S, a, n, c, d, e, f, h)
    BY <1>2, <1>3, <1>4, <1>5, <1>6 DEF Strings
  <2> QED
    BY <1>7, <2>1, FieldsAt
<1>9. b[5] = Len(tx.inputs) /\ b[from] = 2
  <2>1. Has(S, b, 5, U8(Len(tx.inputs))) /\ Has(S, b, from, U8(2))
    BY <1>1, <1>8
  <2>2. b \in Seq(S) /\ 2 \in Byte
    BY <1>8 DEF Byte
  <2>3. PICK k \in Byte : k = Len(tx.inputs)
    BY <1>3 DEF Byte
  <2>4. b[5] = Len(tx.inputs)
    <3>1. b \in Seq(S) /\ Has(S, b, 5, U8(k))
      BY <2>1, <2>2, <2>3
    <3> QED
      BY <2>3, <3>1, HasOne, Zenon
  <2>5. b[from] = 2
    <3>1. b \in Seq(S) /\ 2 \in Byte /\ Has(S, b, from, U8(2))
      BY <2>1, <2>2
    <3> QED
      BY <3>1, HasOne, Zenon
  <2> QED
    BY <2>4, <2>5
<1>10. NumberAt(b, 1, 4) = Promise!Version
  <2>1. Has(S, b, 1, U32LE(1)) /\ 1 \div 65536 < 65536
    BY <1>1, <1>8
  <2> QED
    BY <1>8, <2>1, ReadNumber4 DEF Promise!Version
<1>11. PICK inputs : inputs = ItemsAt(b, 6, Len(tx.inputs), 36, 4)
  OBVIOUS
<1>12. /\ [k \in 1 .. Len(tx.inputs) |-> ReadInput(b, inputs[k])] = Written(tx, scripts)
       /\ inputs[Len(tx.inputs) + 1] = from
  <2>1. PICK count, ins : count = Len(tx.inputs) /\ ins = InputFields(tx, scripts)
    OBVIOUS
  <2>2. Has(S, b, 6, ins) /\ from = 6 + Len(ins) /\ b \in Seq(S)
    BY <1>1, <1>8, <2>1, Zenon
  <2>3. inputs = ItemsAt(b, 6, count, 36, 4)
    BY <1>11, <2>1, Zenon
  <2>4. /\ [k \in 1 .. count |-> ReadInput(b, ItemsAt(b, 6, count, 36, 4)[k])]
             = Written(tx, scripts)
        /\ ItemsAt(b, 6, count, 36, 4)[count + 1] = 6 + Len(InputFields(tx, scripts))
    <3>1. Has(S, b, 6, InputFields(tx, scripts)) /\ b \in Seq(S) /\ count = Len(tx.inputs)
      BY <2>1, <2>2, Zenon
    <3> QED
      BY <3>1, ReadsInputs
  <2> QED
    BY <2>1, <2>2, <2>3, <2>4, Zenon
<1>13. PICK outputs : outputs = ItemsAt(b, from + 1, 2, 8, 0)
  OBVIOUS
<1>14. /\ [k \in 1 .. 2 |-> ReadOutput(b, outputs[k])] = Promise!Outputs(tx)
       /\ outputs[3] = from + 1 + Len(e) + Len(f)
  <2>1. /\ Has(S, b, from + 1, OutputField(tx.pay))
        /\ Has(S, b, (from + 1) + Len(OutputField(tx.pay)), OutputField(tx.change))
    BY <1>1, <1>8
  <2>2. PICK m \in Nat : m = from + 1
    OBVIOUS
  <2>3. /\ Has(S, b, m, OutputField(tx.pay))
        /\ Has(S, b, m + Len(OutputField(tx.pay)), OutputField(tx.change))
        /\ outputs = ItemsAt(b, m, 2, 8, 0)
    BY <1>13, <2>1, <2>2
  <2>4. /\ [k \in 1 .. 2 |-> ReadOutput(b, outputs[k])] = Promise!Outputs(tx)
        /\ outputs[3] = (m + Len(OutputField(tx.pay))) + Len(OutputField(tx.change))
    <3>1. /\ b \in Seq(S)
          /\ Has(S, b, m, OutputField(tx.pay))
          /\ Has(S, b, m + Len(OutputField(tx.pay)), OutputField(tx.change))
      BY <1>8, <2>3, Zenon
    <3>2. LET start == ItemsAt(b, m, 2, 8, 0)
          IN  /\ [k \in 1 .. 2 |-> ReadOutput(b, start[k])] = Promise!Outputs(tx)
              /\ start[3] = (m + Len(OutputField(tx.pay))) + Len(OutputField(tx.change))
      BY <3>1, ReadsOutputs
    <3> QED
      BY <2>3, <3>2, Zenon
  <2> QED
    BY <1>1, <2>2, <2>4
<1>15. SubSeq(b, outputs[3], Len(b)) = h
  <2>1. PICK last : last = from + 1 + Len(e) + Len(f)
    OBVIOUS
  <2>2. Take(b, last, Len(h)) = h
    BY <1>6, <1>8, <2>1, TakeHas
  <2>3. last + Len(h) - 1 = Len(b)
    <3>1. PICK x, y, z \in Nat : x = Len(e) /\ y = Len(f) /\ z = Len(h)
      BY <1>5, <1>6, LenProperties
    <3>2. from + 1 + x + y + z - 1 = from + x + y + z
      OBVIOUS
    <3> QED
      BY <1>8, <2>1, <3>1, <3>2
  <2> QED
    BY <1>14, <2>1, <2>2, <2>3 DEF Take
<1>16. ReadTx(b) = [version |-> NumberAt(b, 1, 4),
                    inputs |-> [k \in 1 .. Len(tx.inputs) |-> ReadInput(b, inputs[k])],
                    outputs |-> [k \in 1 .. 2 |-> ReadOutput(b, outputs[k])],
                    behind |-> SubSeq(b, outputs[2 + 1], Len(b))]
  <2>1. PICK m : m = Len(tx.inputs)
    OBVIOUS
  <2>2. m = b[5] /\ inputs = ItemsAt(b, 6, m, 36, 4) /\ from = inputs[m + 1]
    BY <1>9, <1>11, <1>12, <2>1
  <2>3. b[from] = 2 /\ outputs = ItemsAt(b, from + 1, 2, 8, 0)
    BY <1>9, <1>13
  <2> QED
    <3>1. ItemsOf(b, m, inputs, from, outputs)
      BY <2>2, <2>3, Zenon DEF ItemsOf
    <3> QED
      BY <2>1, <3>1, ReadTxIs, Zenon
<1>17. 2 + 1 = 3
  OBVIOUS
<1> QED
  BY <1>1, <1>10, <1>12, <1>14, <1>15, <1>16, <1>17

(* The bytes that are hashed for an input say what its owner commits to.   *)
THEOREM PreimageReadsBack ==
  ASSUME NEW tx, IsTx(tx), NEW i, PreimageBuilds(tx, i)
  PROVE  ReadTx(Preimage(tx, i)) = Promise!Commitment(tx, i)
<1>1. PICK scripts, type : scripts = Placed(tx, i) /\ type = U32LE(SighashAll)
  OBVIOUS
<1>2. Short(Byte, tx, scripts)
  <2>1. Placeable(tx, scripts)
    BY <1>1, PlacedPlaceable
  <2> QED
    BY <2>1 DEF Placeable, PreimageBuilds, Short
<1>3. type \in Seq(Byte) /\ Byte \subseteq Byte
  BY <1>1, ConstantType
<1>4. Preimage(tx, i) = Cat(Serialized(tx, scripts), type)
  BY <1>1 DEF Preimage, Placed, Cat
<1>5. ReadTx(Preimage(tx, i))
        = [version |-> Promise!Version, inputs |-> Written(tx, scripts),
           outputs |-> Promise!Outputs(tx), behind |-> Cat(Locktime, type)]
  BY <1>2, <1>3, <1>4, ReadsTx
<1>6. Cat(Locktime, type) = Promise!Locktime \o Promise!AllOutputs
  <2>1. Locktime = <<0, 0, 0, 0>> /\ type = <<1, 0, 0, 0>>
    BY <1>1 DEF Locktime, U32LE, SighashAll
  <2> QED
    BY <2>1 DEF Cat, Promise!Locktime, Promise!AllOutputs
<1>7. Written(tx, scripts)
        = [j \in DOMAIN tx.inputs |->
             [outpoint |-> Promise!Outpoint(tx.inputs[j]),
              script |-> IF j = i THEN tx.inputs[j].script ELSE <<>>]]
  BY <1>1 DEF Written, Placed
<1> QED
  BY <1>5, <1>6, <1>7 DEF Promise!Commitment

(* The bytes that are hashed for an input determine every outpoint, the    *)
(* scripts in place and both outputs: no two transactions that are signed  *)
(* for different things have the same.                                     *)
THEOREM PreimageIsInjective ==
  ASSUME NEW t1, NEW i, IsTx(t1), PreimageBuilds(t1, i),
         NEW t2, NEW k, IsTx(t2), PreimageBuilds(t2, k),
         Preimage(t1, i) = Preimage(t2, k)
  PROVE  Promise!Commitment(t1, i) = Promise!Commitment(t2, k)
BY PreimageReadsBack

-----------------------------------------------------------------------------
(* The signing path. *)

(* What the secure element has answered is told by where init is.          *)
Answers ==
  /\ sePhase = "off" => answered = {} /\ ~handleOpen
  /\ sePhase = "init" => answered = {}
  /\ sePhase = "mode" => answered = {"init"} /\ handleOpen
  /\ sePhase = "chip_id" => answered = {"init", "mode"} /\ handleOpen
  /\ sePhase = "ready" => answered = {"init", "mode", "chip_id"} /\ handleOpen /\ initRet = 0
  /\ sePhase = "failed" => initRet \notin {0, NotRun} /\ ~handleOpen
  /\ initialized <=> sePhase = "ready"

SeInv == SeTypeOK /\ answered \subseteq {"init", "mode", "chip_id"} /\ Answers

LEMMA FailedAttempt ==
  ASSUME SeInv, sePhase \in {"init", "mode", "chip_id"}, answered' = {},
         NEW ret \in {-100, -101, -102}, AttemptFails(ret)
  PROVE  SeInv'
<1> USE SecureElementAssumption DEF SecureElementAssumption, SeInv
<1>1. SeTypeOK'
  <2>1. sePhase' \in {"off", "init", "mode", "chip_id", "ready", "failed"}
    BY DEF AttemptFails
  <2>2. initAttempts' \in 0 .. MaxInitAttempts
    BY DEF AttemptFails, SeTypeOK
  <2>3. initRet' \in {NotRun, 0, -100, -101, -102}
    BY DEF AttemptFails
  <2>4. handleOpen' \in BOOLEAN /\ initialized' \in BOOLEAN
    BY DEF AttemptFails, SeTypeOK
  <2>5. authCount' \in 0 .. AuthMod - 1
    BY DEF AttemptFails, SeTypeOK
  <2> QED
    BY <2>1, <2>2, <2>3, <2>4, <2>5 DEF SeTypeOK
<1>2. Answers'
  BY DEF AttemptFails, Answers, NotRun
<1> QED
  BY <1>1, <1>2

LEMMA BootKeepsSeInv ==
  ASSUME SeInv, NEW ok \in BOOLEAN, Boot(ok)
  PROVE  SeInv'
<1> USE SecureElementAssumption DEF SecureElementAssumption
<1>1. CASE ok
  <2>1. answered' = answered \cup {sePhase}
    BY <1>1 DEF Boot
  <2>2. CASE LtInit(ok)
    <3>1. SeTypeOK'
      BY <1>1, <2>2 DEF LtInit, AttemptGoesOn, SeInv, SeTypeOK
    <3>2. answered' = {"init"} /\ sePhase' = "mode"
      BY <1>1, <2>1, <2>2 DEF LtInit, AttemptGoesOn, SeInv, Answers
    <3>3. handleOpen' = TRUE /\ initialized' = initialized /\ initialized \in BOOLEAN
      BY <1>1, <2>2 DEF LtInit, AttemptGoesOn, SeInv, SeTypeOK
    <3>4. ~initialized'
      BY <2>2, <3>3 DEF LtInit, SeInv, Answers
    <3> QED
      BY <3>1, <3>2, <3>3, <3>4 DEF SeInv, Answers
  <2>3. CASE LtGetMode(ok)
    BY <1>1, <2>1, <2>3 DEF LtGetMode, AttemptGoesOn, SeInv, SeTypeOK, Answers
  <2>4. CASE LtGetChipId(ok)
    BY <1>1, <2>1, <2>4 DEF LtGetChipId, SeInv, SeTypeOK, Answers
  <2> QED
    BY <2>2, <2>3, <2>4 DEF Boot, SeBootStep
<1>2. CASE ~ok
  <2>1. answered' = {}
    BY <1>2 DEF Boot
  <2>2. sePhase \in {"init", "mode", "chip_id"}
    BY DEF Boot, SeBootStep, LtInit, LtGetMode, LtGetChipId
  <2>3. \E ret \in {-100, -101, -102} : AttemptFails(ret)
    BY <1>2 DEF Boot, SeBootStep, LtInit, LtGetMode, LtGetChipId
  <2> QED
    BY <2>1, <2>2, <2>3, FailedAttempt
<1> QED
  BY <1>1, <1>2

LEMMA SeInvInductive ==
  /\ Init => SeInv
  /\ SeInv /\ [Next]_vars => SeInv'
<1> USE SecureElementAssumption DEF SecureElementAssumption
<1>1. Init => SeInv
  <2> SUFFICES ASSUME Init PROVE SeInv
    OBVIOUS
  <2>1. SeTypeOK
    <3>1. initAttempts \in 0 .. MaxInitAttempts /\ authCount \in 0 .. AuthMod - 1
      BY DEF Init, SeInit
    <3>2. handleOpen \in BOOLEAN /\ initialized \in BOOLEAN
      BY DEF Init, SeInit
    <3> QED
      BY <3>1, <3>2 DEF Init, SeInit, SeTypeOK
  <2>2. answered = {} /\ Answers
    BY DEF Init, SeInit, Answers
  <2> QED
    BY <2>1, <2>2 DEF SeInv
<1>2. ASSUME SeInv, [Next]_vars PROVE SeInv'
  <2>1. CASE Start
    BY <1>2, <2>1 DEF Start, BeginInit, SeInv, SeTypeOK, Answers, NotRun
  <2>2. ASSUME NEW ok \in BOOLEAN, Boot(ok) PROVE SeInv'
    BY <1>2, <2>2, BootKeepsSeInv
  <2>3. ASSUME NEW answers \in BOOLEAN, GetKey(answers) PROVE SeInv'
    BY <1>2, <2>3 DEF GetKey, AuthorizeKeyUse, SeInv, SeTypeOK, Answers, NotRun
  <2>4. CASE UNCHANGED <<seVars, answered>>
    BY <1>2, <2>4 DEF seVars, SeInv, SeTypeOK, Answers, NotRun
  <2>5. CASE Serve \/ Halted \/ LoopTop \/ Core \/ SignReturns \/ Postcheck
             \/ UNCHANGED vars \/ \E tx \in Transactions : BeginSign(tx)
    BY <2>4, <2>5 DEF Serve, Halted, LoopTop, Core, SignReturns, Postcheck, BeginSign, vars
  <2> QED
    BY <1>2, <2>1, <2>2, <2>3, <2>5 DEF Next, SignStep
<1> QED
  BY <1>1, <1>2

(* The loop runs only with the element. *)
ServesWhenReady == at \notin {"boot", "halted"} => sePhase = "ready"

LEMMA ServesWhenReadyInductive ==
  /\ Init => ServesWhenReady
  /\ ServesWhenReady /\ [Next]_vars => ServesWhenReady'
<1>1. Init => ServesWhenReady
  BY DEF Init, ServesWhenReady
<1>2. ASSUME ServesWhenReady, [Next]_vars PROVE ServesWhenReady'
  <2>2. CASE Start \/ \E ok \in BOOLEAN : Boot(ok)
    BY <1>2, <2>2 DEF Start, Boot, signVars, ServesWhenReady
  <2>3. CASE Serve
    BY <1>2, <2>3 DEF Serve, seVars, ServesWhenReady
  <2>4. ASSUME NEW answers \in BOOLEAN, GetKey(answers) PROVE ServesWhenReady'
    BY <1>2, <2>4 DEF GetKey, AuthorizeKeyUse, ServesWhenReady
  <2>5. CASE Halted \/ LoopTop \/ Core \/ SignReturns \/ Postcheck \/ UNCHANGED vars
             \/ \E tx \in Transactions : BeginSign(tx)
    BY <1>2, <2>5 DEF Halted, LoopTop, Core, SignReturns, Postcheck, BeginSign, vars,
      signVars, seVars, ServesWhenReady
  <2> QED
    BY <1>2, <2>2, <2>3, <2>4, <2>5 DEF Next, SignStep
<1> QED
  BY <1>1, <1>2

(* Commands are served only over a handle that answered all three calls in *)
(* one attempt.                                                            *)
THEOREM ReadyMeansAnsweredHolds == Spec => []ReadyMeansAnswered
<1>1. SeInv /\ ServesWhenReady => ReadyMeansAnswered
  BY DEF SeInv, Answers, ServesWhenReady, ReadyMeansAnswered
<1> QED
  BY <1>1, SeInvInductive, ServesWhenReadyInductive, PTL DEF Spec

(* The result of init is 0 when the element is ready and an error of the   *)
(* last attempt when it is not.                                            *)
THEOREM ResultIsHonestHolds == Spec => []ResultIsHonest
<1>1. SeInv => ResultIsHonest
  BY DEF SeInv, Answers, ResultIsHonest
<1> QED
  BY <1>1, SeInvInductive, PTL DEF Spec

-----------------------------------------------------------------------------
(* The loop and the core. *)

Working == {"preimage", "hash", "rehash", "sign", "der"}

(* Where the two are, and which transaction they have. *)
RequestInv ==
  /\ at \in {"boot", "halted", "top", "prompt", "key", "core", "check"}
  /\ coreAt \in {"idle", "pubkey", "build", "cleanup"} \cup Working
  /\ key \in BOOLEAN /\ coreOk \in BOOLEAN
  /\ reply \in {"nothing", "refused", "signed"}
  /\ request \in Transactions \cup {NoRequest}
  /\ at \in {"key", "core", "check"} => request \in Transactions
  /\ at \notin {"key", "core", "check"} => request = NoRequest
  /\ coreAt # "idle" => at = "core"
  /\ coreInput \in 0 .. MaxInputs
  /\ coreAt \in Working => coreInput \in DOMAIN request.inputs
  /\ at # "core" => ~key

LEMMA CoreKeepsRequestInv ==
  ASSUME RequestInv, at = "core", UNCHANGED signVars,
         \/ CoreStep(request, RawSize)
         \/ \E len \in DerLengths : StoreSignature(request, len)
  PROVE  RequestInv'
<1> USE DEF RequestInv, Working, signVars
<1>1. /\ DOMAIN request.inputs \in {{1}, {1, 2}} /\ Len(request.inputs) \in {1, 2}
      /\ DOMAIN request.inputs = {1, 2} <=> Len(request.inputs) = 2
  BY SigningAssumption, Counted
<1>2. CASE \E ok \in BOOLEAN : PubkeyStep(ok)
  BY <1>1, <1>2 DEF PubkeyStep, CoreFails, MaxInputs
<1>3. CASE \E ok \in BOOLEAN : HashOnce(ok) \/ HashTwice(ok) \/ SignDigest(ok)
  BY <1>3 DEF HashOnce, HashTwice, SignDigest, CoreFails
<1>4. CASE BuildPreimage(request)
  BY <1>4 DEF BuildPreimage
<1>7. CASE BuildTx(request, RawSize)
  <2>1. coreOk' \in BOOLEAN
    BY <1>7 DEF BuildTx
  <2>2. coreAt' = "cleanup" /\ coreInput' = coreInput
    BY <1>7 DEF BuildTx
  <2> QED
    BY <2>1, <2>2
<1>5. CASE Cleanup
  BY <1>5 DEF Cleanup, MaxInputs
<1>6. CASE \E len \in DerLengths : StoreSignature(request, len)
  BY <1>1, <1>6 DEF StoreSignature, CoreFails, MaxInputs
<1> QED
  BY <1>2, <1>3, <1>4, <1>5, <1>6, <1>7 DEF CoreStep

LEMMA RequestInvInductive ==
  /\ Init => RequestInv
  /\ RequestInv /\ [Next]_vars => RequestInv'
<1>1. Init => RequestInv
  <2> SUFFICES ASSUME Init PROVE RequestInv
    OBVIOUS
  <2>1. key \in BOOLEAN /\ ~key /\ coreOk \in BOOLEAN
    BY DEF Init, CoreInit
  <2>2. coreInput \in 0 .. MaxInputs
    BY DEF Init, CoreInit, MaxInputs
  <2>3. at = "boot" /\ coreAt = "idle" /\ reply = "nothing" /\ request = NoRequest
    BY DEF Init, CoreInit
  <2> QED
    BY <2>1, <2>2, <2>3 DEF RequestInv, Working
<1>2. ASSUME RequestInv, [Next]_vars PROVE RequestInv'
  <2> USE <1>2 DEF RequestInv, Working, coreVars, signVars
  <2>1. CASE Start \/ (\E ok \in BOOLEAN : Boot(ok)) \/ Serve \/ Halted \/ UNCHANGED vars
    BY <2>1 DEF Start, Boot, Serve, Halted, vars
  <2>2. CASE \E tx \in Transactions : BeginSign(tx)
    BY <2>2 DEF BeginSign
  <2>3. CASE LoopTop
    BY <2>3 DEF LoopTop
  <2>4. CASE \E answers \in BOOLEAN : GetKey(answers)
    <3> PICK answers \in BOOLEAN : GetKey(answers)
      BY <2>4
    <3>1. CASE Authorized(answers)
      <4>1. key' = TRUE /\ at' = "core" /\ UNCHANGED <<request, reply>> /\ at = "key"
        BY <3>1 DEF GetKey
      <4>2. coreAt' \in {"pubkey", "idle"} /\ coreOk' = FALSE /\ coreInput' = coreInput
        BY <3>1 DEF GetKey, CoreStart
      <4>3. key' \in BOOLEAN /\ coreOk' \in BOOLEAN
        BY <4>1, <4>2
      <4> QED
        BY <4>1, <4>2, <4>3
    <3>2. CASE ~Authorized(answers)
      BY <3>2 DEF GetKey, Refused
    <3> QED
      BY <3>1, <3>2
  <2>5. CASE SignReturns
    BY <2>5 DEF SignReturns, Refused
  <2>6. CASE Postcheck
    BY <2>6 DEF Postcheck, Refused
  <2>7. CASE Core
    BY <2>7, CoreKeepsRequestInv DEF Core
  <2> QED
    BY <2>1, <2>2, <2>3, <2>4, <2>5, <2>6, <2>7 DEF Next, SignStep
<1> QED
  BY <1>1, <1>2

(* The buffers of the core are empty when it is not at work, and the       *)
(* result is when the loop asks for a command.                             *)
BuffersInv ==
  /\ coreAt \in {"idle", "pubkey"} =>
       preimage = <<>> /\ hash1 = <<>> /\ digest = <<>> /\ sig64 = <<>>
         /\ sigs = <<>> /\ pubkey33 = <<>>
  /\ coreAt \in Working \cup {"build"} => pubkey33 = Pubkey
  /\ at \in {"prompt", "key"} => raw = <<>>
  /\ at = "core" /\ coreAt \notin {"idle", "cleanup"} => raw = <<>> /\ ~coreOk

LEMMA CoreKeepsBuffersInv ==
  ASSUME RequestInv, BuffersInv, at = "core", UNCHANGED signVars,
         \/ CoreStep(request, RawSize)
         \/ \E len \in DerLengths : StoreSignature(request, len)
  PROVE  BuffersInv'
<1> USE DEF BuffersInv, Working, signVars
<1>2. CASE \E ok \in BOOLEAN : PubkeyStep(ok)
  BY <1>2 DEF PubkeyStep, CoreFails
<1>3. CASE \E ok \in BOOLEAN : HashOnce(ok) \/ HashTwice(ok) \/ SignDigest(ok)
  BY <1>3 DEF HashOnce, HashTwice, SignDigest, CoreFails
<1>4. CASE BuildPreimage(request) \/ BuildTx(request, RawSize)
  BY <1>4 DEF BuildPreimage, BuildTx
<1>5. CASE Cleanup
  BY <1>5 DEF Cleanup, ZeroTemporaries
<1>6. CASE \E len \in DerLengths : StoreSignature(request, len)
  BY <1>6 DEF StoreSignature, CoreFails, ZeroTemporaries
<1> QED
  BY <1>2, <1>3, <1>4, <1>5, <1>6 DEF CoreStep

LEMMA BuffersInvInductive ==
  /\ Init => BuffersInv
  /\ RequestInv /\ BuffersInv /\ [Next]_vars => BuffersInv'
<1>1. Init => BuffersInv
  BY DEF Init, CoreInit, BuffersInv, Working
<1>2. ASSUME RequestInv, BuffersInv, [Next]_vars PROVE BuffersInv'
  <2> USE <1>2 DEF BuffersInv, Working, coreVars, signVars
  <2>1. CASE Start \/ (\E ok \in BOOLEAN : Boot(ok)) \/ Serve \/ Halted \/ UNCHANGED vars
    BY <2>1 DEF Start, Boot, Serve, Halted, vars, RequestInv
  <2>2. CASE \E tx \in Transactions : BeginSign(tx)
    BY <2>2 DEF BeginSign, RequestInv
  <2>3. CASE LoopTop
    BY <2>3 DEF LoopTop, RequestInv
  <2>4. CASE \E answers \in BOOLEAN : GetKey(answers)
    BY <2>4 DEF GetKey, Refused, CoreStart, RequestInv
  <2>5. CASE SignReturns
    BY <2>5 DEF SignReturns, Refused, RequestInv
  <2>6. CASE Postcheck
    BY <2>6 DEF Postcheck, Refused, RequestInv
  <2>7. CASE Core
    BY <2>7, CoreKeepsBuffersInv DEF Core
  <2> QED
    BY <2>1, <2>2, <2>3, <2>4, <2>5, <2>6, <2>7 DEF Next, SignStep
<1> QED
  BY <1>1, <1>2

(* Each stage of a signature is that of the input it is for. *)
StageInv ==
  LET p == Preimage(request, coreInput)
  IN  /\ coreAt \in Working \ {"preimage"} =>
           preimage = p /\ PreimageBuilds(request, coreInput)
      /\ coreAt = "rehash" => hash1 = Sha256(p)
      /\ coreAt = "sign" => digest = Sha256(Sha256(p))
      /\ coreAt = "der" => sig64 = Ecdsa(Sha256(Sha256(p)))

LEMMA CoreKeepsStageInv ==
  ASSUME RequestInv, StageInv, at = "core", UNCHANGED signVars,
         \/ CoreStep(request, RawSize)
         \/ \E len \in DerLengths : StoreSignature(request, len)
  PROVE  StageInv'
<1> USE DEF StageInv, Working, signVars
<1>2. CASE \E ok \in BOOLEAN : PubkeyStep(ok)
  BY <1>2 DEF PubkeyStep, CoreFails
<1>3. CASE \E ok \in BOOLEAN : HashOnce(ok) \/ HashTwice(ok) \/ SignDigest(ok)
  BY <1>3 DEF HashOnce, HashTwice, SignDigest, CoreFails
<1>4. CASE BuildPreimage(request) \/ BuildTx(request, RawSize)
  BY <1>4 DEF BuildPreimage, BuildTx
<1>5. CASE Cleanup
  BY <1>5 DEF Cleanup
<1>6. CASE \E len \in DerLengths : StoreSignature(request, len)
  BY <1>6 DEF StoreSignature, CoreFails
<1> QED
  BY <1>2, <1>3, <1>4, <1>5, <1>6 DEF CoreStep

LEMMA StageInvInductive ==
  /\ Init => StageInv
  /\ RequestInv /\ StageInv /\ [Next]_vars => StageInv'
<1>1. Init => StageInv
  BY DEF Init, CoreInit, StageInv, Working
<1>2. ASSUME RequestInv, StageInv, [Next]_vars PROVE StageInv'
  <2> USE <1>2 DEF StageInv, Working, coreVars, signVars
  <2>1. CASE coreAt' \in {"idle", "pubkey"}
    BY <2>1
  <2>2. CASE UNCHANGED <<coreVars, request>>
    BY <2>2
  <2>3. CASE Start \/ (\E ok \in BOOLEAN : Boot(ok)) \/ Serve \/ Halted \/ UNCHANGED vars
    BY <2>2, <2>3 DEF Start, Boot, Serve, Halted, vars
  <2>4. CASE LoopTop \/ SignReturns \/ Postcheck \/ \E tx \in Transactions : BeginSign(tx)
    BY <2>1, <2>4 DEF LoopTop, SignReturns, Postcheck, BeginSign, RequestInv
  <2>5. CASE \E answers \in BOOLEAN : GetKey(answers)
    BY <2>1, <2>5 DEF GetKey, Refused, CoreStart, RequestInv
  <2>6. CASE Core
    BY <2>6, CoreKeepsStageInv DEF Core
  <2> QED
    BY <2>3, <2>4, <2>5, <2>6 DEF Next, SignStep
<1> QED
  BY <1>1, <1>2

(* What is hashed for one input of one transaction is hashed for no other: *)
(* the signature cannot be used for anything that was not asked for.       *)
THEOREM PreimageCommitsHolds == Spec => []PreimageCommits
<1>1. RequestInv /\ StageInv => PreimageCommits
  <2> SUFFICES ASSUME RequestInv, StageInv, coreAt = "hash",
                      NEW tx \in Transactions, NEW i \in DOMAIN tx.inputs,
                      PreimageBuilds(tx, i), Preimage(tx, i) = preimage
               PROVE  Promise!Commitment(tx, i) = Promise!Commitment(request, coreInput)
    BY DEF PreimageCommits
  <2>1. IsTx(tx) /\ IsTx(request)
    BY SigningAssumption DEF RequestInv
  <2>2. PreimageBuilds(request, coreInput) /\ Preimage(tx, i) = Preimage(request, coreInput)
    BY DEF StageInv, Working
  <2> QED
    BY <2>1, <2>2, PreimageIsInjective
<1> QED
  BY <1>1, RequestInvInductive, StageInvInductive, PTL DEF Spec

(* Nothing that belongs to the key is left when the core is back, none of  *)
(* the result when the next command is asked for.                          *)
THEOREM NothingLeftBehindHolds == Spec => []NothingLeftBehind
<1>1. RequestInv /\ BuffersInv => NothingLeftBehind
  BY DEF RequestInv, BuffersInv, NothingLeftBehind
<1> QED
  BY <1>1, RequestInvInductive, BuffersInvInductive, PTL DEF Spec

(* The types of the signing path. *)
THEOREM SigningTypeOK == Spec => []TypeOK
<1>1. SeInv /\ RequestInv => TypeOK
  BY DEF SeInv, RequestInv, Working, TypeOK
<1> QED
  BY <1>1, SeInvInductive, RequestInvInductive, PTL DEF Spec

-----------------------------------------------------------------------------
(* The signatures and the result. *)

(* What a buffer may hold: bytes, and the signatures of this core. *)
Signed(tx, i) == Ecdsa(Sha256(Sha256(Preimage(tx, i))))
Symbols == Byte \cup {Signed(tx, i) : tx \in Transactions, i \in 1 .. MaxInputs}
Lengths == {len \in DerLengths : len \in 1 .. MaxDer}

LEMMA SignatureType ==
  ASSUME NEW tx \in Transactions, NEW i \in 1 .. MaxInputs, NEW len \in Lengths
  PROVE  /\ Signature(tx, i, len) \in Seq(Symbols)
         /\ Len(Signature(tx, i, len)) = len + 1 /\ len \in 1 .. MaxDer
<1>1. Byte \subseteq Symbols /\ Signed(tx, i) \in Symbols /\ len \in 1 .. MaxDer
  BY DEF Symbols, Lengths
<1> QED
  BY <1>1, DerType DEF Signature, Signed

(* One signature for every input signed, in order. *)
SigsInv ==
  /\ sigs \in Seq(Seq(Symbols))
  /\ coreAt \in Working => Len(sigs) = coreInput - 1
  /\ coreAt = "build" => Len(sigs) = Len(request.inputs)
  /\ \A i \in DOMAIN sigs :
       PreimageBuilds(request, i) /\ \E len \in Lengths : sigs[i] = Signature(request, i, len)

LEMMA StoreKeepsSigsInv ==
  ASSUME RequestInv, StageInv, SigsInv, at = "core", UNCHANGED signVars,
         NEW len \in DerLengths, StoreSignature(request, len)
  PROVE  SigsInv'
<1>1. /\ request \in Transactions /\ IsTx(request) /\ coreInput \in DOMAIN request.inputs
      /\ request' = request /\ coreAt = "der"
  BY SigningAssumption DEF RequestInv, signVars, StoreSignature, Working
<1>2. /\ Len(request.inputs) \in 1 .. 2 /\ DOMAIN request.inputs = 1 .. Len(request.inputs)
      /\ coreInput \in 1 .. MaxInputs
  BY <1>1, Counted DEF MaxInputs
<1>3. CASE len \in 1 .. MaxDer /\ sigs' = Append(sigs, Der(sig64, len) \o U8(SighashAll))
  <2> DEFINE new == Signature(request, coreInput, len)
  <2>1. len \in Lengths
    BY <1>3 DEF Lengths
  <2>2. sigs' = Append(sigs, new)
    BY <1>1, <1>3 DEF StageInv, Signature
  <2>3. new \in Seq(Symbols)
    BY <1>1, <1>2, <2>1, SignatureType
  <2> HIDE DEF new
  <2>4. /\ sigs \in Seq(Seq(Symbols)) /\ Len(sigs) = coreInput - 1 /\ Len(sigs) \in Nat
        /\ DOMAIN sigs = 1 .. Len(sigs)
    BY <1>1, LenProperties DEF SigsInv, Working
  <2>5. /\ sigs' \in Seq(Seq(Symbols)) /\ Len(sigs') = Len(sigs) + 1
        /\ \A i \in 1 .. Len(sigs) : sigs'[i] = sigs[i]
        /\ sigs'[Len(sigs) + 1] = new
    BY <2>2, <2>3, <2>4, AppendProperties
  <2>6. DOMAIN sigs' = 1 .. Len(sigs) + 1
    BY <2>5, LenProperties
  <2>7. \/ coreAt' = "preimage" /\ coreInput' = coreInput + 1
        \/ coreAt' = "build" /\ ~(coreInput < Len(request.inputs))
    BY <1>3, <1>2 DEF StoreSignature, CoreFails
  <2>8. ASSUME NEW i \in DOMAIN sigs'
        PROVE  /\ PreimageBuilds(request, i)
               /\ \E l \in Lengths : sigs'[i] = Signature(request, i, l)
    <3>1. CASE i \in 1 .. Len(sigs)
      BY <2>4, <2>5, <3>1 DEF SigsInv
    <3>2. CASE i = Len(sigs) + 1
      <4>1. i = coreInput
        BY <1>2, <2>4, <3>2
      <4>2. sigs'[i] = Signature(request, i, len)
        BY <2>5, <3>2, <4>1 DEF new
      <4>3. PreimageBuilds(request, i)
        BY <1>1, <4>1 DEF StageInv, Working
      <4> QED
        BY <2>1, <4>2, <4>3
    <3> QED
      BY <2>4, <2>6, <3>1, <3>2
  <2>9. coreAt' \in Working => Len(sigs') = coreInput' - 1
    BY <1>2, <2>4, <2>5, <2>7 DEF Working
  <2>10. coreAt' = "build" => Len(sigs') = Len(request'.inputs)
    BY <1>1, <1>2, <2>4, <2>5, <2>7
  <2> QED
    BY <1>1, <2>5, <2>8, <2>9, <2>10 DEF SigsInv
<1>4. CASE CoreFails
  BY <1>1, <1>4 DEF CoreFails, SigsInv, Working
<1> QED
  BY <1>3, <1>4 DEF StoreSignature

LEMMA CoreKeepsSigsInv ==
  ASSUME RequestInv, BuffersInv, StageInv, SigsInv, at = "core", UNCHANGED signVars,
         \/ CoreStep(request, RawSize)
         \/ \E len \in DerLengths : StoreSignature(request, len)
  PROVE  SigsInv'
<1>1. request' = request
  BY DEF signVars
<1>2. CASE \E ok \in BOOLEAN : PubkeyStep(ok)
  <2>1. /\ sigs' = <<>>
        /\ (coreAt' = "preimage" /\ coreInput' = 1) \/ coreAt' = "cleanup"
    BY <1>2 DEF PubkeyStep, CoreFails, BuffersInv
  <2>2. Len(<<>>) = 0 /\ DOMAIN <<>> = {} /\ <<>> \in Seq(Seq(Symbols))
    OBVIOUS
  <2> QED
    BY <2>1, <2>2 DEF SigsInv, Working
<1>3. CASE \E ok \in BOOLEAN : HashOnce(ok) \/ HashTwice(ok) \/ SignDigest(ok)
  BY <1>1, <1>3 DEF HashOnce, HashTwice, SignDigest, CoreFails, SigsInv, Working
<1>4. CASE BuildPreimage(request) \/ BuildTx(request, RawSize)
  BY <1>1, <1>4 DEF BuildPreimage, BuildTx, SigsInv, Working
<1>5. CASE Cleanup
  BY <1>5 DEF Cleanup, SigsInv, Working
<1>6. CASE \E len \in DerLengths : StoreSignature(request, len)
  BY <1>6, StoreKeepsSigsInv
<1> QED
  BY <1>2, <1>3, <1>4, <1>5, <1>6 DEF CoreStep

LEMMA SigsInvInductive ==
  /\ Init => SigsInv
  /\ RequestInv /\ BuffersInv /\ StageInv /\ SigsInv /\ [Next]_vars => SigsInv'
<1>1. Init => SigsInv
  BY DEF Init, CoreInit, SigsInv, Working
<1>2. ASSUME RequestInv, BuffersInv, StageInv, SigsInv, [Next]_vars PROVE SigsInv'
  <2> USE DEF coreVars, signVars
  <2>1. CASE sigs' = <<>> /\ coreAt' \in {"idle", "pubkey"}
    BY <2>1 DEF SigsInv, Working
  <2>2. CASE UNCHANGED <<coreVars, request>>
    BY <1>2, <2>2 DEF SigsInv, Working
  <2>3. CASE Start \/ (\E ok \in BOOLEAN : Boot(ok)) \/ Serve \/ Halted \/ UNCHANGED vars
    BY <2>2, <2>3 DEF Start, Boot, Serve, Halted, vars
  <2>4. CASE LoopTop \/ SignReturns \/ Postcheck \/ \E tx \in Transactions : BeginSign(tx)
    BY <1>2, <2>1, <2>4 DEF LoopTop, SignReturns, Postcheck, BeginSign, RequestInv, BuffersInv
  <2>5. CASE \E answers \in BOOLEAN : GetKey(answers)
    BY <1>2, <2>1, <2>5 DEF GetKey, Refused, CoreStart, RequestInv, BuffersInv
  <2>6. CASE Core
    BY <1>2, <2>6, CoreKeepsSigsInv DEF Core
  <2> QED
    BY <1>2, <2>3, <2>4, <2>5, <2>6 DEF Next, SignStep
<1> QED
  BY <1>1, <1>2

(* The signatures are one per input, each over its own preimage. *)
THEOREM SignaturesInPlaceHolds == Spec => []SignaturesInPlace
<1>1. SigsInv => SignaturesInPlace
  BY DEF SigsInv, Working, Lengths, SignaturesInPlace
<1> QED
  BY <1>1, RequestInvInductive, BuffersInvInductive, StageInvInductive, SigsInvInductive,
    PTL DEF Spec

-----------------------------------------------------------------------------
(* Room. *)

LEMMA PaymentLengths ==
  ASSUME NEW n, n \in {22, 25}
  PROVE  n <= 25 /\ n <= MaxScript
BY DEF MaxScript

LEMMA SignedTxType ==
  ASSUME RequestInv, BuffersInv, SigsInv, coreAt = "build"
  PROVE  LET bytes == SignedTx(request, sigs, pubkey33)
         IN  /\ bytes \in Seq(Symbols)
             /\ Framed(bytes, Len(request.inputs))
             /\ IsPayment(request) => Len(bytes) <= 392
<1> DEFINE scripts == [j \in DOMAIN request.inputs |-> ScriptSig(sigs[j], pubkey33)]
           bytes == SignedTx(request, sigs, pubkey33)
           n == Len(request.inputs)
<1>1. /\ request \in Transactions /\ IsTx(request) /\ pubkey33 = Pubkey
      /\ Byte \subseteq Symbols
  BY SigningAssumption DEF RequestInv, BuffersInv, Symbols
<1>2. pubkey33 \in Seq(Symbols) /\ Len(pubkey33) = 33
  BY <1>1, PubkeyType, BytesIn
<1>3. DOMAIN sigs = DOMAIN request.inputs /\ n \in 1 .. 2 /\ DOMAIN request.inputs = 1 .. n
  <2>1. n \in 1 .. 2 /\ DOMAIN request.inputs = 1 .. n
    BY <1>1, Counted
  <2>2. Len(sigs) = n /\ DOMAIN sigs = 1 .. Len(sigs)
    BY LenProperties DEF SigsInv
  <2> QED
    BY <2>1, <2>2
<1>4. ASSUME NEW j \in DOMAIN request.inputs
      PROVE  scripts[j] \in Seq(Symbols) /\ Len(scripts[j]) <= 116
  <2>1. PICK len \in Lengths : sigs[j] = Signature(request, j, len)
    BY <1>3 DEF SigsInv
  <2>2. j \in 1 .. MaxInputs
    <3>1. j \in 1 .. n /\ n \in 1 .. 2
      BY <1>3
    <3> HIDE DEF n
    <3> QED
      BY <3>1 DEF MaxInputs
  <2>3. /\ Signature(request, j, len) \in Seq(Symbols)
        /\ Len(Signature(request, j, len)) = len + 1 /\ len \in 1 .. MaxDer
    BY <1>1, <2>2, SignatureType, Zenon
  <2>4. sigs[j] \in Seq(Symbols) /\ Len(sigs[j]) = len + 1
    BY <2>1, <2>3, Zenon
  <2>5. /\ ScriptSig(sigs[j], pubkey33) \in Seq(Symbols)
        /\ Len(ScriptSig(sigs[j], pubkey33)) = 2 + Len(sigs[j]) + Len(pubkey33)
    BY <1>1, <1>2, <2>4, ScriptSigType
  <2>6. Len(ScriptSig(sigs[j], pubkey33)) = 2 + (len + 1) + 33
    BY <1>2, <2>4, <2>5, Zenon
  <2>7. 2 + (len + 1) + 33 <= 116
    BY <2>3 DEF MaxDer
  <2>8. scripts[j] = ScriptSig(sigs[j], pubkey33)
    OBVIOUS
  <2> HIDE DEF scripts
  <2> QED
    BY <2>5, <2>6, <2>7, <2>8, Zenon
<1>5. bytes = Serialized(request, scripts)
  BY DEF SignedTx
<1> HIDE DEF scripts, bytes
<1>6. bytes \in Seq(Symbols) /\ Framed(bytes, n)
  BY <1>1, <1>4, <1>5, SerializedType
<1>7. ASSUME IsPayment(request) PROVE Len(bytes) <= 392
  <2>1. Len(request.pay.script) <= 25 /\ Len(request.change.script) <= 25
    <3>1. Len(request.pay.script) \in {22, 25} /\ Len(request.change.script) \in {22, 25}
      BY <1>7 DEF IsPayment
    <3> QED
      BY <3>1, PaymentLengths, Zenon
  <2>2. Len(bytes) \in 0 .. 160 + 116 + 116
    <3>1. PICK m : m = 116
      OBVIOUS
    <3>2. ScriptsWithin(Symbols, request, scripts, m)
      BY <1>1, <1>4, <2>1, <3>1 DEF ScriptsWithin
    <3>3. Len(bytes) \in 0 .. 160 + m + m
      BY <1>5, <3>2, SerializedBound
    <3> QED
      BY <3>1, <3>3, Zenon
  <2>3. \A l \in 0 .. 160 + 116 + 116 : l <= 392
    OBVIOUS
  <2> QED
    BY <2>2, <2>3, Zenon
<1> QED
  BY <1>6, <1>7 DEF bytes, n

LEMMA PreimageFits ==
  ASSUME NEW tx, IsTx(tx), IsPayment(tx), NEW i
  PROVE  PreimageBuilds(tx, i)
<1> DEFINE scripts == Placed(tx, i)
           ser == Serialized(tx, scripts)
           type == U32LE(SighashAll)
<1>1. ASSUME NEW j \in DOMAIN tx.inputs
      PROVE  Len(tx.inputs[j].script) <= 25 /\ Len(tx.inputs[j].script) <= MaxScript
  <2>1. Len(tx.inputs[j].script) \in {22, 25}
    BY DEF IsPayment
  <2> QED
    BY <2>1, PaymentLengths, Zenon
<1>2. ASSUME NEW j \in DOMAIN tx.inputs
      PROVE  scripts[j] \in Seq(Byte) /\ Len(scripts[j]) <= 25
  <2>1. tx.inputs[j].script \in Seq(Byte) /\ Len(tx.inputs[j].script) <= 25
    BY <1>1 DEF IsTx, IsCoin
  <2>2. <<>> \in Seq(Byte) /\ Len(<<>>) <= 25
    OBVIOUS
  <2>3. scripts[j] = tx.inputs[j].script \/ scripts[j] = <<>>
    BY DEF Placed
  <2> HIDE DEF scripts
  <2> QED
    BY <2>1, <2>2, <2>3, Zenon
<1>3. /\ Len(tx.pay.script) <= 25 /\ Len(tx.pay.script) <= MaxScript
      /\ Len(tx.change.script) <= 25 /\ Len(tx.change.script) <= MaxScript
  <2>1. Len(tx.pay.script) \in {22, 25} /\ Len(tx.change.script) \in {22, 25}
    BY DEF IsPayment
  <2> QED
    BY <2>1, PaymentLengths, Zenon
<1>4. Preimage(tx, i) = ser \o type
  BY DEF Preimage, Placed
<1>5. type \in Seq(Byte) /\ Len(type) = 4
  BY ConstantType
<1> HIDE DEF scripts
<1>7. ser \in Seq(Byte) /\ Len(ser) \in 0 .. 160 + 25 + 25
  <2>1. PICK m : m = 25
    OBVIOUS
  <2>2. ScriptsWithin(Byte, tx, scripts, m)
    BY <1>2, <1>3, <2>1 DEF ScriptsWithin
  <2>3. Len(ser) \in 0 .. 160 + m + m
    BY <2>2, SerializedBound
  <2>4. ser \in Seq(Byte)
    BY <1>2, SerializedType
  <2> QED
    BY <2>1, <2>3, <2>4, Zenon
<1> HIDE DEF ser, type
<1>8. Len(Preimage(tx, i)) = Len(ser) + Len(type)
  BY <1>4, <1>5, <1>7, CatType
<1>9. Len(Preimage(tx, i)) <= PreimageSize
  <2>1. \A n \in 0 .. 160 + 25 + 25 : n + 4 <= PreimageSize
    BY DEF PreimageSize
  <2> QED
    BY <1>5, <1>7, <1>8, <2>1, Zenon
<1>10. Len(tx.inputs) \in 1 .. MaxInputs
  BY Counted DEF MaxInputs
<1> QED
  BY <1>1, <1>3, <1>9, <1>10, Zenon DEF PreimageBuilds

(* What the core has built is what the loop looks for, and short enough. *)
RawInv ==
  /\ at = "core" /\ coreOk => Framed(raw, Len(request.inputs))
  /\ at = "check" => Framed(raw, Len(request.inputs)) /\ HexFits
  /\ at = "core" /\ IsPayment(request) => Len(raw) <= 392

LEMMA BuildKeepsRawInv ==
  ASSUME RequestInv, BuffersInv, SigsInv, RawInv, at = "core", UNCHANGED signVars,
         BuildTx(request, RawSize)
  PROVE  RawInv'
<1> DEFINE bytes == SignedTx(request, sigs, pubkey33)
<1>1. /\ bytes \in Seq(Symbols) /\ Framed(bytes, Len(request.inputs))
      /\ IsPayment(request) => Len(bytes) <= 392
  BY SignedTxType DEF BuildTx
<1>2. /\ raw' = Appended(bytes, RawSize) /\ (coreOk' <=> Len(bytes) <= RawSize)
      /\ at' = "core" /\ request' = request
  BY DEF BuildTx, signVars
<1> HIDE DEF bytes
<1>3. ASSUME Len(bytes) <= RawSize PROVE raw' = bytes
  <2>1. raw' = SubSeq(bytes, 1, Len(bytes))
    BY <1>2, <1>3 DEF Appended
  <2> QED
    BY <1>1, <2>1, SubSeqFull
<1>4. coreOk' => Framed(raw', Len(request.inputs))
  BY <1>1, <1>2, <1>3
<1>5. IsPayment(request) => Len(raw') <= 392
  <2>1. Len(bytes) <= 392 => Len(bytes) <= RawSize
    BY <1>1, LenProperties DEF RawSize
  <2> QED
    BY <1>1, <1>3, <2>1
<1> QED
  BY <1>2, <1>4, <1>5 DEF RawInv

LEMMA CoreKeepsRawInv ==
  ASSUME RequestInv, BuffersInv, SigsInv, RawInv, at = "core", UNCHANGED signVars,
         \/ CoreStep(request, RawSize)
         \/ \E len \in DerLengths : StoreSignature(request, len)
  PROVE  RawInv'
<1>1. CASE BuildTx(request, RawSize)
  BY <1>1, BuildKeepsRawInv
<1>2. CASE UNCHANGED <<raw, coreOk>>
  BY <1>2 DEF RawInv, signVars
<1>3. CASE ~BuildTx(request, RawSize)
  <2>1. UNCHANGED <<raw, coreOk>>
    BY <1>3 DEF CoreStep, PubkeyStep, HashOnce, HashTwice, SignDigest, BuildPreimage, Cleanup,
      StoreSignature, CoreFails
  <2> QED
    BY <1>2, <2>1
<1> QED
  BY <1>1, <1>3

LEMMA RawInvInductive ==
  /\ Init => RawInv
  /\ RequestInv /\ BuffersInv /\ SigsInv /\ RawInv /\ [Next]_vars => RawInv'
<1>1. Init => RawInv
  BY DEF Init, RawInv
<1>2. ASSUME RequestInv, BuffersInv, SigsInv, RawInv, [Next]_vars PROVE RawInv'
  <2> USE DEF coreVars, signVars
  <2>1. CASE at' \notin {"core", "check"}
    BY <2>1 DEF RawInv
  <2>2. CASE UNCHANGED vars
    BY <1>2, <2>2 DEF RawInv, vars, HexFits
  <2>3. CASE Start \/ (\E ok \in BOOLEAN : Boot(ok)) \/ Serve \/ Halted
    BY <2>1, <2>2, <2>3 DEF Start, Boot, Serve, Halted
  <2>4. CASE LoopTop \/ Postcheck \/ \E tx \in Transactions : BeginSign(tx)
    BY <2>1, <2>4 DEF LoopTop, Postcheck, BeginSign, Refused
  <2>5. ASSUME NEW answers \in BOOLEAN, GetKey(answers) PROVE RawInv'
    <3>1. CASE at' = "top"
      BY <2>1, <3>1
    <3>2. CASE at' = "core"
      <4>1. raw' = <<>> /\ coreOk' = FALSE
        BY <1>2, <2>5, <3>2 DEF GetKey, CoreStart, BuffersInv, Refused
      <4>2. Len(<<>>) = 0
        OBVIOUS
      <4>3. Len(raw') <= 392
        BY <4>1, <4>2
      <4> QED
        BY <3>2, <4>1, <4>3 DEF RawInv
    <3> QED
      BY <2>5, <3>1, <3>2 DEF GetKey, Refused
  <2>6. CASE SignReturns
    BY <1>2, <2>6, <2>1 DEF SignReturns, Refused, RawInv, HexFits
  <2>7. CASE Core
    BY <1>2, <2>7, CoreKeepsRawInv DEF Core
  <2> QED
    BY <1>2, <2>2, <2>3, <2>4, <2>5, <2>6, <2>7 DEF Next, SignStep
<1> QED
  BY <1>1, <1>2

(* A payment that the policy lets through fits every buffer, whatever the  *)
(* lengths of its signatures.                                              *)
THEOREM RoomForPaymentsHolds == Spec => []RoomForPayments
<1>1. RequestInv /\ BuffersInv /\ SigsInv /\ RawInv => RoomForPayments
  <2> SUFFICES ASSUME RequestInv, BuffersInv, SigsInv, RawInv, at = "core", IsPayment(request)
               PROVE  /\ coreAt = "preimage" => PreimageBuilds(request, coreInput)
                      /\ coreAt = "build" => Len(SignedTx(request, sigs, pubkey33)) <= RawSize
                      /\ HexFits
    BY DEF RoomForPayments
  <2>1. PreimageBuilds(request, coreInput)
    BY PreimageFits, SigningAssumption DEF RequestInv
  <2>2. coreAt = "build" => Len(SignedTx(request, sigs, pubkey33)) <= RawSize
    BY SignedTxType, LenProperties DEF RawSize
  <2>3. HexFits
    BY DEF RawInv, HexFits, HexSize
  <2> QED
    BY <2>1, <2>2, <2>3
<1> QED
  BY <1>1, RequestInvInductive, BuffersInvInductive, StageInvInductive, SigsInvInductive,
    RawInvInductive, PTL DEF Spec

(* What the core returns with 0 passes the look the loop takes at it. *)
THEOREM PostcheckNeverFailsHolds == Spec => []PostcheckNeverFails
<1>1. RequestInv /\ RawInv => PostcheckNeverFails
  <2> SUFFICES ASSUME RequestInv, RawInv, at = "check" PROVE PostcheckOk
    BY DEF PostcheckNeverFails
  <2>1. Framed(raw, Len(request.inputs)) /\ HexFits /\ Len(request.inputs) \in {1, 2}
    BY SigningAssumption, Counted DEF RequestInv, RawInv
  <2>2. HexPartsOk
    BY <2>1 DEF HexPartsOk, HexFits, HexSize
  <2> QED
    BY <2>1, <2>2 DEF PostcheckOk, Framed
<1> QED
  BY <1>1, RequestInvInductive, BuffersInvInductive, StageInvInductive, SigsInvInductive,
    RawInvInductive, PTL DEF Spec

-----------------------------------------------------------------------------
(* RAW_TX. *)

(* The first thing in a script signature is the signature, and the first   *)
(* thing in that is the value of ECDSA.                                    *)
LEMMA ReadsSignature ==
  ASSUME NEW S, Byte \subseteq S, NEW sig \in Seq(S), Len(sig) <= MaxScript,
         NEW key33 \in Seq(S)
  PROVE  SignatureIn(ScriptSig(sig, key33)) = sig
<1>1. PICK s, t : s = ScriptField(sig) /\ t = ScriptField(key33)
  OBVIOUS
<1>2. s \in Seq(S) /\ t \in Seq(S)
  BY <1>1, ScriptFieldType
<1>3. PICK st \in Seq(S) : st = Cat(s, t)
  BY <1>2, Joined
<1>4. Has(S, st, 1, s)
  <2>1. Has(S, st, 1, Cat(s, t))
    BY <1>3, HasAll
  <2> QED
    BY <1>2, <1>3, <2>1, HasParts
<1>5. FieldAt(st, 1) = sig
  BY <1>1, <1>3, <1>4, ReadField
<1> QED
  BY <1>1, <1>3, <1>5 DEF SignatureIn, ScriptSig, Cat

LEMMA FirstOfCat ==
  ASSUME NEW S, NEW s \in Seq(S), NEW t \in Seq(S), Len(s) >= 1
  PROVE  Cat(s, t)[1] = s[1]
<1>1. 1 \in 1 .. Len(s) + Len(t) /\ 1 <= Len(s)
  BY LenProperties
<1> QED
  BY <1>1, CatIn

LEMMA SignatureIsOver ==
  ASSUME NEW tx \in Transactions, NEW i \in 1 .. MaxInputs, NEW len \in Lengths
  PROVE  Signature(tx, i, len)[1][2][2][2] = Preimage(tx, i)
<1>1. PICK sig \in Symbols : sig = Signed(tx, i)
  BY DEF Symbols
<1>2. len \in 1 .. MaxDer /\ Byte \subseteq Symbols
  BY DEF Lengths, Symbols
<1>3. PICK one, zeroes : one = <<sig>> /\ zeroes = [k \in 1 .. len - 1 |-> 0]
  OBVIOUS
<1>4. one \in Seq(Symbols) /\ Len(one) = 1 /\ one[1] = sig
  BY <1>3
<1>5. zeroes \in Seq(Symbols)
  <2>1. len - 1 \in Nat /\ 0 \in Symbols
    BY <1>2 DEF Byte
  <2> QED
    BY <1>3, <2>1
<1>6. PICK der : der = Cat(one, zeroes) /\ der \in Seq(Symbols) /\ Len(der) >= 1 /\ der[1] = sig
  <2>1. Cat(one, zeroes)[1] = sig
    BY <1>4, <1>5, FirstOfCat
  <2>2. Cat(one, zeroes) \in Seq(Symbols) /\ Len(Cat(one, zeroes)) = Len(one) + Len(zeroes)
    BY <1>4, <1>5, CatIn
  <2>3. Len(zeroes) \in Nat
    BY <1>5, LenProperties
  <2> QED
    BY <1>4, <2>1, <2>2, <2>3
<1>7. PICK type : type = U8(SighashAll) /\ type \in Seq(Symbols)
  BY <1>2, NumberType, BytesIn DEF SighashAll
<1>8. Signature(tx, i, len) = Cat(der, type)
  BY <1>1, <1>3, <1>6, <1>7 DEF Signature, Der, Signed, Cat
<1>9. Signature(tx, i, len)[1] = Signed(tx, i)
  BY <1>1, <1>6, <1>7, <1>8, FirstOfCat
<1> QED
  BY <1>9 DEF Signed, Ecdsa, Sha256

CoveredBy(r, over) ==
  over = [k \in DOMAIN r.inputs |->
           [outpoint |-> r.inputs[k].outpoint,
            covers |-> ReadTx(SignatureIn(r.inputs[k].script)[1][2][2][2])]]

LEMMA ReadSignedIs ==
  ASSUME NEW bytes, NEW r, NEW over, r = ReadTx(bytes), CoveredBy(r, over)
  PROVE  ReadSigned(bytes) = [kind |-> "signed", tx |-> [r EXCEPT !.inputs = over]]
BY DEF ReadSigned, CoveredBy

(* A transaction with a signature of every input in place reads as what    *)
(* was asked for.                                                          *)
THEOREM SignedReadsBack ==
  ASSUME NEW tx \in Transactions, NEW ss,
         \A j \in DOMAIN tx.inputs :
           PreimageBuilds(tx, j) /\ \E len \in Lengths : ss[j] = Signature(tx, j, len)
  PROVE  ReadSigned(SignedTx(tx, ss, Pubkey)) = Promise!SignedAnswer(tx)
<1>1. IsTx(tx) /\ Byte \subseteq Symbols
  BY SigningAssumption DEF Symbols
<1>2. PICK scripts : scripts = [j \in DOMAIN tx.inputs |-> ScriptSig(ss[j], Pubkey)]
  OBVIOUS
<1>3. ASSUME NEW j \in DOMAIN tx.inputs
      PROVE  /\ scripts[j] \in Seq(Symbols) /\ Len(scripts[j]) <= MaxScript
             /\ SignatureIn(scripts[j])[1][2][2][2] = Preimage(tx, j)
             /\ ReadTx(Preimage(tx, j)) = Promise!Commitment(tx, j)
  <2>1. PICK len \in Lengths : ss[j] = Signature(tx, j, len)
    OBVIOUS
  <2>2. j \in 1 .. MaxInputs
    BY <1>1, Counted DEF MaxInputs
  <2>3. PICK sig : /\ sig = Signature(tx, j, len) /\ sig \in Seq(Symbols)
                   /\ Len(sig) = len + 1 /\ len \in 1 .. MaxDer
    BY <2>2, SignatureType
  <2>4. PICK key33 : key33 = Pubkey /\ key33 \in Seq(Symbols) /\ Len(key33) = 33
    BY <1>1, PubkeyType, BytesIn
  <2>5. Len(sig) <= MaxScript /\ Len(sig) + 35 <= MaxScript /\ Len(sig) \in Nat
    BY <2>3 DEF MaxScript, MaxDer
  <2>6. /\ ScriptSig(sig, key33) \in Seq(Symbols)
        /\ Len(ScriptSig(sig, key33)) = 2 + Len(sig) + Len(key33)
    BY <1>1, <2>3, <2>4, ScriptSigType
  <2>7. Len(ScriptSig(sig, key33)) <= MaxScript
    <3>1. 2 + Len(sig) + 33 = Len(sig) + 35
      BY <2>5
    <3> QED
      BY <2>4, <2>5, <2>6, <3>1
  <2>8. SignatureIn(ScriptSig(sig, key33)) = sig
    BY <1>1, <2>3, <2>4, <2>5, ReadsSignature
  <2>9. sig[1][2][2][2] = Preimage(tx, j)
    BY <2>2, <2>3, SignatureIsOver
  <2>10. scripts[j] = ScriptSig(sig, key33)
    BY <1>2, <2>1, <2>3, <2>4
  <2>11. ReadTx(Preimage(tx, j)) = Promise!Commitment(tx, j)
    BY <1>1, PreimageReadsBack
  <2> QED
    BY <2>6, <2>7, <2>8, <2>9, <2>10, <2>11
<1>4. Len(tx.pay.script) <= MaxScript /\ Len(tx.change.script) <= MaxScript
  <2>1. PICK j : j \in DOMAIN tx.inputs
    BY <1>1, Counted
  <2> QED
    BY <2>1 DEF PreimageBuilds
<1>5. Short(Symbols, tx, scripts)
  BY <1>3, <1>4 DEF Short
<1>6. PICK b : b = Serialized(tx, scripts) /\ b = SignedTx(tx, ss, Pubkey)
  BY <1>2 DEF SignedTx
<1>7. b = Cat(b, <<>>) /\ Cat(Locktime, <<>>) = Locktime /\ <<>> \in Seq(Symbols)
  <2>1. b \in Seq(Symbols)
    BY <1>1, <1>3, <1>6, SerializedType
  <2>2. Locktime \in Seq(Symbols)
    BY <1>1, ConstantType, BytesIn
  <2>3. \A s \in Seq(Symbols) : s \o <<>> = s
    BY ConcatEmptySeq, Zenon
  <2>4. <<>> \in Seq(Symbols)
    OBVIOUS
  <2> QED
    BY <2>1, <2>2, <2>3, <2>4 DEF Cat
<1>8. PICK r : /\ r = ReadTx(b)
               /\ r = [version |-> Promise!Version, inputs |-> Written(tx, scripts),
                       outputs |-> Promise!Outputs(tx), behind |-> Locktime]
  <2>1. b = Cat(Serialized(tx, scripts), <<>>)
    BY <1>6, <1>7
  <2>2. ReadTx(b) = [version |-> Promise!Version, inputs |-> Written(tx, scripts),
                     outputs |-> Promise!Outputs(tx), behind |-> Cat(Locktime, <<>>)]
    BY <1>1, <1>5, <1>7, <2>1, ReadsTx
  <2> QED
    BY <1>7, <2>2
<1>9. [k \in DOMAIN r.inputs |->
         [outpoint |-> r.inputs[k].outpoint,
          covers |-> ReadTx(SignatureIn(r.inputs[k].script)[1][2][2][2])]]
        = [j \in DOMAIN tx.inputs |->
             [outpoint |-> Promise!Outpoint(tx.inputs[j]), covers |-> Promise!Commitment(tx, j)]]
  <2>1. r.inputs = Written(tx, scripts)
    BY <1>8
  <2>2. ASSUME NEW j \in DOMAIN tx.inputs
        PROVE  /\ r.inputs[j].outpoint = Promise!Outpoint(tx.inputs[j])
               /\ r.inputs[j].script = scripts[j]
    BY <2>1 DEF Written
  <2>3. DOMAIN r.inputs = DOMAIN tx.inputs
    BY <2>1 DEF Written
  <2> QED
    BY <1>3, <2>2, <2>3
<1>10. Locktime = Promise!Locktime
  BY DEF Locktime, U32LE, Promise!Locktime
<1>11. PICK ins : ins = [j \in DOMAIN tx.inputs |->
             [outpoint |-> Promise!Outpoint(tx.inputs[j]), covers |-> Promise!Commitment(tx, j)]]
  OBVIOUS
<1>12. ReadSigned(b) = [kind |-> "signed", tx |-> [r EXCEPT !.inputs = ins]]
  <2>1. PICK over : over = [k \in DOMAIN r.inputs |->
         [outpoint |-> r.inputs[k].outpoint,
          covers |-> ReadTx(SignatureIn(r.inputs[k].script)[1][2][2][2])]]
    OBVIOUS
  <2>2. over = ins
    BY <1>9, <1>11, <2>1, Zenon
  <2>3. r = ReadTx(b)
    BY <1>8
  <2>4. ReadSigned(b) = [kind |-> "signed", tx |-> [r EXCEPT !.inputs = over]]
    <3>1. CoveredBy(r, over)
      BY <2>1, Zenon DEF CoveredBy
    <3> QED
      BY <2>3, <3>1, ReadSignedIs, Zenon
  <2> QED
    BY <2>2, <2>4
<1>13. [r EXCEPT !.inputs = ins]
         = [version |-> Promise!Version, inputs |-> ins,
            outputs |-> Promise!Outputs(tx), behind |-> Promise!Locktime]
  BY <1>8, <1>10
<1> QED
  BY <1>6, <1>11, <1>12, <1>13 DEF Promise!SignedAnswer

(* Sums that hold in 64 bits hold. *)
LEMMA NoWrap ==
  ASSUME NEW m \in Nat \ {0}, NEW p \in 0 .. m - 1, NEW c \in 0 .. m - 1,
         (p + c) % m >= p
  PROVE  (p + c) % m = p + c
OBVIOUS

LEMMA SumsCover ==
  ASSUME NEW tx \in Transactions, SumsHold(tx)
  PROVE  Promise!Covered(tx)
<1>1. tx.pay.sats \in 0 .. U64 - 1 /\ tx.change.sats \in 0 .. U64 - 1 /\ U64 \in Nat \ {0}
  BY SigningAssumption, TxCoreAssumption DEF IsTx, IsOutput, Amount
<1>2. PICK p, c : p = tx.pay.sats /\ c = tx.change.sats
  OBVIOUS
<1>3. (p + c) % U64 = p + c
  <2>1. (p + c) % U64 >= p
    BY <1>2 DEF SumsHold
  <2> QED
    BY <1>1, <1>2, <2>1, NoWrap
<1>4. PICK total : total = InputSum(tx) /\ total = Promise!Total(tx)
  BY DEF InputSum, Promise!Total
<1>5. total = 0 \/ total >= p + c
  BY <1>2, <1>3, <1>4 DEF SumsHold
<1>6. total \in Int
  <2>1. \A j \in DOMAIN tx.inputs : tx.inputs[j].sats \in Int
    BY SigningAssumption DEF IsTx, IsCoin, Amount
  <2> QED
    BY <1>4, <2>1, SigningAssumption, Counted DEF InputSum
<1> QED
  BY <1>1, <1>2, <1>4, <1>5, <1>6 DEF Promise!Covered
(* What the core returns with 0, and what the loop looks at, reads as what  *)
(* was asked for; the core goes to work only when the sums hold.            *)
ResultInv ==
  /\ (at = "core" /\ coreOk) \/ at = "check" =>
       ReadSigned(raw) = Promise!SignedAnswer(request)
  /\ coreAt # "idle" \/ (at = "core" /\ coreOk) \/ at = "check" => SumsHold(request)

LEMMA BuildKeepsResultInv ==
  ASSUME RequestInv, BuffersInv, SigsInv, ResultInv, at = "core", UNCHANGED signVars,
         BuildTx(request, RawSize)
  PROVE  ResultInv'
<1> DEFINE bytes == SignedTx(request, sigs, pubkey33)
<1>1. /\ request \in Transactions /\ pubkey33 = Pubkey /\ coreAt = "build"
      /\ bytes \in Seq(Symbols)
  BY SignedTxType DEF RequestInv, BuffersInv, BuildTx
<1>2. /\ raw' = Appended(bytes, RawSize) /\ (coreOk' <=> Len(bytes) <= RawSize)
      /\ at' = "core" /\ request' = request
  BY DEF BuildTx, signVars
<1>3. ReadSigned(bytes) = Promise!SignedAnswer(request)
  <2>1. DOMAIN sigs = DOMAIN request.inputs
    <3>1. Len(sigs) = Len(request.inputs) /\ DOMAIN sigs = 1 .. Len(sigs)
      BY <1>1, LenProperties DEF SigsInv
    <3>2. DOMAIN request.inputs = 1 .. Len(request.inputs)
      BY <1>1, SigningAssumption, Counted
    <3> QED
      BY <3>1, <3>2
  <2>2. \A j \in DOMAIN request.inputs :
          /\ PreimageBuilds(request, j)
          /\ \E len \in Lengths : sigs[j] = Signature(request, j, len)
    BY <2>1 DEF SigsInv
  <2> QED
    BY <1>1, <2>2, SignedReadsBack
<1> HIDE DEF bytes
<1>4. coreOk' => raw' = bytes
  <2>1. Len(bytes) <= RawSize => raw' = SubSeq(bytes, 1, Len(bytes))
    BY <1>2 DEF Appended
  <2> QED
    BY <1>1, <1>2, <2>1, SubSeqFull
<1>5. SumsHold(request)
  BY <1>1 DEF ResultInv
<1>6. coreOk' => ReadSigned(raw') = Promise!SignedAnswer(request)
  BY <1>3, <1>4, Zenon
<1>7. coreOk' => ReadSigned(raw)' = Promise!SignedAnswer(request)'
  BY <1>2, <1>6 DEF ReadSigned
<1> QED
  BY <1>2, <1>5, <1>7 DEF ResultInv, SumsHold, InputSum

LEMMA ResultInvInductive ==
  /\ Init => ResultInv
  /\ RequestInv /\ RequestInv' /\ BuffersInv /\ SigsInv /\ ResultInv /\ [Next]_vars
       => ResultInv'
<1>1. Init => ResultInv
  BY DEF Init, CoreInit, ResultInv
<1>2. ASSUME RequestInv, RequestInv', BuffersInv, SigsInv, ResultInv, [Next]_vars
      PROVE  ResultInv'
  <2> USE DEF coreVars, signVars
  <2>1. CASE at' \notin {"core", "check"}
    BY <1>2, <2>1 DEF ResultInv, RequestInv
  <2>2. CASE UNCHANGED <<coreAt, coreOk, at, raw, request>>
    BY <1>2, <2>2 DEF ResultInv, ReadSigned, SumsHold, InputSum
  <2>3. CASE Start \/ (\E ok \in BOOLEAN : Boot(ok)) \/ Serve \/ Halted \/ UNCHANGED vars
    BY <2>1, <2>2, <2>3 DEF Start, Boot, Serve, Halted, vars
  <2>4. CASE LoopTop \/ Postcheck \/ \E tx \in Transactions : BeginSign(tx)
    BY <2>1, <2>4 DEF LoopTop, Postcheck, BeginSign, Refused
  <2>5. ASSUME NEW answers \in BOOLEAN, GetKey(answers) PROVE ResultInv'
    <3>1. CASE at' = "top"
      BY <2>1, <3>1
    <3>2. CASE at' = "core"
      <4>1. /\ coreOk' = FALSE /\ request' = request
            /\ coreAt' # "idle" => SumsHold(request)
        BY <2>5, <3>2 DEF GetKey, CoreStart, Refused
      <4> QED
        BY <3>2, <4>1 DEF ResultInv, SumsHold, InputSum
    <3> QED
      BY <2>5, <3>1, <3>2 DEF GetKey, Refused
  <2>6. CASE SignReturns
    <3>1. CASE at' = "check"
      BY <1>2, <2>6, <3>1 DEF SignReturns, Refused, ResultInv, RequestInv, ReadSigned, SumsHold,
        InputSum
    <3> QED
      BY <2>1, <2>6, <3>1 DEF SignReturns, Refused
  <2>7. CASE Core
    <3>1. at = "core" /\ UNCHANGED signVars
      BY <2>7 DEF Core
    <3>2. CASE BuildTx(request, RawSize)
      BY <1>2, <3>1, <3>2, BuildKeepsResultInv
    <3>3. CASE ~BuildTx(request, RawSize)
      <4>1. UNCHANGED <<raw, coreOk>> /\ coreAt # "idle"
        BY <2>7, <3>3 DEF Core, CoreStep, PubkeyStep, HashOnce, HashTwice, SignDigest,
          BuildPreimage, Cleanup, StoreSignature, CoreFails
      <4> QED
        BY <1>2, <3>1, <4>1 DEF ResultInv, ReadSigned, SumsHold, InputSum
    <3> QED
      BY <3>2, <3>3
  <2> QED
    BY <1>2, <2>3, <2>4, <2>5, <2>6, <2>7 DEF Next, SignStep
<1> QED
  BY <1>1, <1>2

(* The loop and the core implement the signer: what RAW_TX says, read byte *)
(* by byte, is the transaction that was asked for, every input signed over *)
(* its own script and all outpoints and outputs, its outputs covered by    *)
(* its inputs; and every other answer is a refusal.                        *)
THEOREM KeepsSigningHolds == Spec => KeepsSigning
<1> DEFINE answer == CASE reply = "nothing" -> [kind |-> "nothing"]
                       [] reply = "refused" -> [kind |-> "refused"]
                       [] reply = "signed" -> ReadSigned(sent)
<1>1. Init => Promise!Init
  BY DEF Init, Promise!Init, Promise!NoRequest, Promise!Nothing, NoRequest
<1>2. RequestInv /\ ResultInv /\ [Next]_vars => [Promise!Next]_<<request, answer>>
  <2> SUFFICES ASSUME RequestInv, ResultInv, [Next]_vars
               PROVE  [Promise!Next]_<<request, answer>>
    OBVIOUS
  <2> USE DEF signVars
  <2>1. CASE UNCHANGED <<request, reply, sent>>
    BY <2>1 DEF ReadSigned
  <2>2. CASE Refused /\ at \in {"key", "core", "check"}
    <3>1. request # Promise!NoRequest
      <4>1. request \in Transactions
        BY <2>2 DEF RequestInv
      <4>2. Len(request.inputs) # 0
        BY <4>1, SigningAssumption, Counted
      <4> QED
        BY <4>2 DEF Promise!NoRequest
    <3>2. answer' = Promise!Refusal /\ request' = Promise!NoRequest
      BY <2>2 DEF Refused, Promise!Refusal, Promise!NoRequest, NoRequest
    <3> QED
      BY <3>1, <3>2 DEF Promise!Next, Promise!Refuse
  <2>3. ASSUME NEW tx \in Transactions, BeginSign(tx)
        PROVE  Promise!Next
    <3>1. request = Promise!NoRequest /\ request' = tx /\ answer' = Promise!Nothing
      BY <2>3 DEF BeginSign, RequestInv, NoRequest, Promise!NoRequest, Promise!Nothing
    <3> QED
      BY <3>1 DEF Promise!Next, Promise!Ask
  <2>4. CASE Postcheck
    <3>1. CASE PostcheckOk
      <4>1. /\ at = "check" /\ request' = NoRequest /\ reply' = "signed" /\ sent' = raw
        BY <2>4, <3>1 DEF Postcheck
      <4>2. request # Promise!NoRequest /\ Promise!Covered(request)
        <5>1. request \in Transactions /\ SumsHold(request)
          BY <4>1 DEF RequestInv, ResultInv
        <5>2. Len(request.inputs) # 0
          BY <5>1, SigningAssumption, Counted
        <5> QED
          BY <5>1, <5>2, SumsCover DEF Promise!NoRequest
      <4>3. answer' = Promise!SignedAnswer(request)
        <5>1. answer' = ReadSigned(sent)'
          BY <4>1
        <5>2. ReadSigned(sent)' = ReadSigned(raw)
          BY <4>1 DEF ReadSigned
        <5> QED
          BY <4>1, <5>1, <5>2 DEF ResultInv
      <4> QED
        BY <4>1, <4>2, <4>3 DEF Promise!Next, Promise!Sign, Promise!NoRequest, NoRequest
    <3> QED
      BY <2>2, <2>4, <3>1 DEF Postcheck
  <2>5. CASE Start \/ (\E ok \in BOOLEAN : Boot(ok)) \/ Serve \/ Halted \/ LoopTop \/ Core
             \/ UNCHANGED vars
    BY <2>1, <2>5 DEF Start, Boot, Serve, Halted, LoopTop, Core, vars
  <2>6. CASE (\E answers \in BOOLEAN : GetKey(answers)) \/ SignReturns
    BY <2>1, <2>2, <2>6 DEF GetKey, SignReturns
  <2> QED
    BY <2>3, <2>4, <2>5, <2>6 DEF Next, SignStep
<1> QED
  BY <1>1, <1>2, RequestInvInductive, BuffersInvInductive, StageInvInductive, SigsInvInductive,
    ResultInvInductive, PTL DEF Spec, Promise!Spec, KeepsSigning
=============================================================================
