---------------------------- MODULE PolicyProofs ----------------------------
(***************************************************************************)
(* The three readings of a text agree: what the summary accepts the policy *)
(* accepts, and what the signature builds the summary has promised.  And   *)
(* its numbers mean what they say: no sum of an accepted text has wrapped. *)
(***************************************************************************)
EXTENDS PolicySafety, SequenceTheorems, WellFoundedInduction, TLAPS

(* check_summary_text makes every check of check_policy_text: a text with  *)
(* a summary is never refused by the policy of SIGN.  This is what the     *)
(* model of the command loop assumes of the texts it is given.             *)
THEOREM SummaryMeansPolicy ==
  ASSUME NEW t, CheckSummaryText(t)
  PROVE  CheckPolicyText(t)
BY DEF CheckSummaryText, CheckPolicyText

(* The transaction built from a text is the one its summary describes.     *)
LEMMA TransactionAsSummarized ==
  ASSUME NEW t
  PROVE  Transaction(t) = Promised(Summary(t))
<1>1. DOMAIN Summary(t).inputs = InputsOf(t)
  BY DEF Summary
<1>2. \A i \in InputsOf(t) :
        /\ Summary(t).inputs[i].txid = ParseTxid(t, InputKeys[i].txid)
        /\ Summary(t).inputs[i].vout = ParseU32(t, InputKeys[i].vout)
  BY DEF Summary
<1>3. Promised(Summary(t)).inputs = Transaction(t).inputs
  BY <1>1, <1>2 DEF Promised, Transaction
<1>4. Promised(Summary(t)).outputs = Transaction(t).outputs
  BY DEF Promised, Transaction, Summary
<1> QED
  BY <1>3, <1>4 DEF Promised, Transaction

(* Whatever the host does to its text between CHECK and SIGN, a            *)
(* transaction that is signed is the approved one.                         *)
THEOREM SignedIsApprovedHolds == Spec => []SignedIsApproved
<1>1. Init => SignedIsApproved
  BY DEF Init, SignedIsApproved
<1>2. SignedIsApproved /\ [Next]_vars => SignedIsApproved'
  <2> SUFFICES ASSUME SignedIsApproved, [Next]_vars PROVE SignedIsApproved'
    OBVIOUS
  <2>1. CASE Sign
    <3>1. Transaction(text) = Promised(approved)
      BY <2>1, TransactionAsSummarized DEF Sign, Matches
    <3>2. signed'[1].tx = Transaction(text) /\ signed'[1].of = approved
      BY <2>1 DEF Sign
    <3> QED
      BY <3>1, <3>2 DEF SignedIsApproved
  <2>2. CASE Edit \/ Check \/ SignMismatch \/ UNCHANGED vars
    <3>1. signed' = signed
      BY <2>2 DEF Edit, Check, SignMismatch, vars
    <3> QED
      BY <3>1 DEF SignedIsApproved
  <2> QED
    BY <2>1, <2>2 DEF Next
<1> QED
  BY <1>1, <1>2, PTL DEF Spec

-----------------------------------------------------------------------------
(* What is found in a text. *)

LEMMA LeastOf ==
  ASSUME NEW T, T \subseteq Nat, T # {}
  PROVE  \E x \in T : \A y \in T : x <= y
<1> DEFINE Less == OpToRel(<, Nat)
<1>1. IsWellFoundedOn(Less, Nat)
  BY NatLessThanWellFounded
<1>2. \A x, y \in Nat : <<y, x>> \in Less <=> y < x
  BY DEF OpToRel
<1> HIDE DEF Less
<1>3. PICK x \in T : \A y \in T : ~(<<y, x>> \in Less)
  BY <1>1, WFMin
<1>4. ASSUME NEW y \in T PROVE x <= y
  <2>1. x \in Nat /\ y \in Nat
    OBVIOUS
  <2>2. ~(y < x)
    BY <1>2, <1>3, <2>1
  <2> QED
    BY <2>1, <2>2
<1> QED
  BY <1>4

LEMMA SmallestIsThere ==
  ASSUME NEW T, T \subseteq Nat, T # {}
  PROVE  Min(T) \in T
<1>1. PICK x \in T : \A y \in T : x <= y
  BY LeastOf
<1> QED
  BY <1>1 DEF Min

LEMMA LineOfText ==
  ASSUME NEW t \in Seq(HostLines), NEW i \in DOMAIN t
  PROVE  /\ t[i] \in HostLines
         /\ t[i].key \in DOMAIN Values
         /\ t[i].val \in HostValues
<1>1. t[i] \in HostLines
  <2>1. i \in 1 .. Len(t)
    OBVIOUS
  <2>2. \A S : \A s \in Seq(S) : \A k \in 1 .. Len(s) : s[k] \in S
    OBVIOUS
  <2> QED
    BY <2>1, <2>2
<1> QED
  BY <1>1 DEF HostLines

LEMMA ValueFound ==
  ASSUME NEW t \in Seq(HostLines), NEW key
  PROVE  FindValue(t, key) \in HostValues \cup {Empty}
<1> DEFINE native == LinesWith(t, key)
           alias == IF key \in NativeKeys THEN LinesWith(t, AliasKey[key]) ELSE {}
           found == IF native # {} THEN native ELSE alias
<1>1. found \subseteq DOMAIN t /\ DOMAIN t \subseteq Nat
  BY DEF LinesWith
<1>2. CASE found = {}
  BY <1>2 DEF FindValue
<1>3. CASE found # {}
  <2>1. Min(found) \in DOMAIN t
    BY <1>1, <1>3, SmallestIsThere
  <2>2. t[Min(found)].val \in HostValues
    BY <2>1, LineOfText
  <2> QED
    BY <1>3, <2>2 DEF FindValue
<1> QED
  BY <1>2, <1>3

LEMMA NumberFound ==
  ASSUME NEW t \in Seq(HostLines), NEW key, HasNumber(t, key)
  PROVE  /\ FindValue(t, key).num \in Nat
         /\ ParseU32(t, key) \in 0 .. U32 - 1
         /\ ParseU64(t, key) \in 0 .. U64 - 1
<1>1. FindValue(t, key) # Empty
  <2>1. DOMAIN Empty = {"word"}
    BY DEF Empty, Word
  <2> QED
    BY <2>1 DEF HasNumber
<1>2. FindValue(t, key) \in HostValues
  BY <1>1, ValueFound
<1>3. FindValue(t, key).num \in Nat
  BY <1>2, HostAssumption DEF HasNumber
<1>4. PICK n \in Nat : n = FindValue(t, key).num
  BY <1>3
<1>5. n % U32 \in 0 .. U32 - 1 /\ n % U64 \in 0 .. U64 - 1
  <2>1. \A m \in Nat \ {0} : n % m \in 0 .. m - 1
    OBVIOUS
  <2> QED
    BY <2>1, PolicyAssumption
<1> QED
  BY <1>3, <1>4, <1>5, Zenon DEF ParseU32, ParseU64

(* The amounts of an accepted text and their sum. *)
LEMMA InputsFound ==
  ASSUME NEW t \in Seq(HostLines), CheckSummaryText(t)
  PROVE  /\ InputCount(t) \in {1, 2}
         /\ \A i \in InputsOf(t) :
              /\ ParseU32(t, InputKeys[i].vout) \in 0 .. U32 - 1
              /\ InputSats(t, i) \in 0 .. U64 - 1
         /\ InputSats(t, 1) \in 0 .. U64 - 1
         /\ InputSats(t, 2) \in 0 .. U64 - 1
         /\ TotalInput(t) = InputSats(t, 1) + InputSats(t, 2)
         /\ TotalInput(t) \in 0 .. U64 - 1
<1>1. InputCount(t) \in {1, 2}
  BY DEF CheckSummaryText, CountOk, MaxInputs
<1>2. \A i \in InputsOf(t) :
        HasNumber(t, InputKeys[i].vout) /\ HasNumber(t, InputKeys[i].sats)
  BY DEF CheckSummaryText, OutpointsLegible, AmountsLegible
<1>3. \A i \in InputsOf(t) :
        /\ ParseU32(t, InputKeys[i].vout) \in 0 .. U32 - 1
        /\ ParseU64(t, InputKeys[i].sats) \in 0 .. U64 - 1
  BY <1>2, NumberFound
<1>4. 0 \in 0 .. U64 - 1
  BY PolicyAssumption
<1>5. \A i \in {1, 2} : InputSats(t, i) \in 0 .. U64 - 1
  BY <1>3, <1>4 DEF InputSats
<1>6. InputSats(t, 2) <= U64 - 1 - InputSats(t, 1)
  BY DEF CheckSummaryText, TotalFits
<1>7. /\ InputSats(t, 1) + InputSats(t, 2) \in 0 .. U64 - 1
      /\ \A n \in 0 .. U64 - 1 : n % U64 = n
  <2>1. U64 \in Nat \ {0}
    BY PolicyAssumption
  <2>2. InputSats(t, 1) \in 0 .. U64 - 1 /\ InputSats(t, 2) \in 0 .. U64 - 1
    BY <1>5
  <2>3. \A n \in 0 .. U64 - 1 : n % U64 = n
    BY <2>1
  <2>4. \A a, b \in 0 .. U64 - 1 : b <= U64 - 1 - a => a + b \in 0 .. U64 - 1
    BY <2>1
  <2> QED
    BY <1>6, <2>2, <2>3, <2>4
<1>8. TotalInput(t) = InputSats(t, 1) + InputSats(t, 2)
  BY <1>7 DEF TotalInput
<1> QED
  BY <1>1, <1>3, <1>5, <1>7, <1>8 DEF InputsOf

(* The rules for amounts, in whole numbers. *)
LEMMA AmountsAddUp ==
  ASSUME NEW input \in 0 .. U64 - 1, NEW pay \in 0 .. U64 - 1,
         NEW change \in 0 .. U64 - 1, NEW count \in 1 .. MaxInputs,
         CheckAmounts(input, pay, change, count)
  PROVE  LET fee == input - pay - change
         IN  /\ fee \in 0 .. MaxFee
             /\ fee * KiloByte <= MaxFeeRate * Vbytes[count]
<1>1. /\ U64 \in Nat \ {0} /\ MaxFee \in Nat /\ KiloByte \in Nat
      /\ MaxFee * KiloByte < U64
  BY PolicyAssumption
<1>2. \A n \in 0 .. U64 - 1 : n % U64 = n
  BY <1>1
<1>3. pay + change \in 0 .. U64 - 1 /\ (pay + change) % U64 = pay + change
  BY <1>1, <1>2 DEF CheckAmounts
<1> DEFINE fee == input - (pay + change)
<1>4. fee \in 0 .. U64 - 1
  BY <1>1, <1>3 DEF CheckAmounts
<1>5. fee % U64 = fee
  BY <1>2, <1>4
<1>6. fee <= MaxFee /\ (fee * KiloByte) % U64 <= MaxFeeRate * Vbytes[count]
  BY <1>3, <1>5 DEF CheckAmounts
<1>7. fee * KiloByte \in 0 .. U64 - 1
  <2> HIDE DEF fee
  <2>1. fee * KiloByte <= MaxFee * KiloByte /\ fee * KiloByte \in Nat
    <3>1. \A a, b, k \in Nat : a <= b => a * k <= b * k
      OBVIOUS
    <3> QED
      BY <1>1, <1>4, <1>6, <3>1
  <2>2. MaxFee * KiloByte \in Nat
    BY <1>1
  <2> QED
    BY <1>1, <2>1, <2>2
<1>8. (fee * KiloByte) % U64 = fee * KiloByte
  BY <1>2, <1>7
<1>9. input - pay - change = fee
  BY <1>1
<1> QED
  BY <1>1, <1>4, <1>6, <1>8, <1>9

LEMMA SummaryFound ==
  ASSUME NEW t \in Seq(HostLines), CheckSummaryText(t)
  PROVE  LET paid == ParseU64(t, "PAY_SATS")
             kept == ParseU64(t, "CHANGE_SATS")
             fee == TotalInput(t) - paid - kept
         IN  /\ paid \in 0 .. U64 - 1
             /\ kept \in 0 .. U64 - 1
             /\ fee \in 0 .. MaxFee
             /\ fee * KiloByte <= MaxFeeRate * Vbytes[InputCount(t)]
             /\ Summary(t).feeSats = fee
             /\ Summary(t).feeSats \in 0 .. U64 - 1
<1> DEFINE paid == ParseU64(t, "PAY_SATS")
           kept == ParseU64(t, "CHANGE_SATS")
           total == TotalInput(t)
           fee == total - paid - kept
<1>1. paid \in 0 .. U64 - 1 /\ kept \in 0 .. U64 - 1
  BY NumberFound DEF CheckSummaryText, AmountsLegible
<1>2. total \in 0 .. U64 - 1 /\ InputCount(t) \in 1 .. MaxInputs
  BY InputsFound DEF MaxInputs
<1>3. CheckAmounts(total, paid, kept, InputCount(t))
  BY DEF CheckSummaryText, RulesOk
<1> HIDE DEF paid, kept, total
<1>4. fee \in 0 .. MaxFee /\ fee * KiloByte <= MaxFeeRate * Vbytes[InputCount(t)]
  BY <1>1, <1>2, <1>3, AmountsAddUp
<1>5. paid <= total /\ kept <= total - paid /\ fee \in 0 .. U64 - 1
  <2>1. U64 \in Nat /\ MaxFee \in Nat
    BY PolicyAssumption
  <2> QED
    BY <1>1, <1>2, <1>4, <2>1
<1>6. Summary(t).feeSats = fee
  BY <1>5 DEF Summary, paid, kept, total
<1> QED
  BY <1>1, <1>4, <1>5, <1>6 DEF paid, kept, total

-----------------------------------------------------------------------------
(* The edits of the host keep a text a text. *)
LEMMA EditKeepsText ==
  ASSUME text \in Seq(HostLines), Edit
  PROVE  text' \in Seq(HostLines)
<1>1. \A key \in DOMAIN Values : \A val \in Values[key] : Line(key, val) \in HostLines
  BY DEF Line, HostLines, HostValues
<1>2. ASSUME NEW i \in DOMAIN text, NEW val \in Values[text[i].key],
             text' = [text EXCEPT ![i].val = val]
      PROVE  text' \in Seq(HostLines)
  <2>1. text[i] \in HostLines /\ text[i].key \in DOMAIN Values
    BY LineOfText
  <2>2. val \in HostValues
    BY <2>1 DEF HostValues
  <2>3. [text[i] EXCEPT !.val = val] \in HostLines
    BY <2>1, <2>2 DEF HostLines
  <2> QED
    BY <1>2, <2>3
<1>3. ASSUME NEW i \in DOMAIN text, text' = Without(text, i)
      PROVE  text' \in Seq(HostLines)
  BY <1>3 DEF Without
<1>4. ASSUME NEW key \in DOMAIN Values, NEW val \in Values[key],
             text' = <<Line(key, val)>> \o text
      PROVE  text' \in Seq(HostLines)
  BY <1>1, <1>4
<1> QED
  BY <1>2, <1>3, <1>4 DEF Edit

(* An approved summary is the summary of a text that was accepted. *)
LEMMA SummaryTypeOK ==
  ASSUME NEW t \in Seq(HostLines), CheckSummaryText(t)
  PROVE  /\ Summary(t).network \in {"REGTEST", "TESTNET"}
         /\ \A i \in DOMAIN Summary(t).inputs :
              /\ Summary(t).inputs[i].vout \in 0 .. U32 - 1
              /\ Summary(t).inputs[i].sats \in 0 .. U64 - 1
         /\ {Summary(t).totalSats, Summary(t).paySats, Summary(t).changeSats,
              Summary(t).feeSats} \subseteq 0 .. U64 - 1
<1>1. Summary(t).network \in {"REGTEST", "TESTNET"}
  BY DEF CheckSummaryText, NetworkAllowed, IsTestnet, ValueEquals, Word, Summary
<1>2. /\ DOMAIN Summary(t).inputs = InputsOf(t)
      /\ \A i \in InputsOf(t) :
           /\ Summary(t).inputs[i].vout = ParseU32(t, InputKeys[i].vout)
           /\ Summary(t).inputs[i].sats = InputSats(t, i)
  BY DEF Summary
<1>3. /\ Summary(t).totalSats = TotalInput(t)
      /\ Summary(t).paySats = ParseU64(t, "PAY_SATS")
      /\ Summary(t).changeSats = ParseU64(t, "CHANGE_SATS")
  BY DEF Summary
<1>4. ASSUME NEW i \in DOMAIN Summary(t).inputs
      PROVE  /\ Summary(t).inputs[i].vout \in 0 .. U32 - 1
             /\ Summary(t).inputs[i].sats \in 0 .. U64 - 1
  <2>1. i \in InputsOf(t)
    BY <1>2
  <2>2. ParseU32(t, InputKeys[i].vout) \in 0 .. U32 - 1 /\ InputSats(t, i) \in 0 .. U64 - 1
    BY <2>1, InputsFound
  <2> QED
    BY <1>2, <2>1, <2>2, Zenon
<1>5. /\ Summary(t).totalSats \in 0 .. U64 - 1 /\ Summary(t).paySats \in 0 .. U64 - 1
      /\ Summary(t).changeSats \in 0 .. U64 - 1
  <2>1. TotalInput(t) \in 0 .. U64 - 1
    BY InputsFound
  <2>2. ParseU64(t, "PAY_SATS") \in 0 .. U64 - 1 /\ ParseU64(t, "CHANGE_SATS") \in 0 .. U64 - 1
    BY SummaryFound
  <2> QED
    BY <1>3, <2>1, <2>2, Zenon
<1>6. Summary(t).feeSats \in 0 .. U64 - 1
  BY SummaryFound
<1> QED
  BY <1>1, <1>4, <1>5, <1>6, Zenon

(* Texts, and what is kept of them, keep their types. *)
THEOREM PolicyTypes == Spec => []TypeOK
<1>1. Init => TypeOK
  BY HostAssumption DEF Init, TypeOK
<1>2. TypeOK /\ [Next]_vars => TypeOK'
  <2> SUFFICES ASSUME TypeOK, [Next]_vars PROVE TypeOK'
    OBVIOUS
  <2>1. CASE Edit
    <3>1. edits' \in 0 .. MaxEdits
      BY <2>1, HostAssumption DEF Edit, TypeOK
    <3> QED
      BY <2>1, <3>1, EditKeepsText DEF Edit, TypeOK
  <2>2. CASE Check
    <3>1. CASE CheckSummaryText(text)
      <4>1. approved' = Summary(text)
        BY <2>2, <3>1 DEF Check
      <4> QED
        BY <2>2, <3>1, <4>1, SummaryTypeOK DEF Check, TypeOK
    <3>2. CASE ~CheckSummaryText(text)
      BY <2>2, <3>2 DEF Check, TypeOK
    <3> QED
      BY <3>1, <3>2
  <2>3. CASE Sign \/ SignMismatch
    BY <2>3 DEF Sign, SignMismatch, TypeOK
  <2>4. CASE UNCHANGED vars
    BY <2>4 DEF vars, TypeOK
  <2> QED
    BY <2>1, <2>2, <2>3, <2>4 DEF Next
<1> QED
  BY <1>1, <1>2, PTL DEF Spec

(* The amounts approved add up in whole numbers: nothing wrapped, for any  *)
(* texts, edits, rules and widths.                                         *)
THEOREM ApprovedAddsUpHolds == Spec => []ApprovedAddsUp
<1>1. Init => ApprovedAddsUp
  BY DEF Init, ApprovedAddsUp
<1>2. TypeOK /\ ApprovedAddsUp /\ [Next]_vars => ApprovedAddsUp'
  <2> SUFFICES ASSUME TypeOK, ApprovedAddsUp, [Next]_vars PROVE ApprovedAddsUp'
    OBVIOUS
  <2>1. CASE Check /\ CheckSummaryText(text)
    <3>1. approved' = Summary(text) /\ text \in Seq(HostLines)
      BY <2>1 DEF Check, TypeOK
    <3>2. /\ InputCount(text) \in {1, 2}
          /\ TotalInput(text) = InputSats(text, 1) + InputSats(text, 2)
          /\ InputSats(text, 1) \in Nat /\ InputSats(text, 2) \in Nat
      BY <2>1, <3>1, InputsFound
    <3>3. /\ Len(Summary(text).inputs) = InputCount(text)
          /\ Summary(text).inputs[1].sats = InputSats(text, 1)
          /\ InputCount(text) = 2 => Summary(text).inputs[2].sats = InputSats(text, 2)
      BY <3>2 DEF Summary, InputsOf
    <3>4. InputCount(text) = 1 => InputSats(text, 2) = 0
      BY DEF InputSats, InputsOf
    <3>5. /\ Summary(text).totalSats = TotalInput(text)
          /\ Summary(text).paySats = ParseU64(text, "PAY_SATS")
          /\ Summary(text).changeSats = ParseU64(text, "CHANGE_SATS")
      BY DEF Summary
    <3>6. TotalInput(text) = IF Len(Summary(text).inputs) = 2
                             THEN Summary(text).inputs[1].sats + Summary(text).inputs[2].sats
                             ELSE Summary(text).inputs[1].sats
      BY <3>2, <3>3, <3>4
    <3> QED
      BY <2>1, <3>1, <3>3, <3>5, <3>6, SummaryFound DEF ApprovedAddsUp
  <2>2. CASE Check /\ ~CheckSummaryText(text)
    BY <2>2 DEF Check, ApprovedAddsUp
  <2>3. CASE Edit \/ Sign \/ SignMismatch \/ UNCHANGED vars
    BY <2>3 DEF Edit, Sign, SignMismatch, vars, ApprovedAddsUp
  <2> QED
    BY <2>1, <2>2, <2>3 DEF Next
<1> QED
  BY <1>1, <1>2, PolicyTypes, PTL DEF Spec
-----------------------------------------------------------------------------
(* Numbers, digit by digit. *)

Digits == {"0", "1", "2", "3", "4", "5", "6", "7", "8", "9"}

LEMMA DigitsDiffer ==
  /\ \A i \in 0 .. 9 : Digit[i] \in Digits
  /\ \A i, j \in 0 .. 9 : Digit[i] = Digit[j] => i = j
  /\ "=" \notin Digits
<1>1. /\ Digit[0] = "0" /\ Digit[1] = "1" /\ Digit[2] = "2" /\ Digit[3] = "3" /\ Digit[4] = "4"
      /\ Digit[5] = "5" /\ Digit[6] = "6" /\ Digit[7] = "7" /\ Digit[8] = "8" /\ Digit[9] = "9"
  BY DEF Digit
<1>2. \A i \in 0 .. 9 : i \in {0, 1, 2, 3, 4, 5, 6, 7, 8, 9}
  OBVIOUS
<1> QED
  BY <1>1, <1>2 DEF Digits

Step(f, n) == IF n < 10 THEN <<Digit[n]>> ELSE Append(f[n \div 10], Digit[n % 10])

LEMMA Shift ==
  ASSUME NEW n \in Nat, n >= 10
  PROVE  /\ n \div 10 \in Nat /\ n \div 10 < n /\ n \div 10 >= 1
         /\ n % 10 \in 0 .. 9 /\ n = 10 * (n \div 10) + (n % 10)
<1>1. n \div 10 \in Int /\ n % 10 \in Int
  OBVIOUS
<1>2. n = 10 * (n \div 10) + (n % 10)
  OBVIOUS
<1>3. n % 10 \in 0 .. 9
  OBVIOUS
<1> QED
  BY <1>1, <1>2, <1>3

LEMMA DecimalThere ==
  ASSUME NEW k \in Nat
  PROVE  \E f : f = [n \in 0 .. k |-> Step(f, n)]
<1> DEFINE Bad == {j \in Nat : ~\E f : f = [n \in 0 .. j |-> Step(f, n)]}
<1>1. SUFFICES ASSUME Bad # {} PROVE FALSE
  OBVIOUS
<1>2. PICK j \in Bad : \A i \in Bad : j <= i
  BY <1>1, LeastOf
<1>3. CASE j = 0
  <2> DEFINE f == [n \in 0 .. 0 |-> <<Digit[0]>>]
  <2>1. f = [n \in 0 .. 0 |-> Step(f, n)]
    BY DEF Step
  <2> QED
    BY <1>2, <1>3, <2>1
<1>4. CASE j # 0
  <2>1. j - 1 \in Nat /\ j - 1 \notin Bad
    BY <1>2, <1>4
  <2>2. PICK g : g = [n \in 0 .. j - 1 |-> Step(g, n)]
    BY <2>1
  <2> DEFINE f == [n \in 0 .. j |-> IF n = j THEN Step(g, j) ELSE g[n]]
  <2>3. ASSUME NEW n \in 0 .. j
        PROVE  f[n] = Step(f, n)
    <3>1. f[n] = Step(g, n)
      BY <2>2
    <3>2. n >= 10 => f[n \div 10] = g[n \div 10]
      <4> HAVE n >= 10
      <4>1. PICK q : q = n \div 10 /\ q \in Nat /\ q < n
        BY Shift
      <4>2. q \in 0 .. j /\ q # j
        BY <4>1
      <4>3. f[q] = g[q]
        BY <4>2
      <4> QED
        BY <4>1, <4>3
    <3> QED
      BY <3>1, <3>2 DEF Step
  <2>4. f = [n \in 0 .. j |-> Step(f, n)]
    BY <2>3
  <2> QED
    BY <1>2, <2>4
<1> QED
  BY <1>3, <1>4

LEMMA DecimalIs ==
  ASSUME NEW n \in 0 .. U64 - 1
  PROVE  /\ n < 10 => Decimal[n] = <<Digit[n]>>
         /\ n >= 10 => Decimal[n] = Append(Decimal[n \div 10], Digit[n % 10])
<1>1. U64 - 1 \in Nat
  BY PolicyAssumption
<1>2. \E f : f = [m \in 0 .. U64 - 1 |-> IF m < 10 THEN <<Digit[m]>> ELSE Append(f[m \div 10], Digit[m % 10])]
  BY <1>1, DecimalThere DEF Step
<1>3. Decimal = [m \in 0 .. U64 - 1 |-> IF m < 10 THEN <<Digit[m]>> ELSE Append(Decimal[m \div 10], Digit[m % 10])]
  BY <1>2 DEF Decimal
<1>4. Decimal[n] = IF n < 10 THEN <<Digit[n]>> ELSE Append(Decimal[n \div 10], Digit[n % 10])
  BY <1>3
<1>5. n \in Int /\ (n >= 10 => ~(n < 10))
  BY <1>1
<1> QED
  BY <1>4, <1>5

LEMMA DecimalType ==
  ASSUME NEW k \in 0 .. U64 - 1
  PROVE  Decimal[k] \in Seq(Digits) /\ Len(Decimal[k]) > 0
<1> DEFINE Bad == {n \in 0 .. U64 - 1 : ~(Decimal[n] \in Seq(Digits) /\ Len(Decimal[n]) > 0)}
<1>0. U64 \in Nat
  BY PolicyAssumption
<1>1. SUFFICES ASSUME Bad # {} PROVE FALSE
  OBVIOUS
<1>2. PICK n \in Bad : \A i \in Bad : n <= i
  <2>1. Bad \subseteq Nat
    BY <1>0
  <2> HIDE DEF Bad
  <2> QED
    BY <1>1, <2>1, LeastOf
<1>3. n \in Nat /\ n \in 0 .. U64 - 1
  BY <1>0
<1>4. CASE n < 10
  <2>1. Digit[n] \in Digits
    BY <1>3, <1>4, DigitsDiffer
  <2>2. <<Digit[n]>> \in Seq(Digits) /\ Len(<<Digit[n]>>) > 0
    BY <2>1
  <2> QED
    BY <1>2, <1>3, <1>4, <2>2, DecimalIs
<1>5. CASE n >= 10
  <2>1. n \div 10 \in 0 .. U64 - 1 /\ n \div 10 < n /\ n % 10 \in 0 .. 9 /\ n \div 10 \in Nat
    BY <1>0, <1>3, <1>5, Shift
  <2>2. n \div 10 \notin Bad
    BY <1>2, <1>3, <2>1
  <2>3. Decimal[n \div 10] \in Seq(Digits) /\ Digit[n % 10] \in Digits
    BY <2>1, <2>2, DigitsDiffer
  <2>4. /\ Append(Decimal[n \div 10], Digit[n % 10]) \in Seq(Digits)
        /\ Len(Append(Decimal[n \div 10], Digit[n % 10])) > 0
    BY <2>3
  <2>5. Decimal[n] = Append(Decimal[n \div 10], Digit[n % 10])
    BY <1>3, <1>5, DecimalIs
  <2> QED
    BY <1>2, <2>4, <2>5
<1> QED
  BY <1>3, <1>4, <1>5

LEMMA LastDigit ==
  ASSUME NEW s \in Seq(Digits), NEW t \in Seq(Digits), NEW a \in Digits, NEW b \in Digits,
         Append(s, a) = Append(t, b)
  PROVE  s = t /\ a = b
<1>1. Len(Append(s, a)) = Len(s) + 1 /\ Len(Append(t, b)) = Len(t) + 1
  OBVIOUS
<1>2. Len(s) \in Nat /\ Len(t) \in Nat /\ Len(s) = Len(t)
  BY <1>1
<1>3. a = b
  <2>1. Append(s, a)[Len(s) + 1] = a /\ Append(t, b)[Len(t) + 1] = b
    OBVIOUS
  <2> QED
    BY <1>2, <2>1
<1>4. \A i \in 1 .. Len(s) : s[i] = t[i]
  <2>1. /\ \A i \in 1 .. Len(s) : Append(s, a)[i] = s[i]
        /\ \A i \in 1 .. Len(t) : Append(t, b)[i] = t[i]
    OBVIOUS
  <2> QED
    BY <1>2, <2>1
<1>5. s = t
  BY <1>2, <1>4, SeqEqual
<1> QED
  BY <1>3, <1>5

LEMMA DecimalInjective ==
  ASSUME NEW n \in 0 .. U64 - 1, NEW m \in 0 .. U64 - 1, Decimal[n] = Decimal[m]
  PROVE  n = m
<1> DEFINE N == 0 .. U64 - 1
           Bad == {i \in N : \E j \in N : Decimal[i] = Decimal[j] /\ i # j}
<1>0. N \subseteq Nat
  BY PolicyAssumption
<1>1. SUFFICES ASSUME Bad # {} PROVE FALSE
  OBVIOUS
<1>2. PICK i \in Bad : \A h \in Bad : i <= h
  BY <1>0, <1>1, LeastOf
<1>3. PICK j \in N : Decimal[i] = Decimal[j] /\ i # j
  BY <1>2
<1>4. /\ i \in N /\ i \in Nat /\ j \in Nat
      /\ \A k \in N : k < 10 => Decimal[k] = <<Digit[k]>>
      /\ \A k \in N : k >= 10 => Decimal[k] = Append(Decimal[k \div 10], Digit[k % 10])
  <2>1. i \in N
    BY <1>2
  <2> QED
    BY <1>0, <2>1, DecimalIs
<1>5. \A k \in N : k >= 10 =>
        /\ k \div 10 \in N /\ k \div 10 < k /\ k % 10 \in 0 .. 9
        /\ k = 10 * (k \div 10) + (k % 10)
        /\ Decimal[k \div 10] \in Seq(Digits) /\ Len(Decimal[k \div 10]) > 0
        /\ Digit[k % 10] \in Digits
        /\ Len(Append(Decimal[k \div 10], Digit[k % 10])) > 1
  <2> SUFFICES ASSUME NEW k \in N, k >= 10
               PROVE  /\ k \div 10 \in N /\ k \div 10 < k /\ k % 10 \in 0 .. 9
                      /\ k = 10 * (k \div 10) + (k % 10)
                      /\ Decimal[k \div 10] \in Seq(Digits) /\ Len(Decimal[k \div 10]) > 0
                      /\ Digit[k % 10] \in Digits
                      /\ Len(Append(Decimal[k \div 10], Digit[k % 10])) > 1
    OBVIOUS
  <2>1. k \in Nat
    BY <1>0
  <2>2. /\ k \div 10 \in Nat /\ k \div 10 < k /\ k % 10 \in 0 .. 9
        /\ k = 10 * (k \div 10) + (k % 10)
    BY <2>1, Shift
  <2>3. k \div 10 \in N
    <3>1. PICK q : q = k \div 10 /\ q \in Nat /\ q < k
      BY <2>2
    <3>2. U64 \in Nat
      BY PolicyAssumption
    <3>3. q \in 0 .. U64 - 1
      BY <3>1, <3>2
    <3> QED
      BY <3>1, <3>3
  <2>4. /\ Decimal[k \div 10] \in Seq(Digits) /\ Len(Decimal[k \div 10]) > 0
        /\ Digit[k % 10] \in Digits
    BY <2>2, <2>3, DecimalType, DigitsDiffer
  <2>5. Len(Append(Decimal[k \div 10], Digit[k % 10])) > 1
    BY <2>4
  <2> QED
    BY <2>2, <2>3, <2>4, <2>5
<1>6. \A x : Len(<<x>>) = 1
  OBVIOUS
<1>7. CASE i < 10 /\ j < 10
  <2>1. <<Digit[i]>> = <<Digit[j]>>
    BY <1>3, <1>4, <1>7
  <2>2. Digit[i] = Digit[j] /\ i \in 0 .. 9 /\ j \in 0 .. 9
    BY <1>4, <1>7, <2>1
  <2> QED
    BY <1>3, <2>2, DigitsDiffer
<1>8. CASE i < 10 /\ j >= 10
  <2>1. Decimal[i] = <<Digit[i]>> /\ Decimal[j] = Append(Decimal[j \div 10], Digit[j % 10])
    BY <1>4, <1>8
  <2>2. Len(Decimal[i]) = 1 /\ Len(Decimal[j]) > 1
    BY <1>5, <1>6, <1>8, <2>1
  <2> QED
    BY <1>3, <2>2
<1>9. CASE i >= 10 /\ j < 10
  <2>1. Decimal[j] = <<Digit[j]>> /\ Decimal[i] = Append(Decimal[i \div 10], Digit[i % 10])
    BY <1>4, <1>9
  <2>2. Len(Decimal[j]) = 1 /\ Len(Decimal[i]) > 1
    BY <1>5, <1>6, <1>9, <2>1
  <2> QED
    BY <1>3, <2>2
<1>10. CASE i >= 10 /\ j >= 10
  <2>1. Append(Decimal[i \div 10], Digit[i % 10]) = Append(Decimal[j \div 10], Digit[j % 10])
    BY <1>3, <1>4, <1>10
  <2>2. Decimal[i \div 10] = Decimal[j \div 10] /\ Digit[i % 10] = Digit[j % 10]
    <3>1. /\ Decimal[i \div 10] \in Seq(Digits) /\ Digit[i % 10] \in Digits
          /\ Decimal[j \div 10] \in Seq(Digits) /\ Digit[j % 10] \in Digits
      BY <1>4, <1>5, <1>10
    <3>2. PICK s \in Seq(Digits), a \in Digits : s = Decimal[i \div 10] /\ a = Digit[i % 10]
      BY <3>1
    <3>3. PICK t \in Seq(Digits), b \in Digits : t = Decimal[j \div 10] /\ b = Digit[j % 10]
      BY <3>1
    <3>4. s = t /\ a = b
      <4>1. Append(s, a) = Append(t, b)
        BY <2>1, <3>2, <3>3
      <4> QED
        BY <4>1, LastDigit
    <3> QED
      BY <3>2, <3>3, <3>4
  <2>3. i % 10 = j % 10
    BY <1>4, <1>5, <1>10, <2>2, DigitsDiffer
  <2>4. i \div 10 \notin Bad
    BY <1>0, <1>2, <1>4, <1>5, <1>10
  <2>5. i \div 10 = j \div 10
    BY <1>4, <1>5, <1>10, <2>2, <2>4
  <2> QED
    BY <1>3, <1>4, <1>5, <1>10, <2>3, <2>5
<1> QED
  BY <1>4, <1>7, <1>8, <1>9, <1>10

-----------------------------------------------------------------------------
(* Fields, taken apart from the end. *)

IsText(s) == \E S : s \in Seq(S)

LEMMA TextOf ==
  /\ \A a : IsText(<<a>>)
  /\ \A a, b : IsText(<<a, b>>)
  /\ IsText(<<>>)
<1>1. ASSUME NEW a PROVE IsText(<<a>>)
  <2>1. <<a>> \in Seq({a})
    OBVIOUS
  <2> QED
    BY <2>1 DEF IsText
<1>2. ASSUME NEW a, NEW b PROVE IsText(<<a, b>>)
  <2>1. <<a, b>> \in Seq({a, b})
    OBVIOUS
  <2> QED
    BY <2>1 DEF IsText
<1>3. IsText(<<>>)
  <2>1. <<>> \in Seq({})
    OBVIOUS
  <2> QED
    BY <2>1 DEF IsText
<1> QED
  BY <1>1, <1>2, <1>3

LEMMA TextLen == ASSUME NEW s, IsText(s) PROVE Len(s) \in Nat
BY DEF IsText

LEMMA TextCat ==
  ASSUME NEW s, NEW t, IsText(s), IsText(t)
  PROVE  /\ IsText(s \o t)
         /\ Len(s \o t) = Len(s) + Len(t)
         /\ \A i \in 1 .. Len(s) : (s \o t)[i] = s[i]
         /\ \A i \in 1 .. Len(t) : (s \o t)[Len(s) + i] = t[i]
<1>1. PICK S : s \in Seq(S)
  BY DEF IsText
<1>2. PICK T : t \in Seq(T)
  BY DEF IsText
<1>3. PICK U : U = S \cup T
  OBVIOUS
<1>4. s \in Seq(U) /\ t \in Seq(U)
  BY <1>1, <1>2, <1>3, SeqMonotonic
<1>5. s \o t \in Seq(U)
  BY <1>4
<1> QED
  BY <1>4, <1>5 DEF IsText

LEMMA TextEqual ==
  ASSUME NEW s, NEW t, IsText(s), IsText(t), Len(s) = Len(t),
         \A i \in 1 .. Len(s) : s[i] = t[i]
  PROVE  s = t
<1>1. PICK S : s \in Seq(S)
  BY DEF IsText
<1>2. PICK T : t \in Seq(T)
  BY DEF IsText
<1>3. PICK U : U = S \cup T
  OBVIOUS
<1>4. s \in Seq(U) /\ t \in Seq(U)
  BY <1>1, <1>2, <1>3, SeqMonotonic
<1> QED
  BY <1>4, SeqEqual

Ends(whole, front, name, value) ==
  /\ Len(whole) = Len(front) + Len(value) + 3
  /\ \A i \in 1 .. Len(front) : whole[i] = front[i]
  /\ whole[Len(front) + 1] = name
  /\ whole[Len(front) + 2] = "="
  /\ \A i \in 1 .. Len(value) : whole[Len(front) + 2 + i] = value[i]

LEMMA FieldShape ==
  ASSUME NEW front, NEW name, NEW value, IsText(front), IsText(value)
  PROVE  /\ IsText(Field(name, value))
         /\ IsText(front \o Field(name, value))
         /\ Ends(front \o Field(name, value), front, name, value)
<1> DEFINE head == <<name, "=">>
           end == <<"newline">>
           start == head \o value
           field == start \o end
           whole == front \o field
<1>1. IsText(head) /\ IsText(end) /\ Len(head) = 2 /\ Len(end) = 1 /\ head[1] = name /\ head[2] = "="
  BY TextOf
<1> HIDE DEF head, end
<1>2. /\ IsText(start) /\ Len(start) = 2 + Len(value) /\ start[1] = name /\ start[2] = "="
      /\ \A i \in 1 .. Len(value) : start[2 + i] = value[i]
  <2>1. IsText(head) /\ IsText(value)
    BY <1>1
  <2>2. /\ IsText(head \o value) /\ Len(head \o value) = Len(head) + Len(value)
        /\ \A i \in 1 .. Len(head) : (head \o value)[i] = head[i]
        /\ \A i \in 1 .. Len(value) : (head \o value)[Len(head) + i] = value[i]
    BY <2>1, TextCat
  <2> HIDE DEF start
  <2>3. /\ IsText(start) /\ Len(start) = Len(head) + Len(value)
        /\ \A i \in 1 .. Len(head) : start[i] = head[i]
        /\ \A i \in 1 .. Len(value) : start[Len(head) + i] = value[i]
    BY <2>2 DEF start
  <2> QED
    BY <1>1, <2>3
<1> HIDE DEF start
<1>3. Len(value) \in Nat /\ Len(front) \in Nat
  BY TextLen
<1>4. /\ IsText(field) /\ Len(field) = Len(value) + 3
      /\ \A i \in 1 .. Len(value) + 2 : field[i] = start[i]
  <2>1. /\ IsText(start \o end) /\ Len(start \o end) = Len(start) + Len(end)
        /\ \A i \in 1 .. Len(start) : (start \o end)[i] = start[i]
    <3>1. IsText(start) /\ IsText(end)
      BY <1>1, <1>2
    <3> QED
      BY <3>1, TextCat, Zenon
  <2> HIDE DEF field
  <2>2. /\ IsText(field) /\ Len(field) = Len(start) + Len(end)
        /\ \A i \in 1 .. Len(start) : field[i] = start[i]
    BY <2>1 DEF field
  <2> QED
    BY <1>1, <1>2, <1>3, <2>2
<1>5. /\ field[1] = name /\ field[2] = "="
      /\ \A i \in 1 .. Len(value) : field[2 + i] = value[i]
  BY <1>2, <1>3, <1>4
<1> HIDE DEF field
<1>6. /\ IsText(whole) /\ Len(whole) = Len(front) + Len(value) + 3
      /\ \A i \in 1 .. Len(front) : whole[i] = front[i]
      /\ \A i \in 1 .. Len(value) + 3 : whole[Len(front) + i] = field[i]
  BY <1>3, <1>4, TextCat
<1>7. /\ whole[Len(front) + 1] = name /\ whole[Len(front) + 2] = "="
      /\ \A i \in 1 .. Len(value) : whole[Len(front) + (2 + i)] = value[i]
  BY <1>3, <1>5, <1>6
<1>8. \A i \in 1 .. Len(value) : Len(front) + (2 + i) = Len(front) + 2 + i
  BY <1>3
<1>9. field = Field(name, value)
  BY DEF field, start, head, end, Field
<1>10. Ends(whole, front, name, value)
  <2> HIDE DEF whole
  <2> QED
    BY <1>6, <1>7, <1>8 DEF Ends
<1> QED
  BY <1>4, <1>6, <1>9, <1>10

LEMMA SameLength ==
  ASSUME NEW a, NEW x, NEW y, NEW n, NEW m, NEW d, NEW e,
         Len(x) \in Nat, Len(y) \in Nat, Len(d) \in Nat, Len(e) \in Nat,
         Ends(a, x, n, d), Ends(a, y, m, e)
  PROVE  Len(x) + Len(d) = Len(y) + Len(e)
<1>1. \A i, j, k, l \in Nat : i + j + 3 = k + l + 3 => i + j = k + l
  OBVIOUS
<1>2. Len(x) + Len(d) + 3 = Len(y) + Len(e) + 3
  BY DEF Ends
<1> QED
  BY <1>1, <1>2

LEMMA LastValue ==
  ASSUME NEW a, NEW x, NEW y, NEW n, NEW m, NEW d, NEW e,
         Len(x) \in Nat, Len(y) \in Nat, Len(d) \in Nat, Len(e) \in Nat,
         Ends(a, x, n, d), Ends(a, y, m, e),
         \A i \in 1 .. Len(d) : d[i] # "="
  PROVE  ~(Len(e) < Len(d))
<1> SUFFICES ASSUME Len(e) < Len(d) PROVE FALSE
  OBVIOUS
<1>1. Len(d) - Len(e) \in 1 .. Len(d)
  OBVIOUS
<1>2. Len(x) + Len(d) = Len(y) + Len(e)
  BY SameLength
<1>3. Len(y) + 2 = Len(x) + 2 + (Len(d) - Len(e))
  BY <1>2
<1>4. a[Len(y) + 2] = d[Len(d) - Len(e)]
  BY <1>1, <1>3 DEF Ends
<1>5. a[Len(y) + 2] = "="
  BY DEF Ends
<1> QED
  BY <1>1, <1>4, <1>5

(* Left opaque to the provers, concatenation is but a function. *)
Cat(r, s) == r \o s

LEMMA LastField ==
  ASSUME NEW x, NEW y, IsText(x), IsText(y),
         NEW n, NEW m, NEW d, NEW e, IsText(d), IsText(e),
         Len(d) = Len(e) \/ {d, e} \subseteq Seq(Digits),
         Cat(x, Field(n, d)) = Cat(y, Field(m, e))
  PROVE  x = y /\ n = m /\ d = e
<1>1. Len(x) \in Nat /\ Len(y) \in Nat /\ Len(d) \in Nat /\ Len(e) \in Nat
  BY TextLen
<1>2. PICK a : Ends(a, x, n, d) /\ Ends(a, y, m, e)
  <2>1. Ends(Cat(x, Field(n, d)), x, n, d) /\ Ends(Cat(y, Field(m, e)), y, m, e)
    BY FieldShape DEF Cat
  <2> QED
    BY <2>1
<1>3. Len(x) + Len(d) = Len(y) + Len(e)
  BY <1>1, <1>2, SameLength
<1>4. Len(d) = Len(e)
  <2>1. SUFFICES ASSUME {d, e} \subseteq Seq(Digits) PROVE Len(d) = Len(e)
    OBVIOUS
  <2>2. /\ \A i \in 1 .. Len(d) : d[i] # "="
        /\ \A i \in 1 .. Len(e) : e[i] # "="
    <3>1. \A s \in Seq(Digits) : \A i \in 1 .. Len(s) : s[i] \in Digits
      OBVIOUS
    <3> QED
      BY <2>1, <3>1, DigitsDiffer
  <2>3. ~(Len(d) < Len(e))
    BY <1>1, <1>2, <2>2, LastValue
  <2>4. ~(Len(e) < Len(d))
    BY <1>1, <1>2, <2>2, LastValue
  <2> QED
    BY <1>1, <2>3, <2>4
<1>5. Len(x) = Len(y)
  BY <1>1, <1>3, <1>4
<1>6. \A i \in 1 .. Len(x) : x[i] = y[i]
  BY <1>2, <1>5 DEF Ends
<1>7. \A i \in 1 .. Len(d) : d[i] = e[i]
  BY <1>2, <1>4, <1>5 DEF Ends
<1>8. n = m
  BY <1>2, <1>5 DEF Ends
<1> QED
  BY <1>4, <1>5, <1>6, <1>7, <1>8, TextEqual

LEMMA CatAssoc ==
  ASSUME NEW r, NEW s, NEW t, IsText(r), IsText(s), IsText(t)
  PROVE  Cat(Cat(r, s), t) = Cat(r, Cat(s, t))
<1>1. PICK S : s \in Seq(S)
  BY DEF IsText
<1>2. PICK T : t \in Seq(T)
  BY DEF IsText
<1>3. PICK R : r \in Seq(R)
  BY DEF IsText
<1>4. PICK U : U = S \cup T \cup R
  OBVIOUS
<1>5. s \in Seq(U) /\ t \in Seq(U) /\ r \in Seq(U)
  BY <1>1, <1>2, <1>3, <1>4, SeqMonotonic
<1>6. (r \o s) \o t = r \o (s \o t)
  BY <1>5, ConcatAssociative
<1> QED
  BY <1>6, Zenon DEF Cat

LEMMA CatText ==
  /\ \A r, s : IsText(r) /\ IsText(s) => IsText(Cat(r, s))
  /\ \A r, s, t : IsText(r) /\ IsText(s) /\ IsText(t) => Cat(Cat(r, s), t) = Cat(r, Cat(s, t))
  /\ \A r : IsText(r) => Cat(r, <<>>) = r
<1>1. ASSUME NEW r, NEW s, IsText(r), IsText(s) PROVE IsText(Cat(r, s))
  BY <1>1, TextCat DEF Cat
<1>2. ASSUME NEW r, NEW s, NEW t, IsText(r), IsText(s), IsText(t)
      PROVE  Cat(Cat(r, s), t) = Cat(r, Cat(s, t))
  BY <1>2, CatAssoc
<1>3. ASSUME NEW r, IsText(r) PROVE Cat(r, <<>>) = r
  BY <1>3, ConcatEmptySeq DEF Cat, IsText
<1> QED
  BY <1>1, <1>2, <1>3

(* whole is front and the line NAME=value after it.                        *)
Closes(whole, front, name, value) ==
  /\ IsText(whole) /\ IsText(front) /\ IsText(value)
  /\ whole = Cat(front, Field(name, value))

LEMMA ClosesSame ==
  ASSUME NEW w, NEW x, NEW y, NEW n, NEW m, NEW d, NEW e,
         Closes(w, x, n, d), Closes(w, y, m, e),
         Len(d) = Len(e) \/ {d, e} \subseteq Seq(Digits)
  PROVE  x = y /\ n = m /\ d = e
<1>1. IsText(x) /\ IsText(y) /\ IsText(d) /\ IsText(e)
  BY DEF Closes
<1>2. Cat(x, Field(n, d)) = Cat(y, Field(m, e))
  BY DEF Closes
<1> QED
  BY <1>1, <1>2, LastField

Number64(n) == n \in 0 .. U64 - 1

LEMMA DecimalText ==
  ASSUME NEW n, Number64(n)
  PROVE  IsText(Decimal[n]) /\ Decimal[n] \in Seq(Digits)
BY DecimalType DEF Number64, IsText

ClosesNumber(whole, front, name, n) ==
  Number64(n) /\ Closes(whole, front, name, Decimal[n])
ClosesWord(whole, front, name, word) == Closes(whole, front, name, <<word>>)

LEMMA SameNumber ==
  ASSUME NEW w, NEW x, NEW y, NEW name, NEW other, NEW n, NEW m,
         ClosesNumber(w, x, name, n), ClosesNumber(w, y, other, m)
  PROVE  x = y /\ name = other /\ n = m
<1>1. PICK d, e : d = Decimal[n] /\ e = Decimal[m]
  OBVIOUS
<1>2. {d, e} \subseteq Seq(Digits)
  BY <1>1, DecimalText DEF ClosesNumber
<1>3. Closes(w, x, name, d) /\ Closes(w, y, other, e)
  BY <1>1 DEF ClosesNumber
<1>4. x = y /\ name = other /\ d = e
  BY <1>2, <1>3, ClosesSame
<1> QED
  BY <1>1, <1>4, DecimalInjective DEF ClosesNumber, Number64

LEMMA SameWord ==
  ASSUME NEW w, NEW x, NEW y, NEW name, NEW other, NEW v, NEW u,
         ClosesWord(w, x, name, v), ClosesWord(w, y, other, u)
  PROVE  x = y /\ name = other /\ v = u
<1>1. PICK d, e : d = <<v>> /\ e = <<u>>
  OBVIOUS
<1>2. Len(d) = Len(e)
  BY <1>1
<1>3. Closes(w, x, name, d) /\ Closes(w, y, other, e)
  BY <1>1 DEF ClosesWord
<1>4. x = y /\ name = other /\ d = e
  BY <1>2, <1>3, ClosesSame
<1> QED
  BY <1>1, <1>4

LEMMA MoreText ==
  /\ \A name, v : IsText(Field(name, <<v>>))
  /\ \A name, n : Number64(n) => IsText(Field(name, Decimal[n]))
  /\ \A front, name, v : IsText(front) =>
       ClosesWord(Cat(front, Field(name, <<v>>)), front, name, v)
  /\ \A front, name, n : IsText(front) /\ Number64(n) =>
       ClosesNumber(Cat(front, Field(name, Decimal[n])), front, name, n)
<1>1. \A name, v : IsText(Field(name, <<v>>))
  BY TextOf, FieldShape
<1>2. \A name, n : Number64(n) => IsText(Field(name, Decimal[n]))
  BY TextOf, DecimalText, FieldShape
<1>3. \A front, name, v : IsText(front) =>
        ClosesWord(Cat(front, Field(name, <<v>>)), front, name, v)
  BY <1>1, CatText, TextOf DEF ClosesWord, Closes
<1>4. \A front, name, n : IsText(front) /\ Number64(n) =>
        ClosesNumber(Cat(front, Field(name, Decimal[n])), front, name, n)
  BY <1>2, CatText, DecimalText DEF ClosesNumber, Closes
<1> QED
  BY <1>1, <1>2, <1>3, <1>4

InputNumbers(input) == Number64(input.vout) /\ Number64(input.sats)

(* whole is front and the four lines of an input, named as the i-th.       *)
ClosesInput(whole, front, input, i) ==
  \E one, two, three :
    /\ ClosesWord(one, front, InputNames[i].txid, input.txid)
    /\ ClosesNumber(two, one, InputNames[i].vout, input.vout)
    /\ ClosesNumber(three, two, InputNames[i].sats, input.sats)
    /\ ClosesWord(whole, three, InputNames[i].script, input.script)

LEMMA InputCloses ==
  ASSUME NEW x, IsText(x), NEW s, NEW i, InputNumbers(s.inputs[i])
  PROVE  /\ IsText(InputFields(s, i))
         /\ ClosesInput(Cat(x, InputFields(s, i)), x, s.inputs[i], i)
<1> DEFINE input == s.inputs[i]
           a == Field(InputNames[i].txid, <<input.txid>>)
           b == Field(InputNames[i].vout, Decimal[input.vout])
           c == Field(InputNames[i].sats, Decimal[input.sats])
           d == Field(InputNames[i].script, <<input.script>>)
<1>1. IsText(a) /\ IsText(b) /\ IsText(c) /\ IsText(d)
  BY MoreText DEF InputNumbers
<1>2. InputFields(s, i) = Cat(Cat(Cat(a, b), c), d)
  BY DEF InputFields, Cat
<1>3. /\ ClosesWord(Cat(x, a), x, InputNames[i].txid, input.txid)
      /\ ClosesNumber(Cat(Cat(x, a), b), Cat(x, a), InputNames[i].vout, input.vout)
      /\ ClosesNumber(Cat(Cat(Cat(x, a), b), c), Cat(Cat(x, a), b), InputNames[i].sats, input.sats)
      /\ ClosesWord(Cat(Cat(Cat(Cat(x, a), b), c), d), Cat(Cat(Cat(x, a), b), c),
                    InputNames[i].script, input.script)
  <2>1. IsText(Cat(x, a)) /\ IsText(Cat(Cat(x, a), b)) /\ IsText(Cat(Cat(Cat(x, a), b), c))
    <3> HIDE DEF a, b, c, d
    <3> QED
      BY <1>1, CatText
  <2> QED
    BY <2>1, MoreText DEF InputNumbers
<1> HIDE DEF a, b, c, d, input
<1>4. IsText(Cat(a, b)) /\ IsText(Cat(Cat(a, b), c)) /\ IsText(Cat(Cat(Cat(a, b), c), d))
  BY <1>1, CatText
<1>5. Cat(x, Cat(Cat(Cat(a, b), c), d)) = Cat(Cat(Cat(Cat(x, a), b), c), d)
  BY <1>1, <1>4, CatText
<1>6. ClosesInput(Cat(Cat(Cat(Cat(x, a), b), c), d), x, input, i)
  BY <1>3 DEF ClosesInput
<1> QED
  BY <1>2, <1>4, <1>5, <1>6 DEF input

LEMMA SameInput ==
  ASSUME NEW w, NEW x, NEW y, NEW i, NEW j, NEW p, NEW q,
         ClosesInput(w, x, p, i), ClosesInput(w, y, q, j)
  PROVE  /\ x = y
         /\ InputNames[i].script = InputNames[j].script
         /\ p.txid = q.txid /\ p.vout = q.vout /\ p.sats = q.sats /\ p.script = q.script
<1>1. PICK a, b, c :
        /\ ClosesWord(a, x, InputNames[i].txid, p.txid)
        /\ ClosesNumber(b, a, InputNames[i].vout, p.vout)
        /\ ClosesNumber(c, b, InputNames[i].sats, p.sats)
        /\ ClosesWord(w, c, InputNames[i].script, p.script)
  BY DEF ClosesInput
<1>2. PICK d, e, f :
        /\ ClosesWord(d, y, InputNames[j].txid, q.txid)
        /\ ClosesNumber(e, d, InputNames[j].vout, q.vout)
        /\ ClosesNumber(f, e, InputNames[j].sats, q.sats)
        /\ ClosesWord(w, f, InputNames[j].script, q.script)
  BY DEF ClosesInput
<1>3. c = f /\ InputNames[i].script = InputNames[j].script /\ p.script = q.script
  BY <1>1, <1>2, SameWord
<1>4. b = e /\ p.sats = q.sats
  BY <1>1, <1>2, <1>3, SameNumber
<1>5. a = d /\ p.vout = q.vout
  BY <1>1, <1>2, <1>4, SameNumber
<1>6. x = y /\ p.txid = q.txid
  BY <1>1, <1>2, <1>5, SameWord
<1> QED
  BY <1>3, <1>4, <1>5, <1>6

SummaryNumbers(s) ==
  /\ Len(s.inputs) \in {1, 2}
  /\ \A i \in 1 .. Len(s.inputs) : InputNumbers(s.inputs[i])
  /\ Number64(s.totalSats) /\ Number64(s.paySats) /\ Number64(s.changeSats)
  /\ Number64(s.feeSats)

(* What the check id is taken from, line after line.                       *)
ClosesSummary(whole, s) ==
  \E head, net, count, one, both, total, payTo, pay, changeTo, change :
    /\ ClosesWord(net, head, "NETWORK", s.network)
    /\ ClosesNumber(count, net, "INPUT_COUNT", Len(s.inputs))
    /\ ClosesInput(one, count, s.inputs[1], 1)
    /\ IF Len(s.inputs) = 2 THEN ClosesInput(both, one, s.inputs[2], 2) ELSE both = one
    /\ ClosesNumber(total, both, "TOTAL_INPUT_SATS", s.totalSats)
    /\ ClosesWord(payTo, total, "PAY_SCRIPT", s.payScript)
    /\ ClosesNumber(pay, payTo, "PAY_SATS", s.paySats)
    /\ ClosesWord(changeTo, pay, "CHANGE_SCRIPT", s.changeScript)
    /\ ClosesNumber(change, changeTo, "CHANGE_SATS", s.changeSats)
    /\ ClosesNumber(whole, change, "FEE_SATS", s.feeSats)

LEMMA CheckIdCloses ==
  ASSUME NEW s, SummaryNumbers(s)
  PROVE  ClosesSummary(CheckId(s), s)
<1> DEFINE n == Len(s.inputs)
           head == <<"WALLET_CHECK_ID_VERSION_LABEL", "newline">>
           net == Cat(head, Field("NETWORK", <<s.network>>))
           count == Cat(net, Field("INPUT_COUNT", Decimal[n]))
           one == Cat(count, InputFields(s, 1))
           both == Cat(one, IF n = 2 THEN InputFields(s, 2) ELSE <<>>)
           total == Cat(both, Field("TOTAL_INPUT_SATS", Decimal[s.totalSats]))
           payTo == Cat(total, Field("PAY_SCRIPT", <<s.payScript>>))
           pay == Cat(payTo, Field("PAY_SATS", Decimal[s.paySats]))
           changeTo == Cat(pay, Field("CHANGE_SCRIPT", <<s.changeScript>>))
           change == Cat(changeTo, Field("CHANGE_SATS", Decimal[s.changeSats]))
           whole == Cat(change, Field("FEE_SATS", Decimal[s.feeSats]))
<1>1. CheckId(s) = whole
  BY DEF CheckId, Cat
<1>2. /\ Number64(n) /\ InputNumbers(s.inputs[1])
      /\ n = 2 => InputNumbers(s.inputs[2])
  <2>1. n \in {1, 2} /\ \A i \in 1 .. n : InputNumbers(s.inputs[i])
    BY DEF SummaryNumbers
  <2> HIDE DEF n
  <2>2. 1 \in 1 .. n /\ (n = 2 => 2 \in 1 .. n)
    BY <2>1
  <2>3. 2 < U64 /\ U64 \in Nat
    BY PolicyAssumption DEF MaxInputs
  <2>4. n \in 0 .. U64 - 1
    BY <2>1, <2>3
  <2> QED
    BY <2>1, <2>2, <2>4 DEF Number64
<1>3. IsText(head)
  BY TextOf
<1>4. IsText(net) /\ ClosesWord(net, head, "NETWORK", s.network)
  <2> HIDE DEF head
  <2>1. ClosesWord(net, head, "NETWORK", s.network)
    BY <1>3, MoreText
  <2> QED
    BY <2>1 DEF ClosesWord, Closes
<1> HIDE DEF net
<1>5. IsText(count) /\ ClosesNumber(count, net, "INPUT_COUNT", n)
  <2>1. ClosesNumber(count, net, "INPUT_COUNT", n)
    BY <1>2, <1>4, MoreText
  <2> QED
    BY <2>1 DEF ClosesNumber, Closes
<1> HIDE DEF count
<1>6. IsText(one) /\ ClosesInput(one, count, s.inputs[1], 1)
  <2>1. IsText(InputFields(s, 1)) /\ ClosesInput(one, count, s.inputs[1], 1)
    BY <1>2, <1>5, InputCloses
  <2> QED
    BY <1>5, <2>1, CatText
<1> HIDE DEF one
<1>7. /\ IsText(both)
      /\ IF n = 2 THEN ClosesInput(both, one, s.inputs[2], 2) ELSE both = one
  <2>1. CASE n = 2
    <3>1. IsText(InputFields(s, 2))
          /\ ClosesInput(Cat(one, InputFields(s, 2)), one, s.inputs[2], 2)
      BY <1>2, <1>6, <2>1, InputCloses
    <3> QED
      BY <1>6, <2>1, <3>1, CatText
  <2>2. CASE n # 2
    BY <1>6, <2>2, CatText
  <2> QED
    BY <2>1, <2>2
<1> HIDE DEF both
<1>8. Number64(s.totalSats) /\ Number64(s.paySats) /\ Number64(s.changeSats) /\ Number64(s.feeSats)
  BY DEF SummaryNumbers
<1>9. IsText(total) /\ ClosesNumber(total, both, "TOTAL_INPUT_SATS", s.totalSats)
  <2>1. ClosesNumber(total, both, "TOTAL_INPUT_SATS", s.totalSats)
    BY <1>7, <1>8, MoreText
  <2> QED
    BY <2>1 DEF ClosesNumber, Closes
<1> HIDE DEF total
<1>10. IsText(payTo) /\ ClosesWord(payTo, total, "PAY_SCRIPT", s.payScript)
  <2>1. ClosesWord(payTo, total, "PAY_SCRIPT", s.payScript)
    BY <1>9, MoreText
  <2> QED
    BY <2>1 DEF ClosesWord, Closes
<1> HIDE DEF payTo
<1>11. IsText(pay) /\ ClosesNumber(pay, payTo, "PAY_SATS", s.paySats)
  <2>1. ClosesNumber(pay, payTo, "PAY_SATS", s.paySats)
    BY <1>8, <1>10, MoreText
  <2> QED
    BY <2>1 DEF ClosesNumber, Closes
<1> HIDE DEF pay
<1>12. IsText(changeTo) /\ ClosesWord(changeTo, pay, "CHANGE_SCRIPT", s.changeScript)
  <2>1. ClosesWord(changeTo, pay, "CHANGE_SCRIPT", s.changeScript)
    BY <1>11, MoreText
  <2> QED
    BY <2>1 DEF ClosesWord, Closes
<1> HIDE DEF changeTo
<1>13. IsText(change) /\ ClosesNumber(change, changeTo, "CHANGE_SATS", s.changeSats)
  <2>1. ClosesNumber(change, changeTo, "CHANGE_SATS", s.changeSats)
    BY <1>8, <1>12, MoreText
  <2> QED
    BY <2>1 DEF ClosesNumber, Closes
<1> HIDE DEF change
<1>14. ClosesNumber(whole, change, "FEE_SATS", s.feeSats)
  BY <1>8, <1>13, MoreText
<1> HIDE DEF whole, head
<1> QED
  BY <1>1, <1>4, <1>5, <1>6, <1>7, <1>9, <1>10, <1>11, <1>12, <1>13, <1>14 DEF ClosesSummary

LEMMA SameId ==
  ASSUME NEW s, NEW u, SummaryNumbers(s), SummaryNumbers(u), CheckId(s) = CheckId(u)
  PROVE  /\ s.network = u.network
         /\ Len(s.inputs) = Len(u.inputs)
         /\ \A i \in 1 .. Len(s.inputs) :
              /\ s.inputs[i].txid = u.inputs[i].txid /\ s.inputs[i].vout = u.inputs[i].vout
              /\ s.inputs[i].sats = u.inputs[i].sats /\ s.inputs[i].script = u.inputs[i].script
         /\ s.totalSats = u.totalSats
         /\ s.payScript = u.payScript /\ s.paySats = u.paySats
         /\ s.changeScript = u.changeScript /\ s.changeSats = u.changeSats
         /\ s.feeSats = u.feeSats
<1>0. PICK w : w = CheckId(s) /\ ClosesSummary(w, s) /\ ClosesSummary(w, u)
  BY CheckIdCloses
<1>1. PICK head, net, count, one, both, total, payTo, pay, changeTo, change :
        /\ ClosesWord(net, head, "NETWORK", s.network)
        /\ ClosesNumber(count, net, "INPUT_COUNT", Len(s.inputs))
        /\ ClosesInput(one, count, s.inputs[1], 1)
        /\ IF Len(s.inputs) = 2 THEN ClosesInput(both, one, s.inputs[2], 2) ELSE both = one
        /\ ClosesNumber(total, both, "TOTAL_INPUT_SATS", s.totalSats)
        /\ ClosesWord(payTo, total, "PAY_SCRIPT", s.payScript)
        /\ ClosesNumber(pay, payTo, "PAY_SATS", s.paySats)
        /\ ClosesWord(changeTo, pay, "CHANGE_SCRIPT", s.changeScript)
        /\ ClosesNumber(change, changeTo, "CHANGE_SATS", s.changeSats)
        /\ ClosesNumber(w, change, "FEE_SATS", s.feeSats)
  BY <1>0 DEF ClosesSummary
<1>2. PICK head2, net2, count2, one2, both2, total2, payTo2, pay2, changeTo2, change2 :
        /\ ClosesWord(net2, head2, "NETWORK", u.network)
        /\ ClosesNumber(count2, net2, "INPUT_COUNT", Len(u.inputs))
        /\ ClosesInput(one2, count2, u.inputs[1], 1)
        /\ IF Len(u.inputs) = 2 THEN ClosesInput(both2, one2, u.inputs[2], 2) ELSE both2 = one2
        /\ ClosesNumber(total2, both2, "TOTAL_INPUT_SATS", u.totalSats)
        /\ ClosesWord(payTo2, total2, "PAY_SCRIPT", u.payScript)
        /\ ClosesNumber(pay2, payTo2, "PAY_SATS", u.paySats)
        /\ ClosesWord(changeTo2, pay2, "CHANGE_SCRIPT", u.changeScript)
        /\ ClosesNumber(change2, changeTo2, "CHANGE_SATS", u.changeSats)
        /\ ClosesNumber(w, change2, "FEE_SATS", u.feeSats)
  BY <1>0 DEF ClosesSummary
<1>3. change = change2 /\ s.feeSats = u.feeSats
  BY <1>1, <1>2, SameNumber
<1>4. changeTo = changeTo2 /\ s.changeSats = u.changeSats
  BY <1>1, <1>2, <1>3, SameNumber
<1>5. pay = pay2 /\ s.changeScript = u.changeScript
  BY <1>1, <1>2, <1>4, SameWord
<1>6. payTo = payTo2 /\ s.paySats = u.paySats
  BY <1>1, <1>2, <1>5, SameNumber
<1>7. total = total2 /\ s.payScript = u.payScript
  BY <1>1, <1>2, <1>6, SameWord
<1>8. both = both2 /\ s.totalSats = u.totalSats
  BY <1>1, <1>2, <1>7, SameNumber
<1>9. Len(s.inputs) \in {1, 2} /\ Len(u.inputs) \in {1, 2}
  BY DEF SummaryNumbers
<1>10. InputNames[1].script # InputNames[2].script
  BY DEF InputNames
<1>11. CASE Len(s.inputs) = 2 /\ Len(u.inputs) = 2
  <2>1. /\ ClosesInput(both, one, s.inputs[2], 2)
        /\ ClosesInput(both, one2, u.inputs[2], 2)
    BY <1>1, <1>2, <1>8, <1>11
  <2>2. /\ one = one2
        /\ s.inputs[2].txid = u.inputs[2].txid /\ s.inputs[2].vout = u.inputs[2].vout
        /\ s.inputs[2].sats = u.inputs[2].sats /\ s.inputs[2].script = u.inputs[2].script
    BY <2>1, SameInput
  <2>3. /\ count = count2
        /\ s.inputs[1].txid = u.inputs[1].txid /\ s.inputs[1].vout = u.inputs[1].vout
        /\ s.inputs[1].sats = u.inputs[1].sats /\ s.inputs[1].script = u.inputs[1].script
    BY <1>1, <1>2, <2>2, SameInput
  <2>4. net = net2
    BY <1>1, <1>2, <2>3, SameNumber
  <2>5. s.network = u.network
    BY <1>1, <1>2, <2>4, SameWord
  <2>6. 1 .. Len(s.inputs) = {1, 2}
    BY <1>11
  <2> QED
    BY <1>3, <1>4, <1>5, <1>6, <1>7, <1>8, <1>11, <2>2, <2>3, <2>5, <2>6
<1>12. CASE Len(s.inputs) = 1 /\ Len(u.inputs) = 1
  <2>1. one = one2
    BY <1>1, <1>2, <1>8, <1>12
  <2>3. /\ count = count2
        /\ s.inputs[1].txid = u.inputs[1].txid /\ s.inputs[1].vout = u.inputs[1].vout
        /\ s.inputs[1].sats = u.inputs[1].sats /\ s.inputs[1].script = u.inputs[1].script
    BY <1>1, <1>2, <2>1, SameInput
  <2>4. net = net2
    BY <1>1, <1>2, <2>3, SameNumber
  <2>5. s.network = u.network
    BY <1>1, <1>2, <2>4, SameWord
  <2>6. 1 .. Len(s.inputs) = {1}
    BY <1>12
  <2> QED
    BY <1>3, <1>4, <1>5, <1>6, <1>7, <1>8, <1>12, <2>3, <2>5, <2>6
<1>13. CASE Len(s.inputs) = 1 /\ Len(u.inputs) = 2
  <2>1. ClosesInput(both, count, s.inputs[1], 1) /\ ClosesInput(both, one2, u.inputs[2], 2)
    BY <1>1, <1>2, <1>8, <1>13
  <2> QED
    BY <1>10, <2>1, SameInput
<1>14. CASE Len(s.inputs) = 2 /\ Len(u.inputs) = 1
  <2>1. ClosesInput(both, one, s.inputs[2], 2) /\ ClosesInput(both, count2, u.inputs[1], 1)
    BY <1>1, <1>2, <1>8, <1>14
  <2> QED
    BY <1>10, <2>1, SameInput
<1> QED
  BY <1>9, <1>11, <1>12, <1>13, <1>14

-----------------------------------------------------------------------------
(* What the check id tells apart. *)

LEMMA SummaryHasNumbers ==
  ASSUME NEW t \in Seq(HostLines), CheckSummaryText(t)
  PROVE  SummaryNumbers(Summary(t)) /\ Len(Summary(t).inputs) = InputCount(t)
<1>1. InputCount(t) \in {1, 2}
  BY InputsFound
<1>2. Len(Summary(t).inputs) = InputCount(t) /\ DOMAIN Summary(t).inputs = 1 .. InputCount(t)
  BY <1>1 DEF Summary, InputsOf
<1>3. 0 .. U32 - 1 \subseteq 0 .. U64 - 1
  BY PolicyAssumption
<1>4. \A i \in 1 .. InputCount(t) : InputNumbers(Summary(t).inputs[i])
  BY <1>2, <1>3, SummaryTypeOK DEF InputNumbers, Number64
<1>5. {Summary(t).totalSats, Summary(t).paySats, Summary(t).changeSats, Summary(t).feeSats}
        \subseteq 0 .. U64 - 1
  BY SummaryTypeOK
<1> QED
  BY <1>1, <1>2, <1>4, <1>5 DEF SummaryNumbers, Number64

(* The parts of a summary make the summary. *)
LEMMA SameParts ==
  ASSUME NEW s \in Seq(HostLines), NEW t \in Seq(HostLines),
         CheckSummaryText(s), CheckSummaryText(t),
         CheckId(Summary(s)) = CheckId(Summary(t))
  PROVE  Summary(s) = Summary(t)
<1>1. /\ SummaryNumbers(Summary(s)) /\ Len(Summary(s).inputs) = InputCount(s)
      /\ SummaryNumbers(Summary(t)) /\ Len(Summary(t).inputs) = InputCount(t)
  BY SummaryHasNumbers
<1>2. PICK p, q : p = Summary(s) /\ q = Summary(t)
  OBVIOUS
<1>3. /\ p.network = q.network
      /\ Len(p.inputs) = Len(q.inputs)
      /\ \A i \in 1 .. Len(p.inputs) :
           /\ p.inputs[i].txid = q.inputs[i].txid /\ p.inputs[i].vout = q.inputs[i].vout
           /\ p.inputs[i].sats = q.inputs[i].sats /\ p.inputs[i].script = q.inputs[i].script
      /\ p.totalSats = q.totalSats
      /\ p.payScript = q.payScript /\ p.paySats = q.paySats
      /\ p.changeScript = q.changeScript /\ p.changeSats = q.changeSats
      /\ p.feeSats = q.feeSats
  BY <1>1, <1>2, SameId
<1>4. InputsOf(s) = InputsOf(t) /\ InputsOf(s) = 1 .. Len(p.inputs)
  BY <1>1, <1>2, <1>3 DEF InputsOf
<1>5. /\ p.inputs = [i \in InputsOf(s) |->
           [txid |-> p.inputs[i].txid, vout |-> p.inputs[i].vout,
            sats |-> p.inputs[i].sats, script |-> p.inputs[i].script]]
      /\ q.inputs = [i \in InputsOf(t) |->
           [txid |-> q.inputs[i].txid, vout |-> q.inputs[i].vout,
            sats |-> q.inputs[i].sats, script |-> q.inputs[i].script]]
  BY <1>2 DEF Summary
<1>6. p.inputs = q.inputs
  <2> DEFINE OfP(i) == [txid |-> p.inputs[i].txid, vout |-> p.inputs[i].vout,
                        sats |-> p.inputs[i].sats, script |-> p.inputs[i].script]
             OfQ(i) == [txid |-> q.inputs[i].txid, vout |-> q.inputs[i].vout,
                        sats |-> q.inputs[i].sats, script |-> q.inputs[i].script]
  <2>1. PICK inputs : inputs = InputsOf(s)
    OBVIOUS
  <2>2. inputs = InputsOf(t) /\ inputs = 1 .. Len(p.inputs)
    BY <1>4, <2>1
  <2>3. p.inputs = [i \in inputs |-> OfP(i)] /\ q.inputs = [i \in inputs |-> OfQ(i)]
    BY <1>5, <2>1, <2>2, Zenon
  <2>4. ASSUME NEW i \in inputs PROVE OfP(i) = OfQ(i)
    <3>1. /\ p.inputs[i].txid = q.inputs[i].txid /\ p.inputs[i].vout = q.inputs[i].vout
          /\ p.inputs[i].sats = q.inputs[i].sats /\ p.inputs[i].script = q.inputs[i].script
      BY <1>3, <2>2, <2>4, Zenon
    <3> QED
      BY <3>1, Zenon
  <2> HIDE DEF OfP, OfQ
  <2> QED
    BY <2>3, <2>4
<1>7. /\ p = [network |-> p.network, inputs |-> p.inputs, totalSats |-> p.totalSats,
              payScript |-> p.payScript, paySats |-> p.paySats,
              changeScript |-> p.changeScript, changeSats |-> p.changeSats,
              feeSats |-> p.feeSats]
      /\ q = [network |-> q.network, inputs |-> q.inputs, totalSats |-> q.totalSats,
              payScript |-> q.payScript, paySats |-> q.paySats,
              changeScript |-> q.changeScript, changeSats |-> q.changeSats,
              feeSats |-> q.feeSats]
  BY <1>2 DEF Summary
<1>8. p = q
  BY <1>3, <1>6, <1>7
<1> QED
  BY <1>2, <1>8

(* What is approved is the summary of a text that was accepted. *)
ApprovedOfText ==
  approved # NoSummary =>
    \E t \in Seq(HostLines) : CheckSummaryText(t) /\ approved = Summary(t)

LEMMA ApprovedOfTextHolds == Spec => []ApprovedOfText
<1>1. Init => ApprovedOfText
  BY DEF Init, ApprovedOfText
<1>2. TypeOK /\ ApprovedOfText /\ [Next]_vars => ApprovedOfText'
  <2> SUFFICES ASSUME TypeOK, ApprovedOfText, [Next]_vars PROVE ApprovedOfText'
    OBVIOUS
  <2>1. CASE Check
    BY <2>1 DEF Check, TypeOK, ApprovedOfText
  <2>2. CASE Edit \/ UNCHANGED vars
    BY <2>2 DEF Edit, vars, ApprovedOfText
  <2>3. CASE Sign \/ SignMismatch
    BY <2>3 DEF Sign, SignMismatch, ApprovedOfText
  <2> QED
    BY <2>1, <2>2, <2>3 DEF Next
<1> QED
  BY <1>1, <1>2, PolicyTypes, PTL DEF Spec

(* However long the texts and wide the numbers: two summaries that differ  *)
(* have different check ids, so a text edited after CHECK has the approved *)
(* id only when everything the user approved is still in it.               *)
THEOREM SameIdSameSummaryHolds == Spec => []SameIdSameSummary
<1>1. TypeOK /\ ApprovedOfText => SameIdSameSummary
  <2> SUFFICES ASSUME TypeOK, ApprovedOfText, approved # NoSummary, CheckSummaryText(text),
                      CheckId(Summary(text)) = CheckId(approved)
               PROVE  Summary(text) = approved
    BY DEF SameIdSameSummary
  <2>1. PICK t \in Seq(HostLines) : CheckSummaryText(t) /\ approved = Summary(t)
    BY DEF ApprovedOfText
  <2>2. text \in Seq(HostLines) /\ CheckId(Summary(text)) = CheckId(Summary(t))
    BY <2>1 DEF TypeOK
  <2>3. Summary(text) = Summary(t)
    BY <2>1, <2>2, SameParts
  <2> QED
    BY <2>1, <2>3
<1> QED
  BY <1>1, PolicyTypes, ApprovedOfTextHolds, PTL
=============================================================================
