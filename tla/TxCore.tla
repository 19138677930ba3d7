------------------------------- MODULE TxCore -------------------------------
(***************************************************************************)
(* wallet_core.c: serializing, hashing and signing a legacy transaction    *)
(* with one or two inputs, a payment and change, and wiping what the       *)
(* signature needed.  A buffer is the sequence of what has been written to *)
(* it, <<>> when it holds zeroes.  Hashes and signatures are what they are *)
(* computed from; a DER signature is a sequence whose first element is the *)
(* signature and the others zeroes, so that lengths and offsets are real.  *)
(***************************************************************************)
EXTENDS Integers, Sequences

CONSTANT U64   \* 2^64

(* A uint64_t fits in eight bytes. *)
ASSUME TxCoreAssumption ==
  U64 \in Nat \ {0} /\ (((U64 - 1) \div 65536) \div 65536) \div 65536 < 65536

MaxInputs == 2        \* WALLET_LEGACY_P2PKH_MAX_INPUTS
MaxScript == 252      \* longest script with a one-byte length
MaxDer == 80          \* sizeof sig_der
PreimageSize == 384
SighashAll == 1

(* What the core takes: inputs, a payment and change, as the structures of *)
(* wallet_core.h carry them.                                               *)
Byte == 0 .. 255
Amount == 0 .. U64 - 1

IsOutput(output) == output \in [script : Seq(Byte), sats : Amount]

IsCoin(coin) ==
  /\ coin.txid \in Seq(Byte) /\ Len(coin.txid) = 32
  /\ coin.vout \in Nat /\ coin.vout \div 65536 < 65536
  /\ coin.script \in Seq(Byte)
  /\ coin.sats \in Amount

IsTx(tx) ==
  /\ \E n \in 1 .. MaxInputs : Len(tx.inputs) = n /\ DOMAIN tx.inputs = 1 .. n
  /\ \A i \in DOMAIN tx.inputs : IsCoin(tx.inputs[i])
  /\ IsOutput(tx.pay) /\ IsOutput(tx.change)

VARIABLES
  coreAt,      \* what sign_p2pkh_multi_2out_tx does next, "idle" outside it
  coreInput,   \* index of the input being signed
  coreOk,      \* the last call returned 0
  pubkey33, preimage, hash1, digest, sig64,
  sigs,        \* sig_der_sighash, one per input signed so far
  raw          \* out_raw_tx

coreVars == <<coreAt, coreInput, coreOk, pubkey33, preimage, hash1, digest, sig64, sigs, raw>>

CoreInit ==
  /\ coreAt = "idle"
  /\ coreInput = 0
  /\ coreOk = FALSE
  /\ pubkey33 = <<>> /\ preimage = <<>> /\ hash1 = <<>> /\ digest = <<>> /\ sig64 = <<>>
  /\ sigs = <<>>
  /\ raw = <<>>

-----------------------------------------------------------------------------
(* Serialization. *)

U8(n) == <<n % 256>>
U32LE(n) ==
  <<n % 256, (n \div 256) % 256, (n \div 65536) % 256, (n \div 16777216) % 256>>
U64LE(n) == U32LE(n) \o U32LE((n \div 65536) \div 65536)

Sequence == <<255, 255, 255, 255>>
Locktime == U32LE(0)

ScriptField(script) == U8(Len(script)) \o script
InputField(input, script) ==
  input.txid \o U32LE(input.vout) \o ScriptField(script) \o Sequence
OutputField(output) == U64LE(output.sats) \o ScriptField(output.script)

InputFields(tx, scripts) ==
  InputField(tx.inputs[1], scripts[1])
    \o (IF Len(tx.inputs) = 2 THEN InputField(tx.inputs[2], scripts[2]) ELSE <<>>)

(* A transaction whose k-th input carries scripts[k]. *)
Serialized(tx, scripts) ==
  U32LE(1) \o U8(Len(tx.inputs)) \o InputFields(tx, scripts)
    \o U8(2) \o OutputField(tx.pay) \o OutputField(tx.change) \o Locktime

(* Mutant: every signature is over the script of the first input. *)
PreimageOfFirst(tx, i) ==
  Serialized(tx, [j \in DOMAIN tx.inputs |-> IF j = 1 THEN tx.inputs[j].script ELSE <<>>])
    \o U32LE(SighashAll)

(* What the signature of input i is over: its own script in place, those   *)
(* of the others empty.                                                    *)
Preimage(tx, i) ==
  Serialized(tx, [j \in DOMAIN tx.inputs |-> IF j = i THEN tx.inputs[j].script ELSE <<>>])
    \o U32LE(SighashAll)

(* Mutant: the script of an input is not measured. *)
PreimageBuildsAnyInput(tx, i) ==
  /\ Len(tx.inputs) \in 1 .. MaxInputs
  /\ Len(tx.pay.script) <= MaxScript /\ Len(tx.change.script) <= MaxScript
  /\ Len(Preimage(tx, i)) <= PreimageSize

PreimageBuilds(tx, i) ==
  /\ Len(tx.inputs) \in 1 .. MaxInputs
  /\ Len(tx.pay.script) <= MaxScript /\ Len(tx.change.script) <= MaxScript
  /\ \A j \in DOMAIN tx.inputs : Len(tx.inputs[j].script) <= MaxScript
  /\ Len(Preimage(tx, i)) <= PreimageSize

ScriptSig(sig, key33) == ScriptField(sig) \o ScriptField(key33)

SignedTx(tx, signatures, key33) ==
  Serialized(tx, [j \in DOMAIN tx.inputs |-> ScriptSig(signatures[j], key33)])

-----------------------------------------------------------------------------
(* Cryptography of the libraries. *)
Sha256(bytes) == <<"sha256", bytes>>
Ecdsa(hash) == <<"ecdsa", hash>>
Der(sig, len) == <<sig>> \o [k \in 1 .. len - 1 |-> 0]
Pubkey == <<2>> \o [k \in 1 .. 32 |-> 0]

(* The signature of input i, as the script carries it. *)
Signature(tx, i, len) ==
  Der(Ecdsa(Sha256(Sha256(Preimage(tx, i)))), len) \o U8(SighashAll)

-----------------------------------------------------------------------------
(* The sums, looked at before anything else; undeclared inputs add up to 0 *)
(* and are let through.                                                    *)
InputSum(tx) ==
  IF Len(tx.inputs) = 2 THEN tx.inputs[1].sats + tx.inputs[2].sats ELSE tx.inputs[1].sats

SumsHold(tx) ==
  LET outputs == (tx.pay.sats + tx.change.sats) % U64
  IN  /\ outputs >= tx.pay.sats
      /\ InputSum(tx) <= U64 - 1
      /\ InputSum(tx) = 0 \/ InputSum(tx) >= outputs

CoreStart(tx) ==
  /\ coreAt = "idle"
  /\ coreAt' = IF SumsHold(tx) THEN "pubkey" ELSE "idle"
  /\ coreOk' = FALSE
  /\ UNCHANGED <<coreInput, pubkey33, preimage, hash1, digest, sig64, sigs, raw>>

(* goto cleanup with an error. *)
CoreFails ==
  /\ coreAt' = "cleanup"
  /\ UNCHANGED <<coreInput, coreOk, pubkey33, preimage, hash1, digest, sig64, sigs, raw>>

PubkeyStep(ok) ==
  /\ coreAt = "pubkey"
  /\ \/ /\ ok
        /\ coreAt' = "preimage"
        /\ coreInput' = 1
        /\ pubkey33' = Pubkey
        /\ UNCHANGED <<coreOk, preimage, hash1, digest, sig64, sigs, raw>>
     \/ ~ok /\ CoreFails

BuildPreimage(tx) ==
  /\ coreAt = "preimage"
  /\ \/ /\ PreimageBuilds(tx, coreInput)
        /\ coreAt' = "hash"
        /\ preimage' = Preimage(tx, coreInput)
        /\ UNCHANGED <<coreInput, coreOk, pubkey33, hash1, digest, sig64, sigs, raw>>
     \/ /\ ~PreimageBuilds(tx, coreInput)
        /\ coreAt' = "cleanup"
        /\ preimage' \in {<<>>, U32LE(1)}   \* some fields may be written
        /\ UNCHANGED <<coreInput, coreOk, pubkey33, hash1, digest, sig64, sigs, raw>>

(* Mutant: a hash that fails is tried again from the start. *)
HashOnceRetries(ok) ==
  /\ coreAt = "hash"
  /\ \/ /\ ok
        /\ coreAt' = "rehash"
        /\ hash1' = Sha256(preimage)
        /\ UNCHANGED <<coreInput, coreOk, pubkey33, preimage, digest, sig64, sigs, raw>>
     \/ /\ ~ok
        /\ coreAt' = "preimage"
        /\ UNCHANGED <<coreInput, coreOk, pubkey33, preimage, hash1, digest, sig64, sigs, raw>>

HashOnce(ok) ==
  /\ coreAt = "hash"
  /\ \/ /\ ok
        /\ coreAt' = "rehash"
        /\ hash1' = Sha256(preimage)
        /\ UNCHANGED <<coreInput, coreOk, pubkey33, preimage, digest, sig64, sigs, raw>>
     \/ ~ok /\ CoreFails

HashTwice(ok) ==
  /\ coreAt = "rehash"
  /\ \/ /\ ok
        /\ coreAt' = "sign"
        /\ digest' = Sha256(hash1)
        /\ UNCHANGED <<coreInput, coreOk, pubkey33, preimage, hash1, sig64, sigs, raw>>
     \/ ~ok /\ CoreFails

(* Mutant: the digest of the first input is signed again. *)
SignDigestOnce(ok) ==
  /\ coreAt = "sign"
  /\ \/ /\ ok
        /\ coreAt' = "der"
        /\ sig64' = IF sigs = <<>> THEN Ecdsa(digest) ELSE sigs[1][1]
        /\ UNCHANGED <<coreInput, coreOk, pubkey33, preimage, hash1, digest, sigs, raw>>
     \/ ~ok /\ CoreFails

SignDigest(ok) ==
  /\ coreAt = "sign"
  /\ \/ /\ ok
        /\ coreAt' = "der"
        /\ sig64' = Ecdsa(digest)
        /\ UNCHANGED <<coreInput, coreOk, pubkey33, preimage, hash1, digest, sigs, raw>>
     \/ ~ok /\ CoreFails

ZeroTemporaries == preimage' = <<>> /\ hash1' = <<>> /\ digest' = <<>> /\ sig64' = <<>>

(* sig_to_der wrote len bytes: the signature is kept, the temporaries are  *)
(* wiped, and the next input follows, or the transaction.                  *)
StoreSignature(tx, len) ==
  /\ coreAt = "der"
  /\ \/ /\ len \in 1 .. MaxDer
        /\ sigs' = Append(sigs, Der(sig64, len) \o U8(SighashAll))
        /\ ZeroTemporaries
        /\ IF coreInput < Len(tx.inputs)
           THEN coreAt' = "preimage" /\ coreInput' = coreInput + 1
           ELSE coreAt' = "build" /\ UNCHANGED coreInput
        /\ UNCHANGED <<coreOk, pubkey33, raw>>
     \/ len \notin 1 .. MaxDer /\ CoreFails

(* As much of bytes as a buffer of that size takes: which fields are in    *)
(* when one does not fit is left out, the beginning stands for them.       *)
Appended(bytes, size) == SubSeq(bytes, 1, IF Len(bytes) <= size THEN Len(bytes) ELSE size)

(* Mutant: the signature type is appended to the transaction as well. *)
BuildTxWithType(tx, size) ==
  /\ coreAt = "build"
  /\ coreAt' = "cleanup"
  /\ LET bytes == SignedTx(tx, sigs, pubkey33) \o U32LE(SighashAll)
     IN  /\ raw' = Appended(bytes, size)
         /\ coreOk' = (Len(bytes) <= size)
  /\ UNCHANGED <<coreInput, pubkey33, preimage, hash1, digest, sig64, sigs>>

(* The transaction into out_raw_tx, or as much of it as fits. *)
BuildTx(tx, size) ==
  /\ coreAt = "build"
  /\ coreAt' = "cleanup"
  /\ LET bytes == SignedTx(tx, sigs, pubkey33)
     IN  /\ raw' = Appended(bytes, size)
         /\ coreOk' = (Len(bytes) <= size)
  /\ UNCHANGED <<coreInput, pubkey33, preimage, hash1, digest, sig64, sigs>>

(* Mutant: a signature that was not finished is left where it was. *)
CleanupOfSuccess ==
  /\ coreAt = "cleanup"
  /\ coreAt' = "idle"
  /\ coreInput' = 0
  /\ IF coreOk
     THEN ZeroTemporaries /\ pubkey33' = <<>> /\ sigs' = <<>>
     ELSE UNCHANGED <<pubkey33, preimage, hash1, digest, sig64, sigs>>
  /\ UNCHANGED <<coreOk, raw>>

Cleanup ==
  /\ coreAt = "cleanup"
  /\ coreAt' = "idle"
  /\ coreInput' = 0
  /\ ZeroTemporaries
  /\ pubkey33' = <<>>
  /\ sigs' = <<>>
  /\ UNCHANGED <<coreOk, raw>>

CoreStep(tx, size) ==
  \/ \E ok \in BOOLEAN : PubkeyStep(ok) \/ HashOnce(ok) \/ HashTwice(ok) \/ SignDigest(ok)
  \/ BuildPreimage(tx)
  \/ BuildTx(tx, size)
  \/ Cleanup
=============================================================================
