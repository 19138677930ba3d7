--------------------------- MODULE SigningSafety ---------------------------
(***************************************************************************)
(* What must hold of the path from an approved SIGN to RAW_TX.             *)
(***************************************************************************)
EXTENDS Signing, TxReader

TypeOK ==
  /\ SeTypeOK
  /\ answered \subseteq {"init", "mode", "chip_id"}
  /\ at \in {"boot", "halted", "top", "prompt", "key", "core", "check"}
  /\ coreAt \in {"idle", "pubkey", "preimage", "hash", "rehash", "sign", "der", "build",
                 "cleanup"}
  /\ coreInput \in 0 .. MaxInputs
  /\ coreOk \in BOOLEAN
  /\ request \in Transactions \cup {NoRequest}
  /\ key \in BOOLEAN
  /\ reply \in {"nothing", "refused", "signed"}

(* The wallet serves commands only over one handle that answered all three *)
(* calls in the same attempt: a retry starts from nothing (memset, lt_init)*)
(* and answers of an attempt that failed later do not count.               *)
ReadyMeansAnswered ==
  initialized \/ at \notin {"boot", "halted"} =>
    initialized /\ handleOpen /\ answered = {"init", "mode", "chip_id"}

(* What init returns tells what happened: 0 exactly when the element is    *)
(* ready, the last failure otherwise, never the 999 it starts with.        *)
ResultIsHonest ==
  /\ sePhase = "ready" => initRet = 0 /\ initialized
  /\ sePhase = "failed" => initRet \notin {0, NotRun} /\ ~initialized /\ ~handleOpen

(* Boot ends, serving commands or halted without the element, however      *)
(* often the chip refuses.                                                 *)
BootEnds == <>(at # "boot")

-----------------------------------------------------------------------------
(* The bytes of RAW_TX, read as the network reads them, and those that     *)
(* each signature in them is over.                                         *)
ReadSigned(bytes) ==
  LET read[tx \in {ReadTx(bytes)}] ==
        [kind |-> "signed",
         tx |-> [tx EXCEPT !.inputs = [k \in DOMAIN @ |->
                  [outpoint |-> @[k].outpoint,
                   covers |-> ReadTx(SignatureIn(@[k].script)[1][2][2][2])]]]]
  IN  read[ReadTx(bytes)]

Promise == INSTANCE TxSigner WITH
  asked <- request,
  answer <- CASE reply = "nothing" -> [kind |-> "nothing"]
              [] reply = "refused" -> [kind |-> "refused"]
              [] reply = "signed" -> ReadSigned(sent)

(* The bytes that are hashed commit to what they are for: no other         *)
(* transaction the core would sign, and no other input, has the same.      *)
(* Only the amounts of the inputs are not part of them.                    *)

PreimageCommits ==
  coreAt = "hash" =>
    \A tx \in Transactions : \A i \in DOMAIN tx.inputs :
      PreimageBuilds(tx, i) /\ Preimage(tx, i) = preimage
        => Promise!Commitment(tx, i) = Promise!Commitment(request, coreInput)

(* No byte of the key, the digests and the signatures outlives its use: on *)
(* every way out of the core its buffers are zero, the key is gone when    *)
(* its result is looked at, and nothing is left when the host is asked for *)
(* the next command.                                                       *)
NothingLeftBehind ==
  /\ coreAt = "idle" =>
       preimage = <<>> /\ hash1 = <<>> /\ digest = <<>> /\ sig64 = <<>>
         /\ sigs = <<>> /\ pubkey33 = <<>>
  /\ at \in {"boot", "halted", "check", "top", "prompt"} => ~key
  /\ at = "prompt" => raw = <<>>

(* The signatures collected so far are one per input, in order, each over  *)
(* the preimage of its own input: none is left from the other input or     *)
(* from an earlier transaction.                                            *)
SignaturesInPlace ==
  /\ coreAt \in {"preimage", "hash", "rehash", "sign", "der"} => Len(sigs) = coreInput - 1
  /\ coreAt = "build" => Len(sigs) = Len(request.inputs)
  /\ \A i \in DOMAIN sigs : \E len \in DerLengths : sigs[i] = Signature(request, i, len)

(* What the policy lets through: scripts of 25 bytes, testnet change of 22.*)
IsPayment(tx) ==
  /\ \A i \in DOMAIN tx.inputs : Len(tx.inputs[i].script) = 25
  /\ Len(tx.pay.script) = 25
  /\ Len(tx.change.script) \in {22, 25}

(* A transaction that the policy has accepted is never refused for want of *)
(* room: preimage[384], signed_tx_raw[512] and signed_tx_hex[1024] hold it *)
(* with any signatures.                                                    *)
RoomForPayments ==
  at = "core" /\ IsPayment(request) =>
    /\ coreAt = "preimage" => PreimageBuilds(request, coreInput)
    /\ coreAt = "build" => Len(SignedTx(request, sigs, pubkey33)) <= RawSize
    /\ HexFits

(* ERR POSTCHECK is a net that nothing falls into: whatever the core       *)
(* returns with 0 has the marks that the loop looks for.                   *)
PostcheckNeverFails == at = "check" => PostcheckOk

-----------------------------------------------------------------------------
(* The loop and the core implement TxSigner: what RAW_TX says, read byte   *)
(* by byte, is the transaction asked for, its i-th signature over the i-th *)
(* script and all of its outpoints and outputs, with no more spent than    *)
(* declared.                                                               *)
KeepsSigning == Promise!Spec

(* Every SIGN is answered, by RAW_TX or an error, whichever of the library *)
(* calls fails on whichever input.                                         *)
EverySignAnswered == Promise!EveryRequestAnswered
=============================================================================
