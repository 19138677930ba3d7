------------------------------ MODULE TxSigner ------------------------------
(***************************************************************************)
(* What a signer promises, without buffers and steps: it is asked for one  *)
(* transaction at a time and answers with that transaction, each input     *)
(* signed over its own previous script and over every outpoint and output  *)
(* of the transaction, or refuses.                                         *)
(***************************************************************************)
EXTENDS Integers, Sequences

CONSTANT Transactions

VARIABLES asked, answer

NoRequest == [inputs |-> <<>>]
Nothing == [kind |-> "nothing"]
Refusal == [kind |-> "refused"]

Outpoint(input) == [txid |-> input.txid, vout |-> input.vout]
Outputs(tx) == <<tx.pay, tx.change>>

Version == 1
Locktime == <<0, 0, 0, 0>>
AllOutputs == <<1, 0, 0, 0>>   \* the kind of signature: over every output

(* What the holder of the coin of input i commits to by signing. *)
Commitment(tx, i) ==
  [version |-> Version,
   inputs |-> [j \in DOMAIN tx.inputs |->
                [outpoint |-> Outpoint(tx.inputs[j]),
                 script |-> IF j = i THEN tx.inputs[j].script ELSE <<>>]],
   outputs |-> Outputs(tx),
   behind |-> Locktime \o AllOutputs]

SignedAnswer(tx) ==
  [kind |-> "signed",
   tx |-> [version |-> Version,
           inputs |-> [j \in DOMAIN tx.inputs |->
                        [outpoint |-> Outpoint(tx.inputs[j]), covers |-> Commitment(tx, j)]],
           outputs |-> Outputs(tx),
           behind |-> Locktime]]

(* The outputs spend no more than the inputs, in whole numbers.  Inputs    *)
(* whose amounts were not declared add up to 0.                            *)
Total(tx) ==
  IF Len(tx.inputs) = 2 THEN tx.inputs[1].sats + tx.inputs[2].sats ELSE tx.inputs[1].sats
Covered(tx) == Total(tx) = 0 \/ tx.pay.sats + tx.change.sats <= Total(tx)

Init == asked = NoRequest /\ answer = Nothing

Ask(tx) ==
  /\ asked = NoRequest
  /\ asked' = tx
  /\ answer' = Nothing

Sign ==
  /\ asked # NoRequest
  /\ Covered(asked)
  /\ answer' = SignedAnswer(asked)
  /\ asked' = NoRequest

Refuse ==
  /\ asked # NoRequest
  /\ answer' = Refusal
  /\ asked' = NoRequest

Next == (\E tx \in Transactions : Ask(tx)) \/ Sign \/ Refuse

Spec == Init /\ [][Next]_<<asked, answer>>

(* ... and it does answer. *)
EveryRequestAnswered == asked # NoRequest ~> asked = NoRequest
=============================================================================
