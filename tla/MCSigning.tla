----------------------------- MODULE MCSigning -----------------------------
(***************************************************************************)
(* The eight attempts of the build; the authorization counter wraps at 3.  *)
(* The transactions: two payments, one of one input on TESTNET and one of  *)
(* two inputs; amounts that do not add up; and, beyond what the policy     *)
(* lets through, scripts that fill the buffers to their edges and a script *)
(* whose length does not fit its byte.                                     *)
(***************************************************************************)
EXTENDS SigningSafety

Bytes(n, b) == [k \in 1 .. n |-> b]

Coin(id, vout, script, sats) ==
  [txid |-> Bytes(32, id), vout |-> vout, script |-> script, sats |-> sats]
Output(script, sats) == [script |-> script, sats |-> sats]

Own == Bytes(25, 118)
Recipient == Bytes(25, 119)
Change == Bytes(22, 10)

Testnet ==
  [inputs |-> <<Coin(7, 1, Own, 700)>>,
   pay |-> Output(Recipient, 300), change |-> Output(Change, 390)]

Pair ==
  [inputs |-> <<Coin(7, 258, Own, 500), Coin(8, 0, Bytes(25, 120), 400)>>,
   pay |-> Output(Recipient, 300), change |-> Output(Own, 590)]

(* The same coins in the other order. *)
Swapped == [Pair EXCEPT !.inputs = <<@[2], @[1]>>]

Unbalanced == [Testnet EXCEPT !.change.sats = 401]
OutputsWrap == [Testnet EXCEPT !.pay.sats = 65000, !.change.sats = 1000]
InputsWrap == [Pair EXCEPT !.inputs[1].sats = 65500]

(* With DER signatures of 71 and 72 bytes: 511 bytes, which fit, 512, for  *)
(* which the digits have no room, and 513.                                 *)
Edge == [Pair EXCEPT !.pay.script = Bytes(140, 1), !.change.script = Bytes(47, 2)]

(* No room for the second preimage, whose input has the longer script. *)
SecondTooLong == [Edge EXCEPT !.inputs[2].script = Bytes(100, 3)]

(* LongScript has a script of 256 bytes, which are those that follow the   *)
(* empty script of EmptyScript in what is hashed: only the limit on the    *)
(* length keeps their hashes apart.                                        *)
Ending == Sequence \o U8(2) \o OutputField(Output(Recipient, 300))
          \o OutputField(Output(Own, 390))
EmptyScript ==
  [inputs |-> <<Coin(7, 1, <<>>, 700)>>,
   pay |-> Output(Bytes(150, 4), 300),
   change |-> Output(Bytes(156 - Len(Ending), 5) \o Ending, 390)]
LongScript ==
  [inputs |-> <<Coin(7, 1, SubSeq(Preimage(EmptyScript, 1), 43, 298), 700)>>,
   pay |-> Output(Recipient, 300), change |-> Output(Own, 390)]

MCTransactions ==
  {Testnet, Pair, Swapped, Unbalanced, OutputsWrap, InputsWrap, Edge, SecondTooLong,
   EmptyScript, LongScript}

MCDerLengths == {0, 71, 72}
=============================================================================
