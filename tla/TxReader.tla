------------------------------ MODULE TxReader ------------------------------
(***************************************************************************)
(* A transaction as the network reads it: from the first byte, by the      *)
(* lengths found on the way, knowing nothing of who wrote it.  This is the *)
(* reference the bytes of the core are held against, not code of the       *)
(* wallet.                                                                 *)
(***************************************************************************)
EXTENDS Integers, Sequences

Take(bytes, at, n) == SubSeq(bytes, at, at + n - 1)

(* The number in the n bytes from at on, least significant first. *)
NumberAt(bytes, at, n) ==
  LET high[k \in 0 .. n] == IF k = n THEN 0 ELSE bytes[at + k] + 256 * high[k + 1]
  IN  high[0]

(* A field that begins with its length, and where it ends. *)
FieldAt(bytes, at) == Take(bytes, at + 1, bytes[at])
AfterField(bytes, at) == at + 1 + bytes[at]

(* Where each of n items begins, and where the last one ends, when an item *)
(* has a field behind `before' bytes and `after' bytes behind the field.   *)
ItemsAt(bytes, at, n, before, after) ==
  LET start[k \in 1 .. n + 1] ==
        IF k = 1 THEN at ELSE AfterField(bytes, start[k - 1] + before) + after
  IN  start

ReadInput(bytes, at) ==
  [outpoint |-> [txid |-> Take(bytes, at, 32), vout |-> NumberAt(bytes, at + 32, 4)],
   script |-> FieldAt(bytes, at + 36)]

ReadOutput(bytes, at) ==
  [script |-> FieldAt(bytes, at + 8), sats |-> NumberAt(bytes, at, 8)]

(* Version, inputs, outputs, and the bytes behind them.  A function, so    *)
(* that TLC works out its argument once.                                   *)
ReadTx(bytes) ==
  LET read[b \in {bytes}] ==
        LET inputs == ItemsAt(b, 6, b[5], 36, 4)
            outputsAt == inputs[b[5] + 1]
            outputs == ItemsAt(b, outputsAt + 1, b[outputsAt], 8, 0)
        IN  [version |-> NumberAt(b, 1, 4),
             inputs |-> [k \in 1 .. b[5] |-> ReadInput(b, inputs[k])],
             outputs |-> [k \in 1 .. b[outputsAt] |-> ReadOutput(b, outputs[k])],
             behind |-> SubSeq(b, outputs[b[outputsAt] + 1], Len(b))]
  IN  read[bytes]

(* A script signature begins with the signature, behind its length. *)
SignatureIn(script) == FieldAt(script, 1)
=============================================================================
