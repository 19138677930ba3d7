----------------------------- MODULE MCApproval -----------------------------
(* Three texts: two accepted with different summaries whose codes collide  *)
(* or not, one rejected by policy.                                         *)
EXTENDS ApprovalSafety, TLC

CONSTANTS payA, payB, payC, bad, sumA, sumB, sumC, code1, code2

MCCheckSummary == (payA :> sumA) @@ (payB :> sumB) @@ (payC :> sumC) @@ (bad :> NoSummary)
MCCodeOf == (sumA :> code1) @@ (sumB :> code1) @@ (sumC :> code2)
=============================================================================
