------------------------------ MODULE MCButton ------------------------------
(* Two acceptable texts and a rejected one; the clock wraps.               *)
EXTENDS ButtonSafety, TLC

CONSTANTS payA, payB, bad, sumA, sumB, code1, code2

MCCheckSummary == (payA :> sumA) @@ (payB :> sumB) @@ (bad :> NoSummary)
MCCodeOf == (sumA :> code1) @@ (sumB :> code2)
=============================================================================
