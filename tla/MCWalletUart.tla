---------------------------- MODULE MCWalletUart ----------------------------
(* Two texts the policy accepts, whose codes collide, one it rejects and   *)
(* one that carries key material.                                          *)
EXTENDS WalletUartHistory, TLC

CONSTANTS payA, payB, bad, withKey, sumA, sumB, code1, code2

MCCheckSummary ==
  (payA :> sumA) @@ (payB :> sumB) @@ (bad :> NoSummary) @@ (withKey :> sumB)
MCCodeOf == (sumA :> code1) @@ (sumB :> code1)
=============================================================================
