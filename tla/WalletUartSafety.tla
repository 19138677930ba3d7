-------------------------- MODULE WalletUartSafety --------------------------
(* What the whole firmware keeps, over all its components.                 *)
EXTENDS WalletUart

TypeOK ==
  /\ now \in Ticks
  /\ ApprovalTypeOK
  /\ ButtonTypeOK
  /\ KeyTypeOK
  /\ SeTypeOK
  /\ UartTypeOK

(* The firmware's state as the user's promise sees it. *)
Phase ==
  CASE pc \in {"key", "authorize", "copy"} -> "granted"
    [] pc = "sign" -> "keyed"
    [] pc = "postcheck" -> "signed"
    [] OTHER -> "idle"

Gate == INSTANCE SigningGate WITH
  Transactions <- Summaries,
  Nothing <- NoSummary,
  shown <- approvedCheck,
  approved <- confirmed,
  session <- unlocked,
  phase <- Phase,
  sent <- sent

(* wallet_uart_run keeps the promise of SigningGate: a RAW_TX answer       *)
(* carries the transaction shown last, approved since, and each approval   *)
(* and each PIN session is spent on it, with ticks, button samples and     *)
(* resets between any two steps.                                           *)
KeepsThePromise == Gate!Spec

(* The private key is in RAM in one place at a time, outside a session     *)
(* only between the key provider and the end of the signature, and never   *)
(* while the prompt waits: nor is a signed transaction that was not sent.  *)
SecretsInPlace ==
  /\ privateKey => pc = "sign" /\ ~sessionKey
  /\ sessionKey => pc \in {"read", "key", "authorize", "copy"}
  /\ signedTx # NoSummary => pc = "postcheck" /\ ~sessionKey

(* The secure element authorizes only inside a SIGN whose text is the      *)
(* approved and confirmed one, with a session open since before it was     *)
(* asked: the comments at wallet_uart.c:2410 and 2429.                     *)
AuthorizationBehindGate ==
  [][authCount' # authCount /\ pc' # "boot"
       => /\ pc = "authorize"
          /\ confirmed /\ approvedCheck = CheckSummary[cmd]
          /\ unlocked]_vars

(* Every command that got past the prompt ends there again, whatever fails *)
(* on its way.                                                             *)
Busy == pc \in {"kdf", "key", "authorize", "copy", "sign", "postcheck"}
EveryCommandEnds == Busy ~> (pc \in {"read", "boot"})

-----------------------------------------------------------------------------
(* The inductive strengthening of the properties above.                    *)

(* The statics of the gate agree with each other. *)
ApprovalPart ==
  /\ pending <=> approvedCheck # NoSummary
  /\ confirmed => pending

(* What a SIGN under way knows of the gate it passed: nothing touches the  *)
(* approval until the loop is back at the prompt.                          *)
SignPart ==
  /\ pc \in {"key", "authorize", "copy", "sign", "postcheck"}
       => confirmed /\ cmd \in Texts /\ approvedCheck = CheckSummary[cmd]
  /\ pc = "postcheck" => signedTx = approvedCheck

(* Where secrets are, by where the loop is. *)
KeyPart ==
  /\ sessionKey <=> unlocked
  /\ unwrapping <=> pc = "kdf"
  /\ releasing <=> pc \in {"authorize", "copy"}
  /\ releasing => unlocked
  /\ unlocked => pc \in {"read", "key", "authorize", "copy"}
  /\ privateKey => pc = "sign"
  /\ signedTx # NoSummary => pc = "postcheck"
=============================================================================
