----------------------------- MODULE WalletUart -----------------------------
(***************************************************************************)
(* wallet_uart.c: wallet_uart_run, the one thread of the firmware, with    *)
(* the approval gate, the button, the key provider and the secure element  *)
(* it drives.  Between two commands it waits for a byte and samples the    *)
(* button (pc = "read"); the slow parts of a command are steps of their    *)
(* own, so that the tick interrupt and a reset fall between them.          *)
(***************************************************************************)
EXTENDS ButtonConfirm, KeyProvider, SecureElement

CONSTANTS
  HostKeyTexts,   \* texts with PRIVKEY= or UNLOCK_SECRET= in them
  PolicyTexts,    \* texts wallet_command_check_policy_text accepts
  NoText          \* the cleared command buffer

(* check_summary_text makes every check that check_policy_text makes. *)
ASSUME WalletUartAssumption ==
  /\ NoText \notin Texts
  /\ \A text \in Texts : CheckSummary[text] # NoSummary => text \in PolicyTexts

VARIABLES
  pc,           \* where wallet_uart_run is
  cmd,          \* the SIGN text in wallet_uart_cmd
  privateKey,   \* wallet_uart_private_key holds the key, not zeroes
  signedTx,     \* what the transaction in signed_tx_raw/_hex does
  sent          \* what the last transaction answered as RAW_TX does

uartVars == <<pc, cmd, privateKey, signedTx, sent>>
wallet == <<approvalVars, buttonVars, keyVars, seVars, uartVars>>
vars == <<now, pressed, wallet>>

UartTypeOK ==
  /\ pc \in {"boot", "se_init", "halt", "read", "kdf", "key", "authorize", "copy",
             "sign", "postcheck"}
  /\ cmd \in Texts \cup {NoText}
  /\ privateKey \in BOOLEAN
  /\ signedTx \in Summaries \cup {NoSummary}
  /\ sent \in Summaries \cup {NoSummary}

UartInit ==
  /\ pc = "boot"
  /\ cmd = NoText
  /\ privateKey = FALSE
  /\ signedTx = NoSummary
  /\ sent = NoSummary

Init ==
  /\ ClockInit
  /\ pressed \in BOOLEAN
  /\ ApprovalInit
  /\ ButtonInit
  /\ KeyInit
  /\ SeInit
  /\ UartInit

-----------------------------------------------------------------------------
(* Boot: the RNG and PSA calls, then the secure element; any failure halts.*)
BootStep ==
  /\ pc = "boot"
  /\ \/ pc' = "halt" /\ UNCHANGED seVars
     \/ pc' = "se_init" /\ BeginInit
  /\ UNCHANGED <<now, pressed, approvalVars, buttonVars, keyVars,
                 cmd, privateKey, signedTx, sent>>

SeInitStep ==
  /\ pc = "se_init"
  /\ \E ok \in BOOLEAN : SeBootStep(ok)
  /\ pc' = CASE sePhase' = "ready" -> "read"
             [] sePhase' = "failed" -> "halt"
             [] OTHER -> "se_init"
  /\ UNCHANGED <<now, pressed, approvalVars, buttonVars, keyVars,
                 cmd, privateKey, signedTx, sent>>

-----------------------------------------------------------------------------
(* One idle poll interval of wallet_uart_read_command. *)
Poll ==
  /\ pc = "read"
  /\ PollButton
  /\ UNCHANGED <<now, pressed, keyVars, seVars, uartVars>>

(* CHECK: a text the policy rejects also ends the PIN session.  One with   *)
(* host key material is answered ERR KEYPOLICY and changes nothing.        *)
Check(text) ==
  /\ pc = "read"
  /\ text \notin HostKeyTexts
  /\ RecordApprovedCheck(CheckSummary[text])
  /\ IF CheckSummary[text] = NoSummary THEN LockSession ELSE UNCHANGED sessionVars
  /\ UNCHANGED <<now, pressed, buttonVars, retryVars, callVars, seVars, uartVars>>

Confirm(code) ==
  /\ pc = "read"
  /\ ConfirmApprovedCheckCode(code)
  /\ UNCHANGED <<now, pressed, buttonVars, keyVars, seVars, uartVars>>

ButtonInfo ==
  /\ pc = "read"
  /\ ExpireApprovedCheckIfNeeded
  /\ UNCHANGED <<now, pressed, buttonVars, keyVars, seVars, uartVars>>

UnlockInfo ==
  /\ pc = "read"
  /\ ReportSession
  /\ UNCHANGED <<now, pressed, approvalVars, buttonVars, seVars, uartVars>>

Lock ==
  /\ pc = "read"
  /\ LockSession
  /\ UNCHANGED <<now, pressed, approvalVars, buttonVars, retryVars, callVars,
                 seVars, uartVars>>

UnlockPin ==
  /\ pc = "read"
  /\ BeginUnlock
  /\ pc' = "kdf"
  /\ UNCHANGED <<now, pressed, approvalVars, buttonVars, seVars,
                 cmd, privateKey, signedTx, sent>>

Unwrap ==
  /\ pc = "kdf"
  /\ UnwrapFails \/ UnwrapSucceeds
  /\ pc' = "read"
  /\ UNCHANGED <<now, pressed, approvalVars, buttonVars, seVars,
                 cmd, privateKey, signedTx, sent>>

-----------------------------------------------------------------------------
(* Mutant: SIGN is content with an approval nobody confirmed. *)
SignPassesUnconfirmed(text) ==
  /\ ConfirmSucceeds
  /\ CheckSummary[text] # NoSummary
  /\ CheckSummary[text] = approvedCheck
  /\ text \in PolicyTexts

(* SIGN, up to the key provider. *)
SignPasses(text) == SignMatchesApproved(text) /\ text \in PolicyTexts

SignGranted(text) ==
  /\ pc = "read"
  /\ text \notin HostKeyTexts
  /\ SignPasses(text)
  /\ SignMatchesApprovedCheckText(text)
  /\ pc' = "key"
  /\ cmd' = text
  /\ UNCHANGED <<now, pressed, buttonVars, keyVars, seVars, privateKey, signedTx, sent>>

SignRefused(text) ==
  /\ pc = "read"
  /\ text \notin HostKeyTexts
  /\ ~SignPasses(text)
  /\ SignMatchesApprovedCheckText(text)
  /\ LockSession
  /\ UNCHANGED <<now, pressed, buttonVars, retryVars, callVars, seVars, uartVars>>

(* Mutant: an early return that skips the zeroing of the key. *)
BackToPromptWithKey ==
  /\ pc' = "read"
  /\ cmd' = NoText
  /\ UNCHANGED privateKey
  /\ signedTx' = NoSummary

(* Mutant: a command that ends hangs instead of going back to the prompt. *)
BackToPromptNever ==
  /\ pc' = "halt"
  /\ cmd' = NoText
  /\ privateKey' = FALSE
  /\ signedTx' = NoSummary

(* Back to the prompt, the command buffer and the key cleared. *)
BackToPrompt ==
  /\ pc' = "read"
  /\ cmd' = NoText
  /\ privateKey' = FALSE
  /\ signedTx' = NoSummary

(* Mutant: the secure element is asked before anybody looks at the session.*)
CheckSessionLater ==
  /\ pc = "key"
  /\ releasing' = TRUE
  /\ pc' = "authorize"
  /\ UNCHANGED <<now, pressed, approvalVars, buttonVars, sessionVars, retryVars,
                 unwrapping, unwrapMs, seVars, cmd, privateKey, signedTx, sent>>

(* get_private_key_bytes_for_command in three steps: it looks at the       *)
(* session,                                                                *)
CheckSession ==
  /\ pc = "key"
  /\ BeginRelease
  /\ \/ KeyReleasable /\ pc' = "authorize" /\ UNCHANGED <<cmd, privateKey, signedTx>>
     \/ ~KeyReleasable /\ BackToPrompt
  /\ UNCHANGED <<now, pressed, approvalVars, buttonVars, seVars, sent>>

(* asks the secure element and waits for what it says,                     *)
AskSecureElement(answered) ==
  /\ pc = "authorize"
  /\ AuthorizeKeyUse(answered)
  /\ \/ /\ Authorized(answered)
        /\ pc' = "copy"
        /\ UNCHANGED <<keyVars, cmd, privateKey, signedTx>>
     \/ ~Authorized(answered) /\ RefuseKey /\ BackToPrompt
  /\ UNCHANGED <<now, pressed, approvalVars, buttonVars, sent>>

(* and copies the key out of the session.                                  *)
CopyKey ==
  /\ pc = "copy"
  /\ ReleaseKey
  /\ pc' = "sign"
  /\ privateKey' = TRUE
  /\ UNCHANGED <<now, pressed, approvalVars, buttonVars, seVars, cmd, signedTx, sent>>

(* Building and signing; the key is zeroed whatever the outcome. *)
SignTx ==
  /\ pc = "sign"
  /\ \/ /\ pc' = "postcheck"
        /\ privateKey' = FALSE
        /\ signedTx' = CheckSummary[cmd]
        /\ UNCHANGED cmd
     \/ BackToPrompt
  /\ UNCHANGED <<now, pressed, approvalVars, buttonVars, keyVars, seVars, sent>>

PostcheckFails ==
  /\ pc = "postcheck"
  /\ BackToPrompt
  /\ UNCHANGED <<now, pressed, approvalVars, buttonVars, keyVars, seVars, sent>>

(* Mutant: the approval outlives the transaction it was given for. *)
SendTxKeepsApproval ==
  /\ pc = "postcheck"
  /\ sent' = signedTx
  /\ BackToPrompt
  /\ UNCHANGED <<now, pressed, approvalVars, buttonVars, keyVars, seVars>>

SendTx ==
  /\ pc = "postcheck"
  /\ ClearApprovedCheck
  /\ sent' = signedTx
  /\ BackToPrompt
  /\ UNCHANGED <<now, pressed, buttonVars, keyVars, seVars>>

-----------------------------------------------------------------------------
Tick == ClockTick /\ UNCHANGED <<pressed, wallet>>

User == MoveButton /\ UNCHANGED <<now, wallet>>

(* Power cycle or NRST at any moment: everything in RAM starts over,       *)
(* wrong PINs and the tick included.                                       *)
Reset ==
  /\ now' = 0
  /\ ClearApprovedCheck
  /\ ButtonReset
  /\ LockSession
  /\ RetryReset
  /\ SeReset
  /\ pc' = "boot"
  /\ cmd' = NoText
  /\ privateKey' = FALSE
  /\ signedTx' = NoSummary
  /\ UNCHANGED <<pressed, sent>>

(* What the firmware does next without waiting for anybody. *)
BusyStep ==
  \/ BootStep
  \/ SeInitStep
  \/ Unwrap
  \/ CheckSession
  \/ \E answered \in BOOLEAN : AskSecureElement(answered)
  \/ CopyKey
  \/ SignTx
  \/ PostcheckFails
  \/ SendTx

HostCommand ==
  \/ \E text \in Texts : Check(text) \/ SignGranted(text) \/ SignRefused(text)
  \/ \E code \in Codes \cup {NoCode} : Confirm(code)
  \/ ButtonInfo
  \/ UnlockInfo
  \/ Lock
  \/ UnlockPin

Next == BusyStep \/ HostCommand \/ Poll \/ Tick \/ User \/ Reset

(* The loop runs on whenever it is not waiting for a byte: every call it   *)
(* makes returns.                                                          *)
Spec == Init /\ [][Next]_vars /\ WF_vars(BusyStep)
=============================================================================
