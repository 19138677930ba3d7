-------------------------- MODULE WalletUartProofs --------------------------
(* Theorems about the whole firmware, for every value of the constants:    *)
(* its types, where its secrets are, that it keeps the promise of          *)
(* SigningGate, that it uses its components as they are specified, and     *)
(* that it signs what the user was shown and consented to.                 *)
EXTENDS WalletUartHistory, ClockProofs

LEMMA RetryDelayIsTick == RetryDelay \in Ticks
  BY KeyProviderAssumption, TickModAssumption DEF Ticks

-----------------------------------------------------------------------------
(* The components' operations, as the loop uses them.                      *)

(* Anything the loop does to the approval statics. *)
ApprovalStep ==
  \/ UNCHANGED approvalVars
  \/ ClearApprovedCheck
  \/ ExpireApprovedCheckIfNeeded
  \/ \E s \in Summaries \cup {NoSummary} : RecordApprovedCheck(s)
  \/ ConfirmApprovedCheck
  \/ \E code \in Codes \cup {NoCode} : ConfirmApprovedCheckCode(code)
  \/ \E text \in Texts : SignMatchesApprovedCheckText(text)

(* ... comes down to these five: an approval is kept, wiped, recorded, or  *)
(* confirmed.                                                              *)
LEMMA ApprovalStepCases ==
  ASSUME ApprovalStep
  PROVE  \/ UNCHANGED approvalVars
         \/ ClearApprovedCheck
         \/ \E s \in Summaries : s # NoSummary /\ RecordApprovedCheck(s)
         \/ pending /\ MarkConfirmed
<1>a. ExpireApprovedCheckIfNeeded => UNCHANGED approvalVars \/ ClearApprovedCheck
  BY DEF ExpireApprovedCheckIfNeeded
<1>1. CASE \E s \in Summaries \cup {NoSummary} : RecordApprovedCheck(s)
  BY <1>1 DEF RecordApprovedCheck
<1>2. CASE ConfirmApprovedCheck
  BY <1>2, <1>a DEF ConfirmApprovedCheck, ConfirmSucceeds
<1>3. CASE \E code \in Codes \cup {NoCode} : ConfirmApprovedCheckCode(code)
  BY <1>3, <1>a DEF ConfirmApprovedCheckCode, CodeAccepted, ConfirmSucceeds
<1>4. CASE \E text \in Texts : SignMatchesApprovedCheckText(text)
  BY <1>4, <1>a DEF SignMatchesApprovedCheckText
<1> QED
  BY <1>1, <1>2, <1>3, <1>4, <1>a DEF ApprovalStep

(* ... and so keeps the statics in range and in agreement. *)
LEMMA ApprovalStepKeeps ==
  ASSUME now \in Ticks, ApprovalTypeOK, ApprovalPart, ApprovalStep
  PROVE  ApprovalTypeOK' /\ ApprovalPart'
<1> USE DEF ApprovalTypeOK, ApprovalPart
<1>1. CASE UNCHANGED approvalVars
  BY <1>1 DEF approvalVars
<1>2. CASE ClearApprovedCheck
  BY <1>2, ZeroIsTick DEF ClearApprovedCheck
<1>3. ASSUME NEW s \in Summaries, s # NoSummary, RecordApprovedCheck(s)
      PROVE  ApprovalTypeOK' /\ ApprovalPart'
  BY <1>3, ZeroIsTick DEF RecordApprovedCheck
<1>4. CASE pending /\ MarkConfirmed
  BY <1>4 DEF MarkConfirmed
<1> QED
  BY <1>1, <1>2, <1>3, <1>4, ApprovalStepCases

(* ... and shows the user one of four things. *)
LEMMA ApprovalStepView ==
  ASSUME ApprovalPart, ApprovalStep
  PROVE  \/ UNCHANGED <<approvedCheck, confirmed>>
         \/ approvedCheck' = NoSummary /\ ~confirmed' /\ confirmed' \in BOOLEAN
         \/ approvedCheck' \in Summaries /\ ~confirmed' /\ confirmed' \in BOOLEAN
         \/ /\ approvedCheck # NoSummary
            /\ approvedCheck' = approvedCheck
            /\ confirmed' = TRUE
  BY ApprovalStepCases
     DEF approvalVars, ClearApprovedCheck, RecordApprovedCheck, MarkConfirmed, ApprovalPart

(* Anything the loop does to the key provider outside its slow calls. *)
SessionStep ==
  \/ UNCHANGED keyVars
  \/ LockSession /\ UNCHANGED <<retryVars, callVars>>
  \/ ReportSession

LEMMA SessionStepKeeps ==
  ASSUME now \in Ticks, KeyTypeOK, sessionKey <=> unlocked, SessionStep
  PROVE  /\ KeyTypeOK'
         /\ sessionKey' <=> unlocked'
         /\ UNCHANGED callVars
         /\ unlocked' \in {unlocked, FALSE}
<1> USE DEF KeyTypeOK, sessionVars, retryVars, callVars, keyVars
<1>a. LockSession => /\ sessionKey' = FALSE /\ unlocked' = FALSE
                     /\ startedMs' \in Ticks
  BY ZeroIsTick DEF LockSession
<1>b. ExpireSessionIfNeeded => LockSession \/ UNCHANGED sessionVars
  BY DEF ExpireSessionIfNeeded
<1>c. ASSUME LockSession \/ UNCHANGED sessionVars, retryUntil' \in Ticks,
             UNCHANGED <<pinFailures, callVars>>
      PROVE  /\ KeyTypeOK'
             /\ sessionKey' <=> unlocked'
             /\ UNCHANGED callVars
             /\ unlocked' \in {unlocked, FALSE}
  <2>1. CASE LockSession
    BY <1>a, <1>c, <2>1
  <2>2. CASE UNCHANGED sessionVars
    <3>1. sessionKey' = sessionKey /\ unlocked' = unlocked /\ startedMs' = startedMs
      BY <2>2
    <3>2. KeyTypeOK'
      BY <1>c, <3>1
    <3> QED
      BY <1>c, <3>1, <3>2
  <2> QED
    BY <1>c, <2>1, <2>2
<1> HIDE DEF KeyTypeOK
<1>t. retryUntil \in Ticks
  BY DEF KeyTypeOK
<1>1. CASE UNCHANGED keyVars
  BY <1>1, <1>c, <1>t
<1>2. CASE LockSession /\ UNCHANGED <<retryVars, callVars>>
  BY <1>2, <1>c, <1>t
<1>3. CASE ReportSession
  <2>1. retryUntil' \in Ticks
    BY <1>3, <1>t, ZeroIsTick DEF ReportSession, ForgetRetryIfOver
  <2> QED
    BY <1>3, <1>b, <1>c, <2>1 DEF ReportSession
<1> QED
  BY <1>1, <1>2, <1>3 DEF SessionStep

(* The secure element's statics stay in range. *)
SeStep ==
  \/ UNCHANGED seVars
  \/ BeginInit
  \/ \E ok \in BOOLEAN : SeBootStep(ok)
  \/ \E answered \in BOOLEAN : AuthorizeKeyUse(answered)
  \/ SeReset

LEMMA SeStepKeeps ==
  ASSUME SeTypeOK, SeStep
  PROVE  SeTypeOK'
<1> USE DEF SeTypeOK, seVars
<1>n. /\ 0 \in 0 .. MaxInitAttempts /\ 1 \in 0 .. MaxInitAttempts
      /\ 0 \in 0 .. AuthMod - 1
  BY SecureElementAssumption
<1>1. CASE UNCHANGED seVars
  BY <1>1
<1>2. CASE BeginInit
  BY <1>2, <1>n DEF BeginInit
<1>3. ASSUME NEW ok \in BOOLEAN, SeBootStep(ok) PROVE SeTypeOK'
  <2>1. ASSUME NEW ret \in {-100, -101, -102}, AttemptFails(ret) PROVE SeTypeOK'
    <3>1. initAttempts' \in 0 .. MaxInitAttempts
      BY <2>1, SecureElementAssumption DEF AttemptFails
    <3> QED
      BY <2>1, <3>1 DEF AttemptFails
  <2>2. CASE LtInit(ok)
    <3>1. CASE AttemptFails(-100)
      BY <2>1, <3>1
    <3>2. CASE AttemptGoesOn("mode") /\ handleOpen' = TRUE
      BY <3>2 DEF AttemptGoesOn
    <3> QED
      BY <2>2, <3>1, <3>2 DEF LtInit
  <2>3. CASE LtGetMode(ok)
    <3>1. CASE AttemptFails(-101)
      BY <2>1, <3>1
    <3>2. CASE AttemptGoesOn("chip_id") /\ UNCHANGED handleOpen
      BY <3>2 DEF AttemptGoesOn
    <3> QED
      BY <2>3, <3>1, <3>2 DEF LtGetMode
  <2>4. CASE LtGetChipId(ok)
    BY <2>1, <2>4 DEF LtGetChipId
  <2> QED
    BY <1>3, <2>2, <2>3, <2>4 DEF SeBootStep
<1>4. ASSUME NEW answered \in BOOLEAN, AuthorizeKeyUse(answered) PROVE SeTypeOK'
  <2>1. authCount' \in 0 .. AuthMod - 1
    BY <1>4, SecureElementAssumption DEF AuthorizeKeyUse
  <2> QED
    BY <1>4, <2>1 DEF AuthorizeKeyUse
<1>5. CASE SeReset
  BY <1>5, <1>n DEF SeReset
<1> QED
  BY <1>1, <1>2, <1>3, <1>4, <1>5 DEF SeStep

-----------------------------------------------------------------------------
(* The inductive invariant of the whole firmware.                          *)
IInv == TypeOK /\ ApprovalPart /\ SignPart /\ KeyPart

LEMMA InitIInv == Init => IInv
<1> SUFFICES ASSUME Init PROVE IInv
  OBVIOUS
<1>1. ApprovalTypeOK /\ ButtonTypeOK
  BY ZeroIsTick DEF Init, ApprovalInit, ButtonInit, ApprovalTypeOK, ButtonTypeOK
<1>2. KeyTypeOK
  <2>1. 0 \in 0 .. FailMax
    BY KeyProviderAssumption
  <2> QED
    BY <2>1, ZeroIsTick DEF Init, KeyInit, KeyTypeOK
<1>3. SeTypeOK
  <2>1. 0 \in 0 .. MaxInitAttempts /\ 0 \in 0 .. AuthMod - 1
    BY SecureElementAssumption
  <2> QED
    BY <2>1 DEF Init, SeInit, SeTypeOK
<1>4. UartTypeOK
  BY DEF Init, UartInit, UartTypeOK
<1>5. TypeOK
  BY <1>1, <1>2, <1>3, <1>4, ZeroIsTick DEF Init, ClockInit, TypeOK
<1>6. ApprovalPart /\ SignPart
  BY DEF Init, ApprovalInit, UartInit, ApprovalPart, SignPart
<1>7. KeyPart
  BY DEF Init, KeyInit, UartInit, KeyPart
<1> QED
  BY <1>5, <1>6, <1>7 DEF IInv

(* A command served entirely at the prompt, and a sample of the button.    *)
LEMMA PromptStepKeeps ==
  ASSUME IInv, pc = "read", ApprovalStep, SessionStep, ButtonTypeOK',
         UNCHANGED <<now, seVars, uartVars>>
  PROVE  IInv'
<1>1. ApprovalTypeOK' /\ ApprovalPart'
  BY ApprovalStepKeeps DEF IInv, TypeOK
<1>2. /\ KeyTypeOK'
      /\ sessionKey' <=> unlocked'
      /\ UNCHANGED callVars
      /\ unlocked' \in {unlocked, FALSE}
  BY SessionStepKeeps DEF IInv, TypeOK, KeyPart
<1>3. SeTypeOK'
  BY SeStepKeeps DEF IInv, TypeOK, SeStep
<1>4. UNCHANGED <<pc, cmd, privateKey, signedTx, sent>>
  BY DEF uartVars
<1>5. UartTypeOK'
  BY <1>4 DEF IInv, TypeOK, UartTypeOK
<1>6. TypeOK'
  BY <1>1, <1>2, <1>3, <1>5 DEF IInv, TypeOK
<1>7. SignPart'
  BY <1>4 DEF SignPart
<1>8. KeyPart'
  BY <1>2, <1>4 DEF IInv, KeyPart, callVars
<1> QED
  BY <1>1, <1>6, <1>7, <1>8 DEF IInv

LEMMA PollKeeps ==
  ASSUME now \in Ticks, ButtonTypeOK, UNCHANGED pressed, PollButton
  PROVE  ButtonTypeOK' /\ ApprovalStep
<1>1. prevPressed' \in BOOLEAN /\ lastMs' \in Ticks /\ pressed' \in BOOLEAN
  BY DEF PollButton, ButtonTypeOK
<1>2. armed' \in BOOLEAN
  BY DEF PollButton, ButtonTypeOK
<1>3. ApprovalStep
  BY DEF PollButton, ApprovalStep
<1> QED
  BY <1>1, <1>2, <1>3 DEF ButtonTypeOK

(* The prompt's own steps are all of that kind.                            *)
LEMMA PromptSteps ==
  ASSUME IInv,
         \/ Poll
         \/ \E text \in Texts : Check(text) \/ SignRefused(text)
         \/ \E code \in Codes \cup {NoCode} : Confirm(code)
         \/ ButtonInfo
         \/ UnlockInfo
         \/ Lock
  PROVE  /\ pc = "read"
         /\ ApprovalStep
         /\ SessionStep
         /\ ButtonTypeOK'
         /\ UNCHANGED <<now, seVars, uartVars>>
<1> USE DEF IInv, TypeOK
<1>b. UNCHANGED <<pressed, buttonVars>> => ButtonTypeOK'
  BY DEF ButtonTypeOK, buttonVars
<1>k. UNCHANGED sessionVars /\ UNCHANGED <<retryVars, callVars>>
        => UNCHANGED keyVars
  BY DEF keyVars
<1>1. CASE Poll
  BY <1>1, PollKeeps DEF Poll, SessionStep
<1>2. ASSUME NEW text \in Texts, Check(text)
      PROVE  /\ pc = "read" /\ ApprovalStep /\ SessionStep
             /\ UNCHANGED <<now, pressed, buttonVars, seVars, uartVars>>
  <2>1. CheckSummary[text] \in Summaries \cup {NoSummary}
    BY ApprovalAssumption
  <2>2. SessionStep
    BY <1>2, <1>k DEF Check, SessionStep
  <2> QED
    BY <1>2, <2>1, <2>2 DEF Check, ApprovalStep
<1>3. ASSUME NEW text \in Texts, SignRefused(text)
      PROVE  /\ pc = "read" /\ ApprovalStep /\ SessionStep
             /\ UNCHANGED <<now, pressed, buttonVars, seVars, uartVars>>
  BY <1>3 DEF SignRefused, ApprovalStep, SessionStep
<1>4. ASSUME NEW code \in Codes \cup {NoCode}, Confirm(code)
      PROVE  /\ pc = "read" /\ ApprovalStep /\ SessionStep
             /\ UNCHANGED <<now, pressed, buttonVars, seVars, uartVars>>
  BY <1>4 DEF Confirm, ApprovalStep, SessionStep
<1>5. ASSUME ButtonInfo \/ UnlockInfo \/ Lock
      PROVE  /\ pc = "read" /\ ApprovalStep /\ SessionStep
             /\ UNCHANGED <<now, pressed, buttonVars, seVars, uartVars>>
  BY <1>5 DEF ButtonInfo, UnlockInfo, Lock, ApprovalStep, SessionStep
<1> QED
  BY <1>1, <1>2, <1>3, <1>4, <1>5, <1>b

(* The tick interrupt and the user's finger.                               *)
LEMMA OutsideStepKeeps ==
  ASSUME IInv, now' \in Ticks, pressed' \in BOOLEAN, UNCHANGED wallet
  PROVE  IInv'
<1> USE DEF IInv, TypeOK, wallet, uartVars
<1>1. ApprovalTypeOK' /\ ApprovalPart'
  BY ApprovalStepKeeps DEF ApprovalStep, ApprovalTypeOK, ApprovalPart, approvalVars
<1>2. ButtonTypeOK'
  BY DEF ButtonTypeOK, buttonVars
<1>3. KeyTypeOK' /\ KeyPart'
  BY DEF KeyTypeOK, KeyPart, keyVars, sessionVars, retryVars, callVars
<1>4. SeTypeOK'
  BY DEF SeTypeOK, seVars
<1>5. UartTypeOK'
  BY DEF UartTypeOK
<1>6. SignPart'
  BY DEF SignPart, approvalVars
<1> QED
  BY <1>1, <1>2, <1>3, <1>4, <1>5, <1>6

(* Booting touches the secure element and the pc.                          *)
LEMMA BootKeeps ==
  ASSUME IInv, BootStep \/ SeInitStep
  PROVE  IInv'
<1> USE DEF IInv, TypeOK
<1>1. /\ SeStep
      /\ pc \in {"boot", "se_init"} /\ pc' \in {"halt", "se_init", "read"}
      /\ UNCHANGED <<now, pressed, approvalVars, buttonVars, keyVars,
                     cmd, privateKey, signedTx, sent>>
  BY DEF BootStep, SeInitStep, SeStep
<1>2. SeTypeOK'
  BY <1>1, SeStepKeeps
<1>3. ApprovalTypeOK' /\ ApprovalPart' /\ ButtonTypeOK'
  BY <1>1 DEF ApprovalTypeOK, ApprovalPart, ButtonTypeOK, approvalVars, buttonVars
<1>4. KeyTypeOK'
  BY <1>1 DEF KeyTypeOK, keyVars, sessionVars, retryVars, callVars
<1>5. KeyPart'
  BY <1>1 DEF KeyPart, keyVars, sessionVars, callVars
<1>6. UartTypeOK' /\ SignPart'
  BY <1>1 DEF UartTypeOK, SignPart
<1> QED
  BY <1>1, <1>2, <1>3, <1>4, <1>5, <1>6

(* The key derivation: the session is closed while it runs.                *)
LEMMA UnlockKeeps ==
  ASSUME IInv, UnlockPin \/ Unwrap
  PROVE  IInv'
<1> USE DEF IInv, TypeOK
<1>1. /\ UNCHANGED <<now, pressed, approvalVars, buttonVars, seVars,
                     cmd, privateKey, signedTx, sent>>
      /\ pc' \in {"kdf", "read"} /\ pc \in {"read", "kdf"}
  BY DEF UnlockPin, Unwrap
<1>2. ApprovalTypeOK' /\ ApprovalPart' /\ ButtonTypeOK' /\ SeTypeOK'
  BY <1>1 DEF ApprovalTypeOK, ApprovalPart, ButtonTypeOK, SeTypeOK,
              approvalVars, buttonVars, seVars
<1>3. UartTypeOK' /\ SignPart'
  BY <1>1 DEF UartTypeOK, SignPart
<1>4. KeyTypeOK' /\ KeyPart'
  <2>1. CASE UnlockPin
    <3>1. KeyTypeOK'
      BY <1>1, <2>1, ZeroIsTick DEF UnlockPin, BeginUnlock, LockSession, KeyTypeOK
    <3>2. KeyPart'
      BY <1>1, <2>1 DEF UnlockPin, BeginUnlock, LockSession, KeyPart
    <3> QED
      BY <3>1, <3>2
  <2>2. CASE Unwrap /\ UnwrapFails
    <3>1. pinFailures' \in 0 .. FailMax
      BY <2>2, KeyProviderAssumption DEF UnwrapFails, KeyTypeOK
    <3>2. retryUntil' \in Ticks
      BY <2>2, LaterType, RetryDelayIsTick DEF UnwrapFails, KeyTypeOK
    <3>3. KeyTypeOK'
      BY <2>2, <3>1, <3>2, ZeroIsTick DEF UnwrapFails, LockSession, KeyTypeOK
    <3>4. KeyPart'
      BY <1>1, <2>2 DEF Unwrap, UnwrapFails, LockSession, KeyPart
    <3> QED
      BY <3>3, <3>4
  <2>3. CASE Unwrap /\ UnwrapSucceeds
    <3>1. 0 \in 0 .. FailMax
      BY KeyProviderAssumption
    <3>2. KeyTypeOK'
      BY <2>3, <3>1, ZeroIsTick DEF UnwrapSucceeds, KeyTypeOK
    <3>3. KeyPart'
      BY <1>1, <2>3 DEF Unwrap, UnwrapSucceeds, KeyPart
    <3> QED
      BY <3>2, <3>3
  <2> QED
    BY <2>1, <2>2, <2>3 DEF Unwrap
<1> QED
  BY <1>1, <1>2, <1>3, <1>4

(* A SIGN on its way from the gate to the answer.                          *)
LEMMA SignGrantedKeeps ==
  ASSUME IInv, NEW text \in Texts, SignGranted(text)
  PROVE  /\ IInv'
         /\ UNCHANGED approvalVars
         /\ confirmed
<1> USE DEF IInv, TypeOK
<1>1. /\ pending /\ ~ApprovalExpired /\ confirmed
      /\ approvedCheck = CheckSummary[text]
  BY DEF SignGranted, SignPasses, SignMatchesApproved
<1>2. UNCHANGED approvalVars
  BY <1>1 DEF SignGranted, SignMatchesApprovedCheckText, ExpireApprovedCheckIfNeeded
<1>3. ApprovalTypeOK' /\ ApprovalPart'
  BY <1>2 DEF ApprovalTypeOK, ApprovalPart, approvalVars
<1>4. ButtonTypeOK' /\ SeTypeOK'
  BY DEF SignGranted, ButtonTypeOK, SeTypeOK, buttonVars, seVars
<1>5. KeyTypeOK' /\ KeyPart'
  BY DEF SignGranted, KeyTypeOK, KeyPart, keyVars, sessionVars, retryVars, callVars
<1>6. UartTypeOK'
  BY DEF SignGranted, UartTypeOK
<1>7. SignPart'
  BY <1>1, <1>2 DEF SignGranted, SignPart, approvalVars
<1> QED
  BY <1>1, <1>2, <1>3, <1>4, <1>5, <1>6, <1>7 DEF SignGranted

(* From the gate on, the rest of the pipeline is free of the gate's and    *)
(* the button's state until the transaction is sent.                       *)
KeyCall ==
  \/ CheckSession
  \/ \E answered \in BOOLEAN : AskSecureElement(answered)
  \/ CopyKey

LEMMA KeyCallKeeps ==
  ASSUME IInv, KeyCall
  PROVE  IInv'
<1> USE DEF IInv, TypeOK
<1>1. /\ UNCHANGED <<now, pressed, approvalVars, buttonVars, sent>>
      /\ pc \in {"key", "authorize", "copy"}
      /\ \/ BackToPrompt
         \/ UNCHANGED <<cmd, signedTx>> /\ pc' \in {"authorize", "copy", "sign"}
  BY DEF KeyCall, CheckSession, AskSecureElement, CopyKey
<1>2. ApprovalTypeOK' /\ ApprovalPart' /\ ButtonTypeOK'
  BY <1>1 DEF ApprovalTypeOK, ApprovalPart, ButtonTypeOK, approvalVars, buttonVars
<1>3. SeTypeOK'
  BY SeStepKeeps DEF KeyCall, CheckSession, AskSecureElement, CopyKey, SeStep
<1>4. SignPart'
  BY <1>1 DEF BackToPrompt, SignPart, approvalVars
<1>5. UartTypeOK'
  BY <1>1 DEF KeyCall, CheckSession, AskSecureElement, CopyKey, BackToPrompt, UartTypeOK
<1>s. ~unwrapping /\ signedTx = NoSummary /\ ~privateKey
  BY <1>1 DEF KeyPart
<1>6. CASE CheckSession
  <2>1. /\ sessionKey' \in BOOLEAN /\ unlocked' \in BOOLEAN /\ startedMs' \in Ticks
        /\ sessionKey' <=> unlocked'
        /\ KeyReleasable => unlocked'
    BY <1>6, ZeroIsTick DEF CheckSession, BeginRelease, ExpireSessionIfNeeded, LockSession,
       KeyReleasable, sessionVars, KeyTypeOK, KeyPart
  <2>2. UNCHANGED <<retryVars, unwrapping, unwrapMs>> /\ releasing' = KeyReleasable
    BY <1>6 DEF CheckSession, BeginRelease
  <2>3. KeyReleasable \in BOOLEAN
    BY DEF KeyReleasable
  <2>4. KeyTypeOK'
    BY <2>1, <2>2, <2>3 DEF KeyTypeOK, retryVars
  <2>5. KeyPart'
    <3>1. CASE KeyReleasable
      <4>1. pc' = "authorize" /\ UNCHANGED <<privateKey, signedTx>> /\ releasing' = TRUE
        BY <1>6, <2>2, <2>3, <3>1 DEF CheckSession
      <4> QED
        BY <1>s, <2>1, <2>2, <3>1, <4>1 DEF KeyPart
    <3>2. CASE ~KeyReleasable
      <4>1. pc' = "read" /\ ~privateKey' /\ signedTx' = NoSummary /\ releasing' = FALSE
        BY <1>6, <2>2, <2>3, <3>2 DEF CheckSession, BackToPrompt
      <4> QED
        BY <1>s, <2>1, <2>2, <4>1 DEF KeyPart
    <3> QED
      BY <3>1, <3>2
  <2> QED
    BY <1>1, <1>2, <1>3, <1>4, <1>5, <2>4, <2>5
<1>7. ASSUME NEW answered \in BOOLEAN, AskSecureElement(answered)
      PROVE  IInv'
  <2>1. KeyTypeOK'
    BY <1>7 DEF AskSecureElement, RefuseKey, KeyTypeOK, keyVars, sessionVars, retryVars,
       callVars
  <2>2. CASE Authorized(answered)
    <3>1. pc = "authorize" /\ pc' = "copy" /\ UNCHANGED <<keyVars, privateKey, signedTx>>
      BY <1>7, <2>2 DEF AskSecureElement
    <3>2. KeyPart'
      BY <1>s, <3>1 DEF KeyPart, keyVars, sessionVars, callVars
    <3> QED
      BY <1>1, <1>2, <1>3, <1>4, <1>5, <2>1, <3>2
  <2>3. CASE ~Authorized(answered)
    <3>1. pc' = "read" /\ ~privateKey' /\ signedTx' = NoSummary
      BY <1>7, <2>3 DEF AskSecureElement, BackToPrompt
    <3>2. releasing' = FALSE /\ UNCHANGED <<sessionKey, unlocked, unwrapping>>
      BY <1>7, <2>3 DEF AskSecureElement, RefuseKey, sessionVars
    <3>3. KeyPart'
      BY <1>s, <3>1, <3>2 DEF KeyPart
    <3> QED
      BY <1>1, <1>2, <1>3, <1>4, <1>5, <2>1, <3>3
  <2> QED
    BY <2>2, <2>3
<1>8. CASE CopyKey
  <2>1. KeyTypeOK'
    BY <1>8, ZeroIsTick DEF CopyKey, ReleaseKey, LockSession, KeyTypeOK, retryVars
  <2>2. KeyPart'
    BY <1>s, <1>8 DEF CopyKey, ReleaseKey, LockSession, KeyPart
  <2> QED
    BY <1>1, <1>2, <1>3, <1>4, <1>5, <2>1, <2>2
<1> QED
  BY <1>6, <1>7, <1>8 DEF KeyCall

LEMMA AnswerKeeps ==
  ASSUME IInv, SignTx \/ PostcheckFails \/ SendTx
  PROVE  IInv'
<1> USE DEF IInv, TypeOK
<1>1. /\ UNCHANGED <<now, pressed, buttonVars, keyVars, seVars>>
      /\ pc \in {"sign", "postcheck"} /\ pc' \in {"read", "postcheck"}
      /\ ~privateKey' /\ privateKey' \in BOOLEAN
      /\ pc' = "read" => signedTx' = NoSummary /\ cmd' = NoText
      /\ pc' = "postcheck" => /\ signedTx' = CheckSummary[cmd] /\ cmd' = cmd
                              /\ UNCHANGED approvalVars
  BY DEF SignTx, PostcheckFails, SendTx, BackToPrompt
<1>2. ApprovalStep
  BY DEF SignTx, PostcheckFails, SendTx, ApprovalStep
<1>3. ApprovalTypeOK' /\ ApprovalPart'
  BY <1>2, ApprovalStepKeeps
<1>4. ButtonTypeOK' /\ SeTypeOK' /\ KeyTypeOK'
  BY <1>1 DEF ButtonTypeOK, SeTypeOK, KeyTypeOK, buttonVars, seVars, keyVars,
              sessionVars, retryVars, callVars
<1>5. KeyPart'
  BY <1>1 DEF KeyPart, keyVars, sessionVars, callVars
<1>6. sent' \in Summaries \cup {NoSummary}
  BY DEF SignTx, PostcheckFails, SendTx, UartTypeOK
<1>7. approvedCheck = CheckSummary[cmd] /\ confirmed /\ cmd \in Texts
  BY <1>1 DEF SignPart
<1>8. UartTypeOK'
  BY <1>1, <1>6, <1>7 DEF UartTypeOK, ApprovalTypeOK
<1>9. SignPart'
  BY <1>1, <1>7 DEF SignPart, approvalVars
<1> QED
  BY <1>1, <1>3, <1>4, <1>5, <1>8, <1>9

LEMMA ResetKeeps ==
  ASSUME IInv, Reset
  PROVE  IInv'
<1> USE DEF IInv, TypeOK
<1>1. ApprovalTypeOK' /\ ApprovalPart'
  BY ApprovalStepKeeps DEF Reset, ApprovalStep
<1>2. ButtonTypeOK' /\ now' \in Ticks
  BY ZeroIsTick DEF Reset, ButtonReset, ButtonTypeOK
<1>3. KeyTypeOK' /\ KeyPart'
  <2>1. 0 \in 0 .. FailMax
    BY KeyProviderAssumption
  <2> QED
    BY <2>1, ZeroIsTick DEF Reset, RetryReset, LockSession, KeyTypeOK, KeyPart
<1>4. SeTypeOK'
  BY SeStepKeeps DEF Reset, SeStep
<1>5. UartTypeOK' /\ SignPart'
  BY DEF Reset, UartTypeOK, SignPart
<1> QED
  BY <1>1, <1>2, <1>3, <1>4, <1>5

LEMMA IInvInductive == IInv /\ [Next]_vars => IInv'
<1> SUFFICES ASSUME IInv, [Next]_vars PROVE IInv'
  OBVIOUS
<1>t. now \in Ticks /\ pressed \in BOOLEAN
  BY DEF IInv, TypeOK, ButtonTypeOK
<1>1. CASE BusyStep
  BY <1>1, BootKeeps, UnlockKeeps, KeyCallKeeps, AnswerKeeps DEF BusyStep, KeyCall
<1>2. CASE HostCommand
  <2>1. ASSUME NEW text \in Texts, SignGranted(text) PROVE IInv'
    BY <2>1, SignGrantedKeeps
  <2>2. CASE UnlockPin
    BY <2>2, UnlockKeeps
  <2> QED
    BY <1>2, <2>1, <2>2, PromptSteps, PromptStepKeeps DEF HostCommand
<1>3. CASE Poll
  BY <1>3, PromptSteps, PromptStepKeeps
<1>4. CASE Tick
  BY <1>4, <1>t, LaterIsTick, OutsideStepKeeps DEF Tick, ClockTick
<1>5. CASE User
  BY <1>5, <1>t, OutsideStepKeeps DEF User, MoveButton
<1>6. CASE Reset
  BY <1>6, ResetKeeps
<1>7. CASE UNCHANGED vars
  BY <1>7, <1>t, OutsideStepKeeps DEF vars
<1> QED
  BY <1>1, <1>2, <1>3, <1>4, <1>5, <1>6, <1>7 DEF Next

LEMMA IInvHolds == Spec => []IInv
  BY InitIInv, IInvInductive, PTL DEF Spec

(* The type invariant of the firmware, resets and tick wraps included.     *)
THEOREM WalletTypes == Spec => []TypeOK
<1>1. IInv => TypeOK
  BY DEF IInv
<1> QED
  BY <1>1, IInvHolds, PTL

(* The private key is in RAM in one place at a time, and neither it nor a  *)
(* signed transaction is left over at the prompt.                          *)
THEOREM SecretsInPlaceHolds == Spec => []SecretsInPlace
<1>1. IInv => SecretsInPlace
  BY DEF IInv, KeyPart, SecretsInPlace
<1> QED
  BY <1>1, IInvHolds, PTL

(* The secure element authorizes only inside a SIGN of the approved and    *)
(* confirmed text, with an open session.                                   *)
THEOREM AuthorizationBehindGateHolds == Spec => AuthorizationBehindGate
<1>1. IInv /\ [Next]_vars
        => [authCount' # authCount /\ pc' # "boot"
              => /\ pc = "authorize"
                 /\ confirmed /\ approvedCheck = CheckSummary[cmd]
                 /\ unlocked]_vars
  <2> SUFFICES ASSUME IInv, Next, authCount' # authCount, pc' # "boot"
               PROVE  /\ pc = "authorize"
                      /\ confirmed /\ approvedCheck = CheckSummary[cmd]
                      /\ unlocked
    OBVIOUS
  <2>b. UNCHANGED seVars => authCount' = authCount
    BY DEF seVars
  <2>1. CASE BootStep \/ SeInitStep
    <3>1. ASSUME NEW ok \in BOOLEAN, SeBootStep(ok) PROVE authCount' = authCount
      BY <3>1 DEF SeBootStep, LtInit, LtGetMode, LtGetChipId, AttemptGoesOn, AttemptFails
    <3> QED
      BY <2>1, <2>b, <3>1 DEF BootStep, SeInitStep, BeginInit
  <2>2. ASSUME NEW answered \in BOOLEAN, AskSecureElement(answered)
        PROVE  /\ pc = "authorize"
               /\ confirmed /\ approvedCheck = CheckSummary[cmd]
               /\ unlocked
    BY <2>2 DEF AskSecureElement, IInv, SignPart, KeyPart
  <2>3. CASE Unwrap \/ CheckSession \/ CopyKey \/ SignTx \/ PostcheckFails \/ SendTx
    BY <2>3, <2>b DEF Unwrap, CheckSession, CopyKey, SignTx, PostcheckFails, SendTx
  <2>4. CASE HostCommand
    <3>1. ASSUME NEW text \in Texts, Check(text) \/ SignGranted(text) \/ SignRefused(text)
          PROVE  authCount' = authCount
      BY <3>1, <2>b DEF Check, SignGranted, SignRefused
    <3>2. ASSUME NEW code \in Codes \cup {NoCode}, Confirm(code)
          PROVE  authCount' = authCount
      BY <3>2, <2>b DEF Confirm
    <3>3. CASE ButtonInfo \/ UnlockInfo \/ Lock \/ UnlockPin
      BY <3>3, <2>b DEF ButtonInfo, UnlockInfo, Lock, UnlockPin
    <3> QED
      BY <2>4, <3>1, <3>2, <3>3 DEF HostCommand
  <2>5. CASE Poll \/ Tick \/ User
    BY <2>5, <2>b DEF Poll, Tick, User, wallet
  <2>6. CASE Reset
    BY <2>6 DEF Reset
  <2> QED
    BY <2>1, <2>2, <2>3, <2>4, <2>5, <2>6 DEF Next, BusyStep
<1> QED
  BY <1>1, IInvHolds, PTL DEF Spec, AuthorizationBehindGate

-----------------------------------------------------------------------------
(* The refinement: what each step of the firmware is to the user.          *)

(* Steps at the prompt leave the loop there. *)
LEMMA PromptStepRefines ==
  ASSUME IInv, pc = "read", ApprovalStep, SessionStep, UNCHANGED uartVars,
         \/ UNCHANGED <<approvedCheck, confirmed>>
         \/ unlocked' = unlocked
         \/ approvedCheck' = NoSummary
  PROVE  [Gate!Next]_Gate!vars
<1>1. Phase = "idle" /\ Phase' = "idle" /\ sent' = sent
  BY DEF Phase, uartVars
<1>2. unlocked' \in {unlocked, FALSE}
  BY SessionStepKeeps DEF IInv, TypeOK, KeyPart
<1>3. CASE UNCHANGED <<approvedCheck, confirmed>>
  BY <1>1, <1>2, <1>3 DEF Gate!Next, Gate!CloseSession, Gate!vars
<1>4. CASE approvedCheck' = NoSummary /\ ~confirmed' /\ confirmed' \in BOOLEAN
  BY <1>1, <1>2, <1>4 DEF Gate!Next, Gate!Withdraw
<1>5. CASE /\ approvedCheck' \in Summaries /\ ~confirmed' /\ confirmed' \in BOOLEAN
           /\ ~ UNCHANGED <<approvedCheck, confirmed>>
  <2>1. unlocked' = unlocked
    BY <1>5, ApprovalAssumption
  <2> QED
    BY <1>1, <1>5, <2>1 DEF Gate!Next, Gate!Show
<1>6. CASE /\ approvedCheck # NoSummary /\ approvedCheck' = approvedCheck
           /\ confirmed' = TRUE
           /\ ~ UNCHANGED <<approvedCheck, confirmed>>
  <2>1. unlocked' = unlocked
    BY <1>6
  <2> QED
    BY <1>1, <1>6, <2>1 DEF Gate!Next, Gate!Approve
<1> QED
  BY <1>3, <1>4, <1>5, <1>6, ApprovalStepView DEF IInv

LEMMA PromptStepsRefine ==
  ASSUME IInv,
         \/ Poll
         \/ \E text \in Texts : Check(text) \/ SignRefused(text)
         \/ \E code \in Codes \cup {NoCode} : Confirm(code)
         \/ ButtonInfo
         \/ UnlockInfo
         \/ Lock
  PROVE  [Gate!Next]_Gate!vars
<1> DEFINE Harmless == \/ UNCHANGED <<approvedCheck, confirmed>>
                       \/ unlocked' = unlocked
                       \/ approvedCheck' = NoSummary
<1>k. UNCHANGED keyVars \/ UNCHANGED sessionVars => unlocked' = unlocked
  BY DEF keyVars, sessionVars
<1>1. Poll => Harmless
  BY <1>k DEF Poll
<1>2. ASSUME NEW text \in Texts, Check(text) PROVE Harmless
  BY <1>2, <1>k DEF Check, RecordApprovedCheck, ClearApprovedCheck
<1>3. ASSUME NEW text \in Texts, SignRefused(text) PROVE Harmless
  <2>1. UNCHANGED approvalVars \/ ClearApprovedCheck
    BY <1>3 DEF SignRefused, SignMatchesApprovedCheckText, ExpireApprovedCheckIfNeeded
  <2> QED
    BY <2>1 DEF approvalVars, ClearApprovedCheck
<1>4. ASSUME NEW code \in Codes \cup {NoCode}, Confirm(code) PROVE Harmless
  BY <1>4, <1>k DEF Confirm
<1>5. ButtonInfo => Harmless
  BY <1>k DEF ButtonInfo
<1>6. UnlockInfo \/ Lock => Harmless
  BY DEF UnlockInfo, Lock, approvalVars
<1>7. Harmless
  BY <1>1, <1>2, <1>3, <1>4, <1>5, <1>6
<1> QED
  BY <1>7, PromptSteps, PromptStepRefines

(* Steps away from the prompt each are one step of the promise. *)
LEMMA BusyStepsRefine ==
  ASSUME IInv, BusyStep
  PROVE  [Gate!Next]_Gate!vars
<1>1. CASE BootStep \/ SeInitStep
  <2>1. Phase = "idle" /\ Phase' = "idle"
    BY <1>1 DEF BootStep, SeInitStep, Phase
  <2>2. UNCHANGED <<approvedCheck, confirmed, unlocked, sent>>
    BY <1>1 DEF BootStep, SeInitStep, approvalVars, keyVars, sessionVars
  <2> QED
    BY <2>1, <2>2 DEF Gate!vars
<1>2. CASE Unwrap
  <2>1. Phase = "idle" /\ Phase' = "idle"
    BY <1>2 DEF Unwrap, Phase
  <2>2. UNCHANGED <<approvedCheck, confirmed, sent>>
    BY <1>2 DEF Unwrap, approvalVars
  <2>3. unlocked' = TRUE \/ unlocked' = FALSE
    BY <1>2 DEF Unwrap, UnwrapFails, UnwrapSucceeds, LockSession
  <2> QED
    BY <2>1, <2>2, <2>3 DEF Gate!Next, Gate!OpenSession, Gate!CloseSession
<1>3. CASE KeyCall
  <2>1. UNCHANGED <<approvedCheck, confirmed, sent>> /\ Phase = "granted"
    BY <1>3 DEF KeyCall, CheckSession, AskSecureElement, CopyKey, approvalVars, Phase
  <2>2. CASE CopyKey
    <3>1. unlocked /\ unlocked' = FALSE
      BY <2>2 DEF CopyKey, ReleaseKey, LockSession, IInv, KeyPart
    <3>2. Phase' = "keyed"
      BY <2>2 DEF CopyKey, Phase
    <3> QED
      BY <2>1, <3>1, <3>2 DEF Gate!Next, Gate!SpendSession
  <2>3. CASE ~CopyKey /\ pc' # "read"
    <3>1. UNCHANGED unlocked
      BY <1>3, <2>3 DEF KeyCall, CheckSession, BeginRelease, KeyReleasable,
                        ExpireSessionIfNeeded, AskSecureElement, BackToPrompt,
                        keyVars, sessionVars
    <3>2. Phase' = "granted"
      BY <1>3, <2>3 DEF KeyCall, CheckSession, AskSecureElement, BackToPrompt, Phase
    <3> QED
      BY <2>1, <3>1, <3>2 DEF Gate!vars
  <2>4. CASE pc' = "read"
    <3>1. unlocked' \in {unlocked, FALSE}
      BY <1>3, <2>4 DEF KeyCall, CheckSession, BeginRelease, ExpireSessionIfNeeded,
                        AskSecureElement, RefuseKey, CopyKey, LockSession, sessionVars
    <3>2. Phase' = "idle"
      BY <2>4 DEF Phase
    <3> QED
      BY <2>1, <3>1, <3>2 DEF Gate!Next, Gate!Abort
  <2> QED
    BY <2>2, <2>3, <2>4
<1>4. CASE SignTx
  <2>1. UNCHANGED <<approvedCheck, confirmed, unlocked, sent>> /\ Phase = "keyed"
    BY <1>4 DEF SignTx, approvalVars, keyVars, sessionVars, Phase
  <2>2. Phase' \in {"signed", "idle"}
    BY <1>4 DEF SignTx, BackToPrompt, Phase
  <2> QED
    BY <2>1, <2>2 DEF Gate!Next, Gate!SignTx, Gate!Abort
<1>5. CASE PostcheckFails
  <2>1. UNCHANGED <<approvedCheck, confirmed, unlocked, sent>>
    BY <1>5 DEF PostcheckFails, approvalVars, keyVars, sessionVars
  <2>2. Phase = "signed" /\ Phase' = "idle"
    BY <1>5 DEF PostcheckFails, BackToPrompt, Phase
  <2> QED
    BY <2>1, <2>2 DEF Gate!Next, Gate!Abort
<1>6. CASE SendTx
  <2>1. sent' = approvedCheck
    BY <1>6 DEF SendTx, IInv, SignPart
  <2>2. approvedCheck' = NoSummary /\ confirmed' = FALSE /\ unlocked' = unlocked
    BY <1>6 DEF SendTx, ClearApprovedCheck, keyVars, sessionVars
  <2>3. Phase = "signed" /\ Phase' = "idle"
    BY <1>6 DEF SendTx, BackToPrompt, Phase
  <2> QED
    BY <2>1, <2>2, <2>3 DEF Gate!Next, Gate!Send
<1> QED
  BY <1>1, <1>2, <1>3, <1>4, <1>5, <1>6 DEF BusyStep, KeyCall

(* The firmware keeps the promise of SigningGate: a transaction that       *)
(* leaves the device is the one shown last and approved since, one per     *)
(* approval and one per PIN session.                                       *)
THEOREM PromiseKept == Spec => KeepsThePromise
<1>1. Init => Gate!Init
  BY DEF Init, ApprovalInit, KeyInit, UartInit, Phase, Gate!Init
<1>2. IInv /\ [Next]_vars => [Gate!Next]_Gate!vars
  <2> SUFFICES ASSUME IInv, [Next]_vars PROVE [Gate!Next]_Gate!vars
    OBVIOUS
  <2>1. CASE BusyStep
    BY <2>1, BusyStepsRefine
  <2>2. ASSUME NEW text \in Texts, SignGranted(text) PROVE Gate!Next
    <3>1. UNCHANGED <<approvedCheck, confirmed, unlocked, sent>> /\ confirmed
      BY <2>2, SignGrantedKeeps DEF SignGranted, approvalVars, keyVars, sessionVars
    <3>2. Phase = "idle" /\ Phase' = "granted"
      BY <2>2 DEF SignGranted, Phase
    <3> QED
      BY <3>1, <3>2 DEF Gate!Next, Gate!Grant
  <2>3. CASE UnlockPin
    <3>1. UNCHANGED <<approvedCheck, confirmed, sent>> /\ unlocked' = FALSE
      BY <2>3 DEF UnlockPin, BeginUnlock, LockSession, approvalVars
    <3>2. Phase = "idle" /\ Phase' = "idle"
      BY <2>3 DEF UnlockPin, Phase
    <3> QED
      BY <3>1, <3>2 DEF Gate!Next, Gate!CloseSession
  <2>4. CASE HostCommand
    BY <2>2, <2>3, <2>4, PromptStepsRefine DEF HostCommand
  <2>5. CASE Poll
    BY <2>5, PromptStepsRefine
  <2>6. CASE Tick \/ User \/ UNCHANGED vars
    <3>1. UNCHANGED <<approvedCheck, confirmed, unlocked, sent, pc>>
      BY <2>6 DEF Tick, User, vars, wallet, approvalVars, keyVars, sessionVars, uartVars
    <3> QED
      BY <3>1 DEF Gate!vars, Phase
  <2>7. CASE Reset
    <3>1. Phase' = "idle" /\ sent' = sent
      BY <2>7 DEF Reset, Phase
    <3>2. approvedCheck' = NoSummary /\ confirmed' = FALSE /\ unlocked' = FALSE
      BY <2>7 DEF Reset, ClearApprovedCheck, LockSession
    <3> QED
      BY <3>1, <3>2 DEF Gate!Next, Gate!PowerLoss
  <2> QED
    BY <2>1, <2>4, <2>5, <2>6, <2>7 DEF Next
<1> QED
  BY <1>1, <1>2, IInvHolds, PTL DEF Spec, Gate!Spec, KeepsThePromise

-----------------------------------------------------------------------------
(* The history variables: with them the firmware is still the firmware.    *)
LEMMA HistoryStepIsStep == HistoryNext => Next
  BY DEF HistoryNext, Unnoted, Next, BusyStep, HostCommand

LEMMA HistoryIInv == HistorySpec => []IInv
<1>1. HistoryInit => IInv
  BY InitIInv DEF HistoryInit
<1>2. IInv /\ [HistoryNext]_allVars => IInv'
  BY HistoryStepIsStep, IInvInductive DEF allVars
<1> QED
  BY <1>1, <1>2, PTL DEF HistorySpec

(* The operations of the gate are the same to it and to the loop. *)
LEMMA GateOperations ==
  /\ TheGate!ClockTick <=> ClockTick
  /\ TheGate!ClearApprovedCheck <=> ClearApprovedCheck
  /\ TheGate!ExpireApprovedCheckIfNeeded <=> ExpireApprovedCheckIfNeeded
  /\ \A text : TheGate!RecordApprovedCheck(CheckSummary[text])
                 <=> RecordApprovedCheck(CheckSummary[text])
  /\ TheGate!ConfirmSucceeds <=> ConfirmSucceeds
  /\ TheGate!ConfirmApprovedCheck <=> ConfirmApprovedCheck
  /\ \A code : TheGate!CodeAccepted(code) <=> CodeAccepted(code)
  /\ \A code : TheGate!ConfirmApprovedCheckCode(code) <=> ConfirmApprovedCheckCode(code)
  /\ \A text : TheGate!SignMatchesApprovedCheckText(text)
                 <=> SignMatchesApprovedCheckText(text)
<1> USE DEF TheGate!ClearApprovedCheck, ClearApprovedCheck
<1>0. /\ TheGate!ClockTick <=> ClockTick
      /\ TheGate!ApprovalExpired <=> ApprovalExpired
      /\ TheGate!MarkConfirmed <=> MarkConfirmed
      /\ UNCHANGED TheGate!approvalVars <=> UNCHANGED approvalVars
  BY DEF TheGate!ClockTick, ClockTick, TheGate!Later, Later,
         TheGate!ApprovalExpired, ApprovalExpired, TheGate!Elapsed, Elapsed,
         TheGate!ApprovalBase, ApprovalBase, TheGate!MarkConfirmed, MarkConfirmed,
         TheGate!approvalVars, approvalVars
<1>1. /\ TheGate!ExpireApprovedCheckIfNeeded <=> ExpireApprovedCheckIfNeeded
      /\ TheGate!ConfirmSucceeds <=> ConfirmSucceeds
  BY <1>0 DEF TheGate!ExpireApprovedCheckIfNeeded, ExpireApprovedCheckIfNeeded,
              TheGate!ConfirmSucceeds, ConfirmSucceeds
<1>2. \A text : TheGate!RecordApprovedCheck(CheckSummary[text])
                  <=> RecordApprovedCheck(CheckSummary[text])
  BY DEF TheGate!RecordApprovedCheck, RecordApprovedCheck
<1>3. TheGate!ConfirmApprovedCheck <=> ConfirmApprovedCheck
  BY <1>0, <1>1 DEF TheGate!ConfirmApprovedCheck, ConfirmApprovedCheck
<1>4. \A code : TheGate!CodeAccepted(code) <=> CodeAccepted(code)
  BY <1>1 DEF TheGate!CodeAccepted, CodeAccepted
<1>5. \A code : TheGate!ConfirmApprovedCheckCode(code) <=> ConfirmApprovedCheckCode(code)
  BY <1>0, <1>1, <1>4 DEF TheGate!ConfirmApprovedCheckCode, ConfirmApprovedCheckCode
<1>6. \A text : TheGate!SignMatchesApprovedCheckText(text)
                  <=> SignMatchesApprovedCheckText(text)
  BY <1>1 DEF TheGate!SignMatchesApprovedCheckText, SignMatchesApprovedCheckText
<1> QED
  BY <1>0, <1>1, <1>2, <1>3, <1>4, <1>5, <1>6

(* Whatever changes nothing the gate knows of is a stuttering step of it. *)
LEMMA GateStutters ==
  ASSUME UNCHANGED <<now, approvalVars, gateHistory>>
  PROVE  UNCHANGED TheGate!vars
  BY DEF approvalVars, gateHistory, TheGate!vars, TheGate!approvalVars, TheGate!historyVars

LEMMA GateStep ==
  ASSUME IInv, HistoryNext
  PROVE  [TheGate!Next]_TheGate!vars
<1>h. UNCHANGED gateHistory => UNCHANGED TheGate!historyVars
  BY DEF gateHistory, TheGate!historyVars
<1>1. CASE Tick /\ Attended /\ NoteTick
  <2>1. TheGate!Tick
    BY <1>1, GateOperations
       DEF Tick, wallet, approvalVars, Attended, NoteTick, TheGate!Tick, TheGate!approvalVars
  <2> QED
    BY <2>1 DEF TheGate!Next
<1>2. CASE User /\ NoteUser
  BY <1>2, GateStutters DEF User, wallet, NoteUser
<1>3. ASSUME NEW text \in Texts, Check(text), NoteCheck(text) PROVE TheGate!Next
  <2>1. TheGate!Check(text)
    BY <1>3, GateOperations DEF Check, NoteCheck, TheGate!Check
  <2> QED
    BY <2>1 DEF TheGate!Next
<1>4. ASSUME NEW code \in Codes \cup {NoCode}, Confirm(code), NoteCode(code)
      PROVE  TheGate!Next
  <2>1. TheGate!CodeConfirm(code)
    BY <1>4, GateOperations
       DEF Confirm, NoteCode, NoteConsent, TheGate!CodeConfirm, TheGate!NoteConfirmation
  <2> QED
    BY <2>1 DEF TheGate!Next
<1>5. CASE Poll /\ NotePoll
  <2>1. CASE AwaitsConfirmation /\ PressEdge
    <3>1. ConfirmApprovedCheck /\ now' = now
      BY <1>5, <2>1 DEF Poll, PollButton
    <3>2. TheGate!ButtonConfirm
      BY <1>5, <2>1, <3>1, GateOperations
         DEF NotePoll, NoteConsent, TheGate!ButtonConfirm, TheGate!NoteConfirmation
    <3> QED
      BY <3>2 DEF TheGate!Next
  <2>2. CASE ~(AwaitsConfirmation /\ PressEdge)
    <3>1. UNCHANGED <<now, approvalVars>>
      BY <1>5, <2>2 DEF Poll, PollButton
    <3>2. UNCHANGED gateHistory
      BY <1>5, <2>2 DEF NotePoll, gateHistory
    <3> QED
      BY <3>1, <3>2, GateStutters
  <2> QED
    BY <2>1, <2>2
<1>6. CASE UnlockPin /\ NoteAttempt
  BY <1>6, GateStutters DEF UnlockPin, NoteAttempt
<1>7. CASE Unwrap /\ NoteUnwrap
  BY <1>7, GateStutters DEF Unwrap, NoteUnwrap
<1>8. CASE CopyKey /\ NoteRelease
  BY <1>8, GateStutters DEF CopyKey, NoteRelease
<1>9. CASE Reset /\ NoteReset
  <2>1. TheGate!Reset
    BY <1>9, GateOperations DEF Reset, NoteReset, TheGate!Reset
  <2> QED
    BY <2>1 DEF TheGate!Next
<1>10. CASE Unnoted /\ UNCHANGED history
  <2>1. UNCHANGED gateHistory
    BY <1>10 DEF history
  <2>2. CASE \/ BootStep \/ SeInitStep \/ UnlockInfo \/ Lock
             \/ CheckSession \/ \E answered \in BOOLEAN : AskSecureElement(answered)
             \/ SignTx \/ PostcheckFails
    BY <2>1, <2>2, GateStutters
       DEF BootStep, SeInitStep, UnlockInfo, Lock, CheckSession, AskSecureElement, SignTx,
           PostcheckFails
  <2>3. CASE ButtonInfo
    <3>1. TheGate!Query
      BY <1>h, <2>1, <2>3, GateOperations DEF ButtonInfo, TheGate!Query
    <3> QED
      BY <3>1 DEF TheGate!Next
  <2>4. ASSUME NEW text \in Texts, SignGranted(text) \/ SignRefused(text)
        PROVE  TheGate!Next
    <3>1. TheGate!Sign(text)
      BY <1>h, <2>1, <2>4, GateOperations DEF SignGranted, SignRefused, TheGate!Sign
    <3> QED
      BY <3>1 DEF TheGate!Next
  <2> QED
    BY <1>10, <2>2, <2>3, <2>4 DEF Unnoted
<1>11. CASE SendTx /\ NoteAnswer
  <2>1. pending /\ confirmed
    BY <1>11 DEF SendTx, IInv, SignPart, ApprovalPart
  <2>2. TheGate!Finish
    BY <1>11, <2>1, GateOperations DEF SendTx, NoteAnswer, TheGate!Finish, TheGate!historyVars
  <2> QED
    BY <2>2 DEF TheGate!Next
<1> QED
  BY <1>1, <1>2, <1>3, <1>4, <1>5, <1>6, <1>7, <1>8, <1>9, <1>10, <1>11
     DEF HistoryNext

(* The firmware uses the approval gate as ApprovalSafety specifies.        *)
THEOREM UsesTheGateHolds == HistorySpec => UsesTheGate
<1>1. HistoryInit => TheGate!Init
  BY DEF HistoryInit, Init, ClockInit, ApprovalInit,
         TheGate!Init, TheGate!ClockInit, TheGate!ApprovalInit
<1>2. IInv /\ [HistoryNext]_allVars => [TheGate!Next]_TheGate!vars
  <2>1. UNCHANGED allVars => UNCHANGED TheGate!vars
    BY GateStutters DEF allVars, vars, wallet, history
  <2> QED
    BY <2>1, GateStep
<1> QED
  BY <1>1, <1>2, HistoryIInv, PTL DEF HistorySpec, UsesTheGate, TheGate!Spec

-----------------------------------------------------------------------------
(* The operations of the button, and of the gate as the button sees it. *)
LEMMA ButtonOperations ==
  /\ TheButton!ClockTick <=> ClockTick
  /\ TheButton!ClearApprovedCheck <=> ClearApprovedCheck
  /\ TheButton!ExpireApprovedCheckIfNeeded <=> ExpireApprovedCheckIfNeeded
  /\ \A text : TheButton!RecordApprovedCheck(CheckSummary[text])
                 <=> RecordApprovedCheck(CheckSummary[text])
  /\ \A code : TheButton!ConfirmApprovedCheckCode(code) <=> ConfirmApprovedCheckCode(code)
  /\ \A text : TheButton!SignMatchesApprovedCheckText(text)
                 <=> SignMatchesApprovedCheckText(text)
  /\ TheButton!AwaitsConfirmation <=> AwaitsConfirmation
  /\ TheButton!PollButton <=> PollButton
  /\ TheButton!ButtonReset <=> ButtonReset
  /\ TheButton!MoveButton <=> MoveButton
<1> USE DEF TheButton!ClearApprovedCheck, ClearApprovedCheck
<1>0. /\ TheButton!ClockTick <=> ClockTick
      /\ TheButton!ApprovalExpired <=> ApprovalExpired
      /\ TheButton!MarkConfirmed <=> MarkConfirmed
      /\ UNCHANGED TheButton!approvalVars <=> UNCHANGED approvalVars
  BY DEF TheButton!ClockTick, ClockTick, TheButton!Later, Later,
         TheButton!ApprovalExpired, ApprovalExpired, TheButton!Elapsed, Elapsed,
         TheButton!ApprovalBase, ApprovalBase, TheButton!MarkConfirmed, MarkConfirmed,
         TheButton!approvalVars, approvalVars
<1>1. /\ TheButton!ExpireApprovedCheckIfNeeded <=> ExpireApprovedCheckIfNeeded
      /\ TheButton!ConfirmSucceeds <=> ConfirmSucceeds
  BY <1>0 DEF TheButton!ExpireApprovedCheckIfNeeded, ExpireApprovedCheckIfNeeded,
              TheButton!ConfirmSucceeds, ConfirmSucceeds
<1>2. \A text : TheButton!RecordApprovedCheck(CheckSummary[text])
                  <=> RecordApprovedCheck(CheckSummary[text])
  BY DEF TheButton!RecordApprovedCheck, RecordApprovedCheck
<1>3. TheButton!ConfirmApprovedCheck <=> ConfirmApprovedCheck
  BY <1>0, <1>1 DEF TheButton!ConfirmApprovedCheck, ConfirmApprovedCheck
<1>4. \A code : TheButton!CodeAccepted(code) <=> CodeAccepted(code)
  BY <1>1 DEF TheButton!CodeAccepted, CodeAccepted
<1>5. \A code : TheButton!ConfirmApprovedCheckCode(code) <=> ConfirmApprovedCheckCode(code)
  BY <1>0, <1>1, <1>4 DEF TheButton!ConfirmApprovedCheckCode, ConfirmApprovedCheckCode
<1>6. \A text : TheButton!SignMatchesApprovedCheckText(text)
                  <=> SignMatchesApprovedCheckText(text)
  BY <1>1 DEF TheButton!SignMatchesApprovedCheckText, SignMatchesApprovedCheckText
<1>7. /\ TheButton!AwaitsConfirmation <=> AwaitsConfirmation
      /\ TheButton!PressEdge <=> PressEdge
      /\ TheButton!ButtonReset <=> ButtonReset
      /\ TheButton!MoveButton <=> MoveButton
  BY DEF TheButton!AwaitsConfirmation, AwaitsConfirmation, TheButton!PressEdge, PressEdge,
         TheButton!Elapsed, Elapsed, TheButton!ButtonReset, ButtonReset,
         TheButton!MoveButton, MoveButton
<1>8. TheButton!PollButton <=> PollButton
  BY <1>1, <1>3, <1>7
     DEF TheButton!PollButton, PollButton, TheButton!approvalVars, approvalVars
<1> QED
  BY <1>0, <1>1, <1>2, <1>5, <1>6, <1>7, <1>8

LEMMA ButtonStutters ==
  ASSUME UNCHANGED <<now, approvalVars, pressed, buttonVars, buttonHistory>>
  PROVE  UNCHANGED TheButton!vars
  BY DEF approvalVars, buttonVars, buttonHistory, TheButton!vars, TheButton!approvalVars,
         TheButton!buttonVars, TheButton!historyVars

LEMMA ButtonStep ==
  ASSUME IInv, HistoryNext
  PROVE  [TheButton!Next]_TheButton!vars
<1>h. /\ UNCHANGED buttonHistory <=> UNCHANGED TheButton!historyVars
      /\ UNCHANGED buttonVars <=> UNCHANGED TheButton!buttonVars
      /\ UNCHANGED approvalVars <=> UNCHANGED TheButton!approvalVars
  BY DEF buttonHistory, TheButton!historyVars, buttonVars, TheButton!buttonVars,
         approvalVars, TheButton!approvalVars
<1>1. CASE Tick /\ Attended /\ NoteTick
  <2>1. TheButton!Tick
    BY <1>1, <1>h, ButtonOperations DEF Tick, wallet, NoteTick, TheButton!Tick
  <2> QED
    BY <2>1 DEF TheButton!Next
<1>2. CASE User /\ NoteUser
  <2>1. TheButton!User
    BY <1>2, <1>h, ButtonOperations DEF User, wallet, NoteUser, TheButton!User
  <2> QED
    BY <2>1 DEF TheButton!Next
<1>3. ASSUME NEW text \in Texts, Check(text), NoteCheck(text) PROVE TheButton!Next
  <2>1. TheButton!Check(text)
    BY <1>3, <1>h, ButtonOperations DEF Check, NoteCheck, TheButton!Check
  <2> QED
    BY <2>1 DEF TheButton!Next
<1>4. ASSUME NEW code \in Codes \cup {NoCode}, Confirm(code), NoteCode(code)
      PROVE  TheButton!Next
  <2>1. TheButton!CodeConfirm(code)
    BY <1>4, <1>h, ButtonOperations DEF Confirm, NoteCode, TheButton!CodeConfirm
  <2> QED
    BY <2>1 DEF TheButton!Next
<1>5. CASE Poll /\ NotePoll
  <2>1. TheButton!Poll
    BY <1>5, ButtonOperations DEF Poll, NotePoll, TheButton!Poll
  <2> QED
    BY <2>1 DEF TheButton!Next
<1>6. CASE UnlockPin /\ NoteAttempt
  BY <1>6, ButtonStutters DEF UnlockPin, NoteAttempt
<1>7. CASE Unwrap /\ NoteUnwrap
  BY <1>7, ButtonStutters DEF Unwrap, NoteUnwrap
<1>8. CASE CopyKey /\ NoteRelease
  BY <1>8, ButtonStutters DEF CopyKey, NoteRelease
<1>9. CASE Reset /\ NoteReset
  <2>1. TheButton!Reset
    BY <1>9, ButtonOperations DEF Reset, NoteReset, TheButton!Reset
  <2> QED
    BY <2>1 DEF TheButton!Next
<1>10. CASE Unnoted /\ UNCHANGED history
  <2>1. UNCHANGED buttonHistory
    BY <1>10 DEF history
  <2>2. CASE \/ BootStep \/ SeInitStep \/ UnlockInfo \/ Lock
             \/ CheckSession \/ \E answered \in BOOLEAN : AskSecureElement(answered)
             \/ SignTx \/ PostcheckFails
    BY <2>1, <2>2, ButtonStutters
       DEF BootStep, SeInitStep, UnlockInfo, Lock, CheckSession, AskSecureElement, SignTx,
           PostcheckFails
  <2>3. CASE ButtonInfo
    <3>1. TheButton!Query
      BY <1>h, <2>1, <2>3, ButtonOperations DEF ButtonInfo, TheButton!Query
    <3> QED
      BY <3>1 DEF TheButton!Next
  <2>4. ASSUME NEW text \in Texts, SignGranted(text) \/ SignRefused(text)
        PROVE  TheButton!Next
    <3>1. TheButton!Sign(text)
      BY <1>h, <2>1, <2>4, ButtonOperations DEF SignGranted, SignRefused, TheButton!Sign
    <3> QED
      BY <3>1 DEF TheButton!Next
  <2> QED
    BY <1>10, <2>2, <2>3, <2>4 DEF Unnoted
<1>11. CASE SendTx /\ NoteAnswer
  <2>1. pending /\ confirmed
    BY <1>11 DEF SendTx, IInv, SignPart, ApprovalPart
  <2>2. TheButton!Finish
    BY <1>11, <1>h, <2>1, ButtonOperations DEF SendTx, NoteAnswer, TheButton!Finish
  <2> QED
    BY <2>2 DEF TheButton!Next
<1> QED
  BY <1>1, <1>2, <1>3, <1>4, <1>5, <1>6, <1>7, <1>8, <1>9, <1>10, <1>11
     DEF HistoryNext

(* The firmware samples the button as ButtonSafety specifies.              *)
THEOREM UsesTheButtonHolds == HistorySpec => UsesTheButton
<1>1. HistoryInit => TheButton!Init
  BY DEF HistoryInit, Init, ClockInit, ApprovalInit, ButtonInit,
         TheButton!Init, TheButton!ClockInit, TheButton!ApprovalInit, TheButton!ButtonInit
<1>2. IInv /\ [HistoryNext]_allVars => [TheButton!Next]_TheButton!vars
  <2>1. UNCHANGED allVars => UNCHANGED TheButton!vars
    BY ButtonStutters DEF allVars, vars, wallet, history
  <2> QED
    BY <2>1, ButtonStep
<1> QED
  BY <1>1, <1>2, HistoryIInv, PTL DEF HistorySpec, UsesTheButton, TheButton!Spec

-----------------------------------------------------------------------------
(* The operations of the key provider. *)
LEMMA KeyOperations ==
  /\ TheKeys!ClockTick <=> ClockTick
  /\ TheKeys!KeyReleasable <=> KeyReleasable
  /\ TheKeys!BeginUnlock <=> BeginUnlock
  /\ TheKeys!UnwrapFails <=> UnwrapFails
  /\ TheKeys!UnwrapSucceeds <=> UnwrapSucceeds
  /\ TheKeys!BeginRelease <=> BeginRelease
  /\ TheKeys!RefuseKey <=> RefuseKey
  /\ TheKeys!ReleaseKey <=> ReleaseKey
  /\ TheKeys!LockSession <=> LockSession
  /\ TheKeys!ReportSession <=> ReportSession
  /\ TheKeys!RetryReset <=> RetryReset
<1>1. /\ TheKeys!ClockTick <=> ClockTick
      /\ TheKeys!SessionExpired <=> SessionExpired
      /\ TheKeys!LockSession <=> LockSession
      /\ TheKeys!RetryReset <=> RetryReset
      /\ UNCHANGED TheKeys!sessionVars <=> UNCHANGED sessionVars
      /\ UNCHANGED TheKeys!retryVars <=> UNCHANGED retryVars
  BY DEF TheKeys!ClockTick, ClockTick, TheKeys!Later, Later, TheKeys!Elapsed, Elapsed,
         TheKeys!SessionExpired, SessionExpired, TheKeys!LockSession, LockSession,
         TheKeys!RetryReset, RetryReset, TheKeys!sessionVars, sessionVars,
         TheKeys!retryVars, retryVars
<1>2. TheKeys!RetryDelayOver <=> RetryDelayOver
  BY DEF TheKeys!RetryDelayOver, RetryDelayOver, TheKeys!DeadlineReached, DeadlineReached,
         TheKeys!Elapsed, Elapsed
<1>3. /\ TheKeys!KeyReleasable <=> KeyReleasable
      /\ TheKeys!ExpireSessionIfNeeded <=> ExpireSessionIfNeeded
  BY <1>1 DEF TheKeys!KeyReleasable, KeyReleasable,
              TheKeys!ExpireSessionIfNeeded, ExpireSessionIfNeeded
<1>4. TheKeys!BeginUnlock <=> BeginUnlock
  BY <1>1, <1>2 DEF TheKeys!BeginUnlock, BeginUnlock, TheKeys!UnlockRefused, UnlockRefused
<1>5. TheKeys!UnwrapFails <=> UnwrapFails
  BY <1>1 DEF TheKeys!UnwrapFails, UnwrapFails, TheKeys!Later, Later
<1>6. TheKeys!UnwrapSucceeds <=> UnwrapSucceeds
  BY DEF TheKeys!UnwrapSucceeds, UnwrapSucceeds
<1>r. TheKeys!KeyReleasable = KeyReleasable
  BY DEF TheKeys!KeyReleasable, KeyReleasable, TheKeys!SessionExpired, SessionExpired,
         TheKeys!Elapsed, Elapsed
<1>7. /\ TheKeys!BeginRelease <=> BeginRelease
      /\ TheKeys!RefuseKey <=> RefuseKey
      /\ TheKeys!ReleaseKey <=> ReleaseKey
  BY <1>1, <1>3, <1>r DEF TheKeys!BeginRelease, BeginRelease, TheKeys!RefuseKey, RefuseKey,
                    TheKeys!ReleaseKey, ReleaseKey, TheKeys!sessionVars, sessionVars,
                    TheKeys!retryVars, retryVars
<1>8. TheKeys!ReportSession <=> ReportSession
  BY <1>2, <1>3 DEF TheKeys!ReportSession, ReportSession,
                    TheKeys!ForgetRetryIfOver, ForgetRetryIfOver,
                    TheKeys!callVars, callVars
<1> QED
  BY <1>1, <1>3, <1>4, <1>5, <1>6, <1>7, <1>8

LEMMA KeyStutters ==
  ASSUME UNCHANGED <<now, keyVars, keyHistory>>
  PROVE  UNCHANGED TheKeys!vars
  BY DEF keyVars, sessionVars, retryVars, callVars, keyHistory, TheKeys!vars,
         TheKeys!keyVars, TheKeys!sessionVars, TheKeys!retryVars, TheKeys!callVars,
         TheKeys!historyVars

LEMMA KeyStep ==
  ASSUME IInv, HistoryNext
  PROVE  [TheKeys!Next]_TheKeys!vars
<1>h. /\ UNCHANGED keyHistory <=> UNCHANGED TheKeys!historyVars
      /\ UNCHANGED keyVars <=> UNCHANGED TheKeys!keyVars
      /\ UNCHANGED retryVars <=> UNCHANGED TheKeys!retryVars
      /\ UNCHANGED callVars <=> UNCHANGED TheKeys!callVars
      /\ UNCHANGED keyVars <=> UNCHANGED <<sessionVars, retryVars, callVars>>
  BY DEF keyHistory, TheKeys!historyVars, keyVars, sessionVars, retryVars, callVars,
         TheKeys!keyVars, TheKeys!sessionVars, TheKeys!retryVars, TheKeys!callVars
<1>u. pc \in {"read", "key"} => TheKeys!NoCall
  BY DEF IInv, KeyPart, TheKeys!NoCall
<1>l. ASSUME pc = "read", LockSession, UNCHANGED <<now, retryVars, callVars, keyHistory>>
      PROVE  TheKeys!Next
  <2>1. TheKeys!Lock
    BY <1>l, <1>u, <1>h, KeyOperations DEF TheKeys!Lock
  <2> QED
    BY <2>1 DEF TheKeys!Next
<1>1. CASE Tick /\ Attended /\ NoteTick
  <2>1. TheKeys!Tick
    BY <1>1, <1>h, KeyOperations DEF Tick, wallet, Attended, NoteTick, TheKeys!Tick
  <2> QED
    BY <2>1 DEF TheKeys!Next
<1>2. CASE User /\ NoteUser
  BY <1>2, KeyStutters DEF User, wallet, NoteUser
<1>3. ASSUME NEW text \in Texts, Check(text), NoteCheck(text)
      PROVE  [TheKeys!Next]_TheKeys!vars
  <2>1. CASE CheckSummary[text] = NoSummary
    BY <1>3, <1>l, <2>1 DEF Check, NoteCheck
  <2>2. CASE CheckSummary[text] # NoSummary
    <3>1. UNCHANGED <<now, keyVars>>
      BY <1>3, <1>h, <2>2 DEF Check
    <3>2. UNCHANGED keyHistory
      BY <1>3 DEF NoteCheck
    <3> QED
      BY <3>1, <3>2, KeyStutters
  <2> QED
    BY <2>1, <2>2
<1>4. ASSUME NEW code \in Codes \cup {NoCode}, Confirm(code), NoteCode(code)
      PROVE  UNCHANGED TheKeys!vars
  BY <1>4, KeyStutters DEF Confirm, NoteCode
<1>5. CASE Poll /\ NotePoll
  BY <1>5, KeyStutters DEF Poll, NotePoll
<1>6. CASE UnlockPin /\ NoteAttempt
  <2>1. TheKeys!StartUnlock
    BY <1>6, <1>u, KeyOperations DEF UnlockPin, NoteAttempt, TheKeys!StartUnlock
  <2> QED
    BY <2>1 DEF TheKeys!Next
<1>7. CASE Unwrap /\ NoteUnwrap
  <2>1. CASE UnwrapFails
    <3>1. unlocked' = FALSE
      BY <2>1 DEF UnwrapFails, LockSession
    <3>2. TheKeys!WrongPin
      BY <1>7, <2>1, <3>1, KeyOperations
         DEF Unwrap, NoteUnwrap, TheKeys!WrongPin, TheKeys!historyVars
    <3> QED
      BY <3>2 DEF TheKeys!Next
  <2>2. CASE UnwrapSucceeds
    <3>1. unlocked' = TRUE
      BY <2>2 DEF UnwrapSucceeds
    <3>2. TheKeys!RightPin
      BY <1>7, <2>2, <3>1, KeyOperations DEF Unwrap, NoteUnwrap, TheKeys!RightPin
    <3> QED
      BY <3>2 DEF TheKeys!Next
  <2> QED
    BY <1>7, <2>1, <2>2 DEF Unwrap
<1>8. CASE CopyKey /\ NoteRelease
  <2>1. TheKeys!KeyReleased
    BY <1>8, KeyOperations DEF CopyKey, NoteRelease, TheKeys!KeyReleased
  <2> QED
    BY <2>1 DEF TheKeys!Next
<1>9. CASE Reset /\ NoteReset
  <2>1. TheKeys!Reset
    BY <1>9, KeyOperations DEF Reset, NoteReset, TheKeys!Reset
  <2> QED
    BY <2>1 DEF TheKeys!Next
<1>10. CASE Unnoted /\ UNCHANGED history
  <2>1. UNCHANGED keyHistory
    BY <1>10 DEF history
  <2>2. CASE \/ BootStep \/ SeInitStep \/ ButtonInfo \/ SignTx \/ PostcheckFails
             \/ \E text \in Texts : SignGranted(text)
    <3>1. UNCHANGED <<now, keyVars>>
      BY <2>2 DEF BootStep, SeInitStep, ButtonInfo, SignGranted, SignTx, PostcheckFails
    <3> QED
      BY <2>1, <3>1, KeyStutters
  <2>3. CASE Lock \/ \E text \in Texts : SignRefused(text)
    BY <2>1, <2>3, <1>l DEF Lock, SignRefused
  <2>4. CASE UnlockInfo
    <3>1. TheKeys!Report
      BY <2>1, <2>4, <1>u, <1>h, KeyOperations DEF UnlockInfo, TheKeys!Report
    <3> QED
      BY <3>1 DEF TheKeys!Next
  <2>5. CASE CheckSession
    <3>1. TheKeys!AskForKey
      BY <2>1, <2>5, <1>u, <1>h, KeyOperations DEF CheckSession, TheKeys!AskForKey
    <3> QED
      BY <3>1 DEF TheKeys!Next
  <2>6. ASSUME NEW answered \in BOOLEAN, AskSecureElement(answered)
        PROVE  [TheKeys!Next]_TheKeys!vars
    <3>1. CASE UNCHANGED keyVars
      BY <2>1, <2>6, <3>1, KeyStutters DEF AskSecureElement
    <3>2. CASE RefuseKey
      <4>1. TheKeys!KeyRefused
        BY <2>1, <2>6, <3>2, <1>h, KeyOperations DEF AskSecureElement, TheKeys!KeyRefused
      <4> QED
        BY <4>1 DEF TheKeys!Next
    <3> QED
      BY <2>6, <3>1, <3>2 DEF AskSecureElement
  <2> QED
    BY <1>10, <2>2, <2>3, <2>4, <2>5, <2>6 DEF Unnoted
<1>11. CASE SendTx /\ NoteAnswer
  BY <1>11, KeyStutters DEF SendTx, NoteAnswer
<1> QED
  BY <1>1, <1>2, <1>3, <1>4, <1>5, <1>6, <1>7, <1>8, <1>9, <1>10, <1>11
     DEF HistoryNext

(* The firmware uses the key provider as KeyProviderSafety specifies.      *)
THEOREM UsesTheKeysHolds == HistorySpec => UsesTheKeys
<1>1. HistoryInit => TheKeys!Init
  BY DEF HistoryInit, Init, ClockInit, KeyInit,
         TheKeys!Init, TheKeys!ClockInit, TheKeys!KeyInit
<1>2. IInv /\ [HistoryNext]_allVars => [TheKeys!Next]_TheKeys!vars
  <2>1. UNCHANGED allVars => UNCHANGED TheKeys!vars
    BY KeyStutters DEF allVars, vars, wallet, history
  <2> QED
    BY <2>1, KeyStep
<1> QED
  BY <1>1, <1>2, HistoryIInv, PTL DEF HistorySpec, UsesTheKeys, TheKeys!Spec

-----------------------------------------------------------------------------
(* From the display to the answer.                                         *)

(* All that a step can do to the gate and to what is known of the user's   *)
(* consent: let it age, leave it, wipe it, record a CHECK, confirm it.     *)
Ages == Tick /\ Attended /\ NoteTick
Rests ==
  /\ UNCHANGED <<now, approvalVars, idle, displayed, delivered>>
  /\ consented => consented'
Records(s) ==
  /\ s # NoSummary /\ RecordApprovedCheck(s)
  /\ displayed' = s /\ ~delivered' /\ idle' = 0 /\ now' = now
Confirms ==
  /\ pending /\ MarkConfirmed
  /\ consented' /\ UNCHANGED <<displayed, delivered>> /\ idle' = 0 /\ now' = now

LEMMA GateMoves ==
  ASSUME IInv, HistoryNext
  PROVE  \/ Ages
         \/ Rests
         \/ ClearApprovedCheck /\ idle' \in {idle, 0}
         \/ \E s \in Summaries : Records(s)
         \/ Confirms
<1> DEFINE Goal == \/ Ages
                   \/ Rests
                   \/ ClearApprovedCheck /\ idle' \in {idle, 0}
                   \/ \E s \in Summaries : Records(s)
                   \/ Confirms
<1>x. ASSUME ExpireApprovedCheckIfNeeded, UNCHANGED <<now, gateHistory>> PROVE Goal
  BY <1>x DEF ExpireApprovedCheckIfNeeded, gateHistory, Rests
<1>r. ASSUME UNCHANGED <<now, approvalVars, gateHistory>> PROVE Goal
  BY <1>r DEF gateHistory, Rests
<1>s. ASSUME NEW text \in Texts, SignMatchesApprovedCheckText(text),
             UNCHANGED <<now, gateHistory>>
      PROVE  Goal
  BY <1>s, <1>x DEF SignMatchesApprovedCheckText, gateHistory
<1>1. CASE Tick /\ Attended /\ NoteTick
  BY <1>1 DEF Ages
<1>2. CASE User /\ NoteUser
  BY <1>2, <1>r DEF User, wallet, NoteUser
<1>3. ASSUME NEW text \in Texts, Check(text), NoteCheck(text) PROVE Goal
  <2>1. CASE CheckSummary[text] = NoSummary
    BY <1>3, <2>1 DEF Check, NoteCheck, RecordApprovedCheck
  <2>2. CASE CheckSummary[text] # NoSummary
    <3>1. CheckSummary[text] \in Summaries
      BY <2>2, ApprovalAssumption
    <3>2. Records(CheckSummary[text])
      BY <1>3, <2>2 DEF Check, NoteCheck, Records
    <3> QED
      BY <3>1, <3>2
  <2> QED
    BY <2>1, <2>2
<1>4. ASSUME NEW code \in Codes \cup {NoCode}, Confirm(code), NoteCode(code) PROVE Goal
  <2> USE <1>4 DEF Confirm, NoteCode, NoteConsent
  <2>1. CASE CodeAccepted(code)
    <3>1. pending /\ ConfirmSucceeds
      BY <2>1 DEF CodeAccepted, ConfirmSucceeds
    <3>2. approvedCheck \in Summaries
      BY <3>1 DEF IInv, TypeOK, ApprovalTypeOK, ApprovalPart
    <3>3. code # NoCode /\ code = CodeOf[approvedCheck]
      BY <2>1, <3>2, ApprovalAssumption DEF CodeAccepted
    <3>4. MarkConfirmed
      BY <3>1, <3>3 DEF ConfirmApprovedCheckCode
    <3> QED
      BY <2>1, <3>1, <3>4 DEF Confirms
  <2>2. CASE ~CodeAccepted(code)
    <3>1. UNCHANGED approvalVars \/ ClearApprovedCheck
      BY <2>2 DEF ConfirmApprovedCheckCode, ExpireApprovedCheckIfNeeded
    <3> QED
      BY <2>2, <3>1 DEF Rests
  <2> QED
    BY <2>1, <2>2
<1>5. CASE Poll /\ NotePoll
  <2>1. CASE AwaitsConfirmation /\ PressEdge /\ ConfirmSucceeds
    <3>1. MarkConfirmed /\ pending
      BY <1>5, <2>1 DEF Poll, PollButton, ConfirmApprovedCheck, ConfirmSucceeds
    <3> QED
      BY <1>5, <2>1, <3>1 DEF Poll, NotePoll, NoteConsent, Confirms
  <2>2. CASE AwaitsConfirmation /\ PressEdge /\ ~ConfirmSucceeds
    <3>1. UNCHANGED approvalVars \/ ClearApprovedCheck
      BY <1>5, <2>2
         DEF Poll, PollButton, ConfirmApprovedCheck, ExpireApprovedCheckIfNeeded
    <3> QED
      BY <1>5, <2>2, <3>1 DEF Poll, NotePoll, NoteConsent, Rests
  <2>3. CASE ~(AwaitsConfirmation /\ PressEdge)
    <3>1. UNCHANGED approvalVars
      BY <1>5, <2>3 DEF Poll, PollButton
    <3> QED
      BY <1>5, <2>3, <3>1 DEF Poll, NotePoll, Rests
  <2> QED
    BY <2>1, <2>2, <2>3
<1>6. CASE UnlockPin /\ NoteAttempt
  BY <1>6, <1>r DEF UnlockPin, NoteAttempt
<1>7. CASE Unwrap /\ NoteUnwrap
  BY <1>7, <1>r DEF Unwrap, NoteUnwrap
<1>8. CASE CopyKey /\ NoteRelease
  BY <1>8, <1>r DEF CopyKey, NoteRelease
<1>9. CASE Reset /\ NoteReset
  BY <1>9 DEF Reset, NoteReset
<1>10. CASE Unnoted /\ UNCHANGED history
  <2>1. UNCHANGED gateHistory
    BY <1>10 DEF history
  <2>2. CASE \/ BootStep \/ SeInitStep \/ UnlockInfo \/ Lock
             \/ CheckSession \/ \E answered \in BOOLEAN : AskSecureElement(answered)
             \/ SignTx \/ PostcheckFails
    BY <2>1, <2>2, <1>r
       DEF BootStep, SeInitStep, UnlockInfo, Lock, CheckSession, AskSecureElement, SignTx,
           PostcheckFails
  <2>3. CASE ButtonInfo
    BY <2>1, <2>3, <1>x DEF ButtonInfo
  <2>4. ASSUME NEW text \in Texts, SignGranted(text) \/ SignRefused(text) PROVE Goal
    BY <2>1, <2>4, <1>s DEF SignGranted, SignRefused
  <2> QED
    BY <1>10, <2>2, <2>3, <2>4 DEF Unnoted
<1>11. CASE SendTx /\ NoteAnswer
  BY <1>11 DEF SendTx, NoteAnswer
<1> QED
  BY <1>1, <1>2, <1>3, <1>4, <1>5, <1>6, <1>7, <1>8, <1>9, <1>10, <1>11
     DEF HistoryNext

LEMMA ConsentStep ==
  ASSUME MaxSilence \in Nat, MaxSilence < TickMod, IInv, ConsentPart, HistoryNext
  PROVE  ConsentPart'
<1> USE DEF ConsentPart
<1>t. now \in Ticks /\ ApprovalTypeOK /\ ApprovalPart
  BY DEF IInv, TypeOK
<1>1. CASE Ages
  <2>1. UNCHANGED <<approvedCheck, pending, confirmed, displayed, consented, delivered>>
    BY <1>1 DEF Ages, Tick, wallet, approvalVars, NoteTick
  <2>2. idle' = IF pending THEN idle + 1 ELSE 0
    BY <1>1 DEF Ages, NoteTick
  <2>3. ASSUME pending PROVE Elapsed(now', ApprovalBase') = idle' /\ idle' <= MaxSilence
    <3>1. idle < MaxSilence
      BY <1>1, <2>3 DEF Ages, Attended
    <3>2. ApprovalBase \in Ticks
      BY <1>t DEF ApprovalTypeOK, ApprovalBase
    <3>3. ApprovalBase' = ApprovalBase
      BY <1>1 DEF Ages, Tick, wallet, approvalVars, ApprovalBase
    <3>4. Elapsed(now, ApprovalBase) + 1 < TickMod
      BY <2>3, <3>1, TickModAssumption
    <3>5. now' = Later(now, 1)
      BY <1>1 DEF Ages, Tick, ClockTick
    <3>6. Elapsed(now', ApprovalBase) = idle + 1
      BY <1>t, <2>3, <3>2, <3>4, <3>5, ElapsedLater
    <3> QED
      BY <2>2, <2>3, <3>1, <3>3, <3>6
  <2> QED
    BY <2>1, <2>2, <2>3
<1>2. CASE Rests
  <2>1. ApprovalBase' = ApprovalBase
    BY <1>2 DEF Rests, approvalVars, ApprovalBase
  <2> QED
    BY <1>2, <2>1 DEF Rests, approvalVars
<1>3. CASE ClearApprovedCheck /\ idle' \in {idle, 0}
  BY <1>3 DEF ClearApprovedCheck
<1>0. Elapsed(now, now) = 0
  BY <1>t, ElapsedSame
<1>4. ASSUME NEW s \in Summaries, Records(s) PROVE ConsentPart'
  <2>1. /\ approvedCheck' = s /\ displayed' = s /\ confirmed' = FALSE
        /\ ~delivered' /\ idle' = 0 /\ now' = now
    BY <1>4 DEF Records, RecordApprovedCheck
  <2>2. ApprovalBase' = now
    BY <1>4 DEF Records, RecordApprovedCheck, ApprovalBase
  <2> QED
    BY <1>0, <2>1, <2>2
<1>5. CASE Confirms
  <2>1. /\ UNCHANGED <<approvedCheck, displayed, delivered, now>> /\ consented'
        /\ idle' = 0 /\ pending
    BY <1>5 DEF Confirms, MarkConfirmed
  <2>2. ApprovalBase' = now
    BY <1>5 DEF Confirms, MarkConfirmed, ApprovalBase
  <2> QED
    BY <1>0, <2>1, <2>2
<1> QED
  BY <1>1, <1>2, <1>3, <1>4, <1>5, GateMoves

(* The same for the session: let it age, leave it, close it, try a PIN,    *)
(* open it.                                                                *)
PinRests ==
  /\ UNCHANGED <<now, unlocked, startedMs, unwrapping, unwrapMs, attemptMs, sinceAttempt>>
  /\ unspent => unspent'
PinCloses ==
  /\ unlocked' = FALSE
  /\ unwrapping' = FALSE
  /\ \/ UNCHANGED <<attemptMs, sinceAttempt>>
     \/ attemptMs' = 0 /\ sinceAttempt' = 0

LEMMA SessionLeft ==
  /\ LockSession => unlocked' = FALSE
  /\ ExpireSessionIfNeeded => unlocked' = FALSE \/ UNCHANGED <<unlocked, startedMs>>
  BY DEF ExpireSessionIfNeeded, LockSession, sessionVars

LEMMA PinMoves ==
  ASSUME IInv, HistoryNext
  PROVE  \/ Ages
         \/ PinRests
         \/ PinCloses
         \/ UnlockPin /\ NoteAttempt
         \/ Unwrap /\ NoteUnwrap
<1> DEFINE Goal == \/ Ages
                   \/ PinRests
                   \/ PinCloses
                   \/ UnlockPin /\ NoteAttempt
                   \/ Unwrap /\ NoteUnwrap
<1>u. unwrapping <=> pc = "kdf"
  BY DEF IInv, KeyPart
<1>b. unwrapping \in BOOLEAN
  BY DEF IInv, TypeOK, KeyTypeOK
<1>r. ASSUME UNCHANGED <<now, keyVars, keyHistory>> PROVE Goal
  BY <1>r DEF keyVars, sessionVars, callVars, keyHistory, PinRests
<1>l. ASSUME UNCHANGED <<now, unwrapping, unwrapMs, keyHistory>>, unwrapping = FALSE,
             LockSession \/ ExpireSessionIfNeeded
      PROVE  Goal
  BY <1>l, SessionLeft DEF keyHistory, PinRests, PinCloses
<1>1. CASE Tick /\ Attended /\ NoteTick
  BY <1>1 DEF Ages
<1>2. CASE User /\ NoteUser
  BY <1>2, <1>r DEF User, wallet, NoteUser
<1>3. ASSUME NEW text \in Texts, Check(text), NoteCheck(text) PROVE Goal
  <2>1. CASE CheckSummary[text] = NoSummary
    BY <1>3, <1>u, <1>b, <1>l, <2>1 DEF Check, NoteCheck, callVars
  <2>2. CASE CheckSummary[text] # NoSummary
    BY <1>3, <1>r, <2>2 DEF Check, NoteCheck, keyVars
  <2> QED
    BY <2>1, <2>2
<1>4. ASSUME NEW code \in Codes \cup {NoCode}, Confirm(code), NoteCode(code) PROVE Goal
  BY <1>4, <1>r DEF Confirm, NoteCode
<1>5. CASE Poll /\ NotePoll
  BY <1>5, <1>r DEF Poll, NotePoll
<1>6. CASE UnlockPin /\ NoteAttempt
  BY <1>6
<1>7. CASE Unwrap /\ NoteUnwrap
  BY <1>7
<1>8. CASE CopyKey /\ NoteRelease
  <2>1. unlocked' = FALSE /\ unwrapping' = FALSE /\ UNCHANGED <<attemptMs, sinceAttempt>>
    BY <1>8, <1>u, <1>b, SessionLeft DEF CopyKey, ReleaseKey, NoteRelease
  <2> QED
    BY <2>1 DEF PinCloses
<1>9. CASE Reset /\ NoteReset
  BY <1>9 DEF Reset, NoteReset, LockSession, RetryReset, PinCloses
<1>10. CASE Unnoted /\ UNCHANGED history
  <2>1. UNCHANGED keyHistory
    BY <1>10 DEF history
  <2>2. CASE \/ BootStep \/ SeInitStep \/ ButtonInfo \/ SignTx \/ PostcheckFails
             \/ \E text \in Texts : SignGranted(text)
    <3>1. UNCHANGED <<now, keyVars>>
      BY <2>2 DEF BootStep, SeInitStep, ButtonInfo, SignGranted, SignTx, PostcheckFails
    <3> QED
      BY <2>1, <3>1, <1>r
  <2>3. CASE Lock \/ UnlockInfo \/ CheckSession \/ \E text \in Texts : SignRefused(text)
    BY <2>1, <2>3, <1>u, <1>b, <1>l
       DEF Lock, UnlockInfo, ReportSession, CheckSession, BeginRelease, SignRefused, callVars
  <2>4. ASSUME NEW answered \in BOOLEAN, AskSecureElement(answered) PROVE Goal
    <3>1. UNCHANGED <<now, unlocked, startedMs, unwrapping, unwrapMs>>
      BY <2>4 DEF AskSecureElement, RefuseKey, keyVars, sessionVars, callVars
    <3> QED
      BY <2>1, <3>1 DEF keyHistory, PinRests
  <2> QED
    BY <1>10, <2>2, <2>3, <2>4 DEF Unnoted
<1>11. CASE SendTx /\ NoteAnswer
  BY <1>11, <1>r DEF SendTx, NoteAnswer
<1> QED
  BY <1>1, <1>2, <1>3, <1>4, <1>5, <1>6, <1>7, <1>8, <1>9, <1>10, <1>11
     DEF HistoryNext

LEMMA PinStep ==
  ASSUME MaxSilence \in Nat, MaxSilence < TickMod, IInv, PinPart, HistoryNext
  PROVE  PinPart'
<1> USE DEF PinPart
<1>t. now \in Ticks
  BY DEF IInv, TypeOK
<1>z. 0 \in 0 .. MaxSilence
  OBVIOUS
<1>1. CASE Ages
  <2>1. UNCHANGED <<unlocked, startedMs, unwrapping, unwrapMs, attemptMs, unspent>>
    BY <1>1 DEF Ages, Tick, wallet, keyVars, sessionVars, callVars, NoteTick
  <2>2. sinceAttempt' = IF sinceAttempt < MaxSilence THEN sinceAttempt + 1 ELSE sinceAttempt
    BY <1>1 DEF Ages, NoteTick
  <2>3. ASSUME unlocked \/ unwrapping PROVE Elapsed(now', attemptMs) = sinceAttempt'
    <3>1. sinceAttempt < MaxSilence /\ Elapsed(now, attemptMs) = sinceAttempt
      BY <1>1, <2>3 DEF Ages, Attended
    <3>2. Elapsed(now, attemptMs) + 1 < TickMod
      BY <3>1, TickModAssumption
    <3>3. now' = Later(now, 1)
      BY <1>1 DEF Ages, Tick, ClockTick
    <3>4. Elapsed(now', attemptMs) = sinceAttempt + 1
      BY <1>t, <3>1, <3>2, <3>3, ElapsedLater
    <3> QED
      BY <2>2, <3>1, <3>4
  <2>4. sinceAttempt' \in 0 .. MaxSilence
    BY <2>2
  <2> QED
    BY <2>1, <2>3, <2>4
<1>2. CASE PinRests
  BY <1>2 DEF PinRests
<1>3. CASE PinCloses
  BY <1>3, <1>z, ZeroIsTick DEF PinCloses
<1>4. CASE UnlockPin /\ NoteAttempt
  <2>1. /\ attemptMs' = now /\ sinceAttempt' = 0 /\ now' = now
        /\ unwrapMs' = now /\ unlocked' = FALSE
    BY <1>4, SessionLeft DEF UnlockPin, BeginUnlock, NoteAttempt
  <2>2. Elapsed(now, now) = 0
    BY <1>t, ElapsedSame
  <2> QED
    BY <1>t, <1>z, <2>1, <2>2
<1>5. CASE Unwrap /\ NoteUnwrap
  <2>1. unwrapping /\ UNCHANGED <<now, attemptMs, sinceAttempt>> /\ unwrapping' = FALSE
    BY <1>5 DEF Unwrap, UnwrapFails, UnwrapSucceeds, NoteUnwrap
  <2>2. CASE UnwrapFails
    <3>1. unlocked' = FALSE
      BY <2>2, SessionLeft DEF UnwrapFails
    <3> QED
      BY <2>1, <3>1
  <2>3. CASE UnwrapSucceeds
    <3>1. unlocked' = TRUE /\ startedMs' = unwrapMs
      BY <2>3 DEF UnwrapSucceeds
    <3>2. unspent' = TRUE
      BY <1>5, <3>1 DEF NoteUnwrap
    <3> QED
      BY <2>1, <3>1, <3>2
  <2> QED
    BY <1>5, <2>2, <2>3 DEF Unwrap
<1> QED
  BY <1>1, <1>2, <1>3, <1>4, <1>5, PinMoves

(* What happened before the loop went on to the key, asked the secure      *)
(* element about it, handed it out, and answered.                          *)
LEMMA GrantIsConsented ==
  ASSUME ConsentPart, HistoryNext, pc = "read", pc' = "key"
  PROVE  displayed = CheckSummary[cmd'] /\ consented /\ idle < ApprovalTimeout
<1>1. PICK text \in Texts : SignGranted(text)
  BY DEF HistoryNext, Unnoted, Tick, User, wallet, uartVars, Check, Confirm, Poll,
         UnlockPin, Unwrap, CheckSession, AskSecureElement, CopyKey, Lock, UnlockInfo,
         SignRefused, Reset, BootStep, SeInitStep, ButtonInfo, SignTx, PostcheckFails, SendTx
<1>2. cmd' = text /\ SignMatchesApproved(text)
  BY <1>1 DEF SignGranted, SignPasses
<1>3. pending /\ confirmed /\ approvedCheck = CheckSummary[text] /\ ~ApprovalExpired
  BY <1>2 DEF SignMatchesApproved
<1>4. ~(idle >= ApprovalTimeout)
  BY <1>3 DEF ConsentPart, ApprovalExpired
<1>5. idle \in Nat /\ ApprovalTimeout \in Int
  BY ApprovalAssumption, TickModAssumption DEF ConsentPart
<1> QED
  BY <1>2, <1>3, <1>4, <1>5 DEF ConsentPart

LEMMA SessionIsYoung ==
  ASSUME PinPart, MaxSilence \in Nat, HistoryNext, pc = "key", pc' = "authorize"
  PROVE  unspent /\ sinceAttempt < SessionTimeout
<1>1. CheckSession
  BY DEF HistoryNext, Unnoted, Tick, User, wallet, uartVars, Check, Confirm, Poll,
         UnlockPin, Unwrap, AskSecureElement, CopyKey, Lock, UnlockInfo, SignGranted,
         SignRefused, Reset, BootStep, SeInitStep, ButtonInfo, SignTx, PostcheckFails, SendTx
<1>2. unlocked /\ ~(Elapsed(now, startedMs) >= SessionTimeout)
  BY <1>1 DEF CheckSession, BackToPrompt, KeyReleasable, SessionExpired
<1>3. unspent /\ ~(sinceAttempt >= SessionTimeout)
  BY <1>2 DEF PinPart
<1>4. sinceAttempt \in Int /\ SessionTimeout \in Int
  BY KeyProviderAssumption, TickModAssumption DEF PinPart
<1> QED
  BY <1>3, <1>4

LEMMA KeyIsPaidFor ==
  ASSUME IInv, PinPart, HistoryNext, ~privateKey, privateKey'
  PROVE  unspent /\ ~unspent'
<1>1. CopyKey /\ NoteRelease
  BY DEF HistoryNext, Unnoted, Tick, User, wallet, uartVars, Check, Confirm, Poll,
         UnlockPin, Unwrap, CheckSession, AskSecureElement, Lock, UnlockInfo, SignGranted,
         SignRefused, Reset, BootStep, SeInitStep, ButtonInfo, SignTx, PostcheckFails,
         SendTx, BackToPrompt
<1>2. unlocked
  BY <1>1 DEF CopyKey, IInv, KeyPart
<1> QED
  BY <1>1, <1>2 DEF NoteRelease, PinPart

LEMMA AnswerIsConsented ==
  ASSUME IInv, ConsentPart, SendTx
  PROVE  displayed = sent' /\ consented /\ ~delivered
<1>1. sent' = approvedCheck /\ confirmed /\ pending
  BY DEF SendTx, IInv, SignPart, ApprovalPart
<1> QED
  BY <1>1 DEF ConsentPart

(* From the display to the answer: what is signed and sent was displayed   *)
(* and consented to, in time, with a key whose PIN was still young when    *)
(* the secure element was asked and is spent on it.                        *)
THEOREM SignsForTheUserHolds ==
  ASSUME MaxSilence \in Nat, MaxSilence < TickMod
  PROVE  HistorySpec => SignsForTheUser
<1>1. HistoryInit => ConsentPart /\ PinPart
  BY ZeroIsTick DEF HistoryInit, Init, ApprovalInit, KeyInit, ConsentPart, PinPart
<1>2. IInv /\ ConsentPart /\ PinPart /\ [HistoryNext]_allVars => ConsentPart' /\ PinPart'
  <2>1. ASSUME UNCHANGED allVars, ConsentPart, PinPart PROVE ConsentPart' /\ PinPart'
    <3>1. UNCHANGED <<now, approvalVars, idle, displayed, consented, delivered>>
      BY <2>1 DEF allVars, vars, wallet, history, gateHistory
    <3>2. ConsentPart'
      BY <2>1, <3>1 DEF ConsentPart, ApprovalBase, approvalVars
    <3>3. UNCHANGED <<now, unlocked, startedMs, unwrapping, unwrapMs,
                      attemptMs, sinceAttempt, unspent>>
      BY <2>1 DEF allVars, vars, wallet, keyVars, sessionVars, callVars, history, keyHistory
    <3> QED
      BY <2>1, <3>2, <3>3 DEF PinPart
  <2> QED
    BY <2>1, ConsentStep, PinStep
<1>3. IInv /\ ConsentPart /\ PinPart /\ [HistoryNext]_allVars
        => [/\ pc = "read" /\ pc' = "key"
                 => displayed = CheckSummary[cmd'] /\ consented /\ idle < ApprovalTimeout
            /\ pc = "key" /\ pc' = "authorize"
                 => unspent /\ sinceAttempt < SessionTimeout
            /\ ~privateKey /\ privateKey'
                 => unspent /\ ~unspent'
            /\ SendTx
                 => displayed = sent' /\ consented /\ ~delivered]_allVars
  BY GrantIsConsented, SessionIsYoung, KeyIsPaidFor, AnswerIsConsented
<1> QED
  BY <1>1, <1>2, <1>3, HistoryIInv, PTL DEF HistorySpec, SignsForTheUser
=============================================================================
