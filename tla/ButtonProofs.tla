---------------------------- MODULE ButtonProofs ----------------------------
(* Theorems about the button, for every debounce time, timeout and tick.   *)
EXTENDS ButtonSafety, ClockProofs

-----------------------------------------------------------------------------
(* What the operations of the gate leave, as far as the button cares: only *)
(* a CHECK opens it.                                                       *)
LEMMA GateClears ==
  ASSUME ApprovalTypeOK, ClearApprovedCheck
  PROVE  ApprovalTypeOK' /\ ~pending' /\ ~confirmed'
BY ZeroIsTick DEF ApprovalTypeOK, ClearApprovedCheck

LEMMA GateExpires ==
  ASSUME ApprovalTypeOK, ExpireApprovedCheckIfNeeded
  PROVE  /\ ApprovalTypeOK'
         /\ pending' => pending
         /\ confirmed' => confirmed
BY GateClears DEF ApprovalTypeOK, ExpireApprovedCheckIfNeeded, approvalVars

LEMMA GateConfirms ==
  ASSUME ApprovalTypeOK, now \in Ticks, ConfirmApprovedCheck
  PROVE  /\ ApprovalTypeOK'
         /\ pending' => pending
         /\ confirmed' => confirmed \/ ConfirmSucceeds
<1>1. CASE MarkConfirmed /\ ConfirmSucceeds
  BY <1>1 DEF MarkConfirmed, ApprovalTypeOK
<1> QED
  BY <1>1, GateExpires DEF ConfirmApprovedCheck

LEMMA GateTakesCode ==
  ASSUME ApprovalTypeOK, now \in Ticks, NEW code, ConfirmApprovedCheckCode(code)
  PROVE  /\ ApprovalTypeOK'
         /\ pending' => pending
<1>1. CASE MarkConfirmed
  BY <1>1 DEF MarkConfirmed, ApprovalTypeOK
<1>2. CASE UNCHANGED approvalVars
  BY <1>2 DEF approvalVars, ApprovalTypeOK
<1> QED
  BY <1>1, <1>2, GateExpires, GateClears DEF ConfirmApprovedCheckCode

LEMMA GateSigns ==
  ASSUME ApprovalTypeOK, NEW text, SignMatchesApprovedCheckText(text)
  PROVE  /\ ApprovalTypeOK'
         /\ pending' => pending
         /\ confirmed' => confirmed
BY GateExpires, GateClears DEF SignMatchesApprovedCheckText

-----------------------------------------------------------------------------
LEMMA ButtonInvInit == Init => ButtonInv
BY ZeroIsTick DEF Init, ClockInit, ApprovalInit, ButtonInit, ButtonInv, TypeOK,
  ApprovalTypeOK, ButtonTypeOK, UsedPart, ArmedPart

(* A sample: it confirms on an armed edge only, and arms on a released     *)
(* button only.                                                            *)
LEMMA PollKeepsInv ==
  ASSUME ButtonInv, Poll
  PROVE  ButtonInv'
<1> USE DEF ButtonInv, TypeOK, ButtonTypeOK, UsedPart, ArmedPart, AwaitsConfirmation
<1>1. UNCHANGED <<now, pressed, releasedSince, startedShut>> /\ prevPressed' = pressed
  BY DEF Poll, PollButton
<1>2. CASE ~AwaitsConfirmation
  <2>1. ~armed' /\ armed' \in BOOLEAN /\ UNCHANGED <<lastMs, approvalVars>>
    BY <1>2 DEF Poll, PollButton
  <2>2. lastPollShut' /\ lastPollShut' \in BOOLEAN /\ pressUsed' = pressUsed
    BY <1>2, <2>1 DEF Poll, approvalVars, ApprovalTypeOK
  <2> QED
    BY <1>1, <2>1, <2>2 DEF approvalVars, ApprovalTypeOK
<1>3. CASE AwaitsConfirmation /\ ~PressEdge
  <2>1. armed' = (armed \/ ~pressed) /\ UNCHANGED <<lastMs, approvalVars>>
    BY <1>3 DEF Poll, PollButton
  <2>2. ~lastPollShut' /\ lastPollShut' \in BOOLEAN /\ pressUsed' = pressUsed
    BY <1>3, <2>1 DEF Poll, approvalVars, ApprovalTypeOK
  <2> QED
    BY <1>1, <1>3, <2>1, <2>2 DEF approvalVars, ApprovalTypeOK
<1>4. CASE AwaitsConfirmation /\ PressEdge
  <2>1. ApprovalTypeOK' /\ lastMs' = now /\ (pending' => pending)
    BY <1>4, GateConfirms DEF Poll, PollButton
  <2>2. armed' \in BOOLEAN /\ (armed' => armed)
    BY <1>4 DEF Poll, PollButton
  <2>3. ~lastPollShut' /\ lastPollShut' \in BOOLEAN /\ pressUsed' \in BOOLEAN
    BY <1>4 DEF Poll
  <2> QED
    BY <1>1, <1>4, <2>1, <2>2, <2>3 DEF PressEdge
<1> QED
  BY <1>2, <1>3, <1>4

LEMMA ButtonInvInductive ==
  ASSUME ButtonInv, [Next]_vars
  PROVE  ButtonInv'
<1> USE DEF ButtonInv, TypeOK, ButtonTypeOK, UsedPart, ArmedPart, historyVars, buttonVars
<1>1. CASE Tick
  BY <1>1, LaterIsTick DEF Tick, ClockTick, approvalVars, ApprovalTypeOK
<1>2. CASE User
  BY <1>2 DEF User, MoveButton, approvalVars, ApprovalTypeOK
<1>3. ASSUME NEW text \in Texts, Check(text) PROVE ButtonInv'
  <2>1. CheckSummary[text] \in Summaries \cup {NoSummary}
    BY ApprovalAssumption
  <2>2. ApprovalTypeOK'
    BY <1>3, <2>1, ZeroIsTick, GateClears DEF Check, RecordApprovedCheck, ApprovalTypeOK
  <2> QED
    BY <1>3, <2>2 DEF Check
<1>4. ASSUME NEW text \in Texts, Sign(text) PROVE ButtonInv'
  BY <1>4, GateSigns DEF Sign
<1>5. ASSUME NEW code \in Codes \cup {NoCode}, CodeConfirm(code) PROVE ButtonInv'
  BY <1>5, GateTakesCode DEF CodeConfirm
<1>6. CASE Poll
  BY <1>6, PollKeepsInv
<1>7. CASE Query
  BY <1>7, GateExpires DEF Query
<1>8. CASE Finish
  BY <1>8, GateClears DEF Finish
<1>9. CASE Reset
  BY <1>9, GateClears, ZeroIsTick DEF Reset, ButtonReset
<1>10. CASE UNCHANGED vars
  BY <1>10 DEF vars, approvalVars, ApprovalTypeOK
<1> QED
  BY <1>1, <1>2, <1>3, <1>4, <1>5, <1>6, <1>7, <1>8, <1>9, <1>10 DEF Next

LEMMA ButtonInvHolds == Spec => []ButtonInv
BY ButtonInvInit, ButtonInvInductive, PTL DEF Spec

-----------------------------------------------------------------------------
(* The statics of the button and of the gate keep their types.             *)
THEOREM ButtonTypes == Spec => []TypeOK
<1>1. ButtonInv => TypeOK
  BY DEF ButtonInv
<1> QED
  BY <1>1, ButtonInvHolds, PTL

(* The button confirms on an armed edge while a confirmation is awaited.   *)
LEMMA ConfirmedByEdge ==
  ASSUME ButtonInv, [Next]_vars, ButtonConfirms
  PROVE  Poll /\ AwaitsConfirmation /\ PressEdge
<1>1. Poll
  BY DEF ButtonConfirms, Next, vars, Tick, User, Check, Sign, CodeConfirm, Query,
         Finish, Reset, ClearApprovedCheck, buttonVars
<1> QED
  BY <1>1 DEF ButtonConfirms, Poll, PollButton

(* One press, however long, confirms at most one approval.                 *)
THEOREM OnePressOneApprovalHolds == Spec => OnePressOneApproval
<1>1. ButtonInv /\ [Next]_vars => (ButtonConfirms => ~pressUsed)
  BY ConfirmedByEdge DEF PressEdge, ButtonInv, UsedPart
<1> QED
  BY <1>1, ButtonInvHolds, PTL DEF Spec, OnePressOneApproval

(* A CHECK that arrived at a device seen idle is confirmed only by a press *)
(* begun after it.                                                         *)
THEOREM FreshPressFromIdleHolds == Spec => FreshPressFromIdle
<1>1. ButtonInv /\ [Next]_vars => (ButtonConfirms /\ startedShut => releasedSince)
  BY ConfirmedByEdge DEF PressEdge, AwaitsConfirmation, ButtonInv, ArmedPart
<1> QED
  BY <1>1, ButtonInvHolds, PTL DEF Spec, FreshPressFromIdle
=============================================================================
