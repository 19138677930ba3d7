--------------------------- MODULE ApprovalProofs ---------------------------
(* Theorems about the approval gate, for every value of the constants.     *)
EXTENDS ApprovalSafety, ClockProofs

-----------------------------------------------------------------------------
(* The type invariant of the gate and of its history: whatever is called   *)
(* and however often the tick wraps, the statics stay in range.            *)
THEOREM ApprovalTypes == Spec => []TypeOK
<1>1. Init => TypeOK
  <2> SUFFICES ASSUME Init PROVE TypeOK
    OBVIOUS
  <2>1. ApprovalTypeOK
    BY ZeroIsTick DEF Init, ApprovalInit, ApprovalTypeOK
  <2> QED
    BY <2>1, ZeroIsTick DEF Init, TypeOK, ClockInit
<1>2. TypeOK /\ [Next]_vars => TypeOK'
  <2> SUFFICES ASSUME TypeOK, [Next]_vars PROVE TypeOK'
    OBVIOUS
  <2> USE DEF TypeOK, ApprovalTypeOK, approvalVars
  <2>a. ClearApprovedCheck => ApprovalTypeOK'
    BY ZeroIsTick DEF ClearApprovedCheck
  <2>b. ExpireApprovedCheckIfNeeded => ApprovalTypeOK'
    BY <2>a DEF ExpireApprovedCheckIfNeeded
  <2>c. MarkConfirmed => ApprovalTypeOK'
    BY DEF MarkConfirmed
  <2>1. CASE Tick
    BY <2>1, LaterIsTick DEF Tick, ClockTick
  <2>2. ASSUME NEW text \in Texts, Check(text) PROVE TypeOK'
    <3>1. CheckSummary[text] \in Summaries \cup {NoSummary}
      BY ApprovalAssumption
    <3>2. ApprovalTypeOK'
      BY <2>2, <2>a, <3>1, ZeroIsTick DEF Check, RecordApprovedCheck
    <3> QED
      BY <2>2, <3>1, <3>2 DEF Check
  <2>3. ASSUME NEW text \in Texts, Sign(text) PROVE TypeOK'
    <3>1. ApprovalTypeOK'
      BY <2>3, <2>a, <2>b DEF Sign, SignMatchesApprovedCheckText
    <3> QED
      BY <2>3, <3>1 DEF Sign, historyVars
  <2>4. CASE ButtonConfirm
    <3>1. ApprovalTypeOK'
      BY <2>4, <2>b, <2>c DEF ButtonConfirm, ConfirmApprovedCheck
    <3> QED
      BY <2>4, <3>1 DEF ButtonConfirm, NoteConfirmation, ConfirmSucceeds
  <2>5. ASSUME NEW code \in Codes \cup {NoCode}, CodeConfirm(code) PROVE TypeOK'
    <3>1. ApprovalTypeOK'
      BY <2>5, <2>a, <2>b, <2>c DEF CodeConfirm, ConfirmApprovedCheckCode
    <3> QED
      BY <2>5, <3>1 DEF CodeConfirm, NoteConfirmation, CodeAccepted, ConfirmSucceeds
  <2>6. CASE Query
    BY <2>6, <2>b DEF Query, historyVars
  <2>7. CASE Finish
    BY <2>7, <2>a DEF Finish, historyVars
  <2>8. CASE Reset
    BY <2>8, <2>a, ZeroIsTick DEF Reset
  <2>9. CASE UNCHANGED vars
    BY <2>9 DEF vars, historyVars
  <2> QED
    BY <2>1, <2>2, <2>3, <2>4, <2>5, <2>6, <2>7, <2>8, <2>9 DEF Next
<1> QED
  BY <1>1, <1>2, PTL DEF Spec

-----------------------------------------------------------------------------
(* The user part needs no clock: it is inductive on its own.               *)
LEMMA UserPartInductive ==
  ASSUME TypeOK, UserPart, ClosedGateIsWiped, [Next]_vars
  PROVE  UserPart' /\ ClosedGateIsWiped'
<1> USE DEF UserPart, WrongCodeIsFinal, ClosedGateIsWiped, TypeOK, ApprovalTypeOK,
            approvalVars
<1>a. ClearApprovedCheck => /\ ~pending' /\ ~confirmed'
                            /\ ClosedGateIsWiped'
  BY DEF ClearApprovedCheck
<1>b. ExpireApprovedCheckIfNeeded =>
         \/ ~pending' /\ ~confirmed' /\ ClosedGateIsWiped'
         \/ UNCHANGED approvalVars
  BY <1>a DEF ExpireApprovedCheckIfNeeded
<1>1. CASE Tick
  BY <1>1 DEF Tick
<1>2. ASSUME NEW text \in Texts, Check(text) PROVE UserPart' /\ ClosedGateIsWiped'
  <2>1. CASE CheckSummary[text] = NoSummary
    BY <1>2, <1>a, <2>1 DEF Check, RecordApprovedCheck
  <2>2. CASE CheckSummary[text] # NoSummary
    BY <1>2, <2>2 DEF Check, RecordApprovedCheck
  <2> QED
    BY <2>1, <2>2
<1>3. ASSUME NEW text \in Texts, Sign(text) PROVE UserPart' /\ ClosedGateIsWiped'
  BY <1>3, <1>a, <1>b DEF Sign, SignMatchesApprovedCheckText, historyVars
<1>4. CASE ButtonConfirm
  <2>1. CASE ConfirmSucceeds
    BY <1>4, <2>1 DEF ButtonConfirm, ConfirmApprovedCheck, NoteConfirmation,
                      ConfirmSucceeds, MarkConfirmed
  <2>2. CASE ~ConfirmSucceeds
    BY <1>4, <1>b, <2>2 DEF ButtonConfirm, ConfirmApprovedCheck, NoteConfirmation
  <2> QED
    BY <2>1, <2>2
<1>5. ASSUME NEW code \in Codes \cup {NoCode}, CodeConfirm(code)
      PROVE  UserPart' /\ ClosedGateIsWiped'
  <2>1. CASE ~ConfirmSucceeds
    BY <1>5, <1>b, <2>1 DEF CodeConfirm, ConfirmApprovedCheckCode, NoteConfirmation,
                            CodeAccepted
  <2>2. CASE ConfirmSucceeds /\ code = NoCode
    <3>1. UNCHANGED approvalVars
      <4>1. displayed \in Summaries
        BY <2>2 DEF ConfirmSucceeds
      <4>2. code # CodeOf[approvedCheck]
        BY <2>2, <4>1, ApprovalAssumption DEF ConfirmSucceeds
      <4> QED
        BY <1>5, <2>2, <4>2 DEF CodeConfirm, ConfirmApprovedCheckCode, CodeAccepted
    <3> QED
      BY <1>5, <2>2, <3>1 DEF CodeConfirm, NoteConfirmation
  <2>3. CASE CodeAccepted(code)
    <3>1. MarkConfirmed
      <4>1. displayed \in Summaries
        BY <2>3 DEF CodeAccepted, ConfirmSucceeds
      <4>2. code # NoCode
        BY <2>3, <4>1, ApprovalAssumption DEF CodeAccepted, ConfirmSucceeds
      <4> QED
        BY <1>5, <2>3, <4>2 DEF CodeConfirm, ConfirmApprovedCheckCode, CodeAccepted
    <3> QED
      BY <1>5, <2>3, <3>1 DEF CodeConfirm, NoteConfirmation, CodeAccepted,
                              ConfirmSucceeds, MarkConfirmed
  <2>4. CASE ConfirmSucceeds /\ code \notin {NoCode, CodeOf[approvedCheck]}
    <3>1. ClearApprovedCheck
      BY <1>5, <2>4 DEF CodeConfirm, ConfirmApprovedCheckCode, CodeAccepted
    <3> QED
      BY <1>5, <1>a, <2>4, <3>1 DEF CodeConfirm, NoteConfirmation
  <2> QED
    BY <2>1, <2>2, <2>3, <2>4 DEF CodeAccepted
<1>6. CASE Query
  BY <1>6, <1>b DEF Query, historyVars
<1>7. CASE Finish
  BY <1>7, <1>a DEF Finish, historyVars
<1>8. CASE Reset
  BY <1>8, <1>a DEF Reset
<1>9. CASE UNCHANGED vars
  BY <1>9 DEF vars, historyVars
<1> QED
  BY <1>1, <1>2, <1>3, <1>4, <1>5, <1>6, <1>7, <1>8, <1>9 DEF Next

(* A SIGN passes the gate only for the summary the user was shown by the   *)
(* last CHECK and confirmed since.                                         *)
THEOREM GateFollowsUserHolds == Spec => []GateFollowsUser
<1>1. Init => UserPart /\ ClosedGateIsWiped
  BY DEF Init, ApprovalInit, UserPart, WrongCodeIsFinal, ClosedGateIsWiped
<1>2. TypeOK /\ UserPart /\ ClosedGateIsWiped /\ [Next]_vars
        => UserPart' /\ ClosedGateIsWiped'
  BY UserPartInductive
<1>3. UserPart => GateFollowsUser
  BY DEF UserPart, GateFollowsUser, SignMatchesApproved
<1> QED
  BY <1>1, <1>2, <1>3, ApprovalTypes, PTL DEF Spec

(* What is still to be confirmed and what is closed, for good: the user's  *)
(* part and the wiped state, which need one another.                       *)
LEMMA UserPartHolds == Spec => [](UserPart /\ ClosedGateIsWiped)
<1>1. Init => UserPart /\ ClosedGateIsWiped
  BY DEF Init, ApprovalInit, UserPart, WrongCodeIsFinal, ClosedGateIsWiped
<1>2. TypeOK /\ UserPart /\ ClosedGateIsWiped /\ [Next]_vars
        => UserPart' /\ ClosedGateIsWiped'
  BY UserPartInductive
<1> QED
  BY <1>1, <1>2, ApprovalTypes, PTL DEF Spec

(* One wrong code closes the gate until the next CHECK.                    *)
THEOREM WrongCodeIsFinalHolds == Spec => []WrongCodeIsFinal
<1>1. UserPart => WrongCodeIsFinal
  BY DEF UserPart
<1> QED
  BY <1>1, UserPartHolds, PTL

(* A closed gate keeps no trace of what it approved.                       *)
THEOREM ClosedGateIsWipedHolds == Spec => []ClosedGateIsWiped
BY UserPartHolds, PTL

-----------------------------------------------------------------------------
(* The age part: as long as no approval is left alone for a whole turn of  *)
(* the counter, the modular age is the real one.                           *)
LEMMA AgePartInductive ==
  ASSUME MaxSilence < TickMod,
         TypeOK, UserPart, AgePart, ClosedGateIsWiped, [Next]_vars
  PROVE  AgePart'
<1> USE DEF AgePart, TypeOK, ApprovalTypeOK
<1>a. ClearApprovedCheck => ~pending'
  BY DEF ClearApprovedCheck
<1>b. ExpireApprovedCheckIfNeeded => ~pending' \/ UNCHANGED approvalVars
  BY <1>a DEF ExpireApprovedCheckIfNeeded
<1>e. ASSUME UNCHANGED <<now, idle>>, ~pending' \/ UNCHANGED approvalVars
      PROVE  AgePart'
  <2>1. UNCHANGED approvalVars => ApprovalBase' = ApprovalBase
    BY DEF approvalVars, ApprovalBase
  <2> QED
    BY <1>e, <2>1 DEF approvalVars
<1>c. ASSUME now' = now, idle' = 0, ApprovalBase' = now PROVE AgePart'
  <2>1. Elapsed(now', ApprovalBase') = 0
    BY <1>c, ElapsedSame
  <2> QED
    BY <1>c, <2>1, MaxSilenceAssumption
<1>d. MarkConfirmed => ApprovalBase' = now
  BY DEF MarkConfirmed, ApprovalBase
<1>1. CASE Tick
  <2> SUFFICES ASSUME pending' PROVE AgePart'
    OBVIOUS
  <2>1. UNCHANGED approvalVars /\ idle < MaxSilence /\ idle' = idle + 1 /\ pending
    BY <1>1 DEF Tick, approvalVars
  <2>2. ApprovalBase \in Ticks /\ ApprovalBase' = ApprovalBase
    BY <2>1 DEF ApprovalBase, approvalVars
  <2>3. Elapsed(now, ApprovalBase) + 1 < TickMod
    BY <2>1, TickModAssumption, MaxSilenceAssumption
  <2>4. Elapsed(now', ApprovalBase) = idle + 1
    BY <1>1, <2>1, <2>2, <2>3, ElapsedLater DEF Tick, ClockTick
  <2> QED
    BY <2>1, <2>2, <2>4, MaxSilenceAssumption
<1>2. ASSUME NEW text \in Texts, Check(text) PROVE AgePart'
  <2>1. CASE CheckSummary[text] = NoSummary
    BY <1>2, <1>a, <2>1 DEF Check, RecordApprovedCheck
  <2>2. CASE CheckSummary[text] # NoSummary
    <3>1. ApprovalBase' = now
      BY <1>2, <2>2 DEF Check, RecordApprovedCheck, ApprovalBase
    <3> QED
      BY <1>2, <1>c, <3>1 DEF Check
  <2> QED
    BY <2>1, <2>2
<1>3. ASSUME NEW text \in Texts, Sign(text) PROVE AgePart'
  BY <1>3, <1>a, <1>b, <1>e DEF Sign, SignMatchesApprovedCheckText, historyVars
<1>4. CASE ButtonConfirm
  <2>1. CASE ConfirmSucceeds
    BY <1>4, <1>c, <1>d, <2>1 DEF ButtonConfirm, ConfirmApprovedCheck, NoteConfirmation
  <2>2. CASE ~ConfirmSucceeds
    BY <1>4, <1>b, <1>e, <2>2 DEF ButtonConfirm, ConfirmApprovedCheck, NoteConfirmation
  <2> QED
    BY <2>1, <2>2
<1>5. ASSUME NEW code \in Codes \cup {NoCode}, CodeConfirm(code) PROVE AgePart'
  <2>1. CASE CodeAccepted(code) /\ MarkConfirmed
    BY <1>5, <1>c, <1>d, <2>1 DEF CodeConfirm, NoteConfirmation
  <2>2. CASE ~CodeAccepted(code)
    <3>1. ~pending' \/ UNCHANGED approvalVars
      BY <1>5, <1>a, <1>b, <2>2 DEF CodeConfirm, ConfirmApprovedCheckCode
    <3>2. now' = now /\ idle' = idle
      BY <1>5, <2>2 DEF CodeConfirm, NoteConfirmation
    <3> QED
      BY <1>e, <3>1, <3>2
  <2>3. CASE CodeAccepted(code) /\ ~MarkConfirmed
    <3>1. approvedCheck \in Summaries
      BY <2>3 DEF CodeAccepted, ConfirmSucceeds, UserPart
    <3>2. code # NoCode
      BY <2>3, <3>1, ApprovalAssumption DEF CodeAccepted
    <3> QED
      BY <1>5, <2>3, <3>2 DEF CodeConfirm, ConfirmApprovedCheckCode, CodeAccepted
  <2> QED
    BY <2>1, <2>2, <2>3
<1>6. CASE Query
  BY <1>6, <1>b, <1>e DEF Query, historyVars
<1>7. CASE Finish
  BY <1>7, <1>a, <1>e DEF Finish, historyVars
<1>8. CASE Reset
  BY <1>8, <1>a DEF Reset
<1>9. CASE UNCHANGED vars
  BY <1>9, <1>e DEF vars, historyVars
<1> QED
  BY <1>1, <1>2, <1>3, <1>4, <1>5, <1>6, <1>7, <1>8, <1>9 DEF Next

(* The full inductive invariant, in a device nobody leaves alone for a     *)
(* whole turn of the tick counter.                                         *)
LEMMA ApprovalInvHolds ==
  ASSUME MaxSilence < TickMod
  PROVE  Spec => [](TypeOK /\ UserPart /\ AgePart)
<1>1. Init => UserPart /\ AgePart /\ ClosedGateIsWiped
  BY DEF Init, ApprovalInit, UserPart, AgePart, WrongCodeIsFinal, ClosedGateIsWiped
<1>2. TypeOK /\ UserPart /\ AgePart /\ ClosedGateIsWiped /\ [Next]_vars
        => UserPart' /\ AgePart' /\ ClosedGateIsWiped'
  BY UserPartInductive, AgePartInductive
<1> QED
  BY <1>1, <1>2, ApprovalTypes, PTL DEF Spec

(* A SIGN passes the gate only within the timeout of real time.            *)
THEOREM GateIsFreshHolds ==
  ASSUME MaxSilence < TickMod
  PROVE  Spec => []GateIsFresh
<1>1. TypeOK /\ AgePart => GateIsFresh
  BY ApprovalAssumption, TickModAssumption
     DEF TypeOK, AgePart, GateIsFresh, SignMatchesApproved, ApprovalExpired
<1> QED
  BY <1>1, ApprovalInvHolds, PTL

(* An approval that timed out unconfirmed is never confirmed afterwards.   *)
THEOREM NoLateConfirmationHolds ==
  ASSUME MaxSilence < TickMod
  PROVE  Spec => NoLateConfirmation
<1>1. TypeOK /\ UserPart /\ AgePart /\ [Next]_vars
        => [(pending /\ ~confirmed /\ idle >= ApprovalTimeout) => ~confirmed']_vars
  <2> SUFFICES ASSUME TypeOK, UserPart, AgePart, Next,
                      pending, ~confirmed, idle >= ApprovalTimeout
               PROVE  ~confirmed'
    OBVIOUS
  <2>1. ApprovalExpired /\ ~ConfirmSucceeds
    BY DEF ApprovalExpired, ConfirmSucceeds, AgePart
  <2>2. ClearApprovedCheck => ~confirmed'
    BY DEF ClearApprovedCheck
  <2>3. ExpireApprovedCheckIfNeeded => ~confirmed'
    BY <2>1, <2>2 DEF ExpireApprovedCheckIfNeeded
  <2>4. CASE Tick
    BY <2>4 DEF Tick, approvalVars
  <2>5. ASSUME NEW text \in Texts, Check(text) PROVE ~confirmed'
    BY <2>2, <2>5 DEF Check, RecordApprovedCheck
  <2>6. ASSUME NEW text \in Texts, Sign(text) PROVE ~confirmed'
    BY <2>2, <2>3, <2>6 DEF Sign, SignMatchesApprovedCheckText
  <2>7. CASE ButtonConfirm
    BY <2>1, <2>3, <2>7 DEF ButtonConfirm, ConfirmApprovedCheck
  <2>8. ASSUME NEW code \in Codes \cup {NoCode}, CodeConfirm(code) PROVE ~confirmed'
    BY <2>1, <2>3, <2>8 DEF CodeConfirm, ConfirmApprovedCheckCode, CodeAccepted
  <2>9. CASE Query
    BY <2>3, <2>9 DEF Query
  <2>10. CASE Finish
    BY <2>2, <2>10 DEF Finish
  <2>11. CASE Reset
    BY <2>2, <2>11 DEF Reset
  <2> QED
    BY <2>4, <2>5, <2>6, <2>7, <2>8, <2>9, <2>10, <2>11 DEF Next
<1> QED
  BY <1>1, ApprovalInvHolds, PTL DEF Spec, NoLateConfirmation
=============================================================================
