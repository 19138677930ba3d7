--------------------------- MODULE ApprovalSafety ---------------------------
(***************************************************************************)
(* The approval gate on its own: any sequence of calls, the tick running   *)
(* between them, and history variables that remember what the host and the *)
(* user really did.                                                        *)
(***************************************************************************)
EXTENDS Approval

CONSTANT MaxSilence   \* longest real time an approval may sit untouched

ASSUME MaxSilenceAssumption == MaxSilence \in Nat

VARIABLES
  idle,         \* real ms since the open approval was recorded or confirmed
  displayed,    \* summary of the last CHECK answered APPROVED, if it was the last
  consented,    \* the user confirmed since that CHECK
  guessedWrong  \* a wrong code was tried against that CHECK

historyVars == <<idle, displayed, consented, guessedWrong>>
vars == <<now, approvalVars, historyVars>>

Init ==
  /\ ClockInit
  /\ ApprovalInit
  /\ idle = 0
  /\ displayed = NoSummary
  /\ consented = FALSE
  /\ guessedWrong = FALSE

Tick ==
  /\ ClockTick
  /\ pending => idle < MaxSilence
  /\ idle' = IF pending THEN idle + 1 ELSE 0
  /\ UNCHANGED <<approvalVars, displayed, consented, guessedWrong>>

Check(text) ==
  /\ RecordApprovedCheck(CheckSummary[text])
  /\ displayed' = CheckSummary[text]
  /\ consented' = FALSE
  /\ guessedWrong' = FALSE
  /\ idle' = 0
  /\ UNCHANGED now

(* What a successful or failed confirmation leaves in the history. *)
NoteConfirmation(accepted) ==
  /\ idle' = IF accepted THEN 0 ELSE idle
  /\ consented' = (consented \/ accepted)
  /\ UNCHANGED <<now, displayed>>

ButtonConfirm ==
  /\ ConfirmApprovedCheck
  /\ NoteConfirmation(ConfirmSucceeds)
  /\ UNCHANGED guessedWrong

CodeConfirm(code) ==
  /\ ConfirmApprovedCheckCode(code)
  /\ NoteConfirmation(CodeAccepted(code))
  /\ guessedWrong' =
       (guessedWrong \/ (ConfirmSucceeds /\ code \notin {NoCode, CodeOf[approvedCheck]}))

Sign(text) ==
  /\ SignMatchesApprovedCheckText(text)
  /\ UNCHANGED <<now, historyVars>>

Query ==
  /\ ExpireApprovedCheckIfNeeded
  /\ UNCHANGED <<now, historyVars>>

(* The signed transaction was sent. *)
Finish ==
  /\ pending /\ confirmed
  /\ ClearApprovedCheck
  /\ UNCHANGED <<now, historyVars>>

(* Power cycle or NRST: the statics and the tick start over. *)
Reset ==
  /\ now' = 0
  /\ ClearApprovedCheck
  /\ idle' = 0
  /\ displayed' = NoSummary
  /\ consented' = FALSE
  /\ guessedWrong' = FALSE

Next ==
  \/ Tick
  \/ \E text \in Texts : Check(text) \/ Sign(text)
  \/ ButtonConfirm
  \/ \E code \in Codes \cup {NoCode} : CodeConfirm(code)
  \/ Query
  \/ Finish
  \/ Reset

Spec == Init /\ [][Next]_vars
-----------------------------------------------------------------------------
TypeOK ==
  /\ now \in Ticks
  /\ ApprovalTypeOK
  /\ idle \in Nat
  /\ displayed \in Summaries \cup {NoSummary}
  /\ consented \in BOOLEAN
  /\ guessedWrong \in BOOLEAN

(* A SIGN passes the gate only for the summary the last CHECK displayed,   *)
(* and only after the user confirmed that very display: neither a later    *)
(* CHECK nor a rejected one leaves a confirmation behind                   *)
(* (record_approved_check, clear_approved_check).                          *)
GateFollowsUser ==
  \A text \in Texts :
    SignMatchesApproved(text) => displayed = CheckSummary[text] /\ consented

(* A SIGN passes the gate only within ApprovalTimeout of real time from    *)
(* the confirmation, although timestamps are compared modulo TickMod and   *)
(* expiry happens only when somebody asks.                                 *)
GateIsFresh ==
  \A text \in Texts : SignMatchesApproved(text) => idle < ApprovalTimeout

(* One wrong code ends the approval for good: nothing but a new CHECK      *)
(* brings it back, so a code cannot be guessed twice.                      *)
WrongCodeIsFinal == guessedWrong => ~pending

(* An approval the user left unconfirmed past the timeout can never become *)
(* confirmed, by code or by button, however late the question is asked.    *)
NoLateConfirmation ==
  [][(pending /\ ~confirmed /\ idle >= ApprovalTimeout) => ~confirmed']_vars

(* No trace of a summary or a timestamp outlives its approval              *)
(* (clear_approved_check wipes all five statics).                          *)
ClosedGateIsWiped ==
  ~pending =>
    /\ approvedCheck = NoSummary
    /\ ~confirmed
    /\ recordedMs = 0
    /\ confirmedMs = 0
-----------------------------------------------------------------------------
(* The inductive strengthening of the invariants above.                    *)

(* An open approval is exactly what was displayed, and a confirmation in   *)
(* the statics is one the user gave.                                       *)
UserPart ==
  /\ pending => approvedCheck = displayed /\ displayed # NoSummary
  /\ confirmed => pending /\ consented
  /\ WrongCodeIsFinal

(* The modular age of an open approval is its real age. *)
AgePart ==
  pending => Elapsed(now, ApprovalBase) = idle /\ idle <= MaxSilence

ApprovalInv == TypeOK /\ UserPart /\ AgePart /\ ClosedGateIsWiped
=============================================================================
