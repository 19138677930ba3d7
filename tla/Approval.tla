------------------------------ MODULE Approval ------------------------------
(***************************************************************************)
(* The approval gate of wallet_command.c: the five statics that remember   *)
(* the last CHECK the policy accepted, whether the user confirmed it, and  *)
(* when.  A SIGN goes on to the key provider only through SignMatches.     *)
(* Every operation first drops an approval that is too old; nothing else   *)
(* does, there is no timer callback.                                       *)
(***************************************************************************)
EXTENDS Clock

CONSTANTS
  Texts,            \* command texts a host may send
  Summaries,        \* what check_summary_text can extract from a text
  Codes,            \* six-digit confirmation codes
  NoSummary,        \* the zeroed summary; also the summary of a rejected text
  NoCode,           \* a confirmation without a well-formed code
  CheckSummary,     \* text |-> summary, NoSummary where policy rejects it
  CodeOf,           \* summary |-> the code derived from its CHECK_ID
  ApprovalTimeout   \* WALLET_COMMAND_APPROVAL_TIMEOUT_MS

ASSUME ApprovalAssumption ==
  /\ NoSummary \notin Summaries
  /\ NoCode \notin Codes
  /\ CheckSummary \in [Texts -> Summaries \cup {NoSummary}]
  /\ CodeOf \in [Summaries -> Codes]
  /\ ApprovalTimeout \in 1 .. TickMod - 1

VARIABLES
  approvedCheck,   \* the stored summary
  pending,         \* a CHECK was accepted and is still open
  confirmed,       \* ... and the user confirmed it
  recordedMs,      \* when it was accepted
  confirmedMs      \* when it was (last) confirmed

approvalVars == <<approvedCheck, pending, confirmed, recordedMs, confirmedMs>>

ApprovalTypeOK ==
  /\ approvedCheck \in Summaries \cup {NoSummary}
  /\ pending \in BOOLEAN
  /\ confirmed \in BOOLEAN
  /\ recordedMs \in Ticks
  /\ confirmedMs \in Ticks

ApprovalInit ==
  /\ approvedCheck = NoSummary
  /\ pending = FALSE
  /\ confirmed = FALSE
  /\ recordedMs = 0
  /\ confirmedMs = 0

-----------------------------------------------------------------------------
ApprovalBase == IF confirmed THEN confirmedMs ELSE recordedMs

ApprovalExpired ==
  pending /\ Elapsed(now, ApprovalBase) >= ApprovalTimeout

(* Mutant: the summary outlives its approval. *)
ClearKeepsSummary ==
  /\ pending' = FALSE
  /\ confirmed' = FALSE
  /\ recordedMs' = 0
  /\ confirmedMs' = 0
  /\ UNCHANGED approvedCheck

ClearApprovedCheck ==
  /\ approvedCheck' = NoSummary
  /\ pending' = FALSE
  /\ confirmed' = FALSE
  /\ recordedMs' = 0
  /\ confirmedMs' = 0

(* has_approved_check, has_confirmed_approved_check, approved_check_age_ms *)
(* and get_confirm_code change the state only by dropping an old approval. *)
ExpireApprovedCheckIfNeeded ==
  IF ApprovalExpired THEN ClearApprovedCheck ELSE UNCHANGED approvalVars

(* Mutant: a new CHECK inherits the confirmation of the old one. *)
RecordKeepsConfirmation(s) ==
  \/ /\ s = NoSummary
     /\ ClearApprovedCheck
  \/ /\ s # NoSummary
     /\ approvedCheck' = s
     /\ pending' = TRUE
     /\ recordedMs' = now
     /\ UNCHANGED <<confirmed, confirmedMs>>

(* A CHECK whose summary is s: recorded, or the gate is cleared when the   *)
(* policy rejected it.                                                     *)
RecordApprovedCheck(s) ==
  \/ /\ s = NoSummary
     /\ ClearApprovedCheck
  \/ /\ s # NoSummary
     /\ approvedCheck' = s
     /\ pending' = TRUE
     /\ confirmed' = FALSE
     /\ recordedMs' = now
     /\ confirmedMs' = 0

(* Mutant: keeps a deadline instead of a timestamp. *)
MarkConfirmedDeadline ==
  /\ confirmed' = TRUE
  /\ confirmedMs' = now + ApprovalTimeout
  /\ UNCHANGED <<approvedCheck, pending, recordedMs>>

MarkConfirmed ==
  /\ confirmed' = TRUE
  /\ confirmedMs' = now
  /\ UNCHANGED <<approvedCheck, pending, recordedMs>>

(* Mutant: confirms without dropping an old approval first. *)
ConfirmSucceedsLate == pending

ConfirmSucceeds == pending /\ ~ApprovalExpired

(* confirm_approved_check, the button's way in *)
ConfirmApprovedCheck ==
  \/ ConfirmSucceeds /\ MarkConfirmed
  \/ ~ConfirmSucceeds /\ ExpireApprovedCheckIfNeeded

CodeAccepted(code) == ConfirmSucceeds /\ code = CodeOf[approvedCheck]

(* Mutant: a wrong code may be tried again. *)
ConfirmCodeRetry(code) ==
  \/ ~ConfirmSucceeds /\ ExpireApprovedCheckIfNeeded
  \/ CodeAccepted(code) /\ MarkConfirmed
  \/ ConfirmSucceeds /\ ~CodeAccepted(code) /\ UNCHANGED approvalVars

(* confirm_approved_check_code, the host's way in.  A missing code leaves  *)
(* the approval, a wrong one destroys it.                                  *)
ConfirmApprovedCheckCode(code) ==
  \/ /\ ~ConfirmSucceeds
     /\ ExpireApprovedCheckIfNeeded
  \/ /\ ConfirmSucceeds
     /\ code = NoCode
     /\ UNCHANGED approvalVars
  \/ /\ CodeAccepted(code)
     /\ MarkConfirmed
  \/ /\ ConfirmSucceeds
     /\ code \notin {NoCode, CodeOf[approvedCheck]}
     /\ ClearApprovedCheck

(* Mutant: SIGN does not look at the age of the approval. *)
SignMatchesAnyAge(text) ==
  /\ confirmed
  /\ CheckSummary[text] # NoSummary
  /\ CheckSummary[text] = approvedCheck

(* sign_matches_approved_check_text returns WALLET_POLICY_OK *)
SignMatchesApproved(text) ==
  /\ pending
  /\ ~ApprovalExpired
  /\ confirmed
  /\ CheckSummary[text] # NoSummary
  /\ CheckSummary[text] = approvedCheck

(* ... and what it does to the gate: only expiry and a confirmed approval  *)
(* of something else clear it.                                             *)
SignMatchesApprovedCheckText(text) ==
  IF /\ ConfirmSucceeds
     /\ confirmed
     /\ CheckSummary[text] \notin {NoSummary, approvedCheck}
  THEN ClearApprovedCheck
  ELSE ExpireApprovedCheckIfNeeded
=============================================================================
