---------------------------- MODULE ButtonSafety ----------------------------
(***************************************************************************)
(* The button and the approval gate, driven by a host that sends CHECKs    *)
(* and confirmation codes whenever it likes and by a user whose finger     *)
(* moves between any two steps.                                            *)
(***************************************************************************)
EXTENDS ButtonConfirm

VARIABLES
  releasedSince,  \* the button was up at some moment since the open CHECK
  lastPollShut,   \* the last sample was taken with no confirmation awaited
  startedShut,    \* ... and so it was when the open CHECK arrived
  pressUsed       \* the press being held has already confirmed something

historyVars == <<releasedSince, lastPollShut, startedShut, pressUsed>>
vars == <<now, approvalVars, pressed, buttonVars, historyVars>>

Init ==
  /\ ClockInit
  /\ ApprovalInit
  /\ pressed \in BOOLEAN
  /\ ButtonInit
  /\ releasedSince = FALSE
  /\ lastPollShut = TRUE
  /\ startedShut = TRUE
  /\ pressUsed = FALSE

Tick ==
  /\ ClockTick
  /\ UNCHANGED <<approvalVars, pressed, buttonVars, historyVars>>

User ==
  /\ MoveButton
  /\ releasedSince' = (releasedSince \/ pressed)
  /\ pressUsed' = FALSE
  /\ UNCHANGED <<now, approvalVars, buttonVars, lastPollShut, startedShut>>

Check(text) ==
  /\ RecordApprovedCheck(CheckSummary[text])
  /\ releasedSince' = ~pressed
  /\ startedShut' = lastPollShut
  /\ UNCHANGED <<now, pressed, buttonVars, lastPollShut, pressUsed>>

CodeConfirm(code) ==
  /\ ConfirmApprovedCheckCode(code)
  /\ UNCHANGED <<now, pressed, buttonVars, historyVars>>

Sign(text) ==
  /\ SignMatchesApprovedCheckText(text)
  /\ UNCHANGED <<now, pressed, buttonVars, historyVars>>

Query ==
  /\ ExpireApprovedCheckIfNeeded
  /\ UNCHANGED <<now, pressed, buttonVars, historyVars>>

(* The signed transaction was sent. *)
Finish ==
  /\ pending /\ confirmed
  /\ ClearApprovedCheck
  /\ UNCHANGED <<now, pressed, buttonVars, historyVars>>

Poll ==
  /\ PollButton
  /\ lastPollShut' = ~AwaitsConfirmation
  /\ pressUsed' = (pressUsed \/ (~confirmed /\ confirmed'))
  /\ UNCHANGED <<now, pressed, releasedSince, startedShut>>

(* Power cycle or NRST: the firmware forgets that it saw the button, the   *)
(* finger stays where it is.                                               *)
Reset ==
  /\ now' = 0
  /\ ClearApprovedCheck
  /\ ButtonReset
  /\ releasedSince' = FALSE
  /\ lastPollShut' = TRUE
  /\ startedShut' = TRUE
  /\ UNCHANGED <<pressed, pressUsed>>

Next ==
  \/ Tick
  \/ User
  \/ \E text \in Texts : Check(text) \/ Sign(text)
  \/ \E code \in Codes \cup {NoCode} : CodeConfirm(code)
  \/ Query
  \/ Finish
  \/ Poll
  \/ Reset

Spec == Init /\ [][Next]_vars
-----------------------------------------------------------------------------
TypeOK ==
  /\ now \in Ticks
  /\ ApprovalTypeOK
  /\ ButtonTypeOK
  /\ releasedSince \in BOOLEAN
  /\ lastPollShut \in BOOLEAN
  /\ startedShut \in BOOLEAN
  /\ pressUsed \in BOOLEAN

(* This step is the button confirming an approval. *)
ButtonConfirms == ~confirmed /\ confirmed' /\ lastMs' # lastMs

(* A finger that stays down confirms at most one approval, whatever the    *)
(* host sends while it is down (armed is dropped on success and needs a    *)
(* released sample), and even if the device is reset under it.             *)
OnePressOneApproval == [][ButtonConfirms => ~pressUsed]_vars

(* A CHECK that arrives at a device seen idle needs a press begun after    *)
(* it: the finger that was already down when the summary appeared does not *)
(* count.                                                                  *)
FreshPressFromIdle == [][ButtonConfirms /\ startedShut => releasedSince]_vars

(* The same for every CHECK, as the comment of the C3.6 regression has it: *)
(* a button held before the CHECK is stale.  The code does not keep this:  *)
(* a CHECK that replaces an unconfirmed one inherits its armed button.     *)
FreshPress == [][ButtonConfirms => releasedSince]_vars
-----------------------------------------------------------------------------
(* The inductive strengthening of the passing properties.                  *)

(* A press that has confirmed something is still down, and was seen down   *)
(* since the last reset, or else the reset has disarmed the button.        *)
UsedPart == pressUsed => pressed /\ (prevPressed \/ ~armed)

(* A sample with no confirmation awaited disarms; and as long as a CHECK   *)
(* is open that arrived after such a sample, armed means that the button   *)
(* was up since.                                                           *)
ArmedPart ==
  /\ lastPollShut => ~armed
  /\ pending => /\ ~pressed => releasedSince
                /\ startedShut /\ armed => releasedSince

ButtonInv == TypeOK /\ UsedPart /\ ArmedPart
=============================================================================
