------------------------- MODULE WalletUartHistory -------------------------
(***************************************************************************)
(* The firmware with the history variables of the approval gate, the       *)
(* button and the key provider.  They record what host and user did and    *)
(* how long ago, and nothing in the firmware reads them; with them, the    *)
(* firmware can be shown to use each component only as the specification   *)
(* of that component allows.                                               *)
(***************************************************************************)
EXTENDS WalletUartSafety

CONSTANT MaxSilence   \* longest real time anything that ages is left alone

VARIABLES
  idle, displayed, consented, guessedWrong,            \* see ApprovalSafety
  releasedSince, lastPollShut, startedShut, pressUsed, \* see ButtonSafety
  attemptMs, sinceAttempt, unspent,                    \* see KeyProviderSafety
  delivered   \* RAW_TX was sent since the last CHECK

gateHistory == <<idle, displayed, consented, guessedWrong, delivered>>
buttonHistory == <<releasedSince, lastPollShut, startedShut, pressUsed>>
keyHistory == <<attemptMs, sinceAttempt, unspent>>
history == <<gateHistory, buttonHistory, keyHistory>>
allVars == <<vars, history>>

HistoryInit ==
  /\ Init
  /\ idle = 0 /\ displayed = NoSummary /\ consented = FALSE /\ guessedWrong = FALSE
  /\ releasedSince = FALSE /\ lastPollShut = TRUE /\ startedShut = TRUE /\ pressUsed = FALSE
  /\ attemptMs = 0 /\ sinceAttempt = 0 /\ unspent = FALSE
  /\ delivered = FALSE
-----------------------------------------------------------------------------
(* The assumption of every theorem about ages: the clock does not run for  *)
(* longer than MaxSilence while an approval, a session, a derivation or a  *)
(* retry delay is open and nothing renews it.                              *)
Attended ==
  /\ pending => idle < MaxSilence
  /\ unlocked \/ unwrapping \/ retryUntil # 0 => sinceAttempt < MaxSilence

NoteTick ==
  /\ idle' = IF pending THEN idle + 1 ELSE 0
  /\ sinceAttempt' = IF sinceAttempt < MaxSilence THEN sinceAttempt + 1 ELSE sinceAttempt
  /\ UNCHANGED <<displayed, consented, guessedWrong, delivered, buttonHistory,
                 attemptMs, unspent>>

NoteUser ==
  /\ releasedSince' = (releasedSince \/ pressed)
  /\ pressUsed' = FALSE
  /\ UNCHANGED <<gateHistory, lastPollShut, startedShut, keyHistory>>

NoteCheck(text) ==
  /\ idle' = 0
  /\ displayed' = CheckSummary[text]
  /\ consented' = FALSE
  /\ guessedWrong' = FALSE
  /\ delivered' = FALSE
  /\ releasedSince' = ~pressed
  /\ startedShut' = lastPollShut
  /\ UNCHANGED <<lastPollShut, pressUsed, keyHistory>>

NoteConsent(accepted) ==
  /\ idle' = IF accepted THEN 0 ELSE idle
  /\ consented' = (consented \/ accepted)
  /\ UNCHANGED <<displayed, delivered>>

NoteCode(code) ==
  /\ NoteConsent(CodeAccepted(code))
  /\ guessedWrong' =
       (guessedWrong \/ (ConfirmSucceeds /\ code \notin {NoCode, CodeOf[approvedCheck]}))
  /\ UNCHANGED <<buttonHistory, keyHistory>>

(* Only a sample that is acted upon is a call of the gate. *)
NotePoll ==
  /\ IF AwaitsConfirmation /\ PressEdge
     THEN NoteConsent(ConfirmSucceeds)
     ELSE UNCHANGED <<idle, displayed, consented, delivered>>
  /\ lastPollShut' = ~AwaitsConfirmation
  /\ pressUsed' = (pressUsed \/ (~confirmed /\ confirmed'))
  /\ UNCHANGED <<guessedWrong, releasedSince, startedShut, keyHistory>>

NoteAttempt ==
  /\ attemptMs' = now
  /\ sinceAttempt' = 0
  /\ unspent' = FALSE
  /\ UNCHANGED <<gateHistory, buttonHistory>>

NoteUnwrap ==
  /\ unspent' = IF unlocked' THEN TRUE ELSE unspent
  /\ UNCHANGED <<gateHistory, buttonHistory, attemptMs, sinceAttempt>>

NoteRelease ==
  /\ unspent' = FALSE
  /\ UNCHANGED <<gateHistory, buttonHistory, attemptMs, sinceAttempt>>

(* The press that is being held is not over because the device restarts. *)
NoteReset ==
  /\ idle' = 0 /\ displayed' = NoSummary /\ consented' = FALSE /\ guessedWrong' = FALSE
  /\ delivered' = FALSE
  /\ releasedSince' = FALSE /\ lastPollShut' = TRUE /\ startedShut' = TRUE
  /\ attemptMs' = 0 /\ sinceAttempt' = 0 /\ unspent' = FALSE
  /\ UNCHANGED pressUsed

NoteAnswer ==
  /\ delivered' = TRUE
  /\ UNCHANGED <<idle, displayed, consented, guessedWrong, buttonHistory, keyHistory>>

(* Steps that are a call of none of the three, or one that no history      *)
(* variable is about.                                                      *)
Unnoted ==
  \/ BootStep
  \/ SeInitStep
  \/ ButtonInfo
  \/ UnlockInfo
  \/ Lock
  \/ \E text \in Texts : SignGranted(text) \/ SignRefused(text)
  \/ CheckSession
  \/ \E answered \in BOOLEAN : AskSecureElement(answered)
  \/ SignTx
  \/ PostcheckFails

HistoryNext ==
  \/ Tick /\ Attended /\ NoteTick
  \/ User /\ NoteUser
  \/ \E text \in Texts : Check(text) /\ NoteCheck(text)
  \/ \E code \in Codes \cup {NoCode} : Confirm(code) /\ NoteCode(code)
  \/ Poll /\ NotePoll
  \/ UnlockPin /\ NoteAttempt
  \/ Unwrap /\ NoteUnwrap
  \/ CopyKey /\ NoteRelease
  \/ SendTx /\ NoteAnswer
  \/ Reset /\ NoteReset
  \/ Unnoted /\ UNCHANGED history

HistorySpec == HistoryInit /\ [][HistoryNext]_allVars

LiveHistorySpec == HistorySpec /\ WF_vars(BusyStep)
-----------------------------------------------------------------------------
TheGate == INSTANCE ApprovalSafety
TheButton == INSTANCE ButtonSafety
TheKeys == INSTANCE KeyProviderSafety

(* The loop calls the gate, the button and the key provider only as their  *)
(* own specifications allow, in every order that commands, samples, ticks, *)
(* derivations and resets come in: what is shown of each alone is true of  *)
(* it here.                                                                *)
UsesTheGate == TheGate!Spec
UsesTheButton == TheButton!Spec
UsesTheKeys == TheKeys!Spec
-----------------------------------------------------------------------------
(* From the display to the answer, in real time.  A SIGN gets past the     *)
(* gate only if the last CHECK displayed what it asks for, the user        *)
(* consented to that, and less than ApprovalTimeout ago; the secure        *)
(* element is asked about the key only less than SessionTimeout after the  *)
(* PIN was entered, and for a PIN whose key has not been handed out yet;   *)
(* the key, whenever it then comes out of its session, comes out once; and *)
(* what RAW_TX carries in the end is still what was displayed and          *)
(* consented to, and sent for the first time since.                        *)
SignsForTheUser ==
  [][/\ pc = "read" /\ pc' = "key"
          => displayed = CheckSummary[cmd'] /\ consented /\ idle < ApprovalTimeout
     /\ pc = "key" /\ pc' = "authorize"
          => unspent /\ sinceAttempt < SessionTimeout
     /\ ~privateKey /\ privateKey'
          => unspent /\ ~unspent'
     /\ SendTx
          => displayed = sent' /\ consented /\ ~delivered]_allVars
-----------------------------------------------------------------------------
(* The inductive strengthening of that, beyond the one of WalletUartSafety.*)

(* An open approval is what was displayed and not yet answered, a stored   *)
(* confirmation the user's, and the modular age of both is the real one.   *)
ConsentPart ==
  /\ idle \in Nat
  /\ confirmed => consented
  /\ pending => /\ displayed = approvedCheck
                /\ ~delivered
                /\ Elapsed(now, ApprovalBase) = idle
                /\ idle <= MaxSilence

(* A session, open or in the making, is dated by the last PIN attempt, and *)
(* an open one has its key to give.                                        *)
PinPart ==
  /\ attemptMs \in Ticks
  /\ sinceAttempt \in 0 .. MaxSilence
  /\ unlocked => unspent /\ startedMs = attemptMs
  /\ unwrapping => unwrapMs = attemptMs
  /\ unlocked \/ unwrapping => Elapsed(now, attemptMs) = sinceAttempt
=============================================================================
