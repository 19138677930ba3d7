---------------------------- MODULE SigningGate ----------------------------
(***************************************************************************)
(* What the wallet promises its user: a transaction leaves the device only *)
(* if it is the one the device has shown last, the user has approved it    *)
(* after it was shown, and a PIN session was spent on it; each approval    *)
(* and each session is good for one signature.  No clock, no button, no    *)
(* codes, no secure element: those are how the firmware keeps the promise. *)
(***************************************************************************)
CONSTANTS
  Transactions,   \* what can be shown and signed
  Nothing         \* no transaction

VARIABLES
  shown,      \* the transaction that awaits approval or signing
  approved,   \* the user approved it
  session,    \* a PIN was entered and not spent yet
  phase,      \* how far the signing of it is
  sent        \* the last transaction that left the device

vars == <<shown, approved, session, phase, sent>>

Init ==
  /\ shown = Nothing
  /\ approved = FALSE
  /\ session = FALSE
  /\ phase = "idle"
  /\ sent = Nothing

Show(tx) ==
  /\ phase = "idle"
  /\ shown' = tx
  /\ approved' = FALSE
  /\ UNCHANGED <<session, phase, sent>>

(* Rejected, timed out, mistyped code: the approval is gone, and with a    *)
(* rejection the session is too.                                           *)
Withdraw ==
  /\ phase = "idle"
  /\ shown' = Nothing
  /\ approved' = FALSE
  /\ session' \in {session, FALSE}
  /\ UNCHANGED <<phase, sent>>

Approve ==
  /\ phase = "idle"
  /\ shown # Nothing
  /\ approved' = TRUE
  /\ UNCHANGED <<shown, session, phase, sent>>

OpenSession ==
  /\ phase = "idle"
  /\ session' = TRUE
  /\ UNCHANGED <<shown, approved, phase, sent>>

CloseSession ==
  /\ phase = "idle"
  /\ session' = FALSE
  /\ UNCHANGED <<shown, approved, phase, sent>>

Grant ==
  /\ phase = "idle"
  /\ approved
  /\ phase' = "granted"
  /\ UNCHANGED <<shown, approved, session, sent>>

SpendSession ==
  /\ phase = "granted"
  /\ session
  /\ session' = FALSE
  /\ phase' = "keyed"
  /\ UNCHANGED <<shown, approved, sent>>

SignTx ==
  /\ phase = "keyed"
  /\ phase' = "signed"
  /\ UNCHANGED <<shown, approved, session, sent>>

(* The signing fails: nothing is sent and the approval stands. *)
Abort ==
  /\ phase # "idle"
  /\ phase' = "idle"
  /\ session' \in {session, FALSE}
  /\ UNCHANGED <<shown, approved, sent>>

Send ==
  /\ phase = "signed"
  /\ sent' = shown
  /\ shown' = Nothing
  /\ approved' = FALSE
  /\ phase' = "idle"
  /\ UNCHANGED session

PowerLoss ==
  /\ shown' = Nothing
  /\ approved' = FALSE
  /\ session' = FALSE
  /\ phase' = "idle"
  /\ UNCHANGED sent

Next ==
  \/ \E tx \in Transactions : Show(tx)
  \/ Withdraw
  \/ Approve
  \/ OpenSession
  \/ CloseSession
  \/ Grant
  \/ SpendSession
  \/ SignTx
  \/ Abort
  \/ Send
  \/ PowerLoss

Spec == Init /\ [][Next]_vars
=============================================================================
