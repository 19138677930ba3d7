--------------------------- MODULE ButtonConfirm ---------------------------
(***************************************************************************)
(* The USER button of wallet_uart.c.  The level is sampled only when the   *)
(* receive loop has been idle for one poll interval, so presses, releases  *)
(* and whole commands fall between two samples.                            *)
(***************************************************************************)
EXTENDS Approval

CONSTANT Debounce   \* WALLET_UART_BUTTON_DEBOUNCE_MS

ASSUME ButtonAssumption == Debounce \in 1 .. TickMod - 1

VARIABLES
  pressed,      \* the level of the pin, moved by the user
  armed,        \* a released sample was seen while a confirmation was awaited
  prevPressed,  \* the previous sample
  lastMs        \* when a press was last acted upon

buttonVars == <<armed, prevPressed, lastMs>>

ButtonTypeOK ==
  /\ pressed \in BOOLEAN
  /\ armed \in BOOLEAN
  /\ prevPressed \in BOOLEAN
  /\ lastMs \in Ticks

ButtonInit ==
  /\ armed = FALSE
  /\ prevPressed = FALSE
  /\ lastMs = 0

(* What a reset of the microcontroller leaves. *)
ButtonReset ==
  /\ armed' = FALSE
  /\ prevPressed' = FALSE
  /\ lastMs' = 0

(* peek_approved_check and peek_confirmed_approved_check: no expiry here *)
AwaitsConfirmation == pending /\ ~confirmed

(* Mutant: acts on the level of the pin, not on an armed edge. *)
PressLevel == pressed /\ Elapsed(now, lastMs) >= Debounce

PressEdge ==
  /\ pressed
  /\ armed
  /\ ~prevPressed
  /\ Elapsed(now, lastMs) >= Debounce

(* Mutant: stays armed while no confirmation is awaited. *)
PollStaysArmed ==
  /\ prevPressed' = pressed
  /\ \/ ~AwaitsConfirmation /\ UNCHANGED <<armed, lastMs, approvalVars>>
     \/ /\ AwaitsConfirmation
        /\ ~PressEdge
        /\ armed' = (armed \/ ~pressed)
        /\ UNCHANGED <<lastMs, approvalVars>>
     \/ /\ AwaitsConfirmation
        /\ PressEdge
        /\ lastMs' = now
        /\ ConfirmApprovedCheck
        /\ UNCHANGED armed

PollButton ==
  /\ prevPressed' = pressed
  /\ \/ /\ ~AwaitsConfirmation
        /\ armed' = FALSE
        /\ UNCHANGED <<lastMs, approvalVars>>
     \/ /\ AwaitsConfirmation
        /\ ~PressEdge
        /\ armed' = (armed \/ ~pressed)
        /\ UNCHANGED <<lastMs, approvalVars>>
     \/ /\ AwaitsConfirmation
        /\ PressEdge
        /\ lastMs' = now
        /\ ConfirmApprovedCheck
        /\ armed' = (armed /\ ~ConfirmSucceeds)

(* The user. *)
MoveButton == pressed' = ~pressed
=============================================================================
