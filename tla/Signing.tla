------------------------------ MODULE Signing ------------------------------
(***************************************************************************)
(* From a SIGN that has passed the gate to its answer: the secure element  *)
(* is asked, the key handed out, the transaction signed and serialized,    *)
(* the result looked at and sent.  The element is brought up first; the    *)
(* history remembers which calls the chip answered in the current attempt. *)
(* The transactions are those the interface of the core allows: the policy *)
(* lets fewer through (IsPayment), the core does not rely on it.           *)
(***************************************************************************)
EXTENDS SecureElement, TxCore

CONSTANTS
  Transactions,   \* what the core may be asked to sign
  DerLengths      \* what ecdsa_sig_to_der may return

ASSUME SigningAssumption ==
  /\ DerLengths \subseteq Int
  /\ \A tx \in Transactions : IsTx(tx)

(* Mutant: the buffer of a transaction with one input. *)
RawSizeOneInput == 256

RawSize == 512    \* sizeof signed_tx_raw
HexSize == 1024   \* sizeof signed_tx_hex

VARIABLES
  answered,   \* calls of the secure element answered since lt_init
  at,         \* where SIGN is in wallet_uart_run
  request,    \* the transaction of the command in the buffer
  key,        \* wallet_uart_private_key holds the key
  reply,      \* how the last SIGN was answered
  sent        \* the bytes of its RAW_TX

signVars == <<at, request, key, reply, sent>>
vars == <<seVars, coreVars, answered, signVars>>

NoRequest == [inputs |-> <<>>]

Init ==
  /\ SeInit
  /\ CoreInit
  /\ answered = {}
  /\ at = "boot"
  /\ request = NoRequest
  /\ key = FALSE
  /\ reply = "nothing"
  /\ sent = <<>>

-----------------------------------------------------------------------------
Start == at = "boot" /\ BeginInit /\ UNCHANGED <<coreVars, answered, signVars>>

(* A failed attempt closes the handle: what it had answered is void. *)
Boot(ok) ==
  /\ at = "boot"
  /\ SeBootStep(ok)
  /\ answered' = IF ok THEN answered \cup {sePhase} ELSE {}
  /\ UNCHANGED <<coreVars, signVars>>

(* wallet_uart_run goes on with the element and stops for good without it. *)
Serve ==
  /\ at = "boot"
  /\ sePhase \in {"ready", "failed"}
  /\ at' = IF sePhase = "ready" THEN "top" ELSE "halted"
  /\ UNCHANGED <<seVars, coreVars, answered, request, key, reply, sent>>

Halted == at = "halted" /\ UNCHANGED vars   \* while (1)

(* clear_shared_debug before every command. *)
LoopTop ==
  /\ at = "top"
  /\ at' = "prompt"
  /\ raw' = <<>>
  /\ key' = FALSE
  /\ UNCHANGED <<coreAt, coreInput, coreOk, pubkey33, preimage, hash1, digest, sig64, sigs>>
  /\ UNCHANGED <<seVars, answered, request, reply, sent>>

(* A SIGN whose text has passed the gate and the policy. *)
BeginSign(tx) ==
  /\ at = "prompt"
  /\ at' = "key"
  /\ request' = tx
  /\ reply' = "nothing"
  /\ sent' = <<>>
  /\ UNCHANGED <<seVars, coreVars, answered, key>>

(* An error answer: the command is cleared and the loop starts over. *)
Refused ==
  /\ at' = "top"
  /\ request' = NoRequest
  /\ reply' = "refused"
  /\ UNCHANGED sent

(* The key provider asks the element, then hands out the key, and the core *)
(* is called with it.                                                      *)
GetKey(answers) ==
  /\ at = "key"
  /\ AuthorizeKeyUse(answers)
  /\ \/ /\ Authorized(answers)
        /\ key' = TRUE
        /\ at' = "core"
        /\ CoreStart(request)
        /\ UNCHANGED <<request, reply, sent>>
     \/ ~Authorized(answers) /\ Refused /\ UNCHANGED <<coreVars, key>>
  /\ UNCHANGED answered

Core ==
  /\ at = "core"
  /\ CoreStep(request, RawSize) \/ \E len \in DerLengths : StoreSignature(request, len)
  /\ UNCHANGED <<seVars, answered, signVars>>

(* wallet_bytes_to_hex has room for the digits of raw and a zero byte. *)
HexFits == 2 * Len(raw) + 1 <= HexSize

(* sign_text_with_private_key is back: the key is wiped, an error answered.*)
SignReturns ==
  /\ at = "core" /\ coreAt = "idle"
  /\ key' = FALSE
  /\ \/ coreOk /\ HexFits /\ at' = "check" /\ UNCHANGED <<request, reply, sent>>
     \/ ~(coreOk /\ HexFits) /\ Refused
  /\ UNCHANGED <<seVars, coreVars, answered>>

(* What splitting the digits for the debugger returns; the parts stop at   *)
(* 500 digits, whatever the length.                                        *)
HexPartsOk == 2 * Len(raw) < HexSize

(* signed_tx_ok, signed_tx_hex_ok and signed_tx_hex_parts_ok; hex digits   *)
(* 0, 1 and 8, 9 are the bytes 1 and 5.                                    *)
PostcheckOk ==
  /\ Len(raw) > 4
  /\ \A k \in 0 .. 3 : raw[Len(raw) - k] = 0
  /\ raw[1] = 1
  /\ raw[5] \in {1, 2}
  /\ HexPartsOk

(* RAW_TX, or ERR POSTCHECK; both clear the result and the command. *)
Postcheck ==
  /\ at = "check"
  /\ IF PostcheckOk
     THEN /\ at' = "top"
          /\ request' = NoRequest
          /\ reply' = "signed"
          /\ sent' = raw
     ELSE Refused
  /\ raw' = <<>>
  /\ UNCHANGED <<coreAt, coreInput, coreOk, pubkey33, preimage, hash1, digest, sig64, sigs>>
  /\ UNCHANGED <<seVars, answered, key>>

SignStep ==
  \/ LoopTop
  \/ \E answers \in BOOLEAN : GetKey(answers)
  \/ Core
  \/ SignReturns
  \/ Postcheck

Next ==
  \/ Start
  \/ \E ok \in BOOLEAN : Boot(ok)
  \/ Serve
  \/ Halted
  \/ \E tx \in Transactions : BeginSign(tx)
  \/ SignStep

(* The processor runs, and every call of a library returns: libtropic with *)
(* an answer or a timeout.  The host may stop asking.                      *)
Spec ==
  /\ Init /\ [][Next]_vars
  /\ WF_vars(Start \/ \E ok \in BOOLEAN : Boot(ok))
  /\ WF_vars(Serve)
  /\ WF_vars(SignStep)
=============================================================================
