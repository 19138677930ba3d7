# Verification of the STM32U5 + TROPIC01 wallet firmware

TLA+ models of the firmware under `src/Core`, model-checked with TLC; all safety
properties and refinements are also proved with TLAPS. Line numbers refer to
`src/Core/Src` unless a path is given.

The firmware is one thread: `wallet_uart_run` reads a command from the serial
port, serves it to the end and reads the next. What interleaves with it is the
1 ms tick interrupt, the USER button (a pin level, sampled by the thread when
the line is idle), the host at the other end of the line, the TROPIC01 secure
element, and a reset or power loss at any moment. Nothing is persistent: a
reset forgets everything.

## 1. Inventory

| Component | Code | State | Operations | Talks to |
|---|---|---|---|---|
| Tick counter | `main.c` 473-485 | `uwTick`, 32 bits | increment; `HAL_GetTick` | read by everything with a timeout |
| Approval gate | `wallet_command.c` 414-663 | summary, pending, confirmed, two timestamps | record (CHECK), clear, expire, confirm by button or code, match a SIGN, queries | command loop, button |
| Physical button | `wallet_uart.c` 169-214 | previous sample, armed flag, time of last press | poll once per idle interval | approval gate |
| Key provider | `wallet_key_provider.c` | session key, unlocked, start time; failure counter, retry deadline | unlock with PIN (slow), lock, expire, report, release the key | secure element, command loop |
| Secure element | `wallet_secure_element.c` | handle, initialized, result codes, authorization counter | bring-up with retries, authorize a key use | libtropic (external) |
| Command framing | `wallet_uart.c` 245-910, 1056-1412 | command buffer, six flags, three positions | one more line: header, payload, end; overflow, receive error | host |
| Policy and summary | `wallet_command.c` 39-201, 693-1831; `wallet_policy.c` | none (pure) | summary of a text, policy of a text, transaction of a text | approval gate, command loop |
| Transaction core | `wallet_core.c` 283-604 | buffers of one call: preimage, hashes, signatures | for each input serialize, hash twice, sign; serialize the result; wipe | command loop, crypto libraries (external) |
| Command loop | `wallet_uart.c` 2181-2536 | command buffer, private key buffer, signed transaction | every command; the pipeline SIGN -> key -> signature -> RAW_TX | all of the above |
| Information commands | `wallet_uart.c` 1470-1860 | none | print constants and mirrors | - |
| Board bring-up, crypto glue, debug self-tests, host scripts | see `PROJECT.json` | | | |

What is hard in it, and what makes each part correct:

* **Approval gate**: approvals are stored, replaced, confirmed, expired *when
  somebody asks* and wiped along many paths, with ages computed
  modulo 2^32. Correct: a SIGN passes only for the summary shown last,
  confirmed since, and recently; one wrong code is final.
* **Button**: sampled after 25 ms of silence only, so whole commands and whole
  presses fall between two samples. Correct: one press confirms one approval,
  and a finger already down when the summary appears does not count.
* **Key provider**: the tick is read, then a key derivation of seconds runs,
  then the old reading dates the session and the retry delay; deadlines are
  compared as signed differences, and 0 doubles as "none". The age of the session
  is looked at before the secure element is asked, and not again when it has
  answered. Correct: one key per PIN, asked for within a limited time, PINs
  spaced once the attempts are used up, and the spacing ends.
* **Secure element**: eight attempts share one handle and one set of result
  codes. Correct: ready means that one attempt was answered in full.
* **Framing**: no flow control; lines are lost, garbled, or end in the middle.
  Correct: a command is taken from a frame exactly when the frame is what it
  declares; a frame that arrives whole is always answered.
* **Policy**: a text is parsed three times by different functions with
  different orders of checks, in two formats, with numbers that wrap. Correct:
  what is signed is what was shown, and its amounts add up.
* **Transaction core**: one set of fixed buffers serves both inputs, script
  lengths become single bytes, any call may fail on either input, and the result
  passes through a byte, a hexadecimal and a debugger's buffer. Correct: the
  bytes of RAW_TX *mean* the transaction asked for, each signature is over its
  own input, nothing the policy accepts is too long, and nothing is left behind.
* **Command loop**: a key and a signed transaction travel through buffers with
  an error exit after each step. Correct: it keeps the promise of the abstract
  `SigningGate`, secrets stay in their place, the loop comes back.

The full list of hazards, with the line where each bites and the properties that
watch it, is under `hazards` in `PROJECT.json`.

## 2. Modules

```
Clock ---- Approval ---- ButtonConfirm --+
   \                                     +-- WalletUart --(refines)--> SigningGate
    \----- KeyProvider ------------------+
           SecureElement ----------------+
           SecureElement ----------------+-- Signing ----(refines)--> TxSigner
           TxCore -----------------------+   (RAW_TX read back by TxReader)
UartFrame (lines -> command)              Policy (text -> summary, transaction)
```

Each component is a module of operators on its variables (`Approval`,
`ButtonConfirm`, `KeyProvider`, `SecureElement`, `TxCore`, `UartFrame`,
`Policy`). A `...Safety` module drives it alone, with history variables, and states its
properties; `MC...` gives the constants values for TLC; `...Proofs` holds the
theorems. `WalletUart` composes the first four with the loop, *using the same
actions* that are checked and proved alone: there a text is a value and signing
one step. `WalletUartHistory` adds to it the history variables of the three
`...Safety` modules, so that it can be shown to be an implementation of each:
the drivers allow every order of calls, and the loop makes no other. `Signing`
is the same stretch of the loop seen from the other side: boot, the
authorization and the transaction core are in full detail, down to the bytes,
and the gate is taken as passed.

| Module | Code | Correspondence |
|---|---|---|
| `Clock` | the tick, and the subtractions and comparisons made on it | `Elapsed` is `(uint32_t)(now - t)`, `DeadlineReached` the signed comparison of `wallet_key_provider.c:163` |
| `Approval` | the statics at `wallet_command.c` 414-418 | `approvedCheck, pending, confirmed, recordedMs, confirmedMs`; one operator per function |
| `ButtonConfirm` | `wallet_uart_poll_button_confirm` | `armed, prevPressed, lastMs`; `pressed` is the pin |
| `KeyProvider` | the statics at `wallet_key_provider.c` 77-81 | `unlock_with_pin` is `BeginUnlock` and then `UnwrapFails` or `UnwrapSucceeds`; `unwrapMs` is its local `now_ms`; `get_private_key_bytes_for_command` is `BeginRelease` (417) and then `RefuseKey` (432) or `ReleaseKey` (438), with `releasing` in between |
| `SecureElement` | `wallet_secure_element_init`, `_authorize_key_use` | each libtropic call is a step that may fail |
| `TxCore` | `sign_p2pkh_multi_2out_tx` and its builders | the buffers of the function as byte sequences; one step per library call, `cleanup` a step of its own |
| `Signing` | the boot and the SIGN path of `wallet_uart_run`, `sign_text_core` | `at` is where the loop is; uses the actions of `SecureElement` and `TxCore` |
| `TxSigner` | nothing: what a signer promises | refined by `Signing` |
| `TxReader` | nothing: how the network reads bytes | gives the bytes in `sent` and under each signature their meaning for `TxSigner` |
| `WalletUart` | `wallet_uart_run` | `pc` is where the loop is; every handler that is not slow is one action; the release of the key is `CheckSession`, `AskSecureElement` and `CopyKey` |
| `SigningGate` | nothing: the abstract promise | refined by `WalletUart` |
| `WalletUartHistory` | nothing: history variables for `WalletUart` | one `Note...` per action says what the step is to gate, button and key provider; refines `ApprovalSafety`, `ButtonSafety` and `KeyProviderSafety` |
| `UartFrame` | `wallet_uart_read_command` and the line recognizers | its locals, and the buffer as a sequence of lines |
| `Policy` | `check_policy_text`, `check_summary_text`, `sign_text_core` and their helpers | operators on a text, a sequence of `KEY=value` lines |
| `PolicySafety` | CHECK and SIGN on a text the host edits in between | |

Abstractions, so that a reader knows what a step stands for:

* A handler is one step, and the ticks it reads are one instant, except where
  it is slow: the key derivation, the secure element and each stage of SIGN are
  steps of their own, with ticks and resets in between. So the session may time
  out between the check of its age and the copy of its key, and the key is
  handed out all the same, as in the code.
* In `WalletUart` a text is a value with a summary or without one
  (`CheckSummary`) that the policy accepts or not (`PolicyTexts`). That every
  text with a summary is accepted by the policy is an assumption there and a
  theorem of `PolicyProofs` (`SummaryMeansPolicy`).
* CHECK and SIGN with host key material in the text (`ERR KEYPOLICY`) and an
  `UNLOCK_PIN` that is empty or comes during the delay change nothing and are
  stuttering steps.
* The post-check of a signature may fail at any time (`PostcheckFails`); the
  signature itself succeeds or fails. `lt_deinit` is assumed to succeed.
* Which commands a line is, in `WalletUart`, is taken as given: `UartFrame` is
  the module about that. Its unit is the line: a line takes one place of the
  buffer and counts one in `FRAME_LEN`. What is left of a line cut by the end
  of the buffer or by a receive error is an unrecognized line or nothing.
* In `Policy` a value is a number, a word, a script or a transaction id; a
  number has one spelling, so `01` for `1` does not occur. A `COMMENT` line is
  a line that mentions a PSBT key elsewhere than at its start. TESTNET is allowed,
  as `wallet_build_config.h:37` has it; a build without that flag accepts fewer
  texts. Error codes are
  left out. The check id is the sequence of lines it is the hash of, with numbers
  digit by digit (`CheckId`); the confirmation code, which is taken from it, is
  an arbitrary function of the summary in `Approval`.
* In `TxCore` hashes, signatures and the public key are symbolic: `Sha256(x)`
  is a value that determines `x`, a signature determines digest and key. All
  other bytes are the real ones. DER has any length that the library may return.
  A call that fails leaves its output as it was, a buffer that is too small the
  beginning of what was to be written.
* `Signing` takes requests from the interface of the core, which allows more
  than the policy lets through: scripts of any length, amounts that do not add
  up. `IsPayment` marks those the policy accepts.

## 3. Runs

All instances are small on purpose: each bound is the smallest at which the case
it is about happens, and a little more.

| Run | States | Asks | Bounds and why they are enough |
|---|---|---|---|
| `approval` | 2,216 | the gate against any sequence of calls | tick of 8 values that wraps for ever, timeout 3, an approval left alone for up to 7 (almost a turn); three accepted texts, two of which share a code, and a rejected one |
| `button` | 49,185 | samples against host and finger | tick of 5 values that wraps, timeout 3, debounce 2 |
| `button_stale` | finding | a CHECK that replaces an unconfirmed one | same instance |
| `key_provider` | 3,200 | session, counter and delay | tick of 16 values that wraps for ever; session 4, delay 2, two attempts, counter saturating at 3; a delay or session left alone for up to 9: past the delay but less than half a turn after its end |
| `key_provider_idle` | finding | the same, left alone longer | up to 12 instead of 9 |
| `signing` | 6,217 | boot with its eight attempts, then SIGN down to the bytes of RAW_TX, with any call failing on any input | 64-bit sums of 16 bits; counter wraps at 3; ten transactions: one and two inputs, the same inputs in the other order, sums that do not cover or wrap, and scripts that bring raw, hex and preimage buffers to their exact edges and one past a byte; DER of 71, 72 and an invalid 0 bytes |
| `wallet` | 741,744 | the composed firmware, with its histories | tick of 3 values that stops at no tick (`Horizon` = `TickMod`) and so wraps for ever, every timeout 1, so that each is met and missed; four texts (two with different summaries whose codes collide, a rejected one, one with key material); one attempt for a PIN and for the secure element, since `key_provider` and `signing` cover more; an approval, a session or a delay is left alone for up to 1 (`MaxSilence`, see below) |
| `framing` | 466,807 | frames and bare lines over a bad line | a buffer of ten lines, so that two frames, or one with a long header, overflow it; payloads of up to three lines where two are allowed; two faults (loss, garbling, receive error, giving up, a bare line) at any place; a checksum that collides |
| `framing_argument` | finding | the argument of a command | same instance |
| `policy` | 128,036 | three readings of a text | 64-bit numbers of six bits, 32-bit numbers of four; four accepted texts (both formats, both networks, one and two inputs) and two edits: change, drop or put in front any line, with values at each edge of the rules |
| `policy_display` | finding | amounts shown | same instance |
| `policy_testnet` | finding | TESTNET change rule | same instance |

`policy` may stop when the host has no edits left, so its cfgs do not check
deadlock. Every other run does.

What the passing runs show, by property:

* `GateFollowsUser`, `GateIsFresh`, `WrongCodeIsFinal`, `NoLateConfirmation`,
  `ClosedGateIsWiped` - the gate follows what was shown and what the user did,
  in real time and not only in ticks, and leaves nothing behind.
* `OnePressOneApproval`, `FreshPressFromIdle` - what the button guarantees.
* `OneKeyPerPin`, `KeyOnlyInSession`, `KeyIsFresh`, `GuessesAreSpaced`,
  `DelayEnds` - the PIN session. `KeyIsFresh` bounds the age of the PIN when a
  release begins, which is the last time the code looks at it; the answer of the
  secure element may take any time after that. `GuessesAreSpaced` excepts a deadline that
  falls on tick 0, `DelayEnds` holds within the bound above: see section 6.
* `ReadyMeansAnswered`, `ResultIsHonest`, `BootEnds` - bring-up.
* `KeepsSigning` - `Signing` implements `TxSigner`: RAW_TX, read as the network
  reads it, is the transaction asked for, and each signature in it is over a
  preimage that reads as that transaction with the script of its own input; no
  more is spent than declared. `PreimageCommits` (equal hashed bytes mean equal
  outpoints, script, payments), `SignaturesInPlace`, `NothingLeftBehind`,
  `RoomForPayments` (no accepted payment meets a full buffer),
  `PostcheckNeverFails`, `EverySignAnswered`.
* `KeepsThePromise` - `WalletUart` implements `SigningGate`;
  `SecretsInPlace`, `AuthorizationBehindGate`, `EveryCommandEnds`.
* `SignsForTheUser` - the promise again, in terms of what host and user did
  rather than of the firmware's flags, and in real time: a SIGN passes the gate
  only for what the last CHECK displayed, consented to, less than
  `ApprovalTimeout` ago; the secure element is asked about the key less than
  `SessionTimeout` after the PIN came in; the key then leaves its session once
  per PIN, at whatever age; RAW_TX carries what was displayed and consented to,
  and is the first one since that CHECK.
* `ServesExactlyFrames` - the line-by-line parser against a definition of a
  frame that does not parse; `EveryFrameAnswered` - no state the reader was
  left in keeps it from answering a frame that arrives whole.
* `SignedIsApproved`, `ApprovedAddsUp` - the transaction signed is the one
  summarized, and its sums are true of whole numbers; `SameIdSameSummary` - two
  texts with the same check id have the same summary.

Ages are real while the tick is modular, so whatever compares the two assumes
that nothing ages for a whole turn of the tick unattended. The guard of `Tick` in
`ApprovalSafety` and `KeyProviderSafety`, and `Attended` in `WalletUartHistory`,
say so: the clock does not run for longer than `MaxSilence` while an approval, a
session, a derivation or a retry delay is open and no call renews it. In
`wallet` this guard holds for the other four safety properties too; the theorems
about them are about `WalletUart` without it.

Each property of a passing run has a mutant in `PROJECT.json`: a changed
definition, marked *Mutant* in its module, that violates it.

### Fairness

Only two specifications have any. `WalletUart`: weak fairness of `BusyStep`,
the steps the thread takes without waiting for host, user or time (boot, key
derivation, the stages of SIGN). The code is one thread with no other one to
starve it, so what this assumes is that each call it makes returns: bounded
loops, and HAL and libtropic calls with timeouts. The host, the user, the clock
and resets are never assumed to do anything. `Signing`: weak fairness of the
start, of the libtropic calls, and of the steps of a SIGN under way, for the same
reason; the host need not send a SIGN.

## 4. What is proved

TLAPS checks these for every value of the constants, under the named
assumptions on them (`TickModAssumption`, `ApprovalAssumption`,
`ButtonAssumption`, `KeyProviderAssumption`, `SecureElementAssumption`,
`WalletUartAssumption`, `MaxSilenceAssumption`, `PolicyAssumption`,
`UartFrameAssumption`, `TxCoreAssumption`, `SigningAssumption`, and the two
`HostAssumption`: the host of `PolicySafety` edits texts of lines, that of
`UartFrameSafety` sends lines), which TLC evaluates in the runs. Every safety
invariant, action property and refinement that a passing run checks is a theorem.

* **`ClockProofs`**: modular age and addition: `Elapsed` of one more tick, of a
  later deadline, and their ranges. The other proofs cite these.
* **`ApprovalProofs`**. Inductive invariant `ApprovalInv`: types; `UserPart`
  (an open approval is what was displayed, a stored confirmation is one the user
  gave, a wrong guess closed the gate); `AgePart` (the modular age of an open
  approval *is* its real age - without it nothing about time follows from
  timestamps); `ClosedGateIsWiped`. From it `GateFollowsUser`,
  `WrongCodeIsFinal`, `ClosedGateIsWiped`; and, if no approval is left alone for
  a full turn of the tick (`MaxSilence < TickMod`, 49.7 days), `GateIsFresh` and
  `NoLateConfirmation`.
* **`ButtonProofs`**. `ButtonInv`: types; `UsedPart` (a press that has confirmed
  something was sampled and is still down, so it has no edge left - or, after a
  reset, which forgets the sample, is not armed); `ArmedPart`
  (a sample with nothing to confirm disarms, and for a CHECK that came after
  such a sample armed means released since). From it `OnePressOneApproval` and
  `FreshPressFromIdle`. That `FreshPress` is not among them is the finding
  `button_stale`: `ArmedPart` needs the idle sample.
* **`KeyProviderProofs`**. `SessionPart` (buffer, flag and history move
  together, and a release under way has its session open), `AttemptPart` (every timestamp in use derives from the last attempt
  and its modular age is its real age), `DelayPart` (no deadline after the last
  attempt means the delay is over). From them `OneKeyPerPin`,
  `KeyOnlyInSession`; with `MaxSilence < TickMod`, `KeyIsFresh` (only `AskForKey`
  begins a release, and it looks at the age) and `GuessesAreSpaced`; with the deadline also not left alone for half a turn
  after its end, `DelayEnds`.
* **`WalletUartProofs`**. `IInv`: types, `ApprovalPart` (the statics of the gate
  agree), `SignPart` (what a SIGN under way knows of the gate it passed: the
  approval is still the one of its text), `KeyPart` (where secrets are, by
  where the loop is). From it `SecretsInPlace`, `AuthorizationBehindGate` and
  `PromiseKept`: every step of the firmware is a step of `SigningGate` or
  changes nothing in it. `SignPart` is what the step `SendTx` needs, `KeyPart`
  what `AskSecureElement`, `CopyKey` (the session that was checked is still open)
  and the steps that close a session need.
  The same module proves that the firmware uses its components as they are
  specified: `UsesTheGateHolds`, `UsesTheButtonHolds` and `UsesTheKeysHolds` say
  that `HistorySpec`, resets included, implements the specifications of
  `ApprovalSafety`, `ButtonSafety` and `KeyProviderSafety`, whose history is that
  of the firmware. So each theorem of `ApprovalProofs`, `ButtonProofs` and
  `KeyProviderProofs` is true of the firmware: a press that is still held after
  a reset confirms nothing, in any order of commands. That last inference is by
  instantiation and is not a theorem here, since the prover does not cite
  theorems through an INSTANCE. These three have no run of their own; TLC
  checks them, too, when they are added to the PROPERTIES of `MCWalletUart.cfg`.

  `SignsForTheUserHolds`, which does not take that way, needs `IInv` and two
  conjuncts more: `ConsentPart` (an open approval is what was displayed and not
  answered yet, a stored confirmation is the user's, and the modular age is the
  real one) and `PinPart` (a session, open or in the making, is dated by the last
  PIN attempt, and an open one has not given its key). It assumes `MaxSilence <
  TickMod`. From `pc = "read"` to RAW_TX `SignPart` carries the approval, and
  `ConsentPart` what the user knows of it.
* **`UartFrameProofs`**. `FrameInv`: types; `Bounds`; `Reads` (where in a frame
  the lines read so far stand: the line it opens at, the headers seen and the
  last of each kind, the payload still open or closed - or, once an error is
  noted, what spoils the frame for good); `FrameUnderWay` (a frame that has lost
  nothing still has its end coming, and a reader that will see it). From it
  `EveryFrameAnswered`, and `ServesExactlyFrames`: the flags and positions of
  the parser serve a text exactly when `FrameOf`, which knows no parser, says
  that it is a frame. That needs a text to be a frame in one way only (the
  lemmas `OneFrame`, `OnePayload`, `OneDeclaration`).
* **`PolicyProofs`**. `SummaryMeansPolicy`, and `SignedIsApproved` for any texts
  and any edits. `PolicyTypes` and `ApprovedAddsUp` for any texts whose numbers
  are natural: the first line with a key is a line of the text, each sum is
  tested before it is used, and `MaxFee * 1000` is the one product, which
  `PolicyAssumption` says fits. `SameIdSameSummary` for texts of any length and
  numbers of any width: the lines that are hashed can be read back from the end,
  since the decimal digits of a number have no `=` among them and determine the
  number. `ApprovedOfText` (an approved summary is that of some accepted text)
  is what makes it a statement about the one that was shown.
* **`SigningProofs`**. All of the run `signing` that is not liveness, in three
  parts.

  *Bytes.* Lengths, ends and bounds of what is serialized; then what `TxReader`
  makes of it. `Has` says that bytes stand at a place, `HasParts` follows a
  concatenation to its parts, `ReadNumber4`, `ReadNumber8` and `ReadField` read
  one field, `ReadsInput` and `ReadsOutput` one item, and `ReadsTx` a
  transaction with anything behind it - as long as every script fits the one
  byte its length has. From it `PreimageReadsBack` (what is hashed for an input
  reads as the commitment of its owner), with `PreimageIsInjective` as a
  consequence, and `SignedReadsBack` (RAW_TX reads as what was asked for, and
  so do the bytes under each of its signatures).

  *Invariants.* `SeInv` (what the handle answered), `RequestInv` (where loop
  and core are, and with which transaction), `BuffersInv` (which buffer is in
  use at which stage), `StageInv` (what is in it), `SigsInv` (one signature per
  input so far, each over a preimage that fitted), `RawInv` (ends and length of
  the result), `ResultInv` (what the core returns with 0 reads as what was asked
  for, and the sums held before it went to work). From them `PreimageCommits`,
  `NothingLeftBehind`, `SignaturesInPlace`, `RoomForPayments` (the fields of a
  payment added up against the sizes of the buffers), `PostcheckNeverFails`.

  *Refinement.* `KeepsSigningHolds`: `BeginSign` is `Ask`, each error answer is
  `Refuse`, a post-check that succeeds is `Sign`, and every other step changes
  nothing of `TxSigner`. `ResultInv` is what `Sign` needs, with `SumsCover`:
  sums compared in 64 bits are sums of whole numbers.

Only model-checked: liveness (`BootEnds`, `EveryCommandEnds`,
`EverySignAnswered`), which is beyond the prover; and that each finding is one.
Recursion is no obstacle as it is used here: digits and places in a byte
sequence are recursive functions, and their values are computed step by step
for the lengths the code has, or by induction written out on the smallest
number that differs.

## 5. Not modelled

Hashing, curve arithmetic and DER: `TxCore` has them as symbols that fail or
succeed. The functions of `wallet_core.c` for one input (134-274, 604-775),
which only the debugger's self-tests call. The key derivation and AES-GCM, whose
outcome is right or wrong. A failing random generator or PSA initialization
halts before the loop; that is in `WalletUart` only. The information commands,
which change nothing; board bring-up, vendored code, self-tests from a debugger,
and the host scripts, which are read as statements about the firmware only.
`wallet_secure_element_p256_selftest` and the two legacy entry points of the key
provider and of `wallet_command.c` are called by nothing or always refuse.

The truth of the input amounts is outside the firmware: it takes them from the
host's text, and the signature hash of a legacy input does not commit to them
(`PreimageCommits` says so), so the fee displayed is the one the host declares.

`WalletUart` lets the post-check fail at any time (`PostcheckFails`), which is
more than the code does: `PostcheckNeverFails` shows that this exit is never
taken. The sizes of the buffers do not quite match: 512 bytes fit
`signed_tx_raw`, but their digits do not fit `signed_tx_hex` with its zero byte
(payments need at most 392), and the copy cut into parts for a debugger holds the
first 500 digits only, which decides nothing.

## 6. Where code and statements disagree

With a run:

* `button_stale`: a CHECK that replaces an unconfirmed one inherits its armed
  button, so a press begun before the second CHECK was processed confirms it.
* `key_provider_idle`: a retry delay nobody asks about for more than 2^31 ms
  after its end is in force again.
* `framing_argument`: the PIN tried is read from the first line of the buffer,
  not from the line that was recognized.
* `policy_display`: 64-bit amounts are displayed modulo 2^32. The check id and
  the signature are over the whole numbers.
* `policy_testnet`: the derivation path of a TESTNET change output is asked of
  PSBT-like texts only; the change script is compared in both formats.

Without a run, since each follows from one line:

* `LOCK` and the other words that are compared with the whole buffer are not
  recognized behind an unrecognized line (`wallet_uart.c:1346`).
* A frame longer than the buffer ends the read with `ERR READ`, and its tail is
  then read as bare lines (`wallet_uart.c:1102`).
* A session that is young enough at `wallet_key_provider.c:417` gives its key at
  438 after the secure element has answered, although it may be older than
  `PIN_SESSION_TIMEOUT_MS` by then: the timeout bounds when a release may begin,
  not when it ends.
* A retry deadline that falls on tick 0 is read as none
  (`wallet_key_provider.c:162`), one millisecond in 2^32.
* A text with a bad network is refused with a field's error code by CHECK if
  the field is bad too, and with the network's by SIGN: the order of the checks
  differs.

* REALINFO prints a minimum fee and fee rate (`wallet_uart.c:1657`) that no check
  enforces: `MaxFee` and `MaxFeeRate` are the only bounds on a fee. It also
  prints `TESTNET_SIGNING_MODE_REQUIRES_PHYSICAL_CONFIRM=1`
  (`wallet_uart.c:1766`), although `CONFIRM_CODE` from the host confirms as well
  as the button.
* The static `pin` of the argument reader (`wallet_uart.c:1865`) keeps the last
  PIN until the next `UNLOCK_PIN`; the command buffer is cleared at each read.

## 7. Plan

Done: all modules above; a theorem for every safety property and every
refinement. Next, in this order:

1. `SigningGate` and `TxSigner` joined: the transaction that `WalletUart` sends
   is the one `Policy` builds from the text that was approved, and what the
   policy accepts is what `IsPayment` says, so that `RoomForPayments` speaks of
   every approved text.
2. A composition of `UartFrame` with the commands of `WalletUart`, so that what
   is served there is what was framed; the abstract specification would be a
   channel that delivers a command or an error.
3. The static PIN buffer of `unlock_pin_arg` and its zeroing.
