------------------------------- MODULE Policy -------------------------------
(***************************************************************************)
(* What the firmware makes of a command text: the fields it finds in it,   *)
(* the summary that CHECK displays and records, the rules that CHECK and   *)
(* SIGN apply, and the transaction that SIGN builds.  A text is a sequence *)
(* of lines KEY=value; a value is a number, a word, a script or a          *)
(* transaction id.  Which error code a rejection carries is left out.      *)
(***************************************************************************)
EXTENDS Integers, Sequences, FiniteSetsExt

CONSTANTS
  U32,          \* 2^32
  U64,          \* 2^64
  MaxPay,       \* WALLET_POLICY_MAX_PAY_SATS
  MaxFee,       \* WALLET_POLICY_MAX_FEE_SATS
  DustLimit,    \* WALLET_POLICY_DUST_LIMIT_SATS
  KiloByte,     \* the 1000 of sats per kilobyte
  MaxFeeRate,   \* WALLET_POLICY_MAX_FEE_RATE_SATS_PER_KVB
  Vbytes        \* estimated size of a transaction with one or two inputs

MaxInputs == 2

ASSUME PolicyAssumption ==
  /\ {U32, U64, MaxPay, MaxFee, DustLimit, KiloByte, MaxFeeRate} \subseteq Nat \ {0}
  /\ Vbytes \in [1 .. MaxInputs -> Nat]
  /\ MaxInputs < U32 /\ U32 <= U64
  /\ MaxPay < U64
  /\ MaxFee * KiloByte < U64

Number(n) == [num |-> n]
Word(w) == [word |-> w]
Script(s) == [script |-> s]
Txid(t) == [txid |-> t]
Empty == Word("")

(* The scripts the firmware knows; "stranger" stands for any other P2PKH   *)
(* script, "odd" for any script of another type.                           *)
Scripts == {"own", "recipient", "stranger", "testnetChange", "odd"}
P2pkhScripts == {"own", "recipient", "stranger"}

NoSummary == [network |-> "none"]

-----------------------------------------------------------------------------
(* Fields of a text. *)

AliasKey == [
  NETWORK |-> "PSBT_GLOBAL_NETWORK",
  TXID_LE |-> "PSBT_INPUT0_TXID_LE",
  VOUT |-> "PSBT_INPUT0_VOUT",
  INPUT_SATS |-> "PSBT_INPUT0_SATS",
  PREV_SCRIPT |-> "PSBT_INPUT0_PREV_SCRIPT",
  PAY_SCRIPT |-> "PSBT_OUTPUT0_SCRIPT",
  PAY_SATS |-> "PSBT_OUTPUT0_SATS",
  CHANGE_SCRIPT |-> "PSBT_OUTPUT1_SCRIPT",
  CHANGE_SATS |-> "PSBT_OUTPUT1_SATS"]

NativeKeys == DOMAIN AliasKey
Input1Keys == {"PSBT_INPUT1_TXID_LE", "PSBT_INPUT1_VOUT",
               "PSBT_INPUT1_SATS", "PSBT_INPUT1_PREV_SCRIPT"}

(* Keys whose mere mention makes a text PSBT-like; COMMENT stands for a    *)
(* line that mentions one of them elsewhere than at its start.             *)
PsbtMarks ==
  {AliasKey[key] : key \in NativeKeys} \cup Input1Keys
    \cup {"WALLET_CMD_FORMAT", "PSBT_INPUT_COUNT", "PSBT_OUTPUT_COUNT",
          "PSBT_OUTPUT0_ROLE", "PSBT_OUTPUT1_ROLE", "PSBT_OUTPUT1_DERIVATION", "COMMENT"}

LinesWith(text, key) == {i \in DOMAIN text : text[i].key = key}
ContainsExactKey(text, key) == LinesWith(text, key) # {}

(* The first line with the key counts, or else the first with its alias; a *)
(* line without a value is found and is no value.                          *)
FindValue(text, key) ==
  LET native == LinesWith(text, key)
      alias == IF key \in NativeKeys THEN LinesWith(text, AliasKey[key]) ELSE {}
      found == IF native # {} THEN native ELSE alias
  IN  IF found = {} THEN Empty ELSE text[Min(found)].val

ValueEquals(text, key, expected) == FindValue(text, key) = expected

HasNumber(text, key) == DOMAIN FindValue(text, key) = {"num"}
HasScript(text, key) == DOMAIN FindValue(text, key) = {"script"}
HasTxid(text, key) == DOMAIN FindValue(text, key) = {"txid"}

ParseScript(text, key) == FindValue(text, key).script
ParseTxid(text, key) == FindValue(text, key).txid
(* Mutant: a number keeps more than its 32 bits. *)
ParseU32Wide(text, key) == FindValue(text, key).num

ParseU32(text, key) == FindValue(text, key).num % U32
ParseU64(text, key) == FindValue(text, key).num % U64

InputCount(text) ==
  IF ContainsExactKey(text, "PSBT_INPUT_COUNT")
  THEN ParseU32(text, "PSBT_INPUT_COUNT") ELSE 1

-----------------------------------------------------------------------------
(* Format and network. *)

IsPsbtLike(text) == \E i \in DOMAIN text : text[i].key \in PsbtMarks

IsTestnet(text) == ValueEquals(text, "NETWORK", Word("TESTNET"))

NetworkAllowed(text) ==
  IsTestnet(text) \/ ValueEquals(text, "NETWORK", Word("REGTEST"))

StaticChange == Word("mvp-static-change/0")
TestnetChange == Word("m/84h/1h/0h/1/0")

DerivationOk(text) ==
  IF IsTestnet(text)
  THEN ValueEquals(text, "PSBT_OUTPUT1_DERIVATION", TestnetChange)
  ELSE ContainsExactKey(text, "PSBT_OUTPUT1_DERIVATION")
         => ValueEquals(text, "PSBT_OUTPUT1_DERIVATION", StaticChange)

(* validate_c5_0_format_text: rules for PSBT-like texts only *)
FormatOk(text) ==
  IsPsbtLike(text) =>
    /\ ValueEquals(text, "WALLET_CMD_FORMAT", Word("C5.0_PSBT_LIKE_TEXT_V1"))
    /\ FindValue(text, "PSBT_INPUT_COUNT") \in {Number(1), Number(2)}
    /\ ValueEquals(text, "PSBT_OUTPUT_COUNT", Number(2))
    /\ ValueEquals(text, "PSBT_OUTPUT0_ROLE", Word("PAYMENT"))
    /\ ValueEquals(text, "PSBT_OUTPUT1_ROLE", Word("CHANGE"))
    /\ ValueEquals(text, "PSBT_INPUT_COUNT", Number(2))
         => \A key \in Input1Keys : ContainsExactKey(text, key)
    /\ DerivationOk(text)
    /\ \A key \in NativeKeys : ~ContainsExactKey(text, key)

CountOk(text) ==
  /\ ContainsExactKey(text, "PSBT_INPUT_COUNT") => HasNumber(text, "PSBT_INPUT_COUNT")
  /\ InputCount(text) \in 1 .. MaxInputs

-----------------------------------------------------------------------------
(* The parsers CHECK and SIGN share ... *)

Input0 == [txid |-> "TXID_LE", vout |-> "VOUT", sats |-> "INPUT_SATS",
           script |-> "PREV_SCRIPT"]
Input1 == [txid |-> "PSBT_INPUT1_TXID_LE", vout |-> "PSBT_INPUT1_VOUT",
           sats |-> "PSBT_INPUT1_SATS", script |-> "PSBT_INPUT1_PREV_SCRIPT"]
InputKeys == <<Input0, Input1>>
InputsOf(text) == 1 .. InputCount(text)

OutpointsLegible(text) ==
  \A i \in InputsOf(text) :
    HasTxid(text, InputKeys[i].txid) /\ HasNumber(text, InputKeys[i].vout)

AmountsLegible(text) ==
  /\ \A i \in InputsOf(text) :
       HasNumber(text, InputKeys[i].sats) /\ HasScript(text, InputKeys[i].script)
  /\ HasNumber(text, "PAY_SATS") /\ HasScript(text, "PAY_SCRIPT")
  /\ HasNumber(text, "CHANGE_SATS") /\ HasScript(text, "CHANGE_SCRIPT")

InputSats(text, i) ==
  IF i \in InputsOf(text) THEN ParseU64(text, InputKeys[i].sats) ELSE 0

(* Mutant: the sum of two inputs is not tested for overflow. *)
TotalUntested(text) == TRUE

TotalFits(text) == InputSats(text, 2) <= U64 - 1 - InputSats(text, 1)
TotalInput(text) == (InputSats(text, 1) + InputSats(text, 2)) % U64

(* ... and their rules. *)
CheckAmounts(input, pay, change, count) ==
  LET outputs == (pay + change) % U64
      fee == (input - outputs) % U64
  IN  /\ input # 0
      /\ count \in 1 .. MaxInputs
      /\ pay \in DustLimit .. MaxPay
      /\ change >= DustLimit
      /\ pay <= U64 - 1 - change
      /\ outputs <= input
      /\ fee <= MaxFee
      /\ (fee * KiloByte) % U64 <= MaxFeeRate * Vbytes[count]

IsThisP2pkh(script, wanted) == script \in P2pkhScripts /\ script = wanted

ChangeScriptOk(text) ==
  LET script == ParseScript(text, "CHANGE_SCRIPT")
  IN  IF IsTestnet(text) THEN script = "testnetChange" ELSE IsThisP2pkh(script, "own")

RulesOk(text) ==
  /\ CheckAmounts(TotalInput(text), ParseU64(text, "PAY_SATS"),
                  ParseU64(text, "CHANGE_SATS"), InputCount(text))
  /\ \A i \in InputsOf(text) : IsThisP2pkh(ParseScript(text, InputKeys[i].script), "own")
  /\ IsThisP2pkh(ParseScript(text, "PAY_SCRIPT"), "recipient")
  /\ ChangeScriptOk(text)

-----------------------------------------------------------------------------
(* check_policy_text returns WALLET_POLICY_OK *)
CheckPolicyText(text) ==
  /\ FormatOk(text)
  /\ NetworkAllowed(text)
  /\ CountOk(text)
  /\ AmountsLegible(text)
  /\ TotalFits(text)
  /\ RulesOk(text)

(* ... and so does check_summary_text *)
CheckSummaryText(text) ==
  /\ FormatOk(text)
  /\ CountOk(text)
  /\ OutpointsLegible(text)
  /\ AmountsLegible(text)
  /\ TotalFits(text)
  /\ NetworkAllowed(text)
  /\ RulesOk(text)

(* The summary of an accepted text, without its check id, which is made of *)
(* the other fields below.                                                 *)
Summary(text) ==
  LET paid == ParseU64(text, "PAY_SATS")
      kept == ParseU64(text, "CHANGE_SATS")
      total == TotalInput(text)
  IN  [network |-> FindValue(text, "NETWORK").word,
       inputs |-> [i \in InputsOf(text) |->
                    [txid |-> ParseTxid(text, InputKeys[i].txid),
                     vout |-> ParseU32(text, InputKeys[i].vout),
                     sats |-> InputSats(text, i),
                     script |-> ParseScript(text, InputKeys[i].script)]],
       totalSats |-> total,
       payScript |-> ParseScript(text, "PAY_SCRIPT"),
       paySats |-> paid,
       changeScript |-> ParseScript(text, "CHANGE_SCRIPT"),
       changeSats |-> kept,
       feeSats |-> IF paid <= total /\ kept <= total - paid THEN total - paid - kept ELSE 0]

(* What the check id of a summary is the hash of: lines NAME=value, with   *)
(* numbers digit by digit.                                                 *)
Digit == [i \in 0 .. 9 |-> <<"0", "1", "2", "3", "4", "5", "6", "7", "8", "9">>[i + 1]]

Decimal[n \in 0 .. U64 - 1] ==
  IF n < 10 THEN <<Digit[n]>> ELSE Append(Decimal[n \div 10], Digit[n % 10])

Field(name, value) == <<name, "=">> \o value \o <<"newline">>

InputNames == <<
  [txid |-> "TXID_LE", vout |-> "VOUT", sats |-> "INPUT_SATS", script |-> "PREV_SCRIPT"],
  [txid |-> "INPUT1_TXID_LE", vout |-> "INPUT1_VOUT", sats |-> "INPUT1_SATS",
   script |-> "INPUT1_PREV_SCRIPT"]>>

(* Mutant: the output that the second input spends is forgotten. *)
InputFieldsOneVout(summary, i) ==
  LET input == summary.inputs[i]
      names == InputNames[i]
  IN  Field(names.txid, <<input.txid>>)
        \o (IF i = 1 THEN Field(names.vout, Decimal[input.vout]) ELSE <<>>)
        \o Field(names.sats, Decimal[input.sats]) \o Field(names.script, <<input.script>>)

InputFields(summary, i) ==
  LET input == summary.inputs[i]
      names == InputNames[i]
  IN  Field(names.txid, <<input.txid>>) \o Field(names.vout, Decimal[input.vout])
        \o Field(names.sats, Decimal[input.sats]) \o Field(names.script, <<input.script>>)

(* compute_check_id, up to the hash *)
CheckId(summary) ==
  LET count == Len(summary.inputs)
  IN  <<"WALLET_CHECK_ID_VERSION_LABEL", "newline">>
        \o Field("NETWORK", <<summary.network>>)
        \o Field("INPUT_COUNT", Decimal[count])
        \o InputFields(summary, 1)
        \o (IF count = 2 THEN InputFields(summary, 2) ELSE <<>>)
        \o Field("TOTAL_INPUT_SATS", Decimal[summary.totalSats])
        \o Field("PAY_SCRIPT", <<summary.payScript>>)
        \o Field("PAY_SATS", Decimal[summary.paySats])
        \o Field("CHANGE_SCRIPT", <<summary.changeScript>>)
        \o Field("CHANGE_SATS", Decimal[summary.changeSats])
        \o Field("FEE_SATS", Decimal[summary.feeSats])

(* CHECK shows the amounts through (unsigned long), 32 bits wide. *)
Displayed(summary) ==
  [summary EXCEPT
     !.inputs = [i \in DOMAIN @ |-> [@[i] EXCEPT !.sats = @ % U32]],
     !.totalSats = @ % U32, !.paySats = @ % U32,
     !.changeSats = @ % U32, !.feeSats = @ % U32]

(* Mutant: the output of the second input is read from the first. *)
TransactionSameVout(text) ==
  [inputs |-> [i \in InputsOf(text) |->
                [txid |-> ParseTxid(text, InputKeys[i].txid),
                 vout |-> ParseU32(text, Input0.vout)]],
   outputs |-> <<[script |-> ParseScript(text, "PAY_SCRIPT"),
                  sats |-> ParseU64(text, "PAY_SATS")],
                 [script |-> ParseScript(text, "CHANGE_SCRIPT"),
                  sats |-> ParseU64(text, "CHANGE_SATS")]>>]

(* sign_text_core parses the text once more, checks it once more and       *)
(* builds what it signs.                                                   *)
Transaction(text) ==
  [inputs |-> [i \in InputsOf(text) |->
                [txid |-> ParseTxid(text, InputKeys[i].txid),
                 vout |-> ParseU32(text, InputKeys[i].vout)]],
   outputs |-> <<[script |-> ParseScript(text, "PAY_SCRIPT"),
                  sats |-> ParseU64(text, "PAY_SATS")],
                 [script |-> ParseScript(text, "CHANGE_SCRIPT"),
                  sats |-> ParseU64(text, "CHANGE_SATS")]>>]

(* sign_p2pkh_multi_2out_tx looks at the sums again before it signs. *)
SumsOk(text) ==
  LET paid == ParseU64(text, "PAY_SATS")
      outputs == (paid + ParseU64(text, "CHANGE_SATS")) % U64
  IN  /\ outputs >= paid
      /\ TotalFits(text)
      /\ TotalInput(text) # 0 => TotalInput(text) >= outputs

SignTextCore(text) ==
  /\ NetworkAllowed(text)
  /\ FormatOk(text)
  /\ CountOk(text)
  /\ OutpointsLegible(text)
  /\ AmountsLegible(text)
  /\ TotalFits(text)
  /\ RulesOk(text)
  /\ SumsOk(text)
=============================================================================
