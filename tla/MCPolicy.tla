------------------------------ MODULE MCPolicy ------------------------------
(* Texts the firmware accepts, in both formats and on both networks, and   *)
(* values at the edges of its rules: amounts at the dust limit, above the  *)
(* payment limit, that wrap a sum, and that do not fit in 64 bits.         *)
EXTENDS PolicySafety, TLC

MCVbytes == <<4, 7>>

Outputs(change) == <<
  Line("PAY_SCRIPT", Script("recipient")), Line("PAY_SATS", Number(3)),
  Line("CHANGE_SCRIPT", Script(change)), Line("CHANGE_SATS", Number(4))>>

Legacy(network, change) == <<
  Line("NETWORK", Word(network)),
  Line("TXID_LE", Txid("a")), Line("VOUT", Number(0)),
  Line("INPUT_SATS", Number(10)), Line("PREV_SCRIPT", Script("own"))>> \o Outputs(change)

AsAlias(lines) ==
  [i \in DOMAIN lines |->
    IF lines[i].key \in NativeKeys THEN [lines[i] EXCEPT !.key = AliasKey[@]] ELSE lines[i]]

Psbt(count, network, change, more) ==
  <<Line("WALLET_CMD_FORMAT", Word("C5.0_PSBT_LIKE_TEXT_V1")),
    Line("PSBT_INPUT_COUNT", Number(count)), Line("PSBT_OUTPUT_COUNT", Number(2)),
    Line("PSBT_OUTPUT0_ROLE", Word("PAYMENT")), Line("PSBT_OUTPUT1_ROLE", Word("CHANGE"))>>
  \o more \o AsAlias(Legacy(network, change))

SecondInput == <<
  Line("PSBT_INPUT1_TXID_LE", Txid("b")), Line("PSBT_INPUT1_VOUT", Number(1)),
  Line("PSBT_INPUT1_SATS", Number(2)), Line("PSBT_INPUT1_PREV_SCRIPT", Script("own"))>>

MCTemplates == {
  Legacy("REGTEST", "own"),
  Legacy("TESTNET", "testnetChange"),
  Psbt(1, "TESTNET", "testnetChange", <<Line("PSBT_OUTPUT1_DERIVATION", TestnetChange)>>),
  Psbt(2, "REGTEST", "own", SecondInput) }

NativeValues ==
  ("NETWORK" :> {Word("REGTEST"), Word("MAINNET"), Empty}) @@
  ("TXID_LE" :> {Txid("b"), Word("x")}) @@
  ("VOUT" :> {Number(1), Number(17)}) @@
  ("INPUT_SATS" :> {Number(0), Number(20), Number(63), Number(74)}) @@
  ("PREV_SCRIPT" :> {Script("stranger"), Script("odd")}) @@
  ("PAY_SCRIPT" :> {Script("own")}) @@
  ("PAY_SATS" :> {Number(1), Number(2), Number(8)}) @@
  ("CHANGE_SCRIPT" :> {Script("own"), Script("testnetChange")}) @@
  ("CHANGE_SATS" :> {Number(1), Number(3), Number(16), Number(62)})

MCValues ==
  NativeValues @@
  [key \in {AliasKey[k] : k \in NativeKeys} |->
    NativeValues[CHOOSE k \in NativeKeys : AliasKey[k] = key]] @@
  ("WALLET_CMD_FORMAT" :> {Word("x")}) @@
  ("PSBT_INPUT_COUNT" :> {Number(1), Number(2), Number(3)}) @@
  ("PSBT_OUTPUT_COUNT" :> {Number(1)}) @@
  ("PSBT_OUTPUT0_ROLE" :> {Word("CHANGE")}) @@
  ("PSBT_OUTPUT1_ROLE" :> {Word("PAYMENT")}) @@
  ("PSBT_OUTPUT1_DERIVATION" :> {StaticChange}) @@
  ("PSBT_INPUT1_TXID_LE" :> {Txid("a")}) @@
  ("PSBT_INPUT1_VOUT" :> {Number(0)}) @@
  ("PSBT_INPUT1_SATS" :> {Number(3), Number(56)}) @@
  ("PSBT_INPUT1_PREV_SCRIPT" :> {Script("stranger")}) @@
  ("COMMENT" :> {Word("x")})
=============================================================================
