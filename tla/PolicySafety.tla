---------------------------- MODULE PolicySafety ----------------------------
(***************************************************************************)
(* CHECK and SIGN on texts of a host that edits them in between.  The      *)
(* user's confirmation, time and the key are the concern of other modules: *)
(* here every approval counts as confirmed.                                *)
(***************************************************************************)
EXTENDS Policy

CONSTANTS
  Templates,   \* texts the host starts from
  Values,      \* for each key, the values the host may give it
  MaxEdits     \* bound on the changes it makes

Line(key, val) == [key |-> key, val |-> val]

HostValues ==
  UNION {Values[key] : key \in DOMAIN Values}
    \cup UNION {{template[i].val : i \in DOMAIN template} : template \in Templates}
HostLines == [key : DOMAIN Values, val : HostValues]

ASSUME HostAssumption ==
  /\ Templates \subseteq Seq(HostLines)
  /\ \A val \in HostValues : DOMAIN val = {"num"} => val.num \in Nat
  /\ MaxEdits \in Nat

VARIABLES
  text,       \* what the host will send next
  edits,      \* changes made to it so far
  approved,   \* wallet_command_approved_check, or NoSummary
  signed      \* text and transaction of the last RAW_TX, <<>> before it

vars == <<text, edits, approved, signed>>

Init ==
  /\ text \in Templates
  /\ edits = 0
  /\ approved = NoSummary
  /\ signed = <<>>

Without(seq, i) == SubSeq(seq, 1, i - 1) \o SubSeq(seq, i + 1, Len(seq))

(* A value changed, a line left out, or a line put in front of the others, *)
(* where it hides one with the same key.                                   *)
Edit ==
  /\ edits < MaxEdits
  /\ edits' = edits + 1
  /\ \/ \E i \in DOMAIN text : \E val \in Values[text[i].key] :
          text' = [text EXCEPT ![i].val = val]
     \/ \E i \in DOMAIN text : text' = Without(text, i)
     \/ \E key \in DOMAIN Values : \E val \in Values[key] :
          text' = <<Line(key, val)>> \o text
  /\ UNCHANGED <<approved, signed>>

(* send_check_summary *)
Check ==
  /\ approved' = IF CheckSummaryText(text) THEN Summary(text) ELSE NoSummary
  /\ UNCHANGED <<text, edits, signed>>

Matches == CheckSummaryText(text) /\ Summary(text) = approved

(* SIGN: the gate, the policy and the signature each read the text.  A     *)
(* SIGN of something else than was approved closes the gate, one that the  *)
(* policy or the signature refuses leaves it.                              *)
Sign ==
  /\ approved # NoSummary
  /\ Matches /\ CheckPolicyText(text) /\ SignTextCore(text)
  /\ signed' = <<[of |-> approved, tx |-> Transaction(text)]>>
  /\ approved' = NoSummary
  /\ UNCHANGED <<text, edits>>

SignMismatch ==
  /\ approved # NoSummary
  /\ CheckSummaryText(text) /\ ~Matches
  /\ approved' = NoSummary
  /\ UNCHANGED <<text, edits, signed>>

Next == Edit \/ Check \/ Sign \/ SignMismatch

Spec == Init /\ [][Next]_vars
-----------------------------------------------------------------------------
TypeOK ==
  /\ text \in Seq(HostLines)
  /\ edits \in 0 .. MaxEdits
  /\ approved # NoSummary =>
       /\ approved.network \in {"REGTEST", "TESTNET"}
       /\ \A i \in DOMAIN approved.inputs :
            /\ approved.inputs[i].vout \in 0 .. U32 - 1
            /\ approved.inputs[i].sats \in 0 .. U64 - 1
       /\ {approved.totalSats, approved.paySats, approved.changeSats, approved.feeSats}
            \subseteq 0 .. U64 - 1

(* What a summary promises: the outputs spent and the two payments.        *)
Promised(summary) ==
  [inputs |-> [i \in DOMAIN summary.inputs |->
                [txid |-> summary.inputs[i].txid, vout |-> summary.inputs[i].vout]],
   outputs |-> <<[script |-> summary.payScript, sats |-> summary.paySats],
                 [script |-> summary.changeScript, sats |-> summary.changeSats]>>]

(* The transaction in RAW_TX is the one of the summary that was approved,  *)
(* whatever the host did to the text since: the gate, the policy and the   *)
(* signature parse it separately and find the same transaction.            *)
SignedIsApproved ==
  signed # <<>> => signed[1].tx = Promised(signed[1].of)

(* The amounts of a summary add up in whole numbers, not only in 64 bits,  *)
(* and the fee is within the cap and the rate: no sum of an accepted text  *)
(* has wrapped around.                                                     *)
ApprovedAddsUp ==
  approved # NoSummary =>
    LET inputs == IF Len(approved.inputs) = 2
                  THEN approved.inputs[1].sats + approved.inputs[2].sats
                  ELSE approved.inputs[1].sats
        fee == inputs - approved.paySats - approved.changeSats
    IN  /\ approved.totalSats = inputs
        /\ approved.feeSats = fee
        /\ fee \in 0 .. MaxFee
        /\ fee * KiloByte <= MaxFeeRate * Vbytes[Len(approved.inputs)]

(* The check id, from which the confirmation code and the host's second    *)
(* look are taken, tells the texts apart that differ in anything the user  *)
(* approves: whatever the host did to the text since, it has the id of the *)
(* approved summary only when it has that summary.                         *)
SameIdSameSummary ==
  approved # NoSummary /\ CheckSummaryText(text) /\ CheckId(Summary(text)) = CheckId(approved)
    => Summary(text) = approved

(* The summary displayed shows the amounts that are approved, as the host  *)
(* script that compares them field by field expects ("summary field $Name  *)
(* mismatch").  The code does not keep this: change and inputs, which have *)
(* no upper bound, are shown modulo 2^32.                                  *)
ShowsWhatItApproves == approved # NoSummary => Displayed(approved) = approved

(* A TESTNET transaction is approved only with the change derivation path  *)
(* ("DERIVED_CHANGE_PATH_REQUIRED_FOR_TESTNET_SIGNING").  The code does    *)
(* not keep this: the path is asked of PSBT-like texts only.               *)
TestnetChangeIsDerived ==
  [][Check /\ approved' # NoSummary /\ approved'.network = "TESTNET"
       => ValueEquals(text, "PSBT_OUTPUT1_DERIVATION", TestnetChange)]_vars
=============================================================================
