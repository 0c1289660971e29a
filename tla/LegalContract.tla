---------------------------- MODULE LegalContract -----------------------------
(***************************************************************************)
(* A legal contract as a record, and what the lifecycle functions of the   *)
(* engine make of it: templates, signatures, transitions, and the payment  *)
(* obligation it may carry.  A contract has two parties.  `wait' counts    *)
(* the ticks to its effective tick, on which its obligation falls due; an  *)
(* obligation that fired on an earlier tick and is not completed is        *)
(* overdue.  Leases and service contracts, which nothing in the program    *)
(* drafts, are left out, and recurrence with them.                         *)
(***************************************************************************)
EXTENDS Naturals

ContractTypes == {"incorporation", "employment", "investment"}
ContractStatuses == {"none", "draft", "signed", "active", "completed", "terminated", "breached"}
ObligationStatuses == {"none", "pending", "fired", "completed", "waived"}

LEGAL_CONTRACT_TRANSITIONS ==
  [s \in ContractStatuses |->
     CASE s = "draft"  -> {"signed"}
       [] s = "signed" -> {"active"}
       [] s = "active" -> {"completed", "terminated", "breached"}
       [] OTHER        -> {}]

LegalContracts ==
  [status : ContractStatuses, unsigned : 0 .. 2, wait : 0 .. 1, obligation : ObligationStatuses]

\* No contract has been drafted.
noContract == [status |-> "none", unsigned |-> 2, wait |-> 0, obligation |-> "none"]

\* Only an incorporation carries an obligation: its fee.
templateObligations(type) == IF type = "incorporation" THEN "pending" ELSE "none"

createContractFromTemplate(type, wait) ==
  [status |-> "draft", unsigned |-> 2, wait |-> wait, obligation |-> templateObligations(type)]

allPartiesSigned(k) == k.unsigned = 0

transitionLegalContract(k, next) ==
  IF next \in LEGAL_CONTRACT_TRANSITIONS[k.status] THEN [k EXCEPT !.status = next] ELSE k

\* The last signature makes the contract signed.
signLegalContract(k) ==
  LET signed == [k EXCEPT !.unsigned = @ - 1]
  IN  IF allPartiesSigned(signed) THEN transitionLegalContract(signed, "signed") ELSE signed

dueLegalObligation(k) == k.status = "active" /\ k.obligation = "pending" /\ k.wait = 0

fireLegalObligation(k) == IF dueLegalObligation(k) THEN [k EXCEPT !.obligation = "fired"] ELSE k

completeLegalObligation(k) ==
  IF k.obligation = "fired" THEN [k EXCEPT !.obligation = "completed"] ELSE k

\* At the start of a tick, whatever has fired did so on an earlier one.
overdueObligation(k) == k.status = "active" /\ k.obligation = "fired"

waiveObligation(k) ==
  IF k.obligation \in {"pending", "fired"} THEN [k EXCEPT !.obligation = "waived"] ELSE k
=============================================================================
