----------------------------- MODULE AfterSales -----------------------------
(***************************************************************************)
(* What follows a collected order (CommerceService: SAVE/DELETE_EVIDENCE,  *)
(* REPORT_INCIDENT, DECIDE_INCIDENT, RETURN_CONTACT, RETURN_VISIT,         *)
(* CONFIRM_RETURN, VERIFY_UNAVAILABILITY, ASSESS_RETURN_SLA,               *)
(* SET_FEE_POLICY, BUILD_SETTLEMENTS), on top of Purchase.  A settlement   *)
(* is a report: it moves no money, so it must agree with the money that    *)
(* the orders and the incident cases still move.                           *)
(***************************************************************************)
EXTENDS Purchase

CONSTANTS
    IncidentIds,
    EvidenceIds,
    FeeVersions,
    FeeAmounts,
    ReportWindow,   \* 1 hour after receipt, in the model's time unit
    ReturnWindow,   \* 1 hour after approval of a damaged item
    DayLength       \* length of a Tehran calendar day

\* "none" is the owner of a photograph that does not exist, so no account is it.
ASSUME AfterSalesAssumption ==
    /\ IsFiniteSet(IncidentIds)
    /\ "none" \notin Accounts
    /\ FeeAmounts \subseteq Nat
    /\ ReportWindow \in Nat
    /\ ReturnWindow \in Nat
    /\ DayLength \in Nat \ {0}

VARIABLES
    evidence,     \* owner of each stored evidence document
    incident,     \* incident documents
    fee,          \* the fee policy in force
    feeHistory,   \* every fee policy ever set
    settlements   \* settlement documents

caseVars       == <<evidence, incident>>
feeVars        == <<fee, feeHistory>>
afterSalesVars == <<evidence, incident, fee, feeHistory, settlements>>
allVars        == <<fundsVars, purchaseVars, afterSalesVars>>

-----------------------------------------------------------------------------
Never == -1                         \* a time that has not come
NoFee == [version |-> "none", amount |-> 0]

NoIncident == [state |-> "NONE", order |-> "none", item |-> 0, damaged |-> FALSE,
               quantity |-> 0, evidence |-> "none", due |-> Never, contacted |-> FALSE,
               visited |-> Never, collected |-> Never, penalty |-> FALSE, refund |-> 0]

Incident == [state : {"UNDER_REVIEW", "REJECTED", "RESOLVED", "AWAITING_RETURN", "COLLECTED",
                      "CUSTOMER_UNAVAILABLE_VERIFIED"},
             order : OrderIds, item : Nat \ {0}, damaged : BOOLEAN, quantity : Nat \ {0},
             evidence : EvidenceIds, due : Nat \cup {Never}, contacted : BOOLEAN,
             visited : Nat \cup {Never}, collected : Nat \cup {Never},
             penalty : BOOLEAN, refund : Nat]
Fee == [version : FeeVersions, amount : FeeAmounts]
Settlement == [order : OrderIds, gross : Nat, refund : Nat, penalty : Nat, fee : Nat,
               version : FeeVersions, net : Int, built : Nat,
               state : {"READY_FOR_BANK_TRANSFER", "FINANCE_REVIEW_REQUIRED"}]

AfterSalesTypeOK ==
    /\ evidence \in [EvidenceIds -> Accounts \cup {"none"}]
    /\ incident \in [IncidentIds -> Incident \cup {NoIncident}]
    /\ fee \in Fee \cup {NoFee}
    /\ feeHistory \subseteq Fee
    /\ settlements \subseteq Settlement

AfterSalesInit ==
    /\ evidence = [e \in EvidenceIds |-> "none"]
    /\ incident = [i \in IncidentIds |-> NoIncident]
    /\ fee = NoFee
    /\ feeHistory = {}
    /\ settlements = {}

-----------------------------------------------------------------------------
(* Evidence and reports *)

\* A stored photograph has a fresh identity; in the model the identity of a
\* deleted one is free again.
SaveEvidence(e, a) ==
    /\ evidence[e] = "none"
    /\ evidence' = [evidence EXCEPT ![e] = a]
    /\ UNCHANGED <<fundsVars, purchaseVars, incident, feeVars, settlements>>

InUse(e) == \E i \in IncidentIds : incident[i].evidence = e

\* Mistake: only undecided cases keep their photograph.
DeleteEvidenceOfDecided(e) ==
    /\ \A i \in IncidentIds :
          incident[i].evidence = e => incident[i].state # "UNDER_REVIEW"
    /\ evidence' = [evidence EXCEPT ![e] = "none"]
    /\ UNCHANGED <<fundsVars, purchaseVars, incident, feeVars, settlements>>

DeleteEvidence(e) ==
    /\ ~InUse(e)
    /\ evidence' = [evidence EXCEPT ![e] = "none"]
    /\ UNCHANGED <<fundsVars, purchaseVars, incident, feeVars, settlements>>

\* Mistake: cases under review are not counted.
PendingForgotten(o, k) == 0

\* Units of line k of order o in cases that support has not decided.
Pending(o, k) ==
    LET open == {i \in IncidentIds : /\ incident[i].order = o /\ incident[i].item = k
                                     /\ incident[i].state = "UNDER_REVIEW"}
    IN  SumFunction([i \in open |-> incident[i].quantity])

ReportIncident(i, o, k, damaged, quantity, e) ==
    /\ incident[i] = NoIncident
    /\ order[o].state = "COLLECTED"
    /\ now <= order[o].received + ReportWindow
    /\ k \in DOMAIN order[o].items
    /\ quantity <= order[o].items[k].quantity - order[o].items[k].refunded - Pending(o, k)
    /\ evidence[e] = order[o].buyer
    /\ incident' = [incident EXCEPT ![i] =
                      [NoIncident EXCEPT !.state = "UNDER_REVIEW", !.order = o, !.item = k,
                                         !.damaged = damaged, !.quantity = quantity,
                                         !.evidence = e]]
    /\ UNCHANGED <<fundsVars, purchaseVars, evidence, feeVars, settlements>>

-----------------------------------------------------------------------------
(* Support's decision *)

Reject(i) ==
    /\ incident[i].state = "UNDER_REVIEW"
    /\ incident' = [incident EXCEPT ![i].state = "REJECTED"]
    /\ UNCHANGED <<fundsVars, purchaseVars, evidence, feeVars, settlements>>

\* Mistake: each refund is rounded by itself.
CreditShareAlone(t, q) == (t.credit * q) \div t.quantity

\* The support credit in the refund of q more units of an order line: the
\* difference of two cumulative shares, each rounded down.
CreditShare(t, q) ==
    (t.credit * (t.refunded + q)) \div t.quantity - (t.credit * t.refunded) \div t.quantity

Approve(i) ==
    LET o == incident[i].order
        k == incident[i].item
        t == order[o].items[k]
        q == incident[i].quantity
        amount == t.price * q
        credit == CreditShare(t, q)
        items == [order[o].items EXCEPT ![k].refunded = @ + q]
    IN  /\ incident[i].state = "UNDER_REVIEW"
        /\ q <= t.quantity - t.refunded
        /\ Refund(o, amount - credit, credit)
        /\ order' = [order EXCEPT
             ![o].items = items,
             ![o].refund = IF \A j \in DOMAIN items : items[j].refunded = items[j].quantity
                             THEN "REFUNDED" ELSE "PARTIAL"]
        /\ incident' = [incident EXCEPT
             ![i].state = IF incident[i].damaged THEN "AWAITING_RETURN" ELSE "RESOLVED",
             ![i].due = IF incident[i].damaged THEN now + ReturnWindow ELSE Never,
             ![i].refund = amount]
        /\ UNCHANGED <<now, program, link, members, withdrawal, marketVars, address, offer,
                       cart, quote, evidence, feeVars, settlements>>

-----------------------------------------------------------------------------
(* The return of a damaged item *)

ReturnContact(i) ==
    /\ incident[i].state = "AWAITING_RETURN"
    /\ order[incident[i].order].seller \in active
    /\ ~incident[i].contacted
    /\ incident' = [incident EXCEPT ![i].contacted = TRUE]
    /\ UNCHANGED <<fundsVars, purchaseVars, evidence, feeVars, settlements>>

ReturnVisit(i) ==
    /\ incident[i].state = "AWAITING_RETURN"
    /\ order[incident[i].order].seller \in active
    /\ incident[i].contacted
    /\ incident[i].visited = Never
    /\ incident' = [incident EXCEPT ![i].visited = now]
    /\ UNCHANGED <<fundsVars, purchaseVars, evidence, feeVars, settlements>>

\* Mistake: lateness is left to the assessment.
ConfirmReturnUnassessed(i) ==
    /\ incident[i].state = "AWAITING_RETURN"
    /\ incident' = [incident EXCEPT ![i].state = "COLLECTED", ![i].collected = now]
    /\ UNCHANGED <<fundsVars, purchaseVars, evidence, feeVars, settlements>>

ConfirmReturn(i) ==
    /\ incident[i].state = "AWAITING_RETURN"
    /\ incident' = [incident EXCEPT ![i].state = "COLLECTED", ![i].collected = now,
                                    ![i].penalty = now > incident[i].due]
    /\ UNCHANGED <<fundsVars, purchaseVars, evidence, feeVars, settlements>>

Settled(o) == \E s \in settlements : s.order = o

VerifyUnavailable(i) ==
    /\ incident[i].state = "AWAITING_RETURN"
    /\ incident[i].contacted
    /\ incident[i].visited # Never
    /\ incident[i].visited <= incident[i].due
    /\ ~Settled(incident[i].order)
    /\ incident' = [incident EXCEPT ![i].state = "CUSTOMER_UNAVAILABLE_VERIFIED",
                                    ![i].penalty = FALSE]
    /\ UNCHANGED <<fundsVars, purchaseVars, evidence, feeVars, settlements>>

\* Mistake: the last permitted moment counts as late.
LateAtDue(i) == incident[i].state = "AWAITING_RETURN" /\ incident[i].due <= now

Late(i) == incident[i].state = "AWAITING_RETURN" /\ incident[i].due < now

AssessReturns ==
    /\ incident' = [i \in IncidentIds |->
                      IF Late(i) THEN [incident[i] EXCEPT !.penalty = TRUE] ELSE incident[i]]
    /\ UNCHANGED <<fundsVars, purchaseVars, evidence, feeVars, settlements>>

-----------------------------------------------------------------------------
(* Fees and settlements *)

\* Mistake: the history of versions is not consulted.
SetFeeAgain(version, amount) ==
    /\ fee' = [version |-> version, amount |-> amount]
    /\ feeHistory' = feeHistory \cup {fee'}
    /\ UNCHANGED <<fundsVars, purchaseVars, caseVars, settlements>>

SetFee(version, amount) ==
    /\ \A f \in feeHistory : f.version # version
    /\ fee' = [version |-> version, amount |-> amount]
    /\ feeHistory' = feeHistory \cup {fee'}
    /\ UNCHANGED <<fundsVars, purchaseVars, caseVars, settlements>>

Day(t) == t \div DayLength

Cases(o) == {i \in IncidentIds : incident[i].order = o}

\* A case that still holds the settlement of its order back.
Holds(i) ==
    \/ incident[i].state = "UNDER_REVIEW"
    \/ incident[i].state = "AWAITING_RETURN" /\ ~incident[i].penalty

\* Mistake: an order is settled at the last moment it can be reported.
SettleableTooSoon(o) ==
    /\ order[o].state = "COLLECTED"
    /\ order[o].received + ReportWindow <= now
    /\ Day(order[o].received) < Day(now)
    /\ ~Settled(o)
    /\ \A i \in Cases(o) : ~Holds(i)

Settleable(o) ==
    /\ order[o].state = "COLLECTED"
    /\ order[o].received + ReportWindow < now
    /\ Day(order[o].received) < Day(now)
    /\ ~Settled(o)
    /\ \A i \in Cases(o) : ~Holds(i)

RefundOf(o)  == SumFunction([i \in Cases(o) |-> incident[i].refund])
PenaltyOf(o) == SumFunction([i \in {j \in Cases(o) : incident[j].penalty} |-> incident[i].refund])

SettlementOf(o) ==
    LET net == order[o].total - RefundOf(o) - PenaltyOf(o) - fee.amount
    IN  [order |-> o, gross |-> order[o].total, refund |-> RefundOf(o),
         penalty |-> PenaltyOf(o), fee |-> fee.amount, version |-> fee.version, net |-> net,
         built |-> now,
         state |-> IF net < 0 THEN "FINANCE_REVIEW_REQUIRED" ELSE "READY_FOR_BANK_TRANSFER"]

\* Mistake: settlements are prepared without a fee policy.
BuildSettlementsUnpriced ==
    /\ settlements' = settlements \cup {SettlementOf(o) : o \in {x \in OrderIds : Settleable(x)}}
    /\ UNCHANGED <<fundsVars, purchaseVars, caseVars, feeVars>>

BuildSettlements ==
    /\ fee # NoFee
    /\ settlements' = settlements \cup {SettlementOf(o) : o \in {x \in OrderIds : Settleable(x)}}
    /\ UNCHANGED <<fundsVars, purchaseVars, caseVars, feeVars>>

-----------------------------------------------------------------------------
CaseNext ==
    \/ \E e \in EvidenceIds, a \in Accounts : SaveEvidence(e, a)
    \/ \E e \in EvidenceIds : DeleteEvidence(e)
    \/ \E i \in IncidentIds, o \in OrderIds, damaged \in BOOLEAN, e \in EvidenceIds :
          \E k \in DOMAIN order[o].items : \E quantity \in 1..order[o].items[k].quantity :
             ReportIncident(i, o, k, damaged, quantity, e)
    \/ \E i \in IncidentIds :
          \/ Reject(i) \/ Approve(i) \/ ReturnContact(i) \/ ReturnVisit(i)
          \/ ConfirmReturn(i) \/ VerifyUnavailable(i)
    \/ AssessReturns

SettleNext ==
    \/ \E version \in FeeVersions, amount \in FeeAmounts : SetFee(version, amount)
    \/ BuildSettlements

AfterSalesNext ==
    \/ CaseNext
    \/ SettleNext
    \/ PurchaseNext /\ UNCHANGED afterSalesVars

AfterSalesSpec ==
    FundsInit /\ PurchaseInit /\ AfterSalesInit /\ [][AfterSalesNext]_allVars

-----------------------------------------------------------------------------
(* Properties *)

\* Reports, decisions and refunds of one order line agree over any interleaving
\* of its cases: no unit is promised twice, so every report under review can
\* still be approved in full, and the approved cases are what was refunded.
CasesCoverItems ==
    \A o \in OrderIds : \A k \in DOMAIN order[o].items :
       LET t == order[o].items[k]
           cases == {i \in Cases(o) : incident[i].item = k}
           open == {i \in cases : incident[i].state = "UNDER_REVIEW"}
           approved == {i \in cases : incident[i].state \notin {"UNDER_REVIEW", "REJECTED"}}
       IN  /\ t.refunded + SumFunction([i \in open |-> incident[i].quantity]) <= t.quantity
           /\ t.refunded = SumFunction([i \in approved |-> incident[i].quantity])
           /\ t.price * t.refunded = SumFunction([i \in approved |-> incident[i].refund])

\* IntegrityAsync's SETTLEMENT_DUPLICATE_ORDER and SETTLEMENT_FORMULA_MISMATCH,
\* at every moment after the settlement was built: an order is settled once, and
\* nothing a buyer, seller or supporter does later changes the refunds and the
\* penalties it was computed from, nor the money the journal holds for it.
SettlementConsistent ==
    \A s \in settlements :
       /\ \A r \in settlements : r.order = s.order => r = s
       /\ s.gross = order[s.order].total
       /\ s.refund = RefundOf(s.order)
       /\ s.penalty = PenaltyOf(s.order)
       /\ s.gross - s.refund = balance[OrderCash(s.order)] + balance[OrderCredit(s.order)]

\* A seller pays a penalty, recorded or settled, only for a return that was not
\* collected in time, and never for one whose timely visit support accepted.
PenaltyDeserved ==
    \A i \in IncidentIds :
       incident[i].penalty =>
          /\ incident[i].state \in {"AWAITING_RETURN", "COLLECTED"}
          /\ now > incident[i].due
          /\ incident[i].state = "COLLECTED" => incident[i].collected > incident[i].due

\* A late return never escapes its penalty: a collected return without penalty
\* was collected in time, whether or not the assessment ran in between, and an
\* order is never settled with an uncollected return whose penalty is missing.
LatenessCharged ==
    \A i \in IncidentIds :
       /\ incident[i].state = "COLLECTED" /\ ~incident[i].penalty
            => incident[i].collected <= incident[i].due
       /\ incident[i].state = "AWAITING_RETURN" /\ Settled(incident[i].order)
            => incident[i].penalty

\* IntegrityAsync's INCIDENT_EVIDENCE_INVALID: the photograph of a case exists
\* and is its buyer's, also after the buyer discards unused photographs.
EvidenceKept ==
    \A i \in IncidentIds :
       incident[i] # NoIncident =>
          evidence[incident[i].evidence] = order[incident[i].order].buyer

\* A fee version stands for one amount, for as long as any settlement cites it.
FeeVersionStable ==
    \A f, g \in feeHistory \cup {[version |-> s.version, amount |-> s.fee] : s \in settlements} :
       f.version = g.version => f = g
=============================================================================
