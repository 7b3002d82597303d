---------------------------- MODULE MCAfterSales ----------------------------
(***************************************************************************)
(* One order of two lines, ready to be collected: three loaves of which    *)
(* support credit paid four of six rial, so that partial refunds round,    *)
(* and one soap paid in cash.                                              *)
(***************************************************************************)
EXTENDS AfterSales, TLC

CONSTANTS b1, p1, h1, s1, o1, bread, soap, tehran

MCAccounts == {b1}
MCInitialCash == (b1 :> 3)
MCProgramTerms == {}
MCCategoryOf == (bread :> "food") @@ (soap :> "home")
MCStoreCity == (s1 :> tehran)

Grant1 == <<p1, b1>>

\* Reached by the set-up commands of MCPurchase, a quote, an order and two
\* SELLER_ORDER_STATE commands.
MCInit ==
    /\ now = 1
    /\ wallet = (b1 :> 0)
    /\ program = (p1 :> [funded |-> 4, unallocated |-> 0, expires |-> 2,
                         categories |-> {"food", "home"}, organization |-> FALSE])
    /\ grant = (Grant1 :> [household |-> h1, granted |-> 4, available |-> 0])
    /\ link = (b1 :> h1)
    /\ members = {}
    /\ withdrawal = [w \in Withdrawals |-> NoWithdrawal]
    /\ balance = [x \in LedgerAccounts |->
                    CASE x = ApprovedSource -> -4
                      [] x = BuyerCash(b1) -> -3
                      [] x = OrderCash(o1) -> 3
                      [] x = OrderCredit(o1) -> 4
                      [] OTHER -> 0]
    /\ active = Sellers
    /\ published = Products
    /\ address = (b1 :> tehran)
    /\ offer = (1 :> [seller |-> s1, product |-> bread, price |-> 2, stock |-> 0, version |-> 2])
            @@ (2 :> [seller |-> s1, product |-> soap, price |-> 1, stock |-> 0, version |-> 2])
    /\ cart = (b1 :> <<>>)
    /\ quote = [q \in QuoteIds |-> NoQuote]
    /\ order = (o1 :> [state |-> "READY_FOR_PICKUP", buyer |-> b1, seller |-> s1,
                      city |-> tehran, grant |-> Grant1, total |-> 7, cash |-> 3,
                      credit |-> 4, refund |-> "NONE", received |-> 0,
                      items |-> << [offer |-> 1, product |-> bread, quantity |-> 3,
                                    price |-> 2, cash |-> 2, credit |-> 4, refunded |-> 0],
                                   [offer |-> 2, product |-> soap, quantity |-> 1,
                                    price |-> 1, cash |-> 1, credit |-> 0, refunded |-> 0] >>])
    /\ AfterSalesInit

\* A new case takes the next identity.  The order is collected at the end
\* of a day, so that the hour for reports runs past midnight.  The fee is set that
\* day and set again when the order can be settled, before or after it is.
MCNext ==
    \/ \E e \in EvidenceIds, a \in Accounts : SaveEvidence(e, a)
    \/ \E e \in EvidenceIds : evidence[e] # "none" /\ DeleteEvidence(e)
    \/ \E i \in IncidentIds, k \in DOMAIN order[o1].items, damaged \in BOOLEAN, e \in EvidenceIds :
          /\ \A j \in IncidentIds : j < i => incident[j] # NoIncident
          /\ \E quantity \in 1..order[o1].items[k].quantity :
                ReportIncident(i, o1, k, damaged, quantity, e)
    \/ \E i \in IncidentIds :
          \/ Reject(i) \/ Approve(i) \/ ReturnContact(i) \/ ReturnVisit(i)
          \/ ConfirmReturn(i) \/ VerifyUnavailable(i)
    \/ AssessReturns
    \/ now = 1 /\ SetFee("v1", 0)
    \/ now = 3 /\ \E version \in FeeVersions : SetFee(version, 3)
    \/ BuildSettlements
    \/ Tick /\ UNCHANGED <<purchaseVars, afterSalesVars>>
    \/ /\ now = 1
       /\ ConfirmPickup(o1) \/ Cancel(o1)
       /\ UNCHANGED afterSalesVars

MCSpec == MCInit /\ [][MCNext]_allVars
=============================================================================
