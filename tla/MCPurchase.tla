----------------------------- MODULE MCPurchase -----------------------------
(***************************************************************************)
(* Two buyers compete for one seller's stock of two products, one or both  *)
(* of which support credit may pay for.  The credit is worth the first     *)
(* line of b1's cart and half of the second.  The run starts after the     *)
(* set-up commands: a programme was created and allocated to b1, the       *)
(* offers were saved.                                                      *)
(***************************************************************************)
EXTENDS Purchase, TLC

CONSTANTS b1, b2, p1, h1, s1, bread, soap, tehran, karaj

MCAccounts == {b1, b2}
MCInitialCash == (b1 :> 3) @@ (b2 :> 2)
MCProgramTerms == {}
MCCategoryOf == (bread :> "food") @@ (soap :> "home")
MCStoreCity == (s1 :> tehran)

Grant1 == <<p1, b1>>

\* Reached by LINK_HOUSEHOLD, CREATE_PROGRAM, ALLOCATE_CREDIT, two SAVE_OFFER
\* and a SAVE_ADDRESS of each buyer.
MCInit ==
    /\ now = 0
    /\ wallet = InitialCash
    /\ \E categories \in {{"food"}, {"food", "home"}} :
          program = (p1 :> [funded |-> 5, unallocated |-> 0, expires |-> 1,
                            categories |-> categories, organization |-> FALSE])
    /\ grant = [g \in GrantIds |->
                  IF g = Grant1 THEN [household |-> h1, granted |-> 5, available |-> 5]
                  ELSE NoGrant]
    /\ link = (b1 :> h1) @@ (b2 :> NoHousehold)
    /\ members = {}
    /\ withdrawal = [w \in Withdrawals |-> NoWithdrawal]
    /\ balance = [x \in LedgerAccounts |->
                    IF x = ApprovedSource THEN -5
                    ELSE IF x = HouseholdCredit(Grant1) THEN 5 ELSE 0]
    /\ active = Sellers
    /\ published = Products
    /\ address = [b \in Accounts |-> tehran]
    /\ offer = (1 :> [seller |-> s1, product |-> bread, price |-> 2, stock |-> 2, version |-> 1])
            @@ (2 :> [seller |-> s1, product |-> soap, price |-> 2, stock |-> 1, version |-> 1])
    /\ cart = (b1 :> <<[product |-> bread, quantity |-> 2], [product |-> soap, quantity |-> 1]>>)
           @@ (b2 :> <<[product |-> bread, quantity |-> 1]>>)
    /\ quote = [q \in QuoteIds |-> NoQuote]
    /\ order = [o \in OrderIds |-> NoOrder]

NextFree(ids, docs, none) == {i \in ids : docs[i] = none /\ \A j \in ids : docs[j] = none => i <= j}

\* The inputs that matter for these two buyers: the seller may be suspended, the
\* bread unpublished and saved anew, b1 may order more soap or empty that line,
\* b2 may move out of the store's city.  New documents take the next identity.
MCNext ==
    \/ SellerStanding(s1)
    \/ CatalogState(bread)
    \/ \E f \in OfferIds, price \in Prices, stock \in Stocks : SaveOffer(s1, f, bread, price, stock)
    \/ \E quantity \in Quantities : SetCart(b1, soap, quantity)
    \/ SaveAddress(b2, karaj)
    \/ \E q \in NextFree(QuoteIds, quote, NoQuote), b \in Accounts, personal \in BOOLEAN :
          CreateQuote(q, b, s1, personal)
    \/ \E o \in NextFree(OrderIds, order, NoOrder), q \in QuoteIds,
          g \in {Grant1, NoGrantId}, disposition \in {"KEEP", "REMOVE"} :
             PlaceOrder(o, q, g, disposition)
    \/ \E o \in OrderIds : Cancel(o) \/ SellerState(o) \/ ConfirmPickup(o)
    \/ Tick /\ UNCHANGED purchaseVars

MCSpec == MCInit /\ [][MCNext]_<<fundsVars, purchaseVars>>
=============================================================================
