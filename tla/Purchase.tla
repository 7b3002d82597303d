------------------------------ MODULE Purchase ------------------------------
(***************************************************************************)
(* From a seller's offer to a collected order (CommerceService: SAVE_OFFER,*)
(* SET_CART_ITEM, SAVE_ADDRESS, CREATE_QUOTE, PLACE_ORDER, CANCEL_ORDER,   *)
(* SELLER_ORDER_STATE, CONFIRM_PICKUP), on top of the money of Funds.      *)
(*                                                                         *)
(* A command that carries an expectedVersion succeeds for the clients that *)
(* know the current version and changes nothing for the others, so the     *)
(* check disappears; an offer keeps its version because quotes compare it. *)
(***************************************************************************)
EXTENDS Funds, Sequences

CONSTANTS
    Sellers,        \* accounts that were activated as sellers
    NoSeller,       \* seller of an offer that does not exist
    Products,       \* catalogue goods
    CategoryOf,     \* the category of each product
    OfferIds, QuoteIds,
    Cities, NoCity,
    StoreCity,      \* the city each store offers pickup in
    Prices, Stocks, Quantities,     \* inputs of SaveOffer and SetCart
    QuoteLife,      \* 5 minutes, in the model's time unit
    MaxVersion      \* bound: offers are not saved past this version

ASSUME PurchaseAssumption ==
    /\ NoSeller \notin Sellers
    /\ NoCity \notin Cities
    /\ CategoryOf \in [Products -> Categories]
    /\ StoreCity \in [Sellers -> Cities]
    /\ Prices \subseteq Nat \ {0}
    /\ Stocks \subseteq Nat
    /\ Quantities \subseteq Nat
    /\ QuoteLife \in Nat \ {0}
    /\ MaxVersion \in Nat

VARIABLES
    active,     \* sellers with role and activation and without open suspension
    published,  \* products published, with their category, as goods
    address,    \* city of each buyer's address document
    offer, cart, quote, order

marketVars   == <<active, published>>
purchaseVars == <<active, published, address, offer, cart, quote, order>>

-----------------------------------------------------------------------------
NoGrantId == <<"none", "none">>     \* a purchase without support credit

ASSUME NoGrantAssumption == NoGrantId \notin GrantIds

NoOffer == [seller |-> NoSeller, product |-> "none", price |-> 0, stock |-> 0, version |-> 0]
NoQuote == [buyer |-> "none", seller |-> NoSeller, personal |-> FALSE, items |-> <<>>,
            unavailable |-> {}, total |-> 0, expires |-> 0, used |-> FALSE]
NoOrder == [state |-> "NONE", buyer |-> "none", seller |-> NoSeller, city |-> NoCity,
            grant |-> NoGrantId, total |-> 0, cash |-> 0, credit |-> 0,
            items |-> <<>>, refund |-> "NONE", received |-> 0]

CartItem  == [product : Products, quantity : Nat \ {0}]
Offer     == [seller : Sellers, product : Products, price : Nat, stock : Nat, version : Nat]
QuoteItem == [offer : OfferIds, product : Products, quantity : Nat \ {0}, price : Nat,
              version : Nat]
Quote     == [buyer : Accounts, seller : Sellers, personal : BOOLEAN, items : Seq(QuoteItem),
              unavailable : SUBSET Products, total : Nat, expires : Nat, used : BOOLEAN]
OrderItem == [offer : OfferIds, product : Products, quantity : Nat \ {0}, price : Nat,
              cash : Nat, credit : Nat, refunded : Nat]
Order     == [state : {"PAID", "PREPARING", "READY_FOR_PICKUP", "COLLECTED", "CANCELLED"},
              buyer : Accounts, seller : Sellers, city : Cities,
              grant : GrantIds \cup {NoGrantId}, total : Nat, cash : Nat, credit : Nat,
              items : Seq(OrderItem), refund : {"NONE", "PARTIAL", "REFUNDED"},
              received : Nat]

PurchaseTypeOK ==
    /\ active \subseteq Sellers
    /\ published \subseteq Products
    /\ address \in [Accounts -> Cities \cup {NoCity}]
    /\ offer \in [OfferIds -> Offer \cup {NoOffer}]
    /\ cart \in [Accounts -> Seq(CartItem)]
    /\ quote \in [QuoteIds -> Quote \cup {NoQuote}]
    /\ order \in [OrderIds -> Order \cup {NoOrder}]

PurchaseInit ==
    /\ active = Sellers
    /\ published = Products
    /\ address = [a \in Accounts |-> NoCity]
    /\ offer = [f \in OfferIds |-> NoOffer]
    /\ cart = [a \in Accounts |-> <<>>]
    /\ quote = [q \in QuoteIds |-> NoQuote]
    /\ order = [o \in OrderIds |-> NoOrder]

-----------------------------------------------------------------------------
(* What commerce reads from the seller and catalogue databases; they change *)
(* without its lock.                                                        *)

SellerStanding(s) ==
    /\ active' = IF s \in active THEN active \ {s} ELSE active \cup {s}
    /\ UNCHANGED <<fundsVars, published, address, offer, cart, quote, order>>

CatalogState(p) ==
    /\ published' = IF p \in published THEN published \ {p} ELSE published \cup {p}
    /\ UNCHANGED <<fundsVars, active, address, offer, cart, quote, order>>

-----------------------------------------------------------------------------
(* Offers, cart, address *)

\* The seller's offer of p, if there is one, is replaced under its own id.
\* Otherwise the client picks the id, and may pick one of the seller's offers of
\* another product: that document is overwritten and its version starts over.
SaveOffer(s, f, p, price, stock) ==
    LET old == {e \in OfferIds : offer[e].seller = s /\ offer[e].product = p}
        version == IF old = {} THEN 1 ELSE offer[f].version + 1
    IN  /\ s \in active
        /\ p \in published
        /\ old \subseteq {f}
        /\ offer[f].seller \in {s, NoSeller}
        /\ version <= MaxVersion
        /\ offer' = [offer EXCEPT ![f] = [seller |-> s, product |-> p, price |-> price,
                                          stock |-> stock, version |-> version]]
        /\ UNCHANGED <<fundsVars, marketVars, address, cart, quote, order>>

\* The lines at the positions in S, in their order.
Ascending(S) == CHOOSE e \in [1..Cardinality(S) -> S] : \A i, j \in DOMAIN e : i < j => e[i] < e[j]
LinesAt(lines, S) == LET e == Ascending(S) IN [i \in DOMAIN e |-> lines[e[i]]]

OtherLines(b, p) == LinesAt(cart[b], {i \in DOMAIN cart[b] : cart[b][i].product # p})

\* Mistake: a quantity of zero leaves an empty line.
SetCartKeepsLine(b, p, quantity) ==
    /\ quantity > 0 => p \in published
    /\ cart' = [cart EXCEPT ![b] =
                  Append(OtherLines(b, p), [product |-> p, quantity |-> quantity])]
    /\ UNCHANGED <<fundsVars, marketVars, address, offer, quote, order>>

SetCart(b, p, quantity) ==
    /\ quantity > 0 => p \in published
    /\ cart' = [cart EXCEPT ![b] =
                  IF quantity = 0 THEN OtherLines(b, p)
                  ELSE Append(OtherLines(b, p), [product |-> p, quantity |-> quantity])]
    /\ UNCHANGED <<fundsVars, marketVars, address, offer, quote, order>>

SaveAddress(b, city) ==
    /\ address' = [address EXCEPT ![b] = city]
    /\ UNCHANGED <<fundsVars, marketVars, offer, cart, quote, order>>

Covers(s, b) == address[b] = StoreCity[s]

-----------------------------------------------------------------------------
(* Quotes *)

\* The offers of seller s that can serve a cart line; there is at most one.
Serving(s, line) ==
    {f \in OfferIds : /\ offer[f].seller = s
                      /\ offer[f].product = line.product
                      /\ offer[f].stock >= line.quantity}

QuoteItems(s, lines) ==
    LET served == LinesAt(lines, {i \in DOMAIN lines : Serving(s, lines[i]) # {}})
        OfferFor(c) == CHOOSE f \in Serving(s, c) : TRUE
    IN  [i \in DOMAIN served |->
           [offer |-> OfferFor(served[i]), product |-> served[i].product,
            quantity |-> served[i].quantity, price |-> offer[OfferFor(served[i])].price,
            version |-> offer[OfferFor(served[i])].version]]

Value(item) == item.price * item.quantity
Total(items) == SumFunction([i \in DOMAIN items |-> Value(items[i])])

CreateQuote(q, b, s, personal) ==
    LET items == QuoteItems(s, cart[b])
    IN  /\ quote[q] = NoQuote
        /\ s \in active
        /\ Covers(s, b)
        /\ items # <<>>
        /\ Total(items) \in 0..MaxRial
        /\ quote' = [quote EXCEPT ![q] =
             [buyer |-> b, seller |-> s, personal |-> personal, items |-> items,
              unavailable |-> {cart[b][i].product : i \in DOMAIN cart[b]}
                                \ {items[i].product : i \in DOMAIN items},
              total |-> Total(items), expires |-> now + QuoteLife, used |-> FALSE]]
        /\ UNCHANGED <<fundsVars, marketVars, address, offer, cart, order>>

-----------------------------------------------------------------------------
(* Orders *)

Lesser(x, y) == IF x < y THEN x ELSE y

\* Mistake: the version and the price of the quote are not compared.
StillOfferedAtAnyPrice(s, item) ==
    LET f == offer[item.offer]
    IN  /\ f.seller = s
        /\ f.product = item.product
        /\ f.stock >= item.quantity
        /\ item.product \in published

\* A quote line still describes its offer.
StillOffered(s, item) ==
    LET f == offer[item.offer]
    IN  /\ f.seller = s
        /\ f.product = item.product
        /\ f.version = item.version
        /\ f.price = item.price
        /\ f.stock >= item.quantity
        /\ item.product \in published

\* The grant may pay for this quote.
CreditEligible(g, q) ==
    /\ GrantExists(g)
    /\ g[2] = quote[q].buyer
    /\ quote[q].personal
    /\ program[g[1]].expires > now
    /\ \A i \in DOMAIN quote[q].items :
          CategoryOf[quote[q].items[i].product] \in program[g[1]].categories

\* Mistake: the whole credit is offered to every line.
OrderItemsCreditEach(items, credit) ==
    LET part(i) == Lesser(credit, Value(items[i]))
    IN  [i \in DOMAIN items |->
           [offer |-> items[i].offer, product |-> items[i].product,
            quantity |-> items[i].quantity, price |-> items[i].price,
            cash |-> Value(items[i]) - part(i), credit |-> part(i), refunded |-> 0]]

\* Credit pays for the first lines as far as it reaches.
CreditPart(items, credit, i) ==
    LET before == SumFunction([j \in 1..(i - 1) |-> Value(items[j])])
    IN  IF before >= credit THEN 0 ELSE Lesser(credit - before, Value(items[i]))

\* Cash pays for the rest.
OrderItems(items, credit) ==
    [i \in DOMAIN items |->
       [offer |-> items[i].offer, product |-> items[i].product,
        quantity |-> items[i].quantity, price |-> items[i].price,
        cash |-> Value(items[i]) - CreditPart(items, credit, i),
        credit |-> CreditPart(items, credit, i), refunded |-> 0]]

InCart(lines, p) ==
    SumFunction([i \in {j \in DOMAIN lines : lines[j].product = p} |-> lines[i].quantity])

\* The cart without what was bought: bought lines leave it, a line that was
\* enlarged after the quote returns at the end with the rest.
CartAfter(lines, items, dropped) ==
    LET bought == {items[i].product : i \in DOMAIN items}
        kept == LinesAt(lines, {i \in DOMAIN lines : lines[i].product \notin bought})
        rest == [i \in DOMAIN items |->
                   [product |-> items[i].product,
                    quantity |-> InCart(lines, items[i].product) - items[i].quantity]]
        all == kept \o LinesAt(rest, {i \in DOMAIN rest : rest[i].quantity > 0})
    IN  LinesAt(all, {i \in DOMAIN all : all[i].product \notin dropped})

PlaceOrder(o, q, g, disposition) ==
    LET b == quote[q].buyer
        s == quote[q].seller
        items == quote[q].items
        total == quote[q].total
        credit == IF g = NoGrantId THEN 0 ELSE Lesser(grant[g].available, total)
        cash == total - credit
        Sold(f) == SumFunction([i \in {j \in DOMAIN items : items[j].offer = f} |->
                                  items[i].quantity])
    IN  /\ order[o] = NoOrder
        /\ quote[q] # NoQuote /\ ~quote[q].used /\ quote[q].expires > now
        /\ s \in active
        /\ Covers(s, b)
        /\ \A i \in DOMAIN items : StillOffered(s, items[i])
        /\ g # NoGrantId => CreditEligible(g, q)
        /\ wallet[b] >= cash
        /\ wallet' = [wallet EXCEPT ![b] = @ - cash]
        /\ grant' = IF g = NoGrantId THEN grant
                    ELSE [grant EXCEPT ![g].available = @ - credit]
        /\ offer' = [f \in OfferIds |->
                       IF \E i \in DOMAIN items : items[i].offer = f
                         THEN [offer[f] EXCEPT !.stock = @ - Sold(f), !.version = @ + 1]
                         ELSE offer[f]]
        /\ order' = [order EXCEPT ![o] =
             [state |-> "PAID", buyer |-> b, seller |-> s, city |-> address[b],
              grant |-> g, total |-> total, cash |-> cash, credit |-> credit,
              items |-> OrderItems(items, credit), refund |-> "NONE", received |-> 0]]
        /\ balance' = Transfer(Transfer(balance, BuyerCash(b), OrderCash(o), cash),
                               HouseholdCredit(g), OrderCredit(o), credit)
        /\ quote' = [quote EXCEPT ![q].used = TRUE]
        /\ cart' = [cart EXCEPT ![b] = CartAfter(@, items,
                      IF disposition = "REMOVE" THEN quote[q].unavailable ELSE {})]
        /\ UNCHANGED <<now, program, link, members, withdrawal, marketVars, address>>

\* Mistake: the credit is paid into the wallet as well.
RefundAsCash(o, cash, credit) ==
    LET b == order[o].buyer
        g == order[o].grant
    IN  /\ cash \in 0..MaxRial /\ credit \in 0..MaxRial
        /\ wallet' = [wallet EXCEPT ![b] = @ + cash + credit]
        /\ grant' = IF credit > 0 /\ g # NoGrantId
                      THEN [grant EXCEPT ![g].available = @ + credit]
                      ELSE grant
        /\ balance' = Transfer(Transfer(balance, OrderCash(o), BuyerCash(b), cash),
                               OrderCredit(o), HouseholdCredit(g), credit)

\* Mistake: the grant document is not given its credit back.
RefundForgetsGrant(o, cash, credit) ==
    LET b == order[o].buyer
        g == order[o].grant
    IN  /\ cash \in 0..MaxRial /\ credit \in 0..MaxRial
        /\ wallet[b] + cash <= MaxRial
        /\ wallet' = [wallet EXCEPT ![b] = @ + cash]
        /\ grant' = grant
        /\ balance' = Transfer(Transfer(balance, OrderCash(o), BuyerCash(b), cash),
                               OrderCredit(o), HouseholdCredit(g), credit)

\* Money of an order goes back to where it came from.
Refund(o, cash, credit) ==
    LET b == order[o].buyer
        g == order[o].grant
    IN  /\ cash \in 0..MaxRial /\ credit \in 0..MaxRial
        /\ wallet[b] + cash <= MaxRial
        /\ wallet' = [wallet EXCEPT ![b] = @ + cash]
        /\ grant' = IF credit > 0 /\ g # NoGrantId
                      THEN [grant EXCEPT ![g].available = @ + credit]
                      ELSE grant
        /\ balance' = Transfer(Transfer(balance, OrderCash(o), BuyerCash(b), cash),
                               OrderCredit(o), HouseholdCredit(g), credit)

Cancellable(o) == order[o].state \in {"PAID", "PREPARING", "READY_FOR_PICKUP"}

\* Mistake: the whole price is returned as cash.
CancelIntoCash(o) ==
    LET items == order[o].items
        Back(f) == SumFunction([i \in {j \in DOMAIN items : items[j].offer = f} |->
                                  items[i].quantity])
    IN  /\ Cancellable(o)
        /\ Refund(o, order[o].total, 0)
        /\ offer' = [f \in OfferIds |->
                       IF \E i \in DOMAIN items : items[i].offer = f
                         THEN [offer[f] EXCEPT !.stock = @ + Back(f), !.version = @ + 1]
                         ELSE offer[f]]
        /\ order' = [order EXCEPT ![o].state = "CANCELLED", ![o].refund = "REFUNDED"]
        /\ UNCHANGED <<now, program, link, members, withdrawal, marketVars, address,
                       cart, quote>>

Cancel(o) ==
    LET items == order[o].items
        Back(f) == SumFunction([i \in {j \in DOMAIN items : items[j].offer = f} |->
                                  items[i].quantity])
    IN  /\ Cancellable(o)
        /\ Refund(o, order[o].cash, order[o].credit)
        /\ offer' = [f \in OfferIds |->
                       IF \E i \in DOMAIN items : items[i].offer = f
                         THEN [offer[f] EXCEPT !.stock = @ + Back(f), !.version = @ + 1]
                         ELSE offer[f]]
        /\ order' = [order EXCEPT ![o].state = "CANCELLED", ![o].refund = "REFUNDED"]
        /\ UNCHANGED <<now, program, link, members, withdrawal, marketVars, address,
                       cart, quote>>

SellerState(o) ==
    /\ order[o].seller \in active
    /\ \/ /\ order[o].state = "PAID"
          /\ order' = [order EXCEPT ![o].state = "PREPARING"]
       \/ /\ order[o].state = "PREPARING"
          /\ order' = [order EXCEPT ![o].state = "READY_FOR_PICKUP"]
    /\ UNCHANGED <<fundsVars, marketVars, address, offer, cart, quote>>

ConfirmPickup(o) ==
    /\ order[o].state = "READY_FOR_PICKUP"
    /\ order' = [order EXCEPT ![o].state = "COLLECTED", ![o].received = now]
    /\ UNCHANGED <<fundsVars, marketVars, address, offer, cart, quote>>

-----------------------------------------------------------------------------
MarketNext ==
    \/ \E s \in Sellers : SellerStanding(s)
    \/ \E p \in Products : CatalogState(p)
    \/ \E s \in Sellers, f \in OfferIds, p \in Products, price \in Prices, stock \in Stocks :
          SaveOffer(s, f, p, price, stock)

BuyerNext ==
    \/ \E b \in Accounts, p \in Products, quantity \in Quantities : SetCart(b, p, quantity)
    \/ \E b \in Accounts, city \in Cities : SaveAddress(b, city)
    \/ \E q \in QuoteIds, b \in Accounts, s \in Sellers, personal \in BOOLEAN :
          CreateQuote(q, b, s, personal)
    \/ \E o \in OrderIds, q \in QuoteIds, g \in GrantIds \cup {NoGrantId},
          disposition \in {"KEEP", "REMOVE"} : PlaceOrder(o, q, g, disposition)
    \/ \E o \in OrderIds : Cancel(o) \/ SellerState(o) \/ ConfirmPickup(o)

PurchaseNext ==
    \/ MarketNext
    \/ BuyerNext
    \/ FundsNext /\ UNCHANGED purchaseVars

PurchaseSpec ==
    FundsInit /\ PurchaseInit /\ [][PurchaseNext]_<<fundsVars, purchaseVars>>

-----------------------------------------------------------------------------
(* Properties *)

\* The credit and the cash of an order line given back for its refunded units:
\* the cumulative share, rounded down, is what makes partial refunds add up.
RefundedCredit(item) == (item.credit * item.refunded) \div item.quantity
RefundedCash(item)   == item.price * item.refunded - RefundedCredit(item)

\* IntegrityAsync's ORDER_ITEM_INVALID, ORDER_ITEM_FUNDING_MISMATCH and
\* ORDER_TOTAL_MISMATCH: the split of credit over the lines neither loses nor
\* invents money, line by line and in total.
OrdersFunded ==
    \A o \in OrderIds :
       LET items == order[o].items
       IN  /\ \A i \in DOMAIN items :
                /\ items[i].cash + items[i].credit = Value(items[i])
                /\ items[i].refunded \in 0..items[i].quantity
           /\ SumFunction([i \in DOMAIN items |-> items[i].cash]) = order[o].cash
           /\ SumFunction([i \in DOMAIN items |-> items[i].credit]) = order[o].credit
           /\ order[o].cash + order[o].credit = order[o].total

\* The journal holds for an order exactly what its lines have not given back,
\* per origin: support credit is never paid out as cash nor the reverse, and a
\* cancelled order holds nothing.
OrderMoney ==
    \A o \in OrderIds :
       LET items == order[o].items
           open == IF order[o].state = "CANCELLED" THEN {} ELSE DOMAIN items
       IN  /\ balance[OrderCash(o)]
                = SumFunction([i \in open |-> items[i].cash - RefundedCash(items[i])])
           /\ balance[OrderCredit(o)]
                = SumFunction([i \in open |-> items[i].credit - RefundedCredit(items[i])])
           /\ balance[OrderCash(o)] >= 0
           /\ balance[OrderCredit(o)] >= 0

\* What a grant has left plus what orders hold of it is what was granted: no
\* series of purchases, cancellations and refunds mints or loses support.
CreditConserved ==
    \A g \in GrantIds :
       grant[g].available
         + SumFunction([o \in {x \in OrderIds : order[x].grant = g} |-> balance[OrderCredit(o)]])
       = grant[g].granted

\* No rial and no support is minted, lost or turned into the other kind by any
\* series of orders, cancellations, refunds of parts of a line and of grants
\* (PlaceOrder, Refund, DecideIncident).
OrderMoneyConserved == OrderMoney /\ CreditConserved

\* An order is placed on the terms in force at that moment, whatever changed
\* since its quote: current price, product and stock, a seller in good standing
\* whose store covers the buyer's current address.
PlacedAtCurrentTerms ==
    [][\A o \in OrderIds : order[o] = NoOrder /\ order'[o] # NoOrder =>
         /\ order'[o].seller \in active
         /\ order'[o].city = StoreCity[order'[o].seller]
         /\ \A i \in DOMAIN order'[o].items :
              LET item == order'[o].items[i]
                  f == offer[item.offer]
              IN  /\ item.product = f.product /\ item.product \in published
                  /\ item.price = f.price
                  /\ item.quantity <= f.stock
                  /\ f.seller = order'[o].seller
      ]_<<fundsVars, purchaseVars>>

=============================================================================
