------------------------- MODULE AfterSales_proofs --------------------------
(***************************************************************************)
(* Proofs about AfterSales for any orders, cases, photographs, fees and    *)
(* amounts: partial refunds conserve money, no unit of a line is promised  *)
(* or refunded twice, penalties fall on late returns only, a photograph in *)
(* use is kept, and a settlement stays true after it was built.            *)
(***************************************************************************)
EXTENDS AfterSales, Purchase_proofs

-----------------------------------------------------------------------------
(* Sums over the cases *)

\* A sum over some members is a sum over all, with zero for the others.
LEMMA SumWhere ==
    ASSUME NEW S, IsFiniteSet(S), NEW D \in SUBSET S, NEW f, \A x \in D : f[x] \in Int
    PROVE  /\ SumFunction([x \in D |-> f[x]])
                = SumFunctionOnSet([x \in S |-> IF x \in D THEN f[x] ELSE 0], S)
           /\ IntOn([x \in S |-> IF x \in D THEN f[x] ELSE 0], S)
<1> DEFINE d == [x \in D |-> f[x]]
           h == [x \in S |-> IF x \in D THEN f[x] ELSE 0]
<1>1. IsFiniteSet(D) /\ IsFiniteSet(S \ D)
  BY FS_Subset
<1>2. /\ \A x \in D : d[x] \in Int /\ d[x] = h[x]
      /\ \A x \in S \ D : h[x] = 0
      /\ \A x \in S : h[x] \in Int
  OBVIOUS
<1>3. SumFunction(d) = SumFunctionOnSet(d, D)
  BY SumOfFunction
<1>4. D \cap (S \ D) = {} /\ D \cup (S \ D) = S
  OBVIOUS
<1> HIDE DEF d, h
<1>5. SumFunctionOnSet(d, D) = SumFunctionOnSet(h, D)
  BY <1>1, <1>2, SumSame
<1>6. SumFunctionOnSet(h, S \ D) = 0
  BY <1>1, <1>2, SumZero
<1>7. SumFunctionOnSet(h, S) = SumFunctionOnSet(h, D) + SumFunctionOnSet(h, S \ D)
  <2>1. IntOn(h, D \cup (S \ D))
    BY <1>2, <1>4 DEF IntOn
  <2> QED
    BY <1>1, <1>4, <2>1, SumSplit
<1>8. SumFunctionOnSet(h, D) \in Int
  <2>1. IntOn(h, D)
    BY <1>2 DEF IntOn
  <2> QED
    BY <1>1, <2>1, SumInt
<1>9. SumFunction(d) = SumFunctionOnSet(h, S) /\ IntOn(h, S)
  BY <1>2, <1>3, <1>5, <1>6, <1>7, <1>8 DEF IntOn
<1> QED
  BY <1>9 DEF d, h

-----------------------------------------------------------------------------
(* What is left of a line whose units are refunded one after another *)

\* The cumulative share of the credit, rounded down, never exceeds the credit, and
\* the cash given back with it never exceeds the cash.
LEMMA ShareWithin ==
    ASSUME NEW c \in Nat, NEW p \in Nat, NEW n \in Nat \ {0}, NEW r \in Nat,
           r <= n, c <= p * n
    PROVE  /\ (c * r) \div n \in Nat
           /\ (c * r) \div n <= c
           /\ c - (c * r) \div n <= p * n - p * r
<1> DEFINE f == (c * r) \div n
           m == n - r
<1>1. m \in Nat /\ n = r + m
  OBVIOUS
<1>2. c * r \in Nat /\ c * m \in Nat /\ p * m \in Nat /\ p * n \in Nat /\ p * r \in Nat
  BY <1>1
<1>3. f \in Nat /\ n * f <= c * r /\ c * r < n * f + n
  <2>1. \A x \in Nat : x \div n \in Nat /\ n * (x \div n) <= x /\ x < n * (x \div n) + n
    OBVIOUS
  <2> QED
    BY <1>2, <2>1
<1> HIDE DEF f, m
<1>4. c * n = c * r + c * m /\ p * n = p * r + p * m
  BY <1>1
<1>5. f <= c
  <2>1. n * f <= c * n
    BY <1>2, <1>3, <1>4
  <2>2. \A x, y \in Nat : n * x <= y * n => x <= y
    OBVIOUS
  <2> QED
    BY <1>3, <2>1, <2>2
<1>6. c - f <= p * m
  <2>1. c * m <= (p * n) * m
    BY <1>1, <1>2
  <2>2. (p * n) * m = n * (p * m)
    BY <1>1
  <2>3. n * f \in Nat /\ n * c = c * n /\ n * (p * m) \in Nat
    BY <1>2, <1>3
  <2>4. n * c - n * f < n * (p * m) + n
    BY <1>2, <1>3, <1>4, <2>1, <2>2, <2>3
  <2>5. ASSUME NEW x \in Nat, NEW y \in Nat, NEW z \in Nat, n * x - n * y < n * z + n
        PROVE  x - y <= z
    <3>1. n * x < n * (y + z + 1)
      BY <2>5
    <3>2. \A u, v \in Nat : n * u < n * v => u < v
      OBVIOUS
    <3> QED
      BY <3>1, <3>2
  <2> QED
    BY <1>2, <1>3, <2>4, <2>5
<1>7. p * m = p * n - p * r
  BY <1>2, <1>4
<1> QED
  BY <1>3, <1>5, <1>6, <1>7 DEF f

\* What a line still holds, per origin, is never less than nothing.
LEMMA LineLeft ==
    ASSUME NEW t \in OrderItem, t.cash + t.credit = Value(t), t.refunded \in 0..t.quantity
    PROVE  /\ t.cash - RefundedCash(t) \in Nat
           /\ t.credit - RefundedCredit(t) \in Nat
           /\ RefundedCash(t) \in Int /\ RefundedCredit(t) \in Int
           /\ RefundedCash(t) + RefundedCredit(t) = t.price * t.refunded
<1>1. PICK m \in Nat, c \in Nat, p \in Nat, n \in Nat \ {0}, r \in Nat :
         /\ m = t.cash /\ c = t.credit /\ p = t.price /\ n = t.quantity /\ r = t.refunded
         /\ r <= n /\ m + c = p * n
  <2>1. /\ t.cash \in Nat /\ t.credit \in Nat /\ t.price \in Nat /\ t.refunded \in Nat
        /\ t.quantity \in Nat \ {0}
    BY DEF OrderItem
  <2>2. t.refunded <= t.quantity /\ t.cash + t.credit = t.price * t.quantity
    BY <2>1 DEF Value
  <2> QED
    BY <2>1, <2>2
<1>2. p * n \in Nat /\ p * r \in Nat /\ c <= p * n
  <2>1. p * n \in Nat /\ p * r \in Nat
    OBVIOUS
  <2> QED
    BY <1>1, <2>1
<1>3. PICK f \in Nat : /\ f = (c * r) \div n /\ f <= c /\ c - f <= p * n - p * r
  BY <1>1, <1>2, ShareWithin
<1>4. RefundedCredit(t) = f /\ RefundedCash(t) = p * r - f
  BY <1>1, <1>3 DEF RefundedCredit, RefundedCash
<1>5. PICK y \in Nat, z \in Nat : y = p * n /\ z = p * r
  BY <1>2
<1>6. t.cash = m /\ t.credit = c /\ t.price * t.refunded = z /\ m + c = y /\ c - f <= y - z
      /\ RefundedCash(t) = z - f
  BY <1>1, <1>3, <1>4, <1>5
<1> QED
  BY <1>3, <1>4, <1>6

\* The sums of two functions that differ at k.
SumChanges(f, g, k, D) ==
    /\ SumFunction(g) = SumFunction(f) + (g[k] - f[k])
    /\ SumFunction(f) \in Nat /\ SumFunction(g) \in Nat

LEMMA SumChangesNat ==
    ASSUME NEW D, IsFiniteSet(D), NEW k \in D, NEW f, NEW g,
           \A i \in D : f[i] \in Nat /\ g[i] \in Nat,
           \A i \in D : i # k => g[i] = f[i], DOMAIN f = D, DOMAIN g = D
    PROVE  SumChanges(f, g, k, D)
<1>1. SumFunction(f) = SumFunctionOnSet(f, D) /\ SumFunction(g) = SumFunctionOnSet(g, D)
  BY SumOfFunction
<1>2. IntOn(f, D) /\ IntOn(g, D)
  BY DEF IntOn
<1>3. SumFunctionOnSet(g, D) = SumFunctionOnSet(f, D) + (g[k] - f[k])
  BY <1>2, SumUpdate
<1>4. SumFunctionOnSet(f, D) \in Nat
  BY SumNat
<1>5. SumFunctionOnSet(g, D) \in Nat
  BY SumNat
<1> QED
  BY <1>1, <1>3, <1>4, <1>5 DEF SumChanges

\* The order e that is left of d, whose account held cash and credit.
LineRefunded(d, e, cash, credit, k, q) ==
    LET share == CreditShare(d.items[k], q)
    IN  /\ e \in Order /\ Funded(e)
        /\ Held(e, cash + (-(d.items[k].price * q - share)), credit + (-share))

\* Refunding q more units of line k takes from the line, per origin, exactly the
\* difference of its cumulative shares, and leaves the other lines alone.
LEMMA MoreRefunded ==
    ASSUME NEW d \in Order, Funded(d), d.state = "COLLECTED",
           NEW cash, NEW credit, Held(d, cash, credit),
           NEW k \in DOMAIN d.items, NEW q \in Nat,
           q <= d.items[k].quantity - d.items[k].refunded,
           NEW refund \in {"NONE", "PARTIAL", "REFUNDED"},
           NEW e, e = [d EXCEPT !.items = [d.items EXCEPT ![k].refunded = @ + q],
                                !.refund = refund]
    PROVE  LineRefunded(d, e, cash, credit, k, q)
<1> DEFINE items == d.items
           t == items[k]
           u == [t EXCEPT !.refunded = @ + q]
           new == [items EXCEPT ![k].refunded = @ + q]
           share == CreditShare(t, q)
           left(s) == [i \in DOMAIN s |-> s[i].cash - RefundedCash(s[i])]
           owed(s) == [i \in DOMAIN s |-> s[i].credit - RefundedCredit(s[i])]
<1>1. /\ items \in Seq(OrderItem) /\ t \in OrderItem /\ IsFiniteSet(DOMAIN items)
      /\ t.cash + t.credit = Value(t) /\ t.refunded \in 0..t.quantity
  <2>1. items \in Seq(OrderItem)
    BY DEF Order
  <2>2. t \in OrderItem
    BY <2>1
  <2> QED
    BY <2>1, <2>2, ItemsFinite DEF Funded
<1>2. /\ t.refunded \in Nat /\ t.quantity \in Nat \ {0} /\ t.price \in Nat /\ t.credit \in Nat
      /\ t.refunded + q \in 0..t.quantity
  <2>1. /\ t.refunded \in Nat /\ t.quantity \in Nat \ {0} /\ t.price \in Nat
        /\ t.credit \in Nat
    BY <1>1 DEF OrderItem
  <2>2. q <= t.quantity - t.refunded
    OBVIOUS
  <2> HIDE DEF t
  <2>3. t.refunded + q \in 0..t.quantity
    BY <2>1, <2>2
  <2> QED
    BY <2>1, <2>3
<1>3. /\ u \in OrderItem /\ u.refunded = t.refunded + q /\ u.quantity = t.quantity
      /\ u.price = t.price /\ u.cash = t.cash /\ u.credit = t.credit
      /\ u.offer = t.offer /\ u.product = t.product
  <2>1. t.refunded + q \in Nat
    BY <1>2
  <2> HIDE DEF t
  <2> QED
    BY <1>1, <2>1 DEF OrderItem
<1>4. /\ new \in Seq(OrderItem) /\ DOMAIN new = DOMAIN items /\ new[k] = u
      /\ \A i \in DOMAIN items : i # k => new[i] = items[i]
  <2>1. new = [items EXCEPT ![k] = u]
    OBVIOUS
  <2> HIDE DEF u, new
  <2> QED
    BY <1>1, <1>3, <2>1, ExceptSeq
<1>5. e \in Order /\ e.items = new /\ e.state = d.state /\ e.cash = d.cash
      /\ e.credit = d.credit /\ e.total = d.total /\ e.grant = d.grant
  BY <1>4 DEF Order
<1>6. u.cash + u.credit = Value(u)
  BY <1>1, <1>3 DEF Value
<1>7. Funded(e)
  <2>1. \A i \in DOMAIN new : /\ new[i].cash + new[i].credit = Value(new[i])
                              /\ new[i].refunded \in 0..new[i].quantity
                              /\ new[i].cash = items[i].cash /\ new[i].credit = items[i].credit
    BY <1>2, <1>3, <1>4, <1>6 DEF Funded
  <2>2. /\ [i \in DOMAIN new |-> new[i].cash] = [i \in DOMAIN items |-> items[i].cash]
        /\ [i \in DOMAIN new |-> new[i].credit] = [i \in DOMAIN items |-> items[i].credit]
    BY <1>4, <2>1
  <2> QED
    BY <1>5, <2>1, <2>2 DEF Funded
<1>8. Open(e) = DOMAIN items /\ Open(d) = DOMAIN items
  BY <1>4, <1>5 DEF Open
<1>9. cash = SumFunction(left(items)) /\ credit = SumFunction(owed(items))
  BY <1>8 DEF Held
<1>10. /\ left(new)[k] - left(items)[k] = -(t.price * q - share)
       /\ owed(new)[k] - owed(items)[k] = -share
  <2>1. PICK a \in Int, b \in Int, x \in Int, y \in Int :
           /\ a = RefundedCredit(t) /\ b = RefundedCredit(u)
           /\ x = t.price * t.refunded /\ y = t.price * q
    <3>1. RefundedCredit(t) \in Int
      BY <1>1, LineLeft
    <3>2. RefundedCredit(u) \in Int
      BY <1>2, <1>3, <1>6, LineLeft
    <3>3. t.price * t.refunded \in Int /\ t.price * q \in Int
      BY <1>2
    <3> QED
      BY <3>1, <3>2, <3>3
  <2>2. share = b - a
    BY <1>3, <2>1 DEF CreditShare, RefundedCredit
  <2>3. u.price * u.refunded = x + y
    <3>1. \A p, r \in Nat : p * (r + q) = p * r + p * q
      OBVIOUS
    <3> QED
      BY <1>2, <1>3, <2>1, <3>1
  <2>4. RefundedCash(t) = x - a /\ RefundedCash(u) = x + y - b
    BY <2>1, <2>3 DEF RefundedCash
  <2>5. t.cash \in Int /\ t.credit \in Int
    BY <1>1 DEF OrderItem
  <2>6. left(items)[k] = t.cash - (x - a) /\ left(new)[k] = t.cash - (x + y - b)
    BY <1>3, <1>4, <2>4
  <2>7. owed(items)[k] = t.credit - a /\ owed(new)[k] = t.credit - b
    BY <1>3, <1>4, <2>1
  <2> HIDE DEF share, left, owed, t
  <2> QED
    BY <2>1, <2>2, <2>5, <2>6, <2>7
<1>11. /\ \A i \in DOMAIN items : /\ left(items)[i] \in Nat /\ left(new)[i] \in Nat
                                  /\ owed(items)[i] \in Nat /\ owed(new)[i] \in Nat
       /\ \A i \in DOMAIN items : i # k => /\ left(new)[i] = left(items)[i]
                                           /\ owed(new)[i] = owed(items)[i]
       /\ DOMAIN left(items) = DOMAIN items /\ DOMAIN left(new) = DOMAIN items
       /\ DOMAIN owed(items) = DOMAIN items /\ DOMAIN owed(new) = DOMAIN items
  <2>1. ASSUME NEW i \in DOMAIN items
        PROVE  /\ left(items)[i] \in Nat /\ left(new)[i] \in Nat
               /\ owed(items)[i] \in Nat /\ owed(new)[i] \in Nat
    <3>1. /\ items[i] \in OrderItem /\ items[i].cash + items[i].credit = Value(items[i])
          /\ items[i].refunded \in 0..items[i].quantity
      BY <1>1 DEF Funded
    <3>2. /\ new[i] \in OrderItem /\ new[i].cash + new[i].credit = Value(new[i])
          /\ new[i].refunded \in 0..new[i].quantity /\ i \in DOMAIN new
      <4>1. i \in DOMAIN new
        BY <1>4
      <4> HIDE DEF new, items
      <4>2. new[i] \in OrderItem
        BY <1>4, <4>1
      <4>3. /\ new[i].cash + new[i].credit = Value(new[i])
            /\ new[i].refunded \in 0..new[i].quantity
        BY <1>5, <1>7, <4>1 DEF Funded
      <4> QED
        BY <4>1, <4>2, <4>3
    <3> HIDE DEF items, new
    <3> QED
      BY <3>1, <3>2, LineLeft
  <2>2. /\ \A i \in DOMAIN items : i # k => /\ left(new)[i] = left(items)[i]
                                            /\ owed(new)[i] = owed(items)[i]
        /\ DOMAIN left(items) = DOMAIN items /\ DOMAIN left(new) = DOMAIN items
        /\ DOMAIN owed(items) = DOMAIN items /\ DOMAIN owed(new) = DOMAIN items
    BY <1>4
  <2> QED
    BY <2>1, <2>2
<1>12. SumChanges(left(items), left(new), k, DOMAIN items)
       /\ SumChanges(owed(items), owed(new), k, DOMAIN items)
  <2>1. k \in DOMAIN items
    OBVIOUS
  <2> DEFINE a == left(items)
             b == left(new)
             c == owed(items)
             x == owed(new)
             D == DOMAIN items
  <2> HIDE DEF a, b, c, x, D
  <2>2. /\ IsFiniteSet(D) /\ k \in D
        /\ \A i \in D : a[i] \in Nat /\ b[i] \in Nat /\ c[i] \in Nat /\ x[i] \in Nat
        /\ \A i \in D : i # k => b[i] = a[i] /\ x[i] = c[i]
        /\ DOMAIN a = D /\ DOMAIN b = D /\ DOMAIN c = D /\ DOMAIN x = D
    BY <1>1, <1>11, <2>1 DEF a, b, c, x, D
  <2>3. SumChanges(a, b, k, D)
    BY <2>2, SumChangesNat
  <2>4. SumChanges(c, x, k, D)
    BY <2>2, SumChangesNat
  <2> QED
    BY <2>3, <2>4 DEF a, b, c, x, D
<1>13. Held(e, cash + (-(t.price * q - share)), credit + (-share))
  <2>1. /\ SumFunction(left(new)) = cash + (-(t.price * q - share))
        /\ SumFunction(owed(new)) = credit + (-share)
        /\ SumFunction(left(new)) >= 0 /\ SumFunction(owed(new)) >= 0
    <3> HIDE DEF left, owed, t, share, new, items
    <3> QED
      BY <1>9, <1>10, <1>12 DEF SumChanges
  <2>2. /\ left(new) = [i \in Open(e) |-> e.items[i].cash - RefundedCash(e.items[i])]
        /\ owed(new) = [i \in Open(e) |-> e.items[i].credit - RefundedCredit(e.items[i])]
    <3>1. Open(e) = DOMAIN new /\ e.items = new
      BY <1>4, <1>5, <1>8
    <3>2. /\ \A i \in DOMAIN new : new[i].cash - RefundedCash(new[i])
                                    = e.items[i].cash - RefundedCash(e.items[i])
          /\ \A i \in DOMAIN new : new[i].credit - RefundedCredit(new[i])
                                    = e.items[i].credit - RefundedCredit(e.items[i])
      BY <3>1, Zenon
    <3> HIDE DEF new
    <3> QED
      BY <3>1, <3>2
  <2> HIDE DEF left, owed, t, share, new, items
  <2> QED
    BY <2>1, <2>2 DEF Held
<1> QED
  BY <1>5, <1>7, <1>13 DEF LineRefunded

-----------------------------------------------------------------------------
(* The invariant of cases, fees and settlements *)

CasesOfCollected ==
    \A i \in IncidentIds : incident[i] # NoIncident =>
       /\ order[incident[i].order].state = "COLLECTED"
       /\ incident[i].item \in DOMAIN order[incident[i].order].items

UndecidedUnpaid == \A i \in IncidentIds : incident[i].state = "UNDER_REVIEW" => incident[i].refund = 0

\* What the journal holds for a received order and what its cases gave back is its total.
RefundsCounted ==
    \A o \in OrderIds : order[o].state = "COLLECTED" =>
       balance[OrderCash(o)] + balance[OrderCredit(o)] + RefundOf(o) = order[o].total

\* Nothing can be reported or decided any more for a settled order.
SettledClosed ==
    \A s \in settlements :
       /\ order[s.order].state = "COLLECTED"
       /\ order[s.order].received + ReportWindow < now
       /\ \A i \in Cases(s.order) : ~Holds(i)

SettledExact ==
    \A s \in settlements :
       /\ \A r \in settlements : r.order = s.order => r = s
       /\ s.gross = order[s.order].total
       /\ s.refund = RefundOf(s.order)
       /\ s.penalty = PenaltyOf(s.order)

FeesRecorded ==
    /\ fee = NoFee \/ fee \in feeHistory
    /\ \A f, g \in feeHistory : f.version = g.version => f = g
    /\ \A s \in settlements : [version |-> s.version, amount |-> s.fee] \in feeHistory

\* LatenessCharged of the returns that were collected.
ReturnsCharged ==
    \A i \in IncidentIds : incident[i].state = "COLLECTED" /\ ~incident[i].penalty
       => incident[i].collected <= incident[i].due

AInv == /\ PInv /\ AfterSalesTypeOK
        /\ CasesOfCollected /\ UndecidedUnpaid /\ CasesCoverItems /\ RefundsCounted
        /\ SettledClosed /\ SettledExact /\ FeesRecorded
        /\ EvidenceKept /\ PenaltyDeserved /\ ReturnsCharged

\* The same sums over all the cases, with zero for those that do not count.
CaseSum(part) == SumFunctionOnSet(part, IncidentIds)

OpenPart(inc, o, k) ==
    [i \in IncidentIds |->
       IF inc[i].order = o /\ inc[i].item = k /\ inc[i].state = "UNDER_REVIEW"
         THEN inc[i].quantity ELSE 0]

Granted(c) == c.state \notin {"UNDER_REVIEW", "REJECTED"}

UnitsPart(inc, o, k) ==
    [i \in IncidentIds |->
       IF inc[i].order = o /\ inc[i].item = k /\ Granted(inc[i]) THEN inc[i].quantity ELSE 0]
PaidPart(inc, o, k) ==
    [i \in IncidentIds |->
       IF inc[i].order = o /\ inc[i].item = k /\ Granted(inc[i]) THEN inc[i].refund ELSE 0]

RefundPart(inc, o)  == [i \in IncidentIds |-> IF inc[i].order = o THEN inc[i].refund ELSE 0]
PenaltyPart(inc, o) ==
    [i \in IncidentIds |-> IF inc[i].order = o /\ inc[i].penalty THEN inc[i].refund ELSE 0]

\* CasesCoverItems, of one line.
Covered(t, inc, o, k) ==
    /\ t.refunded + CaseSum(OpenPart(inc, o, k)) <= t.quantity
    /\ t.refunded = CaseSum(UnitsPart(inc, o, k))
    /\ t.price * t.refunded = CaseSum(PaidPart(inc, o, k))

CaseDocs == [IncidentIds -> Incident \cup {NoIncident}]

LEMMA CaseNumbers ==
    \A c \in Incident \cup {NoIncident} : /\ c.quantity \in Nat /\ c.refund \in Nat
                                          /\ c.penalty \in BOOLEAN
<1>1. \A c \in Incident : c.quantity \in Nat /\ c.refund \in Nat /\ c.penalty \in BOOLEAN
  BY DEF Incident
<1>2. NoIncident.quantity = 0 /\ NoIncident.refund = 0 /\ NoIncident.penalty \in BOOLEAN
  BY DEF NoIncident
<1> SUFFICES ASSUME NEW c \in Incident \cup {NoIncident}
             PROVE  c.quantity \in Nat /\ c.refund \in Nat /\ c.penalty \in BOOLEAN
  OBVIOUS
<1>3. CASE c \in Incident
  BY <1>1, <1>3
<1>4. CASE c = NoIncident
  BY <1>2, <1>4
<1> QED
  BY <1>3, <1>4

LEMMA PartNumbers ==
    \A inc \in CaseDocs : \A o, k, i :
       i \in IncidentIds =>
          /\ OpenPart(inc, o, k)[i] \in Nat /\ UnitsPart(inc, o, k)[i] \in Nat
          /\ PaidPart(inc, o, k)[i] \in Nat
          /\ RefundPart(inc, o)[i] \in Nat /\ PenaltyPart(inc, o)[i] \in Nat
  BY CaseNumbers DEF CaseDocs, OpenPart, UnitsPart, PaidPart, RefundPart, PenaltyPart

LEMMA CaseSumNat == \A part : (\A i \in IncidentIds : part[i] \in Nat) => CaseSum(part) \in Nat
  BY AfterSalesAssumption, SumNat DEF CaseSum

LEMMA CaseSumSame ==
    \A f, g : (\A i \in IncidentIds : f[i] \in Nat /\ g[i] = f[i]) => CaseSum(g) = CaseSum(f)
<1> TAKE f, g
<1> HAVE \A i \in IncidentIds : f[i] \in Nat /\ g[i] = f[i]
<1>1. \A i \in IncidentIds : f[i] \in Int /\ f[i] = g[i]
  OBVIOUS
<1> QED
  BY <1>1, AfterSalesAssumption, SumSame DEF CaseSum

LEMMA CaseSumLess ==
    \A f, g : (\A i \in IncidentIds : f[i] \in Nat /\ g[i] \in Nat /\ g[i] <= f[i])
                 => CaseSum(g) <= CaseSum(f)
<1> TAKE f, g
<1> HAVE \A i \in IncidentIds : f[i] \in Nat /\ g[i] \in Nat /\ g[i] <= f[i]
<1> QED
  BY AfterSalesAssumption, SumAtMost DEF CaseSum, IntOn

LEMMA CaseSumChange ==
    \A i \in IncidentIds : \A f, g :
       (\A x \in IncidentIds : f[x] \in Nat /\ g[x] \in Nat /\ (x # i => g[x] = f[x]))
          => CaseSum(g) = CaseSum(f) + (g[i] - f[i])
<1> TAKE i \in IncidentIds
<1> TAKE f, g
<1> HAVE \A x \in IncidentIds : f[x] \in Nat /\ g[x] \in Nat /\ (x # i => g[x] = f[x])
<1>1. IntOn(f, IncidentIds) /\ IntOn(g, IncidentIds)
  BY DEF IntOn
<1> QED
  BY <1>1, AfterSalesAssumption, SumUpdate DEF CaseSum

LEMMA CaseSumZero == \A f : (\A i \in IncidentIds : f[i] = 0) => CaseSum(f) = 0
  BY AfterSalesAssumption, SumZero DEF CaseSum

LEMMA PartSum ==
    \A D \in SUBSET IncidentIds : \A q, part :
       /\ \A i \in IncidentIds : q[i] \in Nat
       /\ part = [i \in IncidentIds |-> IF i \in D THEN q[i] ELSE 0]
       => SumFunction([i \in D |-> q[i]]) = CaseSum(part)
<1> SUFFICES ASSUME NEW D \in SUBSET IncidentIds, NEW q, \A i \in IncidentIds : q[i] \in Nat
             PROVE  SumFunction([i \in D |-> q[i]])
                      = CaseSum([i \in IncidentIds |-> IF i \in D THEN q[i] ELSE 0])
  OBVIOUS
<1> QED
  BY AfterSalesAssumption, SumWhere DEF CaseSum

\* The model's sums, over some cases of some documents, are those.
OpenUnits(inc, cases) ==
    SumFunction([i \in {j \in cases : inc[j].state = "UNDER_REVIEW"} |-> inc[i].quantity])
DoneUnits(inc, cases) ==
    SumFunction([i \in {j \in cases : inc[j].state \notin {"UNDER_REVIEW", "REJECTED"}}
                   |-> inc[i].quantity])
DonePaid(inc, cases) ==
    SumFunction([i \in {j \in cases : inc[j].state \notin {"UNDER_REVIEW", "REJECTED"}}
                   |-> inc[i].refund])

LEMMA LineSums ==
    ASSUME NEW inc \in CaseDocs, NEW o, NEW k,
           NEW cases, cases = {i \in {j \in IncidentIds : inc[j].order = o} : inc[i].item = k}
    PROVE  /\ OpenUnits(inc, cases) = CaseSum(OpenPart(inc, o, k))
           /\ DoneUnits(inc, cases) = CaseSum(UnitsPart(inc, o, k))
           /\ DonePaid(inc, cases) = CaseSum(PaidPart(inc, o, k))
<1> DEFINE open == {j \in cases : inc[j].state = "UNDER_REVIEW"}
           done == {j \in cases : inc[j].state \notin {"UNDER_REVIEW", "REJECTED"}}
           units == [i \in IncidentIds |-> inc[i].quantity]
           paid == [i \in IncidentIds |-> inc[i].refund]
<1>1. open \in SUBSET IncidentIds /\ done \in SUBSET IncidentIds
  OBVIOUS
<1>2. \A i \in IncidentIds : units[i] \in Nat /\ paid[i] \in Nat
  BY CaseNumbers DEF CaseDocs
<1>3. /\ [i \in open |-> inc[i].quantity] = [i \in open |-> units[i]]
      /\ [i \in done |-> inc[i].quantity] = [i \in done |-> units[i]]
      /\ [i \in done |-> inc[i].refund] = [i \in done |-> paid[i]]
  BY <1>1
<1>4. /\ OpenPart(inc, o, k) = [i \in IncidentIds |-> IF i \in open THEN units[i] ELSE 0]
      /\ UnitsPart(inc, o, k) = [i \in IncidentIds |-> IF i \in done THEN units[i] ELSE 0]
      /\ PaidPart(inc, o, k) = [i \in IncidentIds |-> IF i \in done THEN paid[i] ELSE 0]
  BY DEF OpenPart, UnitsPart, PaidPart, Granted
<1> HIDE DEF open, done, units, paid
<1>5. SumFunction([i \in open |-> units[i]]) = CaseSum(OpenPart(inc, o, k))
  BY <1>1, <1>2, <1>4, PartSum
<1>6. SumFunction([i \in done |-> units[i]]) = CaseSum(UnitsPart(inc, o, k))
  BY <1>1, <1>2, <1>4, PartSum
<1>7. SumFunction([i \in done |-> paid[i]]) = CaseSum(PaidPart(inc, o, k))
  BY <1>1, <1>2, <1>4, PartSum
<1> QED
  BY <1>3, <1>5, <1>6, <1>7 DEF open, done, OpenUnits, DoneUnits, DonePaid

LEMMA OrderSums ==
    ASSUME NEW inc \in CaseDocs, NEW o, NEW cases, cases = {i \in IncidentIds : inc[i].order = o}
    PROVE  /\ SumFunction([i \in cases |-> inc[i].refund]) = CaseSum(RefundPart(inc, o))
           /\ SumFunction([i \in {j \in cases : inc[j].penalty} |-> inc[i].refund])
                = CaseSum(PenaltyPart(inc, o))
<1> DEFINE late == {j \in cases : inc[j].penalty}
           paid == [i \in IncidentIds |-> inc[i].refund]
<1>1. cases \in SUBSET IncidentIds /\ late \in SUBSET IncidentIds
  OBVIOUS
<1>2. \A i \in IncidentIds : paid[i] \in Nat
  BY CaseNumbers DEF CaseDocs
<1>3. /\ [i \in cases |-> inc[i].refund] = [i \in cases |-> paid[i]]
      /\ [i \in late |-> inc[i].refund] = [i \in late |-> paid[i]]
  BY <1>1
<1>4. RefundPart(inc, o) = [i \in IncidentIds |-> IF i \in cases THEN paid[i] ELSE 0]
  BY DEF RefundPart
<1>5. PenaltyPart(inc, o) = [i \in IncidentIds |-> IF i \in late THEN paid[i] ELSE 0]
  BY DEF PenaltyPart
<1> HIDE DEF late, paid
<1>6. SumFunction([i \in cases |-> paid[i]]) = CaseSum(RefundPart(inc, o))
  BY <1>1, <1>2, <1>4, PartSum
<1>7. SumFunction([i \in late |-> paid[i]]) = CaseSum(PenaltyPart(inc, o))
  BY <1>1, <1>2, <1>5, PartSum
<1> QED
  BY <1>3, <1>6, <1>7 DEF late

LEMMA CoveredEach ==
    ASSUME incident \in CaseDocs
    PROVE  CasesCoverItems <=> \A o \in OrderIds : \A k \in DOMAIN order[o].items :
                                  Covered(order[o].items[k], incident, o, k)
<1>1. ASSUME NEW o \in OrderIds, NEW k \in DOMAIN order[o].items,
             NEW cases, cases = {x \in Cases(o) : incident[x].item = k}
      PROVE  /\ OpenUnits(incident, cases) = CaseSum(OpenPart(incident, o, k))
             /\ DoneUnits(incident, cases) = CaseSum(UnitsPart(incident, o, k))
             /\ DonePaid(incident, cases) = CaseSum(PaidPart(incident, o, k))
  <2>1. cases = {i \in {j \in IncidentIds : incident[j].order = o} : incident[i].item = k}
    BY <1>1 DEF Cases
  <2> QED
    BY <2>1, LineSums
<1>2. CasesCoverItems <=>
        \A o \in OrderIds : \A k \in DOMAIN order[o].items :
           LET t == order[o].items[k]
               cases == {x \in Cases(o) : incident[x].item = k}
           IN  /\ t.refunded + OpenUnits(incident, cases) <= t.quantity
               /\ t.refunded = DoneUnits(incident, cases)
               /\ t.price * t.refunded = DonePaid(incident, cases)
  BY DEF CasesCoverItems, OpenUnits, DoneUnits, DonePaid
<1> QED
  BY <1>1, <1>2 DEF Covered

LEMMA CoveredEachNext ==
    ASSUME incident' \in CaseDocs
    PROVE  CasesCoverItems' <=> \A o \in OrderIds : \A k \in DOMAIN order'[o].items :
                                   Covered(order'[o].items[k], incident', o, k)
<1>1. ASSUME NEW o \in OrderIds, NEW k \in DOMAIN order'[o].items,
             NEW cases, cases = {x \in Cases(o)' : incident'[x].item = k}
      PROVE  /\ OpenUnits(incident', cases) = CaseSum(OpenPart(incident', o, k))
             /\ DoneUnits(incident', cases) = CaseSum(UnitsPart(incident', o, k))
             /\ DonePaid(incident', cases) = CaseSum(PaidPart(incident', o, k))
  <2>1. cases = {i \in {j \in IncidentIds : incident'[j].order = o} : incident'[i].item = k}
    BY <1>1 DEF Cases
  <2> QED
    BY <2>1, LineSums
<1>2. CasesCoverItems' <=>
        \A o \in OrderIds : \A k \in DOMAIN order'[o].items :
           LET t == order'[o].items[k]
               cases == {x \in Cases(o)' : incident'[x].item = k}
           IN  /\ t.refunded + OpenUnits(incident', cases) <= t.quantity
               /\ t.refunded = DoneUnits(incident', cases)
               /\ t.price * t.refunded = DonePaid(incident', cases)
  BY DEF CasesCoverItems, OpenUnits, DoneUnits, DonePaid
<1> QED
  BY <1>1, <1>2 DEF Covered

LEMMA RefundSum ==
    /\ incident \in CaseDocs =>
          \A o : /\ RefundOf(o) = CaseSum(RefundPart(incident, o)) /\ RefundOf(o) \in Nat
                 /\ PenaltyOf(o) = CaseSum(PenaltyPart(incident, o)) /\ PenaltyOf(o) \in Nat
    /\ incident' \in CaseDocs =>
          \A o : /\ RefundOf(o)' = CaseSum(RefundPart(incident', o)) /\ RefundOf(o)' \in Nat
                 /\ PenaltyOf(o)' = CaseSum(PenaltyPart(incident', o)) /\ PenaltyOf(o)' \in Nat
<1>1. ASSUME incident \in CaseDocs, NEW o
      PROVE  /\ RefundOf(o) = CaseSum(RefundPart(incident, o)) /\ RefundOf(o) \in Nat
             /\ PenaltyOf(o) = CaseSum(PenaltyPart(incident, o)) /\ PenaltyOf(o) \in Nat
  <2>1. RefundOf(o) = CaseSum(RefundPart(incident, o))
    BY <1>1, OrderSums DEF RefundOf, Cases
  <2>2. PenaltyOf(o) = CaseSum(PenaltyPart(incident, o))
    BY <1>1, OrderSums DEF PenaltyOf, Cases
  <2>3. CaseSum(RefundPart(incident, o)) \in Nat /\ CaseSum(PenaltyPart(incident, o)) \in Nat
    BY <1>1, CaseSumNat, PartNumbers
  <2> QED
    BY <2>1, <2>2, <2>3
<1>2. ASSUME incident' \in CaseDocs, NEW o
      PROVE  /\ RefundOf(o)' = CaseSum(RefundPart(incident', o)) /\ RefundOf(o)' \in Nat
             /\ PenaltyOf(o)' = CaseSum(PenaltyPart(incident', o)) /\ PenaltyOf(o)' \in Nat
  <2>1. RefundOf(o)' = CaseSum(RefundPart(incident', o))
    BY <1>2, OrderSums DEF RefundOf, Cases
  <2>2. PenaltyOf(o)' = CaseSum(PenaltyPart(incident', o))
    BY <1>2, OrderSums DEF PenaltyOf, Cases
  <2>3. CaseSum(RefundPart(incident', o)) \in Nat /\ CaseSum(PenaltyPart(incident', o)) \in Nat
    BY <1>2, CaseSumNat, PartNumbers
  <2> QED
    BY <2>1, <2>2, <2>3
<1> QED
  BY <1>1, <1>2

LEMMA LineNumbers ==
    ASSUME PInv, NEW o \in OrderIds, NEW k \in DOMAIN order[o].items
    PROVE  /\ order[o] \in Order /\ order[o].items[k] \in OrderItem /\ k \in Nat \ {0}
           /\ order[o].items[k].refunded \in Nat /\ order[o].items[k].quantity \in Nat
<1>1. order[o] \in Order \cup {NoOrder}
  BY DEF PInv, PurchaseTypeOK
<1>2. order[o] \in Order
  BY <1>1 DEF NoOrder
<1>3. order[o].items \in Seq(OrderItem)
  BY <1>2 DEF Order
<1>4. order[o].items[k] \in OrderItem /\ k \in Nat \ {0}
  BY <1>3
<1> QED
  BY <1>2, <1>4 DEF OrderItem

-----------------------------------------------------------------------------
(* Cases that go on *)

LEMMA MoneyStays == PInv /\ UNCHANGED <<fundsVars, purchaseVars>> => PInv'
  BY PurchaseStep

\* PenaltyDeserved and ReturnsCharged, of one document.
Deserved(c, time) ==
    c.penalty => /\ c.state \in {"AWAITING_RETURN", "COLLECTED"}
                 /\ time > c.due
                 /\ c.state = "COLLECTED" => c.collected > c.due
Charged(c) == c.state = "COLLECTED" /\ ~c.penalty => c.collected <= c.due

HoldsBack(c) == c.state = "UNDER_REVIEW" \/ (c.state = "AWAITING_RETURN" /\ ~c.penalty)

\* A step of a case that keeps what it is about, and what it was granted.
Goes(c, e) ==
    /\ e.order = c.order /\ e.item = c.item /\ e.quantity = c.quantity
    /\ e.refund = c.refund /\ e.evidence = c.evidence
    /\ e = NoIncident <=> c = NoIncident
    /\ Granted(e) <=> Granted(c)
    /\ e.state = "UNDER_REVIEW" => c.state = "UNDER_REVIEW"

LEMMA SettledHolds ==
    ASSUME AInv, NEW i \in IncidentIds, Settled(incident[i].order)
    PROVE  ~HoldsBack(incident[i])
<1>1. PICK s \in settlements : s.order = incident[i].order
  BY DEF Settled
<1>2. i \in Cases(s.order)
  BY <1>1 DEF Cases
<1> QED
  BY <1>1, <1>2 DEF AInv, SettledClosed, Holds, HoldsBack

LEMMA CasesKept ==
    ASSUME AInv, UNCHANGED <<fundsVars, purchaseVars, evidence, feeVars, settlements>>,
           incident' \in CaseDocs,
           \A i \in IncidentIds : Goes(incident[i], incident'[i]),
           \A i \in IncidentIds : Settled(incident[i].order) =>
              (incident'[i].penalty <=> incident[i].penalty) /\ ~HoldsBack(incident'[i]),
           \A i \in IncidentIds : Deserved(incident'[i], now) /\ Charged(incident'[i])
    PROVE  AInv'
<1>1. /\ UNCHANGED <<now, balance, order, evidence, fee, feeHistory, settlements>>
      /\ incident \in CaseDocs
  BY DEF fundsVars, purchaseVars, feeVars, AInv, AfterSalesTypeOK, CaseDocs
<1>2. PInv'
  <2>1. PInv /\ UNCHANGED <<fundsVars, purchaseVars>>
    BY DEF AInv
  <2> QED
    BY <2>1, MoneyStays
<1>3. AfterSalesTypeOK'
  BY <1>1 DEF AInv, AfterSalesTypeOK, CaseDocs
<1>4. CasesOfCollected' /\ UndecidedUnpaid' /\ EvidenceKept'
  BY <1>1 DEF AInv, CasesOfCollected, UndecidedUnpaid, EvidenceKept, Goes
<1>5. CasesCoverItems'
  <2> SUFFICES ASSUME NEW o \in OrderIds, NEW k \in DOMAIN order[o].items
               PROVE  Covered(order[o].items[k], incident', o, k)
    BY <1>1, CoveredEachNext
  <2>1. Covered(order[o].items[k], incident, o, k)
    BY <1>1, CoveredEach DEF AInv
  <2>2. CaseSum(UnitsPart(incident', o, k)) = CaseSum(UnitsPart(incident, o, k))
    <3>1. \A i \in IncidentIds :
             UnitsPart(incident', o, k)[i] = UnitsPart(incident, o, k)[i]
      BY DEF UnitsPart, Goes
    <3> QED
      BY <1>1, <3>1, PartNumbers, CaseSumSame
  <2>3. CaseSum(PaidPart(incident', o, k)) = CaseSum(PaidPart(incident, o, k))
    <3>1. \A i \in IncidentIds :
             PaidPart(incident', o, k)[i] = PaidPart(incident, o, k)[i]
      BY DEF PaidPart, Goes
    <3> QED
      BY <1>1, <3>1, PartNumbers, CaseSumSame
  <2>4. CaseSum(OpenPart(incident', o, k)) <= CaseSum(OpenPart(incident, o, k))
    <3>1. \A i \in IncidentIds :
             OpenPart(incident', o, k)[i] <= OpenPart(incident, o, k)[i]
      <4> TAKE i \in IncidentIds
      <4>1. incident[i].quantity \in Nat
        BY <1>1, CaseNumbers DEF CaseDocs
      <4> QED
        BY <4>1 DEF OpenPart, Goes
    <3> QED
      BY <1>1, <3>1, PartNumbers, CaseSumLess
  <2>5. CaseSum(OpenPart(incident', o, k)) \in Nat /\ CaseSum(OpenPart(incident, o, k)) \in Nat
    BY <1>1, PartNumbers, CaseSumNat
  <2>6. order[o].items[k].refunded \in Nat /\ order[o].items[k].quantity \in Nat
    BY LineNumbers DEF AInv
  <2> QED
    BY <2>1, <2>2, <2>3, <2>4, <2>5, <2>6 DEF Covered
<1>6. ASSUME NEW o
      PROVE  /\ RefundOf(o)' = RefundOf(o)
             /\ Settled(o) => PenaltyOf(o)' = PenaltyOf(o)
  <2>1. CaseSum(RefundPart(incident', o)) = CaseSum(RefundPart(incident, o))
    <3>1. \A i \in IncidentIds : RefundPart(incident', o)[i] = RefundPart(incident, o)[i]
      BY DEF RefundPart, Goes
    <3> QED
      BY <1>1, <3>1, PartNumbers, CaseSumSame
  <2>2. ASSUME Settled(o)
        PROVE  CaseSum(PenaltyPart(incident', o)) = CaseSum(PenaltyPart(incident, o))
    <3>1. \A i \in IncidentIds : PenaltyPart(incident', o)[i] = PenaltyPart(incident, o)[i]
      BY <2>2 DEF PenaltyPart, Goes
    <3> QED
      BY <1>1, <3>1, PartNumbers, CaseSumSame
  <2> QED
    BY <1>1, <2>1, <2>2, RefundSum
<1>7. RefundsCounted'
  BY <1>1, <1>6 DEF AInv, RefundsCounted
<1>8. SettledExact'
  <2>1. \A s \in settlements : Settled(s.order)
    BY DEF Settled
  <2> QED
    BY <1>1, <1>6, <2>1 DEF AInv, SettledExact
<1>9. SettledClosed'
  <2> SUFFICES ASSUME NEW s \in settlements, NEW i \in IncidentIds, incident'[i].order = s.order
               PROVE  ~HoldsBack(incident'[i])
    BY <1>1 DEF AInv, SettledClosed, Cases, Holds, HoldsBack
  <2>1. Settled(incident[i].order)
    BY DEF Settled, Goes
  <2> QED
    BY <2>1
<1>10. FeesRecorded' /\ PenaltyDeserved' /\ ReturnsCharged'
  BY <1>1 DEF AInv, FeesRecorded, PenaltyDeserved, ReturnsCharged, Deserved, Charged
<1> QED
  BY <1>2, <1>3, <1>4, <1>5, <1>7, <1>8, <1>9, <1>10 DEF AInv

\* One case goes on.
LEMMA OneCaseStep ==
    ASSUME AInv, UNCHANGED <<fundsVars, purchaseVars, evidence, feeVars, settlements>>,
           NEW i \in IncidentIds, incident[i] \in Incident, NEW e \in Incident,
           incident' = [incident EXCEPT ![i] = e], Goes(incident[i], e),
           Settled(incident[i].order) => (e.penalty <=> incident[i].penalty) /\ ~HoldsBack(e),
           Deserved(e, now), Charged(e)
    PROVE  AInv'
<1>1. incident \in CaseDocs
  BY DEF AInv, AfterSalesTypeOK, CaseDocs
<1>2. /\ incident' \in CaseDocs /\ incident'[i] = e
      /\ \A x \in IncidentIds : x # i => incident'[x] = incident[x]
  BY <1>1 DEF CaseDocs
<1>3. \A x \in IncidentIds : Goes(incident[x], incident'[x])
  BY <1>2 DEF Goes
<1>4. \A x \in IncidentIds : Settled(incident[x].order) =>
         (incident'[x].penalty <=> incident[x].penalty) /\ ~HoldsBack(incident'[x])
  BY <1>2, SettledHolds
<1>5. \A x \in IncidentIds : Deserved(incident'[x], now) /\ Charged(incident'[x])
  <2>1. \A x \in IncidentIds : Deserved(incident[x], now) /\ Charged(incident[x])
    BY DEF AInv, PenaltyDeserved, ReturnsCharged, Deserved, Charged
  <2> QED
    BY <1>2, <2>1
<1> QED
  BY <1>2, <1>3, <1>4, <1>5, CasesKept

\* A document in one of the states of a case is a case.
LEMMA IsCase ==
    ASSUME AInv, NEW i \in IncidentIds, incident[i].state # "NONE"
    PROVE  incident[i] \in Incident /\ incident[i] # NoIncident
<1>1. incident[i] # NoIncident
  BY DEF NoIncident
<1> QED
  BY <1>1 DEF AInv, AfterSalesTypeOK

LEMMA RejectStep ==
    ASSUME AInv, NEW i \in IncidentIds, Reject(i)
    PROVE  AInv'
<1> DEFINE c == incident[i]
           e == [c EXCEPT !.state = "REJECTED"]
<1>1. c \in Incident /\ c # NoIncident /\ c.state = "UNDER_REVIEW" /\ HoldsBack(c)
  BY IsCase DEF Reject, HoldsBack
<1>2. incident \in [IncidentIds -> Incident \cup {NoIncident}]
  BY DEF AInv, AfterSalesTypeOK
<1>3. /\ incident' = [incident EXCEPT ![i] = e]
      /\ UNCHANGED <<fundsVars, purchaseVars, evidence, feeVars, settlements>>
  BY <1>2 DEF Reject
<1>4. /\ e \in Incident /\ e.state = "REJECTED" /\ e.order = c.order /\ e.item = c.item
      /\ e.quantity = c.quantity /\ e.refund = c.refund /\ e.evidence = c.evidence
      /\ e.penalty = c.penalty
  BY <1>1 DEF Incident
<1>5. ~c.penalty
  BY <1>1 DEF AInv, PenaltyDeserved
<1>6. ~Settled(c.order)
  BY <1>1, SettledHolds
<1> HIDE DEF c, e
<1>7. Goes(c, e) /\ Deserved(e, now) /\ Charged(e)
  BY <1>1, <1>4, <1>5 DEF Goes, Granted, Deserved, Charged, NoIncident
<1> QED
  BY <1>1, <1>3, <1>4, <1>6, <1>7, OneCaseStep DEF c

\* Contact and visit only add their marks to a return that is awaited.
LEMMA ReturnMarkStep ==
    ASSUME AInv, NEW i \in IncidentIds, ReturnContact(i) \/ ReturnVisit(i)
    PROVE  AInv'
<1> DEFINE c == incident[i]
<1>1. c \in Incident /\ c # NoIncident /\ c.state = "AWAITING_RETURN"
  BY IsCase DEF ReturnContact, ReturnVisit
<1>2. incident \in [IncidentIds -> Incident \cup {NoIncident}] /\ now \in Nat
  BY DEF AInv, AfterSalesTypeOK, PInv, FInv, FundsTypeOK
<1>3. PICK contact \in BOOLEAN, visit \in Nat \cup {Never} :
         incident' = [incident EXCEPT ![i] = [c EXCEPT !.contacted = contact, !.visited = visit]]
  <2>1. c.contacted \in BOOLEAN /\ c.visited \in Nat \cup {Never}
    BY <1>1 DEF Incident
  <2>2. /\ [c EXCEPT !.contacted = TRUE] = [c EXCEPT !.contacted = TRUE, !.visited = c.visited]
        /\ [c EXCEPT !.visited = now] = [c EXCEPT !.contacted = c.contacted, !.visited = now]
    BY <1>1 DEF Incident
  <2>3. \/ incident' = [incident EXCEPT ![i] = [c EXCEPT !.contacted = TRUE]]
        \/ incident' = [incident EXCEPT ![i] = [c EXCEPT !.visited = now]]
    BY <1>2 DEF ReturnContact, ReturnVisit
  <2> QED
    BY <1>2, <2>1, <2>2, <2>3
<1> DEFINE e == [c EXCEPT !.contacted = contact, !.visited = visit]
<1>4. /\ e \in Incident /\ e.state = c.state /\ e.order = c.order /\ e.item = c.item
      /\ e.quantity = c.quantity /\ e.refund = c.refund /\ e.evidence = c.evidence
      /\ e.penalty = c.penalty /\ e.due = c.due /\ e.collected = c.collected
  BY <1>1 DEF Incident
<1>5. Deserved(c, now) /\ Charged(c)
  BY DEF AInv, PenaltyDeserved, ReturnsCharged, Deserved, Charged
<1>6. Settled(c.order) => ~HoldsBack(c)
  BY SettledHolds
<1>7. /\ incident' = [incident EXCEPT ![i] = e]
      /\ UNCHANGED <<fundsVars, purchaseVars, evidence, feeVars, settlements>>
  BY <1>3 DEF ReturnContact, ReturnVisit
<1> HIDE DEF c, e
<1>8. Goes(c, e) /\ Deserved(e, now) /\ Charged(e) /\ (HoldsBack(e) <=> HoldsBack(c))
  BY <1>1, <1>4, <1>5 DEF Goes, Granted, Deserved, Charged, HoldsBack, NoIncident
<1> QED
  BY <1>1, <1>4, <1>6, <1>7, <1>8, OneCaseStep DEF c

LEMMA ConfirmReturnStep ==
    ASSUME AInv, NEW i \in IncidentIds, ConfirmReturn(i)
    PROVE  AInv'
<1> DEFINE c == incident[i]
           e == [c EXCEPT !.state = "COLLECTED", !.collected = now, !.penalty = now > c.due]
<1>1. c \in Incident /\ c # NoIncident /\ c.state = "AWAITING_RETURN"
  BY IsCase DEF ConfirmReturn
<1>2. incident \in [IncidentIds -> Incident \cup {NoIncident}] /\ now \in Nat
  BY DEF AInv, AfterSalesTypeOK, PInv, FInv, FundsTypeOK
<1>3. /\ incident' = [incident EXCEPT ![i] = e]
      /\ UNCHANGED <<fundsVars, purchaseVars, evidence, feeVars, settlements>>
  BY <1>2 DEF ConfirmReturn
<1>4. /\ e \in Incident /\ e.state = "COLLECTED" /\ e.order = c.order /\ e.item = c.item
      /\ e.quantity = c.quantity /\ e.refund = c.refund /\ e.evidence = c.evidence
      /\ (e.penalty <=> now > c.due) /\ e.due = c.due /\ e.collected = now /\ c.due \in Int
  <2>1. (now > c.due) \in BOOLEAN
    OBVIOUS
  <2>2. c.due \in Nat \cup {Never}
    BY <1>1 DEF Incident
  <2>3. c.due \in Int
    BY <2>2 DEF Never
  <2>4. e \in Incident
    BY <1>1, <1>2, <2>1 DEF Incident
  <2>5. /\ e.state = "COLLECTED" /\ e.order = c.order /\ e.item = c.item
        /\ e.quantity = c.quantity /\ e.refund = c.refund /\ e.evidence = c.evidence
        /\ e.due = c.due /\ e.collected = now
    BY <1>1 DEF Incident
  <2>6. e.penalty = (now > c.due)
    BY <1>1 DEF Incident
  <2> QED
    BY <2>3, <2>4, <2>5, <2>6
<1>5. Deserved(c, now) /\ (Settled(c.order) => ~HoldsBack(c))
  BY SettledHolds DEF AInv, PenaltyDeserved, Deserved
<1> HIDE DEF c, e
<1>6. Goes(c, e)
  BY <1>1, <1>4 DEF Goes, Granted, NoIncident
<1>7. Deserved(e, now) /\ Charged(e) /\ ~HoldsBack(e)
  BY <1>2, <1>4 DEF Deserved, Charged, HoldsBack
<1>8. Settled(c.order) => (e.penalty <=> c.penalty)
  BY <1>1, <1>4, <1>5 DEF Deserved, HoldsBack
<1> QED
  BY <1>1, <1>3, <1>4, <1>6, <1>7, <1>8, OneCaseStep DEF c

LEMMA VerifyUnavailableStep ==
    ASSUME AInv, NEW i \in IncidentIds, VerifyUnavailable(i)
    PROVE  AInv'
<1> DEFINE c == incident[i]
           e == [c EXCEPT !.state = "CUSTOMER_UNAVAILABLE_VERIFIED", !.penalty = FALSE]
<1>1. c \in Incident /\ c # NoIncident /\ c.state = "AWAITING_RETURN" /\ ~Settled(c.order)
  BY IsCase DEF VerifyUnavailable
<1>2. incident \in [IncidentIds -> Incident \cup {NoIncident}]
  BY DEF AInv, AfterSalesTypeOK
<1>3. /\ incident' = [incident EXCEPT ![i] = e]
      /\ UNCHANGED <<fundsVars, purchaseVars, evidence, feeVars, settlements>>
  BY <1>2 DEF VerifyUnavailable
<1>4. /\ e \in Incident /\ e.state = "CUSTOMER_UNAVAILABLE_VERIFIED"
      /\ e.order = c.order /\ e.item = c.item
      /\ e.quantity = c.quantity /\ e.refund = c.refund /\ e.evidence = c.evidence
      /\ ~e.penalty
  BY <1>1 DEF Incident
<1> HIDE DEF c, e
<1>5. Goes(c, e) /\ Deserved(e, now) /\ Charged(e)
  BY <1>1, <1>4 DEF Goes, Granted, Deserved, Charged, NoIncident
<1> QED
  BY <1>1, <1>3, <1>4, <1>5, OneCaseStep DEF c

\* The assessment of returns never adds a penalty to a settled order: its late
\* returns have theirs already.
LEMMA AssessReturnsStep ==
    ASSUME AInv, AssessReturns
    PROVE  AInv'
<1>1. /\ UNCHANGED <<fundsVars, purchaseVars, evidence, feeVars, settlements>>
      /\ \A i \in IncidentIds :
            incident'[i] = IF Late(i) THEN [incident[i] EXCEPT !.penalty = TRUE] ELSE incident[i]
      /\ DOMAIN incident' = IncidentIds
      /\ incident' = [i \in IncidentIds |-> incident'[i]]
  BY DEF AssessReturns
<1>2. \A i \in IncidentIds : Deserved(incident[i], now) /\ Charged(incident[i])
  BY DEF AInv, PenaltyDeserved, ReturnsCharged, Deserved, Charged
<1>3. ASSUME NEW i \in IncidentIds
      PROVE  /\ incident'[i] \in Incident \cup {NoIncident}
             /\ Goes(incident[i], incident'[i])
             /\ Settled(incident[i].order) =>
                   (incident'[i].penalty <=> incident[i].penalty) /\ ~HoldsBack(incident'[i])
             /\ Deserved(incident'[i], now) /\ Charged(incident'[i])
  <2> DEFINE c == incident[i]
             e == incident'[i]
  <2>1. CASE ~Late(i)
    <3>1. e = c
      BY <1>1, <2>1
    <3>2. c \in Incident \cup {NoIncident}
      BY DEF AInv, AfterSalesTypeOK
    <3>3. Goes(c, c)
      BY DEF Goes
    <3>4. Settled(c.order) => ~HoldsBack(c)
      BY SettledHolds
    <3>5. Deserved(c, now) /\ Charged(c)
      BY <1>2
    <3> HIDE DEF c, e
    <3>6. /\ e \in Incident \cup {NoIncident} /\ Goes(c, e)
          /\ Settled(c.order) => (e.penalty <=> c.penalty) /\ ~HoldsBack(e)
          /\ Deserved(e, now) /\ Charged(e)
      BY <3>1, <3>2, <3>3, <3>4, <3>5
    <3> QED
      BY <3>6 DEF c, e
  <2>2. CASE Late(i)
    <3>1. c \in Incident /\ c # NoIncident /\ c.state = "AWAITING_RETURN" /\ c.due < now
      BY <2>2, IsCase DEF Late
    <3>2. e = [c EXCEPT !.penalty = TRUE]
      BY <1>1, <2>2
    <3>3. /\ e \in Incident /\ e.state = c.state /\ e.order = c.order /\ e.item = c.item
          /\ e.quantity = c.quantity /\ e.refund = c.refund /\ e.evidence = c.evidence
          /\ e.penalty /\ e.due = c.due
      BY <3>1, <3>2 DEF Incident
    <3>4. Settled(c.order) => ~HoldsBack(c)
      BY SettledHolds
    <3> HIDE DEF c, e
    <3>5. c.due \in Int /\ now \in Int
      BY <3>1 DEF Incident, Never, AInv, PInv, FInv, FundsTypeOK
    <3>6. Goes(c, e) /\ ~HoldsBack(e) /\ Charged(e) /\ Deserved(e, now)
      BY <3>1, <3>3, <3>5 DEF Goes, Granted, HoldsBack, Charged, Deserved, NoIncident
    <3>7. Settled(c.order) => (e.penalty <=> c.penalty)
      BY <3>1, <3>3, <3>4 DEF HoldsBack
    <3>8. /\ e \in Incident \cup {NoIncident} /\ Goes(c, e)
          /\ Settled(c.order) => (e.penalty <=> c.penalty) /\ ~HoldsBack(e)
          /\ Deserved(e, now) /\ Charged(e)
      BY <3>3, <3>6, <3>7
    <3> QED
      BY <3>8 DEF c, e
  <2> QED
    BY <2>1, <2>2
<1>4. incident' \in CaseDocs
  BY <1>1, <1>3 DEF CaseDocs
<1> QED
  BY <1>1, <1>3, <1>4, CasesKept

-----------------------------------------------------------------------------
(* Photographs, fees and settlements *)

\* Steps that leave the money, the orders and the cases alone.
LEMMA CasesUntouched ==
    ASSUME AInv, UNCHANGED <<fundsVars, purchaseVars, incident>>,
           AfterSalesTypeOK', EvidenceKept', SettledClosed', SettledExact', FeesRecorded'
    PROVE  AInv'
<1>1. UNCHANGED <<now, balance, order, incident>>
  BY DEF fundsVars, purchaseVars
<1>2. PInv'
  <2>1. PInv /\ UNCHANGED <<fundsVars, purchaseVars>>
    BY DEF AInv
  <2> QED
    BY <2>1, MoneyStays
<1>3. CasesOfCollected' /\ UndecidedUnpaid' /\ PenaltyDeserved' /\ ReturnsCharged'
  BY <1>1 DEF AInv, CasesOfCollected, UndecidedUnpaid, PenaltyDeserved, ReturnsCharged
<1>4. CasesCoverItems' /\ RefundsCounted'
  <2>1. \A o : RefundOf(o)' = RefundOf(o)
    BY <1>1 DEF Cases, RefundOf
  <2>2. CasesCoverItems'
    <3>1. incident \in CaseDocs /\ incident' \in CaseDocs
      BY <1>1 DEF AInv, AfterSalesTypeOK, CaseDocs
    <3>2. \A o \in OrderIds : \A k \in DOMAIN order[o].items :
             Covered(order[o].items[k], incident, o, k)
      BY <3>1, CoveredEach DEF AInv
    <3> QED
      BY <1>1, <3>1, <3>2, CoveredEachNext
  <2>3. RefundsCounted'
    BY <1>1, <2>1 DEF AInv, RefundsCounted
  <2> QED
    BY <2>2, <2>3
<1> QED
  BY <1>2, <1>3, <1>4 DEF AInv

\* A photograph in use cannot be deleted, and a stored one not be stored over.
LEMMA EvidenceStep ==
    ASSUME AInv,
           \/ \E e \in EvidenceIds, a \in Accounts : SaveEvidence(e, a)
           \/ \E e \in EvidenceIds : DeleteEvidence(e)
    PROVE  AInv'
<1>1. /\ UNCHANGED <<fundsVars, purchaseVars, incident, feeVars, settlements>>
      /\ UNCHANGED <<now, order, fee, feeHistory>>
  BY DEF SaveEvidence, DeleteEvidence, fundsVars, purchaseVars, feeVars
<1>2. evidence' \in [EvidenceIds -> Accounts \cup {"none"}]
  BY DEF AInv, AfterSalesTypeOK, SaveEvidence, DeleteEvidence
<1>3. AfterSalesTypeOK'
  BY <1>1, <1>2 DEF AInv, AfterSalesTypeOK
<1>4. EvidenceKept'
  <2> SUFFICES ASSUME NEW i \in IncidentIds, incident[i] # NoIncident
               PROVE  evidence'[incident[i].evidence] = order[incident[i].order].buyer
    BY <1>1 DEF EvidenceKept
  <2> DEFINE x == incident[i].evidence
  <2>1. /\ evidence[x] = order[incident[i].order].buyer /\ x \in EvidenceIds
        /\ order[incident[i].order].buyer \in Accounts
    <3>1. incident[i] \in Incident
      BY DEF AInv, AfterSalesTypeOK
    <3>2. incident[i].order \in OrderIds /\ x \in EvidenceIds
      BY <3>1 DEF Incident
    <3>3. order[incident[i].order] \in Order \cup {NoOrder}
          /\ order[incident[i].order].state = "COLLECTED"
      BY <3>2 DEF AInv, PInv, PurchaseTypeOK, CasesOfCollected
    <3>4. order[incident[i].order] \in Order
      BY <3>3 DEF NoOrder
    <3> QED
      BY <3>2, <3>4 DEF AInv, EvidenceKept, Order
  <2>2. evidence[x] # "none"
    BY <2>1, AfterSalesAssumption
  <2>3. ASSUME NEW e \in EvidenceIds, NEW a \in Accounts, SaveEvidence(e, a)
        PROVE  evidence'[x] = evidence[x]
    <3>1. x # e
      BY <2>2, <2>3 DEF SaveEvidence
    <3> QED
      BY <2>1, <2>3, <3>1 DEF SaveEvidence, AInv, AfterSalesTypeOK
  <2>4. ASSUME NEW e \in EvidenceIds, DeleteEvidence(e)
        PROVE  evidence'[x] = evidence[x]
    <3>1. x # e
      BY <2>4 DEF DeleteEvidence, InUse
    <3> QED
      BY <2>1, <2>4, <3>1 DEF DeleteEvidence, AInv, AfterSalesTypeOK
  <2> QED
    BY <2>1, <2>3, <2>4
<1>5. SettledClosed' /\ SettledExact' /\ FeesRecorded'
  BY <1>1 DEF AInv, SettledClosed, SettledExact, FeesRecorded, Cases, Holds, RefundOf, PenaltyOf
<1> QED
  BY <1>1, <1>3, <1>4, <1>5, CasesUntouched

\* A version of the fee is new, so no settlement cites it for another amount.
LEMMA SetFeeStep ==
    ASSUME AInv, NEW version \in FeeVersions, NEW amount \in FeeAmounts, SetFee(version, amount)
    PROVE  AInv'
<1> DEFINE new == [version |-> version, amount |-> amount]
<1>1. /\ UNCHANGED <<fundsVars, purchaseVars, incident, evidence, settlements>>
      /\ UNCHANGED <<now, order>>
      /\ fee' = new /\ feeHistory' = feeHistory \cup {new}
      /\ \A f \in feeHistory : f.version # version
  BY DEF SetFee, caseVars, fundsVars, purchaseVars
<1>2. new \in Fee /\ new.version = version
  BY DEF Fee
<1> HIDE DEF new
<1>3. AfterSalesTypeOK' /\ EvidenceKept'
  BY <1>1, <1>2 DEF AInv, AfterSalesTypeOK, EvidenceKept
<1>4. SettledClosed' /\ SettledExact'
  BY <1>1 DEF AInv, SettledClosed, SettledExact, Cases, Holds, RefundOf, PenaltyOf
<1>5. FeesRecorded'
  <2>1. fee' \in feeHistory'
    BY <1>1
  <2>2. \A f, g \in feeHistory' : f.version = g.version => f = g
    BY <1>1, <1>2 DEF AInv, FeesRecorded
  <2>3. \A s \in settlements' : [version |-> s.version, amount |-> s.fee] \in feeHistory'
    BY <1>1 DEF AInv, FeesRecorded
  <2> QED
    BY <2>1, <2>2, <2>3 DEF FeesRecorded
<1> QED
  BY <1>1, <1>3, <1>4, <1>5, CasesUntouched

LEMMA BuildSettlementsStep ==
    ASSUME AInv, BuildSettlements
    PROVE  AInv'
<1> DEFINE due == {x \in OrderIds : Settleable(x)}
<1>1. /\ UNCHANGED <<fundsVars, purchaseVars, incident, evidence, fee, feeHistory>>
      /\ UNCHANGED <<now, order>>
      /\ fee # NoFee
      /\ settlements' = settlements \cup {SettlementOf(o) : o \in due}
  BY DEF BuildSettlements, caseVars, feeVars, fundsVars, purchaseVars
<1>2. /\ incident \in CaseDocs /\ settlements \subseteq Settlement
      /\ fee \in Fee /\ fee \in feeHistory /\ now \in Nat
  BY <1>1 DEF AInv, AfterSalesTypeOK, CaseDocs, FeesRecorded, PInv, FInv, FundsTypeOK
<1>3. ASSUME NEW o \in due
      PROVE  /\ SettlementOf(o) \in Settlement
             /\ SettlementOf(o).order = o /\ SettlementOf(o).gross = order[o].total
             /\ SettlementOf(o).refund = RefundOf(o) /\ SettlementOf(o).penalty = PenaltyOf(o)
             /\ [version |-> SettlementOf(o).version, amount |-> SettlementOf(o).fee] = fee
             /\ order[o].state = "COLLECTED" /\ order[o].received + ReportWindow < now
             /\ \A i \in Cases(o) : ~Holds(i)
             /\ \A s \in settlements : s.order # o
  <2>1. /\ o \in OrderIds /\ order[o].state = "COLLECTED"
        /\ order[o].received + ReportWindow < now
        /\ \A i \in Cases(o) : ~Holds(i)
        /\ \A s \in settlements : s.order # o
    BY DEF Settleable, Settled
  <2>2. order[o] \in Order \cup {NoOrder}
    BY <2>1 DEF AInv, PInv, PurchaseTypeOK
  <2>3. order[o].total \in Nat
    BY <2>1, <2>2 DEF NoOrder, Order
  <2>4. RefundOf(o) \in Nat /\ PenaltyOf(o) \in Nat
    BY <1>2, RefundSum
  <2>5. /\ fee.amount \in Nat /\ fee.version \in FeeVersions
        /\ fee = [version |-> fee.version, amount |-> fee.amount]
    BY <1>2, AfterSalesAssumption DEF Fee
  <2>6. SettlementOf(o) \in Settlement
    BY <1>2, <2>1, <2>3, <2>4, <2>5 DEF SettlementOf, Settlement
  <2> QED
    BY <2>1, <2>5, <2>6 DEF SettlementOf
<1> HIDE DEF due
<1>4. AfterSalesTypeOK' /\ EvidenceKept'
  BY <1>1, <1>3 DEF AInv, AfterSalesTypeOK, EvidenceKept
<1>5. \A o : /\ RefundOf(o)' = RefundOf(o) /\ PenaltyOf(o)' = PenaltyOf(o)
             /\ Cases(o)' = Cases(o)
  BY <1>1 DEF RefundOf, PenaltyOf, Cases
<1>6. \A i : Holds(i)' <=> Holds(i)
  BY <1>1 DEF Holds
<1>7. SettledClosed'
  <2>1. ASSUME NEW s \in settlements'
        PROVE  /\ order[s.order].state = "COLLECTED"
               /\ order[s.order].received + ReportWindow < now
               /\ \A i \in Cases(s.order) : ~Holds(i)
    <3>1. CASE s \in settlements
      BY <3>1 DEF AInv, SettledClosed
    <3>2. CASE s \notin settlements
      <4>1. PICK o \in due : s = SettlementOf(o)
        BY <1>1, <3>2
      <4> QED
        BY <1>3, <4>1
    <3> QED
      BY <3>1, <3>2
  <2> QED
    BY <1>1, <1>5, <1>6, <2>1 DEF SettledClosed
<1>8. SettledExact'
  <2>1. ASSUME NEW s \in settlements'
        PROVE  /\ s.gross = order[s.order].total
               /\ s.refund = RefundOf(s.order) /\ s.penalty = PenaltyOf(s.order)
    <3>1. CASE s \in settlements
      BY <3>1 DEF AInv, SettledExact
    <3>2. CASE s \notin settlements
      <4>1. PICK o \in due : s = SettlementOf(o)
        BY <1>1, <3>2
      <4> QED
        BY <1>3, <4>1
    <3> QED
      BY <3>1, <3>2
  <2>2. ASSUME NEW r \in settlements', NEW s \in settlements', r.order = s.order
        PROVE  r = s
    <3>1. CASE r \in settlements /\ s \in settlements
      BY <2>2, <3>1 DEF AInv, SettledExact
    <3>2. CASE r \in settlements /\ s \notin settlements
      <4>1. PICK o \in due : s = SettlementOf(o)
        BY <1>1, <3>2
      <4> QED
        BY <1>3, <2>2, <3>2, <4>1
    <3>3. CASE r \notin settlements /\ s \in settlements
      <4>1. PICK o \in due : r = SettlementOf(o)
        BY <1>1, <3>3
      <4> QED
        BY <1>3, <2>2, <3>3, <4>1
    <3>4. CASE r \notin settlements /\ s \notin settlements
      <4>1. PICK o \in due, x \in due : r = SettlementOf(o) /\ s = SettlementOf(x)
        BY <1>1, <3>4
      <4>2. o = x
        BY <1>3, <2>2, <4>1
      <4> QED
        BY <4>1, <4>2
    <3> QED
      BY <3>1, <3>2, <3>3, <3>4
  <2> QED
    BY <1>1, <1>5, <2>1, <2>2 DEF SettledExact
<1>9. FeesRecorded'
  <2>1. ASSUME NEW s \in settlements'
        PROVE  [version |-> s.version, amount |-> s.fee] \in feeHistory
    <3>1. CASE s \in settlements
      BY <3>1 DEF AInv, FeesRecorded
    <3>2. CASE s \notin settlements
      <4>1. PICK o \in due : s = SettlementOf(o)
        BY <1>1, <3>2
      <4> QED
        BY <1>2, <1>3, <4>1
    <3> QED
      BY <3>1, <3>2
  <2> QED
    BY <1>1, <2>1 DEF AInv, FeesRecorded
<1> QED
  BY <1>1, <1>4, <1>7, <1>8, <1>9, CasesUntouched

-----------------------------------------------------------------------------
(* Reports *)

LEMMA PendingSum ==
    \A o, k : incident \in CaseDocs => Pending(o, k) = CaseSum(OpenPart(incident, o, k))
<1> SUFFICES ASSUME NEW o, NEW k, incident \in CaseDocs
             PROVE  Pending(o, k) = CaseSum(OpenPart(incident, o, k))
  OBVIOUS
<1> DEFINE open == {i \in IncidentIds : /\ incident[i].order = o /\ incident[i].item = k
                                        /\ incident[i].state = "UNDER_REVIEW"}
           units == [i \in IncidentIds |-> incident[i].quantity]
<1>1. open \in SUBSET IncidentIds
  OBVIOUS
<1>2. \A i \in IncidentIds : units[i] \in Nat
  BY CaseNumbers DEF CaseDocs
<1>3. [i \in open |-> incident[i].quantity] = [i \in open |-> units[i]]
  BY <1>1
<1>4. OpenPart(incident, o, k) = [i \in IncidentIds |-> IF i \in open THEN units[i] ELSE 0]
  BY DEF OpenPart
<1>5. Pending(o, k) = SumFunction([i \in open |-> incident[i].quantity])
  BY DEF Pending
<1> HIDE DEF open, units
<1>6. SumFunction([i \in open |-> units[i]]) = CaseSum(OpenPart(incident, o, k))
  BY <1>1, <1>2, <1>4, PartSum
<1> QED
  BY <1>3, <1>5, <1>6

\* A report adds its units to those under review of its line, and to no other sum.
LEMMA ReportIncidentStep ==
    ASSUME AInv, NEW i \in IncidentIds, NEW o \in OrderIds, NEW damaged \in BOOLEAN,
           NEW e \in EvidenceIds, NEW k \in DOMAIN order[o].items,
           NEW quantity \in 1..order[o].items[k].quantity,
           ReportIncident(i, o, k, damaged, quantity, e)
    PROVE  AInv'
<1> DEFINE new == [NoIncident EXCEPT !.state = "UNDER_REVIEW", !.order = o, !.item = k,
                                     !.damaged = damaged, !.quantity = quantity,
                                     !.evidence = e]
           t == order[o].items[k]
<1>1. /\ incident[i] = NoIncident /\ order[o].state = "COLLECTED"
      /\ now <= order[o].received + ReportWindow
      /\ quantity <= t.quantity - t.refunded - Pending(o, k)
      /\ evidence[e] = order[o].buyer
      /\ incident' = [incident EXCEPT ![i] = new]
      /\ UNCHANGED <<fundsVars, purchaseVars, evidence, feeVars, settlements>>
      /\ UNCHANGED <<now, balance, order, evidence, fee, feeHistory, settlements>>
  BY DEF ReportIncident, fundsVars, purchaseVars, feeVars
<1>2. incident \in CaseDocs
  BY DEF AInv, AfterSalesTypeOK, CaseDocs
<1>3. /\ order[o] \in Order /\ k \in Nat \ {0} /\ t.refunded \in Nat /\ t.quantity \in Nat
      /\ quantity \in Nat \ {0}
  <2>1. order[o] \in Order /\ k \in Nat \ {0} /\ t.refunded \in Nat /\ t.quantity \in Nat
    BY LineNumbers DEF AInv
  <2> QED
    BY <2>1
<1>4. /\ new \in Incident /\ new.state = "UNDER_REVIEW" /\ new.order = o /\ new.item = k
      /\ new.quantity = quantity /\ new.refund = 0 /\ new.evidence = e
      /\ ~new.penalty /\ new # NoIncident
  <2> DEFINE Any == [state : {"NONE", "UNDER_REVIEW"}, order : OrderIds \cup {"none"}, item : Nat,
                     damaged : BOOLEAN, quantity : Nat, evidence : EvidenceIds \cup {"none"},
                     due : Nat \cup {Never}, contacted : BOOLEAN, visited : Nat \cup {Never},
                     collected : Nat \cup {Never}, penalty : BOOLEAN, refund : Nat]
  <2>1. NoIncident \in Any
    BY DEF NoIncident
  <2>2. NoIncident.due = Never /\ NoIncident.refund = 0 /\ ~NoIncident.penalty
        /\ NoIncident.state = "NONE"
    BY DEF NoIncident
  <2>3. /\ new \in Any /\ new.state = "UNDER_REVIEW" /\ new.order = o /\ new.item = k
        /\ new.quantity = quantity /\ new.refund = NoIncident.refund /\ new.evidence = e
        /\ new.penalty = NoIncident.penalty
    BY <1>3, <2>1
  <2> HIDE DEF new
  <2>4. new \in Incident
    BY <1>3, <2>3 DEF Incident
  <2> QED
    BY <2>2, <2>3, <2>4
<1> HIDE DEF new
<1>5. /\ incident' \in CaseDocs /\ incident'[i] = new
      /\ \A x \in IncidentIds : x # i => incident'[x] = incident[x]
  BY <1>1, <1>2, <1>4 DEF CaseDocs
<1>6. /\ incident[i].state = "NONE" /\ incident[i].item = 0 /\ incident[i].quantity = 0
      /\ incident[i].refund = 0
  BY <1>1 DEF NoIncident
<1>7. PInv'
  <2>1. PInv /\ UNCHANGED <<fundsVars, purchaseVars>>
    BY <1>1 DEF AInv
  <2> QED
    BY <2>1, MoneyStays
<1>8. AfterSalesTypeOK'
  BY <1>1, <1>5 DEF AInv, AfterSalesTypeOK, CaseDocs
<1>9. CasesOfCollected' /\ UndecidedUnpaid' /\ EvidenceKept'
  BY <1>1, <1>4, <1>5 DEF AInv, CasesOfCollected, UndecidedUnpaid, EvidenceKept
<1>10. CasesCoverItems'
  <2> SUFFICES ASSUME NEW x \in OrderIds, NEW l \in DOMAIN order[x].items
               PROVE  Covered(order[x].items[l], incident', x, l)
    BY <1>1, <1>5, CoveredEachNext
  <2>1. Covered(order[x].items[l], incident, x, l)
    BY <1>2, CoveredEach DEF AInv
  <2>2. l # 0
    BY LineNumbers DEF AInv
  <2>3. CaseSum(UnitsPart(incident', x, l)) = CaseSum(UnitsPart(incident, x, l))
    <3>1. \A y \in IncidentIds : UnitsPart(incident', x, l)[y] = UnitsPart(incident, x, l)[y]
      BY <1>4, <1>5, <1>6, <2>2 DEF UnitsPart, Granted
    <3> QED
      BY <1>2, <3>1, PartNumbers, CaseSumSame
  <2>4. CaseSum(PaidPart(incident', x, l)) = CaseSum(PaidPart(incident, x, l))
    <3>1. \A y \in IncidentIds : PaidPart(incident', x, l)[y] = PaidPart(incident, x, l)[y]
      BY <1>4, <1>5, <1>6, <2>2 DEF PaidPart, Granted
    <3> QED
      BY <1>2, <3>1, PartNumbers, CaseSumSame
  <2>5. CASE x = o /\ l = k
    <3>1. CaseSum(OpenPart(incident', o, k))
            = CaseSum(OpenPart(incident, o, k))
                + (OpenPart(incident', o, k)[i] - OpenPart(incident, o, k)[i])
      <4>1. \A y \in IncidentIds : y # i =>
               OpenPart(incident', o, k)[y] = OpenPart(incident, o, k)[y]
        BY <1>5 DEF OpenPart
      <4> QED
        BY <1>2, <1>5, <4>1, PartNumbers, CaseSumChange
    <3>2. OpenPart(incident', o, k)[i] = quantity /\ OpenPart(incident, o, k)[i] = 0
      BY <1>4, <1>5, <1>6 DEF OpenPart
    <3>3. Pending(o, k) = CaseSum(OpenPart(incident, o, k))
          /\ CaseSum(OpenPart(incident, o, k)) \in Nat
      BY <1>2, PendingSum, PartNumbers, CaseSumNat
    <3>4. t.refunded + CaseSum(OpenPart(incident', o, k)) <= t.quantity
      BY <1>1, <1>3, <3>1, <3>2, <3>3
    <3> QED
      BY <2>1, <2>3, <2>4, <2>5, <3>4 DEF Covered
  <2>6. CASE ~(x = o /\ l = k)
    <3>1. \A y \in IncidentIds : OpenPart(incident', x, l)[y] = OpenPart(incident, x, l)[y]
      BY <1>4, <1>5, <1>6, <2>6 DEF OpenPart
    <3>2. CaseSum(OpenPart(incident', x, l)) = CaseSum(OpenPart(incident, x, l))
      BY <1>2, <3>1, PartNumbers, CaseSumSame
    <3> QED
      BY <2>1, <2>3, <2>4, <3>2 DEF Covered
  <2> QED
    BY <2>5, <2>6
<1>11. ASSUME NEW x PROVE RefundOf(x)' = RefundOf(x) /\ PenaltyOf(x)' = PenaltyOf(x)
  <2>1. \A y \in IncidentIds : /\ RefundPart(incident', x)[y] = RefundPart(incident, x)[y]
                               /\ PenaltyPart(incident', x)[y] = PenaltyPart(incident, x)[y]
    BY <1>4, <1>5, <1>6 DEF RefundPart, PenaltyPart
  <2>2. CaseSum(RefundPart(incident', x)) = CaseSum(RefundPart(incident, x))
    BY <1>2, <2>1, PartNumbers, CaseSumSame
  <2>3. CaseSum(PenaltyPart(incident', x)) = CaseSum(PenaltyPart(incident, x))
    BY <1>2, <2>1, PartNumbers, CaseSumSame
  <2> QED
    BY <1>2, <1>5, <2>2, <2>3, RefundSum
<1>12. RefundsCounted'
  BY <1>1, <1>11 DEF AInv, RefundsCounted
<1>13. \A s \in settlements : s.order # o
  <2>1. order[o].received + ReportWindow \in Int /\ now \in Int
    BY <1>3, AfterSalesAssumption DEF Order, AInv, PInv, FInv, FundsTypeOK
  <2> QED
    BY <1>1, <2>1 DEF AInv, SettledClosed
<1>14. SettledExact'
  BY <1>1, <1>11 DEF AInv, SettledExact
<1>15. SettledClosed'
  <2> SUFFICES ASSUME NEW s \in settlements, NEW x \in IncidentIds, incident'[x].order = s.order
               PROVE  ~HoldsBack(incident'[x])
    BY <1>1 DEF AInv, SettledClosed, Cases, Holds, HoldsBack
  <2>1. x # i
    BY <1>4, <1>5, <1>13
  <2>2. Settled(incident[x].order)
    BY <1>5, <2>1 DEF Settled
  <2> QED
    BY <1>5, <2>1, <2>2, SettledHolds
<1>16. FeesRecorded' /\ PenaltyDeserved' /\ ReturnsCharged'
  <2>1. FeesRecorded'
    BY <1>1 DEF AInv, FeesRecorded
  <2>2. PenaltyDeserved' /\ ReturnsCharged'
    BY <1>1, <1>4, <1>5 DEF AInv, PenaltyDeserved, ReturnsCharged
  <2> QED
    BY <2>1, <2>2
<1> QED
  BY <1>7, <1>8, <1>9, <1>10, <1>12, <1>14, <1>15, <1>16 DEF AInv

-----------------------------------------------------------------------------
(* Approved refunds *)

\* A purchase without credit has no line that credit paid for.
LEMMA NoCreditNoShare ==
    ASSUME NEW d \in Order, Funded(d), d.credit = 0, NEW k \in DOMAIN d.items, NEW q \in Nat
    PROVE  CreditShare(d.items[k], q) = 0
<1> DEFINE part == [i \in DOMAIN d.items |-> d.items[i].credit]
<1>1. d.items \in Seq(OrderItem)
  BY DEF Order
<1>2. \A i \in DOMAIN d.items : d.items[i] \in OrderItem /\ part[i] \in Nat
  <2> TAKE i \in DOMAIN d.items
  <2>1. d.items[i] \in OrderItem
    BY <1>1
  <2> QED
    BY <2>1 DEF OrderItem
<1>3. SumFunctionOnSet(part, DOMAIN d.items) = 0
  BY SumOfFunction DEF Funded
<1>4. IsFiniteSet(DOMAIN d.items)
  BY <1>1, ItemsFinite
<1>5. part[k] \in Nat /\ part[k] <= 0
  <2> HIDE DEF part
  <2>1. \A i \in DOMAIN d.items : part[i] <= SumFunctionOnSet(part, DOMAIN d.items)
    BY <1>2, <1>4, SumNat
  <2>2. part[k] <= SumFunctionOnSet(part, DOMAIN d.items)
    BY <2>1
  <2> QED
    BY <1>2, <1>3, <2>2
<1>6. d.items[k].credit = 0
  BY <1>5
<1>7. PICK n \in Nat \ {0}, r \in Nat : n = d.items[k].quantity /\ r = d.items[k].refunded
  BY <1>2 DEF OrderItem
<1>8. \A x \in Nat : 0 * x = 0 /\ 0 \div n = 0
  BY <1>7
<1> QED
  BY <1>6, <1>7, <1>8 DEF CreditShare

\* The money of an approved refund: what the order, the wallet and the grant become.
RefundPaid(i, o, k, q) ==
    /\ incident[i] \in Incident /\ incident[i].state = "UNDER_REVIEW"
    /\ o \in OrderIds /\ order[o] \in Order /\ order[o].state = "COLLECTED"
    /\ k \in DOMAIN order[o].items
    /\ order[o].items[k].price * q \in Nat
    /\ \E e \in Order :
          /\ order' = [order EXCEPT ![o] = e]
          /\ e.state = "COLLECTED" /\ e.buyer = order[o].buyer
          /\ e.received = order[o].received /\ e.total = order[o].total
          /\ e.items = [order[o].items EXCEPT ![k].refunded = @ + q]
    /\ balance'[OrderCash(o)] + balance'[OrderCredit(o)]
         = balance[OrderCash(o)] + balance[OrderCredit(o)] - order[o].items[k].price * q
    /\ \A x \in OrderIds : x # o => /\ balance'[OrderCash(x)] = balance[OrderCash(x)]
                                    /\ balance'[OrderCredit(x)] = balance[OrderCredit(x)]
    /\ PInv'

LEMMA ApproveMoney ==
    ASSUME AInv, NEW i \in IncidentIds, Approve(i),
           NEW o, o = incident[i].order, NEW k, k = incident[i].item,
           NEW q, q = incident[i].quantity
    PROVE  RefundPaid(i, o, k, q)
<1> DEFINE d == order[o]
           t == d.items[k]
           amount == t.price * q
           share == CreditShare(t, q)
           items == [d.items EXCEPT ![k].refunded = @ + q]
           refund == IF \A j \in DOMAIN items : items[j].refunded = items[j].quantity
                       THEN "REFUNDED" ELSE "PARTIAL"
           e == [d EXCEPT !.items = items, !.refund = refund]
<1>1. /\ incident[i] \in Incident /\ incident[i].state = "UNDER_REVIEW"
      /\ o \in OrderIds /\ q \in Nat
  <2>1. incident[i] \in Incident /\ incident[i].state = "UNDER_REVIEW"
    BY IsCase DEF Approve
  <2> QED
    BY <2>1 DEF Incident
<1>2. /\ d.state = "COLLECTED" /\ k \in DOMAIN d.items /\ PInv
  BY <1>1 DEF AInv, CasesOfCollected, NoIncident
<1>3. d \in Order /\ t \in OrderItem /\ t.price \in Nat
  <2>1. d \in Order /\ t \in OrderItem
    BY <1>1, <1>2, LineNumbers
  <2> QED
    BY <2>1 DEF OrderItem
<1>4. /\ q <= t.quantity - t.refunded
      /\ Refund(o, amount - share, share)
      /\ order' = [order EXCEPT ![o].items = items, ![o].refund = refund]
      /\ UNCHANGED <<now, program, link, members, withdrawal, marketVars, address, offer,
                     cart, quote>>
  BY DEF Approve
<1>5. Funded(d) /\ Backed(d) /\ Held(d, balance[OrderCash(o)], balance[OrderCredit(o)])
  BY <1>1, <1>2, FundedEach, HeldEach DEF PInv, OrdersBacked
<1>6. refund \in {"NONE", "PARTIAL", "REFUNDED"}
  OBVIOUS
<1>7. order' = [order EXCEPT ![o] = e]
  BY <1>1, <1>2, <1>4 DEF PInv, PurchaseTypeOK
<1> HIDE DEF refund
<1>8. /\ e.state = d.state /\ e.buyer = d.buyer /\ e.received = d.received
      /\ e.total = d.total /\ e.items = items /\ e.credit = d.credit /\ e.grant = d.grant
  BY <1>3 DEF Order
<1>9. amount \in Nat /\ amount - share \in Nat /\ share \in Nat
  <2>1. amount \in Nat
    BY <1>1, <1>3
  <2>2. amount - share \in 0..MaxRial /\ share \in 0..MaxRial
    BY <1>4 DEF Refund
  <2> HIDE DEF amount, share
  <2> QED
    BY <2>1, <2>2, FundsAssumption
<1>10. d.grant = NoGrantId => share = 0
  BY <1>1, <1>2, <1>3, <1>5, NoCreditNoShare DEF Backed
<1>11. /\ Moves(o, d.buyer, d.grant, -(amount - share), -share)
       /\ FInv' /\ GrantsCovered'
  <2> HIDE DEF amount, share
  <2> QED
    BY <1>1, <1>2, <1>3, <1>4, <1>9, <1>10, RefundMoves
<1>12. /\ e \in Order /\ Funded(e)
       /\ Held(e, balance[OrderCash(o)] + (-(amount - share)),
                  balance[OrderCredit(o)] + (-share))
  <2>1. e = [d EXCEPT !.items = [d.items EXCEPT ![k].refunded = @ + q], !.refund = refund]
    OBVIOUS
  <2>2. /\ d \in Order /\ Funded(d) /\ d.state = "COLLECTED" /\ k \in DOMAIN d.items
        /\ q \in Nat /\ q <= d.items[k].quantity - d.items[k].refunded
        /\ Held(d, balance[OrderCash(o)], balance[OrderCredit(o)])
    BY <1>1, <1>2, <1>3, <1>4, <1>5
  <2> DEFINE cash == balance[OrderCash(o)]
             credit == balance[OrderCredit(o)]
  <2> HIDE DEF d, e, t, amount, share, items, cash, credit
  <2>4. Held(d, cash, credit)
    BY <2>2 DEF cash, credit
  <2>5. LineRefunded(d, e, cash, credit, k, q)
    BY <1>6, <2>1, <2>2, <2>4, MoreRefunded
  <2>3. /\ e \in Order /\ Funded(e)
        /\ Held(e, balance[OrderCash(o)]
                     + (-(d.items[k].price * q - CreditShare(d.items[k], q))),
                   balance[OrderCredit(o)] + (-CreditShare(d.items[k], q)))
    BY <2>5 DEF LineRefunded, cash, credit
  <2> QED
    BY <2>3 DEF t, amount, share
<1> HIDE DEF e
<1>13. /\ order' \in [OrderIds -> Order \cup {NoOrder}]
       /\ OrdersFunded' /\ OrderMoney' /\ CreditConserved'
  <2>1. -(amount - share) \in Int /\ -share \in Int
    <3> HIDE DEF amount, share
    <3> QED
      BY <1>9
  <2> HIDE DEF amount, share
  <2>2. d.grant = order[o].grant
    OBVIOUS
  <2> QED
    BY <1>1, <1>2, <1>7, <1>8, <1>11, <1>12, <2>1, <2>2, OrderReplaced
<1>14. /\ order'[o] = e /\ \A x \in OrderIds : x # o => order'[x] = order[x]
  BY <1>1, <1>2, <1>7 DEF PInv, PurchaseTypeOK
<1>15. OrdersBacked'
  <2>1. Backed(e)
    BY <1>2, <1>5, <1>8 DEF Backed
  <2>2. \A x \in OrderIds : Backed(order'[x])
    BY <1>2, <1>14, <2>1 DEF PInv, OrdersBacked
  <2>3. ASSUME NEW j \in DOMAIN e.items
        PROVE  j \in DOMAIN d.items /\ e.items[j].offer = d.items[j].offer
    <3>1. d.items \in Seq(OrderItem)
      BY <1>3 DEF Order
    <3>2. j \in DOMAIN d.items
      BY <1>8, <2>3
    <3>3. d.items[j] \in OrderItem
      BY <3>1, <3>2
    <3>4. [d.items[k] EXCEPT !.refunded = @ + q].offer = d.items[k].offer
      <4>1. d.items[k] \in OrderItem
        BY <1>3
      <4> QED
        BY <4>1 DEF OrderItem
    <3>5. e.items[j] = IF j = k THEN [d.items[k] EXCEPT !.refunded = @ + q] ELSE d.items[j]
      BY <1>2, <1>8, <3>1, <3>2
    <3> QED
      BY <3>2, <3>4, <3>5
  <2>4. OffersKept'
    <3>1. ASSUME NEW x \in OrderIds, NEW j \in DOMAIN order'[x].items
          PROVE  offer[order'[x].items[j].offer] # NoOffer
      <4>1. CASE x = o
        BY <1>1, <1>2, <1>14, <2>3, <3>1, <4>1 DEF PInv, OrdersBacked, OffersKept
      <4>2. CASE x # o
        BY <1>2, <1>14, <3>1, <4>2 DEF PInv, OrdersBacked, OffersKept
      <4> QED
        BY <4>1, <4>2
    <3> QED
      BY <1>4, <3>1 DEF OffersKept
  <2> QED
    BY <2>2, <2>4 DEF OrdersBacked
<1>16. PInv'
  <2>1. PurchaseTypeOK' /\ CartsOnce' /\ QuotesWhole'
    BY <1>2, <1>4, <1>13 DEF PInv, PurchaseTypeOK, CartsOnce, QuotesWhole, marketVars
  <2> QED
    BY <1>11, <1>13, <1>15, <2>1 DEF PInv
<1>17. /\ balance'[OrderCash(o)] + balance'[OrderCredit(o)]
            = balance[OrderCash(o)] + balance[OrderCredit(o)] - amount
       /\ \A x \in OrderIds : x # o => /\ balance'[OrderCash(x)] = balance[OrderCash(x)]
                                       /\ balance'[OrderCredit(x)] = balance[OrderCredit(x)]
  <2>1. /\ balance'[OrderCash(o)] = balance[OrderCash(o)] + (-(amount - share))
        /\ balance'[OrderCredit(o)] = balance[OrderCredit(o)] + (-share)
    BY <1>1, <1>11 DEF Moves
  <2>2. \A x \in OrderIds : x # o => /\ balance'[OrderCash(x)] = balance[OrderCash(x)]
                                     /\ balance'[OrderCredit(x)] = balance[OrderCredit(x)]
    BY <1>11 DEF Moves
  <2>3. balance[OrderCash(o)] \in Int /\ balance[OrderCredit(o)] \in Int
    BY <1>1, <1>2, OrderAccount DEF PInv, FInv, FundsTypeOK
  <2> HIDE DEF amount, share
  <2> QED
    BY <1>9, <2>1, <2>2, <2>3
<1>18. \E x \in Order :
          /\ order' = [order EXCEPT ![o] = x]
          /\ x.state = "COLLECTED" /\ x.buyer = order[o].buyer
          /\ x.received = order[o].received /\ x.total = order[o].total
          /\ x.items = [order[o].items EXCEPT ![k].refunded = @ + q]
  BY <1>2, <1>7, <1>8, <1>12
<1> QED
  BY <1>1, <1>2, <1>3, <1>9, <1>16, <1>17, <1>18 DEF RefundPaid

\* An approved refund moves what the case asked for from the order to its buyer, and
\* counts it once: on the line, in the case and in the money that is left.
LEMMA ApproveStep ==
    ASSUME AInv, NEW i \in IncidentIds, Approve(i)
    PROVE  AInv'
<1>1. PICK o, k, q : o = incident[i].order /\ k = incident[i].item /\ q = incident[i].quantity
  OBVIOUS
<1> DEFINE c == incident[i]
           amount == order[o].items[k].price * q
           state == IF c.damaged THEN "AWAITING_RETURN" ELSE "RESOLVED"
           due == IF c.damaged THEN now + ReturnWindow ELSE Never
           n == [c EXCEPT !.state = state, !.due = due, !.refund = amount]
<1>2. RefundPaid(i, o, k, q)
  BY <1>1, ApproveMoney
<1>3. /\ c \in Incident /\ c.state = "UNDER_REVIEW" /\ c.refund = 0 /\ c # NoIncident
      /\ o \in OrderIds /\ order[o] \in Order /\ order[o].state = "COLLECTED"
      /\ k \in DOMAIN order[o].items /\ amount \in Nat /\ q \in Nat /\ now \in Nat
  <2>1. /\ c \in Incident /\ c.state = "UNDER_REVIEW"
        /\ o \in OrderIds /\ order[o] \in Order /\ order[o].state = "COLLECTED"
        /\ k \in DOMAIN order[o].items /\ amount \in Nat
    BY <1>2 DEF RefundPaid
  <2>2. q \in Nat /\ c # NoIncident
    BY <1>1, <2>1 DEF Incident, NoIncident
  <2>3. c.refund = 0 /\ now \in Nat
    BY <2>1 DEF AInv, UndecidedUnpaid, PInv, FInv, FundsTypeOK
  <2> QED
    BY <2>1, <2>2, <2>3
<1>4. PICK e \in Order :
         /\ order' = [order EXCEPT ![o] = e]
         /\ e.state = "COLLECTED" /\ e.buyer = order[o].buyer
         /\ e.received = order[o].received /\ e.total = order[o].total
         /\ e.items = [order[o].items EXCEPT ![k].refunded = @ + q]
  BY <1>2 DEF RefundPaid
<1>5. /\ balance'[OrderCash(o)] + balance'[OrderCredit(o)]
           = balance[OrderCash(o)] + balance[OrderCredit(o)] - amount
      /\ \A x \in OrderIds : x # o => /\ balance'[OrderCash(x)] = balance[OrderCash(x)]
                                      /\ balance'[OrderCredit(x)] = balance[OrderCredit(x)]
      /\ PInv'
  BY <1>2 DEF RefundPaid
<1>6. /\ incident \in CaseDocs /\ order \in [OrderIds -> Order \cup {NoOrder}]
      /\ UNCHANGED <<now, evidence, fee, feeHistory, settlements>>
  BY DEF AInv, AfterSalesTypeOK, CaseDocs, PInv, PurchaseTypeOK, Approve, feeVars
<1>7. incident' = [incident EXCEPT ![i] = n]
  BY <1>1, <1>6 DEF Approve, CaseDocs
<1>8. /\ state \in {"AWAITING_RETURN", "RESOLVED"} /\ due \in Nat \cup {Never}
  BY <1>3, AfterSalesAssumption
<1> HIDE DEF state, due, amount
<1>9. /\ n \in Incident /\ n.state = state /\ n.order = o /\ n.item = k /\ n.quantity = q
      /\ n.refund = amount /\ n.evidence = c.evidence /\ n.penalty = c.penalty /\ n # NoIncident
      /\ Granted(n) /\ n.state # "UNDER_REVIEW" /\ n.state # "COLLECTED"
  <2>1. /\ n \in Incident /\ n.state = state /\ n.order = o /\ n.item = k /\ n.quantity = q
        /\ n.refund = amount /\ n.evidence = c.evidence /\ n.penalty = c.penalty
    BY <1>1, <1>3, <1>8 DEF Incident
  <2> HIDE DEF n
  <2> QED
    BY <1>8, <2>1 DEF Granted, NoIncident
<1> HIDE DEF n
<1>10. /\ incident' \in CaseDocs /\ incident'[i] = n
       /\ \A x \in IncidentIds : x # i => incident'[x] = incident[x]
  BY <1>6, <1>7, <1>9 DEF CaseDocs
<1>11. /\ order'[o] = e /\ \A x \in OrderIds : x # o => order'[x] = order[x]
  BY <1>3, <1>4, <1>6
<1>12. \A x \in OrderIds : /\ order'[x].state = order[x].state /\ order'[x].total = order[x].total
                           /\ order'[x].buyer = order[x].buyer
                           /\ DOMAIN order'[x].items = DOMAIN order[x].items
                           /\ order[x].state = "COLLECTED" =>
                                 order'[x].received = order[x].received
  BY <1>3, <1>4, <1>11
<1>13. /\ ~c.penalty /\ ~n.penalty
  BY <1>3, <1>9 DEF AInv, PenaltyDeserved
<1>14. AfterSalesTypeOK'
  BY <1>6, <1>10 DEF AInv, AfterSalesTypeOK, CaseDocs
<1>15. CasesOfCollected' /\ UndecidedUnpaid' /\ EvidenceKept'
  <2>1. ASSUME NEW x \in IncidentIds, incident'[x] # NoIncident
        PROVE  /\ incident[x] # NoIncident /\ incident'[x].order = incident[x].order
               /\ incident'[x].item = incident[x].item
               /\ incident'[x].evidence = incident[x].evidence
               /\ incident[x].order \in OrderIds
    <3>1. incident[x] # NoIncident
      BY <1>3, <1>10, <2>1
    <3>2. incident[x] \in Incident
      BY <1>6, <3>1 DEF CaseDocs
    <3> QED
      BY <1>1, <1>9, <1>10, <3>1, <3>2 DEF Incident
  <2>2. CasesOfCollected'
    BY <1>12, <2>1 DEF AInv, CasesOfCollected
  <2>3. UndecidedUnpaid'
    BY <1>9, <1>10 DEF AInv, UndecidedUnpaid
  <2>4. EvidenceKept'
    BY <1>6, <1>12, <2>1 DEF AInv, EvidenceKept
  <2> QED
    BY <2>2, <2>3, <2>4
<1>16. CasesCoverItems'
  <2> SUFFICES ASSUME NEW x \in OrderIds, NEW l \in DOMAIN order'[x].items
               PROVE  Covered(order'[x].items[l], incident', x, l)
    BY <1>10, CoveredEachNext
  <2>1. l \in DOMAIN order[x].items
    BY <1>12
  <2>2. Covered(order[x].items[l], incident, x, l)
    BY <1>6, <2>1, CoveredEach DEF AInv
  <2>3. CASE x = o /\ l = k
    <3>1. PICK p \in Nat, r \in Nat, u \in Nat :
             /\ p = order[o].items[k].price /\ r = order[o].items[k].refunded
             /\ u = order[o].items[k].quantity
      <4>1. order[o].items[k] \in OrderItem
        BY <1>3, LineNumbers DEF AInv
      <4> QED
        BY <4>1 DEF OrderItem
    <3>2. /\ order'[o].items[k].price = p /\ order'[o].items[k].quantity = u
          /\ order'[o].items[k].refunded = r + q
      <4>1. order[o].items[k] \in OrderItem
        BY <1>3, LineNumbers DEF AInv
      <4>2. order'[o].items[k] = [order[o].items[k] EXCEPT !.refunded = @ + q]
        BY <1>3, <1>4, <1>11
      <4> QED
        BY <3>1, <4>1, <4>2 DEF OrderItem
    <3>3. PICK a \in Nat, b \in Nat, m \in Nat :
             /\ a = CaseSum(OpenPart(incident, o, k)) /\ b = CaseSum(UnitsPart(incident, o, k))
             /\ m = CaseSum(PaidPart(incident, o, k))
      BY <1>6, PartNumbers, CaseSumNat
    <3>4. CaseSum(OpenPart(incident', o, k)) = a - q
      <4>1. OpenPart(incident', o, k)[i] = 0 /\ OpenPart(incident, o, k)[i] = q
        BY <1>1, <1>3, <1>9, <1>10 DEF OpenPart
      <4>2. \A y \in IncidentIds : y # i =>
               OpenPart(incident', o, k)[y] = OpenPart(incident, o, k)[y]
        BY <1>10 DEF OpenPart
      <4>3. CaseSum(OpenPart(incident', o, k))
              = CaseSum(OpenPart(incident, o, k))
                  + (OpenPart(incident', o, k)[i] - OpenPart(incident, o, k)[i])
        BY <1>6, <1>10, <4>2, PartNumbers, CaseSumChange
      <4> QED
        BY <1>3, <3>3, <4>1, <4>3
    <3>5. CaseSum(UnitsPart(incident', o, k)) = b + q
      <4>1. UnitsPart(incident', o, k)[i] = q /\ UnitsPart(incident, o, k)[i] = 0
        BY <1>1, <1>3, <1>9, <1>10 DEF UnitsPart, Granted
      <4>2. \A y \in IncidentIds : y # i =>
               UnitsPart(incident', o, k)[y] = UnitsPart(incident, o, k)[y]
        BY <1>10 DEF UnitsPart
      <4>3. CaseSum(UnitsPart(incident', o, k))
              = CaseSum(UnitsPart(incident, o, k))
                  + (UnitsPart(incident', o, k)[i] - UnitsPart(incident, o, k)[i])
        BY <1>6, <1>10, <4>2, PartNumbers, CaseSumChange
      <4> QED
        BY <1>3, <3>3, <4>1, <4>3
    <3>6. CaseSum(PaidPart(incident', o, k)) = m + amount
      <4>1. PaidPart(incident', o, k)[i] = amount /\ PaidPart(incident, o, k)[i] = 0
        BY <1>1, <1>3, <1>9, <1>10 DEF PaidPart, Granted
      <4>2. \A y \in IncidentIds : y # i =>
               PaidPart(incident', o, k)[y] = PaidPart(incident, o, k)[y]
        BY <1>10 DEF PaidPart
      <4>3. CaseSum(PaidPart(incident', o, k))
              = CaseSum(PaidPart(incident, o, k))
                  + (PaidPart(incident', o, k)[i] - PaidPart(incident, o, k)[i])
        BY <1>6, <1>10, <4>2, PartNumbers, CaseSumChange
      <4> QED
        BY <1>3, <3>3, <4>1, <4>3
    <3>7. r + a <= u /\ r = b /\ p * r = m
      BY <2>2, <2>3, <3>1, <3>3 DEF Covered
    <3>8. p * (r + q) = m + amount
      <4>1. amount = p * q
        BY <3>1 DEF amount
      <4>2. p * (r + q) = p * r + p * q
        BY <1>3
      <4> QED
        BY <3>7, <4>1, <4>2
    <3>9. (r + q) + (a - q) <= u /\ r + q = b + q
      BY <1>3, <3>7
    <3> QED
      BY <2>3, <3>2, <3>4, <3>5, <3>6, <3>8, <3>9 DEF Covered
  <2>4. CASE ~(x = o /\ l = k)
    <3>1. order'[x].items[l] = order[x].items[l]
      <4>1. CASE x # o
        BY <1>11, <4>1
      <4>2. CASE x = o
        <5>1. l # k
          BY <2>4, <4>2
        <5> QED
          BY <1>4, <1>11, <2>1, <4>2, <5>1
      <4> QED
        BY <4>1, <4>2
    <3>2. \A y \in IncidentIds :
             /\ OpenPart(incident', x, l)[y] = OpenPart(incident, x, l)[y]
             /\ UnitsPart(incident', x, l)[y] = UnitsPart(incident, x, l)[y]
             /\ PaidPart(incident', x, l)[y] = PaidPart(incident, x, l)[y]
      BY <1>1, <1>9, <1>10, <2>4 DEF OpenPart, UnitsPart, PaidPart
    <3>3. CaseSum(OpenPart(incident', x, l)) = CaseSum(OpenPart(incident, x, l))
      BY <1>6, <3>2, PartNumbers, CaseSumSame
    <3>4. CaseSum(UnitsPart(incident', x, l)) = CaseSum(UnitsPart(incident, x, l))
      BY <1>6, <3>2, PartNumbers, CaseSumSame
    <3>5. CaseSum(PaidPart(incident', x, l)) = CaseSum(PaidPart(incident, x, l))
      BY <1>6, <3>2, PartNumbers, CaseSumSame
    <3> QED
      BY <2>2, <3>1, <3>3, <3>4, <3>5 DEF Covered
  <2> QED
    BY <2>3, <2>4
<1>17. /\ RefundOf(o)' = RefundOf(o) + amount
       /\ \A x \in OrderIds : x # o => RefundOf(x)' = RefundOf(x) /\ PenaltyOf(x)' = PenaltyOf(x)
  <2>1. CaseSum(RefundPart(incident', o))
          = CaseSum(RefundPart(incident, o))
              + (RefundPart(incident', o)[i] - RefundPart(incident, o)[i])
    <3>1. \A y \in IncidentIds : y # i => RefundPart(incident', o)[y] = RefundPart(incident, o)[y]
      BY <1>10 DEF RefundPart
    <3> QED
      BY <1>6, <1>10, <3>1, PartNumbers, CaseSumChange
  <2>2. RefundPart(incident', o)[i] = amount /\ RefundPart(incident, o)[i] = 0
    BY <1>1, <1>3, <1>9, <1>10 DEF RefundPart
  <2>3. RefundOf(o)' = RefundOf(o) + amount
    <3>1. /\ RefundOf(o)' = CaseSum(RefundPart(incident', o))
          /\ RefundOf(o) = CaseSum(RefundPart(incident, o)) /\ RefundOf(o) \in Nat
      BY <1>6, <1>10, RefundSum
    <3> QED
      BY <1>3, <2>1, <2>2, <3>1
  <2>4. ASSUME NEW x \in OrderIds, x # o
        PROVE  RefundOf(x)' = RefundOf(x) /\ PenaltyOf(x)' = PenaltyOf(x)
    <3>1. \A y \in IncidentIds : /\ RefundPart(incident', x)[y] = RefundPart(incident, x)[y]
                                 /\ PenaltyPart(incident', x)[y] = PenaltyPart(incident, x)[y]
      BY <1>1, <1>9, <1>10, <2>4 DEF RefundPart, PenaltyPart
    <3>2. CaseSum(RefundPart(incident', x)) = CaseSum(RefundPart(incident, x))
      BY <1>6, <3>1, PartNumbers, CaseSumSame
    <3>3. CaseSum(PenaltyPart(incident', x)) = CaseSum(PenaltyPart(incident, x))
      BY <1>6, <3>1, PartNumbers, CaseSumSame
    <3> QED
      BY <1>6, <1>10, <3>2, <3>3, RefundSum
  <2> QED
    BY <2>3, <2>4
<1>18. RefundsCounted'
  <2> SUFFICES ASSUME NEW x \in OrderIds, order'[x].state = "COLLECTED"
               PROVE  balance'[OrderCash(x)] + balance'[OrderCredit(x)] + RefundOf(x)'
                        = order'[x].total
    BY DEF RefundsCounted
  <2>1. balance[OrderCash(x)] + balance[OrderCredit(x)] + RefundOf(x) = order[x].total
    BY <1>12 DEF AInv, RefundsCounted
  <2>2. CASE x # o
    BY <1>5, <1>12, <1>17, <2>1, <2>2
  <2>3. CASE x = o
    <3>1. PICK a \in Int, b \in Int, r \in Nat :
             a = balance[OrderCash(o)] /\ b = balance[OrderCredit(o)] /\ r = RefundOf(o)
      <4>1. balance[OrderCash(o)] \in Int /\ balance[OrderCredit(o)] \in Int
        BY <1>3, OrderAccount DEF AInv, PInv, FInv, FundsTypeOK
      <4>2. RefundOf(o) \in Nat
        BY <1>6, RefundSum
      <4> QED
        BY <4>1, <4>2
    <3>2. balance'[OrderCash(o)] + balance'[OrderCredit(o)] = a + b - amount
      BY <1>5, <3>1
    <3>3. RefundOf(o)' = r + amount /\ a + b + r = order'[o].total
      BY <1>12, <1>17, <2>1, <2>3, <3>1
    <3>4. (a + b - amount) + (r + amount) = a + b + r
      BY <1>3, <3>1
    <3> QED
      BY <2>3, <3>2, <3>3, <3>4
  <2> QED
    BY <2>2, <2>3
<1>19. \A s \in settlements : s.order # o /\ s.order \in OrderIds
  <2>1. ~Settled(o)
    BY <1>1, <1>3, SettledHolds DEF HoldsBack
  <2> QED
    BY <2>1 DEF Settled, AInv, AfterSalesTypeOK, Settlement
<1>20. SettledExact'
  BY <1>6, <1>12, <1>17, <1>19 DEF AInv, SettledExact
<1>21. SettledClosed'
  <2> SUFFICES ASSUME NEW s \in settlements, NEW x \in IncidentIds, incident'[x].order = s.order
               PROVE  ~HoldsBack(incident'[x])
    BY <1>6, <1>12, <1>19 DEF AInv, SettledClosed, Cases, Holds, HoldsBack
  <2>1. x # i
    BY <1>9, <1>10, <1>19
  <2>2. Settled(incident[x].order)
    BY <1>10, <2>1 DEF Settled
  <2> QED
    BY <1>10, <2>1, <2>2, SettledHolds
<1>22. FeesRecorded' /\ PenaltyDeserved' /\ ReturnsCharged'
  <2>1. FeesRecorded'
    BY <1>6 DEF AInv, FeesRecorded
  <2>2. PenaltyDeserved' /\ ReturnsCharged'
    BY <1>6, <1>9, <1>10, <1>13 DEF AInv, PenaltyDeserved, ReturnsCharged
  <2> QED
    BY <2>1, <2>2
<1> QED
  BY <1>5, <1>14, <1>15, <1>16, <1>18, <1>20, <1>21, <1>22 DEF AInv

-----------------------------------------------------------------------------
(* What goes on with the orders meanwhile *)

\* No purchase command touches a received order, and the one that receives an
\* order leaves its lines alone.
LEMMA OrdersGoOn ==
    ASSUME PInv, PurchaseNext, NEW o \in OrderIds
    PROVE  /\ order[o].state = "COLLECTED" => order'[o] = order[o]
           /\ order[o].state # "COLLECTED" /\ order'[o].state = "COLLECTED"
                => order'[o].items = order[o].items
<1>1. order \in [OrderIds -> Order \cup {NoOrder}]
  BY DEF PInv, PurchaseTypeOK
<1>2. CASE order'[o] = order[o]
  BY <1>2
<1>3. CASE order'[o] # order[o]
  <2>1. ~MarketNext /\ ~(FundsNext /\ UNCHANGED purchaseVars)
    <3>1. order' # order
      BY <1>3
    <3> QED
      BY <3>1 DEF MarketNext, SellerStanding, CatalogState, SaveOffer, purchaseVars
  <2>2. BuyerNext
    BY <2>1 DEF PurchaseNext
  <2>3. \/ \E x \in OrderIds, q \in QuoteIds, g \in GrantIds \cup {NoGrantId},
               disposition \in {"KEEP", "REMOVE"} : PlaceOrder(x, q, g, disposition)
        \/ \E x \in OrderIds : Cancel(x) \/ SellerState(x) \/ ConfirmPickup(x)
    BY <1>3, <2>2 DEF BuyerNext, SetCart, SaveAddress, CreateQuote
  <2>4. ASSUME NEW x \in OrderIds, NEW q \in QuoteIds, NEW g \in GrantIds \cup {NoGrantId},
               NEW disposition \in {"KEEP", "REMOVE"}, PlaceOrder(x, q, g, disposition)
        PROVE  order[o].state # "COLLECTED" /\ order'[o].state # "COLLECTED"
    <3>1. order[x] = NoOrder /\ order'[x].state = "PAID"
      BY <1>1, <2>4 DEF PlaceOrder
    <3>2. x = o
      BY <1>1, <1>3, <2>4 DEF PlaceOrder
    <3> QED
      BY <3>1, <3>2 DEF NoOrder
  <2>5. ASSUME NEW x \in OrderIds, Cancel(x) \/ SellerState(x) \/ ConfirmPickup(x)
        PROVE  /\ order[o].state # "COLLECTED"
               /\ order'[o].state = "COLLECTED" => order'[o].items = order[o].items
    <3>1. order[x].state \in {"PAID", "PREPARING", "READY_FOR_PICKUP"}
      BY <2>5 DEF Cancel, Cancellable, SellerState, ConfirmPickup
    <3>2. x = o
      BY <1>1, <1>3, <2>5 DEF Cancel, SellerState, ConfirmPickup
    <3>3. order[o] \in Order
      BY <1>1, <3>1, <3>2 DEF NoOrder
    <3>4. order'[o].items = order[o].items
      <4>1. CASE Cancel(x)
        BY <1>1, <3>2, <3>3, <4>1 DEF Cancel, Order
      <4>2. CASE SellerState(x)
        BY <1>1, <3>2, <3>3, <4>2 DEF SellerState, Order
      <4>3. CASE ConfirmPickup(x)
        BY <1>1, <3>2, <3>3, <4>3 DEF ConfirmPickup, Order
      <4> QED
        BY <2>5, <4>1, <4>2, <4>3
    <3> QED
      BY <3>1, <3>2, <3>4
  <2> QED
    BY <2>3, <2>4, <2>5
<1> QED
  BY <1>2, <1>3

LEMMA TimeGoesOn ==
    ASSUME PInv, PurchaseNext
    PROVE  now \in Nat /\ (now' = now \/ now' = now + 1)
<1>1. now \in Nat
  BY DEF PInv, FInv, FundsTypeOK
<1>2. CASE MarketNext
  BY <1>1, <1>2 DEF MarketNext, SellerStanding, CatalogState, SaveOffer, fundsVars
<1>3. CASE BuyerNext
  <2>1. ASSUME NEW o \in OrderIds, NEW q \in QuoteIds, NEW g \in GrantIds \cup {NoGrantId},
               NEW disposition \in {"KEEP", "REMOVE"}, PlaceOrder(o, q, g, disposition)
        PROVE  now' = now
    BY <2>1 DEF PlaceOrder
  <2>2. ASSUME NEW o \in OrderIds, Cancel(o) \/ SellerState(o) \/ ConfirmPickup(o)
        PROVE  now' = now
    BY <2>2 DEF Cancel, SellerState, ConfirmPickup, fundsVars
  <2>3. ASSUME NEW q \in QuoteIds, NEW b \in Accounts, NEW s \in Sellers, NEW personal \in BOOLEAN,
               CreateQuote(q, b, s, personal)
        PROVE  now' = now
    BY <2>3 DEF CreateQuote, fundsVars
  <2>4. ASSUME NEW b \in Accounts,
               \/ \E p \in Products, quantity \in Quantities : SetCart(b, p, quantity)
               \/ \E city \in Cities : SaveAddress(b, city)
        PROVE  now' = now
    BY <2>4 DEF SetCart, SaveAddress, fundsVars
  <2> QED
    BY <1>1, <1>3, <2>1, <2>2, <2>3, <2>4 DEF BuyerNext
<1>4. CASE FundsNext
  BY <1>1, <1>4 DEF FundsNext, CreateProgram, LinkHousehold, GrantMembership, RevokeMembership,
                    Allocate, Withdraw, CancelWithdrawal, AssessWithdrawals, Tick
<1> QED
  BY <1>1, <1>2, <1>3, <1>4 DEF PurchaseNext

\* An order without refunds, not cancelled, holds its whole total.
LEMMA UntouchedTotal ==
    ASSUME NEW d \in Order, d.state # "CANCELLED", Funded(d), NEW cash, NEW credit,
           Held(d, cash, credit), \A j \in DOMAIN d.items : d.items[j].refunded = 0
    PROVE  cash + credit = d.total
<1>1. d.items \in Seq(OrderItem)
  BY DEF Order
<1>2. Open(d) = DOMAIN d.items
  BY DEF Open
<1>3. cash = d.cash /\ credit = d.credit
  BY <1>1, <1>2, NothingRefunded DEF Held, Funded
<1> QED
  BY <1>3 DEF Funded

LEMMA PurchaseNextStep ==
    ASSUME AInv, PurchaseNext, UNCHANGED afterSalesVars
    PROVE  AInv'
<1>1. /\ UNCHANGED <<evidence, incident, fee, feeHistory, settlements>>
      /\ PInv /\ incident \in CaseDocs /\ incident' \in CaseDocs
  BY DEF afterSalesVars, AInv, AfterSalesTypeOK, CaseDocs
<1>2. PInv'
  BY <1>1, PurchaseStep
<1>3. \A o \in OrderIds :
         /\ order[o].state = "COLLECTED" => order'[o] = order[o]
         /\ order[o].state # "COLLECTED" /\ order'[o].state = "COLLECTED"
              => order'[o].items = order[o].items
  BY <1>1, OrdersGoOn
<1>4. now \in Nat /\ now' \in Nat /\ now' >= now
  BY <1>1, TimeGoesOn
<1>5. ASSUME NEW o \in OrderIds, order[o].state = "COLLECTED"
      PROVE  /\ balance'[OrderCash(o)] = balance[OrderCash(o)]
             /\ balance'[OrderCredit(o)] = balance[OrderCredit(o)]
  <2>1. Held(order[o], balance[OrderCash(o)], balance[OrderCredit(o)])
    BY <1>1, HeldEach DEF PInv
  <2>2. Held(order'[o], balance'[OrderCash(o)], balance'[OrderCredit(o)])
    BY <1>2 DEF PInv, OrderMoney, Held, Open
  <2>3. order'[o] = order[o]
    BY <1>3, <1>5
  <2> QED
    BY <2>1, <2>2, <2>3 DEF Held
<1>6. ASSUME NEW o \in OrderIds, order[o].state # "COLLECTED"
      PROVE  \A j \in DOMAIN order'[o].items : order'[o].items[j].refunded = 0
  <2>1. CASE order'[o].state = "COLLECTED"
    <3>1. order'[o].items = order[o].items
      BY <1>3, <1>6, <2>1
    <3> QED
      BY <1>1, <1>6, <3>1 DEF PInv, OrdersBacked, Backed
  <2>2. CASE order'[o].state # "COLLECTED"
    BY <1>2, <2>2 DEF PInv, OrdersBacked, Backed
  <2> QED
    BY <2>1, <2>2
<1>7. ASSUME NEW i \in IncidentIds
      PROVE  \/ incident[i] = NoIncident
             \/ /\ incident[i].order \in OrderIds /\ order[incident[i].order].state = "COLLECTED"
                /\ order'[incident[i].order] = order[incident[i].order]
  <2>1. incident[i] # NoIncident =>
           incident[i].order \in OrderIds /\ order[incident[i].order].state = "COLLECTED"
    BY <1>1 DEF CaseDocs, Incident, AInv, CasesOfCollected
  <2> QED
    BY <1>3, <2>1
<1>8. ASSUME NEW o \in OrderIds, order[o].state # "COLLECTED"
      PROVE  \A i \in IncidentIds : incident[i].order = o =>
                incident[i].item = 0 /\ incident[i].refund = 0
  BY <1>7, <1>8 DEF NoIncident
<1>9. ASSUME NEW s \in settlements
      PROVE  /\ s.order \in OrderIds /\ order[s.order].state = "COLLECTED"
             /\ order'[s.order] = order[s.order]
  <2>1. s.order \in OrderIds /\ order[s.order].state = "COLLECTED"
    BY DEF AInv, AfterSalesTypeOK, Settlement, SettledClosed
  <2> QED
    BY <1>3, <2>1
<1>10. \A x : /\ RefundOf(x)' = RefundOf(x) /\ PenaltyOf(x)' = PenaltyOf(x)
              /\ Cases(x)' = Cases(x) /\ (Holds(x)' <=> Holds(x))
  BY <1>1 DEF RefundOf, PenaltyOf, Cases, Holds
<1>11. AfterSalesTypeOK' /\ UndecidedUnpaid' /\ FeesRecorded' /\ ReturnsCharged'
  BY <1>1 DEF AInv, AfterSalesTypeOK, UndecidedUnpaid, FeesRecorded, ReturnsCharged
<1>12. CasesOfCollected' /\ EvidenceKept'
  BY <1>1, <1>7 DEF AInv, CasesOfCollected, EvidenceKept
<1>13. PenaltyDeserved'
  <2> SUFFICES ASSUME NEW i \in IncidentIds, incident[i].penalty
               PROVE  now' > incident[i].due
    BY <1>1 DEF AInv, PenaltyDeserved
  <2>1. now > incident[i].due
    BY DEF AInv, PenaltyDeserved
  <2>2. incident[i].due \in Int
    BY <1>1 DEF CaseDocs, Incident, NoIncident, Never
  <2> QED
    BY <1>4, <2>1, <2>2
<1>14. SettledClosed' /\ SettledExact'
  <2>1. ASSUME NEW s \in settlements
        PROVE  order[s.order].received + ReportWindow < now'
    <3>1. order[s.order].received + ReportWindow < now
      BY DEF AInv, SettledClosed
    <3>2. order[s.order] \in Order
      BY <1>1, <1>9 DEF PInv, PurchaseTypeOK, NoOrder
    <3>3. order[s.order].received + ReportWindow \in Nat
      BY <3>2, AfterSalesAssumption DEF Order
    <3> QED
      BY <1>4, <3>1, <3>3
  <2>2. SettledClosed'
    BY <1>1, <1>9, <1>10, <2>1 DEF AInv, SettledClosed
  <2>3. SettledExact'
    BY <1>1, <1>9, <1>10 DEF AInv, SettledExact
  <2> QED
    BY <2>2, <2>3
<1>15. CasesCoverItems'
  <2> SUFFICES ASSUME NEW o \in OrderIds, NEW k \in DOMAIN order'[o].items
               PROVE  Covered(order'[o].items[k], incident', o, k)
    BY <1>1, CoveredEachNext
  <2>1. CASE order[o].state = "COLLECTED"
    <3>1. order'[o] = order[o]
      BY <1>3, <2>1
    <3>2. Covered(order[o].items[k], incident, o, k)
      BY <1>1, <3>1, CoveredEach DEF AInv
    <3> QED
      BY <1>1, <3>1, <3>2
  <2>2. CASE order[o].state # "COLLECTED"
    <3>1. PICK p \in Nat, u \in Nat : p = order'[o].items[k].price /\ u = order'[o].items[k].quantity
                                      /\ k # 0
      <4>1. order'[o] \in Order \cup {NoOrder}
        BY <1>2 DEF PInv, PurchaseTypeOK
      <4>2. order'[o] \in Order
        BY <4>1 DEF NoOrder
      <4>3. order'[o].items \in Seq(OrderItem)
        BY <4>2 DEF Order
      <4>4. order'[o].items[k] \in OrderItem /\ k # 0
        BY <4>3
      <4> QED
        BY <4>4 DEF OrderItem
    <3>2. order'[o].items[k].refunded = 0
      BY <1>6, <2>2
    <3>3. \A i \in IncidentIds : /\ OpenPart(incident, o, k)[i] = 0
                                 /\ UnitsPart(incident, o, k)[i] = 0
                                 /\ PaidPart(incident, o, k)[i] = 0
      BY <1>8, <2>2, <3>1 DEF OpenPart, UnitsPart, PaidPart
    <3>4. /\ CaseSum(OpenPart(incident, o, k)) = 0 /\ CaseSum(UnitsPart(incident, o, k)) = 0
          /\ CaseSum(PaidPart(incident, o, k)) = 0
      BY <3>3, CaseSumZero
    <3>5. p * 0 = 0 /\ 0 + 0 <= u
      OBVIOUS
    <3> QED
      BY <1>1, <3>1, <3>2, <3>4, <3>5 DEF Covered
  <2> QED
    BY <2>1, <2>2
<1>16. RefundsCounted'
  <2> SUFFICES ASSUME NEW o \in OrderIds, order'[o].state = "COLLECTED"
               PROVE  balance'[OrderCash(o)] + balance'[OrderCredit(o)] + RefundOf(o)
                        = order'[o].total
    BY <1>10 DEF RefundsCounted
  <2>1. CASE order[o].state = "COLLECTED"
    BY <1>3, <1>5, <2>1 DEF AInv, RefundsCounted
  <2>2. CASE order[o].state # "COLLECTED"
    <3>1. order'[o] \in Order
      BY <1>2 DEF PInv, PurchaseTypeOK, NoOrder
    <3>2. Funded(order'[o])
      BY <1>2 DEF PInv, OrdersFunded, Funded
    <3>3. Held(order'[o], balance'[OrderCash(o)], balance'[OrderCredit(o)])
      BY <1>2 DEF PInv, OrderMoney, Held, Open
    <3>4. balance'[OrderCash(o)] + balance'[OrderCredit(o)] = order'[o].total
      BY <1>6, <2>2, <3>1, <3>2, <3>3, UntouchedTotal
    <3>5. RefundOf(o) = 0
      <4>1. \A i \in IncidentIds : RefundPart(incident, o)[i] = 0
        BY <1>8, <2>2 DEF RefundPart
      <4> QED
        BY <1>1, <4>1, RefundSum, CaseSumZero
    <3>6. order'[o].total \in Nat
      BY <3>1 DEF Order
    <3> QED
      BY <3>4, <3>5, <3>6
  <2> QED
    BY <2>1, <2>2
<1> QED
  BY <1>2, <1>11, <1>12, <1>13, <1>14, <1>15, <1>16 DEF AInv

-----------------------------------------------------------------------------
(* The invariant *)

LEMMA AfterSalesInitInv == FundsInit /\ PurchaseInit /\ AfterSalesInit => AInv
<1> SUFFICES ASSUME FundsInit, PurchaseInit, AfterSalesInit PROVE AInv
  OBVIOUS
<1>1. PInv
  BY PurchaseInitInv
<1>2. /\ \A o \in OrderIds : order[o] = NoOrder
      /\ \A i \in IncidentIds : incident[i] = NoIncident
      /\ settlements = {} /\ feeHistory = {} /\ fee = NoFee
  BY DEF PurchaseInit, AfterSalesInit
<1>3. \A o \in OrderIds : order[o].state = "NONE" /\ order[o].items = <<>>
  BY <1>2 DEF NoOrder
<1>4. \A i \in IncidentIds : incident[i].state = "NONE" /\ ~incident[i].penalty
  BY <1>2 DEF NoIncident
<1>5. AfterSalesTypeOK
  BY DEF AfterSalesInit, AfterSalesTypeOK
<1>6. CasesOfCollected /\ UndecidedUnpaid /\ EvidenceKept /\ PenaltyDeserved /\ ReturnsCharged
  BY <1>2, <1>4 DEF CasesOfCollected, UndecidedUnpaid, EvidenceKept, PenaltyDeserved, ReturnsCharged
<1>7. CasesCoverItems
  BY <1>3 DEF CasesCoverItems
<1>8. RefundsCounted
  BY <1>3 DEF RefundsCounted
<1>9. SettledClosed /\ SettledExact /\ FeesRecorded
  BY <1>2 DEF SettledClosed, SettledExact, FeesRecorded
<1> QED
  BY <1>1, <1>5, <1>6, <1>7, <1>8, <1>9 DEF AInv

LEMMA AfterSalesStep == AInv /\ [AfterSalesNext]_allVars => AInv'
<1> SUFFICES ASSUME AInv, [AfterSalesNext]_allVars PROVE AInv'
  OBVIOUS
<1>1. CASE UNCHANGED allVars
  <2>1. /\ UNCHANGED <<fundsVars, purchaseVars, incident>>
        /\ UNCHANGED <<now, order, evidence, fee, feeHistory, settlements>>
    BY <1>1 DEF allVars, afterSalesVars, fundsVars, purchaseVars
  <2>2. AfterSalesTypeOK' /\ EvidenceKept'
    BY <2>1 DEF AInv, AfterSalesTypeOK, EvidenceKept
  <2>3. SettledClosed' /\ SettledExact' /\ FeesRecorded'
    BY <2>1 DEF AInv, SettledClosed, SettledExact, FeesRecorded, Cases, Holds, RefundOf, PenaltyOf
  <2> QED
    BY <2>1, <2>2, <2>3, CasesUntouched
<1>2. CASE CaseNext
  BY <1>2, EvidenceStep, ReportIncidentStep, RejectStep, ApproveStep, ReturnMarkStep,
     ConfirmReturnStep, VerifyUnavailableStep, AssessReturnsStep
  DEF CaseNext
<1>3. CASE SettleNext
  BY <1>3, SetFeeStep, BuildSettlementsStep DEF SettleNext
<1>4. CASE PurchaseNext /\ UNCHANGED afterSalesVars
  BY <1>4, PurchaseNextStep
<1> QED
  BY <1>1, <1>2, <1>3, <1>4 DEF AfterSalesNext

LEMMA AfterSalesInvariant == AfterSalesSpec => []AInv
  BY AfterSalesInitInv, AfterSalesStep, PTL DEF AfterSalesSpec

-----------------------------------------------------------------------------
(* The theorems *)

\* Cases, fees and settlements keep their types: no case has a negative refund, and
\* every settlement names a version of the fee.
THEOREM AfterSalesTypeCorrect == AfterSalesSpec => []AfterSalesTypeOK
<1>1. AInv => AfterSalesTypeOK
  BY DEF AInv
<1> QED
  BY <1>1, AfterSalesInvariant, PTL

\* The wallets, grants, programmes and holds agree with the journal after every
\* partial refund as well.
THEOREM AfterSalesReconciled == AfterSalesSpec => []Reconciled
<1>1. AInv => Reconciled
  BY DEF AInv, PInv, FInv
<1> QED
  BY <1>1, AfterSalesInvariant, PTL

\* Partial refunds (DECIDE_INCIDENT) return to each origin what it paid, to the
\* rial: rounding the credit's share down each time neither mints nor loses money,
\* for lines of any quantity, price and credit and cases decided in any order.
THEOREM RefundsConserveMoney == AfterSalesSpec => []OrderMoneyConserved
<1>1. AInv => OrderMoneyConserved
  BY DEF AInv, PInv, OrderMoneyConserved
<1> QED
  BY <1>1, AfterSalesInvariant, PTL

\* The lines of an order stay fully funded while units of them are refunded.
THEOREM RefundedOrdersFunded == AfterSalesSpec => []OrdersFunded
<1>1. AInv => OrdersFunded
  BY DEF AInv, PInv
<1> QED
  BY <1>1, AfterSalesInvariant, PTL

\* No unit of an order line is promised to two cases or refunded twice, for any
\* number of cases reported (REPORT_INCIDENT) and decided (DECIDE_INCIDENT) in any
\* order: every report under review can be approved in full.
THEOREM CasesAlwaysCoverItems == AfterSalesSpec => []CasesCoverItems
<1>1. AInv => CasesCoverItems
  BY DEF AInv
<1> QED
  BY <1>1, AfterSalesInvariant, PTL

\* A settlement (BUILD_SETTLEMENTS) is the only one of its order and stays true: no
\* later report, decision, return, assessment or purchase command changes the
\* refunds, the penalties or the money it was computed from.
THEOREM SettlementsStayTrue == AfterSalesSpec => []SettlementConsistent
<1>1. AInv => SettlementConsistent
  <2> SUFFICES ASSUME AInv, NEW s \in settlements
               PROVE  /\ \A r \in settlements : r.order = s.order => r = s
                      /\ s.gross = order[s.order].total
                      /\ s.refund = RefundOf(s.order)
                      /\ s.penalty = PenaltyOf(s.order)
                      /\ s.gross - s.refund
                           = balance[OrderCash(s.order)] + balance[OrderCredit(s.order)]
    BY DEF SettlementConsistent
  <2>1. /\ \A r \in settlements : r.order = s.order => r = s
        /\ s.gross = order[s.order].total
        /\ s.refund = RefundOf(s.order)
        /\ s.penalty = PenaltyOf(s.order)
    BY DEF AInv, SettledExact
  <2>2. s.order \in OrderIds /\ order[s.order].state = "COLLECTED"
    BY DEF AInv, AfterSalesTypeOK, Settlement, SettledClosed
  <2>3. balance[OrderCash(s.order)] + balance[OrderCredit(s.order)] + RefundOf(s.order)
          = order[s.order].total
    BY <2>2 DEF AInv, RefundsCounted
  <2>4. balance[OrderCash(s.order)] \in Int /\ balance[OrderCredit(s.order)] \in Int
    BY <2>2, OrderAccount DEF AInv, PInv, FInv, FundsTypeOK
  <2>5. RefundOf(s.order) \in Nat
    BY RefundSum DEF AInv, AfterSalesTypeOK, CaseDocs
  <2> QED
    BY <2>1, <2>3, <2>4, <2>5
<1> QED
  BY <1>1, AfterSalesInvariant, PTL

\* A seller pays a penalty only for a return that was not collected by its due
\* time (CONFIRM_RETURN, ASSESS_RETURN_SLA), never for one whose timely visit
\* support accepted (VERIFY_UNAVAILABILITY).
THEOREM PenaltiesDeserved == AfterSalesSpec => []PenaltyDeserved
<1>1. AInv => PenaltyDeserved
  BY DEF AInv
<1> QED
  BY <1>1, AfterSalesInvariant, PTL

\* A late return never escapes its penalty, whether or not the assessment ran
\* before it was collected or before its order was settled.
THEOREM LatenessAlwaysCharged == AfterSalesSpec => []LatenessCharged
<1>1. AInv => LatenessCharged
  BY SettledHolds DEF AInv, ReturnsCharged, LatenessCharged, HoldsBack
<1> QED
  BY <1>1, AfterSalesInvariant, PTL

\* The photograph of a case is never deleted (DELETE_EVIDENCE) nor replaced by
\* another account's.
THEOREM EvidenceAlwaysKept == AfterSalesSpec => []EvidenceKept
<1>1. AInv => EvidenceKept
  BY DEF AInv
<1> QED
  BY <1>1, AfterSalesInvariant, PTL

\* A version of the fee (SET_FEE_POLICY) stands for one amount, in the history and
\* in every settlement that cites it.
THEOREM FeeVersionsStable == AfterSalesSpec => []FeeVersionStable
<1>1. AInv => FeeVersionStable
  <2> SUFFICES ASSUME AInv PROVE FeeVersionStable
    OBVIOUS
  <2>1. {[version |-> s.version, amount |-> s.fee] : s \in settlements} \subseteq feeHistory
    BY DEF AInv, FeesRecorded
  <2> QED
    BY <2>1 DEF AInv, FeesRecorded, FeeVersionStable
<1> QED
  BY <1>1, AfterSalesInvariant, PTL
=============================================================================
