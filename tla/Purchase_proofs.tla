-------------------------- MODULE Purchase_proofs --------------------------
(***************************************************************************)
(* Proofs about Purchase for any buyers, sellers, products, offers, quotes,*)
(* orders and amounts: the documents keep their types, no purchase or      *)
(* cancellation mints or loses money or support, and an order is placed on *)
(* the terms in force at that moment.                                      *)
(***************************************************************************)
EXTENDS Purchase, Funds_proofs, SequenceTheorems

-----------------------------------------------------------------------------
(* Lines of carts, quotes and orders *)

LEMMA Largest ==
    ASSUME NEW S, IsFiniteSet(S), S \subseteq Nat, S # {}
    PROVE  \E m \in S : \A x \in S : x <= m
<1> DEFINE T == {r \in SUBSET S : r = {} \/ \E m \in r : \A x \in r : x <= m}
<1>1. {} \in T
  OBVIOUS
<1>2. ASSUME NEW s \in SUBSET S, NEW x \in S, x \notin s, s \in T
      PROVE  s \cup {x} \in T
  <2>1. CASE s = {}
    <3>1. \A y \in s \cup {x} : y <= x
      BY <2>1
    <3> QED
      BY <3>1
  <2>2. ASSUME NEW m \in s, \A y \in s : y <= m
        PROVE  s \cup {x} \in T
    <3>1. CASE x <= m
      <4>1. \A y \in s \cup {x} : y <= m
        BY <2>2, <3>1
      <4> QED
        BY <4>1
    <3>2. CASE ~(x <= m)
      <4>1. \A y \in s \cup {x} : y <= x
        <5> TAKE y \in s \cup {x}
        <5>1. m \in Nat /\ x \in Nat /\ y \in Nat
          OBVIOUS
        <5>2. y \in s => y <= m
          BY <2>2
        <5> QED
          BY <3>2, <5>1, <5>2
      <4> QED
        BY <4>1
    <3> QED
      BY <3>1, <3>2
  <2> QED
    BY <1>2, <2>1, <2>2
<1> HIDE DEF T
<1>3. S \in T
  BY <1>1, <1>2, ElementInduction
<1> QED
  BY <1>3 DEF T

\* Every finite set of positions can be listed in ascending order.
LEMMA AscendingExists ==
    ASSUME NEW S, IsFiniteSet(S), S \subseteq Nat
    PROVE  \E e \in [1..Cardinality(S) -> S] : \A i, j \in DOMAIN e : i < j => e[i] < e[j]
<1> DEFINE Listed(r) == \E e \in [1..Cardinality(r) -> r] :
                           \A i, j \in DOMAIN e : i < j => e[i] < e[j]
           T == {r \in SUBSET S : Listed(r)}
<1>1. ASSUME NEW s \in SUBSET S, \A r \in SUBSET s : r # s => r \in T
      PROVE  s \in T
  <2>1. IsFiniteSet(s) /\ s \subseteq Nat
    BY FS_Subset
  <2>2. CASE s = {}
    <3>1. Cardinality(s) = 0
      BY <2>2, FS_EmptySet
    <3>2. [i \in 1..0 |-> 0] \in [1..Cardinality(s) -> s]
      BY <3>1
    <3>3. \A i, j \in DOMAIN [i \in 1..0 |-> 0] : FALSE
      OBVIOUS
    <3> QED
      BY <3>2, <3>3
  <2>3. CASE s # {}
    <3>1. PICK m \in s : \A x \in s : x <= m
      BY <2>1, <2>3, Largest
    <3> DEFINE rest == s \ {m}
               n == Cardinality(s)
    <3>2. n \in Nat /\ n - 1 \in Nat /\ Cardinality(rest) = n - 1
      <4>1. n \in Nat /\ Cardinality(rest) = n - 1 /\ Cardinality(rest) \in Nat
        BY <2>1, FS_RemoveElement, FS_CardinalityType, FS_Subset
      <4> QED
        BY <4>1
    <3>3. PICK d \in [1..(n - 1) -> rest] : \A i, j \in DOMAIN d : i < j => d[i] < d[j]
      <4>1. Listed(rest)
        BY <1>1
      <4> QED
        BY <3>2, <4>1
    <3> HIDE DEF n
    <3> DEFINE e == [i \in 1..n |-> IF i = n THEN m ELSE d[i]]
    <3>4. \A i \in 1..n : i # n => i \in 1..(n - 1)
      BY <3>2
    <3>5. e \in [1..n -> s]
      BY <3>3, <3>4
    <3>6. ASSUME NEW i \in 1..n, NEW j \in 1..n, i < j PROVE e[i] < e[j]
      <4>1. i # n /\ i \in 1..(n - 1)
        BY <3>2, <3>4, <3>6
      <4>2. d[i] \in rest /\ d[i] \in Nat /\ m \in Nat /\ d[i] < m
        <5>1. d[i] \in rest /\ d[i] \in Nat /\ m \in Nat /\ d[i] # m /\ d[i] <= m
          BY <2>1, <3>1, <3>3, <4>1
        <5> QED
          BY <5>1
      <4>3. CASE j = n
        BY <4>1, <4>2, <4>3
      <4>4. CASE j # n
        BY <3>3, <3>4, <3>6, <4>1, <4>4
      <4> QED
        BY <4>3, <4>4
    <3>7. \A i, j \in DOMAIN e : i < j => e[i] < e[j]
      BY <3>6
    <3> QED
      BY <3>5, <3>7 DEF n
  <2> QED
    BY <2>2, <2>3
<1> HIDE DEF T
<1>2. S \in T
  BY <1>1, SubsetInduction
<1> QED
  BY <1>2 DEF T

\* The selected lines are a sequence of lines at selected positions, none twice.
LEMMA LinesAtSelects ==
    ASSUME NEW T, NEW lines \in Seq(T), NEW S \in SUBSET DOMAIN lines
    PROVE  /\ LinesAt(lines, S) \in Seq(T)
           /\ \E e \in [DOMAIN LinesAt(lines, S) -> S] :
                 /\ \A i \in DOMAIN LinesAt(lines, S) : LinesAt(lines, S)[i] = lines[e[i]]
                 /\ \A i, j \in DOMAIN LinesAt(lines, S) : e[i] = e[j] => i = j
<1>1. IsFiniteSet(S) /\ S \subseteq Nat
  <2>1. DOMAIN lines = 1..Len(lines) /\ Len(lines) \in Nat
    OBVIOUS
  <2>2. IsFiniteSet(1..Len(lines))
    BY <2>1, FS_Interval
  <2>3. IsFiniteSet(S)
    BY <2>1, <2>2, FS_Subset
  <2> QED
    BY <2>1, <2>3
<1>2. Cardinality(S) \in Nat
  BY <1>1, FS_CardinalityType
<1> DEFINE e == Ascending(S)
<1>3. /\ e \in [1..Cardinality(S) -> S]
      /\ \A i, j \in DOMAIN e : i < j => e[i] < e[j]
  BY <1>1, AscendingExists DEF Ascending
<1>4. LinesAt(lines, S) = [i \in DOMAIN e |-> lines[e[i]]]
  BY DEF LinesAt
<1> HIDE DEF e
<1>5. LinesAt(lines, S) = [i \in 1..Cardinality(S) |-> lines[e[i]]]
  BY <1>3, <1>4
<1>6. \A i \in 1..Cardinality(S) : lines[e[i]] \in T
  BY <1>3, ElementOfSeq
<1>7. LinesAt(lines, S) \in Seq(T)
  BY <1>2, <1>5, <1>6, IsASeq
<1>8. ASSUME NEW i \in 1..Cardinality(S), NEW j \in 1..Cardinality(S), e[i] = e[j]
      PROVE  i = j
  <2>1. e[i] \in Nat /\ e[j] \in Nat /\ i \in Nat /\ j \in Nat
    BY <1>1, <1>3
  <2>2. (i < j => e[i] < e[j]) /\ (j < i => e[j] < e[i])
    BY <1>3
  <2> QED
    BY <1>8, <2>1, <2>2
<1>9. /\ DOMAIN LinesAt(lines, S) = 1..Cardinality(S)
      /\ \A i \in 1..Cardinality(S) : LinesAt(lines, S)[i] = lines[e[i]]
  BY <1>5
<1>10. e \in [DOMAIN LinesAt(lines, S) -> S]
  BY <1>3, <1>9
<1> QED
  BY <1>7, <1>8, <1>9, <1>10

\* No product has two lines.
ProductsOnce(lines) == \A i, j \in DOMAIN lines : lines[i].product = lines[j].product => i = j

LEMMA LinesAtOnce ==
    ASSUME NEW T, NEW lines \in Seq(T), NEW S \in SUBSET DOMAIN lines, ProductsOnce(lines)
    PROVE  ProductsOnce(LinesAt(lines, S))
<1>1. PICK e \in [DOMAIN LinesAt(lines, S) -> S] :
         /\ \A i \in DOMAIN LinesAt(lines, S) : LinesAt(lines, S)[i] = lines[e[i]]
         /\ \A i, j \in DOMAIN LinesAt(lines, S) : e[i] = e[j] => i = j
  BY LinesAtSelects
<1> QED
  BY <1>1 DEF ProductsOnce

\* Each selected line is one of the lines selected from.
LEMMA LinesAtFrom ==
    ASSUME NEW T, NEW lines \in Seq(T), NEW S \in SUBSET DOMAIN lines,
           NEW i \in DOMAIN LinesAt(lines, S)
    PROVE  \E k \in S : LinesAt(lines, S)[i] = lines[k]
  BY LinesAtSelects

\* What all selected lines share, if every line at a selected position has it.
LEMMA LinesAtAll ==
    ASSUME NEW T, NEW U, NEW lines \in Seq(T), NEW S \in SUBSET DOMAIN lines,
           \A k \in S : lines[k] \in U
    PROVE  LinesAt(lines, S) \in Seq(U)
<1>1. LinesAt(lines, S) \in Seq(T)
  BY LinesAtSelects
<1>2. \A i \in 1..Len(LinesAt(lines, S)) : LinesAt(lines, S)[i] \in U
  BY <1>1, LinesAtFrom
<1> QED
  BY <1>1, <1>2

-----------------------------------------------------------------------------
(* The split of support credit over the lines of an order *)

Values(items) == [i \in DOMAIN items |-> Value(items[i])]

LEMMA ItemsFinite ==
    ASSUME NEW T, NEW items \in Seq(T)
    PROVE  /\ DOMAIN items = 1..Len(items) /\ Len(items) \in Nat
           /\ IsFiniteSet(DOMAIN items)
           /\ \A S \in SUBSET DOMAIN items : IsFiniteSet(S)
<1>1. DOMAIN items = 1..Len(items) /\ Len(items) \in Nat
  OBVIOUS
<1>2. IsFiniteSet(1..Len(items))
  BY <1>1, FS_Interval
<1> QED
  BY <1>1, <1>2, FS_Subset

LEMMA ValueNat ==
    ASSUME NEW items \in Seq(QuoteItem), NEW i \in DOMAIN items
    PROVE  /\ Value(items[i]) \in Nat /\ Values(items)[i] = Value(items[i])
           /\ items[i] \in QuoteItem
<1>1. items[i] \in QuoteItem
  BY ElementOfSeq
<1>2. items[i].price \in Nat /\ items[i].quantity \in Nat
  BY <1>1 DEF QuoteItem
<1> QED
  BY <1>1, <1>2 DEF Value, Values

LEMMA TotalSum ==
    ASSUME NEW items \in Seq(QuoteItem)
    PROVE  /\ Total(items) = SumFunctionOnSet(Values(items), DOMAIN items)
           /\ Total(items) \in Nat
<1>1. Total(items) = SumFunctionOnSet(Values(items), DOMAIN items)
  BY SumOfFunction DEF Total, Values
<1>2. IsFiniteSet(DOMAIN items) /\ \A i \in DOMAIN items : Values(items)[i] \in Nat
  BY ItemsFinite, ValueNat
<1> QED
  BY <1>1, <1>2, SumNat

LEMMA SumLast ==
    ASSUME NEW k \in Nat, k # 0, NEW f, IntOn(f, 1..k)
    PROVE  SumFunctionOnSet(f, 1..k) = f[k] + SumFunctionOnSet(f, 1..(k - 1))
<1> DEFINE K == 1..k
<1>1. k \in K /\ K \ {k} = 1..(k - 1)
  OBVIOUS
<1>2. IsFiniteSet(K)
  BY FS_Interval
<1>3. IntOn(f, K)
  OBVIOUS
<1> HIDE DEF K
<1>4. SumFunctionOnSet(f, K) = f[k] + SumFunctionOnSet(f, K \ {k})
  BY <1>1, <1>2, <1>3, SumRemove
<1> QED
  BY <1>1, <1>4 DEF K

\* The credit line i starts with is what the lines before it left over.
LEMMA CreditPartIs ==
    ASSUME NEW items \in Seq(QuoteItem), NEW i \in DOMAIN items, NEW credit
    PROVE  CreditPart(items, credit, i) =
             LET before == SumFunctionOnSet(Values(items), 1..(i - 1))
             IN  IF before >= credit THEN 0 ELSE Lesser(credit - before, Value(items[i]))
<1> DEFINE part == [j \in 1..(i - 1) |-> Value(items[j])]
<1>1. i \in Nat /\ 1..(i - 1) \subseteq DOMAIN items
  BY ItemsFinite
<1>2. IsFiniteSet(1..(i - 1))
  BY <1>1, ItemsFinite
<1>3. \A j \in 1..(i - 1) : part[j] \in Int /\ part[j] = Values(items)[j]
  BY <1>1, ValueNat
<1>4. SumFunction(part) = SumFunctionOnSet(part, 1..(i - 1))
  BY SumOfFunction
<1> HIDE DEF part
<1>5. SumFunctionOnSet(part, 1..(i - 1)) = SumFunctionOnSet(Values(items), 1..(i - 1))
  BY <1>2, <1>3, SumSame
<1> QED
  BY <1>4, <1>5 DEF CreditPart, part

CreditParts(items, credit) == [i \in DOMAIN items |-> CreditPart(items, credit, i)]

\* Over the first k lines, credit pays what they cost, or all it has.
LEMMA CreditOfFirst ==
    ASSUME NEW items \in Seq(QuoteItem), NEW credit \in Nat, NEW n \in 0..Len(items)
    PROVE  /\ \A i \in 1..n : /\ CreditPart(items, credit, i) \in Nat
                             /\ CreditPart(items, credit, i) <= Value(items[i])
           /\ SumFunctionOnSet(CreditParts(items, credit), 1..n)
                = Lesser(credit, SumFunctionOnSet(Values(items), 1..n))
<1> DEFINE v == Values(items)
           p == CreditParts(items, credit)
           Fine(k) == /\ \A i \in 1..k : /\ CreditPart(items, credit, i) \in Nat
                                        /\ CreditPart(items, credit, i) <= Value(items[i])
                      /\ SumFunctionOnSet(p, 1..k) = Lesser(credit, SumFunctionOnSet(v, 1..k))
           T == {r \in SUBSET (1..n) : \A k \in 0..n : r = 1..k => Fine(k)}
<1>0. n \in Nat /\ 1..n \subseteq DOMAIN items /\ IsFiniteSet(1..n)
  <2>1. n \in Nat /\ 1..n \subseteq DOMAIN items
    BY ItemsFinite
  <2> QED
    BY <2>1, ItemsFinite
<1>1. ASSUME NEW s \in SUBSET (1..n), \A r \in SUBSET s : r # s => r \in T
      PROVE  s \in T
  <2> SUFFICES ASSUME NEW k \in 0..n, s = 1..k PROVE Fine(k)
    OBVIOUS
  <2>1. CASE k = 0
    <3>1. 1..k = {}
      BY <2>1
    <3> QED
      BY <3>1, SumEmpty DEF Lesser
  <2>2. CASE k # 0
    <3>1. k \in Nat /\ k \in 1..n /\ k - 1 \in 0..n /\ k \in DOMAIN items
      BY <1>0, <2>2
    <3>2. /\ 1..(k - 1) \in SUBSET s /\ 1..(k - 1) # s
          /\ (1..(k - 1)) \cup {k} = 1..k /\ k \notin 1..(k - 1)
      BY <3>1
    <3>14. IsFiniteSet(1..k)
      BY <3>1, FS_Interval
    <3>3. Fine(k - 1)
      BY <1>1, <3>1, <3>2
    <3>4. SumFunctionOnSet(v, 1..k) = v[k] + SumFunctionOnSet(v, 1..(k - 1))
          /\ SumFunctionOnSet(v, 1..(k - 1)) \in Nat /\ v[k] = Value(items[k]) /\ v[k] \in Nat
      <4>1. IntOn(v, 1..k) /\ v[k] = Value(items[k]) /\ v[k] \in Nat
        <5>1. \A i \in 1..k : i \in DOMAIN items
          BY <1>0, <3>1
        <5> QED
          BY <3>1, <5>1, ValueNat DEF IntOn
      <4>2. 1..(k - 1) \subseteq 1..k /\ k \in 1..k
        BY <3>1
      <4>3. \A i \in 1..(k - 1) : v[i] \in Nat
        BY <1>0, <3>1, ValueNat
      <4>4. SumFunctionOnSet(v, 1..(k - 1)) \in Nat
        BY <3>14, <4>2, <4>3, FS_Subset, SumNat
      <4>5. SumFunctionOnSet(v, 1..k) = v[k] + SumFunctionOnSet(v, 1..(k - 1))
        BY <2>2, <3>1, <4>1, SumLast
      <4> QED
        BY <3>2, <4>1, <4>4, <4>5
    <3> DEFINE before == SumFunctionOnSet(v, 1..(k - 1))
    <3>5. p[k] = IF before >= credit THEN 0 ELSE Lesser(credit - before, v[k])
      BY <3>1, <3>4, CreditPartIs DEF CreditParts
    <3>6. p[k] = CreditPart(items, credit, k)
      BY <3>1 DEF CreditParts
    <3> HIDE DEF v, p, before
    <3>7. before \in Nat /\ v[k] \in Nat
      BY <3>4 DEF before
    <3>8. p[k] \in Nat /\ p[k] <= v[k]
      BY <3>5, <3>7 DEF Lesser
    <3>9. \A i \in 1..k : /\ CreditPart(items, credit, i) \in Nat
                         /\ CreditPart(items, credit, i) <= Value(items[i])
      BY <3>2, <3>3, <3>4, <3>6, <3>8
    <3>10. SumFunctionOnSet(p, 1..k) = p[k] + SumFunctionOnSet(p, 1..(k - 1))
      <4>1. \A i \in 1..k : p[i] = CreditPart(items, credit, i)
        BY <1>0, <3>1 DEF p, CreditParts
      <4>2. IntOn(p, 1..k)
        BY <3>9, <4>1 DEF IntOn
      <4> QED
        BY <2>2, <3>1, <4>2, SumLast
    <3>11. SumFunctionOnSet(p, 1..(k - 1)) = Lesser(credit, before)
      BY <3>3 DEF before
    <3>12. SumFunctionOnSet(v, 1..k) = v[k] + before
      BY <3>4 DEF before
    <3>13. p[k] + Lesser(credit, before) = Lesser(credit, v[k] + before)
      BY <3>5, <3>7 DEF Lesser
    <3> QED
      BY <3>9, <3>10, <3>11, <3>12, <3>13
  <2> QED
    BY <2>1, <2>2
<1>2. 1..n \in T
  <2> DEFINE N == 1..n
  <2>1. IsFiniteSet(N)
    BY <1>0
  <2>2. \A s \in SUBSET N : (\A r \in SUBSET s : r # s => r \in T) => s \in T
    BY <1>1
  <2> HIDE DEF T, N
  <2>3. N \in T
    BY ONLY <2>1, <2>2, SubsetInduction
  <2> QED
    BY <2>3 DEF N
<1> QED
  BY <1>0, <1>2

\* The lines of an order: typed, each paid in full, the credit used up exactly.
LEMMA OrderItemsSplit ==
    ASSUME NEW items \in Seq(QuoteItem), NEW credit \in Nat, credit <= Total(items)
    PROVE  LET lines == OrderItems(items, credit)
           IN  /\ lines \in Seq(OrderItem)
               /\ DOMAIN lines = DOMAIN items
               /\ \A i \in DOMAIN items :
                     /\ lines[i].cash + lines[i].credit = Value(lines[i])
                     /\ Value(lines[i]) = Value(items[i])
                     /\ lines[i].refunded = 0
                     /\ lines[i].offer = items[i].offer
               /\ SumFunction([i \in DOMAIN lines |-> lines[i].credit]) = credit
               /\ SumFunction([i \in DOMAIN lines |-> lines[i].cash]) = Total(items) - credit
<1> DEFINE lines == OrderItems(items, credit)
           p == CreditParts(items, credit)
           v == Values(items)
           c == [i \in DOMAIN items |-> lines[i].cash]
<1>1. /\ Len(items) \in Nat /\ DOMAIN items = 1..Len(items) /\ IsFiniteSet(DOMAIN items)
      /\ Len(items) \in 0..Len(items)
  BY ItemsFinite
<1>2. /\ \A i \in DOMAIN items : p[i] = CreditPart(items, credit, i) /\ p[i] \in Nat /\ p[i] <= v[i]
      /\ SumFunctionOnSet(p, DOMAIN items) = Lesser(credit, SumFunctionOnSet(v, DOMAIN items))
  <2>1. /\ \A i \in 1..Len(items) : /\ CreditPart(items, credit, i) \in Nat
                                   /\ CreditPart(items, credit, i) <= Value(items[i])
        /\ SumFunctionOnSet(p, 1..Len(items)) = Lesser(credit, SumFunctionOnSet(v, 1..Len(items)))
    BY <1>1, CreditOfFirst
  <2> QED
    BY <1>1, <2>1, ValueNat DEF CreditParts
<1>3. \A i \in DOMAIN items : v[i] = Value(items[i]) /\ v[i] \in Nat
  BY ValueNat
<1>4. Total(items) = SumFunctionOnSet(v, DOMAIN items) /\ Total(items) \in Nat
  BY TotalSum
<1>5. SumFunctionOnSet(p, DOMAIN items) = credit
  BY <1>2, <1>4 DEF Lesser
<1>6. DOMAIN lines = DOMAIN items
  BY DEF OrderItems
<1>7. ASSUME NEW i \in DOMAIN items
      PROVE  /\ lines[i].credit = p[i] /\ lines[i].cash = v[i] - p[i]
             /\ lines[i].refunded = 0 /\ lines[i].offer = items[i].offer
             /\ Value(lines[i]) = v[i]
             /\ lines[i] \in OrderItem
  <2>1. lines[i] = [offer |-> items[i].offer, product |-> items[i].product,
                    quantity |-> items[i].quantity, price |-> items[i].price,
                    cash |-> v[i] - p[i], credit |-> p[i], refunded |-> 0]
    BY <1>2, <1>3 DEF OrderItems
  <2>2. p[i] \in Nat /\ p[i] <= v[i] /\ v[i] \in Nat /\ items[i] \in QuoteItem
    BY <1>2, <1>3, ValueNat
  <2>3. v[i] - p[i] \in Nat
    BY <2>2
  <2> HIDE DEF lines, v, p
  <2>4. lines[i] \in OrderItem
    BY <2>1, <2>2, <2>3 DEF OrderItem, QuoteItem
  <2>5. Value(lines[i]) = Value(items[i])
    BY <2>1 DEF Value
  <2> QED
    BY <1>3, <2>1, <2>4, <2>5
<1> HIDE DEF lines, p, v
<1>8. lines \in Seq(OrderItem)
  <2>1. lines = [i \in 1..Len(items) |-> lines[i]]
    BY <1>1, <1>6 DEF lines, OrderItems
  <2> QED
    BY <1>1, <1>7, <2>1, IsASeq
<1>9. SumFunction([i \in DOMAIN lines |-> lines[i].credit]) = credit
  <2> DEFINE f == [i \in DOMAIN lines |-> lines[i].credit]
  <2>1. SumFunction(f) = SumFunctionOnSet(f, DOMAIN items)
    BY <1>6, SumOfFunction
  <2>2. \A i \in DOMAIN items : f[i] \in Int /\ f[i] = p[i]
    BY <1>2, <1>6, <1>7
  <2> HIDE DEF f
  <2>3. SumFunctionOnSet(f, DOMAIN items) = SumFunctionOnSet(p, DOMAIN items)
    BY <1>1, <2>2, SumSame
  <2> QED
    BY <1>5, <2>1, <2>3 DEF f
<1>10. SumFunction([i \in DOMAIN lines |-> lines[i].cash]) = Total(items) - credit
  <2> DEFINE f == [i \in DOMAIN lines |-> lines[i].cash]
  <2>1. SumFunction(f) = SumFunctionOnSet(f, DOMAIN items)
    BY <1>6, SumOfFunction
  <2>2. \A i \in DOMAIN items : f[i] \in Int /\ p[i] \in Int /\ v[i] = f[i] + p[i]
    BY <1>2, <1>3, <1>6, <1>7
  <2> HIDE DEF f
  <2>3. SumFunctionOnSet(v, DOMAIN items)
          = SumFunctionOnSet(f, DOMAIN items) + SumFunctionOnSet(p, DOMAIN items)
    BY <1>1, <2>2, SumPlus
  <2>4. SumFunctionOnSet(f, DOMAIN items) \in Int
    BY <1>1, <2>2, SumInt DEF IntOn
  <2>5. SumFunctionOnSet(f, DOMAIN items) = Total(items) - credit
    BY <1>4, <1>5, <2>3, <2>4
  <2> QED
    BY <2>1, <2>5 DEF f
<1>11. \A i \in DOMAIN items : lines[i].cash + lines[i].credit = Value(lines[i])
  BY <1>2, <1>3, <1>7
<1> QED
  BY <1>3, <1>6, <1>7, <1>8, <1>9, <1>10, <1>11 DEF lines

-----------------------------------------------------------------------------
(* The invariant of the purchases *)

CartsOnce == \A b \in Accounts : ProductsOnce(cart[b])

\* A quote asks for what its lines cost, and has one line per product.
QuotesWhole ==
    \A q \in QuoteIds : ProductsOnce(quote[q].items) /\ quote[q].total = Total(quote[q].items)

\* Units come back to an offer that exists; nothing is refunded before the goods
\* were received; credit was paid from some grant.
Backed(d) ==
    /\ \A i \in DOMAIN d.items : d.state # "COLLECTED" => d.items[i].refunded = 0
    /\ d.grant = NoGrantId => d.credit = 0

OffersKept == \A o \in OrderIds : \A i \in DOMAIN order[o].items :
                 offer[order[o].items[i].offer] # NoOffer
OrdersBacked == OffersKept /\ \A o \in OrderIds : Backed(order[o])

GrantsCovered == \A g \in GrantIds : grant[g].available >= 0

PInv == /\ FInv /\ PurchaseTypeOK
        /\ CartsOnce /\ QuotesWhole /\ OrdersBacked /\ GrantsCovered
        /\ OrdersFunded /\ OrderMoney /\ CreditConserved

\* OrdersFunded and OrderMoney, of one document.
Funded(d) ==
    /\ \A i \in DOMAIN d.items : /\ d.items[i].cash + d.items[i].credit = Value(d.items[i])
                                 /\ d.items[i].refunded \in 0..d.items[i].quantity
    /\ SumFunction([i \in DOMAIN d.items |-> d.items[i].cash]) = d.cash
    /\ SumFunction([i \in DOMAIN d.items |-> d.items[i].credit]) = d.credit
    /\ d.cash + d.credit = d.total

Open(d) == IF d.state = "CANCELLED" THEN {} ELSE DOMAIN d.items

Held(d, cash, credit) ==
    /\ cash = SumFunction([i \in Open(d) |-> d.items[i].cash - RefundedCash(d.items[i])])
    /\ credit = SumFunction([i \in Open(d) |-> d.items[i].credit - RefundedCredit(d.items[i])])
    /\ cash >= 0 /\ credit >= 0

LEMMA FundedEach == OrdersFunded <=> \A o \in OrderIds : Funded(order[o])
  BY DEF OrdersFunded, Funded

LEMMA HeldEach ==
    OrderMoney <=> \A o \in OrderIds : Held(order[o], balance[OrderCash(o)], balance[OrderCredit(o)])
  BY DEF OrderMoney, Held, Open

-----------------------------------------------------------------------------
(* The ledger of orders *)

LEMMA OrderAccount ==
    \A o \in OrderIds : OrderCash(o) \in LedgerAccounts /\ OrderCredit(o) \in LedgerAccounts
  BY DEF LedgerAccounts

LEMMA OrderAccountDistinct ==
    \A o, x : /\ OrderCash(o) # ApprovedSource /\ OrderCredit(o) # ApprovedSource
              /\ OrderCash(o) # ProgramAvailable(x) /\ OrderCredit(o) # ProgramAvailable(x)
              /\ OrderCash(o) # HouseholdCredit(x) /\ OrderCredit(o) # HouseholdCredit(x)
              /\ OrderCash(o) # BuyerCash(x) /\ OrderCredit(o) # BuyerCash(x)
              /\ OrderCash(o) # WithdrawalHold(x) /\ OrderCredit(o) # WithdrawalHold(x)
              /\ OrderCash(o) # OrderCredit(x)
              /\ OrderCash(o) = OrderCash(x) => o = x
              /\ OrderCredit(o) = OrderCredit(x) => o = x
  BY DEF ApprovedSource, ProgramAvailable, HouseholdCredit, BuyerCash, WithdrawalHold,
         OrderCash, OrderCredit

LEMMA TransferMoves ==
    \A b \in [LedgerAccounts -> Int], d, c \in LedgerAccounts, m \in Int :
       d # c =>
          /\ Transfer(b, d, c, m) \in [LedgerAccounts -> Int]
          /\ Transfer(b, d, c, m)[d] = b[d] - m
          /\ Transfer(b, d, c, m)[c] = b[c] + m
          /\ \A x \in LedgerAccounts \ {d, c} : Transfer(b, d, c, m)[x] = b[x]
  BY DEF Transfer

LEMMA TransferBack ==
    ASSUME NEW b \in [LedgerAccounts -> Int], NEW d \in LedgerAccounts, NEW c \in LedgerAccounts,
           d # c, NEW m \in Int
    PROVE  Transfer(b, d, c, m) = Transfer(b, c, d, -m)
<1>1. -m \in Int /\ (-m = 0 <=> m = 0) /\ \A n \in Int : n - (-m) = n + m /\ n + (-m) = n - m
  OBVIOUS
<1>2. CASE m = 0
  BY <1>1, <1>2 DEF Transfer
<1>3. CASE m # 0
  <2> DEFINE f == [b EXCEPT ![d] = @ - m, ![c] = @ + m]
             h == [b EXCEPT ![c] = @ - (-m), ![d] = @ + (-m)]
  <2>1. Transfer(b, d, c, m) = f /\ Transfer(b, c, d, -m) = h
    BY <1>1, <1>3 DEF Transfer
  <2>2. \A x \in LedgerAccounts : f[x] = h[x]
    BY <1>1
  <2>3. f = [x \in LedgerAccounts |-> f[x]] /\ h = [x \in LedgerAccounts |-> h[x]]
    OBVIOUS
  <2> HIDE DEF f, h
  <2> QED
    BY <2>1, <2>2, <2>3
<1> QED
  BY <1>2, <1>3

\* Only the two accounts of a transfer change, whatever the amount.
LEMMA TransferElse ==
    ASSUME NEW b \in [LedgerAccounts -> Int], NEW d, NEW c, NEW m, NEW x \in LedgerAccounts,
           x # d, x # c
    PROVE  Transfer(b, d, c, m)[x] = b[x]
  BY DEF Transfer

\* Money moves into an order from its buyer's wallet and from a grant; a refund
\* moves it back, as a negative amount.
Moves(o, a, g, cash, credit) ==
    /\ wallet' \in [Accounts -> Nat]
    /\ \A x \in Accounts : wallet'[x] = IF x = a THEN wallet[x] - cash ELSE wallet[x]
    /\ grant' \in [GrantIds -> Grant]
    /\ \A h \in GrantIds :
          /\ grant'[h].granted = grant[h].granted
          /\ grant'[h].available = IF h = g THEN grant[h].available - credit ELSE grant[h].available
    /\ balance' \in [LedgerAccounts -> Int]
    /\ \A x \in Accounts :
          balance'[BuyerCash(x)] = IF x = a THEN balance[BuyerCash(x)] - cash ELSE balance[BuyerCash(x)]
    /\ \A h \in GrantIds :
          balance'[HouseholdCredit(h)] = IF h = g THEN balance[HouseholdCredit(h)] - credit
                                         ELSE balance[HouseholdCredit(h)]
    /\ \A x \in OrderIds :
          /\ balance'[OrderCash(x)] = IF x = o THEN balance[OrderCash(x)] + cash
                                      ELSE balance[OrderCash(x)]
          /\ balance'[OrderCredit(x)] = IF x = o THEN balance[OrderCredit(x)] + credit
                                        ELSE balance[OrderCredit(x)]
    /\ \A p \in Programs : balance'[ProgramAvailable(p)] = balance[ProgramAvailable(p)]
    /\ \A w \in Withdrawals : balance'[WithdrawalHold(w)] = balance[WithdrawalHold(w)]
    /\ UNCHANGED <<now, program, link, members, withdrawal>>

LEMMA MovesReconciled ==
    ASSUME FInv, NEW o, NEW a \in Accounts, NEW g, NEW cash \in Int, NEW credit \in Int,
           Moves(o, a, g, cash, credit)
    PROVE  FInv'
<1>1. FundsTypeOK'
  BY DEF FInv, FundsTypeOK, Moves
<1>2. Owned'
  BY DEF FInv, Owned, Moves
<1>3. ASSUME NEW x \in Accounts PROVE wallet'[x] = InitialCash[x] + balance'[BuyerCash(x)]
  <2>1. /\ wallet[x] = InitialCash[x] + balance[BuyerCash(x)]
        /\ InitialCash[x] \in Int /\ balance[BuyerCash(x)] \in Int
    BY FundsAssumption, LedgerAccount DEF FInv, FundsTypeOK, Reconciled, WalletsReconciled
  <2>2. wallet'[x] = (IF x = a THEN wallet[x] - cash ELSE wallet[x])
        /\ balance'[BuyerCash(x)] = IF x = a THEN balance[BuyerCash(x)] - cash
                                    ELSE balance[BuyerCash(x)]
    BY DEF Moves
  <2> QED
    BY <2>1, <2>2
<1>4. ASSUME NEW h \in GrantIds PROVE grant'[h].available = balance'[HouseholdCredit(h)]
  BY DEF FInv, Reconciled, GrantsReconciled, Moves
<1>5. ProgramsReconciled' /\ HoldsReconciled'
  BY DEF FInv, Reconciled, ProgramsReconciled, HoldsReconciled, Moves
<1> QED
  BY <1>1, <1>2, <1>3, <1>4, <1>5 DEF FInv, Reconciled, WalletsReconciled, GrantsReconciled

\* The balances after the two transfers of a purchase.
LEMMA PurchaseTransfers ==
    ASSUME balance \in [LedgerAccounts -> Int],
           NEW o \in OrderIds, NEW a \in Accounts, NEW g, NEW cash \in Int, NEW credit \in Int,
           g \in GrantIds \/ credit = 0,
           balance' = Transfer(Transfer(balance, BuyerCash(a), OrderCash(o), cash),
                               HouseholdCredit(g), OrderCredit(o), credit)
    PROVE  /\ balance' \in [LedgerAccounts -> Int]
           /\ \A x \in Accounts :
                 balance'[BuyerCash(x)] = IF x = a THEN balance[BuyerCash(x)] - cash
                                          ELSE balance[BuyerCash(x)]
           /\ \A h \in GrantIds :
                 balance'[HouseholdCredit(h)] = IF h = g THEN balance[HouseholdCredit(h)] - credit
                                                ELSE balance[HouseholdCredit(h)]
           /\ \A x \in OrderIds :
                 /\ balance'[OrderCash(x)] = IF x = o THEN balance[OrderCash(x)] + cash
                                             ELSE balance[OrderCash(x)]
                 /\ balance'[OrderCredit(x)] = IF x = o THEN balance[OrderCredit(x)] + credit
                                               ELSE balance[OrderCredit(x)]
           /\ \A p \in Programs : balance'[ProgramAvailable(p)] = balance[ProgramAvailable(p)]
           /\ \A w \in Withdrawals : balance'[WithdrawalHold(w)] = balance[WithdrawalHold(w)]
<1> DEFINE B == BuyerCash(a)
           C == OrderCash(o)
           H == HouseholdCredit(g)
           K == OrderCredit(o)
           mid == Transfer(balance, B, C, cash)
<1>1. /\ B \in LedgerAccounts /\ C \in LedgerAccounts /\ K \in LedgerAccounts
      /\ B # C /\ B # K /\ C # K /\ H # K /\ H # B /\ H # C
  BY LedgerAccount, LedgerDistinct, OrderAccount, OrderAccountDistinct
<1> HIDE DEF B, C, H, K
<1>2. /\ mid \in [LedgerAccounts -> Int]
      /\ mid[B] = balance[B] - cash /\ mid[C] = balance[C] + cash
      /\ \A x \in LedgerAccounts \ {B, C} : mid[x] = balance[x]
  <2>1. mid \in [LedgerAccounts -> Int]
    BY <1>1, TransferMoves
  <2>2. mid[B] = balance[B] - cash
    BY <1>1, TransferMoves
  <2>3. mid[C] = balance[C] + cash
    BY <1>1, TransferMoves
  <2>4. \A x \in LedgerAccounts \ {B, C} : mid[x] = balance[x]
    BY <1>1, TransferMoves
  <2> QED
    BY <2>1, <2>2, <2>3, <2>4
<1>3. balance' = Transfer(mid, H, K, credit)
  BY DEF B, C, H, K
<1> HIDE DEF mid
<1>4. /\ balance' \in [LedgerAccounts -> Int]
      /\ balance'[K] = mid[K] + credit
      /\ \A x \in LedgerAccounts \ {H, K} : balance'[x] = mid[x]
      /\ g \in GrantIds => balance'[H] = mid[H] - credit
  <2>1. CASE g \in GrantIds
    <3>1. H \in LedgerAccounts
      BY <2>1, LedgerAccount DEF H
    <3>2. balance' \in [LedgerAccounts -> Int]
      <4>1. mid \in [LedgerAccounts -> Int] /\ H \in LedgerAccounts /\ K \in LedgerAccounts
            /\ H # K /\ credit \in Int
        BY <1>1, <1>2, <3>1
      <4>2. Transfer(mid, H, K, credit) \in [LedgerAccounts -> Int]
        BY ONLY <4>1, TransferMoves
      <4> QED
        BY <1>3, <4>2
    <3>3. balance'[K] = mid[K] + credit
      BY <1>1, <1>2, <1>3, <3>1, TransferMoves
    <3>4. balance'[H] = mid[H] - credit
      BY <1>1, <1>2, <1>3, <3>1, TransferMoves
    <3>5. \A x \in LedgerAccounts \ {H, K} : balance'[x] = mid[x]
      BY <1>1, <1>2, <1>3, <3>1, TransferMoves
    <3> QED
      BY <3>2, <3>3, <3>4, <3>5
  <2>2. CASE g \notin GrantIds
    <3>1. credit = 0 /\ balance' = mid
      BY <1>3, <2>2 DEF Transfer
    <3> QED
      BY <1>1, <1>2, <2>2, <3>1
  <2> QED
    BY <2>1, <2>2
<1>5. /\ balance'[B] = balance[B] - cash /\ balance'[C] = balance[C] + cash
      /\ balance'[K] = balance[K] + credit
      /\ \A x \in LedgerAccounts \ {B, C, H, K} : balance'[x] = balance[x]
      /\ g \in GrantIds => balance'[H] = balance[H] - credit
  <2>1. g \in GrantIds => H \in LedgerAccounts
    BY LedgerAccount DEF H
  <2> QED
    BY <1>1, <1>2, <1>4, <2>1
<1>6. \A x \in Accounts : x # a => BuyerCash(x) \in LedgerAccounts \ {B, C, H, K}
  BY LedgerAccount, LedgerDistinct, OrderAccountDistinct DEF B, C, H, K
<1>7. \A h \in GrantIds : h # g => HouseholdCredit(h) \in LedgerAccounts \ {B, C, H, K}
  BY LedgerAccount, LedgerDistinct, OrderAccountDistinct DEF B, C, H, K
<1>8. \A x \in OrderIds : x # o => /\ OrderCash(x) \in LedgerAccounts \ {B, C, H, K}
                                 /\ OrderCredit(x) \in LedgerAccounts \ {B, C, H, K}
  BY OrderAccount, OrderAccountDistinct DEF B, C, H, K
<1>9. /\ \A p \in Programs : ProgramAvailable(p) \in LedgerAccounts \ {B, C, H, K}
      /\ \A w \in Withdrawals : WithdrawalHold(w) \in LedgerAccounts \ {B, C, H, K}
  BY LedgerAccount, LedgerDistinct, OrderAccountDistinct DEF B, C, H, K
<1>10. \A x \in Accounts :
          balance'[BuyerCash(x)] = IF x = a THEN balance[BuyerCash(x)] - cash
                                   ELSE balance[BuyerCash(x)]
  BY <1>5, <1>6 DEF B
<1>11. \A h \in GrantIds :
          balance'[HouseholdCredit(h)] = IF h = g THEN balance[HouseholdCredit(h)] - credit
                                         ELSE balance[HouseholdCredit(h)]
  BY <1>5, <1>7 DEF H
<1>12. \A x \in OrderIds :
          /\ balance'[OrderCash(x)] = IF x = o THEN balance[OrderCash(x)] + cash
                                      ELSE balance[OrderCash(x)]
          /\ balance'[OrderCredit(x)] = IF x = o THEN balance[OrderCredit(x)] + credit
                                        ELSE balance[OrderCredit(x)]
  BY <1>5, <1>8 DEF C, K
<1> QED
  BY <1>4, <1>5, <1>9, <1>10, <1>11, <1>12

\* A refund's transfers are a purchase's, backwards.
LEMMA RefundTransfers ==
    ASSUME balance \in [LedgerAccounts -> Int],
           NEW o \in OrderIds, NEW a \in Accounts, NEW g, NEW cash \in Int, NEW credit \in Int,
           g \in GrantIds \/ credit = 0
    PROVE  Transfer(Transfer(balance, OrderCash(o), BuyerCash(a), cash),
                    OrderCredit(o), HouseholdCredit(g), credit)
             = Transfer(Transfer(balance, BuyerCash(a), OrderCash(o), -cash),
                        HouseholdCredit(g), OrderCredit(o), -credit)
<1>1. /\ BuyerCash(a) \in LedgerAccounts /\ OrderCash(o) \in LedgerAccounts
      /\ OrderCredit(o) \in LedgerAccounts /\ BuyerCash(a) # OrderCash(o)
      /\ OrderCredit(o) # HouseholdCredit(g)
      /\ g \in GrantIds => HouseholdCredit(g) \in LedgerAccounts
  BY LedgerAccount, LedgerDistinct, OrderAccount, OrderAccountDistinct
<1> DEFINE mid == Transfer(balance, OrderCash(o), BuyerCash(a), cash)
<1>2. mid = Transfer(balance, BuyerCash(a), OrderCash(o), -cash) /\ mid \in [LedgerAccounts -> Int]
  <2>1. mid \in [LedgerAccounts -> Int]
    BY <1>1, TransferMoves
  <2> QED
    BY <1>1, <2>1, TransferBack
<1> HIDE DEF mid
<1>3. Transfer(mid, OrderCredit(o), HouseholdCredit(g), credit)
        = Transfer(mid, HouseholdCredit(g), OrderCredit(o), -credit)
  <2>1. CASE g \in GrantIds
    <3>1. HouseholdCredit(g) \in LedgerAccounts
      BY <1>1, <2>1
    <3> QED
      BY <1>1, <1>2, <3>1, TransferBack
  <2>2. CASE credit = 0
    <3>1. -credit = 0
      <4>1. -credit = 0 <=> credit = 0
        OBVIOUS
      <4> QED
        BY <2>2, <4>1
    <3> QED
      BY <2>2, <3>1 DEF Transfer
  <2> QED
    BY <2>1, <2>2
<1> QED
  BY <1>2, <1>3 DEF mid

-----------------------------------------------------------------------------
(* The support that orders hold of a grant *)

HeldOf(orders, b, g) == [o \in OrderIds |-> IF orders[o].grant = g THEN b[OrderCredit(o)] ELSE 0]

LEMMA HeldOfSum ==
    ASSUME NEW orders, NEW b \in [LedgerAccounts -> Int], NEW g
    PROVE  /\ SumFunction([o \in {x \in OrderIds : orders[x].grant = g} |-> b[OrderCredit(o)]])
                = SumFunctionOnSet(HeldOf(orders, b, g), OrderIds)
           /\ \A o \in OrderIds : HeldOf(orders, b, g)[o] \in Int
           /\ SumFunctionOnSet(HeldOf(orders, b, g), OrderIds) \in Int
<1> DEFINE D == {x \in OrderIds : orders[x].grant = g}
           f == [o \in D |-> b[OrderCredit(o)]]
           h == HeldOf(orders, b, g)
<1>1. IsFiniteSet(OrderIds) /\ IsFiniteSet(D) /\ IsFiniteSet(OrderIds \ D)
  BY LedgerAssumption, FS_Subset
<1>2. \A o \in OrderIds : b[OrderCredit(o)] \in Int
  BY OrderAccount
<1>3. /\ \A o \in D : f[o] \in Int /\ f[o] = h[o]
      /\ \A o \in OrderIds \ D : h[o] = 0
      /\ \A o \in OrderIds : h[o] \in Int
  BY <1>2 DEF HeldOf
<1>4. SumFunction(f) = SumFunctionOnSet(f, D)
  BY SumOfFunction
<1>5. D \cap (OrderIds \ D) = {} /\ D \cup (OrderIds \ D) = OrderIds
  OBVIOUS
<1> HIDE DEF D, f, h
<1>6. SumFunctionOnSet(f, D) = SumFunctionOnSet(h, D)
  BY <1>1, <1>3, SumSame
<1>7. SumFunctionOnSet(h, OrderIds \ D) = 0
  BY <1>1, <1>3, SumZero
<1>8. SumFunctionOnSet(h, OrderIds) = SumFunctionOnSet(h, D) + SumFunctionOnSet(h, OrderIds \ D)
  <2>1. IntOn(h, D \cup (OrderIds \ D))
    BY <1>3, <1>5 DEF IntOn
  <2> QED
    BY <1>1, <1>5, <2>1, SumSplit
<1>9. SumFunctionOnSet(h, OrderIds) \in Int /\ SumFunctionOnSet(h, D) \in Int
  <2>1. IntOn(h, OrderIds) /\ IntOn(h, D)
    BY <1>3, <1>5 DEF IntOn
  <2> QED
    BY <1>1, <2>1, SumInt
<1>10. SumFunction(f) = SumFunctionOnSet(h, OrderIds)
  BY <1>4, <1>6, <1>7, <1>8, <1>9
<1> QED
  BY <1>3, <1>9, <1>10 DEF D, f, h

\* The same money, counted by grant.
GrantBacked(orders, b, gr, g) ==
    gr[g].available + SumFunctionOnSet(HeldOf(orders, b, g), OrderIds) = gr[g].granted

LEMMA ConservedEach ==
    ASSUME balance \in [LedgerAccounts -> Int]
    PROVE  CreditConserved <=> \A g \in GrantIds : GrantBacked(order, balance, grant, g)
  BY HeldOfSum DEF CreditConserved, GrantBacked

LEMMA ConservedEachNext ==
    ASSUME balance' \in [LedgerAccounts -> Int]
    PROVE  CreditConserved' <=> \A g \in GrantIds : GrantBacked(order', balance', grant', g)
  BY HeldOfSum DEF CreditConserved, GrantBacked

LEMMA MovesConserved ==
    ASSUME FInv, CreditConserved, NEW o \in OrderIds, NEW a, NEW g, NEW cash, NEW credit \in Int,
           Moves(o, a, g, cash, credit),
           \A x \in OrderIds : x # o => order'[x].grant = order[x].grant,
           order'[o].grant = g,
           \/ order[o].grant = g
           \/ order[o].grant \notin GrantIds /\ balance[OrderCredit(o)] = 0
    PROVE  CreditConserved'
<1>1. balance \in [LedgerAccounts -> Int] /\ balance' \in [LedgerAccounts -> Int]
  BY DEF FInv, FundsTypeOK, Moves
<1>2. \A x \in OrderIds : balance'[OrderCredit(x)] = IF x = o THEN balance[OrderCredit(x)] + credit
                                                       ELSE balance[OrderCredit(x)]
  BY DEF Moves
<1>3. balance[OrderCredit(o)] \in Int
  BY <1>1, OrderAccount
<1>4. ASSUME NEW h \in GrantIds PROVE GrantBacked(order', balance', grant', h)
  <2> DEFINE old == HeldOf(order, balance, h)
             new == HeldOf(order', balance', h)
  <2>1. IntOn(old, OrderIds) /\ IntOn(new, OrderIds) /\ IsFiniteSet(OrderIds)
    BY <1>1, HeldOfSum, LedgerAssumption DEF IntOn
  <2>2. \A x \in OrderIds : x # o => new[x] = old[x]
    BY <1>2 DEF HeldOf
  <2>3. new[o] - old[o] = IF h = g THEN credit ELSE 0
    BY <1>2, <1>3 DEF HeldOf
  <2>4. SumFunctionOnSet(old, OrderIds) \in Int
    BY <1>1, HeldOfSum
  <2> HIDE DEF old, new
  <2>5. SumFunctionOnSet(new, OrderIds) = SumFunctionOnSet(old, OrderIds) + (new[o] - old[o])
    BY <2>1, <2>2, SumUpdate
  <2>6. grant[h].available + SumFunctionOnSet(old, OrderIds) = grant[h].granted
    BY <1>1, ConservedEach DEF GrantBacked, old
  <2>7. grant[h].available \in Int
    BY DEF FInv, FundsTypeOK, Grant
  <2>8. /\ grant'[h].granted = grant[h].granted
        /\ grant'[h].available = IF h = g THEN grant[h].available - credit ELSE grant[h].available
    BY DEF Moves
  <2>9. grant'[h].available + SumFunctionOnSet(new, OrderIds) = grant'[h].granted
    BY <2>3, <2>4, <2>5, <2>6, <2>7, <2>8
  <2> QED
    BY <2>9 DEF GrantBacked, new
<1> QED
  BY <1>1, <1>4, ConservedEachNext

-----------------------------------------------------------------------------
(* Commands of Funds leave what orders hold alone *)

LEMMA FundsKeepOrders ==
    ASSUME FInv, [FundsNext]_fundsVars, NEW x \in LedgerAccounts,
           \/ \E o \in OrderIds : x = OrderCash(o)
           \/ \E o \in OrderIds : x = OrderCredit(o)
    PROVE  balance'[x] = balance[x]
<1> USE DEF FInv, FundsTypeOK
<1>1. /\ x # ApprovedSource
      /\ \A y : /\ x # ProgramAvailable(y) /\ x # HouseholdCredit(y)
                /\ x # BuyerCash(y) /\ x # WithdrawalHold(y)
  BY OrderAccountDistinct
<1>2. ASSUME NEW p \in Programs, NEW amount \in FundAmounts, NEW term \in ProgramTerms,
             CreateProgram(p, amount, term)
      PROVE  balance'[x] = balance[x]
  BY <1>1, <1>2, TransferElse DEF CreateProgram
<1>3. ASSUME NEW p \in Programs, NEW pool \in Pools, NEW S \in SUBSET Accounts,
             NEW weight \in [S -> Weights], Allocate(p, pool, weight)
      PROVE  balance'[x] = balance[x]
  BY <1>1, <1>3 DEF Allocate
<1>4. ASSUME NEW w \in Withdrawals, NEW a \in Accounts, NEW amount \in WithdrawAmounts,
             Withdraw(w, a, amount)
      PROVE  balance'[x] = balance[x]
  BY <1>1, <1>4, TransferElse DEF Withdraw
<1>5. ASSUME NEW w \in Withdrawals, CancelWithdrawal(w)
      PROVE  balance'[x] = balance[x]
  BY <1>1, <1>5, TransferElse DEF CancelWithdrawal
<1>6. CASE UNCHANGED balance
  BY <1>6
<1> QED
  BY <1>2, <1>3, <1>4, <1>5, <1>6
  DEF FundsNext, fundsVars, creditVars, LinkHousehold, GrantMembership, RevokeMembership,
      AssessWithdrawals, Tick

LEMMA FundsConserve ==
    ASSUME FInv, CreditConserved, GrantsCovered, [FundsNext]_fundsVars, UNCHANGED order
    PROVE  CreditConserved' /\ GrantsCovered'
<1>1. FInv'
  BY FundsStep
<1>2. balance \in [LedgerAccounts -> Int] /\ balance' \in [LedgerAccounts -> Int]
  BY <1>1 DEF FInv, FundsTypeOK
<1>3. \A g \in GrantIds : HeldOf(order', balance', g) = HeldOf(order, balance, g)
  <2>1. \A o \in OrderIds : balance'[OrderCredit(o)] = balance[OrderCredit(o)]
    BY FundsKeepOrders, OrderAccount
  <2> QED
    BY <2>1 DEF HeldOf
<1>4. ASSUME NEW g \in GrantIds
      PROVE  /\ grant'[g].available >= 0
             /\ GrantBacked(order', balance', grant', g)
  <2>1. GrantBacked(order, balance, grant, g) /\ grant[g].available >= 0
    BY <1>2, ConservedEach DEF GrantsCovered
  <2>2. CASE grant'[g] = grant[g]
    BY <1>3, <2>1, <2>2 DEF GrantBacked
  <2>3. ASSUME grant[g].available = 0, grant[g].granted = 0,
               grant'[g].available \in Nat, grant'[g].granted = grant'[g].available
        PROVE  grant'[g].available >= 0 /\ GrantBacked(order', balance', grant', g)
    <3>1. PICK n \in Int : n = SumFunctionOnSet(HeldOf(order, balance, g), OrderIds)
      BY <1>2, HeldOfSum
    <3>2. 0 + n = 0
      BY <2>1, <2>3, <3>1 DEF GrantBacked
    <3>3. grant'[g].available + n = grant'[g].granted
      BY <2>3, <3>2
    <3> QED
      BY <1>3, <2>3, <3>1, <3>3 DEF GrantBacked
  <2>4. ASSUME NEW p \in Programs, NEW pool \in Pools, NEW S \in SUBSET Accounts,
               NEW weight \in [S -> Weights], Allocate(p, pool, weight), grant'[g] # grant[g]
        PROVE  /\ grant[g].available = 0 /\ grant[g].granted = 0
               /\ grant'[g].available \in Nat /\ grant'[g].granted = grant'[g].available
    <3>1. g[1] = p /\ g[2] \in S
      BY <2>4 DEF Allocate
    <3>2. grant[g] = NoGrant
      BY <2>4, <3>1 DEF Allocate, Eligible, GrantExists
    <3>3. /\ grant'[g].granted = Shares(pool, weight)[g[2]]
          /\ grant'[g].available = Shares(pool, weight)[g[2]]
          /\ Shares(pool, weight)[g[2]] \in 0..MaxRial
      BY <2>4, <3>1 DEF Allocate
    <3> QED
      BY <3>2, <3>3, FundsAssumption DEF NoGrant
  <2>5. CASE UNCHANGED grant
    BY <2>2, <2>5
  <2> QED
    BY <2>2, <2>3, <2>4, <2>5, GrantsKept
<1> QED
  BY <1>2, <1>4, ConservedEachNext DEF GrantsCovered

-----------------------------------------------------------------------------
(* Offers, carts, addresses and quotes *)

LEMMA PurchaseInitInv == FundsInit /\ PurchaseInit => PInv
<1> SUFFICES ASSUME FundsInit, PurchaseInit PROVE PInv
  OBVIOUS
<1>1. FInv
  BY FundsInitInv
<1>2. PurchaseTypeOK
  BY DEF PurchaseInit, PurchaseTypeOK
<1>3. /\ \A a \in Accounts : cart[a] = <<>>
      /\ \A q \in QuoteIds : quote[q].items = <<>> /\ quote[q].total = 0
      /\ \A o \in OrderIds : order[o] = NoOrder /\ order[o].items = <<>>
      /\ \A g \in GrantIds : grant[g] = NoGrant
      /\ balance = [x \in LedgerAccounts |-> 0]
  BY DEF PurchaseInit, FundsInit, NoQuote, NoOrder
<1>4. DOMAIN <<>> = {}
  OBVIOUS
<1>5. \A f : DOMAIN f = {} => SumFunction(f) = 0
  BY SumOfFunction, SumEmpty
<1>6. CartsOnce
  BY <1>3, <1>4 DEF CartsOnce, ProductsOnce
<1>7. QuotesWhole
  BY <1>3, <1>4, <1>5 DEF QuotesWhole, ProductsOnce, Total
<1>8. OrdersBacked
  BY <1>3, <1>4 DEF OrdersBacked, OffersKept, Backed, NoOrder
<1>9. GrantsCovered
  BY <1>3 DEF GrantsCovered, NoGrant
<1>10. ASSUME NEW o \in OrderIds PROVE Funded(order[o])
  <2>1. /\ DOMAIN [i \in DOMAIN order[o].items |-> order[o].items[i].cash] = {}
        /\ DOMAIN [i \in DOMAIN order[o].items |-> order[o].items[i].credit] = {}
    BY <1>3, <1>4
  <2> QED
    BY <1>3, <1>4, <1>5, <2>1 DEF Funded, NoOrder
<1>11. ASSUME NEW o \in OrderIds PROVE Held(order[o], balance[OrderCash(o)], balance[OrderCredit(o)])
  <2>1. Open(order[o]) = {}
    BY <1>3, <1>4 DEF Open
  <2>2. balance[OrderCash(o)] = 0 /\ balance[OrderCredit(o)] = 0
    BY <1>3, OrderAccount
  <2> QED
    BY <1>5, <2>1, <2>2 DEF Held
<1>12. CreditConserved
  <2>1. balance \in [LedgerAccounts -> Int] /\ IsFiniteSet(OrderIds)
    BY <1>3, LedgerAssumption
  <2>2. ASSUME NEW g \in GrantIds PROVE GrantBacked(order, balance, grant, g)
    <3>1. \A o \in OrderIds : HeldOf(order, balance, g)[o] = 0
      BY <1>3, OrderAccount DEF HeldOf
    <3>2. SumFunctionOnSet(HeldOf(order, balance, g), OrderIds) = 0
      BY <2>1, <3>1, SumZero
    <3> QED
      BY <1>3, <3>2 DEF GrantBacked, NoGrant
  <2> QED
    BY <2>1, <2>2, ConservedEach
<1> QED
  BY <1>1, <1>2, <1>6, <1>7, <1>8, <1>9, <1>10, <1>11, <1>12, FundedEach, HeldEach DEF PInv

\* An offer that orders refer to stays when no offer disappears.
LEMMA OffersStay ==
    ASSUME PInv, \A f \in OfferIds : offer[f] # NoOffer => offer'[f] # NoOffer,
           \A o \in OrderIds : order'[o].items = order[o].items
    PROVE  OffersKept'
<1>1. ASSUME NEW o \in OrderIds, NEW i \in DOMAIN order[o].items
      PROVE  offer'[order[o].items[i].offer] # NoOffer
  <2>1. offer[order[o].items[i].offer] # NoOffer
    BY DEF PInv, OrdersBacked, OffersKept
  <2>2. order[o].items[i].offer \in OfferIds
    <3>1. order[o] \in Order \cup {NoOrder}
      BY DEF PInv, PurchaseTypeOK
    <3>2. order[o] \in Order
      BY <3>1 DEF NoOrder
    <3>3. order[o].items[i] \in OrderItem
      BY <3>2, ElementOfSeq DEF Order
    <3> QED
      BY <3>3 DEF OrderItem
  <2> QED
    BY <2>1, <2>2
<1> QED
  BY <1>1 DEF OffersKept

\* Commands that leave the money and the orders alone.
LEMMA OrdersUntouched ==
    ASSUME PInv, UNCHANGED <<fundsVars, order>>, PurchaseTypeOK', CartsOnce', QuotesWhole',
           \A f \in OfferIds : offer[f] # NoOffer => offer'[f] # NoOffer
    PROVE  PInv'
<1> USE DEF PInv
<1>1. UNCHANGED <<now, wallet, program, grant, link, members, withdrawal, balance, order>>
  BY DEF fundsVars
<1>2. FInv'
  <2>1. UNCHANGED fundsVars
    OBVIOUS
  <2> QED
    BY <2>1, FundsStep
<1>3. GrantsCovered' /\ OrdersFunded' /\ OrderMoney' /\ CreditConserved'
  BY <1>1 DEF GrantsCovered, OrdersFunded, OrderMoney, CreditConserved
<1>4. OrdersBacked'
  <2>1. OffersKept'
    BY <1>1, OffersStay
  <2> QED
    BY <1>1, <2>1 DEF OrdersBacked
<1> QED
  BY <1>2, <1>3, <1>4

LEMMA StandingStep ==
    ASSUME PInv,
           \/ \E s \in Sellers : SellerStanding(s)
           \/ \E p \in Products : CatalogState(p)
           \/ \E b \in Accounts, city \in Cities : SaveAddress(b, city)
    PROVE  PInv'
<1>1. /\ UNCHANGED <<fundsVars, order, offer, cart, quote>>
      /\ active' \subseteq Sellers /\ published' \subseteq Products
      /\ address' \in [Accounts -> Cities \cup {NoCity}]
  BY DEF PInv, PurchaseTypeOK, SellerStanding, CatalogState, SaveAddress, marketVars
<1>2. PurchaseTypeOK' /\ CartsOnce' /\ QuotesWhole'
  BY <1>1 DEF PInv, PurchaseTypeOK, CartsOnce, QuotesWhole
<1> QED
  BY <1>1, <1>2, OrdersUntouched

LEMMA SaveOfferStep ==
    ASSUME PInv, NEW s \in Sellers, NEW f \in OfferIds, NEW p \in Products,
           NEW price \in Prices, NEW stock \in Stocks, SaveOffer(s, f, p, price, stock)
    PROVE  PInv'
<1> DEFINE old == {e \in OfferIds : offer[e].seller = s /\ offer[e].product = p}
           version == IF old = {} THEN 1 ELSE offer[f].version + 1
           new == [seller |-> s, product |-> p, price |-> price, stock |-> stock,
                   version |-> version]
<1>1. /\ UNCHANGED <<fundsVars, marketVars, address, cart, quote, order>>
      /\ offer' = [offer EXCEPT ![f] = new]
  BY DEF SaveOffer
<1>2. version \in Nat
  <2>1. offer[f] \in Offer \cup {NoOffer}
    BY DEF PInv, PurchaseTypeOK
  <2>2. offer[f].version \in Nat
    BY <2>1 DEF Offer, NoOffer
  <2> QED
    BY <2>2
<1> HIDE DEF version
<1>3. new \in Offer /\ new # NoOffer
  BY <1>2, PurchaseAssumption DEF Offer, NoOffer
<1>4. PurchaseTypeOK' /\ CartsOnce' /\ QuotesWhole'
  BY <1>1, <1>3 DEF PInv, PurchaseTypeOK, CartsOnce, QuotesWhole, marketVars
<1>5. \A e \in OfferIds : offer[e] # NoOffer => offer'[e] # NoOffer
  BY <1>1, <1>3 DEF PInv, PurchaseTypeOK
<1> QED
  BY <1>1, <1>4, <1>5, OrdersUntouched

LEMMA SetCartStep ==
    ASSUME PInv, NEW b \in Accounts, NEW p \in Products, NEW quantity \in Quantities,
           SetCart(b, p, quantity)
    PROVE  PInv'
<1> DEFINE S == {i \in DOMAIN cart[b] : cart[b][i].product # p}
           others == OtherLines(b, p)
           line == [product |-> p, quantity |-> quantity]
<1>1. cart[b] \in Seq(CartItem) /\ ProductsOnce(cart[b]) /\ S \in SUBSET DOMAIN cart[b]
  BY DEF PInv, PurchaseTypeOK, CartsOnce
<1>2. others = LinesAt(cart[b], S)
  BY DEF OtherLines
<1> HIDE DEF others
<1>3. others \in Seq(CartItem) /\ ProductsOnce(others)
  <2> HIDE DEF S
  <2> QED
    BY <1>1, <1>2, LinesAtSelects, LinesAtOnce
<1>4. \A i \in DOMAIN others : others[i].product # p
  <2> TAKE i \in DOMAIN others
  <2>1. \E k \in S : others[i] = cart[b][k]
    <3> HIDE DEF S
    <3> QED
      BY <1>1, <1>2, LinesAtFrom
  <2> QED
    BY <2>1
<1>5. ASSUME quantity # 0
      PROVE  Append(others, line) \in Seq(CartItem) /\ ProductsOnce(Append(others, line))
  <2>1. line \in CartItem
    BY <1>5, PurchaseAssumption DEF CartItem
  <2>2. Append(others, line) \in Seq(CartItem)
    BY <1>3, <2>1
  <2>3. /\ DOMAIN Append(others, line) = 1..(Len(others) + 1)
        /\ DOMAIN others = 1..Len(others) /\ Len(others) \in Nat
        /\ \A i \in 1..Len(others) : Append(others, line)[i] = others[i]
        /\ Append(others, line)[Len(others) + 1] = line
    BY <1>3, <2>1
  <2>4. \A i \in 1..(Len(others) + 1) : i \in 1..Len(others) \/ i = Len(others) + 1
    BY <2>3
  <2>5. ProductsOnce(Append(others, line))
    BY <1>3, <1>4, <2>3, <2>4 DEF ProductsOnce
  <2> QED
    BY <2>2, <2>5
<1>6. /\ UNCHANGED <<fundsVars, marketVars, address, offer, quote, order>>
      /\ cart' = [cart EXCEPT ![b] = IF quantity = 0 THEN others ELSE Append(others, line)]
  BY DEF SetCart, others
<1>7. PurchaseTypeOK'
  BY <1>3, <1>5, <1>6 DEF PInv, PurchaseTypeOK, marketVars
<1>8. CartsOnce' /\ QuotesWhole'
  BY <1>3, <1>5, <1>6 DEF PInv, PurchaseTypeOK, CartsOnce, QuotesWhole
<1> QED
  BY <1>6, <1>7, <1>8, OrdersUntouched

\* What a quote takes from the cart: a line per product that some offer serves.
LEMMA QuoteItemsFromCart ==
    ASSUME PInv, NEW s \in Sellers, NEW b \in Accounts
    PROVE  QuoteItems(s, cart[b]) \in Seq(QuoteItem) /\ ProductsOnce(QuoteItems(s, cart[b]))
<1> DEFINE lines == cart[b]
           S == {i \in DOMAIN lines : Serving(s, lines[i]) # {}}
           served == LinesAt(lines, S)
           OfferFor(c) == CHOOSE f \in Serving(s, c) : TRUE
           items == QuoteItems(s, lines)
<1>1. lines \in Seq(CartItem) /\ ProductsOnce(lines) /\ S \in SUBSET DOMAIN lines
  BY DEF PInv, PurchaseTypeOK, CartsOnce
<1>2. items = [i \in DOMAIN served |->
                 [offer |-> OfferFor(served[i]), product |-> served[i].product,
                  quantity |-> served[i].quantity, price |-> offer[OfferFor(served[i])].price,
                  version |-> offer[OfferFor(served[i])].version]]
  BY DEF QuoteItems
<1>3. served \in Seq(CartItem) /\ ProductsOnce(served)
  <2> HIDE DEF S, lines
  <2> QED
    BY <1>1, LinesAtSelects, LinesAtOnce
<1>4. ASSUME NEW i \in DOMAIN served PROVE items[i] \in QuoteItem
  <2>1. PICK k \in S : served[i] = lines[k]
    BY <1>1, LinesAtFrom
  <2>2. served[i] \in CartItem /\ Serving(s, served[i]) # {}
    <3>1. Serving(s, served[i]) # {}
      BY <2>1
    <3>2. served[i] \in CartItem
      BY <1>3
    <3> QED
      BY <3>1, <3>2
  <2>3. OfferFor(served[i]) \in OfferIds /\ offer[OfferFor(served[i])].seller = s
    <3>1. OfferFor(served[i]) \in Serving(s, served[i])
      BY <2>2
    <3> QED
      BY <3>1 DEF Serving
  <2>4. offer[OfferFor(served[i])] \in Offer
    BY <2>3, PurchaseAssumption DEF PInv, PurchaseTypeOK, NoOffer
  <2> HIDE DEF OfferFor, served
  <2> QED
    BY <1>2, <2>2, <2>3, <2>4 DEF QuoteItem, Offer, CartItem
<1> HIDE DEF served, items
<1>5. DOMAIN served = 1..Len(served) /\ Len(served) \in Nat /\ DOMAIN items = DOMAIN served
  BY <1>2, <1>3
<1>6. items \in Seq(QuoteItem)
  <2>1. items = [i \in 1..Len(served) |-> items[i]]
    BY <1>2, <1>5
  <2> QED
    BY <1>4, <1>5, <2>1, IsASeq
<1>7. ProductsOnce(items)
  BY <1>2, <1>3, <1>5 DEF ProductsOnce
<1> QED
  BY <1>6, <1>7 DEF items

LEMMA CreateQuoteStep ==
    ASSUME PInv, NEW q \in QuoteIds, NEW b \in Accounts, NEW s \in Sellers,
           NEW personal \in BOOLEAN, CreateQuote(q, b, s, personal)
    PROVE  PInv'
<1> DEFINE items == QuoteItems(s, cart[b])
           unavailable == {cart[b][i].product : i \in DOMAIN cart[b]}
                            \ {items[i].product : i \in DOMAIN items}
           new == [buyer |-> b, seller |-> s, personal |-> personal, items |-> items,
                   unavailable |-> unavailable,
                   total |-> Total(items), expires |-> now + QuoteLife, used |-> FALSE]
<1>1. /\ UNCHANGED <<fundsVars, marketVars, address, offer, cart, order>>
      /\ quote' = [quote EXCEPT ![q] = new]
  BY DEF CreateQuote
<1>2. items \in Seq(QuoteItem) /\ ProductsOnce(items)
  BY QuoteItemsFromCart
<1>3. Total(items) \in Nat
  BY <1>2, TotalSum
<1>4. unavailable \in SUBSET Products
  <2>1. \A i \in DOMAIN cart[b] : cart[b][i].product \in Products
    <3>1. cart[b] \in Seq(CartItem)
      BY DEF PInv, PurchaseTypeOK
    <3>2. \A i \in DOMAIN cart[b] : cart[b][i] \in CartItem
      BY <3>1
    <3> QED
      BY <3>2 DEF CartItem
  <2> QED
    BY <2>1
<1>5. now + QuoteLife \in Nat
  BY PurchaseAssumption DEF PInv, FInv, FundsTypeOK
<1> HIDE DEF items, unavailable
<1>6. new \in Quote
  BY <1>2, <1>3, <1>4, <1>5 DEF Quote
<1>7. PurchaseTypeOK' /\ CartsOnce'
  BY <1>1, <1>6 DEF PInv, PurchaseTypeOK, CartsOnce, marketVars
<1>8. QuotesWhole'
  BY <1>1, <1>2 DEF PInv, PurchaseTypeOK, QuotesWhole
<1> QED
  BY <1>1, <1>7, <1>8, OrdersUntouched

-----------------------------------------------------------------------------
(* Placing an order *)

LEMMA InCartInt ==
    ASSUME NEW lines \in Seq(CartItem), NEW p
    PROVE  InCart(lines, p) \in Int
<1> DEFINE D == {j \in DOMAIN lines : lines[j].product = p}
           f == [i \in D |-> lines[i].quantity]
<1>1. IsFiniteSet(D)
  <2>1. D \in SUBSET DOMAIN lines
    OBVIOUS
  <2> HIDE DEF D
  <2> QED
    BY <2>1, ItemsFinite
<1>2. \A i \in DOMAIN lines : lines[i] \in CartItem
  OBVIOUS
<1>3. \A i \in D : f[i] \in Int
  BY <1>2 DEF CartItem
<1>4. SumFunction(f) = SumFunctionOnSet(f, D)
  BY SumOfFunction
<1>5. InCart(lines, p) = SumFunction(f)
  BY DEF InCart
<1> HIDE DEF f, D
<1>6. SumFunctionOnSet(f, D) \in Int
  BY <1>1, <1>3, SumInt DEF IntOn
<1> QED
  BY <1>4, <1>5, <1>6

\* Two lists of lines about different products.
LEMMA ConcatOnce ==
    ASSUME NEW T, NEW x \in Seq(T), NEW y \in Seq(T), ProductsOnce(x), ProductsOnce(y),
           \A i \in DOMAIN x, j \in DOMAIN y : x[i].product # y[j].product
    PROVE  x \o y \in Seq(T) /\ ProductsOnce(x \o y)
<1>1. /\ x \o y \in Seq(T)
      /\ DOMAIN (x \o y) = 1..(Len(x) + Len(y))
      /\ DOMAIN x = 1..Len(x) /\ Len(x) \in Nat /\ DOMAIN y = 1..Len(y) /\ Len(y) \in Nat
  OBVIOUS
<1>2. ASSUME NEW i \in DOMAIN (x \o y)
      PROVE  \/ i \in DOMAIN x /\ (x \o y)[i] = x[i]
             \/ i - Len(x) \in DOMAIN y /\ (x \o y)[i] = y[i - Len(x)]
  BY <1>1
<1>3. ASSUME NEW i \in DOMAIN (x \o y), NEW j \in DOMAIN (x \o y),
             (x \o y)[i].product = (x \o y)[j].product
      PROVE  i = j
  <2> DEFINE n == Len(x)
             k == i - n
             l == j - n
  <2>1. (k = l => i = j) /\ n \in Nat
    BY <1>1
  <2>2. \/ i \in DOMAIN x /\ (x \o y)[i] = x[i]
        \/ k \in DOMAIN y /\ (x \o y)[i] = y[k]
    BY <1>2
  <2>3. \/ j \in DOMAIN x /\ (x \o y)[j] = x[j]
        \/ l \in DOMAIN y /\ (x \o y)[j] = y[l]
    BY <1>2
  <2> HIDE DEF k, l
  <2> QED
    BY <1>3, <2>1, <2>2, <2>3 DEF ProductsOnce
<1> QED
  BY <1>1, <1>3 DEF ProductsOnce

LEMMA CartAfterKept ==
    ASSUME NEW lines \in Seq(CartItem), ProductsOnce(lines),
           NEW items \in Seq(QuoteItem), ProductsOnce(items), NEW dropped
    PROVE  /\ CartAfter(lines, items, dropped) \in Seq(CartItem)
           /\ ProductsOnce(CartAfter(lines, items, dropped))
<1> DEFINE bought == {items[i].product : i \in DOMAIN items}
           S == {i \in DOMAIN lines : lines[i].product \notin bought}
           kept == LinesAt(lines, S)
           left(i) == InCart(lines, items[i].product) - items[i].quantity
           rest == [i \in DOMAIN items |-> [product |-> items[i].product, quantity |-> left(i)]]
           R == {i \in DOMAIN rest : rest[i].quantity > 0}
           back == LinesAt(rest, R)
           all == kept \o back
           A == {i \in DOMAIN all : all[i].product \notin dropped}
           Line == [product : Products, quantity : Int]
<1>1. CartAfter(lines, items, dropped) = LinesAt(all, A)
  BY DEF CartAfter
<1>2. kept \in Seq(CartItem) /\ ProductsOnce(kept) /\ \A i \in DOMAIN kept : kept[i].product \notin bought
  <2>1. S \in SUBSET DOMAIN lines /\ \A k \in S : lines[k].product \notin bought
    OBVIOUS
  <2> HIDE DEF S, bought
  <2>2. kept \in Seq(CartItem) /\ ProductsOnce(kept)
    BY <2>1, LinesAtSelects, LinesAtOnce
  <2>3. \A i \in DOMAIN kept : \E k \in S : kept[i] = lines[k]
    BY <2>1, LinesAtFrom
  <2> QED
    BY <2>1, <2>2, <2>3
<1>3. ASSUME NEW i \in DOMAIN items
      PROVE  /\ rest[i] \in Line /\ rest[i].product = items[i].product
             /\ rest[i].quantity > 0 => rest[i] \in CartItem
  <2>1. items[i] \in QuoteItem
    OBVIOUS
  <2>2. left(i) \in Int /\ items[i].product \in Products
    <3>1. InCart(lines, items[i].product) \in Int
      BY InCartInt
    <3> QED
      BY <2>1, <3>1 DEF QuoteItem
  <2>3. rest[i] = [product |-> items[i].product, quantity |-> left(i)]
    OBVIOUS
  <2> HIDE DEF left, rest
  <2> QED
    BY <2>2, <2>3 DEF CartItem
<1>4. rest \in Seq(Line) /\ DOMAIN rest = DOMAIN items
  <2>1. Len(items) \in Nat /\ DOMAIN items = 1..Len(items)
    OBVIOUS
  <2>2. rest = [i \in 1..Len(items) |-> rest[i]]
    BY <2>1
  <2>3. DOMAIN rest = DOMAIN items
    OBVIOUS
  <2> HIDE DEF rest, Line
  <2> QED
    BY <1>3, <2>1, <2>2, <2>3, IsASeq
<1>5. ProductsOnce(rest)
  BY <1>3 DEF ProductsOnce
<1>6. R \in SUBSET DOMAIN rest /\ \A k \in R : rest[k] \in CartItem /\ rest[k].product \in bought
  BY <1>3
<1> HIDE DEF rest, R
<1>7. back \in Seq(CartItem)
  BY <1>4, <1>6, LinesAtAll
<1>8. ProductsOnce(back)
  BY <1>4, <1>5, <1>6, LinesAtOnce
<1>9. \A i \in DOMAIN back : \E k \in R : back[i] = rest[k]
  BY <1>4, <1>6, LinesAtFrom
<1>10. \A i \in DOMAIN kept, j \in DOMAIN back : kept[i].product # back[j].product
  BY <1>2, <1>6, <1>9
<1> HIDE DEF kept, back, bought
<1>11. all \in Seq(CartItem) /\ ProductsOnce(all)
  BY <1>2, <1>7, <1>8, <1>10, ConcatOnce
<1>12. A \in SUBSET DOMAIN all
  OBVIOUS
<1> HIDE DEF all, A
<1> QED
  BY <1>1, <1>11, <1>12, LinesAtSelects, LinesAtOnce

\* Sold units of one offer: a quote has one line of it, which the stock covers.
SoldOf(items, f) ==
    SumFunction([i \in {j \in DOMAIN items : items[j].offer = f} |-> items[i].quantity])

LEMMA SoldWithinStock ==
    ASSUME PInv, NEW s \in Sellers, NEW items \in Seq(QuoteItem), ProductsOnce(items),
           \A i \in DOMAIN items : StillOffered(s, items[i]),
           NEW k \in DOMAIN items
    PROVE  offer[items[k].offer].stock - SoldOf(items, items[k].offer) \in Nat
<1> DEFINE f == items[k].offer
           D == {j \in DOMAIN items : items[j].offer = f}
           sold == [i \in D |-> items[i].quantity]
<1>1. D = {k}
  BY DEF StillOffered, ProductsOnce
<1>2. items[k] \in QuoteItem
  OBVIOUS
<1>3. SoldOf(items, f) = SumFunctionOnSet(sold, {k})
  BY <1>1, SumOfFunction DEF SoldOf
<1>4. items[k].quantity \in Nat /\ f \in OfferIds
  BY <1>2 DEF QuoteItem
<1>5. SumFunctionOnSet(sold, {k}) = items[k].quantity
  <2>1. sold[k] = items[k].quantity
    <3>1. k \in D
      BY <1>1
    <3> QED
      BY <3>1
  <2>3. IsFiniteSet({k}) /\ {k} \ {k} = {} /\ k \in {k}
    BY FS_Singleton
  <2> HIDE DEF sold
  <2>4. IntOn(sold, {k})
    BY <1>4, <2>1 DEF IntOn
  <2>2. SumFunctionOnSet(sold, {k}) = sold[k] + SumFunctionOnSet(sold, {k} \ {k})
    BY <2>3, <2>4, SumRemove
  <2>5. SumFunctionOnSet(sold, {k} \ {k}) = 0
    BY <2>3, SumEmpty
  <2> QED
    BY <1>4, <2>1, <2>2, <2>5
<1>6. offer[f].stock \in Nat /\ offer[f].stock >= items[k].quantity
  <2>1. offer[f] \in Offer \cup {NoOffer}
    BY <1>4 DEF PInv, PurchaseTypeOK
  <2> QED
    BY <2>1 DEF StillOffered, Offer, NoOffer
<1> QED
  BY <1>3, <1>4, <1>5, <1>6

\* An order that refunded nothing holds all it was paid.
LEMMA NothingRefunded ==
    ASSUME NEW items \in Seq(OrderItem), \A i \in DOMAIN items : items[i].refunded = 0
    PROVE  /\ SumFunction([i \in DOMAIN items |-> items[i].cash - RefundedCash(items[i])])
                = SumFunction([i \in DOMAIN items |-> items[i].cash])
           /\ SumFunction([i \in DOMAIN items |-> items[i].credit - RefundedCredit(items[i])])
                = SumFunction([i \in DOMAIN items |-> items[i].credit])
<1>1. ASSUME NEW i \in DOMAIN items
      PROVE  /\ items[i].cash - RefundedCash(items[i]) = items[i].cash
             /\ items[i].credit - RefundedCredit(items[i]) = items[i].credit
  <2>1. items[i] \in OrderItem
    OBVIOUS
  <2>2. PICK c \in Nat, k \in Nat, q \in Nat \ {0}, p \in Nat :
           /\ c = items[i].cash /\ k = items[i].credit /\ q = items[i].quantity
           /\ p = items[i].price
    BY <2>1 DEF OrderItem
  <2>3. (k * 0) \div q = 0
    <3>1. k * 0 = 0 /\ 0 \div q = 0
      BY <2>2
    <3> QED
      BY <3>1
  <2>4. RefundedCredit(items[i]) = 0
    BY <1>1, <2>2, <2>3 DEF RefundedCredit
  <2>5. RefundedCash(items[i]) = 0
    <3>1. p * 0 = 0
      BY <2>2
    <3> QED
      BY <2>2, <2>4, <3>1 DEF RefundedCash
  <2> QED
    BY <2>2, <2>4, <2>5
<1>2. [i \in DOMAIN items |-> items[i].cash - RefundedCash(items[i])]
        = [i \in DOMAIN items |-> items[i].cash]
  BY <1>1
<1>3. [i \in DOMAIN items |-> items[i].credit - RefundedCredit(items[i])]
        = [i \in DOMAIN items |-> items[i].credit]
  BY <1>1
<1> QED
  BY <1>2, <1>3

LEMMA PlaceOrderStep ==
    ASSUME PInv, NEW o \in OrderIds, NEW q \in QuoteIds, NEW g \in GrantIds \cup {NoGrantId},
           NEW disposition \in {"KEEP", "REMOVE"}, PlaceOrder(o, q, g, disposition)
    PROVE  PInv'
<1> DEFINE b == quote[q].buyer
           s == quote[q].seller
           items == quote[q].items
           total == quote[q].total
           credit == IF g = NoGrantId THEN 0 ELSE Lesser(grant[g].available, total)
           cash == total - credit
           lines == OrderItems(items, credit)
           dropped == IF disposition = "REMOVE" THEN quote[q].unavailable ELSE {}
           new == [state |-> "PAID", buyer |-> b, seller |-> s, city |-> address[b],
                   grant |-> g, total |-> total, cash |-> cash, credit |-> credit,
                   items |-> lines, refund |-> "NONE", received |-> 0]
<1>0. /\ FInv /\ FundsTypeOK /\ PurchaseTypeOK /\ balance \in [LedgerAccounts -> Int]
      /\ order[o] = NoOrder /\ quote[q] \in Quote
  BY DEF PInv, FInv, FundsTypeOK, PurchaseTypeOK, PlaceOrder
<1>1. /\ b \in Accounts /\ s \in Sellers /\ items \in Seq(QuoteItem) /\ total \in Nat
      /\ ProductsOnce(items) /\ total = Total(items)
  BY <1>0 DEF Quote, PInv, QuotesWhole
<1>2. /\ s \in active /\ Covers(s, b)
      /\ \A i \in DOMAIN items : StillOffered(s, items[i])
      /\ g # NoGrantId => CreditEligible(g, q)
      /\ wallet[b] >= cash
      /\ wallet' = [wallet EXCEPT ![b] = @ - cash]
      /\ grant' = IF g = NoGrantId THEN grant
                  ELSE [grant EXCEPT ![g].available = @ - credit]
      /\ offer' = [f \in OfferIds |->
                     IF \E i \in DOMAIN items : items[i].offer = f
                       THEN [offer[f] EXCEPT !.stock = @ - SoldOf(items, f), !.version = @ + 1]
                       ELSE offer[f]]
      /\ order' = [order EXCEPT ![o] = new]
      /\ balance' = Transfer(Transfer(balance, BuyerCash(b), OrderCash(o), cash),
                             HouseholdCredit(g), OrderCredit(o), credit)
      /\ quote' = [quote EXCEPT ![q].used = TRUE]
      /\ cart' = [cart EXCEPT ![b] = CartAfter(@, items, dropped)]
      /\ UNCHANGED <<now, program, link, members, withdrawal, marketVars, address>>
  BY DEF PlaceOrder, SoldOf
<1>3. address[b] \in Cities
  BY <1>0, <1>1, <1>2, PurchaseAssumption DEF Covers, PurchaseTypeOK
<1>4. g # NoGrantId => g \in GrantIds /\ grant[g].available \in Nat /\ grant[g] \in Grant
  <2>1. CASE g # NoGrantId
    <3>1. g \in GrantIds
      BY <2>1
    <3>2. grant[g] \in Grant /\ grant[g].available \in Int /\ grant[g].available >= 0
      BY <1>0, <3>1 DEF PInv, GrantsCovered, FundsTypeOK, Grant
    <3> QED
      BY <3>1, <3>2
  <2> QED
    BY <2>1
<1> HIDE DEF b, s, items, total
<1>5. /\ credit \in Nat /\ credit <= total /\ cash \in Nat /\ cash + credit = total
      /\ g # NoGrantId => credit <= grant[g].available
      /\ g = NoGrantId => credit = 0
  <2>1. CASE g = NoGrantId
    <3>1. credit = 0
      BY <2>1
    <3> QED
      BY <1>1, <2>1, <3>1
  <2>2. CASE g # NoGrantId
    <3>1. credit = Lesser(grant[g].available, total)
      BY <2>2
    <3> DEFINE left == grant[g].available
    <3>2. left \in Nat
      BY <1>4, <2>2
    <3>3. \A x, y \in Nat : Lesser(x, y) \in Nat /\ Lesser(x, y) <= x /\ Lesser(x, y) <= y
      BY DEF Lesser
    <3>4. credit \in Nat /\ credit <= left /\ credit <= total
      <4> HIDE DEF left, credit
      <4> QED
        BY <1>1, <3>1, <3>2, <3>3 DEF left
    <3> HIDE DEF credit
    <3> QED
      BY <1>1, <2>2, <3>4
  <2> QED
    BY <2>1, <2>2
<1> HIDE DEF credit, cash
<1>6. Moves(o, b, g, cash, credit)
  <2>1. cash \in Int /\ credit \in Int /\ (g \in GrantIds \/ credit = 0)
    BY <1>4, <1>5
  <2>2. /\ balance' \in [LedgerAccounts -> Int]
        /\ \A x \in Accounts :
              balance'[BuyerCash(x)] = IF x = b THEN balance[BuyerCash(x)] - cash
                                       ELSE balance[BuyerCash(x)]
        /\ \A h \in GrantIds :
              balance'[HouseholdCredit(h)] = IF h = g THEN balance[HouseholdCredit(h)] - credit
                                             ELSE balance[HouseholdCredit(h)]
        /\ \A x \in OrderIds :
              /\ balance'[OrderCash(x)] = IF x = o THEN balance[OrderCash(x)] + cash
                                          ELSE balance[OrderCash(x)]
              /\ balance'[OrderCredit(x)] = IF x = o THEN balance[OrderCredit(x)] + credit
                                            ELSE balance[OrderCredit(x)]
        /\ \A p \in Programs : balance'[ProgramAvailable(p)] = balance[ProgramAvailable(p)]
        /\ \A w \in Withdrawals : balance'[WithdrawalHold(w)] = balance[WithdrawalHold(w)]
    BY <1>0, <1>1, <1>2, <2>1, PurchaseTransfers
  <2>3. /\ wallet' \in [Accounts -> Nat]
        /\ \A x \in Accounts : wallet'[x] = IF x = b THEN wallet[x] - cash ELSE wallet[x]
    <3>1. wallet \in [Accounts -> Nat]
      BY <1>0 DEF FundsTypeOK
    <3>2. wallet[b] \in Nat /\ wallet[b] >= cash /\ cash \in Nat
      BY <1>1, <1>2, <1>5, <3>1
    <3>3. wallet[b] - cash \in Nat
      BY <3>2
    <3> QED
      BY <1>1, <1>2, <3>1, <3>3
  <2>4. /\ grant' \in [GrantIds -> Grant]
        /\ \A h \in GrantIds :
              /\ grant'[h].granted = grant[h].granted
              /\ grant'[h].available = IF h = g THEN grant[h].available - credit
                                       ELSE grant[h].available
    <3>1. grant \in [GrantIds -> Grant]
      BY <1>0 DEF FundsTypeOK
    <3>2. CASE g = NoGrantId
      BY <1>2, <3>1, <3>2, NoGrantAssumption
    <3>3. CASE g # NoGrantId
      <4>1. grant' = [grant EXCEPT ![g].available = @ - credit]
        BY <1>2, <3>3
      <4>2. grant[g].available - credit \in Int
        BY <1>4, <1>5, <3>3
      <4>3. [grant[g] EXCEPT !.available = @ - credit] \in Grant
        BY <1>4, <3>3, <4>2 DEF Grant
      <4> QED
        BY <1>4, <3>1, <3>3, <4>1, <4>3 DEF Grant
    <3> QED
      BY <3>2, <3>3
  <2> QED
    BY <1>2, <2>2, <2>3, <2>4 DEF Moves
<1>7. FInv'
  BY <1>0, <1>1, <1>5, <1>6, MovesReconciled
<1>8. GrantsCovered'
  <2> SUFFICES ASSUME NEW h \in GrantIds PROVE grant'[h].available >= 0
    BY DEF GrantsCovered
  <2>1. grant[h].available \in Int /\ grant[h].available >= 0
    BY <1>0 DEF PInv, GrantsCovered, FundsTypeOK, Grant
  <2>2. grant'[h].available = IF h = g THEN grant[h].available - credit ELSE grant[h].available
    BY <1>6 DEF Moves
  <2>3. h = g => g # NoGrantId
    BY NoGrantAssumption
  <2> QED
    BY <1>5, <2>1, <2>2, <2>3
<1>9. /\ lines \in Seq(OrderItem)
      /\ DOMAIN lines = DOMAIN items
      /\ \A i \in DOMAIN items :
            /\ lines[i].cash + lines[i].credit = Value(lines[i])
            /\ lines[i].refunded = 0
            /\ lines[i].offer = items[i].offer
      /\ SumFunction([i \in DOMAIN lines |-> lines[i].credit]) = credit
      /\ SumFunction([i \in DOMAIN lines |-> lines[i].cash]) = cash
  BY <1>1, <1>5, OrderItemsSplit DEF cash
<1> HIDE DEF lines
<1>10. new \in Order /\ Funded(new) /\ Backed(new) /\ Held(new, cash, credit)
  <2>1. new \in Order
    BY <1>1, <1>3, <1>5, <1>9 DEF Order
  <2>2. Funded(new)
    <3>1. \A i \in DOMAIN lines : lines[i].refunded \in 0..lines[i].quantity
      <4> TAKE i \in DOMAIN lines
      <4>1. lines[i] \in OrderItem /\ lines[i].refunded = 0
        BY <1>9
      <4> QED
        BY <4>1 DEF OrderItem
    <3> QED
      BY <1>5, <1>9, <3>1 DEF Funded
  <2>3. Backed(new)
    BY <1>5, <1>9 DEF Backed
  <2>4. Held(new, cash, credit)
    <3>1. Open(new) = DOMAIN lines
      BY DEF Open
    <3>2. /\ SumFunction([i \in DOMAIN lines |-> lines[i].cash - RefundedCash(lines[i])]) = cash
          /\ SumFunction([i \in DOMAIN lines |-> lines[i].credit - RefundedCredit(lines[i])]) = credit
      BY <1>9, NothingRefunded
    <3> QED
      BY <1>5, <3>1, <3>2 DEF Held
  <2> QED
    BY <2>1, <2>2, <2>3, <2>4
<1>11. /\ order'[o] = new
       /\ \A x \in OrderIds : x # o => order'[x] = order[x]
       /\ order' \in [OrderIds -> Order \cup {NoOrder}]
  BY <1>0, <1>2, <1>10 DEF PurchaseTypeOK
<1> DEFINE Sells(f) == \E i \in DOMAIN items : items[i].offer = f
<1>12. ASSUME NEW f \in OfferIds, Sells(f)
       PROVE  offer[f] \in Offer /\ offer'[f] \in Offer
  <2>1. PICK k \in DOMAIN items : items[k].offer = f
    BY <1>12
  <2>2. offer[f].stock - SoldOf(items, f) \in Nat
    BY <1>1, <1>2, <2>1, SoldWithinStock
  <2>3. offer[f].seller = s
    BY <1>2, <2>1 DEF StillOffered
  <2>4. offer[f] \in Offer
    BY <1>0, <1>1, <2>3, PurchaseAssumption DEF PurchaseTypeOK, NoOffer
  <2>5. offer'[f] = [offer[f] EXCEPT !.stock = @ - SoldOf(items, f), !.version = @ + 1]
    BY <1>2, <1>12
  <2>6. offer[f].version + 1 \in Nat
    BY <2>4 DEF Offer
  <2> QED
    BY <2>2, <2>4, <2>5, <2>6 DEF Offer
<1>13. ASSUME NEW f \in OfferIds, ~Sells(f) PROVE offer'[f] = offer[f]
  BY <1>2, <1>13
<1> HIDE DEF Sells
<1>14. offer' \in [OfferIds -> Offer \cup {NoOffer}]
  <2>1. \A f \in OfferIds : offer'[f] \in Offer \cup {NoOffer}
    BY <1>0, <1>12, <1>13 DEF PurchaseTypeOK
  <2> QED
    BY <1>2, <2>1
<1>15. \A f \in OfferIds : offer[f] # NoOffer => offer'[f] # NoOffer
  <2>1. \A x \in Offer : x # NoOffer
    BY PurchaseAssumption DEF Offer, NoOffer
  <2> QED
    BY <1>12, <1>13, <2>1
<1>16. CartAfter(cart[b], items, dropped) \in Seq(CartItem)
       /\ ProductsOnce(CartAfter(cart[b], items, dropped))
  <2>1. cart[b] \in Seq(CartItem) /\ ProductsOnce(cart[b])
    BY <1>0, <1>1 DEF PInv, PurchaseTypeOK, CartsOnce
  <2> HIDE DEF dropped
  <2> QED
    BY <1>1, <2>1, CartAfterKept
<1> HIDE DEF dropped
<1>17. cart' \in [Accounts -> Seq(CartItem)] /\ CartsOnce'
  BY <1>0, <1>1, <1>2, <1>16 DEF PInv, PurchaseTypeOK, CartsOnce
<1>18. quote' \in [QuoteIds -> Quote \cup {NoQuote}] /\ QuotesWhole'
  <2>1. quote \in [QuoteIds -> Quote \cup {NoQuote}]
    BY <1>0 DEF PurchaseTypeOK
  <2>2. [quote[q] EXCEPT !.used = TRUE] \in Quote
    BY <1>0 DEF Quote
  <2>3. \A x \in QuoteIds : quote'[x].items = quote[x].items /\ quote'[x].total = quote[x].total
    <3>1. quote'[q].items = quote[q].items /\ quote'[q].total = quote[q].total
      BY <1>0, <1>2, <2>1 DEF Quote
    <3> QED
      BY <1>2, <2>1, <3>1
  <2> QED
    BY <1>2, <2>1, <2>2, <2>3 DEF PInv, QuotesWhole
<1>19. PurchaseTypeOK'
  BY <1>0, <1>2, <1>11, <1>14, <1>17, <1>18 DEF PurchaseTypeOK, marketVars
<1>20. OrdersFunded'
  <2>1. \A x \in OrderIds : Funded(order'[x])
    BY <1>10, <1>11, FundedEach DEF PInv
  <2> QED
    BY <2>1 DEF OrdersFunded, Funded
<1>21. OrdersBacked'
  <2>1. \A x \in OrderIds : Backed(order'[x])
    BY <1>10, <1>11 DEF PInv, OrdersBacked
  <2>2. ASSUME NEW x \in OrderIds, NEW i \in DOMAIN order'[x].items
        PROVE  offer'[order'[x].items[i].offer] # NoOffer
    <3>1. order'[x].items[i] \in OrderItem
      <4>1. order'[x] \in Order \cup {NoOrder}
        BY <1>11
      <4>2. order'[x] \in Order
        BY <2>2, <4>1 DEF NoOrder
      <4> QED
        BY <2>2, <4>2 DEF Order
    <3>2. order'[x].items[i].offer \in OfferIds
      BY <3>1 DEF OrderItem
    <3>3. CASE x = o
      <4>1. i \in DOMAIN items /\ order'[x].items[i].offer = items[i].offer
        BY <1>9, <1>11, <2>2, <3>3
      <4>2. offer'[order'[x].items[i].offer] \in Offer
        BY <1>12, <3>2, <4>1 DEF Sells
      <4> QED
        BY <4>2, PurchaseAssumption DEF Offer, NoOffer
    <3>4. CASE x # o
      BY <1>11, <1>15, <2>2, <3>2, <3>4 DEF PInv, OrdersBacked, OffersKept
    <3> QED
      BY <3>3, <3>4
  <2> QED
    BY <2>1, <2>2 DEF OrdersBacked, OffersKept
<1>22. balance[OrderCash(o)] = 0 /\ balance[OrderCredit(o)] = 0
  <2>1. Held(order[o], balance[OrderCash(o)], balance[OrderCredit(o)])
    BY HeldEach DEF PInv
  <2>2. Open(order[o]) = {}
    BY <1>0 DEF Open, NoOrder
  <2>3. \A f : DOMAIN f = {} => SumFunction(f) = 0
    BY SumOfFunction, SumEmpty
  <2> QED
    BY <2>1, <2>2, <2>3 DEF Held
<1>23. OrderMoney'
  <2>1. ASSUME NEW x \in OrderIds
        PROVE  Held(order'[x], balance'[OrderCash(x)], balance'[OrderCredit(x)])
    <3>1. CASE x = o
      <4>1. balance'[OrderCash(o)] = cash /\ balance'[OrderCredit(o)] = credit
        <5>1. /\ balance'[OrderCash(o)] = balance[OrderCash(o)] + cash
              /\ balance'[OrderCredit(o)] = balance[OrderCredit(o)] + credit
          BY <1>6 DEF Moves
        <5> QED
          BY <1>5, <1>22, <5>1
      <4> QED
        BY <1>10, <1>11, <3>1, <4>1
    <3>2. CASE x # o
      <4>1. balance'[OrderCash(x)] = balance[OrderCash(x)]
            /\ balance'[OrderCredit(x)] = balance[OrderCredit(x)]
        BY <1>6, <3>2 DEF Moves
      <4> QED
        BY <1>11, <3>2, <4>1, HeldEach DEF PInv
    <3> QED
      BY <3>1, <3>2
  <2> QED
    BY <2>1 DEF OrderMoney, Held, Open
<1>24. CreditConserved'
  <2>1. order[o].grant \notin GrantIds
    BY <1>0, NoGrantAssumption DEF NoOrder
  <2>2. order'[o].grant = g /\ \A x \in OrderIds : x # o => order'[x].grant = order[x].grant
    BY <1>11
  <2>3. FInv /\ CreditConserved /\ credit \in Int
    BY <1>0, <1>5 DEF PInv
  <2> QED
    BY <1>6, <1>22, <2>1, <2>2, <2>3, MovesConserved
<1> QED
  BY <1>7, <1>8, <1>17, <1>18, <1>19, <1>20, <1>21, <1>23, <1>24 DEF PInv

-----------------------------------------------------------------------------
(* Orders that go on *)

\* One order's document is replaced while money moves into it or out of it.
LEMMA OrderReplaced ==
    ASSUME PInv, NEW o \in OrderIds, NEW a, NEW g, NEW cash \in Int, NEW credit \in Int,
           Moves(o, a, g, cash, credit),
           NEW new \in Order, order' = [order EXCEPT ![o] = new], Funded(new),
           Held(new, balance[OrderCash(o)] + cash, balance[OrderCredit(o)] + credit),
           new.grant = g, order[o].grant = g
    PROVE  /\ order' \in [OrderIds -> Order \cup {NoOrder}]
           /\ OrdersFunded' /\ OrderMoney' /\ CreditConserved'
<1>1. /\ order'[o] = new
      /\ \A x \in OrderIds : x # o => order'[x] = order[x]
      /\ order' \in [OrderIds -> Order \cup {NoOrder}]
  BY DEF PInv, PurchaseTypeOK
<1>2. OrdersFunded'
  <2>1. \A x \in OrderIds : Funded(order'[x])
    BY <1>1, FundedEach DEF PInv
  <2> QED
    BY <2>1 DEF OrdersFunded, Funded
<1>3. OrderMoney'
  <2>1. ASSUME NEW x \in OrderIds
        PROVE  Held(order'[x], balance'[OrderCash(x)], balance'[OrderCredit(x)])
    <3>1. CASE x = o
      <4>1. /\ balance'[OrderCash(o)] = balance[OrderCash(o)] + cash
            /\ balance'[OrderCredit(o)] = balance[OrderCredit(o)] + credit
        BY DEF Moves
      <4> QED
        BY <1>1, <3>1, <4>1
    <3>2. CASE x # o
      <4>1. balance'[OrderCash(x)] = balance[OrderCash(x)]
            /\ balance'[OrderCredit(x)] = balance[OrderCredit(x)]
        BY <3>2 DEF Moves
      <4> QED
        BY <1>1, <3>2, <4>1, HeldEach DEF PInv
    <3> QED
      BY <3>1, <3>2
  <2> QED
    BY <2>1 DEF OrderMoney, Held, Open
<1>4. CreditConserved'
  <2>1. \A x \in OrderIds : x # o => order'[x].grant = order[x].grant
    BY <1>1
  <2>2. order'[o].grant = g /\ FInv /\ CreditConserved
    BY <1>1 DEF PInv
  <2> QED
    BY <2>1, <2>2, MovesConserved
<1> QED
  BY <1>1, <1>2, <1>3, <1>4

\* What a refund does to wallet, grant and journal.
LEMMA RefundMoves ==
    ASSUME PInv, NEW o \in OrderIds, order[o] \in Order,
           NEW cash \in Nat, NEW credit \in Nat, order[o].grant = NoGrantId => credit = 0,
           Refund(o, cash, credit), UNCHANGED <<now, program, link, members, withdrawal>>
    PROVE  /\ Moves(o, order[o].buyer, order[o].grant, -cash, -credit)
           /\ FInv' /\ GrantsCovered'
<1> DEFINE b == order[o].buyer
           g == order[o].grant
<1>0. /\ FInv /\ FundsTypeOK /\ balance \in [LedgerAccounts -> Int]
      /\ grant \in [GrantIds -> Grant] /\ wallet \in [Accounts -> Nat]
  BY DEF PInv, FInv, FundsTypeOK
<1>1. b \in Accounts /\ g \in GrantIds \cup {NoGrantId}
  BY DEF Order
<1>2. /\ wallet' = [wallet EXCEPT ![b] = @ + cash]
      /\ grant' = IF credit > 0 /\ g # NoGrantId
                    THEN [grant EXCEPT ![g].available = @ + credit] ELSE grant
      /\ balance' = Transfer(Transfer(balance, OrderCash(o), BuyerCash(b), cash),
                             OrderCredit(o), HouseholdCredit(g), credit)
      /\ g = NoGrantId => credit = 0
  BY DEF Refund
<1> HIDE DEF b, g
<1>3. /\ -cash \in Int /\ -credit \in Int
      /\ g \in GrantIds \/ credit = 0
      /\ g \in GrantIds \/ -credit = 0
  <2>1. -credit = 0 <=> credit = 0
    OBVIOUS
  <2> QED
    BY <1>1, <1>2, <2>1
<1>4. balance' = Transfer(Transfer(balance, BuyerCash(b), OrderCash(o), -cash),
                          HouseholdCredit(g), OrderCredit(o), -credit)
  BY <1>0, <1>1, <1>2, <1>3, RefundTransfers
<1>5. /\ balance' \in [LedgerAccounts -> Int]
      /\ \A x \in Accounts :
            balance'[BuyerCash(x)] = IF x = b THEN balance[BuyerCash(x)] - (-cash)
                                     ELSE balance[BuyerCash(x)]
      /\ \A h \in GrantIds :
            balance'[HouseholdCredit(h)] = IF h = g THEN balance[HouseholdCredit(h)] - (-credit)
                                           ELSE balance[HouseholdCredit(h)]
      /\ \A x \in OrderIds :
            /\ balance'[OrderCash(x)] = IF x = o THEN balance[OrderCash(x)] + (-cash)
                                        ELSE balance[OrderCash(x)]
            /\ balance'[OrderCredit(x)] = IF x = o THEN balance[OrderCredit(x)] + (-credit)
                                          ELSE balance[OrderCredit(x)]
      /\ \A p \in Programs : balance'[ProgramAvailable(p)] = balance[ProgramAvailable(p)]
      /\ \A w \in Withdrawals : balance'[WithdrawalHold(w)] = balance[WithdrawalHold(w)]
  BY <1>0, <1>1, <1>3, <1>4, PurchaseTransfers
<1>6. /\ wallet' \in [Accounts -> Nat]
      /\ \A x \in Accounts : wallet'[x] = IF x = b THEN wallet[x] - (-cash) ELSE wallet[x]
  <2>1. wallet[b] \in Nat
    BY <1>0, <1>1
  <2>2. wallet[b] + cash \in Nat /\ wallet[b] + cash = wallet[b] - (-cash)
    BY <2>1
  <2> QED
    BY <1>0, <1>1, <1>2, <2>2
<1>7. ASSUME NEW h \in GrantIds
      PROVE  /\ grant[h] \in Grant /\ grant[h].available \in Int /\ grant[h].available >= 0
             /\ grant[h].available + credit \in Int
             /\ grant[h].available + credit = grant[h].available - (-credit)
             /\ grant[h].available + credit >= 0
             /\ credit = 0 => grant[h].available - (-credit) = grant[h].available
  <2>1. grant[h] \in Grant /\ grant[h].available >= 0
    BY <1>0 DEF PInv, GrantsCovered
  <2>2. grant[h].available \in Int
    BY <2>1 DEF Grant
  <2> QED
    BY <2>1, <2>2
<1>8. /\ grant' \in [GrantIds -> Grant]
      /\ \A h \in GrantIds :
            /\ grant'[h].granted = grant[h].granted
            /\ grant'[h].available = IF h = g THEN grant[h].available - (-credit)
                                     ELSE grant[h].available
  <2>1. CASE credit > 0 /\ g # NoGrantId
    <3>1. g \in GrantIds /\ grant' = [grant EXCEPT ![g].available = @ + credit]
      BY <1>1, <1>2, <2>1
    <3>2. [grant[g] EXCEPT !.available = @ + credit] \in Grant
      BY <1>7, <3>1 DEF Grant
    <3> QED
      BY <1>0, <1>7, <3>1, <3>2 DEF Grant
  <2>2. CASE ~(credit > 0 /\ g # NoGrantId)
    <3>1. grant' = grant
      BY <1>2, <2>2
    <3>2. credit = 0 \/ g \notin GrantIds
      BY <2>2, NoGrantAssumption
    <3> QED
      BY <1>0, <1>7, <3>1, <3>2
  <2> QED
    BY <2>1, <2>2
<1>9. Moves(o, b, g, -cash, -credit)
  BY <1>5, <1>6, <1>8 DEF Moves
<1>10. FInv'
  BY <1>0, <1>1, <1>3, <1>9, MovesReconciled
<1>11. GrantsCovered'
  BY <1>7, <1>8 DEF GrantsCovered
<1> QED
  BY <1>9, <1>10, <1>11 DEF b, g

LEMMA CancelStep ==
    ASSUME PInv, NEW o \in OrderIds, Cancel(o)
    PROVE  PInv'
<1> DEFINE d == order[o]
           items == d.items
           Back(f) == SumFunction([i \in {j \in DOMAIN items : items[j].offer = f} |->
                                     items[i].quantity])
           new == [d EXCEPT !.state = "CANCELLED", !.refund = "REFUNDED"]
           Returns(f) == \E i \in DOMAIN items : items[i].offer = f
<1>1. /\ d \in Order /\ d.state # "COLLECTED"
      /\ items \in Seq(OrderItem) /\ d.cash \in Nat /\ d.credit \in Nat
  <2>1. d \in Order \cup {NoOrder} /\ d.state \in {"PAID", "PREPARING", "READY_FOR_PICKUP"}
    BY DEF PInv, PurchaseTypeOK, Cancel, Cancellable
  <2>2. d \in Order
    BY <2>1 DEF NoOrder
  <2> QED
    BY <2>1, <2>2 DEF Order
<1>2. /\ Refund(o, d.cash, d.credit)
      /\ offer' = [f \in OfferIds |->
                     IF Returns(f)
                       THEN [offer[f] EXCEPT !.stock = @ + Back(f), !.version = @ + 1]
                       ELSE offer[f]]
      /\ order' = [order EXCEPT ![o].state = "CANCELLED", ![o].refund = "REFUNDED"]
      /\ UNCHANGED <<now, program, link, members, withdrawal, marketVars, address, cart, quote>>
  BY DEF Cancel
<1>3. /\ Backed(d) /\ Funded(d)
      /\ Held(d, balance[OrderCash(o)], balance[OrderCredit(o)])
      /\ balance[OrderCash(o)] \in Int /\ balance[OrderCredit(o)] \in Int
  <2>1. Backed(d)
    BY DEF PInv, OrdersBacked
  <2>2. Funded(d)
    BY FundedEach DEF PInv
  <2>3. Held(d, balance[OrderCash(o)], balance[OrderCredit(o)])
    BY HeldEach DEF PInv
  <2>4. balance[OrderCash(o)] \in Int /\ balance[OrderCredit(o)] \in Int
    BY OrderAccount DEF PInv, FInv, FundsTypeOK
  <2> QED
    BY <2>1, <2>2, <2>3, <2>4
<1>4. balance[OrderCash(o)] = d.cash /\ balance[OrderCredit(o)] = d.credit
  <2>1. \A i \in DOMAIN items : items[i].refunded = 0
    BY <1>1, <1>3 DEF Backed
  <2>2. Open(d) = DOMAIN items
    BY <1>2 DEF Open, Cancel, Cancellable
  <2>3. /\ SumFunction([i \in DOMAIN items |-> items[i].cash - RefundedCash(items[i])]) = d.cash
        /\ SumFunction([i \in DOMAIN items |-> items[i].credit - RefundedCredit(items[i])])
             = d.credit
    BY <1>1, <1>3, <2>1, NothingRefunded DEF Funded
  <2> QED
    BY <1>3, <2>2, <2>3 DEF Held
<1>5. d.grant = NoGrantId => d.credit = 0
  BY <1>3 DEF Backed
<1>6. Moves(o, d.buyer, d.grant, -d.cash, -d.credit) /\ FInv' /\ GrantsCovered'
  BY <1>1, <1>2, <1>5, RefundMoves
<1>7. /\ new \in Order /\ order' = [order EXCEPT ![o] = new]
      /\ new.items = items /\ new.grant = d.grant /\ new.credit = d.credit
      /\ new.state = "CANCELLED"
  <2>1. order \in [OrderIds -> Order \cup {NoOrder}]
    BY DEF PInv, PurchaseTypeOK
  <2> QED
    BY <1>1, <1>2, <2>1 DEF Order
<1>8. Funded(new) /\ Backed(new)
  <2>1. new.cash = d.cash /\ new.total = d.total
    BY <1>1 DEF Order
  <2>2. Funded(new)
    BY <1>3, <1>7, <2>1 DEF Funded
  <2>3. Backed(new)
    BY <1>1, <1>3, <1>7 DEF Backed
  <2> QED
    BY <2>2, <2>3
<1> HIDE DEF new
<1>9. Held(new, balance[OrderCash(o)] + (-d.cash), balance[OrderCredit(o)] + (-d.credit))
  <2>1. Open(new) = {}
    BY <1>7 DEF Open
  <2>2. \A f : DOMAIN f = {} => SumFunction(f) = 0
    BY SumOfFunction, SumEmpty
  <2>3. balance[OrderCash(o)] + (-d.cash) = 0 /\ balance[OrderCredit(o)] + (-d.credit) = 0
    <3>1. \A n \in Nat : n + (-n) = 0
      OBVIOUS
    <3> QED
      BY <1>1, <1>4, <3>1
  <2> QED
    BY <2>1, <2>2, <2>3 DEF Held
<1>10. /\ order' \in [OrderIds -> Order \cup {NoOrder}]
       /\ OrdersFunded' /\ OrderMoney' /\ CreditConserved'
  <2>1. -d.cash \in Int /\ -d.credit \in Int
    BY <1>1
  <2> HIDE DEF d
  <2>2. d.grant = order[o].grant
    BY DEF d
  <2> QED
    BY <1>6, <1>7, <1>8, <1>9, <2>1, <2>2, OrderReplaced
<1>11. ASSUME NEW f \in OfferIds, Returns(f) PROVE offer[f] \in Offer /\ offer'[f] \in Offer
  <2>1. PICK k \in DOMAIN items : items[k].offer = f
    BY <1>11
  <2>2. offer[f] # NoOffer
    BY <2>1 DEF PInv, OrdersBacked, OffersKept
  <2>3. offer[f] \in Offer
    BY <2>2 DEF PInv, PurchaseTypeOK
  <2>4. Back(f) \in Nat
    <3> DEFINE D == {j \in DOMAIN items : items[j].offer = f}
               back == [i \in D |-> items[i].quantity]
    <3>1. IsFiniteSet(D)
      BY <1>1, ItemsFinite, FS_Subset
    <3>2. \A i \in D : back[i] \in Nat
      <4> TAKE i \in D
      <4>1. items[i] \in OrderItem
        BY <1>1
      <4> QED
        BY <4>1 DEF OrderItem
    <3>3. SumFunction(back) = SumFunctionOnSet(back, D)
      BY SumOfFunction
    <3> HIDE DEF D, back
    <3>4. SumFunctionOnSet(back, D) \in Nat
      BY <3>1, <3>2, SumNat
    <3> QED
      BY <3>3, <3>4 DEF D, back
  <2> HIDE DEF Back
  <2>5. offer'[f] = [offer[f] EXCEPT !.stock = @ + Back(f), !.version = @ + 1]
    BY <1>2, <1>11
  <2>6. offer[f].stock + Back(f) \in Nat /\ offer[f].version + 1 \in Nat
    BY <2>3, <2>4 DEF Offer
  <2> QED
    BY <2>3, <2>5, <2>6 DEF Offer
<1>12. ASSUME NEW f \in OfferIds, ~Returns(f) PROVE offer'[f] = offer[f]
  BY <1>2, <1>12
<1>13. offer' \in [OfferIds -> Offer \cup {NoOffer}]
  <2>1. \A f \in OfferIds : offer'[f] \in Offer \cup {NoOffer}
    BY <1>11, <1>12 DEF PInv, PurchaseTypeOK
  <2> QED
    BY <1>2, <2>1
<1>14. \A f \in OfferIds : offer[f] # NoOffer => offer'[f] # NoOffer
  <2>1. \A x \in Offer : x # NoOffer
    BY PurchaseAssumption DEF Offer, NoOffer
  <2> QED
    BY <1>11, <1>12, <2>1
<1>15. PurchaseTypeOK' /\ CartsOnce' /\ QuotesWhole'
  BY <1>2, <1>10, <1>13 DEF PInv, PurchaseTypeOK, CartsOnce, QuotesWhole, marketVars
<1>16. OrdersBacked'
  <2>1. \A x \in OrderIds : order'[x].items = order[x].items /\ Backed(order'[x])
    <3> TAKE x \in OrderIds
    <3>1. x = o => order'[x] = new
      BY <1>7 DEF PInv, PurchaseTypeOK
    <3>2. x # o => order'[x] = order[x]
      BY <1>7 DEF PInv, PurchaseTypeOK
    <3>3. Backed(order[x])
      BY DEF PInv, OrdersBacked
    <3> QED
      BY <1>7, <1>8, <3>1, <3>2, <3>3
  <2> QED
    BY <1>14, <2>1, OffersStay DEF PInv, OrdersBacked
<1> QED
  BY <1>6, <1>10, <1>15, <1>16 DEF PInv

\* An order that goes on to its next state keeps its lines and its money.
LEMMA NextStateStep ==
    ASSUME PInv, NEW o \in OrderIds, SellerState(o) \/ ConfirmPickup(o)
    PROVE  PInv'
<1> DEFINE d == order[o]
           e == order'[o]
<1>1. /\ UNCHANGED <<fundsVars, marketVars, address, offer, cart, quote>>
      /\ d.state \in {"PAID", "PREPARING", "READY_FOR_PICKUP"}
  BY DEF SellerState, ConfirmPickup
<1>2. d \in Order
  <2>1. d \in Order \cup {NoOrder}
    BY DEF PInv, PurchaseTypeOK
  <2> QED
    BY <1>1, <2>1 DEF NoOrder
<1>3. PICK s \in {"PREPARING", "READY_FOR_PICKUP", "COLLECTED"}, r \in Nat :
         order' = [order EXCEPT ![o] = [d EXCEPT !.state = s, !.received = r]]
  <2>1. now \in Nat /\ d.received \in Nat
    BY <1>2 DEF PInv, FInv, FundsTypeOK, Order
  <2>2. d = [d EXCEPT !.received = d.received]
    BY <1>2 DEF Order
  <2>3. CASE ConfirmPickup(o)
    <3>1. order' = [order EXCEPT ![o] = [d EXCEPT !.state = "COLLECTED", !.received = now]]
      BY <2>3 DEF ConfirmPickup, PInv, PurchaseTypeOK
    <3> QED
      BY <2>1, <3>1
  <2>4. CASE SellerState(o)
    <3>1. PICK s \in {"PREPARING", "READY_FOR_PICKUP"} : order' = [order EXCEPT ![o].state = s]
      BY <2>4 DEF SellerState
    <3>2. [d EXCEPT !.state = s] = [d EXCEPT !.state = s, !.received = d.received]
      BY <1>2 DEF Order
    <3>3. order' = [order EXCEPT ![o] = [d EXCEPT !.state = s]]
      BY <3>1 DEF PInv, PurchaseTypeOK
    <3> QED
      BY <2>1, <3>2, <3>3
  <2> QED
    BY <2>3, <2>4
<1>4. /\ e \in Order /\ e.state = s
      /\ e.items = d.items /\ e.grant = d.grant
      /\ e.cash = d.cash /\ e.credit = d.credit /\ e.total = d.total
      /\ \A x \in OrderIds : x # o => order'[x] = order[x]
      /\ order' \in [OrderIds -> Order \cup {NoOrder}]
  <2>1. order \in [OrderIds -> Order \cup {NoOrder}]
    BY DEF PInv, PurchaseTypeOK
  <2>2. [d EXCEPT !.state = s, !.received = r] \in Order
    BY <1>2 DEF Order
  <2>3. e = [d EXCEPT !.state = s, !.received = r]
    BY <1>3, <2>1
  <2> QED
    BY <1>2, <1>3, <2>1, <2>2, <2>3 DEF Order
<1>5. Open(e) = Open(d)
  BY <1>1, <1>4 DEF Open
<1>6. Backed(d) /\ Funded(d) /\ Held(d, balance[OrderCash(o)], balance[OrderCredit(o)])
  BY FundedEach, HeldEach DEF PInv, OrdersBacked
<1>7. Backed(e)
  BY <1>1, <1>4, <1>6 DEF Backed
<1>8. Funded(e)
  BY <1>4, <1>6 DEF Funded
<1>9. Held(e, balance[OrderCash(o)], balance[OrderCredit(o)])
  BY <1>4, <1>5, <1>6 DEF Held
<1> HIDE DEF d, e
<1>10. \A x \in OrderIds : order'[x].items = order[x].items /\ order'[x].grant = order[x].grant
  BY <1>4 DEF d, e
<1>11. UNCHANGED <<now, wallet, program, grant, link, members, withdrawal, balance>>
  BY <1>1 DEF fundsVars
<1>12. FInv'
  <2>1. UNCHANGED fundsVars /\ FInv
    BY <1>1 DEF PInv
  <2> QED
    BY <2>1, FundsStep
<1>13. PurchaseTypeOK' /\ CartsOnce' /\ QuotesWhole'
  BY <1>1, <1>4 DEF PInv, PurchaseTypeOK, CartsOnce, QuotesWhole, marketVars
<1>14. OrdersBacked'
  <2>1. OffersKept'
    BY <1>1, <1>10, OffersStay
  <2>2. \A x \in OrderIds : Backed(order'[x])
    BY <1>4, <1>7 DEF PInv, OrdersBacked, e
  <2> QED
    BY <2>1, <2>2 DEF OrdersBacked
<1>15. OrdersFunded'
  <2>1. \A x \in OrderIds : Funded(order'[x])
    BY <1>4, <1>8, FundedEach DEF PInv, e
  <2> QED
    BY <2>1 DEF OrdersFunded, Funded
<1>16. OrderMoney'
  <2>1. \A x \in OrderIds : Held(order'[x], balance'[OrderCash(x)], balance'[OrderCredit(x)])
    BY <1>4, <1>9, <1>11, HeldEach DEF PInv, e
  <2> QED
    BY <2>1 DEF OrderMoney, Held, Open
<1>17. CreditConserved' /\ GrantsCovered'
  <2>1. \A g \in GrantIds :
           {x \in OrderIds : order'[x].grant = g} = {x \in OrderIds : order[x].grant = g}
    BY <1>10
  <2> QED
    BY <1>11, <2>1 DEF PInv, CreditConserved, GrantsCovered
<1> QED
  BY <1>12, <1>13, <1>14, <1>15, <1>16, <1>17 DEF PInv

\* A command of Funds leaves the market, the carts, the quotes and the orders alone.
LEMMA FundsNextStep ==
    ASSUME PInv, FundsNext, UNCHANGED purchaseVars
    PROVE  PInv'
<1>1. UNCHANGED <<active, published, address, offer, cart, quote, order>>
  BY DEF purchaseVars
<1>2. FInv' /\ CreditConserved' /\ GrantsCovered'
  <2>1. FInv /\ CreditConserved /\ GrantsCovered /\ UNCHANGED order
    BY <1>1 DEF PInv
  <2> QED
    BY <2>1, FundsStep, FundsConserve
<1>3. PurchaseTypeOK' /\ CartsOnce' /\ QuotesWhole' /\ OrdersBacked' /\ OrdersFunded'
  BY <1>1 DEF PInv, PurchaseTypeOK, CartsOnce, QuotesWhole, OrdersBacked, OffersKept, OrdersFunded
<1>4. OrderMoney'
  <2>1. \A x \in OrderIds : /\ balance'[OrderCash(x)] = balance[OrderCash(x)]
                            /\ balance'[OrderCredit(x)] = balance[OrderCredit(x)]
    BY FundsKeepOrders, OrderAccount DEF PInv
  <2>2. \A x \in OrderIds : Held(order'[x], balance'[OrderCash(x)], balance'[OrderCredit(x)])
    BY <1>1, <2>1, HeldEach DEF PInv
  <2> QED
    BY <2>2 DEF OrderMoney, Held, Open
<1> QED
  BY <1>2, <1>3, <1>4 DEF PInv

LEMMA PurchaseStep == PInv /\ [PurchaseNext]_<<fundsVars, purchaseVars>> => PInv'
<1> SUFFICES ASSUME PInv, [PurchaseNext]_<<fundsVars, purchaseVars>> PROVE PInv'
  OBVIOUS
<1>1. CASE UNCHANGED <<fundsVars, purchaseVars>>
  <2>1. /\ UNCHANGED <<fundsVars, order>>
        /\ UNCHANGED <<active, published, address, offer, cart, quote>>
    BY <1>1 DEF purchaseVars
  <2>2. PurchaseTypeOK' /\ CartsOnce' /\ QuotesWhole'
    BY <2>1 DEF PInv, PurchaseTypeOK, CartsOnce, QuotesWhole
  <2> QED
    BY <2>1, <2>2, OrdersUntouched
<1>2. CASE MarketNext
  BY <1>2, StandingStep, SaveOfferStep DEF MarketNext
<1>3. CASE BuyerNext
  BY <1>3, StandingStep, SetCartStep, CreateQuoteStep, PlaceOrderStep, CancelStep, NextStateStep
  DEF BuyerNext
<1>4. CASE FundsNext /\ UNCHANGED purchaseVars
  BY <1>4, FundsNextStep
<1> QED
  BY <1>1, <1>2, <1>3, <1>4 DEF PurchaseNext

LEMMA PurchaseInvariant == PurchaseSpec => []PInv
  BY PurchaseInitInv, PurchaseStep, PTL DEF PurchaseSpec

-----------------------------------------------------------------------------
(* The theorems *)

\* Offers, carts, quotes and orders keep their types: stocks and line amounts never
\* become negative, whatever is bought, cancelled and saved anew.
THEOREM PurchaseTypeCorrect == PurchaseSpec => []PurchaseTypeOK
<1>1. PInv => PurchaseTypeOK
  BY DEF PInv
<1> QED
  BY <1>1, PurchaseInvariant, PTL

\* Every wallet, programme, grant and hold agrees with the journal through
\* purchases and cancellations as well.
THEOREM PurchaseReconciled == PurchaseSpec => []Reconciled
<1>1. PInv => Reconciled
  BY DEF PInv, FInv
<1> QED
  BY <1>1, PurchaseInvariant, PTL

\* The split of support credit over the lines of an order (PlaceOrder's loop)
\* neither loses nor invents money, for orders of any length and any prices.
THEOREM OrdersAlwaysFunded == PurchaseSpec => []OrdersFunded
<1>1. PInv => OrdersFunded
  BY DEF PInv
<1> QED
  BY <1>1, PurchaseInvariant, PTL

\* No series of purchases and cancellations mints, loses or converts a rial or
\* a rial of support: the journal holds for each order what its lines were paid,
\* per origin, and a grant is worth what it was given.
THEOREM PurchaseConservesMoney == PurchaseSpec => []OrderMoneyConserved
<1>1. PInv => OrderMoneyConserved
  BY DEF PInv, OrderMoneyConserved
<1> QED
  BY <1>1, PurchaseInvariant, PTL

\* Only PlaceOrder turns a missing order into an order.
LEMMA OnlyPlaced ==
    ASSUME PInv, [PurchaseNext]_<<fundsVars, purchaseVars>>,
           NEW o \in OrderIds, order[o] = NoOrder, order'[o] # NoOrder
    PROVE  \E q \in QuoteIds, g \in GrantIds \cup {NoGrantId}, disposition \in {"KEEP", "REMOVE"} :
              PlaceOrder(o, q, g, disposition)
<1>1. order' # order
  OBVIOUS
<1>2. ~MarketNext
  BY <1>1 DEF MarketNext, SellerStanding, CatalogState, SaveOffer
<1>3. ~(FundsNext /\ UNCHANGED purchaseVars) /\ ~UNCHANGED <<fundsVars, purchaseVars>>
  BY <1>1 DEF purchaseVars
<1>4. BuyerNext
  BY <1>2, <1>3 DEF PurchaseNext
<1>5. order \in [OrderIds -> Order \cup {NoOrder}]
  BY DEF PInv, PurchaseTypeOK
<1>6. ASSUME NEW x \in OrderIds, Cancel(x) \/ SellerState(x) \/ ConfirmPickup(x)
      PROVE  FALSE
  <2>1. order[x].state # "NONE"
    BY <1>6 DEF Cancel, Cancellable, SellerState, ConfirmPickup
  <2>2. x # o
    BY <2>1 DEF NoOrder
  <2>3. order'[o] = order[o]
    BY <1>5, <1>6, <2>2 DEF Cancel, SellerState, ConfirmPickup
  <2> QED
    BY <2>3
<1>7. ASSUME NEW x \in OrderIds, NEW q \in QuoteIds, NEW g \in GrantIds \cup {NoGrantId},
             NEW disposition \in {"KEEP", "REMOVE"}, PlaceOrder(x, q, g, disposition)
      PROVE  x = o
  BY <1>5, <1>7 DEF PlaceOrder
<1> QED
  BY <1>1, <1>4, <1>6, <1>7 DEF BuyerNext, SetCart, SaveAddress, CreateQuote

\* An order is placed on the terms in force at that moment: whatever its quote
\* said, current price, product, publication and stock, a seller in good standing
\* whose store covers the buyer's present address.
THEOREM OrdersAtCurrentTerms == PurchaseSpec => PlacedAtCurrentTerms
<1> DEFINE Terms(o) ==
       /\ order'[o].seller \in active
       /\ order'[o].city = StoreCity[order'[o].seller]
       /\ \A i \in DOMAIN order'[o].items :
            LET item == order'[o].items[i]
                f == offer[item.offer]
            IN  /\ item.product = f.product /\ item.product \in published
                /\ item.price = f.price
                /\ item.quantity <= f.stock
                /\ f.seller = order'[o].seller
<1>1. ASSUME PInv, NEW o \in OrderIds, NEW q \in QuoteIds, NEW g \in GrantIds \cup {NoGrantId},
             NEW disposition \in {"KEEP", "REMOVE"}, PlaceOrder(o, q, g, disposition)
      PROVE  Terms(o)
  <2> DEFINE b == quote[q].buyer
             s == quote[q].seller
             items == quote[q].items
  <2>1. /\ s \in active /\ address[b] = StoreCity[s]
        /\ \A i \in DOMAIN items : StillOffered(s, items[i])
    BY <1>1 DEF PlaceOrder, Covers
  <2>2. PICK credit :
           order'[o] = [state |-> "PAID", buyer |-> b, seller |-> s, city |-> address[b],
                        grant |-> g, total |-> quote[q].total, cash |-> quote[q].total - credit,
                        credit |-> credit, items |-> OrderItems(items, credit),
                        refund |-> "NONE", received |-> 0]
    <3>1. order \in [OrderIds -> Order \cup {NoOrder}]
      BY <1>1 DEF PInv, PurchaseTypeOK
    <3> QED
      BY <1>1, <3>1 DEF PlaceOrder
  <2> HIDE DEF b, s, items
  <2>3. /\ order'[o].seller = s /\ order'[o].city = address[b]
        /\ order'[o].items = OrderItems(items, credit)
    BY <2>2
  <2>4. ASSUME NEW i \in DOMAIN order'[o].items
        PROVE  /\ i \in DOMAIN items
               /\ order'[o].items[i].offer = items[i].offer
               /\ order'[o].items[i].product = items[i].product
               /\ order'[o].items[i].price = items[i].price
               /\ order'[o].items[i].quantity = items[i].quantity
    BY <2>3 DEF OrderItems
  <2>5. ASSUME NEW i \in DOMAIN items
        PROVE  /\ items[i].product = offer[items[i].offer].product
               /\ items[i].product \in published
               /\ items[i].price = offer[items[i].offer].price
               /\ items[i].quantity <= offer[items[i].offer].stock
               /\ offer[items[i].offer].seller = s
    <3>1. offer[items[i].offer].stock >= items[i].quantity
      BY <2>1 DEF StillOffered
    <3>2. offer[items[i].offer].stock \in Int /\ items[i].quantity \in Int
      <4>1. items \in Seq(QuoteItem)
        <5>1. quote[q] \in Quote
          BY <1>1 DEF PInv, PurchaseTypeOK, PlaceOrder
        <5> QED
          BY <5>1 DEF Quote, items
      <4>2. items[i] \in QuoteItem
        BY <4>1
      <4>3. offer[items[i].offer] \in Offer \cup {NoOffer}
        BY <1>1, <4>2 DEF PInv, PurchaseTypeOK, QuoteItem
      <4> QED
        BY <4>2, <4>3 DEF QuoteItem, Offer, NoOffer
    <3> QED
      BY <2>1, <3>1, <3>2 DEF StillOffered
  <2> QED
    BY <2>1, <2>3, <2>4, <2>5
<1>2. ASSUME PInv, [PurchaseNext]_<<fundsVars, purchaseVars>>
      PROVE  \A o \in OrderIds : order[o] = NoOrder /\ order'[o] # NoOrder => Terms(o)
  BY <1>1, <1>2, OnlyPlaced
<1>3. PInv /\ [PurchaseNext]_<<fundsVars, purchaseVars>>
        => [\A o \in OrderIds : order[o] = NoOrder /\ order'[o] # NoOrder => Terms(o)
           ]_<<fundsVars, purchaseVars>>
  BY <1>2
<1> QED
  BY <1>3, PurchaseInvariant, PTL DEF PurchaseSpec, PlacedAtCurrentTerms
=============================================================================
