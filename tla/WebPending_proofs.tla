-------------------------- MODULE WebPending_proofs --------------------------
(***************************************************************************)
(* The web tab for any keys, requests under way, pages and commands.       *)
(* WebInv says that a command whose result the tab has not been told is in *)
(* its store; TabInv adds what every panel on the page knows of the stores *)
(* and what the requests under way are about, so that no panel takes a     *)
(* command beside an unresolved one.                                       *)
(***************************************************************************)
EXTENDS WebPending, TLAPS

-----------------------------------------------------------------------------
(* The invariant. *)

\* The commands that were posted, and none.
Known == {k \in Keys : outcome[k] # "none"} \cup {NoKey}

Shapes ==
    /\ scenario \in Scenarios
    /\ store \in [Stores -> Known]
    /\ cmd \in [Keys -> [panel : Panels, act : Acts] \cup {NoCmd}]
    /\ outcome \in [Keys -> {"none", "unsure", "known", "dropped"}]

\* A command is given before it is posted, and belongs to its panel.
Named ==
    \A k \in Keys : /\ cmd[k] = NoCmd => outcome[k] = "none"
                    /\ cmd[k] # NoCmd => cmd[k].act \in ActsOf(cmd[k].panel)

\* What a panel without a page of its own store takes for unresolved was posted;
\* a buyer's page may also hold a command that could not be saved.
Pends(c, P) == "pending" \in DOMAIN c /\ c.pending \in P
PanelsPend(pn, P) == DOMAIN pn = InPlay /\ \A p \in InPlay \ BuyerPanels : Pends(pn[p], P)

\* A request is about a posted command, the support view's about one of its own.
Carries(fl, P, cm) ==
    /\ {"key", "panel"} \subseteq DOMAIN fl /\ fl.key \in P
    /\ fl.panel = "supportView" => /\ fl.key # NoKey
                                   /\ cm[fl.key].act \in DecisionActs \cup OperationActs
FlightsCarry(fl, P, cm) == DOMAIN fl = Flights /\ \A f \in Flights : Carries(fl[f], P, cm)

WebInv ==
    /\ Shapes /\ Named /\ UnresolvedStored
    /\ PanelsPend(panel, Known) /\ FlightsCarry(flights, Known, cmd)

-----------------------------------------------------------------------------
(* Panels. *)

LEMMA NoPanelPends == ASSUME NEW P, NoKey \in P PROVE Pends(NoPanel, P)
  BY DEF Pends, NoPanel

LEMMA ReadsPends ==
    ASSUME NEW P, NEW c, Pends(c, P), NEW ls
    PROVE  Pends(Reads(c, ls), P)
  BY DEF Pends, Reads

LEMMA ReadsAllPends ==
    ASSUME NEW P, NEW c, Pends(c, P), NEW p
    PROVE  Pends(ReadsAll(p, c), P)
  BY ReadsPends DEF ReadsAll

LEMMA FieldsPend ==
    ASSUME NEW P, NoKey \in P, NEW c, Pends(c, P)
    PROVE  /\ Pends(Free(c), P) /\ Pends(Hidden(c), P) /\ Pends(Lock(c), P)
           /\ \A k \in P : Pends(Kept(c, k), P)
  BY DEF Pends, Free, Hidden, Lock, Kept

\* What a panel finds in the stores was posted.
LEMMA RestoredPends ==
    ASSUME NEW P, NEW c, Pends(c, P), NEW st, \A s \in Stores : st[s] \in P,
           NEW p \in Panels \ BuyerPanels
    PROVE  Pends(Restored(p, c, st), P)
<1>1. /\ Pends(SellerOpsRestored(c, st), P) /\ Pends(SellerBusinessRestored(c, st), P)
      /\ Pends(SupportViewRestored(c, st), P) /\ Pends(SupportTicketsRestored(c, st), P)
      /\ Pends(AdminOpsRestored(c, st), P) /\ Pends(AdminSellersRestored(c, st), P)
      /\ Pends(OutcomesRestored(c, st), P) /\ Pends(RetentionRestored(c, st), P)
      /\ Pends(TrainingRestored(c, st), P)
  BY DEF Pends, SellerOpsRestored, SellerBusinessRestored, SupportViewRestored,
     SupportTicketsRestored, AdminOpsRestored, AdminSellersRestored, OutcomesRestored,
     RetentionRestored, TrainingRestored, Stores
<1>2. p \in {"product", "sellerOps", "sellerBusiness", "supportView", "supportTickets", "adminOps",
             "adminSellers", "outcomes", "retention", "training"}
  BY DEF Panels, BuyerPanels, SellerPanels, SupportPanels, AdminPanels
<1> QED  BY <1>1, <1>2 DEF Restored

LEMMA MountedPends ==
    ASSUME NEW P, NoKey \in P, NEW st, \A s \in Stores : st[s] \in P,
           NEW p \in Panels \ BuyerPanels
    PROVE  Pends(Mounted(p, st), P)
<1> DEFINE c == [NoPanel EXCEPT !.on = TRUE, !.active = p \notin SellerPanels]
<1>1. Pends(c, P)
  BY DEF Pends, NoPanel
<1>2. Mounted(p, st) = ReadsAll(p, Restored(p, c, st))
  BY DEF Mounted
<1> HIDE DEF c
<1> QED  BY <1>1, <1>2, RestoredPends, ReadsAllPends

LEMMA WithTicketsPend ==
    ASSUME NEW P, NoKey \in P, NEW st, \A s \in Stores : st[s] \in P,
           NEW pn, PanelsPend(pn, P)
    PROVE  PanelsPend(WithTickets(pn, st), P)
<1> DEFINE T(c) == [pn EXCEPT !["supportTickets"] = c]
<1>1. ASSUME NEW c, Pends(c, P) PROVE PanelsPend(T(c), P)
  BY <1>1 DEF PanelsPend
<1>2. "supportTickets" \in Panels \ BuyerPanels
  BY DEF Panels, BuyerPanels, SupportPanels
<1>3. Pends(Mounted("supportTickets", st), P) /\ Pends(NoPanel, P)
  BY <1>2, MountedPends, NoPanelPends
<1>4. PanelsPend(T(NoPanel), P) /\ PanelsPend(T(Mounted("supportTickets", st)), P)
  BY <1>1, <1>3
<1>5. PanelsPend(T(pn["supportTickets"]), P)
  BY DEF PanelsPend
<1>6. WithTickets(pn, st) \in {pn, T(NoPanel), T(Mounted("supportTickets", st)), T(pn["supportTickets"])}
  BY DEF WithTickets
<1> QED  BY <1>4, <1>5, <1>6

LEMMA ToldPends ==
    ASSUME NEW P, NEW st, \A s \in Stores : st[s] \in P, PanelsPend(panel, P)
    PROVE  PanelsPend(Told(st), P)
<1> SUFFICES ASSUME NEW p \in InPlay \ BuyerPanels PROVE Pends(Hears(p, panel[p], st), P)
  BY DEF PanelsPend, Told
<1> DEFINE c == panel[p]
<1>1. Pends(c, P)
  BY DEF PanelsPend
<1> HIDE DEF c
<1>2. Pends(SellerHears(c, st), P) /\ Pends(ViewHears(c, st), P) /\ Pends(TicketsHear(c, st), P)
  BY <1>1 DEF Pends, SellerHears, ViewHears, TicketsHear, Stores
<1> QED  BY <1>1, <1>2 DEF Hears, c

\* The panels of the behaviour are panels.
LEMMA InPlayPanels == ASSUME Shapes PROVE InPlay \subseteq Panels
<1>1. \A page \in scenario.pages : page \subseteq Panels
  BY WebAssumption DEF Shapes
<1>2. UNION scenario.pages \subseteq Panels
  BY <1>1
<1>3. "supportTickets" \in Panels
  BY DEF Panels, SupportPanels
<1> DEFINE tickets == IF {"supportView"} \in scenario.pages THEN {"supportTickets"} ELSE {}
<1>4. tickets \subseteq Panels
  BY <1>3
<1>5. InPlay = (UNION scenario.pages) \cup tickets
  BY Zenon DEF InPlay
<1> HIDE DEF tickets
<1> QED  BY <1>2, <1>4, <1>5

LEMMA ShownPend ==
    ASSUME NEW P, NoKey \in P, Shapes, \A s \in Stores : store[s] \in P,
           NEW page \in SUBSET Panels
    PROVE  PanelsPend(Shows(page), P)
<1>1. ASSUME NEW p \in InPlay \ BuyerPanels 
      PROVE  Pends(IF p \in page THEN Mounted(p, store) ELSE NoPanel, P)
  <2>1. p \in Panels \ BuyerPanels
    BY InPlayPanels
  <2> QED  BY <2>1, MountedPends, NoPanelPends
<1> QED  BY <1>1 DEF Shows, PanelsPend

\* What an answer makes of a panel: only the request's own command, if any, is
\* taken for unresolved again.
LEMMA SettledPends ==
    ASSUME NEW P, NoKey \in P, NEW c, Pends(c, P), NEW fl, fl.key \in P,
           fl.panel \in Panels \ BuyerPanels,
           fl.panel = "supportView" => cmd[fl.key].act \in DecisionActs \cup OperationActs
    PROVE  Pends(Settled(c, fl), P)
<1> DEFINE d == Free(c)
<1>1. Pends(d, P)
  BY FieldsPend
<1> HIDE DEF d
<1>2. /\ Pends(Hidden(d), P) /\ \A p : Pends(ReadsAll(p, d), P)
      /\ \A ls : Pends(Reads(d, ls), P)
  BY <1>1, FieldsPend, ReadsAllPends, ReadsPends
<1>3. /\ Pends(ProductSettled(c, fl), P) /\ Pends(SellerOpsSettled(c, fl), P)
      /\ Pends(SellerBusinessSettled(c, fl), P) /\ Pends(TicketsSettled(c, fl), P)
      /\ Pends(AdminOpsSettled(c, fl), P) /\ Pends(AdminSellersSettled(c, fl), P)
      /\ Pends(OutcomesSettled(c, fl), P) /\ Pends(RetentionSettled(c, fl), P)
      /\ Pends(TrainingSettled(c, fl), P)
  BY <1>1, <1>2 DEF d, ProductSettled, SellerOpsSettled, SellerBusinessSettled, TicketsSettled,
     AdminOpsSettled, AdminSellersSettled, OutcomesSettled, RetentionSettled, TrainingSettled
<1>4. Pends(UnavailabilitySettled(c, fl), P) /\ Pends(SlaSettled(c, fl), P)
  BY <1>1, <1>2 DEF d, UnavailabilitySettled, SlaSettled, Again
<1>5. Pends(DecisionSettled(c, fl), P)
  <2> DEFINE e == [c EXCEPT !.busy = FALSE, !.decision = NoKey]
  <2>1. Pends(e, P)
    BY DEF Pends
  <2> HIDE DEF e
  <2>2. Pends(Reads(e, {"main"}), P)
    BY <2>1, ReadsPends
  <2> QED  BY <2>1, <2>2 DEF e, DecisionSettled, Again
<1>6. Pends(Cleared(c, fl), P)
  <2>1. fl.panel \in {"product", "sellerOps", "sellerBusiness", "supportView", "supportTickets",
                      "adminOps", "adminSellers", "outcomes", "retention", "training"}
    BY DEF Panels, BuyerPanels, SellerPanels, SupportPanels, AdminPanels
  <2>2. fl.panel = "supportView" => cmd[fl.key].act \in DecisionActs \cup {"unavailability", "sla"}
    BY DEF OperationActs
  <2> QED  BY <1>3, <1>4, <1>5, <2>1, <2>2 DEF Cleared
<1>7. Pends(Unresolved(c, fl), P)
  <2>1. Pends([c EXCEPT !.busy = FALSE], P)
    BY DEF Pends
  <2>2. Pends(Kept(c, fl.key), P)
    BY FieldsPend
  <2> QED  BY <2>1, <2>2 DEF Unresolved
<1>8. Pends(Lock(c), P)
  BY FieldsPend
<1> QED  BY <1>6, <1>7, <1>8 DEF Settled

-----------------------------------------------------------------------------
(* The stores. *)

LEMMA StoreOfType ==
    ASSUME NEW p \in Panels, NEW a \in Acts PROVE StoreOf(p, a) \in Stores
  BY DEF Panels, BuyerPanels, SellerPanels, SupportPanels, AdminPanels, Stores, StoreOf

\* A record replaces no other command's.
LEMMA PersistsVacant ==
    ASSUME NEW s \in Stores, NEW k, Persists(s, k), s # "none"
    PROVE  Vacant(s, k)
  BY DEF Stores, Persists, BuyerPersists, SellerPersists, DecisionPersists, OperationPersists,
     AdminOpsPersists, AdminSellersPersists, OutcomePersists, RetentionPersists, TrainingPersists

\* Requests stay requests about posted commands when the tab loses its interest.
LEMMA OrphanedCarry ==
    ASSUME NEW P, NEW cm, NEW fl, FlightsCarry(fl, P, cm), NEW pn
    PROVE  FlightsCarry(Orphaned(pn, fl), P, cm)
  BY DEF FlightsCarry, Carries, Orphaned

\* Steps of the service and of the page: stores and outcomes stay.
LEMMA PageKeeps ==
    ASSUME WebInv, UNCHANGED <<store, cmd, outcome, scenario>>,
           PanelsPend(panel', Known), FlightsCarry(flights', Known, cmd)
    PROVE  WebInv'
<1>1. Known' = Known /\ InPlay' = InPlay /\ \A k : StoreFor(k)' = StoreFor(k)
  BY DEF Known, InPlay, StoreFor
<1>2. PanelsPend(panel, Known)' /\ FlightsCarry(flights, Known, cmd)'
  BY <1>1 DEF PanelsPend, FlightsCarry
<1>3. Shapes' /\ Named' /\ UnresolvedStored'
  BY <1>1 DEF WebInv, Shapes, Named, UnresolvedStored
<1> QED  BY <1>2, <1>3 DEF WebInv

LEMMA StoresKnown == ASSUME WebInv PROVE NoKey \in Known /\ \A s \in Stores : store[s] \in Known
  BY DEF WebInv, Shapes, Known

-----------------------------------------------------------------------------
(* Giving and repeating a command. *)

\* The state once command k of panel p is in the stores st and posted.
LEMMA PostPanels ==
    ASSUME WebInv, NEW p \in Panels, NEW k \in Keys, NEW a, NEW st,
           Post(p, k, a, st), UNCHANGED scenario,
           \A s \in Stores : st[s] \in Known'
    PROVE  PanelsPend(panel, Known)'
<1>1. k \in Known' /\ Known \subseteq Known' /\ NoKey \in Known'
  BY DEF WebInv, Shapes, Post, Known
<1> DEFINE Q == Known'
<1> HIDE DEF Q
<1>2. k \in Q /\ NoKey \in Q /\ Known \subseteq Q /\ \A s \in Stores : st[s] \in Q
  BY <1>1 DEF Q
<1>3. PanelsPend(panel, Q)
  BY <1>2 DEF WebInv, PanelsPend, Pends
<1>4. PanelsPend(Told(st), Q)
  BY <1>2, <1>3, ToldPends
<1> DEFINE b(c) == Begun(p, c, k, a)
           pn == [Told(st) EXCEPT ![p] = b(@)]
<1>5. \A c : Pends(c, Q) => Pends(b(c), Q)
  BY <1>2 DEF Pends, Begun
<1> HIDE DEF b
<1>6. PanelsPend(pn, Q)
  BY <1>4, <1>5 DEF PanelsPend
<1> HIDE DEF pn
<1>7. panel' = WithTickets(pn, st)
  BY DEF Post, pn, b
<1>8. PanelsPend(panel', Q)
  BY <1>2, <1>6, <1>7, WithTicketsPend
<1> QED  BY <1>8 DEF Q, PanelsPend, InPlay

LEMMA PostFlights ==
    ASSUME WebInv, NEW p \in Panels, NEW k \in Keys, NEW a, NEW st, Post(p, k, a, st),
           \A x \in Known \ {NoKey} : cmd'[x] = cmd[x],
           p = "supportView" => cmd'[k].act \in DecisionActs \cup OperationActs
    PROVE  FlightsCarry(flights, Known, cmd)'
<1>1. k \in Known' /\ Known \subseteq Known' /\ k # NoKey
  BY WebAssumption DEF WebInv, Shapes, Post, Known
<1> DEFINE r == [key |-> k, panel |-> p, live |-> TRUE, answer |-> "none"]
<1>2. r.key = k /\ r.panel = p /\ {"key", "panel"} \subseteq DOMAIN r
  OBVIOUS
<1>3. Carries(r, Known', cmd')
  BY <1>1, <1>2 DEF Carries
<1> HIDE DEF r
<1>4. PICK f \in Flights : flights' = [flights EXCEPT ![f] = r]
  BY DEF Post, r
<1>5. \A g \in Flights : Carries(flights[g], Known', cmd')
  BY <1>1 DEF WebInv, FlightsCarry, Carries
<1>6. DOMAIN flights' = Flights /\ \A g \in Flights : Carries(flights'[g], Known', cmd')
  BY <1>3, <1>4, <1>5 DEF WebInv, FlightsCarry
<1> QED  BY <1>6 DEF FlightsCarry, Carries

\* Command k is saved where it belongs, if it is not there, and posted.
LEMMA PostKeeps ==
    ASSUME WebInv, NEW p \in Panels, NEW k \in Keys, NEW a \in Acts, NEW st, Post(p, k, a, st),
           UNCHANGED scenario,
           cmd' \in [Keys -> [panel : Panels, act : Acts] \cup {NoCmd}],
           \A x \in Keys \ {k} : cmd'[x] = cmd[x], cmd[k] # NoCmd => cmd'[k] = cmd[k],
           cmd'[k] # NoCmd, cmd'[k].act \in ActsOf(cmd'[k].panel),
           p = "supportView" => cmd'[k].act \in DecisionActs \cup OperationActs,
           NEW s \in Stores, s = StoreOf(cmd'[k].panel, cmd'[k].act),
           \/ st = Saved(s, k) /\ Persists(s, k)
           \/ st = store /\ outcome[k] # "none"
    PROVE  WebInv'
<1>1. /\ outcome' \in [Keys -> {"none", "unsure", "known", "dropped"}]
      /\ outcome'[k] # "none" /\ \A x \in Keys \ {k} : outcome'[x] = outcome[x]
      /\ outcome[k] # "none" => outcome'[k] = outcome[k]
      /\ store' = st
  BY DEF WebInv, Shapes, Post
<1>2. k \in Known' /\ Known \subseteq Known' /\ k # NoKey
  BY <1>1, WebAssumption DEF Known
<1>3. /\ store' \in [Stores -> Known']
      /\ \A x \in Stores \ {s} : store'[x] = store[x]
      /\ \/ s = "none"
         \/ store'[s] = k /\ store[s] \in {NoKey, k}
         \/ store' = store /\ outcome[k] # "none"
  <2>1. CASE st = store /\ outcome[k] # "none"
    BY <1>1, <1>2, <2>1 DEF WebInv, Shapes
  <2>2. CASE st = Saved(s, k) /\ Persists(s, k) /\ s = "none"
    BY <1>1, <1>2, <2>2 DEF WebInv, Shapes, Saved
  <2>3. CASE st = Saved(s, k) /\ Persists(s, k) /\ s # "none"
    <3>1. st = [store EXCEPT ![s] = k] /\ store[s] \in {NoKey, k}
      BY <2>3, PersistsVacant DEF Saved, Vacant
    <3> QED  BY <1>1, <1>2, <3>1 DEF WebInv, Shapes
  <2> QED  BY <2>1, <2>2, <2>3
<1>4. \A x \in Keys \ {k} : StoreFor(x)' = StoreFor(x)
  BY DEF StoreFor
<1>5. StoreFor(k)' = s
  BY DEF StoreFor
<1>6. Shapes'
  BY <1>1, <1>3 DEF WebInv, Shapes
<1>7. Named'
  BY <1>1 DEF WebInv, Named
<1>8. ASSUME NEW x \in Keys, outcome'[x] = "unsure", StoreFor(x)' # "none"
      PROVE  store'[StoreFor(x)'] = x
  <2>1. CASE x = k
    <3>1. CASE store' = store /\ outcome[k] # "none"
      <4>1. cmd'[k] = cmd[k] /\ outcome[k] = "unsure"
        BY <1>1, <1>8, <2>1, <3>1 DEF WebInv, Named
      <4>2. StoreFor(k) = s
        BY <4>1 DEF StoreFor
      <4> QED  BY <1>5, <1>8, <2>1, <3>1, <4>1, <4>2 DEF WebInv, UnresolvedStored
    <3> QED  BY <1>3, <1>5, <1>8, <2>1, <3>1
  <2>2. CASE x # k
    <3>1. outcome[x] = "unsure" /\ StoreFor(x) # "none" /\ StoreFor(x)' = StoreFor(x)
      BY <1>1, <1>4, <1>8, <2>2
    <3>2. store[StoreFor(x)] = x
      BY <3>1 DEF WebInv, UnresolvedStored
    <3>3. cmd[x] # NoCmd
      BY <3>1 DEF WebInv, Named
    <3>4. cmd[x] \in [panel : Panels, act : Acts]
      BY <3>3 DEF WebInv, Shapes
    <3>5. StoreFor(x) \in Stores
      BY <3>4, StoreOfType DEF StoreFor
    <3>6. x # NoKey
      BY WebAssumption
    <3> QED  BY <1>3, <2>2, <3>1, <3>2, <3>5, <3>6
  <2> QED  BY <2>1, <2>2
<1>9. \A x \in Known \ {NoKey} : cmd'[x] = cmd[x]
  BY DEF Known, WebInv, Named
<1>10. \A x \in Stores : st[x] \in Known'
  BY <1>1, <1>3
<1>11. PanelsPend(panel, Known)'
  BY <1>10, PostPanels
<1>12. FlightsCarry(flights, Known, cmd)'
  BY <1>9, PostFlights
<1>13. UnresolvedStored'
  BY <1>8 DEF UnresolvedStored
<1> QED  BY <1>6, <1>7, <1>11, <1>12, <1>13 DEF WebInv

\* Saving failed: nothing was posted, and a panel that is no buyer's page locks.
LEMMA DoesNotSaveKeeps ==
    ASSUME WebInv, NEW p \in Panels, NEW k \in Keys, DoesNotSave(p, k), UNCHANGED scenario,
           cmd' \in [Keys -> [panel : Panels, act : Acts] \cup {NoCmd}],
           \A x \in Keys \ {k} : cmd'[x] = cmd[x],
           UNCHANGED cmd \/ (cmd[k] = NoCmd /\ cmd'[k].act \in ActsOf(cmd'[k].panel))
    PROVE  WebInv'
<1>1. Known' = Known /\ InPlay' = InPlay
  BY DEF DoesNotSave, Known, InPlay
<1>2. \A x \in Known \ {NoKey} : cmd'[x] = cmd[x]
  BY DEF Known, WebInv, Named
<1>3. Shapes' /\ Named'
  BY <1>1 DEF DoesNotSave, WebInv, Shapes, Named
<1>4. UnresolvedStored'
  <2>1. ASSUME NEW x \in Keys, outcome[x] = "unsure" PROVE StoreFor(x)' = StoreFor(x)
    <3>1. cmd'[x] = cmd[x]
      BY <2>1 DEF WebInv, Named
    <3> QED  BY <3>1 DEF StoreFor
  <2> QED  BY <2>1 DEF DoesNotSave, WebInv, UnresolvedStored
<1>5. FlightsCarry(flights, Known, cmd)'
  BY <1>1, <1>2 DEF DoesNotSave, WebInv, FlightsCarry, Carries
<1> DEFINE u(c) == Unsaved(p, c, k)
           pn == [panel EXCEPT ![p] = u(@)]
<1>6. p \notin BuyerPanels => \A c : Pends(c, Known) => Pends(u(c), Known)
  BY DEF Pends, Unsaved, OutcomeUnsaved, BuyerPanels
<1> HIDE DEF u
<1>7. PanelsPend(pn, Known)
  BY <1>6 DEF WebInv, PanelsPend
<1> HIDE DEF pn
<1>8. panel' = WithTickets(pn, store)
  BY DEF DoesNotSave, pn, u
<1>9. PanelsPend(panel', Known)
  BY <1>7, <1>8, StoresKnown, WithTicketsPend
<1>10. PanelsPend(panel, Known)'
  BY <1>1, <1>9 DEF PanelsPend
<1> QED  BY <1>3, <1>4, <1>5, <1>10 DEF WebInv

LEMMA ActsOfActs == \A p \in Panels : ActsOf(p) \subseteq Acts
  BY DEF Acts

LEMMA SupportActs == ActsOf("supportView") = DecisionActs \cup OperationActs
  BY DEF ActsOf

LEMMA GiveKeeps ==
    ASSUME WebInv, NEW p \in Panels, NEW a, NEW k \in Keys, NEW saves \in BOOLEAN, Give(p, a, k, saves)
    PROVE  WebInv'
<1> DEFINE s == StoreOf(p, a)
<1>1. /\ cmd[k] = NoCmd /\ a \in ActsOf(p) /\ a \in Acts
      /\ cmd' = [cmd EXCEPT ![k] = [panel |-> p, act |-> a]] /\ UNCHANGED scenario
  BY ActsOfActs DEF Give
<1>2. /\ cmd' \in [Keys -> [panel : Panels, act : Acts] \cup {NoCmd}]
      /\ \A x \in Keys \ {k} : cmd'[x] = cmd[x]
      /\ cmd'[k] = [panel |-> p, act |-> a]
  BY <1>1 DEF WebInv, Shapes
<1>3. cmd'[k].panel = p /\ cmd'[k].act = a /\ s \in Stores
  BY <1>1, <1>2, StoreOfType
<1>4. cmd'[k] # NoCmd
  <2>1. p # "none"
    BY DEF Panels, BuyerPanels, SellerPanels, SupportPanels, AdminPanels
  <2>2. NoCmd.panel = "none"
    BY DEF NoCmd
  <2> QED  BY <1>3, <2>1, <2>2
<1>5. p = "supportView" => cmd'[k].act \in DecisionActs \cup OperationActs
  BY <1>1, <1>3, SupportActs
<1>6. CASE saves
  <2>1. Post(p, k, a, Saved(s, k)) /\ Persists(s, k)
    BY <1>6 DEF Give
  <2> HIDE DEF s
  <2>2. s = StoreOf(cmd'[k].panel, cmd'[k].act)
    BY <1>3 DEF s
  <2> QED  BY <1>1, <1>2, <1>3, <1>4, <1>5, <2>1, <2>2, PostKeeps
<1>7. CASE ~saves
  <2>1. DoesNotSave(p, k)
    BY <1>7 DEF Give
  <2> QED  BY <1>1, <1>2, <1>3, <2>1, DoesNotSaveKeeps
<1> QED  BY <1>6, <1>7

LEMMA RepeatKeeps ==
    ASSUME WebInv, NEW p \in InPlay, NEW k \in Keys, NEW saves \in BOOLEAN, Repeat(p, k, saves)
    PROVE  WebInv'
<1> DEFINE s == StoreFor(k)
<1>1. /\ cmd[k] # NoCmd /\ UNCHANGED <<cmd, scenario>> /\ p \in Panels /\ CanRepeat(p, panel[p], k)
  BY InPlayPanels DEF Repeat, WebInv
<1>2. /\ cmd[k] \in [panel : Panels, act : Acts] /\ cmd[k].act \in ActsOf(cmd[k].panel)
      /\ cmd[k].act \in Acts /\ s \in Stores
  <2>1. cmd[k] \in [panel : Panels, act : Acts]
    BY <1>1 DEF WebInv, Shapes
  <2> QED  BY <1>1, <2>1, StoreOfType DEF StoreFor, WebInv, Named
<1>3. p = "supportView" => cmd[k].act \in DecisionActs \cup OperationActs
  <2>1. p = "supportView" => cmd[k].panel = p
    BY <1>1 DEF CanRepeat, SupportPanels
  <2> QED  BY <1>2, <2>1, SupportActs
<1>4. CASE ~saves
  <2>1. DoesNotSave(p, k)
    BY <1>4 DEF Repeat
  <2>2. cmd' \in [Keys -> [panel : Panels, act : Acts] \cup {NoCmd}]
    BY <1>1 DEF WebInv, Shapes
  <2> QED  BY <1>1, <2>1, <2>2, DoesNotSaveKeeps
<1> DEFINE st == IF SavesAgain(p) THEN Saved(s, k) ELSE store
<1>5. CASE saves
  <2>1. Post(p, k, cmd[k].act, st) /\ (SavesAgain(p) => Persists(s, k))
    BY <1>5 DEF Repeat
  <2>2. \/ st = Saved(s, k) /\ Persists(s, k)
        \/ st = store /\ outcome[k] # "none"
    <3>1. CASE SavesAgain(p)
      BY <2>1, <3>1
    <3>2. CASE ~SavesAgain(p)
      <4>1. p \in InPlay \ BuyerPanels /\ panel[p].pending = k
        BY <1>1, <3>2 DEF SavesAgain, CanRepeat
      <4>2. k \in Known
        BY <4>1 DEF WebInv, PanelsPend, Pends
      <4>3. outcome[k] # "none"
        BY <4>2, WebAssumption DEF Known
      <4> QED  BY <3>2, <4>3
    <3> QED  BY <3>1, <3>2
  <2> HIDE DEF st, s
  <2>3. cmd' \in [Keys -> [panel : Panels, act : Acts] \cup {NoCmd}]
        /\ s = StoreOf(cmd'[k].panel, cmd'[k].act)
    BY <1>1 DEF WebInv, Shapes, s, StoreFor
  <2> QED  BY <1>1, <1>2, <1>3, <2>1, <2>2, <2>3, PostKeeps
<1> QED  BY <1>4, <1>5

-----------------------------------------------------------------------------
(* The service, and the page. *)

LEMMA AnswerCarries ==
    ASSUME WebInv, NEW f \in Flights, NEW answer, flights' = [flights EXCEPT ![f].answer = answer]
    PROVE  FlightsCarry(flights', Known, cmd)
  BY DEF WebInv, FlightsCarry, Carries

LEMMA ServedKeeps ==
    ASSUME WebInv, NEW f \in Flights, Serve(f) \/ TimesOut(f) PROVE WebInv'
<1>1. UNCHANGED <<store, cmd, panel, outcome, scenario>>
  BY DEF Serve, TimesOut
<1>2. \E answer : flights' = [flights EXCEPT ![f].answer = answer]
  BY DEF Serve, TimesOut, Answer
<1>3. FlightsCarry(flights', Known, cmd)
  BY <1>2, AnswerCarries
<1> QED  BY <1>1, <1>3, PageKeeps DEF WebInv

LEMMA ElsewhereKeeps ==
    ASSUME WebInv, UNCHANGED <<store, cmd, panel, flights, outcome, scenario>> PROVE WebInv'
  BY PageKeeps DEF WebInv

LEMMA ReadEndsKeeps ==
    ASSUME WebInv, NEW p \in InPlay, NEW result \in {"ready", "error", "denied"}, NEW l,
           ReadEnds(p, l, result)
    PROVE  WebInv'
<1> DEFINE d == [panel[p] EXCEPT !.loading = @ \ {l}]
           r == [d EXCEPT !.ready = @ \cup {l},
                          !.offered = @ \cup {a \in possible \cap ActsOf(p) : ListOf(a) = l}]
           e == [d EXCEPT !.denied = TRUE]
           c == CASE result = "ready" -> r [] result = "error" -> d [] result = "denied" -> e
           pn == [panel EXCEPT ![p] = c]
<1>1. panel' = WithTickets(pn, store) /\ UNCHANGED <<store, cmd, flights, outcome, scenario>>
  BY DEF ReadEnds
<1>2. p \notin BuyerPanels => Pends(panel[p], Known)
  BY DEF WebInv, PanelsPend
<1>3. p \notin BuyerPanels => Pends(d, Known) /\ Pends(r, Known) /\ Pends(e, Known)
  BY <1>2 DEF Pends
<1> HIDE DEF d, r, e
<1>4. p \notin BuyerPanels => Pends(c, Known)
  BY <1>3
<1> HIDE DEF c
<1>5. PanelsPend(pn, Known)
  BY <1>4 DEF WebInv, PanelsPend
<1> HIDE DEF pn
<1>6. PanelsPend(panel', Known)
  BY <1>1, <1>5, StoresKnown, WithTicketsPend
<1> QED  BY <1>1, <1>6, PageKeeps DEF WebInv

LEMMA ReadKeeps ==
    ASSUME WebInv, NEW p \in InPlay, NEW l, Read(p, l) PROVE WebInv'
<1> DEFINE c == Reads(panel[p], {l})
           pn == [panel EXCEPT ![p] = c]
           shown == WithTickets(pn, store)
<1>1. panel' = shown /\ flights' = Orphaned(shown, flights) /\ UNCHANGED <<store, cmd, outcome, scenario>>
  BY DEF Read
<1>2. p \notin BuyerPanels => Pends(c, Known)
  BY ReadsPends DEF WebInv, PanelsPend
<1> HIDE DEF c
<1>3. PanelsPend(pn, Known)
  BY <1>2 DEF WebInv, PanelsPend
<1> HIDE DEF pn
<1>4. PanelsPend(panel', Known)
  BY <1>1, <1>3, StoresKnown, WithTicketsPend
<1> HIDE DEF shown
<1>5. FlightsCarry(flights', Known, cmd)
  BY <1>1, OrphanedCarry DEF WebInv
<1> QED  BY <1>1, <1>4, <1>5, PageKeeps

LEMMA ActivateKeeps ==
    ASSUME WebInv, NEW p \in InPlay, Activate(p) PROVE WebInv'
<1> DEFINE c == [panel[p] EXCEPT !.active = TRUE]
<1>1. panel' = [panel EXCEPT ![p] = ReadsAll(p, c)] /\ UNCHANGED <<store, cmd, flights, outcome, scenario>>
  BY DEF Activate
<1>2. p \notin BuyerPanels => Pends(c, Known)
  BY DEF WebInv, PanelsPend, Pends
<1> HIDE DEF c
<1>3. p \notin BuyerPanels => Pends(ReadsAll(p, c), Known)
  BY <1>2, ReadsAllPends
<1>4. PanelsPend(panel', Known)
  BY <1>1, <1>3 DEF WebInv, PanelsPend
<1> QED  BY <1>1, <1>4, PageKeeps DEF WebInv

LEMMA PageFacts ==
    ASSUME WebInv
    PROVE  /\ \A page \in scenario.pages : PanelsPend(Shows(page), Known)
           /\ PanelsPend(Shows(OnPage \ {"supportTickets"}), Known)
           /\ PanelsPend([p \in InPlay |-> NoPanel], Known)
<1>1. Shapes /\ OnPage \ {"supportTickets"} \subseteq Panels
  BY InPlayPanels DEF WebInv, OnPage
<1>2. \A page \in scenario.pages : page \subseteq Panels
  BY <1>1, WebAssumption DEF Shapes
<1>3. Pends(NoPanel, Known)
  BY StoresKnown, NoPanelPends
<1> QED  BY <1>1, <1>2, <1>3, StoresKnown, ShownPend DEF PanelsPend

LEMMA EnterKeeps ==
    ASSUME WebInv, NEW page \in scenario.pages, Enter(page) PROVE WebInv'
  BY PageFacts, PageKeeps DEF Enter, WebInv

LEMMA LeaveKeeps == ASSUME WebInv, Leave PROVE WebInv'
<1>1. PanelsPend(panel', Known) /\ FlightsCarry(flights', Known, cmd)
  BY PageFacts, OrphanedCarry DEF Leave, WebInv
<1> QED  BY <1>1, PageKeeps DEF Leave

LEMMA ReloadKeeps == ASSUME WebInv, Reload PROVE WebInv'
<1>1. PanelsPend(panel', Known)
  BY PageFacts DEF Reload
<1>2. {"key", "panel"} \subseteq DOMAIN NoFlight /\ NoFlight.key \in Known /\ NoFlight.panel # "supportView"
  BY DEF NoFlight, Known
<1>3. FlightsCarry(flights', Known, cmd)
  BY <1>2 DEF Reload, FlightsCarry, Carries
<1> QED  BY <1>1, <1>3, PageKeeps DEF Reload

-----------------------------------------------------------------------------
(* The answer arrives. *)

LEMMA SettleKeeps ==
    ASSUME WebInv, NEW f \in Flights, NEW historyFails \in BOOLEAN, Settle(f, historyFails)
    PROVE  WebInv'
<1> DEFINE fl == flights[f]
           s  == StoreFor(fl.key)
           st == IF Clears(fl) /\ s # "none" THEN Removed(s, fl.key) ELSE store
           c  == Settled(Told(st)[fl.panel], fl)
           d  == IF historyFails THEN Kept(c, fl.key) ELSE c
           pn == [Told(st) EXCEPT ![fl.panel] = d]
           shown == WithTickets(pn, st)
<1>1. /\ store' = st /\ panel' = shown
      /\ flights' = Orphaned(shown, [flights EXCEPT ![f] = NoFlight])
      /\ outcome' = [outcome EXCEPT ![fl.key] = Learned(@, fl)]
      /\ UNCHANGED <<cmd, scenario>>
  BY DEF Settle
<1>2. /\ {"key", "panel"} \subseteq DOMAIN fl /\ fl.key \in Known
      /\ fl.panel = "supportView" => cmd[fl.key].act \in DecisionActs \cup OperationActs
  BY DEF WebInv, FlightsCarry, Carries
<1> HIDE DEF fl
<1>3. st \in [Stores -> Known] /\ \A x \in Stores : st[x] = store[x] \/ (store[x] = fl.key /\ Clears(fl))
  <2>1. \/ st = store
        \/ st = [store EXCEPT ![s] = NoKey] /\ store[s] = fl.key /\ Clears(fl)
    BY DEF Removed
  <2> HIDE DEF st, s
  <2>2. store \in [Stores -> Known] /\ NoKey \in Known
    BY StoresKnown DEF WebInv, Shapes
  <2>3. CASE st = store
    BY <2>2, <2>3
  <2>4. CASE st = [store EXCEPT ![s] = NoKey] /\ store[s] = fl.key /\ Clears(fl)
    BY <2>2, <2>4
  <2> QED  BY <2>1, <2>3, <2>4
<1>4. \A x \in Keys : \/ outcome'[x] = outcome[x]
                      \/ x = fl.key /\ Clears(fl) /\ outcome[x] = "unsure"
                         /\ outcome'[x] \in {"known", "dropped"}
  <2>1. \A o : \/ Learned(o, fl) = o
               \/ Clears(fl) /\ o = "unsure" /\ Learned(o, fl) \in {"known", "dropped"}
    BY DEF Learned
  <2>2. \A x \in Keys : outcome'[x] = IF x = fl.key THEN Learned(outcome[x], fl) ELSE outcome[x]
    <3>1. /\ outcome' = [outcome EXCEPT ![fl.key] = Learned(outcome[fl.key], fl)]
          /\ outcome \in [Keys -> {"none", "unsure", "known", "dropped"}]
      BY <1>1 DEF WebInv, Shapes
    <3> QED  BY <3>1
  <2> QED  BY <2>1, <2>2
<1>5. outcome' \in [Keys -> {"none", "unsure", "known", "dropped"}] /\ Known' = Known
  <2>1. outcome' \in [Keys -> {"none", "unsure", "known", "dropped"}]
    BY <1>1 DEF WebInv, Shapes, Learned
  <2> QED  BY <1>4, <2>1 DEF Known
<1>6. Shapes' /\ Named'
  BY <1>1, <1>3, <1>4, <1>5 DEF WebInv, Shapes, Named
<1>7. UnresolvedStored'
  <2> SUFFICES ASSUME NEW x \in Keys, outcome'[x] = "unsure", StoreFor(x)' # "none"
               PROVE  store'[StoreFor(x)'] = x
    BY DEF UnresolvedStored
  <2>1. outcome[x] = "unsure" /\ StoreFor(x)' = StoreFor(x) /\ store[StoreFor(x)] = x
    BY <1>1, <1>4 DEF StoreFor, WebInv, UnresolvedStored
  <2>2. cmd[x] \in [panel : Panels, act : Acts]
    BY <2>1 DEF WebInv, Shapes, Named
  <2>3. StoreFor(x) \in Stores
    BY <2>2, StoreOfType DEF StoreFor
  <2>4. CASE st[StoreFor(x)] = store[StoreFor(x)]
    BY <1>1, <2>1, <2>4
  <2>5. CASE store[StoreFor(x)] = fl.key /\ Clears(fl)
    <3>1. x = fl.key /\ outcome'[x] \in {"known", "dropped"}
      BY <1>1, <2>1, <2>5 DEF WebInv, Shapes, Learned
    <3> QED  BY <3>1
  <2> QED  BY <1>3, <2>3, <2>4, <2>5
<1> HIDE DEF st
<1>8. NoKey \in Known /\ \A x \in Stores : st[x] \in Known
  BY <1>3, StoresKnown
<1>9. PanelsPend(Told(st), Known)
  BY <1>8, ToldPends DEF WebInv
<1>10. fl.panel \in InPlay \ BuyerPanels => Pends(c, Known)
  <2> SUFFICES ASSUME fl.panel \in InPlay \ BuyerPanels PROVE Pends(c, Known)
    OBVIOUS
  <2> DEFINE before == Told(st)[fl.panel]
  <2>1. Pends(before, Known) /\ fl.panel \in Panels \ BuyerPanels
    BY <1>9, InPlayPanels DEF PanelsPend, WebInv
  <2> HIDE DEF before
  <2>2. Pends(Settled(before, fl), Known)
    BY <1>2, <1>8, <2>1, SettledPends
  <2> QED  BY <2>2 DEF before
<1> HIDE DEF c
<1>11. fl.panel \in InPlay \ BuyerPanels => Pends(d, Known)
  BY <1>2, <1>8, <1>10, FieldsPend
<1> HIDE DEF d
<1>12. PanelsPend(pn, Known)
  BY <1>9, <1>11 DEF PanelsPend
<1> HIDE DEF pn
<1>13. PanelsPend(shown, Known)
  BY <1>8, <1>12, WithTicketsPend
<1> HIDE DEF shown
<1>14. FlightsCarry([flights EXCEPT ![f] = NoFlight], Known, cmd)
  <2>1. {"key", "panel"} \subseteq DOMAIN NoFlight /\ NoFlight.key \in Known /\ NoFlight.panel # "supportView"
    BY <1>8 DEF NoFlight
  <2> QED  BY <2>1 DEF WebInv, FlightsCarry, Carries
<1>15. FlightsCarry(flights', Known, cmd)
  BY <1>1, <1>14, OrphanedCarry
<1>16. PanelsPend(panel, Known)' /\ FlightsCarry(flights, Known, cmd)'
  BY <1>1, <1>5, <1>13, <1>15 DEF PanelsPend, FlightsCarry, InPlay
<1> QED  BY <1>6, <1>7, <1>16 DEF WebInv

-----------------------------------------------------------------------------
(* Together. *)

LEMMA WebStep == ASSUME WebInv, [WebNext]_vars PROVE WebInv'
<1>1. CASE UNCHANGED vars
  BY <1>1, ElsewhereKeeps DEF vars
<1>2. OnPage \subseteq InPlay /\ InPlay \subseteq Panels
  BY InPlayPanels DEF OnPage, WebInv
<1>3. ASSUME NEW p \in OnPage, NEW k \in Keys, NEW saves \in BOOLEAN,
             (\E a \in ActsOf(p) \cap scenario.acts : Give(p, a, k, saves)) \/ Repeat(p, k, saves)
      PROVE  WebInv'
  BY <1>2, <1>3, GiveKeeps, RepeatKeeps
<1>4. ASSUME NEW f \in Flights, Serve(f) \/ TimesOut(f) PROVE WebInv'
  BY <1>4, ServedKeeps
<1>5. ASSUME (\E k \in Keys : Late(k)) \/ (\E a \in scenario.acts : Elsewhere(a)) PROVE WebInv'
  BY <1>5, ElsewhereKeeps DEF Late, Elsewhere
<1>6. ASSUME NEW f \in Flights, NEW historyFails \in BOOLEAN, Settle(f, historyFails) PROVE WebInv'
  BY <1>6, SettleKeeps
<1>7. ASSUME NEW p \in OnPage, NEW result \in {"ready", "error", "denied"},
             NEW l \in panel[p].loading, ReadEnds(p, l, result)
      PROVE  WebInv'
  BY <1>2, <1>7, ReadEndsKeeps
<1>8. ASSUME NEW p \in OnPage, (\E l \in ListsOf(p) : Read(p, l)) \/ Activate(p) PROVE WebInv'
  BY <1>2, <1>8, ReadKeeps, ActivateKeeps
<1>9. ASSUME (\E page \in scenario.pages : Enter(page)) \/ Leave \/ Reload PROVE WebInv'
  BY <1>9, EnterKeeps, LeaveKeeps, ReloadKeeps
<1> QED  BY <1>1, <1>3, <1>4, <1>5, <1>6, <1>7, <1>8, <1>9 DEF WebNext

LEMMA WebInitial == ASSUME WebInit PROVE WebInv
<1>1. NoKey \in Known
  BY DEF Known
<1>2. Shapes /\ Named /\ UnresolvedStored
  BY <1>1 DEF WebInit, Shapes, Named, UnresolvedStored
<1>3. PanelsPend(panel, Known)
  BY <1>1, NoPanelPends DEF WebInit, PanelsPend
<1>4. {"key", "panel"} \subseteq DOMAIN NoFlight /\ NoFlight.key \in Known /\ NoFlight.panel # "supportView"
  BY <1>1 DEF NoFlight
<1>5. FlightsCarry(flights, Known, cmd)
  BY <1>4 DEF WebInit, FlightsCarry, Carries
<1> QED  BY <1>2, <1>3, <1>5 DEF WebInv

\* For any keys, pages and commands, any number of requests at a time, and
\* whatever is reloaded, left, lost or answered late: a command whose result the
\* tab has not been told is in the store of its panel, under its own key
\* (web-pending-*.ts and the panels' sendIntent, mutate and restore).
THEOREM AlwaysStored == WebSpec => []UnresolvedStored
<1>1. WebInv /\ [WebNext]_vars => WebInv'
  BY WebStep
<1>2. WebInit => WebInv
  BY WebInitial
<1>3. WebInv => UnresolvedStored
  BY DEF WebInv
<1> QED  BY <1>1, <1>2, <1>3, PTL DEF WebSpec

-----------------------------------------------------------------------------
(* What the panels know of the stores.  The panels learn of the stores when  *)
(* they are mounted and by events; a panel on the page that is not locked    *)
(* and has nothing pending has an empty store, or, on a buyer's page, a      *)
(* store with the command of another page.                                   *)

PendStore(p) ==
    CASE p \in BuyerPanels   -> "buyer"
      [] p \in SellerPanels  -> "seller"
      [] p \in SupportPanels -> "operation"
      [] p \in AdminPanels   -> p
      [] OTHER               -> "none"

\* The panels with a store of their own, and the buyer's, take no other panel's command.
Own(p, c, cm) ==
    p \notin SellerPanels \cup SupportPanels /\ c.pending # NoKey => cm[c.pending].panel = p

Learnt(p, c, st, cm) ==
    /\ p \in BuyerPanels => c.pending = st["buyer"] \/ st["buyer"] = NoKey \/ cm[st["buyer"]].panel # p
    /\ p \notin BuyerPanels /\ ~c.locked /\ c.pending = NoKey => st[PendStore(p)] = NoKey
    /\ p = "supportView" /\ ~c.locked /\ c.decision = NoKey => st["decision"] = NoKey
    /\ p = "supportTickets" /\ ~c.locked /\ ~c.frozen => st["decision"] = NoKey

Fits(p, c, st, cm) == c \in Panel /\ Own(p, c, cm) /\ (c.on => Learnt(p, c, st, cm))
Fitting(pn, st, cm) == pn = [p \in InPlay |-> pn[p]] /\ \A p \in InPlay : Fits(p, pn[p], st, cm)

\* A store holds a command of its own kind.
Filed(st, cm) ==
    /\ st \in [Stores -> Keys \cup {NoKey}] /\ st["none"] = NoKey
    /\ \A s \in Stores : st[s] # NoKey =>
          /\ cm[st[s]].panel \in Panels /\ cm[st[s]].act \in ActsOf(cm[st[s]].panel)
          /\ StoreOf(cm[st[s]].panel, cm[st[s]].act) = s

\* A buyer's page with a request under way is busy with it.
Holds(fl, pn) == fl.live /\ fl.panel \in BuyerPanels =>
                     pn[fl.panel].on /\ pn[fl.panel].busy /\ pn[fl.panel].pending = fl.key
Flying == [key : Keys, panel : InPlay, live : BOOLEAN, answer : Answers \cup {"none"}]
Awaits(fl, pn, cm, told) ==
    \/ fl = NoFlight
    \/ /\ fl \in Flying /\ told[fl.key] # "none" /\ cm[fl.key].panel = fl.panel
       /\ Holds(fl, pn)
Alone(fs) ==
    \A f, g \in Flights : /\ fs[f].live /\ fs[g].live
                          /\ fs[f].panel = fs[g].panel /\ fs[f].panel \in BuyerPanels
                          => f = g
Awaited(fs, pn, cm, told) ==
    /\ fs = [f \in Flights |-> fs[f]] /\ Alone(fs)
    /\ \A f \in Flights : Awaits(fs[f], pn, cm, told)

Served ==
    /\ late \subseteq Keys /\ executed \subseteq Keys /\ possible \subseteq Acts
    /\ \A k \in late \cup executed : outcome[k] # "none"

TabInv ==
    /\ WebInv /\ Filed(store, cmd) /\ Fitting(panel, store, cmd)
    /\ Awaited(flights, panel, cmd, outcome) /\ Served /\ OneSupportCommand

\* The panels by their parts of the site.
LEMMA PanelCases ==
    ASSUME NEW p \in Panels
    PROVE  p \in {"product", "cart", "checkout", "orders", "wallet", "account", "sellerOps",
                  "sellerBusiness", "supportView", "supportTickets", "adminOps", "adminSellers",
                  "outcomes", "retention", "training"}
  BY DEF Panels, BuyerPanels, SellerPanels, SupportPanels, AdminPanels

LEMMA PendStores ==
    /\ \A p \in BuyerPanels : PendStore(p) = "buyer"
    /\ \A p \in SellerPanels : PendStore(p) = "seller" /\ p \notin BuyerPanels
    /\ \A p \in SupportPanels : PendStore(p) = "operation" /\ p \notin BuyerPanels
    /\ \A p \in AdminPanels : PendStore(p) = p /\ p \notin BuyerPanels
    /\ PendStore("product") = "none" /\ "product" \notin BuyerPanels
  BY DEF PendStore, BuyerPanels, SellerPanels, SupportPanels, AdminPanels

\* Which commands a store holds.
LEMMA StoreHolds ==
    ASSUME NEW p \in Panels, NEW a \in ActsOf(p)
    PROVE  /\ StoreOf(p, a) = "buyer" <=> p \in BuyerPanels
           /\ StoreOf(p, a) = "seller" <=> p \in SellerPanels
           /\ StoreOf(p, a) = "decision" <=> p = "supportView" /\ a \in DecisionActs
           /\ StoreOf(p, a) = "operation" <=> p \in SupportPanels /\ a \notin DecisionActs
           /\ StoreOf(p, a) = "none" <=> p = "product"
           /\ \A q \in AdminPanels : StoreOf(p, a) = q <=> p = q
           /\ StoreOf(p, a) \in Stores
           /\ a \notin DecisionActs \/ p = "supportView"
<1>1. a \in DecisionActs <=> p = "supportView" /\ a = "decide"
  BY PanelCases DEF ActsOf, ProductActs, CartActs, CheckoutActs, OrdersActs, WalletActs, AccountActs,
     SellerOpsActs, SellerBusinessActs, DecisionActs, OperationActs, ReplyActs, AdminOpsActs,
     AdminSellersActs, OutcomeActs, RetentionActs, TrainingActs
<1>2. /\ p = "product" => StoreOf(p, a) = "none"
      /\ p \in BuyerPanels => StoreOf(p, a) = "buyer"
  BY DEF StoreOf, BuyerPanels, SellerPanels, SupportPanels, AdminPanels
<1>3. p \in SellerPanels => StoreOf(p, a) = "seller"
  BY DEF StoreOf, BuyerPanels, SellerPanels, SupportPanels, AdminPanels
<1>4. p \in SupportPanels => StoreOf(p, a) = IF a \in DecisionActs THEN "decision" ELSE "operation"
  BY DEF StoreOf, BuyerPanels, SellerPanels, SupportPanels, AdminPanels
<1>5. p \in AdminPanels => StoreOf(p, a) = p
  BY DEF StoreOf, BuyerPanels, SellerPanels, SupportPanels, AdminPanels
<1>6. CASE p = "product" \/ p \in BuyerPanels
  BY <1>1, <1>2, <1>6 DEF BuyerPanels, SellerPanels, SupportPanels, AdminPanels, Stores
<1>7. CASE p \in SellerPanels
  BY <1>1, <1>3, <1>7 DEF BuyerPanels, SellerPanels, SupportPanels, AdminPanels, Stores
<1>8. CASE p \in SupportPanels
  BY <1>1, <1>4, <1>8 DEF BuyerPanels, SellerPanels, SupportPanels, AdminPanels, Stores
<1>9. CASE p \in AdminPanels
  BY <1>1, <1>5, <1>9 DEF BuyerPanels, SellerPanels, SupportPanels, AdminPanels, Stores
<1> QED  BY <1>6, <1>7, <1>8, <1>9 DEF Panels

LEMMA NoPanelFits == ASSUME NEW p, NEW st, NEW cm PROVE Fits(p, NoPanel, st, cm)
  BY DEF Fits, Own, NoPanel, Panel

\* A panel fits as before when what it knows of the stores stays.
LEMMA SameFits ==
    ASSUME NEW p, NEW st, NEW cm, NEW c, Fits(p, c, st, cm), NEW d \in Panel,
           d.on => c.on, d.pending = c.pending, d.decision = c.decision, d.frozen = c.frozen,
           c.locked => d.locked
    PROVE  Fits(p, d, st, cm)
  BY DEF Fits, Own, Learnt

LEMMA ReadsRecord ==
    ASSUME NEW c \in Panel, NEW ls \in SUBSET Lists
    PROVE  /\ Reads(c, ls) \in Panel /\ Reads(c, ls).on = c.on /\ Reads(c, ls).pending = c.pending
           /\ Reads(c, ls).decision = c.decision /\ Reads(c, ls).frozen = c.frozen
           /\ Reads(c, ls).locked = c.locked /\ Reads(c, ls).busy = c.busy
<1> DEFINE l == c.loading \cup ls
           r == c.ready \ ls
           o == {a \in c.offered : ListOf(a) \notin ls}
           d == [c EXCEPT !.loading = l, !.ready = r, !.offered = o]
<1>1. l \in SUBSET Lists /\ r \in SUBSET Lists /\ o \in SUBSET Acts
  BY DEF Panel
<1>2. Reads(c, ls) = d
  BY DEF Reads
<1> HIDE DEF l, r, o
<1>3. /\ d \in Panel /\ d.on = c.on /\ d.pending = c.pending /\ d.decision = c.decision
      /\ d.frozen = c.frozen /\ d.locked = c.locked /\ d.busy = c.busy
  BY <1>1 DEF Panel
<1> QED  BY <1>2, <1>3

LEMMA ReadsFit ==
    ASSUME NEW p, NEW st, NEW cm, NEW c, Fits(p, c, st, cm), NEW ls \in SUBSET Lists
    PROVE  Fits(p, Reads(c, ls), st, cm)
<1>1. c \in Panel
  BY DEF Fits
<1> DEFINE d == Reads(c, ls)
<1>2. /\ d \in Panel /\ d.on = c.on /\ d.pending = c.pending /\ d.decision = c.decision
      /\ d.frozen = c.frozen /\ d.locked = c.locked
  BY <1>1, ReadsRecord
<1> HIDE DEF d
<1>3. Fits(p, d, st, cm)
  BY <1>2, SameFits
<1> QED  BY <1>3 DEF d

\* The lists the panels read are lists.
LEMMA SomeLists == "main" \in Lists /\ "tickets" \in Lists
<1>1. "cancel" \in Acts /\ ListOf("cancel") = "main"
  <2>1. "cancel" \in ActsOf("orders") /\ "orders" \in Panels
    BY DEF ActsOf, OrdersActs, Panels, BuyerPanels, SellerPanels
  <2>2. ListOf("cancel") = "main"
    BY DEF ListOf, AdminSellersActs
  <2> QED  BY <2>1, <2>2 DEF Acts
<1>2. "reply" \in Acts /\ ListOf("reply") = "tickets"
  <2>1. "reply" \in ActsOf("supportTickets") /\ "supportTickets" \in Panels
    BY DEF ActsOf, ReplyActs, Panels, BuyerPanels, SellerPanels, SupportPanels
  <2>2. ListOf("reply") = "tickets"
    BY DEF ListOf, AdminSellersActs
  <2> QED  BY <2>1, <2>2 DEF Acts
<1> QED  BY <1>1, <1>2 DEF Lists

LEMMA ListsAreLists == ASSUME Shapes, NEW p PROVE ListsOf(p) \in SUBSET Lists /\ ReadAtOnce(p) \in SUBSET Lists
<1>1. scenario.acts \subseteq Acts
  BY WebAssumption DEF Shapes
<1>2. ListsOf(p) \in SUBSET Lists
  BY <1>1, SomeLists DEF ListsOf, Lists
<1> QED  BY <1>2 DEF ReadAtOnce

LEMMA ReadsAllFit ==
    ASSUME Shapes, NEW p, NEW q, NEW st, NEW cm, NEW c, Fits(p, c, st, cm)
    PROVE  Fits(p, ReadsAll(q, c), st, cm)
  BY ListsAreLists, ReadsFit DEF ReadsAll

-----------------------------------------------------------------------------
(* Mounting. *)

\* A panel that takes its unresolved command from its store fits.
LEMMA TakesFit ==
    ASSUME NEW st, NEW cm, Filed(st, cm), NEW p \in Panels, p # "supportView", p # "supportTickets",
           NEW c \in Panel, c.pending = st[PendStore(p)],
           p \in BuyerPanels => st["buyer"] = NoKey \/ cm[st["buyer"]].panel = p
    PROVE  Fits(p, c, st, cm)
<1>1. CASE p \in BuyerPanels
  BY <1>1, PendStores DEF Fits, Own, Learnt
<1>2. CASE p \in SellerPanels
  BY <1>2, PendStores DEF Fits, Own, Learnt
<1>3. CASE p \in AdminPanels
  <2>1. st[p] # NoKey => cm[st[p]].panel = p
    <3> SUFFICES ASSUME st[p] # NoKey PROVE cm[st[p]].panel = p
      OBVIOUS
    <3>1. p \in Stores
      BY <1>3 DEF AdminPanels, Stores
    <3>2. /\ cm[st[p]].panel \in Panels /\ cm[st[p]].act \in ActsOf(cm[st[p]].panel)
          /\ StoreOf(cm[st[p]].panel, cm[st[p]].act) = p
      BY <3>1 DEF Filed
    <3> QED  BY <1>3, <3>2, StoreHolds
  <2> QED  BY <1>3, <2>1, PendStores DEF Fits, Own, Learnt
<1>4. CASE p = "product"
  BY <1>4, PendStores DEF Fits, Own, Learnt, Filed
<1> QED  BY <1>1, <1>2, <1>3, <1>4 DEF Panels, SupportPanels

\* A panel as it is before it looks into the stores.
Blank(c) == c \in Panel /\ c.pending = NoKey /\ c.decision = NoKey /\ c.locked = FALSE

LEMMA BuyerFits ==
    ASSUME NEW st, Filed(st, cmd), NEW p \in BuyerPanels, NEW c, Blank(c)
    PROVE  Fits(p, BuyerRestored(p, c, st), st, cmd)
<1>1. p \in Panels /\ PendStore(p) = "buyer" /\ p \notin SupportPanels /\ c \in Panel
  BY PendStores DEF Panels, BuyerPanels, SupportPanels, Blank
<1> DEFINE d == [c EXCEPT !.pending = st["buyer"]]
<1>2. st["buyer"] \in Keys \cup {NoKey}
  BY DEF Filed, Stores
<1>3. d \in Panel /\ d.pending = st["buyer"]
  BY <1>1, <1>2 DEF Panel
<1> HIDE DEF d
<1>4. CASE Foreign(p, st)
  <2>1. BuyerRestored(p, c, st) = c
    BY <1>4 DEF BuyerRestored
  <2> QED  BY <1>1, <1>4, <2>1 DEF Foreign, Fits, Own, Learnt, Blank, SupportPanels
<1>5. CASE ~Foreign(p, st)
  <2>1. BuyerRestored(p, c, st) = d
    BY <1>5 DEF BuyerRestored, d
  <2>2. Fits(p, d, st, cmd)
    BY <1>1, <1>3, <1>5, TakesFit DEF Foreign, SupportPanels
  <2> QED  BY <2>1, <2>2
<1> QED  BY <1>4, <1>5

\* Record updates of a mounted panel.
LEMMA TakenRecord ==
    ASSUME NEW c \in Panel, NEW k \in Keys \cup {NoKey}, NEW b \in BOOLEAN
    PROVE  /\ [c EXCEPT !.pending = k] \in Panel /\ [c EXCEPT !.pending = k].pending = k
           /\ [c EXCEPT !.pending = k, !.active = b] \in Panel
           /\ [c EXCEPT !.pending = k, !.active = b].pending = k
<1> DEFINE d == [c EXCEPT !.pending = k]
           e == [c EXCEPT !.pending = k, !.active = b]
<1>1. d \in Panel /\ d.pending = k
  BY DEF Panel
<1>2. e \in Panel /\ e.pending = k
  BY DEF Panel
<1> QED  BY <1>1, <1>2

LEMMA SupportFits ==
    ASSUME NEW st, NEW cm, Filed(st, cm), NEW c, Blank(c)
    PROVE  Fits("supportView", SupportViewRestored(c, st), st, cm)
           /\ Fits("supportTickets", SupportTicketsRestored(c, st), st, cm)
<1> DEFINE x == st["decision"]
           y == st["operation"]
           f == x # NoKey
           d == [c EXCEPT !.locked = TRUE]
           e == [c EXCEPT !.decision = x, !.pending = y]
           g == [c EXCEPT !.frozen = f, !.pending = y]
<1>1. c \in Panel /\ x \in Keys \cup {NoKey} /\ y \in Keys \cup {NoKey} /\ f \in BOOLEAN
  BY DEF Filed, Stores, Blank
<1>2. /\ SupportViewRestored(c, st) = IF x # NoKey /\ y # NoKey THEN d ELSE e
      /\ SupportTicketsRestored(c, st) = g
  BY DEF SupportViewRestored, SupportTicketsRestored
<1>3. /\ PendStore("supportView") = "operation" /\ PendStore("supportTickets") = "operation"
      /\ {"supportView", "supportTickets"} = SupportPanels
      /\ "supportView" \notin BuyerPanels /\ "supportTickets" \notin BuyerPanels
  BY PendStores DEF SupportPanels
<1> HIDE DEF x, y, f
<1>4. d \in Panel /\ d.locked = TRUE
  BY <1>1 DEF Panel
<1>5. e \in Panel /\ e.pending = y /\ e.decision = x
  BY <1>1 DEF Panel
<1>6. g \in Panel /\ g.pending = y /\ g.frozen = f
  BY <1>1 DEF Panel
<1> HIDE DEF d, e, g
<1>7. Fits("supportView", d, st, cm)
  BY <1>3, <1>4 DEF Fits, Own, Learnt
<1>8. Fits("supportView", e, st, cm)
  BY <1>3, <1>5 DEF Fits, Own, Learnt, x, y
<1>9. Fits("supportTickets", g, st, cm)
  BY <1>3, <1>6 DEF Fits, Own, Learnt, x, y, f
<1> QED  BY <1>2, <1>7, <1>8, <1>9

LEMMA RestoredFits ==
    ASSUME NEW st, Filed(st, cmd), NEW c, Blank(c), NEW p \in Panels
    PROVE  Fits(p, Restored(p, c, st), st, cmd)
<1>1. c \in Panel /\ c.pending = NoKey /\ \A s \in Stores : st[s] \in Keys \cup {NoKey}
  BY DEF Blank, Filed
<1>2. CASE p = "product"
  <2>1. Restored(p, c, st) = c
    BY <1>2 DEF Restored, SellerPanels
  <2>2. c.pending = st[PendStore(p)]
    BY <1>1, <1>2, PendStores DEF Filed
  <2> QED  BY <1>1, <1>2, <2>1, <2>2, TakesFit, PendStores
<1>3. CASE p \in BuyerPanels
  <2> DEFINE b == BuyerRestored(p, c, st)
             d == [b EXCEPT !.busy = Foreign(p, st)]
  <2>1. Fits(p, b, st, cmd)
    BY <1>3, BuyerFits
  <2> HIDE DEF b
  <2>2. Foreign(p, st) \in BOOLEAN
    BY DEF Foreign
  <2>3. b \in Panel
    BY <2>1 DEF Fits
  <2>4. /\ d \in Panel /\ d.on = b.on /\ d.pending = b.pending /\ d.decision = b.decision
        /\ d.frozen = b.frozen /\ d.locked = b.locked
    BY <2>2, <2>3 DEF Panel
  <2> HIDE DEF d
  <2>5. Fits(p, d, st, cmd)
    BY <2>1, <2>4, SameFits
  <2>6. Restored(p, c, st) \in {b, d}
    BY <1>3 DEF Restored, CartRestored, CheckoutRestored, OrdersRestored, WalletRestored, AccountRestored,
                BuyerPanels, b, d
  <2> QED  BY <2>1, <2>5, <2>6
<1>4. CASE p \in SellerPanels
  <2> DEFINE b == IF p = "sellerOps" THEN st["seller"] # NoKey
                  ELSE st["seller"] # NoKey /\ cmd[st["seller"]].panel = "sellerBusiness"
             k == st["seller"]
             d == [c EXCEPT !.pending = k, !.active = b]
  <2>1. b \in BOOLEAN /\ k \in Keys \cup {NoKey}
    BY <1>1 DEF Stores
  <2>2. Restored(p, c, st) = d
    BY <1>4 DEF Restored, SellerOpsRestored, SellerBusinessRestored, SellerPanels
  <2> HIDE DEF b, k
  <2>3. d \in Panel /\ d.pending = k
    BY <1>1, <2>1, TakenRecord
  <2> HIDE DEF d
  <2>4. k = st[PendStore(p)] /\ p \notin BuyerPanels /\ p # "supportView" /\ p # "supportTickets"
    BY <1>4, PendStores DEF k, SellerPanels
  <2> QED  BY <2>2, <2>3, <2>4, TakesFit
<1>5. CASE p \in AdminPanels
  <2> DEFINE d == [c EXCEPT !.pending = st[p]]
  <2>1. p \in Stores
    BY <1>5 DEF AdminPanels, Stores
  <2>2. Restored(p, c, st) = d
    BY <1>5 DEF Restored, AdminOpsRestored, AdminSellersRestored, OutcomesRestored, RetentionRestored,
                TrainingRestored, AdminPanels
  <2>3. d \in Panel /\ d.pending = st[p]
    BY <1>1, <2>1, TakenRecord
  <2> HIDE DEF d
  <2>4. PendStore(p) = p /\ p \notin BuyerPanels /\ p # "supportView" /\ p # "supportTickets"
    BY <1>5, PendStores DEF AdminPanels
  <2> QED  BY <2>2, <2>3, <2>4, TakesFit
<1>6. CASE p = "supportView"
  <2>1. Restored(p, c, st) = SupportViewRestored(c, st)
    BY <1>6 DEF Restored
  <2> QED  BY <1>6, <2>1, SupportFits
<1>7. CASE p = "supportTickets"
  <2>1. Restored(p, c, st) = SupportTicketsRestored(c, st)
    BY <1>7 DEF Restored
  <2> QED  BY <1>7, <2>1, SupportFits
<1> QED  BY <1>2, <1>3, <1>4, <1>5, <1>6, <1>7 DEF Panels, SupportPanels

LEMMA MountedFits ==
    ASSUME Shapes, NEW st, Filed(st, cmd), NEW p \in Panels
    PROVE  Fits(p, Mounted(p, st), st, cmd)
<1> DEFINE a == p \notin SellerPanels
           c == [NoPanel EXCEPT !.on = TRUE, !.active = a]
<1>1. a \in BOOLEAN
  OBVIOUS
<1>2. Mounted(p, st) = ReadsAll(p, Restored(p, c, st))
  BY DEF Mounted
<1> HIDE DEF a
<1>3. Blank(c)
  BY <1>1 DEF Blank, NoPanel, Panel
<1> HIDE DEF c
<1> QED  BY <1>2, <1>3, RestoredFits, ReadsAllFit

LEMMA TicketsMounted ==
    ASSUME Shapes, NEW st, NEW cm, Filed(st, cm)
    PROVE  Fits("supportTickets", Mounted("supportTickets", st), st, cm)
<1> DEFINE a == "supportTickets" \notin SellerPanels
           c == [NoPanel EXCEPT !.on = TRUE, !.active = a]
<1>1. a \in BOOLEAN
  OBVIOUS
<1>2. Mounted("supportTickets", st) = ReadsAll("supportTickets", SupportTicketsRestored(c, st))
  BY DEF Mounted, Restored, SellerPanels
<1> HIDE DEF a
<1>3. Blank(c)
  BY <1>1 DEF Blank, NoPanel, Panel
<1> HIDE DEF c
<1> QED  BY <1>2, <1>3, SupportFits, ReadsAllFit

LEMMA WithTicketsFit ==
    ASSUME Shapes, NEW st, NEW cm, Filed(st, cm), NEW pn, Fitting(pn, st, cm)
    PROVE  /\ Fitting(WithTickets(pn, st), st, cm)
           /\ \A p \in InPlay : p # "supportTickets" => WithTickets(pn, st)[p] = pn[p]
<1> DEFINE T(c) == [pn EXCEPT !["supportTickets"] = c]
<1>1. ASSUME NEW c, Fits("supportTickets", c, st, cm)
      PROVE  Fitting(T(c), st, cm) /\ \A p \in InPlay : p # "supportTickets" => T(c)[p] = pn[p]
  BY <1>1 DEF Fitting
<1>3. Fits("supportTickets", Mounted("supportTickets", st), st, cm) /\ Fits("supportTickets", NoPanel, st, cm)
  BY TicketsMounted, NoPanelFits
<1>4. Fitting(pn, st, cm) /\ T(pn["supportTickets"]) = pn
  BY DEF Fitting
<1>5. WithTickets(pn, st) \in {pn, T(NoPanel), T(Mounted("supportTickets", st)), T(pn["supportTickets"])}
  BY DEF WithTickets
<1>6. CASE WithTickets(pn, st) = pn
  BY <1>6
<1>7. CASE WithTickets(pn, st) = T(NoPanel)
  BY <1>1, <1>3, <1>7
<1>8. CASE WithTickets(pn, st) = T(Mounted("supportTickets", st))
  BY <1>1, <1>3, <1>8
<1> QED  BY <1>4, <1>5, <1>6, <1>7, <1>8

-----------------------------------------------------------------------------
(* Events: the panels hear of a change of the stores. *)

\* A command that was given stays what it is.
Stays(cm) == \A k \in Keys : cmd[k].panel \in Panels => cm[k] = cmd[k]

LEMMA HeardRecord ==
    ASSUME NEW c \in Panel, NEW k \in Keys \cup {NoKey}
    PROVE  /\ [c EXCEPT !.pending = k] \in Panel
           /\ [c EXCEPT !.pending = k].pending = k /\ [c EXCEPT !.pending = k].decision = c.decision
           /\ [c EXCEPT !.pending = k].locked = c.locked /\ [c EXCEPT !.pending = k].on = c.on
<1> DEFINE d == [c EXCEPT !.pending = k]
<1>1. d \in Panel /\ d.pending = k /\ d.decision = c.decision /\ d.locked = c.locked /\ d.on = c.on
  BY DEF Panel
<1> QED  BY <1>1

LEMMA HearsFits ==
    ASSUME NEW st, NEW cm, Filed(store, cmd), Filed(st, cm), Stays(cm), NEW p \in Panels,
           NEW c, Fits(p, c, store, cmd),
           \A s \in Stores : st[s] = store[s] \/ st[s] = NoKey \/ cm[st[s]].panel # p
    PROVE  Fits(p, Hears(p, c, st), st, cm)
<1>1. c \in Panel /\ c.pending \in Keys \cup {NoKey} /\ Own(p, c, cm)
  BY DEF Fits, Own, Stays, Panel
<1>2. CASE ~c.on
  BY <1>1, <1>2 DEF Hears, Fits
<1>3. CASE c.on /\ p \in BuyerPanels
  <2>1. Hears(p, c, st) = c
    BY <1>3 DEF Hears, BuyerPanels, SellerPanels
  <2>2. "buyer" \in Stores
    BY DEF Stores
  <2>3. store["buyer"] # NoKey => cm[store["buyer"]] = cmd[store["buyer"]]
    BY <2>2 DEF Filed, Stays
  <2>4. c.pending = st["buyer"] \/ st["buyer"] = NoKey \/ cm[st["buyer"]].panel # p
    BY <1>3, <2>2, <2>3 DEF Fits, Learnt
  <2> QED  BY <1>1, <1>3, <2>1, <2>4 DEF Fits, Learnt, BuyerPanels
<1>4. CASE c.on /\ p \in SellerPanels
  <2> DEFINE k == st["seller"]
             d == [c EXCEPT !.pending = k]
  <2>1. k \in Keys \cup {NoKey}
    BY DEF Filed, Stores
  <2>2. Hears(p, c, st) = IF k # store["seller"] THEN d ELSE c
    BY <1>4 DEF Hears, SellerHears, SellerPanels
  <2> HIDE DEF k
  <2>3. d \in Panel /\ d.pending = k
    BY <1>1, <2>1, HeardRecord
  <2> HIDE DEF d
  <2>4. p \notin BuyerPanels /\ PendStore(p) = "seller" /\ p # "supportView" /\ p # "supportTickets"
    BY <1>4, PendStores DEF SellerPanels
  <2>5. Fits(p, d, st, cm)
    BY <1>4, <2>3, <2>4 DEF Fits, Own, Learnt, k
  <2>6. k = store["seller"] => Fits(p, c, st, cm)
    BY <1>1, <1>4, <2>4 DEF Fits, Learnt, k
  <2> QED  BY <2>2, <2>5, <2>6
<1>5. CASE c.on /\ p \in AdminPanels
  <2>1. Hears(p, c, st) = c
    BY <1>5 DEF Hears, AdminPanels, SellerPanels
  <2>2. p \in Stores /\ PendStore(p) = p /\ p \notin BuyerPanels /\ p # "supportView" /\ p # "supportTickets"
    BY <1>5, PendStores DEF Stores, AdminPanels
  <2>3. st[p] = store[p] \/ st[p] = NoKey
    <3> SUFFICES ASSUME st[p] # NoKey PROVE cm[st[p]].panel = p
      BY <2>2
    <3>1. /\ cm[st[p]].panel \in Panels /\ cm[st[p]].act \in ActsOf(cm[st[p]].panel)
          /\ StoreOf(cm[st[p]].panel, cm[st[p]].act) = p
      BY <2>2 DEF Filed
    <3> QED  BY <1>5, <3>1, StoreHolds
  <2> QED  BY <1>1, <1>5, <2>1, <2>2, <2>3 DEF Fits, Learnt
<1>6. CASE c.on /\ p = "product"
  <2>1. Hears(p, c, st) = c
    BY <1>6 DEF Hears, SellerPanels
  <2> QED  BY <1>1, <1>6, <2>1, PendStores DEF Fits, Learnt, Filed
<1>7. CASE c.on /\ p = "supportView"
  <2> DEFINE k == st["operation"]
             d == [c EXCEPT !.pending = k]
  <2>1. k \in Keys \cup {NoKey} /\ "decision" \in Stores
    BY DEF Filed, Stores
  <2>2. Hears(p, c, st) = IF k # store["operation"] THEN d ELSE c
    BY <1>7 DEF Hears, ViewHears, SellerPanels
  <2>3. p \notin BuyerPanels /\ PendStore(p) = "operation" /\ p \in SupportPanels
    BY <1>7, PendStores DEF SupportPanels
  <2>4. st["decision"] = store["decision"] \/ st["decision"] = NoKey
    <3> SUFFICES ASSUME st["decision"] # NoKey PROVE cm[st["decision"]].panel = p
      BY <2>1
    <3>1. /\ cm[st["decision"]].panel \in Panels /\ cm[st["decision"]].act \in ActsOf(cm[st["decision"]].panel)
          /\ StoreOf(cm[st["decision"]].panel, cm[st["decision"]].act) = "decision"
      BY <2>1 DEF Filed
    <3> DEFINE q == cm[st["decision"]].panel
               a == cm[st["decision"]].act
    <3>2. q \in Panels /\ a \in ActsOf(q) /\ StoreOf(q, a) = "decision"
      BY <3>1
    <3> HIDE DEF q, a
    <3>3. q = "supportView"
      BY <3>2, StoreHolds
    <3> QED  BY <1>7, <3>3 DEF q
  <2> HIDE DEF k
  <2>5. d \in Panel /\ d.pending = k /\ d.decision = c.decision /\ d.locked = c.locked
    BY <1>1, <2>1, HeardRecord
  <2> HIDE DEF d
  <2>6. Fits(p, d, st, cm)
    BY <1>7, <2>3, <2>4, <2>5 DEF Fits, Own, Learnt, k
  <2>7. k = store["operation"] => Fits(p, c, st, cm)
    BY <1>1, <1>7, <2>3, <2>4 DEF Fits, Learnt, k
  <2> QED  BY <2>2, <2>6, <2>7
<1>8. CASE c.on /\ p = "supportTickets"
  <2> DEFINE k == IF st["operation"] # store["operation"] THEN st["operation"] ELSE c.pending
             f == IF st["decision"] # store["decision"] THEN st["decision"] # NoKey ELSE c.frozen
             d == [c EXCEPT !.pending = k, !.frozen = f]
  <2>1. k \in Keys \cup {NoKey} /\ f \in BOOLEAN
    BY <1>1 DEF Filed, Stores, Panel
  <2>2. Hears(p, c, st) = d
    BY <1>8 DEF Hears, TicketsHear, SellerPanels
  <2>3. p \notin BuyerPanels /\ PendStore(p) = "operation" /\ p \in SupportPanels
    BY <1>8, PendStores DEF SupportPanels
  <2>4. k = NoKey /\ ~c.locked => st["operation"] = NoKey
    BY <1>8, <2>3 DEF Fits, Learnt
  <2>5. ~f /\ ~c.locked => st["decision"] = NoKey
    BY <1>8 DEF Fits, Learnt
  <2> HIDE DEF k, f
  <2>6. d \in Panel /\ d.pending = k /\ d.frozen = f /\ d.locked = c.locked
    BY <1>1, <2>1 DEF Panel
  <2> HIDE DEF d
  <2>7. Fits(p, d, st, cm)
    BY <1>8, <2>3, <2>4, <2>5, <2>6 DEF Fits, Own, Learnt
  <2> QED  BY <2>2, <2>7
<1> QED  BY <1>2, <1>3, <1>4, <1>5, <1>6, <1>7, <1>8 DEF Panels, SupportPanels

-----------------------------------------------------------------------------
(* What giving, failing to save and an answer make of a panel. *)

\* What is not in the way of a support command.
Clear(p, c, a) ==
    /\ p = "supportView" => IF a \in DecisionActs THEN c.pending = NoKey ELSE c.decision = NoKey
    /\ p = "supportTickets" => ~c.frozen

LEMMA HearsNothing ==
    ASSUME NEW c, NEW st, NEW p, st["seller"] = store["seller"] \/ p \notin SellerPanels,
           st["operation"] = store["operation"] \/ p # "supportView", p # "supportTickets"
    PROVE  Hears(p, c, st) = c
  BY DEF Hears

\* The panel is busy with command k.
Occupied(p, d, k) == d.on = TRUE /\ d.busy = TRUE /\ (p \in BuyerPanels => d.pending = k)

\* The panel that posts command k takes it for its unresolved one.
LEMMA BegunFits ==
    ASSUME NEW st, NEW cm, Filed(store, cmd), Filed(st, cm), Stays(cm), NEW p \in Panels,
           NEW c, Fits(p, c, store, cmd), c.on, ~c.locked, NEW a \in ActsOf(p), Clear(p, c, a),
           NEW k \in Keys, cm[k].panel = p, NEW s, s = StoreOf(p, a),
           \/ st = Saved(s, k)
           \/ st = store /\ p \notin BuyerPanels \cup SupportPanels
    PROVE  \A d : d = Begun(p, Hears(p, c, st), k, a) => Fits(p, d, st, cm) /\ Occupied(p, d, k)
<1> DEFINE h == Hears(p, c, st)
           e == [h EXCEPT !.pending = k, !.busy = TRUE]
           g == [h EXCEPT !.decision = k, !.busy = TRUE]
<1>1. c \in Panel /\ k # NoKey /\ s \in Stores
  BY WebAssumption, StoreHolds DEF Fits
<1>2. \A x \in Stores \ {s} : st[x] = store[x]
  BY <1>1 DEF Saved, Filed
<1>3. p = "product" => st = store
  BY StoreHolds DEF Saved, SupportPanels, BuyerPanels
<1>4. h \in Panel /\ h.on = c.on /\ h.locked = c.locked /\ h.decision = c.decision
      /\ (p \in SupportPanels /\ s = "decision" => h = c)
      /\ (p = "supportTickets" => h.frozen = c.frozen)
  <2>1. CASE p \in SellerPanels
    <3> DEFINE x == st["seller"]
               y == [c EXCEPT !.pending = x]
    <3>1. h = IF x # store["seller"] THEN y ELSE c
      BY <2>1 DEF Hears, SellerHears, SellerPanels
    <3>2. x \in Keys \cup {NoKey}
      BY DEF Filed, Stores
    <3> HIDE DEF x, h
    <3>3. y \in Panel /\ y.on = c.on /\ y.locked = c.locked /\ y.decision = c.decision
      BY <1>1, <3>2, HeardRecord
    <3> HIDE DEF y
    <3> QED  BY <1>1, <2>1, <3>1, <3>3 DEF SellerPanels, SupportPanels
  <2>2. CASE p = "supportView"
    <3> DEFINE x == st["operation"]
               y == [c EXCEPT !.pending = x]
    <3>1. h = IF x # store["operation"] THEN y ELSE c
      BY <2>2 DEF Hears, ViewHears, SellerPanels
    <3>2. x \in Keys \cup {NoKey}
      BY DEF Filed, Stores
    <3>3. s = "decision" => x = store["operation"]
      BY <1>2 DEF Stores
    <3> HIDE DEF x, h
    <3>4. y \in Panel /\ y.on = c.on /\ y.locked = c.locked /\ y.decision = c.decision
      BY <1>1, <3>2, HeardRecord
    <3> HIDE DEF y
    <3> QED  BY <1>1, <2>2, <3>1, <3>3, <3>4
  <2>3. CASE p = "supportTickets"
    <3> DEFINE x == IF st["operation"] # store["operation"] THEN st["operation"] ELSE c.pending
               f == IF st["decision"] # store["decision"] THEN st["decision"] # NoKey ELSE c.frozen
               y == [c EXCEPT !.pending = x, !.frozen = f]
    <3>1. h = y
      BY <2>3 DEF Hears, TicketsHear, SellerPanels
    <3>2. x \in Keys \cup {NoKey}
      BY <1>1 DEF Filed, Stores, Panel
    <3>3. s # "decision"
      BY <2>3, StoreHolds
    <3>4. f = c.frozen
      BY <1>2, <3>3 DEF Stores
    <3>5. c.frozen \in BOOLEAN
      BY <1>1 DEF Panel
    <3> HIDE DEF x, f, h
    <3>6. y \in Panel /\ y.on = c.on /\ y.locked = c.locked /\ y.decision = c.decision /\ y.frozen = f
      BY <1>1, <3>2, <3>4, <3>5 DEF Panel
    <3> HIDE DEF y
    <3> QED  BY <2>3, <3>1, <3>3, <3>4, <3>6
  <2>4. CASE p \notin SellerPanels /\ p # "supportView" /\ p # "supportTickets"
    BY <1>1, <2>4, HearsNothing DEF SupportPanels
  <2> QED  BY <2>1, <2>2, <2>3, <2>4
<1> HIDE DEF h
<1>5. /\ e \in Panel /\ e.on = h.on /\ e.locked = h.locked /\ e.decision = h.decision
      /\ e.frozen = h.frozen /\ e.pending = k /\ e.busy = TRUE
  BY <1>1, <1>4 DEF Panel
<1>6. /\ g \in Panel /\ g.on = h.on /\ g.locked = h.locked /\ g.decision = k
      /\ g.frozen = h.frozen /\ g.pending = h.pending /\ g.busy = TRUE
  BY <1>1, <1>4 DEF Panel
<1> HIDE DEF e, g
<1>7. c.on = TRUE
  BY <1>1 DEF Panel
<1>8. CASE p = "supportView" /\ a \in DecisionActs
  <2>1. Begun(p, h, k, a) = g
    BY <1>8 DEF Begun, g
  <2>2. s = "decision" /\ p \in SupportPanels /\ p \notin BuyerPanels /\ PendStore(p) = "operation"
    BY <1>8, StoreHolds, PendStores DEF SupportPanels
  <2>3. st["operation"] = store["operation"]
    BY <1>2, <2>2 DEF Stores
  <2>4. store["operation"] = NoKey
    BY <1>8, <2>2 DEF Clear, Fits, Learnt
  <2>5. Fits(p, g, st, cm)
    BY <1>1, <1>6, <1>8, <2>2, <2>3, <2>4 DEF Fits, Own, Learnt
  <2> QED  BY <1>4, <1>6, <1>7, <2>1, <2>2, <2>5 DEF h, Occupied
<1>9. CASE ~(p = "supportView" /\ a \in DecisionActs)
  <2>1. Begun(p, h, k, a) = e
    BY <1>9 DEF Begun, e
  <2>2. s # "decision"
    BY <1>9, StoreHolds
  <2>3. st["decision"] = store["decision"]
    BY <1>2, <2>2 DEF Stores
  <2>4. p = "supportView" \/ p = "supportTickets" => store["decision"] = NoKey
    BY <1>9 DEF Clear, Fits, Learnt
  <2>5. p \in BuyerPanels => st["buyer"] = k
    <3> SUFFICES ASSUME p \in BuyerPanels PROVE st["buyer"] = k
      OBVIOUS
    <3>1. s = "buyer" /\ "buyer" \in Stores
      BY StoreHolds DEF Stores
    <3>2. st = [store EXCEPT ![s] = k]
      BY <3>1 DEF Saved
    <3> QED  BY <3>1, <3>2 DEF Filed
  <2>6. Fits(p, e, st, cm)
    BY <1>1, <1>5, <2>3, <2>4, <2>5 DEF Fits, Own, Learnt
  <2> QED  BY <1>4, <1>5, <1>7, <2>1, <2>6 DEF h, Occupied
<1> QED  BY <1>8, <1>9

\* Nothing is posted: the panel locks, or a buyer's page keeps the command.
LEMMA UnsavedFits ==
    ASSUME NEW cm, Filed(store, cmd), Filed(store, cm), Stays(cm), NEW p \in Panels,
           NEW c, Fits(p, c, store, cm), NEW k \in Keys, cm[k].panel = p, c.pending \in {NoKey, k} \/ p \notin BuyerPanels
    PROVE  Fits(p, Unsaved(p, c, k), store, cm)
<1> DEFINE d == [c EXCEPT !.pending = k, !.ready = {}, !.offered = {}]
           e == [c EXCEPT !.pending = k]
           g == [c EXCEPT !.locked = TRUE]
<1>1. c \in Panel
  BY DEF Fits
<1>2. CASE p \in BuyerPanels
  <2>1. d \in Panel /\ d.pending = k
    BY <1>1 DEF Panel
  <2>2. e \in Panel /\ e.pending = k
    BY <1>1 DEF Panel
  <2>3. Unsaved(p, c, k) \in {d, e}
    BY <1>2 DEF Unsaved, PageUnsaved, AccountUnsaved, BuyerPanels
  <2>4. d.on = c.on /\ e.on = c.on
    BY <1>1 DEF Panel
  <2> HIDE DEF d, e
  <2>5. p # "supportView" /\ p # "supportTickets"
    BY <1>2 DEF BuyerPanels
  <2>6. Fits(p, d, store, cm) /\ Fits(p, e, store, cm)
    BY <1>2, <2>1, <2>2, <2>4, <2>5 DEF Fits, Own, Learnt
  <2> QED  BY <2>3, <2>6
<1>3. CASE p \notin BuyerPanels
  <2>1. Unsaved(p, c, k) \in {c, g}
    BY <1>3 DEF Unsaved, OutcomeUnsaved, BuyerPanels
  <2>2. /\ g \in Panel /\ g.on = c.on /\ g.pending = c.pending /\ g.decision = c.decision
        /\ g.frozen = c.frozen /\ g.locked = TRUE
    BY <1>1 DEF Panel
  <2> HIDE DEF g
  <2>3. Fits(p, g, store, cm)
    BY <2>2, SameFits
  <2> QED  BY <2>1, <2>3
<1> QED  BY <1>2, <1>3

\* What an answer may make of a panel whose record is gone.
Outcomes(p, x, act) == {x, Hidden(x), ReadsAll(p, x), [x EXCEPT !.offered = @ \cap After(act)]}
                       \cup {Reads(x, ls) : ls \in SUBSET Lists}

LEMMA OutcomesFit ==
    ASSUME Shapes, NEW p, NEW st, NEW cm, NEW x, Fits(p, x, st, cm), NEW act, NEW d \in Outcomes(p, x, act)
    PROVE  Fits(p, d, st, cm)
<1> DEFINE h == Hidden(x)
           l == x.offered \cap After(act)
           o == [x EXCEPT !.offered = l]
<1>1. x \in Panel
  BY DEF Fits
<1>2. /\ h \in Panel /\ h.on = x.on /\ h.pending = x.pending /\ h.decision = x.decision
      /\ h.frozen = x.frozen /\ h.locked = x.locked
  BY <1>1 DEF Hidden, Panel
<1>3. l \in SUBSET Acts
  BY <1>1 DEF Panel
<1>4. d \in {x, h, ReadsAll(p, x), o} \cup {Reads(x, ls) : ls \in SUBSET Lists}
  BY DEF Outcomes
<1> HIDE DEF h, l
<1>5. /\ o \in Panel /\ o.on = x.on /\ o.pending = x.pending /\ o.decision = x.decision
      /\ o.frozen = x.frozen /\ o.locked = x.locked
  BY <1>1, <1>3 DEF Panel
<1> HIDE DEF o
<1>6. Fits(p, h, st, cm)
  BY <1>2, SameFits
<1>7. Fits(p, o, st, cm)
  BY <1>5, SameFits
<1>8. Fits(p, ReadsAll(p, x), st, cm)
  BY ReadsAllFit
<1>9. CASE \E ls \in SUBSET Lists : d = Reads(x, ls)
  BY <1>9, ReadsFit
<1> QED  BY <1>4, <1>6, <1>7, <1>8, <1>9

LEMMA ClearedOutcomes ==
    ASSUME Shapes, NEW c, NEW fl, fl.panel \in Panels, cmd[fl.key].act \in ActsOf(fl.panel)
    PROVE  Cleared(c, fl) \in Outcomes(fl.panel, IF cmd[fl.key].act \in DecisionActs
                                                 THEN [c EXCEPT !.busy = FALSE, !.decision = NoKey]
                                                 ELSE Free(c), cmd[fl.key].act)
<1> DEFINE p == fl.panel
           a == cmd[fl.key].act
           x == Free(c)
           y == [c EXCEPT !.busy = FALSE, !.decision = NoKey]
           ms == {"main"}
           ts == {"tickets"}
           bs == {ListOf(a)} \cap ListsOf("sellerBusiness")
<1>1. ms \in SUBSET Lists /\ ts \in SUBSET Lists /\ bs \in SUBSET Lists
  BY SomeLists, ListsAreLists
<1> HIDE DEF ms, ts, bs
<1>2. \A z, q : /\ Reads(z, ms) \in Outcomes(q, z, a) /\ Reads(z, ts) \in Outcomes(q, z, a)
                /\ Reads(z, bs) \in Outcomes(q, z, a)
                /\ z \in Outcomes(q, z, a) /\ Hidden(z) \in Outcomes(q, z, a)
                /\ ReadsAll(q, z) \in Outcomes(q, z, a)
                /\ [z EXCEPT !.offered = @ \cap After(a)] \in Outcomes(q, z, a)
  BY <1>1 DEF Outcomes
<1>3. /\ p \in {"product", "cart", "checkout", "orders", "wallet", "account", "sellerOps",
               "sellerBusiness", "supportView", "supportTickets", "adminOps", "adminSellers",
               "outcomes", "retention", "training"}
      /\ a \in DecisionActs \/ a \in {"unavailability", "sla"} <=> p = "supportView"
  <2>1. p \in Panels
    OBVIOUS
  <2> HIDE DEF p
  <2>2. a \in ActsOf(p)
    BY DEF p
  <2> HIDE DEF a
  <2> QED  BY <2>1, <2>2, PanelCases
       DEF ActsOf, ProductActs, CartActs, CheckoutActs, OrdersActs, WalletActs, AccountActs, SellerOpsActs,
           SellerBusinessActs, DecisionActs, OperationActs, ReplyActs, AdminOpsActs, AdminSellersActs,
           OutcomeActs, RetentionActs, TrainingActs
<1>4. CASE p \in {"product", "cart", "checkout", "orders"}
  <2>1. /\ ProductSettled(c, fl) = x
        /\ CartSettled(c, fl) \in {Hidden(x), Reads(x, ms), x}
        /\ CheckoutSettled(c, fl) \in {Hidden(x), x}
        /\ OrdersSettled(c, fl) \in {Hidden(x), Reads(x, ms), [x EXCEPT !.offered = @ \cap After(a)]}
    BY DEF ProductSettled, CartSettled, CheckoutSettled, OrdersSettled, ms
  <2>2. a \notin DecisionActs
    BY <1>3, <1>4
  <2>3. Cleared(c, fl) \in {ProductSettled(c, fl), CartSettled(c, fl), CheckoutSettled(c, fl), OrdersSettled(c, fl)}
    BY <1>3, <1>4 DEF Cleared
  <2> HIDE DEF x
  <2> QED  BY <1>2, <2>1, <2>2, <2>3 DEF x
<1>5. CASE p \in {"wallet", "account", "sellerOps", "sellerBusiness"}
  <2>1. /\ WalletSettled(c, fl) \in {ReadsAll("wallet", x), x}
        /\ AccountSettled(c, fl) \in {ReadsAll("account", x), x}
        /\ SellerOpsSettled(c, fl) \in {ReadsAll("sellerOps", x), x}
        /\ SellerBusinessSettled(c, fl) \in {Reads(x, bs), x}
    BY DEF WalletSettled, AccountSettled, SellerOpsSettled, SellerBusinessSettled, bs
  <2>2. a \notin DecisionActs
    BY <1>3, <1>5
  <2>3. /\ p = "wallet" => Cleared(c, fl) = WalletSettled(c, fl)
        /\ p = "account" => Cleared(c, fl) = AccountSettled(c, fl)
        /\ p = "sellerOps" => Cleared(c, fl) = SellerOpsSettled(c, fl)
        /\ p = "sellerBusiness" => Cleared(c, fl) = SellerBusinessSettled(c, fl)
    BY <1>3, <1>5 DEF Cleared
  <2> HIDE DEF x
  <2> QED  BY <1>2, <1>5, <2>1, <2>2, <2>3 DEF x
<1>6. CASE p \in {"adminOps", "adminSellers", "outcomes", "retention", "training"}
  <2>1. /\ AdminOpsSettled(c, fl) \in {ReadsAll("adminOps", x), x}
        /\ AdminSellersSettled(c, fl) \in {ReadsAll("adminSellers", x), x}
        /\ OutcomesSettled(c, fl) = x /\ RetentionSettled(c, fl) = Hidden(x)
        /\ TrainingSettled(c, fl) \in {Hidden(x), x}
    BY DEF AdminOpsSettled, AdminSellersSettled, OutcomesSettled, RetentionSettled, TrainingSettled
  <2>2. a \notin DecisionActs
    BY <1>3, <1>6
  <2>3. /\ p = "adminOps" => Cleared(c, fl) = AdminOpsSettled(c, fl)
        /\ p = "adminSellers" => Cleared(c, fl) = AdminSellersSettled(c, fl)
        /\ p = "outcomes" => Cleared(c, fl) = OutcomesSettled(c, fl)
        /\ p = "retention" => Cleared(c, fl) = RetentionSettled(c, fl)
        /\ p = "training" => Cleared(c, fl) = TrainingSettled(c, fl)
    BY <1>3, <1>6 DEF Cleared
  <2> HIDE DEF x
  <2> QED  BY <1>2, <1>6, <2>1, <2>2, <2>3 DEF x
<1>7. CASE p = "supportTickets"
  <2>1. TicketsSettled(c, fl) \in {Reads(x, ts), x}
    BY DEF TicketsSettled, ts
  <2>2. a \notin DecisionActs
    BY <1>3, <1>7
  <2>3. Cleared(c, fl) = TicketsSettled(c, fl)
    BY <1>3, <1>7 DEF Cleared
  <2> HIDE DEF x
  <2> QED  BY <1>2, <2>1, <2>2, <2>3 DEF x
<1>8. CASE p = "supportView" /\ a \in DecisionActs
  <2>1. DecisionSettled(c, fl) \in {Reads(y, ms), y}
    BY DEF DecisionSettled, Again, ms
  <2>2. Cleared(c, fl) = DecisionSettled(c, fl)
    BY <1>8 DEF Cleared, DecisionActs
  <2> HIDE DEF y
  <2> QED  BY <1>2, <1>8, <2>1, <2>2 DEF y
<1>9. CASE p = "supportView" /\ a \in {"unavailability", "sla"}
  <2>1. /\ UnavailabilitySettled(c, fl) \in {Reads(x, ms), x}
        /\ SlaSettled(c, fl) \in {Reads(x, ms), x}
    BY DEF UnavailabilitySettled, SlaSettled, Again, ms
  <2>2. a \notin DecisionActs
    BY <1>9 DEF DecisionActs
  <2>3. Cleared(c, fl) \in {UnavailabilitySettled(c, fl), SlaSettled(c, fl)}
    BY <1>9 DEF Cleared, DecisionActs
  <2> HIDE DEF x
  <2> QED  BY <1>2, <2>1, <2>2, <2>3 DEF x
<1> QED  BY <1>3, <1>4, <1>5, <1>6, <1>7, <1>8, <1>9

\* The panel that learns the answer of its own request.
LEMMA SettledFits ==
    ASSUME Shapes, NEW st, Filed(st, cmd), NEW fl, fl.panel \in Panels, fl.key \in Keys,
           cmd[fl.key].panel = fl.panel, cmd[fl.key].act \in ActsOf(fl.panel),
           NEW c, Fits(fl.panel, c, st, cmd),
           fl.live /\ fl.panel \in BuyerPanels => c.pending = fl.key,
           fl.live /\ fl.answer # "unknown" /\ Removes(StoreFor(fl.key), fl.key) => st[StoreFor(fl.key)] = NoKey,
           fl.live /\ fl.answer # "unknown" /\ fl.panel \in BuyerPanels =>
               st["buyer"] = NoKey \/ cmd[st["buyer"]].panel # fl.panel
    PROVE  Fits(fl.panel, Settled(c, fl), st, cmd)
<1> DEFINE p == fl.panel
           a == cmd[fl.key].act
           k == fl.key
           s == StoreFor(fl.key)
<1>1. c \in Panel /\ s = StoreOf(p, a) /\ fl.key # NoKey
  BY WebAssumption DEF Fits, StoreFor
<1>2. CASE ~fl.live
  BY <1>2 DEF Settled
<1>3. CASE fl.live /\ fl.answer = "unknown"
  <2> DEFINE e == [c EXCEPT !.busy = FALSE]
             d == [c EXCEPT !.busy = FALSE, !.pending = k]
  <2>1. Settled(c, fl) = IF p = "supportView" THEN e ELSE d
    BY <1>3 DEF Settled, Unresolved, Kept
  <2> HIDE DEF p
  <2>2. /\ e \in Panel /\ e.on = c.on /\ e.pending = c.pending /\ e.decision = c.decision
        /\ e.frozen = c.frozen /\ e.locked = c.locked
    BY <1>1 DEF Panel
  <2>3. /\ d \in Panel /\ d.on = c.on /\ d.pending = k /\ d.decision = c.decision
        /\ d.frozen = c.frozen /\ d.locked = c.locked
    BY <1>1 DEF Panel
  <2> HIDE DEF e, d
  <2>4. Fits(p, c, st, cmd)
    BY DEF p
  <2>5. Fits(p, e, st, cmd)
    BY <2>2, <2>4, SameFits
  <2>6. cmd[k].panel = p /\ (p \in BuyerPanels => c.pending = k)
    BY <1>3 DEF p
  <2>7. p # "supportView" => Fits(p, d, st, cmd)
    BY <1>1, <2>3, <2>4, <2>6 DEF Fits, Own, Learnt
  <2> QED  BY <2>1, <2>5, <2>7 DEF p
<1>4. CASE fl.live /\ fl.answer # "unknown" /\ ~Removes(s, k) /\ p \notin BuyerPanels
  <2> DEFINE d == [c EXCEPT !.busy = FALSE, !.locked = TRUE]
  <2>1. Settled(c, fl) = d
    BY <1>4 DEF Settled, Lock
  <2>2. /\ d \in Panel /\ d.on = c.on /\ d.pending = c.pending /\ d.decision = c.decision
        /\ d.frozen = c.frozen /\ d.locked = TRUE
    BY <1>1 DEF Panel
  <2> HIDE DEF d
  <2> QED  BY <2>1, <2>2, SameFits
<1>5. CASE fl.live /\ fl.answer # "unknown" /\ (Removes(s, k) \/ p \in BuyerPanels)
  <2> DEFINE y == [c EXCEPT !.busy = FALSE, !.decision = NoKey]
             z == [c EXCEPT !.busy = FALSE, !.pending = NoKey]
             x == IF a \in DecisionActs THEN y ELSE z
  <2>1. Settled(c, fl) = Cleared(c, fl)
    BY <1>5 DEF Settled
  <2>2. Cleared(c, fl) \in Outcomes(p, x, a)
    BY ClearedOutcomes DEF Free
  <2>3. /\ y \in Panel /\ y.on = c.on /\ y.pending = c.pending /\ y.decision = NoKey
        /\ y.frozen = c.frozen /\ y.locked = c.locked
    BY <1>1 DEF Panel
  <2>4. /\ z \in Panel /\ z.on = c.on /\ z.pending = NoKey /\ z.decision = c.decision
        /\ z.frozen = c.frozen /\ z.locked = c.locked
    BY <1>1 DEF Panel
  <2> HIDE DEF y, z
  <2>5. Fits(p, c, st, cmd) /\ p \in Panels /\ a \in ActsOf(p)
    OBVIOUS
  <2>6. p \in BuyerPanels => st["buyer"] = NoKey \/ cmd[st["buyer"]].panel # p
    BY <1>5
  <2>7. p \notin BuyerPanels => st[s] = NoKey
    BY <1>5
  <2> HIDE DEF p, a, s
  <2>8. a \in DecisionActs => p = "supportView" /\ s = "decision"
    BY <1>1, <2>5, StoreHolds
  <2>9. p \notin BuyerPanels /\ a \notin DecisionActs => s = PendStore(p)
    BY <1>1, <2>5, StoreHolds, PendStores DEF Panels
  <2>10. a \in DecisionActs => Fits(p, y, st, cmd)
    <3> SUFFICES ASSUME a \in DecisionActs PROVE Fits(p, y, st, cmd)
      OBVIOUS
    <3>1. st["decision"] = NoKey /\ p = "supportView" /\ p \notin BuyerPanels
      BY <2>7, <2>8 DEF BuyerPanels
    <3> QED  BY <2>3, <2>5, <3>1 DEF Fits, Own, Learnt
  <2>11. a \notin DecisionActs => Fits(p, z, st, cmd)
    <3> SUFFICES ASSUME a \notin DecisionActs PROVE Fits(p, z, st, cmd)
      OBVIOUS
    <3>1. p \notin BuyerPanels => st[PendStore(p)] = NoKey
      BY <2>7, <2>9
    <3> QED  BY <2>4, <2>5, <2>6, <3>1 DEF Fits, Own, Learnt
  <2>12. Fits(p, x, st, cmd)
    BY <2>10, <2>11
  <2> HIDE DEF x
  <2>13. Fits(p, Cleared(c, fl), st, cmd)
    BY <2>2, <2>12, OutcomesFit
  <2> QED  BY <2>1, <2>13 DEF p
<1> QED  BY <1>2, <1>3, <1>4, <1>5

-----------------------------------------------------------------------------
(* The requests under way. *)

\* A buyer's page that is busy stays so, with the same command, or goes.
Steady(pn, qn) ==
    \A p \in BuyerPanels \cap InPlay :
        pn[p].on /\ pn[p].busy => qn[p].on /\ qn[p].busy /\ qn[p].pending = pn[p].pending
SteadyOrGone(pn, qn) ==
    \A p \in BuyerPanels \cap InPlay :
        pn[p].on /\ pn[p].busy =>
            ~qn[p].on \/ (qn[p].on /\ qn[p].busy /\ qn[p].pending = pn[p].pending)

LEMMA AwaitedSteady ==
    ASSUME NEW fs, NEW pn, NEW qn, NEW cm, NEW dm, NEW told, NEW tell, Awaited(fs, pn, cm, told), Steady(pn, qn),
           \A k \in Keys : cm[k].panel \in Panels => dm[k] = cm[k], InPlay \subseteq Panels,
           \A k \in Keys : told[k] # "none" => tell[k] # "none"
    PROVE  Awaited(fs, qn, dm, tell)
<1>1. ASSUME NEW f \in Flights PROVE Awaits(fs[f], qn, dm, tell)
  <2>1. Awaits(fs[f], pn, cm, told)
    BY DEF Awaited
  <2> QED  BY <2>1 DEF Awaits, Holds, Flying, Steady
<1> QED  BY <1>1 DEF Awaited

LEMMA OrphanedAwaited ==
    ASSUME NEW fs, NEW pn, NEW qn, NEW cm, NEW told, Awaited(fs, pn, cm, told), SteadyOrGone(pn, qn),
           \A p \in InPlay : qn[p] \in Panel
    PROVE  Awaited(Orphaned(qn, fs), qn, cm, told)
<1> DEFINE gs == Orphaned(qn, fs)
<1>1. ASSUME NEW f \in Flights
      PROVE  Awaits(gs[f], qn, cm, told) /\ (gs[f].live => fs[f].live) /\ gs[f].panel = fs[f].panel
  <2> DEFINE r == fs[f]
             b == r.live /\ qn[r.panel].on
             d == [r EXCEPT !.live = b]
  <2>1. gs[f] = d
    BY DEF Orphaned
  <2>2. Awaits(r, pn, cm, told)
    BY DEF Awaited
  <2>3. CASE r = NoFlight
    <3>1. b = FALSE
      BY <2>3 DEF NoFlight
    <3> HIDE DEF b
    <3>2. [NoFlight EXCEPT !.live = FALSE] = NoFlight
      <4>1. NoFlight = [NoFlight EXCEPT !.live = NoFlight.live]
        BY DEF NoFlight
      <4>2. NoFlight.live = FALSE
        BY DEF NoFlight
      <4> QED  BY <4>1, <4>2
    <3>3. d = NoFlight
      BY <2>3, <3>1, <3>2
    <3> QED  BY <2>1, <2>3, <3>3 DEF Awaits, NoFlight
  <2>4. CASE r # NoFlight
    <3> HIDE DEF r
    <3>1. r \in Flying /\ told[r.key] # "none" /\ cm[r.key].panel = r.panel /\ Holds(r, pn)
      BY <2>2, <2>4 DEF Awaits
    <3>2. qn[r.panel] \in Panel
      BY <3>1 DEF Flying
    <3>3. qn[r.panel].on \in BOOLEAN
      BY <3>2 DEF Panel
    <3>4. b \in BOOLEAN /\ (b <=> r.live /\ qn[r.panel].on)
      BY <3>1, <3>3 DEF Flying
    <3> HIDE DEF b
    <3>5. d \in Flying /\ d.key = r.key /\ d.panel = r.panel /\ d.live = b
      BY <3>1, <3>4 DEF Flying
    <3> HIDE DEF d
    <3>6. Holds(d, qn)
      BY <3>1, <3>4, <3>5 DEF Holds, SteadyOrGone, Flying
    <3>7. Awaits(d, qn, cm, told)
      BY <3>1, <3>5, <3>6 DEF Awaits
    <3> QED  BY <2>1, <3>4, <3>5, <3>7 DEF r
  <2> QED  BY <2>3, <2>4
<1>2. gs = [f \in Flights |-> gs[f]]
  BY DEF Orphaned
<1> HIDE DEF gs
<1>3. Alone(gs)
  BY <1>1 DEF Awaited, Alone
<1> QED  BY <1>1, <1>2, <1>3 DEF Awaited, gs

LEMMA TabFacts ==
    ASSUME TabInv
    PROVE  /\ Shapes /\ InPlay \subseteq Panels /\ Filed(store, cmd) /\ Fitting(panel, store, cmd)
           /\ Awaited(flights, panel, cmd, outcome) /\ \A p \in InPlay : panel[p] \in Panel
           /\ \A p \in InPlay : Fits(p, panel[p], store, cmd)
  BY InPlayPanels DEF TabInv, WebInv, Fitting, Fits

\* Steps of the service and of the page: stores and outcomes stay.
LEMMA PageStays ==
    ASSUME TabInv, WebInv', UNCHANGED <<store, cmd, outcome, scenario>>, Fitting(panel', store, cmd),
           Awaited(flights', panel', cmd, outcome), Served'
    PROVE  TabInv'
<1>1. InPlay' = InPlay /\ OneSupportCommand'
  BY DEF InPlay, TabInv, OneSupportCommand
<1>2. Filed(store, cmd)'
  BY DEF TabInv, Filed
<1>3. Fitting(panel, store, cmd)'
  BY <1>1 DEF Fitting
<1>4. Awaited(flights, panel, cmd, outcome)'
  BY <1>1 DEF Awaited, Awaits, Flying, Alone, Holds
<1> QED  BY <1>1, <1>2, <1>3, <1>4 DEF TabInv

LEMMA ServedSame ==
    ASSUME TabInv, UNCHANGED <<late, possible, executed>>,
           \A k \in Keys : outcome[k] # "none" => outcome'[k] # "none"
    PROVE  Served'
  BY DEF TabInv, Served

\* A panel may change without its page losing what it waits for.
KeepsWaiting(p, d) ==
    p \in BuyerPanels => d.on = panel[p].on /\ d.busy = panel[p].busy /\ d.pending = panel[p].pending

\* One panel changes; the tickets' place may change too.
LEMMA PlaceFits ==
    ASSUME TabInv, NEW p \in InPlay, NEW d, Fits(p, d, store, cmd), KeepsWaiting(p, d)
    PROVE  \A qn : qn \in {[panel EXCEPT ![p] = d], WithTickets([panel EXCEPT ![p] = d], store)} =>
               Fitting(qn, store, cmd) /\ Steady(panel, qn)
<1> DEFINE pn == [panel EXCEPT ![p] = d]
           qn == WithTickets(pn, store)
<1>1. Filed(store, cmd) /\ Shapes
  BY TabFacts
<1>2. pn = [q \in InPlay |-> pn[q]] /\ pn[p] = d /\ \A q \in InPlay : q # p => pn[q] = panel[q]
  BY TabFacts DEF Fitting
<1> HIDE DEF pn
<1>3. Fitting(pn, store, cmd)
  BY <1>2, TabFacts DEF Fitting
<1>4. Fitting(qn, store, cmd) /\ \A q \in InPlay : q # "supportTickets" => qn[q] = pn[q]
  BY <1>1, <1>3, WithTicketsFit
<1> HIDE DEF qn
<1>5. Steady(panel, pn) /\ Steady(panel, qn)
  BY <1>2, <1>4 DEF Steady, KeepsWaiting, BuyerPanels
<1> QED  BY <1>3, <1>4, <1>5 DEF qn, pn

-----------------------------------------------------------------------------
(* Who may give and repeat a command. *)

\* The acts of no support panel need an idle panel.
LEMMA IdleGives ==
    ASSUME NEW a \in Acts, a \notin DecisionActs \cup OperationActs \cup ReplyActs, NEW c, CanGive(a, c)
    PROVE  Idle(c)
<1>1. a \in ProductActs \cup CartActs \cup CheckoutActs \cup OrdersActs => Idle(c)
  BY DEF CanGive, ProductActs, CartActs, CheckoutActs, OrdersActs, DecisionActs, OperationActs,
     ReplyActs, AdminOpsActs, AddToCart, SetQuantity, SaveAddress, RequestQuote, PlaceOrder, ChangeOrder
<1>2. a \in WalletActs \cup AccountActs \cup SellerOpsActs => Idle(c)
  BY DEF CanGive, WalletActs, AccountActs, SellerOpsActs, OrdersActs, DecisionActs, OperationActs,
     ReplyActs, AdminOpsActs, RequestWithdrawal, CancelWithdrawal, OpenBuyerTicket, MarkBuyerRead,
     AdvanceOrder, RecordReturn
<1>3. a \in SellerBusinessActs => Idle(c)
  BY DEF CanGive, SellerBusinessActs, OrdersActs, DecisionActs, OperationActs, ReplyActs, AdminOpsActs,
     SaveOffer, CreateOffer, SaveService, CreateService, MarkSellerRead, OpenSellerTicket
<1>4. a \in AdminOpsActs => Idle(c)
  BY DEF CanGive, OrdersActs, DecisionActs, OperationActs, ReplyActs, AdminOpsActs, Operate
<1>5. a \in AdminSellersActs \cup OutcomeActs \cup RetentionActs \cup TrainingActs => Idle(c)
  BY DEF CanGive, AdminSellersActs, OutcomeActs, RetentionActs, TrainingActs, OrdersActs, DecisionActs,
     OperationActs, ReplyActs, AdminOpsActs, Review, ActivateSeller, SuspendSeller, ReinstateSeller,
     RecordOutcome, StartPurge, StartTraining
<1>6. \A p \in Panels : ActsOf(p) \subseteq
          ProductActs \cup CartActs \cup CheckoutActs \cup OrdersActs \cup WalletActs \cup AccountActs
          \cup SellerOpsActs \cup SellerBusinessActs \cup DecisionActs \cup OperationActs \cup ReplyActs
          \cup AdminOpsActs \cup AdminSellersActs \cup OutcomeActs \cup RetentionActs \cup TrainingActs
  <2> SUFFICES ASSUME NEW p \in Panels PROVE ActsOf(p) \subseteq
          ProductActs \cup CartActs \cup CheckoutActs \cup OrdersActs \cup WalletActs \cup AccountActs
          \cup SellerOpsActs \cup SellerBusinessActs \cup DecisionActs \cup OperationActs \cup ReplyActs
          \cup AdminOpsActs \cup AdminSellersActs \cup OutcomeActs \cup RetentionActs \cup TrainingActs
    OBVIOUS
  <2> QED  BY PanelCases DEF ActsOf
<1>7. PICK p \in Panels : a \in ActsOf(p)
  BY DEF Acts
<1> QED  BY <1>1, <1>2, <1>3, <1>4, <1>5, <1>6, <1>7

\* The support acts of each panel.
LEMMA SupportOnly ==
    ASSUME NEW p \in Panels, NEW a \in ActsOf(p)
    PROVE  /\ a \in DecisionActs \cup OperationActs <=> p = "supportView"
           /\ a \in ReplyActs <=> p = "supportTickets"
  BY PanelCases
  DEF ActsOf, ProductActs, CartActs, CheckoutActs, OrdersActs, WalletActs, AccountActs, SellerOpsActs,
      SellerBusinessActs, DecisionActs, OperationActs, ReplyActs, AdminOpsActs, AdminSellersActs,
      OutcomeActs, RetentionActs, TrainingActs

\* What the support controls ask: the own command, and nothing of the other kind.
LEMMA ControlMeans ==
    ASSUME NEW p \in SupportPanels, NEW a \in ActsOf(p), NEW c, NEW own, SupportControl(a, c, own)
    PROVE  /\ ~c.busy /\ Clear(p, c, a)
           /\ p = "supportView" => IF a \in DecisionActs THEN c.decision = own ELSE c.pending = own
           /\ p = "supportTickets" => c.pending = own
<1>1. CASE p = "supportView"
  <2>1. a \in {"decide", "unavailability", "sla"}
    BY <1>1 DEF ActsOf, DecisionActs, OperationActs
  <2> QED  BY <1>1, <2>1 DEF SupportControl, Decide, VerifyUnavailable, AssessReturnSla, Clear, DecisionActs
<1>2. CASE p = "supportTickets"
  <2>1. a = "reply"
    BY <1>2 DEF ActsOf, ReplyActs
  <2> QED  BY <1>2, <2>1 DEF SupportControl, ReplyToTicket, Clear
<1> QED  BY <1>1, <1>2 DEF SupportPanels

LEMMA GivenMeans ==
    ASSUME NEW p \in Panels, NEW a \in ActsOf(p), NEW c, CanGive(a, c)
    PROVE  /\ c.on /\ ~c.locked /\ ~c.busy /\ c.pending = NoKey /\ Clear(p, c, a)
           /\ p = "supportView" => c.decision = NoKey
<1>1. c.on /\ ~c.locked
  BY DEF CanGive, Usable
<1>2. CASE a \in DecisionActs \cup OperationActs \cup ReplyActs
  <2>1. p \in SupportPanels
    BY <1>2, SupportOnly DEF SupportPanels
  <2>2. SupportControl(a, c, NoKey)
    BY <1>2 DEF CanGive, DecisionActs, OperationActs, ReplyActs, OrdersActs, AdminOpsActs
  <2>3. /\ ~c.busy /\ Clear(p, c, a)
        /\ p = "supportView" => IF a \in DecisionActs THEN c.decision = NoKey ELSE c.pending = NoKey
        /\ p = "supportTickets" => c.pending = NoKey
    BY <2>1, <2>2, ControlMeans
  <2> QED  BY <1>1, <2>1, <2>3 DEF Clear, SupportPanels
<1>3. CASE a \notin DecisionActs \cup OperationActs \cup ReplyActs
  <2>1. Idle(c)
    BY <1>3, ActsOfActs, IdleGives
  <2>2. p \notin SupportPanels
    BY <1>3, SupportOnly DEF SupportPanels
  <2> QED  BY <1>1, <2>1, <2>2 DEF Idle, Clear, SupportPanels
<1> QED  BY <1>2, <1>3

\* A command is repeated by its own panel.
LEMMA RepeatedMeans ==
    ASSUME Shapes, NEW p \in Panels, NEW c, Fits(p, c, store, cmd), NEW k \in Keys, CanRepeat(p, c, k),
           cmd[k] # NoCmd, cmd[k].act \in ActsOf(cmd[k].panel)
    PROVE  /\ c.on /\ ~c.locked /\ ~c.busy /\ cmd[k].panel = p /\ Clear(p, c, cmd[k].act)
           /\ p \notin SupportPanels => c.pending = k
<1>1. c.on /\ ~c.locked /\ ~c.busy /\ k # NoKey
  BY WebAssumption DEF CanRepeat, Usable
<1>2. CASE p \in SupportPanels
  <2>1. cmd[k].panel = p /\ SupportControl(cmd[k].act, c, k)
    BY <1>2 DEF CanRepeat
  <2> QED  BY <1>1, <1>2, <2>1, ControlMeans
<1>3. CASE p \in SellerPanels
  <2>1. c.pending = k /\ cmd[k].panel = p
    BY <1>3 DEF CanRepeat, SellerRepeats, SellerPanels, SupportPanels, AdminPanels
  <2> QED  BY <1>1, <1>3, <2>1 DEF Clear, SellerPanels
<1>4. CASE p \notin SupportPanels \cup SellerPanels
  <2>1. c.pending = k
    BY <1>4 DEF CanRepeat
  <2>2. cmd[k].panel = p
    BY <1>1, <1>4, <2>1 DEF Fits, Own
  <2> QED  BY <1>1, <1>4, <2>1, <2>2 DEF Clear, SupportPanels
<1> QED  BY <1>2, <1>3, <1>4

-----------------------------------------------------------------------------
(* Giving and repeating. *)

LEMMA Moved ==
    ASSUME WebInv', UNCHANGED scenario, Filed(store', cmd'), Fitting(panel', store', cmd'),
           Awaited(flights', panel', cmd', outcome'), Served', OneSupportCommand'
    PROVE  TabInv'
<1>1. InPlay' = InPlay
  BY DEF InPlay
<1>2. Filed(store, cmd)'
  BY DEF Filed
<1>3. Fitting(panel, store, cmd)'
  BY <1>1 DEF Fitting
<1>4. Awaited(flights, panel, cmd, outcome)'
  BY <1>1 DEF Awaited, Awaits, Flying, Alone, Holds
<1> QED  BY <1>2, <1>3, <1>4 DEF TabInv

\* The stores st are those of now, but for command k in its store s.
Takes(st, s, k) == \A x \in Stores : st[x] = store[x] \/ (x = s /\ st[x] = k)

\* The stores once command k is in its store.
LEMMA PostFiled ==
    ASSUME Filed(store, cmd), NEW cm, Stays(cm), NEW p \in Panels, NEW a \in ActsOf(p), NEW k \in Keys,
           cm[k].panel = p, cm[k].act = a, NEW st, NEW s, s = StoreOf(p, a), st = Saved(s, k) \/ st = store
    PROVE  /\ Filed(st, cm) /\ Filed(store, cm) /\ s \in Stores
           /\ Takes(st, s, k)
<1>1. s \in Stores /\ (s = "none" <=> p = "product")
  BY StoreHolds
<1>2. \A x \in Stores : store[x] # NoKey => cm[store[x]] = cmd[store[x]]
  BY DEF Filed, Stays
<1>3. Filed(store, cm)
  BY <1>2 DEF Filed
<1>4. CASE st = store
  BY <1>1, <1>3, <1>4 DEF Takes
<1>5. CASE st = Saved(s, k) /\ s = "none"
  BY <1>1, <1>3, <1>5 DEF Saved, Takes
<1>6. CASE st = Saved(s, k) /\ s # "none"
  <2>1. st = [store EXCEPT ![s] = k]
    BY <1>6 DEF Saved
  <2>2. st \in [Stores -> Keys \cup {NoKey}] /\ st["none"] = NoKey
    BY <1>1, <1>6, <2>1 DEF Filed
  <2>3. \A x \in Stores : st[x] = store[x] \/ (x = s /\ st[x] = k)
    BY <2>1 DEF Filed
  <2>4. ASSUME NEW x \in Stores, st[x] # NoKey
        PROVE  /\ cm[st[x]].panel \in Panels /\ cm[st[x]].act \in ActsOf(cm[st[x]].panel)
               /\ StoreOf(cm[st[x]].panel, cm[st[x]].act) = x
    <3>1. CASE st[x] = store[x]
      BY <1>3, <2>4, <3>1 DEF Filed
    <3>2. CASE x = s /\ st[x] = k
      BY <3>2
    <3> QED  BY <2>3, <3>1, <3>2
  <2> QED  BY <1>1, <1>3, <2>2, <2>3, <2>4 DEF Filed, Takes
<1> QED  BY <1>4, <1>5, <1>6

\* The panels once command k of panel p is posted.
LEMMA PostFits ==
    ASSUME Shapes, Filed(store, cmd), Fitting(panel, store, cmd), NEW cm, NEW st, Filed(st, cm), Stays(cm),
           NEW p \in InPlay, panel[p].on, ~panel[p].locked, ~panel[p].busy,
           NEW a \in ActsOf(p), Clear(p, panel[p], a), NEW k \in Keys, cm[k].panel = p, NEW s, s = StoreOf(p, a),
           Takes(st, s, k),
           \/ st = Saved(s, k)
           \/ st = store /\ p \notin BuyerPanels \cup SupportPanels
    PROVE  \A pn : pn = WithTickets([Told(st) EXCEPT ![p] = Begun(p, @, k, a)], st) =>
               /\ Fitting(pn, st, cm) /\ Steady(panel, pn)
               /\ p \in BuyerPanels => Occupied(p, pn[p], k)
<1> DEFINE d == Begun(p, Hears(p, panel[p], st), k, a)
           rn == [Told(st) EXCEPT ![p] = Begun(p, @, k, a)]
           pn == WithTickets(rn, st)
<1>1. p \in Panels /\ InPlay \subseteq Panels /\ "supportTickets" \notin BuyerPanels
  BY InPlayPanels DEF BuyerPanels
<1>2. Fits(p, panel[p], store, cmd)
  BY DEF Fitting
<1>3. Fits(p, d, st, cm) /\ Occupied(p, d, k)
  <2> DEFINE c == panel[p]
  <2>1. Fits(p, c, store, cmd)
    BY <1>2
  <2>2. c.on
    OBVIOUS
  <2>3. ~c.locked
    OBVIOUS
  <2>4. Clear(p, c, a)
    OBVIOUS
  <2>5. d = Begun(p, Hears(p, c, st), k, a)
    OBVIOUS
  <2>6. p \in Panels
    BY <1>1
  <2> HIDE DEF c, d
  <2>7. Fits(p, d, st, cm)
    BY <2>1, <2>2, <2>3, <2>4, <2>5, <2>6, BegunFits
  <2>8. Occupied(p, d, k)
    BY <2>1, <2>2, <2>3, <2>4, <2>5, <2>6, BegunFits
  <2> QED  BY <2>7, <2>8
<1>4. rn[p] = d /\ rn = [q \in InPlay |-> rn[q]] /\ \A q \in InPlay : q # p => rn[q] = Hears(q, panel[q], st)
  BY DEF Told
<1>5. ASSUME NEW q \in InPlay, q # p
      PROVE  Fits(q, rn[q], st, cm) /\ (q \in BuyerPanels => rn[q] = panel[q])
  <2>1. Fits(q, panel[q], store, cmd) /\ q \in Panels
    BY <1>1 DEF Fitting
  <2>2. \A x \in Stores : st[x] = store[x] \/ st[x] = NoKey \/ cm[st[x]].panel # q
    BY <1>5 DEF Takes
  <2>3. Fits(q, Hears(q, panel[q], st), st, cm)
    BY <2>1, <2>2, HearsFits
  <2>4. q \in BuyerPanels => Hears(q, panel[q], st) = panel[q]
    BY HearsNothing DEF BuyerPanels, SellerPanels
  <2> QED  BY <1>4, <1>5, <2>3, <2>4
<1> HIDE DEF d, rn
<1>6. Fitting(rn, st, cm)
  BY <1>3, <1>4, <1>5 DEF Fitting
<1>7. Fitting(pn, st, cm) /\ \A q \in InPlay : q # "supportTickets" => pn[q] = rn[q]
  BY <1>6, WithTicketsFit
<1> HIDE DEF pn
<1>8. Steady(panel, pn)
  BY <1>1, <1>5, <1>7 DEF Steady
<1>9. p \in BuyerPanels => Occupied(p, pn[p], k)
  BY <1>1, <1>3, <1>4, <1>7
<1> QED  BY <1>7, <1>8, <1>9 DEF pn, rn

\* What was posted stays posted.
Remembers(tell) == \A k \in Keys : outcome[k] # "none" => tell[k] # "none"

\* One more request, of a page that had none.
LEMMA PostAwaited ==
    ASSUME Awaited(flights, panel, cmd, outcome), InPlay \subseteq Panels,
           NEW qn, NEW dm, NEW tell, Steady(panel, qn), Stays(dm), Remembers(tell),
           NEW p \in InPlay, NEW k \in Keys, ~panel[p].busy, tell[k] # "none", dm[k].panel = p,
           p \in BuyerPanels => Occupied(p, qn[p], k), NEW f \in Flights
    PROVE  \A gs : gs = [flights EXCEPT ![f] = [key |-> k, panel |-> p, live |-> TRUE, answer |-> "none"]]
                   => Awaited(gs, qn, dm, tell)
<1> DEFINE r == [key |-> k, panel |-> p, live |-> TRUE, answer |-> "none"]
           gs == [flights EXCEPT ![f] = r]
<1>1. Awaited(flights, qn, dm, tell)
  BY AwaitedSteady DEF Stays, Remembers
<1>2. r \in Flying /\ r.key = k /\ r.panel = p
  BY DEF Flying
<1> HIDE DEF r
<1>3. Awaits(r, qn, dm, tell)
  BY <1>2 DEF Awaits, Holds, Occupied
<1>4. gs[f] = r /\ gs = [g \in Flights |-> gs[g]] /\ \A g \in Flights : g # f => gs[g] = flights[g]
  BY DEF Awaited
<1> HIDE DEF gs
<1>5. ASSUME NEW g \in Flights, g # f, flights[g].live, flights[g].panel = p, p \in BuyerPanels PROVE FALSE
  <2>1. Awaits(flights[g], panel, cmd, outcome)
    BY DEF Awaited
  <2>2. flights[g] # NoFlight
    BY <1>5 DEF NoFlight
  <2> QED  BY <1>5, <2>1, <2>2 DEF Awaits, Holds
<1>6. Alone(gs)
  BY <1>1, <1>2, <1>4, <1>5 DEF Awaited, Alone
<1> QED  BY <1>1, <1>3, <1>4, <1>6 DEF Awaited, gs, r

LEMMA PostTab ==
    ASSUME TabInv, WebInv', UNCHANGED <<scenario, late, possible, executed>>,
           NEW p \in InPlay, panel[p].on, ~panel[p].locked, ~panel[p].busy,
           NEW a \in ActsOf(p), Clear(p, panel[p], a), NEW k \in Keys, NEW st, Post(p, k, a, st),
           Stays(cmd'), cmd'[k].panel = p, cmd'[k].act = a, NEW s, s = StoreOf(p, a),
           \/ st = Saved(s, k)
           \/ st = store /\ p \notin BuyerPanels \cup SupportPanels
    PROVE  TabInv'
<1>1. /\ Shapes /\ InPlay \subseteq Panels /\ Filed(store, cmd) /\ Fitting(panel, store, cmd)
      /\ Awaited(flights, panel, cmd, outcome) /\ Fits(p, panel[p], store, cmd) /\ p \in Panels
  BY TabFacts
<1>2. /\ Filed(st, cmd') /\ s \in Stores
      /\ Takes(st, s, k)
  BY <1>1, PostFiled
<1>3. /\ Fitting(panel', st, cmd') /\ Steady(panel, panel')
      /\ p \in BuyerPanels => Occupied(p, panel'[p], k)
  <2> DEFINE pn == panel'
  <2>1. pn = WithTickets([Told(st) EXCEPT ![p] = Begun(p, @, k, a)], st)
    BY DEF Post
  <2>2. /\ Shapes /\ Filed(store, cmd) /\ Fitting(panel, store, cmd)
    BY <1>1
  <2>3. Filed(st, cmd') /\ Takes(st, s, k)
    BY <1>2
  <2> HIDE DEF pn
  <2>4. Fitting(pn, st, cmd')
    BY <2>1, <2>2, <2>3, PostFits
  <2>5. Steady(panel, pn)
    BY <2>1, <2>2, <2>3, PostFits
  <2>6. p \in BuyerPanels => Occupied(p, pn[p], k)
    BY <2>1, <2>2, <2>3, PostFits
  <2> QED  BY <2>4, <2>5, <2>6 DEF pn
<1>4. store' = st
  BY DEF Post
<1>5. outcome'[k] # "none" /\ Remembers(outcome')
  BY <1>1 DEF Post, Shapes, Remembers
<1>6. Awaited(flights', panel', cmd', outcome')
  <2> DEFINE qn == panel'
             dm == cmd'
             tell == outcome'
             fs == flights'
  <2>1. PICK f \in Flights : fs = [flights EXCEPT ![f] =
                            [key |-> k, panel |-> p, live |-> TRUE, answer |-> "none"]]
    BY DEF Post
  <2>2. Steady(panel, qn) /\ Stays(dm) /\ Remembers(tell) /\ (p \in BuyerPanels => Occupied(p, qn[p], k))
    BY <1>3, <1>5
  <2>3. tell[k] # "none" /\ dm[k].panel = p
    BY <1>5
  <2> HIDE DEF qn, dm, tell, fs
  <2>4. Awaited(fs, qn, dm, tell)
    BY <1>1, <2>1, <2>2, <2>3, PostAwaited
  <2> QED  BY <2>4 DEF qn, dm, tell, fs
<1>7. OneSupportCommand'
  <2>1. p = "supportView" /\ a \in DecisionActs => store["operation"] = NoKey
    BY <1>1, PendStores DEF Clear, Fits, Learnt, SupportPanels
  <2>2. p \in SupportPanels /\ a \notin DecisionActs => store["decision"] = NoKey
    BY <1>1 DEF Clear, Fits, Learnt, SupportPanels
  <2>3. /\ s = "decision" <=> p = "supportView" /\ a \in DecisionActs
        /\ s = "operation" <=> p \in SupportPanels /\ a \notin DecisionActs
    BY <1>1, StoreHolds
  <2>4. "decision" \in Stores /\ "operation" \in Stores
    BY DEF Stores
  <2> QED  BY <1>2, <1>4, <2>1, <2>2, <2>3, <2>4 DEF TabInv, OneSupportCommand, Takes
<1>8. Served'
  BY <1>5, ServedSame DEF Remembers
<1> QED  BY <1>2, <1>3, <1>4, <1>6, <1>7, <1>8, Moved

\* A panel fits whatever is given meanwhile.
LEMMA StaysFit ==
    ASSUME Filed(store, cmd), NEW cm, Stays(cm), NEW p \in Panels, NEW c, Fits(p, c, store, cmd)
    PROVE  Fits(p, c, store, cm)
<1>1. Own(p, c, cm)
  BY DEF Fits, Own, Stays, Panel
<1>2. "buyer" \in Stores
  BY DEF Stores
<1>3. store["buyer"] # NoKey => cm[store["buyer"]] = cmd[store["buyer"]]
  BY <1>2 DEF Filed, Stays
<1>4. c.on => Learnt(p, c, store, cm)
  BY <1>3 DEF Fits, Learnt
<1> QED  BY <1>1, <1>4 DEF Fits

LEMMA StaysFiled == ASSUME Filed(store, cmd), NEW cm, Stays(cm) PROVE Filed(store, cm)
<1>1. \A x \in Stores : store[x] # NoKey => cm[store[x]] = cmd[store[x]]
  BY DEF Filed, Stays
<1> QED  BY <1>1 DEF Filed

\* Saving failed.
LEMMA UnsavedTab ==
    ASSUME TabInv, WebInv', UNCHANGED <<scenario, late, possible, executed>>,
           NEW p \in InPlay, ~panel[p].busy, NEW k \in Keys, DoesNotSave(p, k),
           Stays(cmd'), cmd'[k].panel = p, panel[p].pending \in {NoKey, k}  \/ p \notin BuyerPanels
    PROVE  TabInv'
<1>1. /\ Shapes /\ InPlay \subseteq Panels /\ Filed(store, cmd) /\ Fitting(panel, store, cmd)
      /\ Awaited(flights, panel, cmd, outcome) /\ p \in Panels
      /\ UNCHANGED <<store, flights, outcome>>
  BY TabFacts DEF DoesNotSave
<1> DEFINE cm == cmd'
           d == Unsaved(p, panel[p], k)
           pn == [panel EXCEPT ![p] = d]
           qn == WithTickets(pn, store)
<1>2. Stays(cm) /\ cm[k].panel = p
  OBVIOUS
<1>3. panel' = qn
  BY DEF DoesNotSave
<1> HIDE DEF cm
<1>4. Filed(store, cm)
  BY <1>1, <1>2, StaysFiled
<1>5. \A q \in InPlay : Fits(q, panel[q], store, cm)
  BY <1>1, <1>2, StaysFit DEF Fitting
<1>6. Fits(p, d, store, cm)
  <2> DEFINE c == panel[p]
  <2>1. Fits(p, c, store, cm)
    BY <1>5
  <2>2. c.pending \in {NoKey, k} \/ p \notin BuyerPanels
    OBVIOUS
  <2>3. d = Unsaved(p, c, k)
    OBVIOUS
  <2> HIDE DEF c, d
  <2> QED  BY <1>1, <1>2, <1>4, <2>1, <2>2, <2>3, UnsavedFits
<1>7. pn[p] = d /\ pn = [q \in InPlay |-> pn[q]] /\ \A q \in InPlay : q # p => pn[q] = panel[q]
  BY <1>1 DEF Fitting
<1> HIDE DEF d, pn
<1>8. Fitting(pn, store, cm)
  BY <1>5, <1>6, <1>7 DEF Fitting
<1>9. Fitting(qn, store, cm) /\ \A q \in InPlay : q # "supportTickets" => qn[q] = pn[q]
  BY <1>1, <1>4, <1>8, WithTicketsFit
<1> HIDE DEF qn
<1>10. Steady(panel, qn)
  BY <1>7, <1>9 DEF Steady, BuyerPanels
<1>11. Awaited(flights, qn, cm, outcome)
  BY <1>1, <1>2, <1>10, AwaitedSteady DEF Stays
<1>12. Served'
  BY <1>1, ServedSame
<1>13. OneSupportCommand'
  BY <1>1 DEF TabInv, OneSupportCommand
<1>14. Filed(store', cmd') /\ Fitting(panel', store', cmd') /\ Awaited(flights', panel', cmd', outcome')
  BY <1>1, <1>3, <1>4, <1>9, <1>11 DEF cm
<1> QED  BY <1>12, <1>13, <1>14, Moved

LEMMA GiveTab ==
    ASSUME TabInv, WebInv', NEW p \in InPlay, panel[p].on, NEW a, NEW k \in Keys, NEW saves \in BOOLEAN,
           Give(p, a, k, saves)
    PROVE  TabInv'
<1> DEFINE s == StoreOf(p, a)
           c == panel[p]
<1>1. /\ Shapes /\ InPlay \subseteq Panels /\ p \in Panels
  BY TabFacts
<1>2. /\ cmd[k] = NoCmd /\ a \in ActsOf(p) /\ CanGive(a, c)
      /\ cmd' = [cmd EXCEPT ![k] = [panel |-> p, act |-> a]]
      /\ UNCHANGED <<scenario, late, possible, executed>>
      /\ IF saves THEN Post(p, k, a, Saved(s, k)) ELSE DoesNotSave(p, k)
  BY DEF Give
<1>3. cmd'[k] = [panel |-> p, act |-> a] /\ \A x \in Keys : x # k => cmd'[x] = cmd[x]
  BY <1>1, <1>2 DEF Shapes
<1>4. cmd'[k].panel = p /\ cmd'[k].act = a
  BY <1>3
<1>5. cmd[k].panel \notin Panels
  BY <1>2 DEF NoCmd, Panels, BuyerPanels, SellerPanels, SupportPanels, AdminPanels
<1>6. Stays(cmd')
  BY <1>3, <1>5 DEF Stays
<1>7. /\ c.on /\ ~c.locked /\ ~c.busy /\ c.pending = NoKey /\ Clear(p, c, a)
  <2> HIDE DEF c
  <2> QED  BY <1>1, <1>2, GivenMeans
<1>8. CASE saves
  <2> DEFINE st == Saved(s, k)
  <2>1. Post(p, k, a, st)
    BY <1>2, <1>8
  <2>2. st = Saved(s, k)
    OBVIOUS
  <2> HIDE DEF st, s
  <2>3. s = StoreOf(p, a)
    BY DEF s
  <2> QED  BY <1>2, <1>4, <1>6, <1>7, <2>1, <2>2, <2>3, PostTab
<1>9. CASE ~saves
  <2>1. DoesNotSave(p, k)
    BY <1>2, <1>9
  <2> QED  BY <1>2, <1>4, <1>6, <1>7, <2>1, UnsavedTab
<1> QED  BY <1>8, <1>9

LEMMA RepeatTab ==
    ASSUME TabInv, WebInv', NEW p \in InPlay, NEW k \in Keys, NEW saves \in BOOLEAN,
           Repeat(p, k, saves)
    PROVE  TabInv'
<1> DEFINE a == cmd[k].act
           s == StoreOf(p, a)
           c == panel[p]
           st == IF SavesAgain(p) THEN Saved(s, k) ELSE store
<1>1. /\ Shapes /\ InPlay \subseteq Panels /\ p \in Panels /\ Fits(p, c, store, cmd)
  BY TabFacts
<1>2. /\ cmd[k] # NoCmd /\ CanRepeat(p, c, k)
      /\ UNCHANGED <<cmd, scenario, late, possible, executed>>
  BY DEF Repeat
<1>3. cmd[k].act \in ActsOf(cmd[k].panel)
  BY <1>2 DEF TabInv, WebInv, Named
<1>4. /\ c.on /\ ~c.locked /\ ~c.busy /\ cmd[k].panel = p /\ Clear(p, c, cmd[k].act)
      /\ p \notin SupportPanels => c.pending = k
  <2> HIDE DEF c
  <2> QED  BY <1>1, <1>2, <1>3, RepeatedMeans
<1>5. Stays(cmd') /\ cmd'[k].panel = p /\ cmd'[k].act = a /\ a \in ActsOf(p) /\ s = StoreFor(k)
  BY <1>2, <1>3, <1>4 DEF Stays, StoreFor
<1>6. CASE saves
  <2>1. Post(p, k, a, st)
    BY <1>5, <1>6 DEF Repeat
  <2>2. st = Saved(s, k) \/ (st = store /\ p \notin BuyerPanels \cup SupportPanels)
    BY DEF SavesAgain
  <2> HIDE DEF st, s, a
  <2>3. s = StoreOf(p, a) /\ Clear(p, c, a)
    BY <1>4 DEF s, a
  <2> QED  BY <1>2, <1>4, <1>5, <2>1, <2>2, <2>3, PostTab
<1>7. CASE ~saves
  <2>1. DoesNotSave(p, k)
    BY <1>7 DEF Repeat
  <2>2. panel[p].pending \in {NoKey, k} \/ p \notin BuyerPanels
    BY <1>4 DEF BuyerPanels, SupportPanels
  <2> QED  BY <1>2, <1>4, <1>5, <2>1, <2>2, UnsavedTab
<1> QED  BY <1>6, <1>7

-----------------------------------------------------------------------------
(* The service. *)

LEMMA ForwardsAnswers ==
    ASSUME NEW p \in Panels
    PROVE  /\ \A status \in {"ok", "refused", "conflict", "unauthorized", "failed"} :
                  Forwarded(p, status) \in Answers
           /\ PostFails(p) \in Answers
<1>1. ASSUME NEW status \in {"ok", "refused", "conflict", "unauthorized", "failed"}
      PROVE  Forwarded(p, status) \in Answers
  <2>1. Relayed(status) \in Answers
    BY DEF Relayed, Answers
  <2>2. Forwarded(p, status) = Relayed(status)
    BY PanelCases DEF Forwarded, BuyerForwarded, StaffForwarded, AdminOpsForwarded, AdminSellersForwarded,
       OutcomesForwarded, RetentionForwarded, ResearchForwarded, BuyerPanels, SellerPanels, SupportPanels
  <2> QED  BY <2>1, <2>2
<1>2. PostFails(p) \in Answers
  BY DEF PostFails, FetchFails, StaffPostFails, BuyerPostFails, Answers, AdminPanels, SellerPanels, SupportPanels
<1> QED  BY <1>1, <1>2

LEMMA AnsweredAwaited ==
    ASSUME NEW fs, NEW pn, NEW cm, NEW told, Awaited(fs, pn, cm, told), NEW f \in Flights, fs[f] # NoFlight,
           NEW answer \in Answers
    PROVE  Awaited([fs EXCEPT ![f].answer = answer], pn, cm, told)
<1> DEFINE r == fs[f]
           d == [r EXCEPT !.answer = answer]
           gs == [fs EXCEPT ![f].answer = answer]
<1>1. gs[f] = d /\ gs = [g \in Flights |-> gs[g]] /\ \A g \in Flights : g # f => gs[g] = fs[g]
  BY DEF Awaited
<1> HIDE DEF gs
<1>2. Awaits(r, pn, cm, told)
  BY DEF Awaited
<1> HIDE DEF r
<1>3. r \in Flying /\ told[r.key] # "none" /\ cm[r.key].panel = r.panel /\ Holds(r, pn)
  BY <1>2 DEF Awaits, r
<1>4. d \in Flying /\ d.key = r.key /\ d.panel = r.panel /\ d.live = r.live
  BY <1>3 DEF Flying
<1> HIDE DEF d
<1>5. Awaits(d, pn, cm, told)
  BY <1>3, <1>4 DEF Awaits, Holds
<1>6. Alone(gs)
  BY <1>1, <1>4 DEF Awaited, Alone, r
<1> QED  BY <1>1, <1>5, <1>6 DEF Awaited, gs

LEMMA AfterActs == ASSUME TabInv, NEW a PROVE After(a) \subseteq Acts
<1>1. scenario.acts \subseteq Acts /\ possible \subseteq Acts
  BY WebAssumption, TabFacts DEF Shapes, TabInv, Served
<1> QED  BY <1>1 DEF After

\* What runs was posted.
LEMMA RunsServed ==
    ASSUME TabInv, NEW k \in Keys, outcome[k] # "none", Runs(k) \/ UNCHANGED <<executed, possible>>,
           late' \subseteq late \cup {k}, UNCHANGED outcome
    PROVE  Served'
  BY AfterActs DEF TabInv, Served, Runs

LEMMA ServeTab == ASSUME TabInv, WebInv', NEW f \in Flights, Serve(f) \/ TimesOut(f) PROVE TabInv'
<1> DEFINE fl == flights[f]
<1>1. /\ UNCHANGED <<store, cmd, panel, outcome, scenario>> /\ fl # NoFlight
      /\ Fitting(panel, store, cmd) /\ Awaited(flights, panel, cmd, outcome) /\ InPlay \subseteq Panels
  BY TabFacts DEF Serve, TimesOut
<1>2. fl.key \in Keys /\ fl.panel \in Panels /\ outcome[fl.key] # "none"
  <2>1. Awaits(fl, panel, cmd, outcome)
    BY <1>1 DEF Awaited
  <2> QED  BY <1>1, <2>1 DEF Awaits, Flying
<1>3. \E answer \in Answers : Answer(f, answer)
  <2>1. \A status \in {"ok", "failed"} \cup Statuses(fl.key) :
            status \in {"ok", "refused", "conflict", "unauthorized", "failed"}
    BY DEF Statuses
  <2> HIDE DEF fl
  <2>2. \A status \in {"ok", "failed"} \cup Statuses(fl.key) : Forwarded(fl.panel, status) \in Answers
    BY <1>2, <2>1, ForwardsAnswers
  <2>3. PostFails(fl.panel) \in Answers
    BY <1>2, ForwardsAnswers
  <2>4. CASE Serve(f)
    BY <2>2, <2>4 DEF Serve, fl
  <2>5. CASE TimesOut(f)
    BY <2>2, <2>3, <2>5 DEF TimesOut, fl
  <2> QED  BY <2>4, <2>5
<1>4. Awaited(flights', panel, cmd, outcome)
  <2>1. PICK answer \in Answers : flights' = [flights EXCEPT ![f].answer = answer]
    BY <1>3 DEF Answer
  <2>2. flights[f] # NoFlight
    BY <1>1
  <2>3. Awaited([flights EXCEPT ![f].answer = answer], panel, cmd, outcome)
    BY <1>1, <2>2, AnsweredAwaited
  <2> QED  BY <2>1, <2>3
<1>5. Served'
  <2>1. CASE Serve(f)
    <3>1. Runs(fl.key) \/ UNCHANGED <<executed, possible>>
      BY <2>1 DEF Serve
    <3>2. late' = late
      BY <2>1 DEF Serve
    <3> HIDE DEF fl
    <3> QED  BY <1>1, <1>2, <3>1, <3>2, RunsServed
  <2>2. CASE TimesOut(f)
    <3>1. late' = late \cup {fl.key} /\ UNCHANGED <<executed, possible>>
      BY <2>2 DEF TimesOut
    <3> HIDE DEF fl
    <3> QED  BY <1>1, <1>2, <3>1, RunsServed
  <2> QED  BY <2>1, <2>2
<1> QED  BY <1>1, <1>4, <1>5, PageStays

LEMMA LateTab == ASSUME TabInv, WebInv', NEW k \in Keys, Late(k) PROVE TabInv'
<1>1. /\ UNCHANGED <<store, cmd, panel, flights, outcome, scenario>> /\ k \in late /\ late' = late \ {k}
      /\ Runs(k) \/ UNCHANGED <<executed, possible>>
  BY DEF Late
<1>2. Fitting(panel', store, cmd) /\ Awaited(flights', panel', cmd, outcome)
  BY <1>1, TabFacts
<1>3. outcome[k] # "none"
  BY <1>1 DEF TabInv, Served
<1>4. Served'
  BY <1>1, <1>3, RunsServed
<1> QED  BY <1>1, <1>2, <1>4, PageStays

LEMMA ElsewhereTab == ASSUME TabInv, WebInv', NEW a, Elsewhere(a) PROVE TabInv'
<1>1. /\ UNCHANGED <<store, cmd, panel, flights, late, executed, outcome, scenario>> /\ possible' = After(a)
  BY DEF Elsewhere
<1>2. Fitting(panel', store, cmd) /\ Awaited(flights', panel', cmd, outcome)
  BY <1>1, TabFacts
<1>3. Served'
  BY <1>1, AfterActs DEF TabInv, Served
<1> QED  BY <1>1, <1>2, <1>3, PageStays

-----------------------------------------------------------------------------
(* The page. *)

\* A step of one panel that waits as before.
LEMMA PlaceTab ==
    ASSUME TabInv, WebInv', UNCHANGED <<store, cmd, late, possible, executed, outcome, scenario>>,
           NEW p \in InPlay, NEW d, Fits(p, d, store, cmd), KeepsWaiting(p, d),
           panel' \in {[panel EXCEPT ![p] = d], WithTickets([panel EXCEPT ![p] = d], store)},
           flights' \in {flights, Orphaned(panel', flights)}
    PROVE  TabInv'
<1>1. /\ InPlay \subseteq Panels /\ Awaited(flights, panel, cmd, outcome)
  BY TabFacts
<1> DEFINE qn == panel'
<1>2. qn \in {[panel EXCEPT ![p] = d], WithTickets([panel EXCEPT ![p] = d], store)}
  OBVIOUS
<1> HIDE DEF qn
<1>3. Fitting(qn, store, cmd)
  BY <1>2, PlaceFits
<1>4. Steady(panel, qn)
  BY <1>2, PlaceFits
<1>5. Awaited(flights, qn, cmd, outcome)
  BY <1>1, <1>4, AwaitedSteady
<1>6. SteadyOrGone(panel, qn) /\ \A q \in InPlay : qn[q] \in Panel
  BY <1>3, <1>4 DEF Steady, SteadyOrGone, Fitting, Fits
<1>7. Awaited(Orphaned(qn, flights), qn, cmd, outcome)
  BY <1>1, <1>6, OrphanedAwaited
<1>8. Awaited(flights', panel', cmd, outcome) /\ Fitting(panel', store, cmd)
  BY <1>3, <1>5, <1>7 DEF qn
<1>9. Served'
  BY ServedSame
<1> QED  BY <1>8, <1>9, PageStays

LEMMA ReadEndsTab ==
    ASSUME TabInv, WebInv', NEW p \in InPlay, NEW result \in {"ready", "error", "denied"},
           NEW l \in panel[p].loading, ReadEnds(p, l, result)
    PROVE  TabInv'
<1> DEFINE c == panel[p]
           l1 == c.loading \ {l}
           r1 == c.ready \cup {l}
           o1 == c.offered \cup {a \in possible \cap ActsOf(p) : ListOf(a) = l}
           d == [c EXCEPT !.loading = l1]
           r == [d EXCEPT !.ready = r1, !.offered = o1]
           e == [d EXCEPT !.denied = TRUE]
           x == CASE result = "ready" -> r [] result = "error" -> d [] result = "denied" -> e
<1>1. panel' = WithTickets([panel EXCEPT ![p] = x], store)
      /\ UNCHANGED <<store, cmd, flights, late, possible, executed, outcome, scenario>>
  <2>1. d.ready = c.ready /\ d.offered = c.offered
    OBVIOUS
  <2> QED  BY <2>1 DEF ReadEnds
<1>2. c \in Panel /\ Fits(p, c, store, cmd)
  BY TabFacts
<1>3. l1 \in SUBSET Lists /\ r1 \in SUBSET Lists /\ o1 \in SUBSET Acts
  BY <1>2 DEF Panel, TabInv, Served
<1> HIDE DEF c, l1, r1, o1
<1>4. /\ d \in Panel /\ d.on = c.on /\ d.pending = c.pending /\ d.decision = c.decision
      /\ d.frozen = c.frozen /\ d.locked = c.locked /\ d.busy = c.busy
  BY <1>2, <1>3 DEF Panel
<1> HIDE DEF d
<1>5. /\ r \in Panel /\ r.on = c.on /\ r.pending = c.pending /\ r.decision = c.decision
      /\ r.frozen = c.frozen /\ r.locked = c.locked /\ r.busy = c.busy
  BY <1>3, <1>4 DEF Panel
<1>6. /\ e \in Panel /\ e.on = c.on /\ e.pending = c.pending /\ e.decision = c.decision
      /\ e.frozen = c.frozen /\ e.locked = c.locked /\ e.busy = c.busy
  BY <1>4 DEF Panel
<1> HIDE DEF r, e
<1>7. x \in {r, d, e}
  OBVIOUS
<1> HIDE DEF x
<1>8. /\ x \in Panel /\ x.on = c.on /\ x.pending = c.pending /\ x.decision = c.decision
      /\ x.frozen = c.frozen /\ x.locked = c.locked /\ x.busy = c.busy
  BY <1>4, <1>5, <1>6, <1>7
<1>9. Fits(p, x, store, cmd)
  BY <1>2, <1>8, SameFits
<1>10. KeepsWaiting(p, x)
  BY <1>8 DEF KeepsWaiting, c
<1> QED  BY <1>1, <1>9, <1>10, PlaceTab

LEMMA ReadTab ==
    ASSUME TabInv, WebInv', NEW p \in InPlay, NEW l \in ListsOf(p), Read(p, l) PROVE TabInv'
<1> DEFINE c == panel[p]
           d == Reads(c, {l})
<1>1. panel' = WithTickets([panel EXCEPT ![p] = d], store) /\ flights' = Orphaned(panel', flights)
      /\ UNCHANGED <<store, cmd, late, possible, executed, outcome, scenario>>
  BY DEF Read
<1>2. c \in Panel /\ Fits(p, c, store, cmd) /\ {l} \in SUBSET Lists
  BY TabFacts, ListsAreLists
<1> HIDE DEF c
<1>3. d.on = c.on /\ d.busy = c.busy /\ d.pending = c.pending
  BY <1>2, ReadsRecord
<1>4. Fits(p, d, store, cmd)
  BY <1>2, ReadsFit
<1> HIDE DEF d
<1>5. KeepsWaiting(p, d)
  BY <1>3 DEF KeepsWaiting, c
<1> QED  BY <1>1, <1>4, <1>5, PlaceTab

LEMMA ActivateTab ==
    ASSUME TabInv, WebInv', NEW p \in InPlay, Activate(p) PROVE TabInv'
<1> DEFINE c == panel[p]
           a == [c EXCEPT !.active = TRUE]
           d == ReadsAll(p, a)
<1>1. /\ panel' = [panel EXCEPT ![p] = d] /\ p \in SellerPanels
      /\ UNCHANGED <<store, cmd, flights, late, possible, executed, outcome, scenario>>
  BY DEF Activate
<1>2. c \in Panel /\ Fits(p, c, store, cmd) /\ Shapes
  BY TabFacts
<1> HIDE DEF c
<1>3. /\ a \in Panel /\ a.on = c.on /\ a.pending = c.pending /\ a.decision = c.decision
      /\ a.frozen = c.frozen /\ a.locked = c.locked
  BY <1>2 DEF Panel
<1> HIDE DEF a
<1>4. Fits(p, a, store, cmd)
  BY <1>2, <1>3, SameFits
<1>5. Fits(p, d, store, cmd)
  BY <1>2, <1>4, ReadsAllFit
<1> HIDE DEF d
<1>6. KeepsWaiting(p, d)
  BY <1>1 DEF KeepsWaiting, SellerPanels, BuyerPanels
<1> QED  BY <1>1, <1>5, <1>6, PlaceTab

LEMMA ShownFits ==
    ASSUME TabInv, NEW page
    PROVE  /\ Fitting(Shows(page), store, cmd)
           /\ Fitting([p \in InPlay |-> NoPanel], store, cmd)
<1>1. Shapes /\ Filed(store, cmd) /\ InPlay \subseteq Panels
  BY TabFacts
<1>2. ASSUME NEW p \in InPlay PROVE Fits(p, Mounted(p, store), store, cmd) /\ Fits(p, NoPanel, store, cmd)
  BY <1>1, MountedFits, NoPanelFits
<1> QED  BY <1>2 DEF Fitting, Shows

LEMMA EnterTab == ASSUME TabInv, WebInv', NEW page, Enter(page) PROVE TabInv'
<1>1. /\ panel' = Shows(page) /\ OnPage = {}
      /\ UNCHANGED <<store, cmd, flights, late, possible, executed, outcome, scenario>>
  BY DEF Enter
<1>2. Fitting(panel', store, cmd)
  BY <1>1, ShownFits
<1>3. InPlay \subseteq Panels /\ Awaited(flights, panel, cmd, outcome)
  BY TabFacts
<1> DEFINE qn == panel'
<1>4. Steady(panel, qn)
  BY <1>1 DEF Steady, OnPage
<1> HIDE DEF qn
<1>5. Awaited(flights, qn, cmd, outcome)
  BY <1>3, <1>4, AwaitedSteady
<1>6. Served'
  BY <1>1, ServedSame
<1> QED  BY <1>1, <1>2, <1>5, <1>6, PageStays DEF qn

LEMMA LeaveTab == ASSUME TabInv, WebInv', Leave PROVE TabInv'
<1> DEFINE qn == [p \in InPlay |-> NoPanel]
<1>1. /\ panel' = qn /\ flights' = Orphaned(qn, flights)
      /\ UNCHANGED <<store, cmd, late, possible, executed, outcome, scenario>>
  BY DEF Leave
<1>2. Fitting(qn, store, cmd)
  BY ShownFits
<1>3. Awaited(flights, panel, cmd, outcome)
  BY TabFacts
<1>4. SteadyOrGone(panel, qn) /\ \A p \in InPlay : qn[p] \in Panel
  BY <1>2 DEF SteadyOrGone, NoPanel, Fitting, Fits
<1> HIDE DEF qn
<1>5. Awaited(Orphaned(qn, flights), qn, cmd, outcome)
  BY <1>3, <1>4, OrphanedAwaited
<1>6. Served'
  BY <1>1, ServedSame
<1> QED  BY <1>1, <1>2, <1>5, <1>6, PageStays

LEMMA ReloadTab == ASSUME TabInv, WebInv', Reload PROVE TabInv'
<1>1. /\ panel' = Shows(OnPage \ {"supportTickets"}) /\ flights' = [f \in Flights |-> NoFlight]
      /\ late' = late \cup {flights[f].key : f \in {g \in Flights :
                               flights[g] # NoFlight /\ flights[g].answer = "none"}}
      /\ UNCHANGED <<store, cmd, possible, executed, outcome, scenario>>
  BY DEF Reload
<1>2. Fitting(panel', store, cmd)
  BY <1>1, ShownFits
<1>3. Awaited(flights', panel', cmd, outcome)
  BY <1>1 DEF Awaited, Awaits, Alone, NoFlight
<1>4. \A f \in Flights : flights[f] # NoFlight => flights[f].key \in Keys /\ outcome[flights[f].key] # "none"
  BY TabFacts DEF Awaited, Awaits, Flying
<1>5. Served'
  BY <1>1, <1>4 DEF TabInv, Served
<1> QED  BY <1>1, <1>2, <1>3, <1>5, PageStays

-----------------------------------------------------------------------------
(* The answer arrives. *)

\* The stores st are those of now, but for some that are empty.
Empties(st) == \A x \in Stores : st[x] = store[x] \/ st[x] = NoKey

\* What an answer does to the stores.
SettledStore(fl) ==
    IF Clears(fl) /\ StoreFor(fl.key) # "none" THEN Removed(StoreFor(fl.key), fl.key) ELSE store

\* What the requests are about.
LEMMA FlightFacts ==
    ASSUME TabInv, NEW f \in Flights, flights[f] # NoFlight
    PROVE  LET fl == flights[f] IN
           /\ fl \in Flying /\ fl.panel \in InPlay /\ fl.panel \in Panels /\ fl.key \in Keys /\ fl.key # NoKey
           /\ cmd[fl.key].panel = fl.panel /\ cmd[fl.key].act \in ActsOf(fl.panel)
           /\ outcome[fl.key] # "none" /\ Holds(fl, panel)
           /\ StoreFor(fl.key) = StoreOf(fl.panel, cmd[fl.key].act) /\ StoreFor(fl.key) \in Stores
<1> DEFINE fl == flights[f]
<1>1. fl # NoFlight /\ Awaits(fl, panel, cmd, outcome) /\ InPlay \subseteq Panels
  BY TabFacts DEF Awaited
<1> HIDE DEF fl
<1>2. /\ fl \in Flying /\ fl.panel \in InPlay /\ fl.panel \in Panels /\ fl.key \in Keys /\ fl.key # NoKey
      /\ cmd[fl.key].panel = fl.panel /\ outcome[fl.key] # "none" /\ Holds(fl, panel)
  BY <1>1, WebAssumption DEF Awaits, Flying
<1>3. cmd[fl.key].act \in ActsOf(fl.panel)
  BY <1>2 DEF TabInv, WebInv, Named
<1>4. StoreFor(fl.key) = StoreOf(fl.panel, cmd[fl.key].act) /\ StoreFor(fl.key) \in Stores
  BY <1>2, <1>3, StoreHolds DEF StoreFor
<1> QED  BY <1>2, <1>3, <1>4 DEF fl

LEMMA SettledStoreFiled ==
    ASSUME Filed(store, cmd), NEW fl, fl.key \in Keys, NEW st, st = SettledStore(fl)
    PROVE  Filed(st, cmd) /\ Empties(st)
<1> DEFINE s == StoreFor(fl.key)
<1>1. st = store \/ (st = [store EXCEPT ![s] = NoKey])
  BY DEF SettledStore, Removed
<1> HIDE DEF s
<1>2. st \in [Stores -> Keys \cup {NoKey}] /\ Empties(st)
  BY <1>1 DEF Filed, Empties
<1>3. "none" \in Stores
  BY DEF Stores
<1> QED  BY <1>2, <1>3 DEF Filed, Empties

\* The store of an answered command is empty or another command's.
LEMMA AnsweredGone ==
    ASSUME Filed(store, cmd), NEW fl, fl.key \in Keys, NEW s \in Stores, s = StoreFor(fl.key),
           fl.live, fl.answer # "unknown", NEW st, st = SettledStore(fl)
    PROVE  /\ Removes(s, fl.key) => st[s] = NoKey
           /\ s # "none" => st[s] = IF store[s] = fl.key THEN NoKey ELSE store[s]
<1>1. Clears(fl)
  BY DEF Clears, AccountClears, PageClears, PanelClears
<1>2. CASE s = "none"
  <2>1. st = store
    BY <1>2 DEF SettledStore
  <2> QED  BY <1>2, <2>1 DEF Filed
<1>3. CASE s # "none"
  <2>1. st = IF store[s] = fl.key THEN [store EXCEPT ![s] = NoKey] ELSE store
    BY <1>1, <1>3 DEF SettledStore, Removed
  <2>2. store \in [Stores -> Keys \cup {NoKey}]
    BY DEF Filed
  <2> QED  BY <1>3, <2>1, <2>2 DEF Removes
<1> QED  BY <1>2, <1>3

\* The request's panel once it has the answer.
LEMMA SettledPanel ==
    ASSUME TabInv, NEW f \in Flights, flights[f] # NoFlight, NEW st, st = SettledStore(flights[f]),
           NEW h, h = Hears(flights[f].panel, panel[flights[f].panel], st)
    PROVE  /\ Fits(flights[f].panel, Settled(h, flights[f]), st, cmd)
           /\ flights[f].panel \in BuyerPanels => h = panel[flights[f].panel]
<1> DEFINE fl == flights[f]
           p == fl.panel
           a == cmd[fl.key].act
           s == StoreFor(fl.key)
           c == panel[p]
<1>1. /\ p \in InPlay /\ p \in Panels /\ fl.key \in Keys /\ fl.key # NoKey
      /\ cmd[fl.key].panel = fl.panel /\ a \in ActsOf(p) /\ Holds(fl, panel)
      /\ s = StoreOf(p, a) /\ s \in Stores
  BY FlightFacts
<1>2. Shapes /\ Filed(store, cmd) /\ Fits(p, c, store, cmd)
  BY <1>1, TabFacts
<1>3. st = SettledStore(fl) /\ h = Hears(p, c, st)
  OBVIOUS
<1>4. Holds(fl, panel) => (fl.live /\ p \in BuyerPanels => c.pending = fl.key /\ c.on)
  BY DEF Holds
<1> HIDE DEF fl
<1>5. Filed(st, cmd) /\ Empties(st)
  BY <1>1, <1>2, <1>3, SettledStoreFiled
<1>6. p \in BuyerPanels => h = c
  BY <1>3, HearsNothing DEF BuyerPanels, SellerPanels
<1>7. Fits(p, h, st, cmd)
  <2>1. Stays(cmd) /\ \A x \in Stores : st[x] = store[x] \/ st[x] = NoKey \/ cmd[st[x]].panel # p
    BY <1>5 DEF Stays, Empties
  <2> HIDE DEF c
  <2> QED  BY <1>1, <1>2, <1>3, <1>5, <2>1, HearsFits
<1>8. fl.live /\ fl.panel \in BuyerPanels => h.pending = fl.key
  BY <1>1, <1>4, <1>6
<1>9. fl.live /\ fl.answer # "unknown" /\ Removes(StoreFor(fl.key), fl.key) => st[StoreFor(fl.key)] = NoKey
  BY <1>1, <1>2, <1>3, AnsweredGone
<1>10. fl.live /\ fl.answer # "unknown" /\ fl.panel \in BuyerPanels =>
           st["buyer"] = NoKey \/ cmd[st["buyer"]].panel # fl.panel
  <2> SUFFICES ASSUME fl.live, fl.answer # "unknown", fl.panel \in BuyerPanels
               PROVE  st["buyer"] = NoKey \/ cmd[st["buyer"]].panel # fl.panel
    OBVIOUS
  <2>1. s = "buyer" /\ s # "none"
    BY <1>1, StoreHolds
  <2> HIDE DEF s
  <2>2. s = StoreFor(fl.key) /\ s \in Stores
    BY <1>1 DEF s
  <2>3. st[s] = IF store[s] = fl.key THEN NoKey ELSE store[s]
    BY <1>1, <1>2, <1>3, <2>1, <2>2, AnsweredGone
  <2>4. c.pending = fl.key /\ c.on
    BY <1>1, <1>4
  <2>5. c.pending = store["buyer"] \/ store["buyer"] = NoKey \/ cmd[store["buyer"]].panel # p
    BY <1>2, <2>4 DEF Fits, Learnt
  <2> QED  BY <2>1, <2>3, <2>4, <2>5
<1>11. Fits(fl.panel, Settled(h, fl), st, cmd)
  <2>1. fl.panel \in Panels /\ fl.key \in Keys /\ cmd[fl.key].panel = fl.panel
        /\ cmd[fl.key].act \in ActsOf(fl.panel)
    BY <1>1
  <2>2. Fits(fl.panel, h, st, cmd)
    BY <1>7
  <2> HIDE DEF p, a, s, c
  <2> QED  BY <1>2, <1>5, <1>8, <1>9, <1>10, <2>1, <2>2, SettledFits
<1> QED  BY <1>6, <1>11 DEF fl

\* The unreadable history leaves the command pending.
LEMMA KeptFits ==
    ASSUME NEW p, p \in {"outcomes", "retention"}, NEW st, NEW c, Fits(p, c, st, cmd), NEW k \in Keys, cmd[k].panel = p
    PROVE  Fits(p, Kept(c, k), st, cmd)
<1> DEFINE d == [c EXCEPT !.busy = FALSE, !.pending = k]
<1>1. Kept(c, k) = d /\ c \in Panel /\ k # NoKey
  BY WebAssumption DEF Kept, Fits
<1>2. /\ d \in Panel /\ d.on = c.on /\ d.pending = k /\ d.decision = c.decision
      /\ d.frozen = c.frozen /\ d.locked = c.locked
  BY <1>1 DEF Panel
<1> HIDE DEF d
<1>3. p \notin BuyerPanels
  BY DEF BuyerPanels
<1> QED  BY <1>1, <1>2, <1>3 DEF Fits, Own, Learnt

LEMMA SettleTab ==
    ASSUME TabInv, WebInv', NEW f \in Flights, NEW historyFails \in BOOLEAN, Settle(f, historyFails)
    PROVE  TabInv'
<1> DEFINE fl == flights[f]
           p  == fl.panel
           k  == fl.key
           st == SettledStore(fl)
           h  == Hears(p, panel[p], st)
           c  == Settled(h, fl)
           d  == IF historyFails THEN Kept(c, k) ELSE c
           pn == [Told(st) EXCEPT ![p] = d]
           shown == WithTickets(pn, st)
           gs == [flights EXCEPT ![f] = NoFlight]
<1>1. /\ p \in InPlay /\ p \in Panels /\ k \in Keys /\ cmd[k].panel = p
      /\ cmd[k].act \in ActsOf(p) /\ outcome[k] # "none" /\ fl # NoFlight
  BY FlightFacts DEF Settle
<1>2. Told(st) = [q \in InPlay |-> Hears(q, panel[q], st)] /\ Told(st)[p] = h
  BY <1>1 DEF Told
<1>3. /\ store' = st /\ panel' = shown /\ flights' = Orphaned(shown, gs)
      /\ outcome' = [outcome EXCEPT ![k] = Learned(@, fl)]
      /\ historyFails => HistoryFails(fl)
      /\ UNCHANGED <<cmd, late, possible, executed, scenario>>
  BY <1>2 DEF Settle, SettledStore
<1>4. /\ Shapes /\ InPlay \subseteq Panels /\ Filed(store, cmd) /\ Fitting(panel, store, cmd)
      /\ Awaited(flights, panel, cmd, outcome)
  BY TabFacts
<1>5. Fits(p, c, st, cmd) /\ (p \in BuyerPanels => h = panel[p])
  BY <1>1, SettledPanel
<1>6. c = IF ~fl.live THEN h ELSE c
  BY DEF Settled
<1> HIDE DEF fl, c, h
<1>7. Filed(st, cmd) /\ Empties(st)
  <2>1. st = SettledStore(fl)
    OBVIOUS
  <2> HIDE DEF st
  <2> QED  BY <1>1, <1>4, <2>1, SettledStoreFiled
<1> HIDE DEF st
<1>8. Fits(p, d, st, cmd)
  <2>1. historyFails => p \in {"outcomes", "retention"}
    BY <1>3 DEF HistoryFails
  <2> HIDE DEF p, k
  <2>2. historyFails => Fits(p, Kept(c, k), st, cmd)
    BY <1>1, <1>5, <2>1, KeptFits
  <2> QED  BY <1>5, <2>2
<1>9. p \in BuyerPanels /\ ~fl.live => d = panel[p]
  BY <1>3, <1>5, <1>6 DEF HistoryFails
<1> HIDE DEF d
<1>10. ASSUME NEW q \in InPlay
       PROVE  Fits(q, Hears(q, panel[q], st), st, cmd) /\ (q \in BuyerPanels => Hears(q, panel[q], st) = panel[q])
  <2>1. Stays(cmd) /\ \A x \in Stores : st[x] = store[x] \/ st[x] = NoKey \/ cmd[st[x]].panel # q
    BY <1>7 DEF Stays, Empties
  <2>2. Fits(q, panel[q], store, cmd) /\ q \in Panels
    BY <1>4 DEF Fitting
  <2>3. Fits(q, Hears(q, panel[q], st), st, cmd)
    BY <1>4, <1>7, <2>1, <2>2, HearsFits
  <2>4. q \in BuyerPanels => Hears(q, panel[q], st) = panel[q]
    BY HearsNothing DEF BuyerPanels, SellerPanels
  <2> QED  BY <2>3, <2>4
<1>11. /\ pn = [q \in InPlay |-> pn[q]] /\ pn[p] = d
       /\ \A q \in InPlay : q # p => pn[q] = Hears(q, panel[q], st)
  BY <1>1, <1>2
<1> HIDE DEF pn
<1>12. Fitting(pn, st, cmd)
  BY <1>8, <1>10, <1>11 DEF Fitting
<1>13. Fitting(shown, st, cmd) /\ \A q \in InPlay : q # "supportTickets" => shown[q] = pn[q]
  BY <1>4, <1>7, <1>12, WithTicketsFit
<1> HIDE DEF shown
<1>14. \A q \in BuyerPanels \cap InPlay : q # p \/ ~fl.live => shown[q] = panel[q]
  BY <1>9, <1>10, <1>11, <1>13 DEF BuyerPanels
<1> DEFINE tell == outcome'
<1>15. Remembers(tell)
  <2>1. \A o : o # "none" => Learned(o, fl) # "none"
    BY DEF Learned
  <2>2. \A x \in Keys : tell[x] = IF x = k THEN Learned(outcome[x], fl) ELSE outcome[x]
    BY <1>1, <1>3, <1>4 DEF Shapes
  <2> QED  BY <2>1, <2>2 DEF Remembers
<1> HIDE DEF tell
<1>16. gs[f] = NoFlight /\ gs = [g \in Flights |-> gs[g]] /\ \A g \in Flights : g # f => gs[g] = flights[g]
  BY <1>4 DEF Awaited
<1> HIDE DEF gs
<1>17. ASSUME NEW g \in Flights, g # f PROVE Awaits(flights[g], shown, cmd, tell)
  <2> DEFINE r == flights[g]
  <2>1. Awaits(r, panel, cmd, outcome)
    BY <1>4 DEF Awaited
  <2>2. r.live /\ r.panel \in BuyerPanels /\ r.panel = p => ~fl.live
    BY <1>4, <1>17 DEF Awaited, Alone, fl
  <2> HIDE DEF r
  <2>3. CASE r = NoFlight
    BY <2>3 DEF Awaits, r
  <2>4. CASE r # NoFlight
    <3>1. r \in Flying /\ outcome[r.key] # "none" /\ cmd[r.key].panel = r.panel /\ Holds(r, panel)
      BY <2>1, <2>4 DEF Awaits
    <3>2. tell[r.key] # "none"
      BY <1>15, <3>1 DEF Remembers, Flying
    <3>3. Holds(r, shown)
      BY <1>14, <2>2, <3>1 DEF Holds, Flying
    <3> QED  BY <3>1, <3>2, <3>3 DEF Awaits, r
  <2> QED  BY <2>3, <2>4
<1>18. Alone(gs)
  BY <1>4, <1>16 DEF Awaited, Alone, NoFlight
<1>19. Awaited(gs, shown, cmd, tell)
  BY <1>16, <1>17, <1>18 DEF Awaited, Awaits
<1>20. SteadyOrGone(shown, shown) /\ \A q \in InPlay : shown[q] \in Panel
  BY <1>13 DEF SteadyOrGone, Fitting, Fits
<1>21. Awaited(Orphaned(shown, gs), shown, cmd, tell)
  BY <1>19, <1>20, OrphanedAwaited
<1>22. OneSupportCommand'
  BY <1>3, <1>7 DEF TabInv, OneSupportCommand, Empties, Stores
<1>23. Served'
  BY <1>3, <1>15, ServedSame DEF Remembers, tell
<1>24. Filed(store', cmd') /\ Fitting(panel', store', cmd') /\ Awaited(flights', panel', cmd', outcome')
  BY <1>3, <1>7, <1>13, <1>21 DEF tell
<1> QED  BY <1>3, <1>22, <1>23, <1>24, Moved

-----------------------------------------------------------------------------
(* All steps, and what follows. *)

LEMMA TabStep == ASSUME TabInv, [WebNext]_vars PROVE TabInv'
<1>1. WebInv'
  BY WebStep DEF TabInv
<1>2. CASE UNCHANGED vars
  <2>1. UNCHANGED <<store, cmd, panel, flights, late, possible, executed, outcome, scenario>>
    BY <1>2 DEF vars
  <2>2. Fitting(panel', store, cmd) /\ Awaited(flights', panel', cmd, outcome)
    BY <2>1, TabFacts
  <2>3. Served'
    BY <2>1, ServedSame
  <2> QED  BY <1>1, <2>1, <2>2, <2>3, PageStays
<1>3. \A p \in OnPage : p \in InPlay /\ panel[p].on
  BY DEF OnPage
<1>4. ASSUME NEW p \in OnPage, NEW k \in Keys, NEW saves \in BOOLEAN, NEW a, Give(p, a, k, saves)
      PROVE  TabInv'
  BY <1>1, <1>3, <1>4, GiveTab
<1>5. ASSUME NEW p \in OnPage, NEW k \in Keys, NEW saves \in BOOLEAN, Repeat(p, k, saves)
      PROVE  TabInv'
  BY <1>1, <1>3, <1>5, RepeatTab
<1>6. ASSUME NEW f \in Flights, Serve(f) \/ TimesOut(f) PROVE TabInv'
  BY <1>1, <1>6, ServeTab
<1>7. ASSUME NEW k \in Keys, Late(k) PROVE TabInv'
  BY <1>1, <1>7, LateTab
<1>8. ASSUME NEW a \in scenario.acts, Elsewhere(a) PROVE TabInv'
  BY <1>1, <1>8, ElsewhereTab
<1>9. ASSUME NEW f \in Flights, NEW historyFails \in BOOLEAN, Settle(f, historyFails) PROVE TabInv'
  BY <1>1, <1>9, SettleTab
<1>10. ASSUME NEW p \in OnPage, NEW result \in {"ready", "error", "denied"},
              NEW l \in panel[p].loading, ReadEnds(p, l, result)
       PROVE  TabInv'
  BY <1>1, <1>3, <1>10, ReadEndsTab
<1>11. ASSUME NEW p \in OnPage, NEW l \in ListsOf(p), Read(p, l) PROVE TabInv'
  BY <1>1, <1>3, <1>11, ReadTab
<1>12. ASSUME NEW p \in OnPage, Activate(p) PROVE TabInv'
  BY <1>1, <1>3, <1>12, ActivateTab
<1>13. ASSUME NEW page \in scenario.pages, Enter(page) PROVE TabInv'
  BY <1>1, <1>13, EnterTab
<1>14. CASE Leave
  BY <1>1, <1>14, LeaveTab
<1>15. CASE Reload
  BY <1>1, <1>15, ReloadTab
<1> QED
  BY <1>2, <1>4, <1>5, <1>6, <1>7, <1>8, <1>9, <1>10, <1>11, <1>12, <1>13, <1>14, <1>15 DEF WebNext

LEMMA TabInitial == ASSUME WebInit PROVE TabInv
<1>1. WebInv
  BY WebInitial
<1>2. Filed(store, cmd)
  BY DEF WebInit, Filed, Stores
<1>3. Fitting(panel, store, cmd)
  BY NoPanelFits DEF WebInit, Fitting
<1>4. Awaited(flights, panel, cmd, outcome)
  BY DEF WebInit, Awaited, Awaits, Alone, NoFlight
<1>5. scenario.acts \subseteq Acts
  BY WebAssumption DEF WebInit
<1>6. Served
  BY <1>5 DEF WebInit, Served
<1>7. OneSupportCommand
  BY DEF WebInit, OneSupportCommand, Stores
<1> QED  BY <1>1, <1>2, <1>3, <1>4, <1>6, <1>7 DEF TabInv

LEMMA TabTypes == ASSUME TabInv PROVE WebTypeOK
<1>1. /\ Shapes /\ InPlay \subseteq Panels /\ Filed(store, cmd) /\ Fitting(panel, store, cmd)
      /\ Awaited(flights, panel, cmd, outcome) /\ Served
  BY TabFacts DEF TabInv
<1>2. panel \in [InPlay -> Panel]
  BY <1>1 DEF Fitting, Fits
<1>3. flights \in [Flights -> [key : Keys, panel : Panels, live : BOOLEAN,
                               answer : Answers \cup {"none"}] \cup {NoFlight}]
  <2>1. \A f \in Flights : flights[f] \in Flying \cup {NoFlight}
    BY <1>1 DEF Awaited, Awaits
  <2>2. Flying \subseteq [key : Keys, panel : Panels, live : BOOLEAN, answer : Answers \cup {"none"}]
    BY <1>1 DEF Flying
  <2> QED  BY <1>1, <2>1, <2>2 DEF Awaited
<1>4. \A p \in BuyerPanels \cap InPlay : panel[p].pending # NoKey => cmd[panel[p].pending].panel = p
  BY <1>1 DEF Fitting, Fits, Own, BuyerPanels, SellerPanels, SupportPanels
<1> QED  BY <1>1, <1>2, <1>3, <1>4 DEF WebTypeOK, Shapes, Filed, Served

LEMMA NothingBeside == ASSUME TabInv PROVE NothingBesideUnresolved
<1> SUFFICES ASSUME NEW p \in OnPage \ {"product"}, NEW a \in ActsOf(p) \cap scenario.acts,
                    CanGive(a, panel[p])
             PROVE  store[StoreOf(p, a)] = NoKey \/ cmd[store[StoreOf(p, a)]].panel \in BuyerPanels \ {p}
  BY DEF NothingBesideUnresolved
<1> DEFINE s == StoreOf(p, a)
           c == panel[p]
<1>1. p \in Panels /\ Fits(p, c, store, cmd) /\ Filed(store, cmd) /\ a \in ActsOf(p) /\ CanGive(a, c)
  BY TabFacts DEF OnPage
<1>2. /\ s = "buyer" <=> p \in BuyerPanels
      /\ s = "seller" <=> p \in SellerPanels
      /\ s = "decision" <=> p = "supportView" /\ a \in DecisionActs
      /\ s = "operation" <=> p \in SupportPanels /\ a \notin DecisionActs
      /\ \A q \in AdminPanels : s = q <=> p = q
      /\ s \in Stores /\ (a \notin DecisionActs \/ p = "supportView")
  BY <1>1, StoreHolds
<1> HIDE DEF c, s
<1>3. c.on /\ ~c.locked /\ c.pending = NoKey /\ (p = "supportView" => c.decision = NoKey)
  BY <1>1, GivenMeans
<1>4. Learnt(p, c, store, cmd)
  BY <1>1, <1>3 DEF Fits
<1>5. CASE p \in BuyerPanels
  <2>1. store[s] = NoKey \/ cmd[store[s]].panel # p
    BY <1>2, <1>3, <1>4, <1>5 DEF Learnt
  <2>2. store[s] # NoKey => cmd[store[s]].panel \in BuyerPanels
    <3> DEFINE q == cmd[store[s]].panel
               b == cmd[store[s]].act
    <3>1. store[s] # NoKey => q \in Panels /\ b \in ActsOf(q) /\ StoreOf(q, b) = s
      BY <1>1, <1>2 DEF Filed
    <3> HIDE DEF q, b
    <3>2. store[s] # NoKey => q \in BuyerPanels
      BY <1>2, <1>5, <3>1, StoreHolds
    <3> QED  BY <3>2 DEF q
  <2> QED  BY <2>1, <2>2 DEF s
<1>6. CASE p \in SupportPanels /\ a \in DecisionActs
  BY <1>2, <1>3, <1>4, <1>6 DEF Learnt, s
<1>7. CASE p \notin BuyerPanels /\ ~(p \in SupportPanels /\ a \in DecisionActs)
  <2>1. s = PendStore(p)
    BY <1>1, <1>2, <1>7, PendStores DEF Panels
  <2> QED  BY <1>3, <1>4, <1>7, <2>1 DEF Learnt, s
<1> QED  BY <1>5, <1>6, <1>7

LEMMA TabAlways == WebSpec => []TabInv
  BY TabInitial, TabStep, PTL DEF WebSpec

\* For any keys, pages and commands: the tab's state is well formed, a request
\* that ran or may still run late was posted, and a buyer's page never takes
\* another page's command for its own (web-pending-commerce.ts, the pages' restore).
THEOREM WebTypeCorrect == WebSpec => []WebTypeOK
<1>1. TabInv => WebTypeOK
  BY TabTypes
<1> QED  BY <1>1, TabAlways, PTL

\* A support decision and another support command are never both unresolved, so
\* no reload can lock the support page, however its two components give, repeat,
\* lose and settle them (support-view.tsx:95-133).
THEOREM SupportCommandAlone == WebSpec => []OneSupportCommand
<1>1. TabInv => OneSupportCommand
  BY DEF TabInv
<1> QED  BY <1>1, TabAlways, PTL

\* A panel that would take another command has an empty store, or, on a buyer's
\* page, a store with another page's command: panels that share a store learn of
\* every change in time (business-operations.tsx:289, support-tickets.tsx:79).
THEOREM NothingEverBeside == WebSpec => []NothingBesideUnresolved
<1>1. TabInv => NothingBesideUnresolved
  BY NothingBeside
<1> QED  BY <1>1, TabAlways, PTL
=============================================================================
