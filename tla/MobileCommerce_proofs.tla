------------------------ MODULE MobileCommerce_proofs ------------------------
(***************************************************************************)
(* No posted command without a definite answer is ever out of the store,   *)
(* for any number of keys, photographs, controllers and screens.           *)
(*                                                                         *)
(* Recoverable is inductive once outcome is known to be a function on the  *)
(* keys: a record is only replaced by its own successor, only cleared by   *)
(* its own key, and a save does not go over another one.                   *)
(*                                                                         *)
(* The types and the busy screens rest on a second invariant, DeviceInv:   *)
(* everything the device refers to was given before, and each controller   *)
(* is either gone or at work on a command or a read of its own.            *)
(***************************************************************************)
EXTENDS MobileCommerce, TLAPS

OutcomeType == outcome \in [Keys -> {"none", "unsure", "known", "given up"}]
MobileInv == OutcomeType /\ Recoverable

\* Clearing by a key leaves every other record alone.
LEMMA ClearKeepsOthers ==
    ASSUME NEW k, NEW j, Clear(k), stored = j, j # k
    PROVE  stored' = j
  BY DEF Clear, ClearedBy

\* An answer makes one command known and touches no other.
LEMMA ToldKeepsOthers ==
    ASSUME NEW a, NEW k, OutcomeType, Told(a, k)
    PROVE  /\ OutcomeType'
           /\ \A j \in Keys : outcome'[j] = "unsure" => outcome[j] = "unsure" /\ (a # "unknown" => j # k)
  BY DEF OutcomeType, Told

\* The record of an answered command gives way to its successor only.
LEMMA AdvanceKeeps ==
    ASSUME NEW c, NEW p, NEW e, NEW k, NEW a, a # "unknown", MobileInv, Advance(c, p, e, k), Told(a, c.key)
    PROVE  MobileInv'
<1>1. OutcomeType' /\ \A j \in Keys : outcome'[j] = "unsure" => outcome[j] = "unsure" /\ j # c.key
  BY ToldKeepsOthers DEF MobileInv
<1>2. stored = c.key
  BY DEF Advance
<1> QED  BY <1>1, <1>2 DEF MobileInv, Recoverable

\* Nothing is cleared, or the answered command is.
LEMMA ClearKeeps ==
    ASSUME NEW a, NEW k, MobileInv, Told(a, k),
           (a # "unknown" /\ Clear(k)) \/ UNCHANGED stored
    PROVE  MobileInv'
<1>1. OutcomeType' /\ \A j \in Keys : outcome'[j] = "unsure" => outcome[j] = "unsure" /\ (a # "unknown" => j # k)
  BY ToldKeepsOthers DEF MobileInv
<1>2. ASSUME NEW j \in Keys, outcome'[j] = "unsure" PROVE stored' = j
  <2>1. stored = j
    BY <1>1, <1>2 DEF MobileInv, Recoverable
  <2>2. CASE UNCHANGED stored
    BY <2>1, <2>2
  <2>3. CASE a # "unknown" /\ Clear(k)
    BY <1>1, <1>2, <2>1, <2>3, ClearKeepsOthers
  <2> QED  BY <2>2, <2>3
<1> QED  BY <1>1, <1>2 DEF MobileInv, Recoverable

\* save() posts a command only when the store holds nothing else.
LEMMA SaveKeeps ==
    ASSUME NEW i, MobileInv, Save(i)
    PROVE  MobileInv'
<1>1. CASE UNCHANGED <<stored, outcome>>
  BY <1>1 DEF MobileInv, OutcomeType, Recoverable
<1>2. CASE stored \in {NoKey, ctl[i].key} /\ stored' = ctl[i].key /\ outcome' \in {outcome, Posted(ctl[i].key)}
  <2>1. OutcomeType'
    BY <1>2 DEF MobileInv, OutcomeType, Posted
  <2>2. ASSUME NEW j \in Keys, outcome'[j] = "unsure" PROVE stored' = j
    <3>1. CASE j = ctl[i].key
      BY <1>2, <3>1
    <3>2. CASE j # ctl[i].key
      <4>1. outcome[j] = "unsure"
        BY <1>2, <2>2, <3>2 DEF MobileInv, OutcomeType, Posted
      <4>2. stored = j
        BY <4>1 DEF MobileInv, Recoverable
      <4> QED  BY <1>2, <3>2, <4>2, MobileAssumption DEF MobileAssumption
    <3> QED  BY <3>1, <3>2
  <2> QED  BY <2>1, <2>2 DEF MobileInv, Recoverable
<1> QED  BY <1>1, <1>2 DEF Save

\* The photograph given up after the window is the one whose record may go.
LEMMA GiveUpKeeps ==
    ASSUME NEW i, MobileInv, GiveUpEvidence(i)
    PROVE  MobileInv'
<1> DEFINE k == ctl[i].intent
<1>1. Clear(k) /\ outcome' = [outcome EXCEPT ![k] = "given up"]
  BY DEF GiveUpEvidence
<1> HIDE DEF k
<1>2. OutcomeType'
  BY <1>1 DEF MobileInv, OutcomeType
<1>3. ASSUME NEW j \in Keys, outcome'[j] = "unsure" PROVE stored' = j
  <2>1. j # k /\ outcome[j] = "unsure"
    BY <1>1, <1>3 DEF MobileInv, OutcomeType
  <2>2. stored = j
    BY <2>1 DEF MobileInv, Recoverable
  <2> QED  BY <1>1, <2>1, <2>2, ClearKeepsOthers
<1> QED  BY <1>2, <1>3 DEF MobileInv, Recoverable

LEMMA StepKeeps ==
    ASSUME NEW i \in Controllers, MobileInv, Step(i)
    PROVE  MobileInv'
<1> DEFINE Quiet == UNCHANGED <<stored, outcome>>
<1>1. CASE Quiet
  BY <1>1 DEF MobileInv, OutcomeType, Recoverable
<1>2. CASE Resume(i) \/ IncidentsRestored(i) \/ Loaded(i) \/ Refresh(i) \/ Retry(i) \/ RetryNeedsOrder(i)
           \/ NoAnswer(i) \/ Leave(i) \/ LeaveToLogin(i)
  <2>1. Quiet
    BY <1>2 DEF Resume, IncidentsRestored, Loaded, Refresh, Retry, RetryNeedsOrder, NoAnswer, Leave,
                LeaveToLogin, clientVars
  <2> QED  BY <1>1, <2>1
<1>3. CASE \E p \in Paths : \E k \in Fresh : Begin(i, k, p)
  <2>1. Quiet
    BY <1>3 DEF Begin, clientVars
  <2> QED  BY <1>1, <2>1
<1>4. CASE \E p \in Photos : PickPhoto(i, p)
  <2>1. Quiet
    BY <1>4 DEF PickPhoto, clientVars
  <2> QED  BY <1>1, <2>1
<1>5. CASE \E s \in scenario.screens : Open(i, s)
  <2>1. Quiet
    BY <1>5 DEF Open, clientVars
  <2> QED  BY <1>1, <2>1
<1>6. CASE GiveUpEvidence(i)
  BY <1>6, GiveUpKeeps
<1>7. CASE Save(i)
  BY <1>7, SaveKeeps
<1>8. CASE Settle(i)
  <2>1. Told(ctl[i].run, ctl[i].key)
    BY <1>8 DEF Settle
  <2>2. (ctl[i].run # "unknown" /\ Clear(ctl[i].key)) \/ UNCHANGED stored
    BY <1>8 DEF Settle
  <2> QED  BY <2>1, <2>2, ClearKeeps
<1>9. CASE EvidenceStored(i)
  <2>1. Told("ok", ctl[i].key)
    BY <1>9 DEF EvidenceStored
  <2>2. CASE UNCHANGED stored
    BY <2>1, <2>2, ClearKeeps
  <2>3. CASE \E p, k : Advance(ctl[i], p, ctl[i].key, k)
    <3>1. PICK p, k : Advance(ctl[i], p, ctl[i].key, k)
      BY <2>3
    <3> QED  BY <2>1, <3>1, AdvanceKeeps
  <2> QED  BY <1>9, <2>2, <2>3 DEF EvidenceStored
<1>10. CASE ReportRefused(i)
  <2>1. Told(ctl[i].run, ctl[i].key) /\ ctl[i].run # "unknown"
    BY <1>10 DEF ReportRefused
  <2>2. PICK k \in Fresh : Advance(ctl[i], "discard", intents[ctl[i].key].evidence, k)
    BY <1>10 DEF ReportRefused
  <2> QED  BY <2>1, <2>2, AdvanceKeeps
<1>11. CASE IncidentsSettle(i)
  <2>1. Told(ctl[i].run, ctl[i].key)
    BY <1>11 DEF IncidentsSettle
  <2>2. (ctl[i].run # "unknown" /\ Clear(ctl[i].key)) \/ UNCHANGED stored
    BY <1>11 DEF IncidentsSettle, Final
  <2> QED  BY <2>1, <2>2, ClearKeeps
<1> QED  BY <1>2, <1>3, <1>4, <1>5, <1>6, <1>7, <1>8, <1>9, <1>10, <1>11 DEF Step

LEMMA NextKeeps ==
    ASSUME MobileInv, [MobileNext]_vars
    PROVE  MobileInv'
<1> DEFINE Quiet == UNCHANGED <<stored, outcome>>
<1>1. CASE Quiet
  BY <1>1 DEF MobileInv, OutcomeType, Recoverable
<1>2. CASE UNCHANGED vars
  BY <1>1, <1>2 DEF vars
<1>3. CASE \E i \in Controllers : Step(i)
  BY <1>3, StepKeeps
<1>4. CASE \E k \in Keys : Serve(k) \/ Lose(k)
  <2>1. Quiet
    BY <1>4 DEF Serve, Lose, clientVars
  <2> QED  BY <1>1, <2>1
<1>5. CASE LinkArrives \/ LinkOpens \/ Restart
  <2>1. Quiet
    BY <1>5 DEF LinkArrives, LinkOpens, Restart
  <2> QED  BY <1>1, <2>1
<1>6. CASE Revoke \/ SignIn \/ CloseWindow
  <2>1. Quiet
    BY <1>6 DEF Revoke, SignIn, CloseWindow, clientVars
  <2> QED  BY <1>1, <2>1
<1> QED  BY <1>2, <1>3, <1>4, <1>5, <1>6 DEF MobileNext

\* Whatever dies, is left or is answered late, a posted command without a definite answer
\* is the one in the device's store (pending-commerce.ts and the retry() of every controller).
THEOREM AlwaysRecoverable == MobileSpec => []Recoverable
<1>1. MobileInit => MobileInv
  BY DEF MobileInit, MobileInv, OutcomeType, Recoverable
<1>2. MobileInv /\ [MobileNext]_vars => MobileInv'
  BY NextKeeps
<1>3. MobileInv => Recoverable
  BY DEF MobileInv
<1> QED  BY <1>1, <1>2, <1>3, PTL DEF MobileSpec

-----------------------------------------------------------------------------
(* The types, and that no screen is busy for ever.  Beside its type, a      *)
(* controller is sound: the commands it refers to were given, the one it    *)
(* works on is there as long as it is locked, and it is busy only with a    *)
(* flow of its current epoch.                                               *)

Intents == [path : AllPaths, photo : Photos \cup {NoPhoto}, evidence : Keys \cup {NoKey}] \cup {NoIntent}
Named == {k \in Keys : intents[k] # NoIntent}

Works(c) == c.busy /\ c.active =>
               \/ c.owner = "load" /\ c.load = "list"
               \/ c.owner = "run" /\ c.run # "none"

Sound(c, G) ==
    /\ c \in Ctl
    /\ c.intent \in G \cup {NoKey} /\ c.found \in G \cup {NoKey} /\ c.key \in G \cup {NoKey}
    /\ c.run # "none" => c.key # NoKey
    /\ Works(c)
Fine(c, G) == c = NoCtl \/ Sound(c, G)

Controlled == ctl = [i \in Controllers |-> ctl[i]] /\ \A i \in Controllers : Fine(ctl[i], Named)

Stocked ==
    /\ intents \in [Keys -> Intents]
    /\ stored \in Named \cup {NoKey}
    /\ photos \subseteq Photos
    /\ token \in {"none", "valid", "revoked"}
    /\ windowOpen \in BOOLEAN
    /\ sent \subseteq Keys /\ executed \subseteq Keys
    /\ outcome \in [Keys -> {"none", "unsure", "known", "given up"}]
    /\ link \in BOOLEAN /\ scenario \in Scenarios

DeviceInv == Stocked /\ Controlled

\* What was given stays given: a controller stays sound as commands are added.
LEMMA SoundGrows ==
    ASSUME NEW c, NEW G, NEW H, G \subseteq H, Fine(c, G)
    PROVE  Fine(c, H)
  BY DEF Fine, Sound

LEMMA NoCtlIdle == NoCtl.run = "none" /\ NoCtl.active = FALSE /\ NoCtl.load = "none" /\ NoCtl.busy = FALSE
                   /\ NoCtl.found = NoKey /\ NoCtl.resuming = FALSE /\ NoCtl.error = "none"
  BY DEF NoCtl

LEMMA StartedSound ==
    ASSUME NEW G, NEW s \in AllScopes
    PROVE  Sound(Started(s), G)
  BY DEF Sound, Works, Started, NoCtl, Ctl

LEMMA LoadingSound ==
    ASSUME NEW G, NEW c, Sound(c, G)
    PROVE  Sound(Loading(c), G)
<1> DEFINE d == Loading(c)
<1>1. c \in Ctl
  BY DEF Sound
<1>2. d \in Ctl
  <2> DEFINE r == c.scope \in {"support", "wallet"} /\ c.ready
  <2>1. r \in BOOLEAN
    BY <1>1 DEF Ctl
  <2>2. d = [c EXCEPT !.load = "list", !.owner = "load", !.busy = TRUE, !.error = "none", !.ready = r]
    BY DEF Loading
  <2> HIDE DEF r, d
  <2> QED  BY <1>1, <2>1, <2>2 DEF Ctl
<1>3. d.intent = c.intent /\ d.found = c.found /\ d.key = c.key /\ d.run = c.run
  BY <1>1 DEF Loading, Ctl
<1>4. d.owner = "load" /\ d.load = "list"
  BY <1>1 DEF Loading, Ctl
<1> HIDE DEF d
<1>5. Sound(d, G)
  BY <1>2, <1>3, <1>4 DEF Sound, Works
<1> QED  BY <1>5 DEF d

LEMMA DoneSound ==
    ASSUME NEW G, NEW c, Sound(c, G)
    PROVE  Sound(Done(c), G) /\ Sound(Gone(c), G)
<1> DEFINE d == Done(c)
           e == Gone(c)
<1>1. c \in Ctl
  BY DEF Sound
<1>2. d \in Ctl /\ d.intent = c.intent /\ d.found = c.found /\ d.key = NoKey /\ d.run = "none" /\ d.busy = FALSE
  BY <1>1 DEF Done, Ctl
<1>3. e = [d EXCEPT !.intent = NoKey]
  BY DEF Gone
<1> HIDE DEF d, e
<1>4. e \in Ctl /\ e.intent = NoKey /\ e.found = c.found /\ e.key = NoKey /\ e.run = "none" /\ e.busy = FALSE
  BY <1>2, <1>3 DEF Ctl
<1>5. Sound(d, G) /\ Sound(e, G)
  BY <1>2, <1>4 DEF Sound, Works
<1> QED  BY <1>5 DEF d, e

LEMMA RunningSound ==
    ASSUME NEW G, G \subseteq Keys, NEW c, Sound(c, G), NEW k \in G
    PROVE  Sound(Running(c, k), G)
<1> DEFINE d == Running(c, k)
<1>1. c \in Ctl /\ k \in Keys /\ k # NoKey
  BY MobileAssumption DEF Sound, MobileAssumption
<1>2. d \in Ctl
  <2> DEFINE e == IF c.scope \in {"cart", "checkout"} THEN c.error ELSE "none"
  <2>1. e \in {"none", "unauthorized", "unknown"}
    BY <1>1 DEF Ctl
  <2>2. d = [c EXCEPT !.intent = k, !.key = k, !.run = "save", !.owner = "run", !.busy = TRUE, !.error = e]
    BY DEF Running
  <2> HIDE DEF e, d
  <2> QED  BY <1>1, <2>1, <2>2 DEF Ctl
<1>3. d.intent = k /\ d.found = c.found /\ d.key = k /\ d.run = "save" /\ d.owner = "run"
  BY <1>1 DEF Running, Ctl
<1> HIDE DEF d
<1>4. Sound(d, G)
  BY <1>1, <1>2, <1>3 DEF Sound, Works
<1> QED  BY <1>4 DEF d

LEMMA KeptFine ==
    ASSUME NEW G, NEW c, Sound(c, G)
    PROVE  Fine(Kept(c), G)
  BY DEF Fine, Sound, Works, Kept, Locked, Ctl, NoCtl

LEMMA StoppedFine ==
    ASSUME NEW G, NEW c, Fine(c, G)
    PROVE  Fine(Stopped(c), G)
<1>1. CASE c = NoCtl
  BY <1>1 DEF Fine, Stopped, Kept, Locked, NoCtl
<1>2. CASE Sound(c, G)
  <2> DEFINE d == [c EXCEPT !.active = FALSE]
  <2>1. d \in Ctl
    BY <1>2 DEF Sound, Ctl
  <2>2. /\ ~d.active /\ d.intent = c.intent /\ d.found = c.found
        /\ d.key = c.key /\ d.run = c.run
    BY <1>2 DEF Sound, Ctl
  <2>3. Sound(d, G)
    <3> HIDE DEF d
    <3> QED  BY <1>2, <2>1, <2>2 DEF Sound, Works
  <2> QED  BY <2>3, KeptFine DEF Stopped
<1> QED  BY <1>1, <1>2 DEF Fine

LEMMA AsleepFine ==
    ASSUME NEW G, NEW c, Sound(c, G), ~Current(c, "run")
    PROVE  Fine(Asleep(c), G)
<1> DEFINE d == [c EXCEPT !.run = "none", !.key = NoKey]
<1>1. d \in Ctl
  BY DEF Sound, Ctl
<1>2. /\ d.active = c.active /\ d.intent = c.intent /\ d.found = c.found
      /\ d.owner = c.owner /\ d.load = c.load /\ d.busy = c.busy
      /\ d.key = NoKey /\ d.run = "none"
  BY DEF Sound, Ctl
<1>3. Sound(d, G)
  <2> HIDE DEF d
  <2> QED  BY <1>1, <1>2 DEF Sound, Works, Current
<1> QED  BY <1>3, KeptFine DEF Asleep

LEMMA CtlSet ==
    ASSUME Controlled, NEW i \in Controllers, NEW d, ctl' = [ctl EXCEPT ![i] = d],
           Fine(d, Named'), Named \subseteq Named'
    PROVE  Controlled'
<1>1. ctl' = [j \in Controllers |-> ctl'[j]]
  BY DEF Controlled
<1>2. ASSUME NEW j \in Controllers PROVE Fine(ctl'[j], Named')
  <2>1. CASE j = i
    BY <2>1 DEF Controlled
  <2>2. CASE j # i
    <3>1. ctl'[j] = ctl[j]
      BY <2>2 DEF Controlled
    <3>2. Fine(ctl[j], Named)
      BY DEF Controlled
    <3> QED  BY <3>1, <3>2, SoundGrows
  <2> QED  BY <2>1, <2>2
<1> QED  BY <1>1, <1>2 DEF Controlled

\* The usual case: no command is given.
LEMMA CtlSame ==
    ASSUME Controlled, UNCHANGED intents, NEW i \in Controllers, NEW d, ctl' = [ctl EXCEPT ![i] = d], Fine(d, Named)
    PROVE  Controlled'
<1>1. Named' = Named
  BY DEF Named
<1> QED  BY <1>1, CtlSet

LEMMA StoredScope ==
    ASSUME Stocked, stored # NoKey
    PROVE  ScopeOf(stored) \in AllScopes
<1>1. intents[stored] \in Intents /\ intents[stored] # NoIntent
  BY DEF Stocked, Named
<1>2. Path(stored) \in AllPaths
  BY <1>1 DEF Intents, Path
<1>3. \E s \in AllScopes : Path(stored) \in Allowed(s)
  BY <1>2 DEF AllPaths
<1> QED  BY <1>3 DEF ScopeOf

-----------------------------------------------------------------------------
(* One lemma per action that changes a controller. *)

LEMMA RestoredSound ==
    ASSUME NEW G, G \subseteq Keys, NEW c, Sound(c, G), stored \in G \cup {NoKey}
    PROVE  Sound(Restored(c), G)
<1> DEFINE d == Restored(c)
<1>1. c \in Ctl
  BY DEF Sound
<1>2. d \in Ctl
  BY <1>1 DEF Restored, Ctl
<1>3. /\ d.intent = stored /\ d.found = c.found /\ d.key = c.key /\ d.run = c.run
      /\ d.owner = c.owner /\ d.load = c.load /\ d.busy = c.busy /\ d.active = c.active
  BY <1>1 DEF Restored, Ctl
<1> HIDE DEF d
<1>4. Sound(d, G)
  BY <1>2, <1>3 DEF Sound, Works
<1> QED  BY <1>4 DEF d

LEMMA CalmSound ==
    ASSUME NEW G, NEW c, Sound(c, G)
    PROVE  Sound([c EXCEPT !.resuming = FALSE], G)
<1> DEFINE d == [c EXCEPT !.resuming = FALSE]
<1>1. c \in Ctl
  BY DEF Sound
<1>2. /\ d \in Ctl
      /\ d.intent = c.intent /\ d.found = c.found /\ d.key = c.key /\ d.run = c.run
      /\ d.owner = c.owner /\ d.load = c.load /\ d.busy = c.busy /\ d.active = c.active
  <2>1. d \in Ctl
    BY <1>1 DEF Ctl
  <2>2. /\ d.intent = c.intent /\ d.found = c.found /\ d.key = c.key /\ d.run = c.run
        /\ d.owner = c.owner /\ d.load = c.load /\ d.busy = c.busy /\ d.active = c.active
    BY <1>1 DEF Ctl
  <2> QED  BY <2>1, <2>2
<1> HIDE DEF d
<1>3. Sound(d, G)
  BY <1>2 DEF Sound, Works
<1> QED  BY <1>3 DEF d

\* A controller is still sound when nothing it works with changes.
LEMMA StillSound ==
    ASSUME NEW G, NEW c, Sound(c, G), NEW d \in Ctl,
           d.intent \in G \cup {NoKey}, d.found \in G \cup {NoKey}, d.key = c.key,
           d.run = c.run, d.owner = c.owner, d.load = c.load, d.busy = c.busy, d.active = c.active
    PROVE  Sound(d, G)
  BY DEF Sound, Works

LEMMA NamedKeys == Named \subseteq Keys /\ NoKey \notin Named
  BY MobileAssumption DEF Named, MobileAssumption

LEMMA PhotoOf ==
    ASSUME Stocked, NEW k \in Named
    PROVE  intents[k].photo \in Photos \cup {NoPhoto} /\ intents[k].evidence \in Keys \cup {NoKey}
  BY DEF Stocked, Intents, Named, NoIntent

LEMMA ResumedSound ==
    ASSUME Stocked, NEW c, Sound(c, Named)
    PROVE  Sound(Resumed(c), Named)
<1> DEFINE d == [c EXCEPT !.resuming = FALSE]
           f == [d EXCEPT !.found = stored, !.snap = intents[stored].photo]
<1>1. Sound(d, Named)
  BY CalmSound
<1>2. Sound(Restored(c), Named)
  BY NamedKeys, RestoredSound DEF Stocked
<1>3. Sound(Loading(d), Named) /\ Sound(Loading(Restored(c)), Named)
  BY <1>1, <1>2, LoadingSound
<1>4. ASSUME stored # NoKey PROVE Sound(f, Named)
  <2>1. stored \in Named
    BY <1>4 DEF Stocked
  <2>2. intents[stored].photo \in Photos \cup {NoPhoto} /\ stored \in Keys
    BY <2>1, PhotoOf, NamedKeys
  <2>3. d \in Ctl
    BY <1>1 DEF Sound
  <2> HIDE DEF d
  <2>4. /\ f \in Ctl /\ f.intent = d.intent /\ f.found = stored /\ f.key = d.key /\ f.run = d.run
        /\ f.owner = d.owner /\ f.load = d.load /\ f.busy = d.busy /\ f.active = d.active
    BY <2>2, <2>3 DEF Ctl
  <2>5. d.intent \in Named \cup {NoKey}
    BY <1>1 DEF Sound
  <2> HIDE DEF f
  <2> QED  BY <1>1, <2>1, <2>4, <2>5, StillSound
<1>5. Restorable(c.scope) => stored # NoKey
  BY DEF Restorable
<1>6. c.scope \in AllScopes
  BY DEF Sound, Ctl
<1>7. /\ CartResumed(c) \in {d, Restored(c), Loading(d), Loading(Restored(c))}
      /\ CheckoutResumed(c) \in {d, Restored(c), Loading(d), Loading(Restored(c))}
      /\ OrdersResumed(c) \in {d, Restored(c), Loading(d)}
      /\ SupportResumed(c) \in {Loading(d), Loading(Restored(c))}
      /\ WalletResumed(c) \in {Loading(d), Loading(Restored(c))}
  BY DEF CartResumed, CheckoutResumed, OrdersResumed, SupportResumed, WalletResumed
<1>8. \/ IncidentsResumed(c) = f /\ stored # NoKey
      \/ IncidentsResumed(c) \in {d, Loading(d)}
  BY <1>5 DEF IncidentsResumed
<1>9. Sound(IncidentsResumed(c), Named)
  BY <1>1, <1>3, <1>4, <1>8
<1> HIDE DEF d, f
<1>10. Sound(CartResumed(c), Named) /\ Sound(CheckoutResumed(c), Named)
  BY <1>1, <1>2, <1>3, <1>7
<1>11. Sound(OrdersResumed(c), Named) /\ Sound(SupportResumed(c), Named) /\ Sound(WalletResumed(c), Named)
  BY <1>1, <1>2, <1>3, <1>7
<1> QED  BY <1>6, <1>9, <1>10, <1>11 DEF Resumed, AllScopes

\* Controllers at work are sound: the others are not there.
LEMMA AtWork ==
    ASSUME DeviceInv, NEW i \in Controllers, ctl[i] # NoCtl
    PROVE  Sound(ctl[i], Named) /\ ctl[i] \in Ctl
  BY DEF DeviceInv, Controlled, Fine, Sound

LEMMA ResumeKeeps ==
    ASSUME DeviceInv, NEW i \in Controllers, Resume(i)
    PROVE  Controlled'
<1> DEFINE c == ctl[i]
           e == [c EXCEPT !.resuming = FALSE, !.error = "unknown"]
<1>1. c # NoCtl
  BY NoCtlIdle DEF Resume
<1>2. Sound(c, Named) /\ c \in Ctl
  BY <1>1, AtWork
<1>3. PICK d : ctl' = [ctl EXCEPT ![i] = d] /\ d \in {e, Resumed(c)}
  BY DEF Resume
<1> HIDE DEF c
<1>4. /\ e \in Ctl
      /\ e.intent = c.intent /\ e.found = c.found /\ e.key = c.key /\ e.run = c.run
      /\ e.owner = c.owner /\ e.load = c.load /\ e.busy = c.busy /\ e.active = c.active
  <2>1. e \in Ctl
    BY <1>2 DEF Ctl
  <2>2. /\ e.intent = c.intent /\ e.found = c.found /\ e.key = c.key /\ e.run = c.run
        /\ e.owner = c.owner /\ e.load = c.load /\ e.busy = c.busy /\ e.active = c.active
    BY <1>2 DEF Ctl
  <2> QED  BY <2>1, <2>2
<1> HIDE DEF e
<1>5. Sound(e, Named)
  BY <1>2, <1>4, StillSound DEF Sound
<1>6. Sound(d, Named)
  BY <1>2, <1>3, <1>5, ResumedSound DEF DeviceInv
<1> QED  BY <1>3, <1>6, CtlSame DEF DeviceInv, Fine, Resume

LEMMA RestoredKeeps ==
    ASSUME DeviceInv, NEW i \in Controllers, IncidentsRestored(i)
    PROVE  Controlled'
<1> DEFINE c == ctl[i]
           e == [c EXCEPT !.found = NoKey, !.error = "unknown"]
           f == [c EXCEPT !.found = NoKey, !.ready = TRUE, !.intent = c.found, !.draft = c.snap]
<1>1. c # NoCtl
  BY NoCtlIdle DEF IncidentsRestored
<1>2. Sound(c, Named) /\ c \in Ctl
  BY <1>1, AtWork
<1>3. PICK d : ctl' = [ctl EXCEPT ![i] = d] /\ d \in {e, f}
  BY DEF IncidentsRestored
<1> HIDE DEF c
<1>4. /\ e \in Ctl
      /\ e.intent = c.intent /\ e.found = NoKey /\ e.key = c.key /\ e.run = c.run
      /\ e.owner = c.owner /\ e.load = c.load /\ e.busy = c.busy /\ e.active = c.active
  <2>1. e \in Ctl
    BY <1>2 DEF Ctl
  <2>2. /\ e.intent = c.intent /\ e.found = NoKey /\ e.key = c.key /\ e.run = c.run
        /\ e.owner = c.owner /\ e.load = c.load /\ e.busy = c.busy /\ e.active = c.active
    BY <1>2 DEF Ctl
  <2> QED  BY <2>1, <2>2
<1>5. /\ f \in Ctl
      /\ f.intent = c.found /\ f.found = NoKey /\ f.key = c.key /\ f.run = c.run
      /\ f.owner = c.owner /\ f.load = c.load /\ f.busy = c.busy /\ f.active = c.active
  <2>1. f \in Ctl
    BY <1>2 DEF Ctl
  <2>2. /\ f.intent = c.found /\ f.found = NoKey /\ f.key = c.key /\ f.run = c.run
        /\ f.owner = c.owner /\ f.load = c.load /\ f.busy = c.busy /\ f.active = c.active
    BY <1>2 DEF Ctl
  <2> QED  BY <2>1, <2>2
<1>6. c.intent \in Named \cup {NoKey} /\ c.found \in Named \cup {NoKey}
  BY <1>2 DEF Sound
<1> HIDE DEF e, f
<1>7. Sound(e, Named)
  BY <1>2, <1>4, <1>6, StillSound
<1>8. Sound(f, Named)
  BY <1>2, <1>5, <1>6, StillSound
<1>9. Sound(d, Named)
  BY <1>3, <1>7, <1>8
<1> QED  BY <1>3, <1>9, CtlSame DEF DeviceInv, Fine, IncidentsRestored

\* A read that ends takes the busy mark with it, or leaves it to the flow that has it.
LEMMA LoadedKeeps ==
    ASSUME DeviceInv, NEW i \in Controllers, Loaded(i)
    PROVE  Controlled' /\ token' \in {"none", token}
<1> DEFINE c == ctl[i]
           d == [c EXCEPT !.load = "none"]
<1>1. c # NoCtl
  BY NoCtlIdle DEF Loaded
<1>2. Sound(c, Named) /\ c \in Ctl
  BY <1>1, AtWork
<1>3. PICK result \in {"ok", "unauthorized", "unknown"} :
        /\ token' = IF result = "unauthorized" THEN "none" ELSE token
        /\ ctl' = [ctl EXCEPT ![i] =
             IF ~Current(c, "load") THEN d
             ELSE [d EXCEPT !.busy = FALSE, !.owner = "none",
                            !.ready = result = "ok" \/ (result = "unknown" /\ d.ready),
                            !.error = IF result = "ok" THEN "none" ELSE result,
                            !.draft = IF result = "unauthorized" THEN NoPhoto ELSE d.draft]]
  BY DEF Loaded
<1> DEFINE r == result = "ok" \/ (result = "unknown" /\ d.ready)
           x == IF result = "ok" THEN "none" ELSE result
           p == IF result = "unauthorized" THEN NoPhoto ELSE d.draft
           e == [d EXCEPT !.busy = FALSE, !.owner = "none", !.ready = r, !.error = x, !.draft = p]
<1>4. ctl' = [ctl EXCEPT ![i] = IF ~Current(c, "load") THEN d ELSE e]
  BY <1>3
<1> HIDE DEF c
<1>5. /\ d \in Ctl
      /\ d.intent = c.intent /\ d.found = c.found /\ d.key = c.key /\ d.run = c.run
      /\ d.owner = c.owner /\ d.load = "none" /\ d.busy = c.busy /\ d.active = c.active
  <2>1. d \in Ctl
    BY <1>2 DEF Ctl
  <2>2. /\ d.intent = c.intent /\ d.found = c.found /\ d.key = c.key /\ d.run = c.run
        /\ d.owner = c.owner /\ d.load = "none" /\ d.busy = c.busy /\ d.active = c.active
    BY <1>2 DEF Ctl
  <2> QED  BY <2>1, <2>2
<1> HIDE DEF d
<1>6. r \in BOOLEAN /\ x \in {"none", "unauthorized", "unknown"} /\ p \in Photos \cup {NoPhoto}
  BY <1>5 DEF Ctl
<1> HIDE DEF r, x, p
<1>7. /\ e \in Ctl /\ e.intent = d.intent /\ e.found = d.found /\ e.key = d.key /\ e.run = d.run /\ e.busy = FALSE
  <2>1. d \in Ctl /\ "none" \in {"none", "load", "run"}
    BY <1>5
  <2>2. e \in Ctl
    BY <2>1, <1>6 DEF Ctl
  <2>3. e.intent = d.intent /\ e.found = d.found /\ e.key = d.key /\ e.run = d.run /\ e.busy = FALSE
    BY <2>1 DEF Ctl
  <2> QED  BY <2>2, <2>3
<1> HIDE DEF e
<1>8. Sound(e, Named)
  BY <1>2, <1>5, <1>7 DEF Sound, Works
<1>9. ASSUME ~Current(c, "load") PROVE Sound(d, Named)
  BY <1>2, <1>5, <1>9 DEF Sound, Works, Current
<1>10. Fine(IF ~Current(c, "load") THEN d ELSE e, Named)
  BY <1>8, <1>9 DEF Fine
<1>11. Controlled'
  BY <1>4, <1>10, CtlSame DEF DeviceInv, Loaded
<1> QED  BY <1>3, <1>11

LEMMA RefreshKeeps ==
    ASSUME DeviceInv, NEW i \in Controllers, Refresh(i)
    PROVE  Controlled'
<1>1. ctl[i] # NoCtl
  BY NoCtlIdle DEF Refresh
<1>2. Sound(Loading(ctl[i]), Named)
  BY <1>1, AtWork, LoadingSound
<1>3. ctl' = [ctl EXCEPT ![i] = Loading(ctl[i])]
  BY DEF Refresh
<1> QED  BY <1>2, <1>3, CtlSame DEF DeviceInv, Fine, Refresh

\* A command just given becomes one of the named.
LEMMA NamedGrows ==
    ASSUME Stocked, NEW k \in Keys, NEW p \in AllPaths, NEW h \in Photos \cup {NoPhoto}, NEW e \in Keys \cup {NoKey},
           intents' = [intents EXCEPT ![k] = [path |-> p, photo |-> h, evidence |-> e]]
    PROVE  intents' \in [Keys -> Intents] /\ Named \subseteq Named' /\ k \in Named'
<1> DEFINE r == [path |-> p, photo |-> h, evidence |-> e]
<1>1. "none" \notin AllPaths
  BY DEF AllPaths, AllScopes, Allowed
<1>2. r # NoIntent /\ r \in Intents
  BY <1>1 DEF NoIntent, Intents
<1>3. intents' = [intents EXCEPT ![k] = r]
  OBVIOUS
<1> HIDE DEF r
<1> QED  BY <1>2, <1>3 DEF Stocked, Named

LEMMA BeginKeeps ==
    ASSUME DeviceInv, NEW i \in Controllers, NEW k \in Fresh, NEW p \in Paths, Begin(i, k, p), UNCHANGED scenario
    PROVE  DeviceInv'
<1> DEFINE c == ctl[i]
           photo == IF p = "evidence" THEN c.draft ELSE c.snap
           d == [c EXCEPT !.snap = photo]
<1>1. c # NoCtl
  BY NoCtlIdle DEF Begin, CanBegin
<1>2. Sound(c, Named) /\ c \in Ctl
  BY <1>1, AtWork
<1>3. /\ intents' = [intents EXCEPT ![k] = [path |-> p, photo |-> photo, evidence |-> NoKey]]
      /\ ctl' = [ctl EXCEPT ![i] = Running(d, k)]
  BY DEF Begin
<1> HIDE DEF c
<1>4. photo \in Photos \cup {NoPhoto}
  BY <1>2 DEF Ctl
<1> HIDE DEF photo
<1>5. /\ d \in Ctl
      /\ d.intent = c.intent /\ d.found = c.found /\ d.key = c.key /\ d.run = c.run
      /\ d.owner = c.owner /\ d.load = c.load /\ d.busy = c.busy /\ d.active = c.active
  <2>1. d \in Ctl
    BY <1>2, <1>4 DEF Ctl
  <2>2. /\ d.intent = c.intent /\ d.found = c.found /\ d.key = c.key /\ d.run = c.run
        /\ d.owner = c.owner /\ d.load = c.load /\ d.busy = c.busy /\ d.active = c.active
    BY <1>2, <1>4 DEF Ctl
  <2> QED  BY <2>1, <2>2
<1> HIDE DEF d
<1>6. Sound(d, Named)
  BY <1>2, <1>5, StillSound DEF Sound
<1>7. k \in Keys /\ p \in AllPaths
  BY MobileAssumption DEF Fresh, MobileAssumption
<1>8. intents' \in [Keys -> Intents] /\ Named \subseteq Named' /\ k \in Named'
  BY <1>3, <1>4, <1>7, NamedGrows DEF DeviceInv
<1>9. Sound(d, Named')
  BY <1>6, <1>8 DEF Sound
<1>10. Named' \subseteq Keys
  BY DEF Named
<1>11. Sound(Running(d, k), Named')
  BY <1>8, <1>9, <1>10, RunningSound
<1>12. Controlled'
  BY <1>3, <1>8, <1>11, CtlSet DEF DeviceInv, Fine
<1>13. Stocked'
  BY <1>8 DEF DeviceInv, Stocked, Begin, serverVars, clientVars
<1> QED  BY <1>12, <1>13 DEF DeviceInv

LEMMA RetryKeeps ==
    ASSUME DeviceInv, NEW i \in Controllers, Retry(i)
    PROVE  Controlled'
<1>1. ctl[i] # NoCtl
  BY NoCtlIdle DEF Retry
<1>2. Sound(ctl[i], Named)
  BY <1>1, AtWork
<1>3. ctl[i].intent \in Named
  BY <1>2 DEF Sound, Retry
<1>4. Sound(Running(ctl[i], ctl[i].intent), Named)
  BY <1>2, <1>3, NamedKeys, RunningSound
<1> QED  BY <1>4, CtlSame DEF DeviceInv, Fine, Retry

LEMMA NeedsOrderKeeps ==
    ASSUME DeviceInv, NEW i \in Controllers, RetryNeedsOrder(i)
    PROVE  Controlled'
<1> DEFINE c == ctl[i]
           d == [c EXCEPT !.resuming = TRUE]
<1>1. c # NoCtl
  BY NoCtlIdle DEF RetryNeedsOrder
<1>2. Sound(c, Named) /\ c \in Ctl
  BY <1>1, AtWork
<1>3. ctl' = [ctl EXCEPT ![i] = d]
  BY DEF RetryNeedsOrder
<1> HIDE DEF c
<1>4. /\ d \in Ctl
      /\ d.intent = c.intent /\ d.found = c.found /\ d.key = c.key /\ d.run = c.run
      /\ d.owner = c.owner /\ d.load = c.load /\ d.busy = c.busy /\ d.active = c.active
  <2>1. d \in Ctl
    BY <1>2 DEF Ctl
  <2>2. /\ d.intent = c.intent /\ d.found = c.found /\ d.key = c.key /\ d.run = c.run
        /\ d.owner = c.owner /\ d.load = c.load /\ d.busy = c.busy /\ d.active = c.active
    BY <1>2 DEF Ctl
  <2> QED  BY <2>1, <2>2
<1> HIDE DEF d
<1>5. Sound(d, Named)
  BY <1>2, <1>4, StillSound DEF Sound
<1> QED  BY <1>3, <1>5, CtlSame DEF DeviceInv, Fine, RetryNeedsOrder

\* What may still be cleared was stored: nothing unnamed gets into the store.
LEMMA ClearStocks ==
    ASSUME Stocked, NEW k, Clear(k) \/ UNCHANGED <<stored, photos>>
    PROVE  stored' \in Named \cup {NoKey} /\ photos' \subseteq Photos
  BY DEF Stocked, Clear, ClearedBy

LEMMA GiveUpStays ==
    ASSUME DeviceInv, NEW i \in Controllers, GiveUpEvidence(i), UNCHANGED scenario
    PROVE  DeviceInv'
<1> DEFINE c == ctl[i]
           d == [c EXCEPT !.intent = NoKey, !.snap = NoPhoto, !.draft = NoPhoto]
<1>1. c # NoCtl
  BY NoCtlIdle DEF GiveUpEvidence
<1>2. Sound(c, Named) /\ c \in Ctl
  BY <1>1, AtWork
<1>3. ctl' = [ctl EXCEPT ![i] = d]
  BY DEF GiveUpEvidence
<1>4. outcome' = [outcome EXCEPT ![c.intent] = "given up"] /\ Clear(c.intent)
  BY DEF GiveUpEvidence
<1> HIDE DEF c
<1>5. /\ d \in Ctl
      /\ d.intent = NoKey /\ d.found = c.found /\ d.key = c.key /\ d.run = c.run
      /\ d.owner = c.owner /\ d.load = c.load /\ d.busy = c.busy /\ d.active = c.active
  <2>1. d \in Ctl
    BY <1>2 DEF Ctl
  <2>2. /\ d.intent = NoKey /\ d.found = c.found /\ d.key = c.key /\ d.run = c.run
        /\ d.owner = c.owner /\ d.load = c.load /\ d.busy = c.busy /\ d.active = c.active
    BY <1>2 DEF Ctl
  <2> QED  BY <2>1, <2>2
<1> HIDE DEF d
<1>6. Sound(d, Named)
  BY <1>2, <1>5, StillSound DEF Sound
<1>7. Controlled'
  BY <1>3, <1>6, CtlSame DEF DeviceInv, Fine, GiveUpEvidence
<1>8. Named' = Named /\ stored' \in Named \cup {NoKey} /\ photos' \subseteq Photos
  BY <1>4, ClearStocks DEF DeviceInv, GiveUpEvidence, Named
<1>9. outcome' \in [Keys -> {"none", "unsure", "known", "given up"}]
  BY <1>4 DEF DeviceInv, Stocked
<1>10. Stocked'
  BY <1>8, <1>9 DEF DeviceInv, Stocked, GiveUpEvidence, serverVars
<1> QED  BY <1>7, <1>10 DEF DeviceInv

\* The answer a locked controller waits for, or the end of its waiting.
LEMMA RunSound ==
    ASSUME NEW G, NEW c, Sound(c, G), c.run # "none", NEW a \in {"post"} \cup Answers
    PROVE  Sound([c EXCEPT !.run = a], G)
<1> DEFINE d == [c EXCEPT !.run = a]
<1>1. c \in Ctl /\ a # "none"
  BY DEF Sound, Answers
<1>2. /\ d \in Ctl
      /\ d.intent = c.intent /\ d.found = c.found /\ d.key = c.key /\ d.run = a
      /\ d.owner = c.owner /\ d.load = c.load /\ d.busy = c.busy /\ d.active = c.active
  <2>1. d \in Ctl
    BY <1>1 DEF Ctl
  <2>2. /\ d.intent = c.intent /\ d.found = c.found /\ d.key = c.key /\ d.run = a
        /\ d.owner = c.owner /\ d.load = c.load /\ d.busy = c.busy /\ d.active = c.active
    BY <1>1 DEF Ctl
  <2> QED  BY <2>1, <2>2
<1> HIDE DEF d
<1>3. Sound(d, G)
  BY <1>1, <1>2 DEF Sound, Works
<1> QED  BY <1>3 DEF d

LEMMA SaveStays ==
    ASSUME DeviceInv, NEW i \in Controllers, Save(i), UNCHANGED scenario
    PROVE  DeviceInv'
<1> DEFINE c == ctl[i]
<1>1. c # NoCtl /\ c.run = "save"
  BY NoCtlIdle DEF Save
<1>2. Sound(c, Named)
  BY <1>1, AtWork
<1>3. c.key \in Named /\ c.key \in Keys
  BY <1>1, <1>2, NamedKeys DEF Sound
<1>4. PICK a \in {"post"} \cup Answers : ctl' = [ctl EXCEPT ![i].run = a]
  BY DEF Save, Answers
<1>5. Sound([c EXCEPT !.run = a], Named)
  BY <1>1, <1>2, RunSound
<1>6. ctl' = [ctl EXCEPT ![i] = [c EXCEPT !.run = a]]
  BY <1>4
<1>7. UNCHANGED intents
  BY DEF Save
<1>8. Named' = Named
  BY <1>7 DEF Named
<1>9. Controlled'
  BY <1>5, <1>6, <1>7, CtlSame DEF DeviceInv, Fine
<1>10. /\ stored' \in {stored, c.key} /\ sent' \subseteq sent \cup {c.key} /\ outcome' \in {outcome, Posted(c.key)}
       /\ UNCHANGED <<photos, token, windowOpen, executed, link>>
  BY DEF Save
<1>11. outcome' \in [Keys -> {"none", "unsure", "known", "given up"}]
  BY <1>10 DEF DeviceInv, Stocked, Posted
<1> HIDE DEF c
<1>12. Stocked'
  BY <1>3, <1>7, <1>8, <1>10, <1>11 DEF DeviceInv, Stocked
<1> QED  BY <1>9, <1>12 DEF DeviceInv

LEMMA NoAnswerKeeps ==
    ASSUME DeviceInv, NEW i \in Controllers, NoAnswer(i)
    PROVE  Controlled'
<1> DEFINE c == ctl[i]
<1>1. c # NoCtl /\ c.run # "none"
  BY NoCtlIdle DEF NoAnswer
<1>2. Sound([c EXCEPT !.run = "unknown"], Named)
  BY <1>1, AtWork, RunSound DEF Answers
<1>3. ctl' = [ctl EXCEPT ![i] = [c EXCEPT !.run = "unknown"]]
  BY DEF NoAnswer
<1> QED  BY <1>2, <1>3, CtlSame DEF DeviceInv, Fine, NoAnswer

\* One answer may reach several controllers that wait under the same key.
LEMMA ServeStays ==
    ASSUME DeviceInv, NEW k \in Keys, Serve(k), UNCHANGED scenario
    PROVE  DeviceInv'
<1>1. PICK a \in Answers : ctl' = Answered(k, a)
  BY DEF Serve, Answers
<1>2. UNCHANGED <<intents, stored, photos, token, windowOpen, outcome, link>>
  BY DEF Serve, clientVars
<1>3. Named' = Named
  BY <1>2 DEF Named
<1>4. ASSUME NEW i \in Controllers PROVE Fine(ctl'[i], Named)
  <2>1. CASE ctl[i].run = "post"
    <3>1. Sound([ctl[i] EXCEPT !.run = a], Named) /\ Sound(ctl[i], Named)
      BY <2>1, AtWork, RunSound, NoCtlIdle
    <3> QED  BY <1>1, <3>1 DEF Answered, Fine
  <2>2. CASE ctl[i].run # "post"
    BY <1>1, <2>2 DEF Answered, DeviceInv, Controlled
  <2> QED  BY <2>1, <2>2
<1>5. Controlled'
  <2>1. ctl' = [i \in Controllers |-> ctl'[i]]
    BY <1>1 DEF Answered
  <2> QED  BY <1>3, <1>4, <2>1 DEF Controlled
<1>6. sent' \subseteq Keys /\ executed' \subseteq Keys
  BY DEF Serve, DeviceInv, Stocked
<1>7. Stocked'
  BY <1>2, <1>3, <1>6 DEF DeviceInv, Stocked
<1> QED  BY <1>5, <1>7 DEF DeviceInv

\* What an answer leaves of a controller on screen.
LEMMA SettledSound ==
    ASSUME NEW G, NEW c, Sound(c, G), c.run \in Answers, c.scope # "incidents", NEW d \in ScopeSettled(c)
    PROVE  Sound(d, G)
<1> DEFINE g == Gone(c)
           e == [g EXCEPT !.ready = FALSE, !.placed = FALSE, !.error = "unauthorized"]
           f == [g EXCEPT !.ready = TRUE, !.error = "none"]
           r == [g EXCEPT !.ready = TRUE]
           placed == g.placed \/ Path(c.key) = "orders"
           o == [g EXCEPT !.placed = placed]
<1>1. Sound(Done(c), G) /\ Sound(g, G) /\ g \in Ctl
  BY DoneSound DEF Sound
<1>2. Sound(Loading(g), G)
  BY <1>1, LoadingSound
<1>3. c.scope \in AllScopes
  BY DEF Sound, Ctl
<1>4. d \in {Done(c), g, Loading(g), e, f, r, o}
  <2>1. CASE c.scope = "cart"
    BY <2>1 DEF ScopeSettled, CartSettled, Settled, Answers
  <2>2. CASE c.scope = "checkout"
    BY <2>2 DEF ScopeSettled, CheckoutSettled, Settled, Answers
  <2>3. CASE c.scope = "orders"
    BY <2>3 DEF ScopeSettled, OrdersSettled, Settled, Answers
  <2>4. CASE c.scope = "support"
    BY <2>4 DEF ScopeSettled, SupportSettled, Settled, Answers
  <2>5. CASE c.scope = "wallet"
    BY <2>5 DEF ScopeSettled, WalletSettled, Settled, Answers
  <2> QED  BY <1>3, <2>1, <2>2, <2>3, <2>4, <2>5 DEF AllScopes
<1> HIDE DEF g
<1>5. placed \in BOOLEAN
  BY <1>1 DEF Ctl
<1> HIDE DEF placed
<1>6. /\ e \in Ctl
      /\ e.intent = g.intent /\ e.found = g.found /\ e.key = g.key /\ e.run = g.run
      /\ e.owner = g.owner /\ e.load = g.load /\ e.busy = g.busy /\ e.active = g.active
  <2>1. e \in Ctl
    BY <1>1 DEF Ctl
  <2>2. /\ e.intent = g.intent /\ e.found = g.found /\ e.key = g.key /\ e.run = g.run
        /\ e.owner = g.owner /\ e.load = g.load /\ e.busy = g.busy /\ e.active = g.active
    BY <1>1 DEF Ctl
  <2> QED  BY <2>1, <2>2
<1>7. /\ f \in Ctl
      /\ f.intent = g.intent /\ f.found = g.found /\ f.key = g.key /\ f.run = g.run
      /\ f.owner = g.owner /\ f.load = g.load /\ f.busy = g.busy /\ f.active = g.active
  <2>1. f \in Ctl
    BY <1>1 DEF Ctl
  <2>2. /\ f.intent = g.intent /\ f.found = g.found /\ f.key = g.key /\ f.run = g.run
        /\ f.owner = g.owner /\ f.load = g.load /\ f.busy = g.busy /\ f.active = g.active
    BY <1>1 DEF Ctl
  <2> QED  BY <2>1, <2>2
<1>8. /\ r \in Ctl
      /\ r.intent = g.intent /\ r.found = g.found /\ r.key = g.key /\ r.run = g.run
      /\ r.owner = g.owner /\ r.load = g.load /\ r.busy = g.busy /\ r.active = g.active
  <2>1. r \in Ctl
    BY <1>1 DEF Ctl
  <2>2. /\ r.intent = g.intent /\ r.found = g.found /\ r.key = g.key /\ r.run = g.run
        /\ r.owner = g.owner /\ r.load = g.load /\ r.busy = g.busy /\ r.active = g.active
    BY <1>1 DEF Ctl
  <2> QED  BY <2>1, <2>2
<1>9. /\ o \in Ctl
      /\ o.intent = g.intent /\ o.found = g.found /\ o.key = g.key /\ o.run = g.run
      /\ o.owner = g.owner /\ o.load = g.load /\ o.busy = g.busy /\ o.active = g.active
  <2>1. o \in Ctl
    BY <1>1, <1>5 DEF Ctl
  <2>2. /\ o.intent = g.intent /\ o.found = g.found /\ o.key = g.key /\ o.run = g.run
        /\ o.owner = g.owner /\ o.load = g.load /\ o.busy = g.busy /\ o.active = g.active
    BY <1>1, <1>5 DEF Ctl
  <2> QED  BY <2>1, <2>2
<1> HIDE DEF e, f, r, o
<1>10. g.intent \in G \cup {NoKey} /\ g.found \in G \cup {NoKey}
  BY <1>1 DEF Sound
<1>11. Sound(e, G)
  BY <1>1, <1>6, <1>10, StillSound
<1>12. Sound(f, G)
  BY <1>1, <1>7, <1>10, StillSound
<1>13. Sound(r, G)
  BY <1>1, <1>8, <1>10, StillSound
<1>14. Sound(o, G)
  BY <1>1, <1>9, <1>10, StillSound
<1> QED  BY <1>1, <1>2, <1>4, <1>11, <1>12, <1>13, <1>14

\* What the answer tells the device.
LEMMA ToldStocks ==
    ASSUME Stocked, NEW a, NEW k, Told(a, k), UNCHANGED <<intents, scenario>>,
           stored' \in Named \cup {NoKey}, photos' \subseteq Photos
    PROVE  Stocked'
<1>1. outcome' \in [Keys -> {"none", "unsure", "known", "given up"}]
  BY DEF Stocked, Told
<1>2. token' \in {token, "none"}
  BY DEF Told
<1>3. Named' = Named
  BY DEF Named
<1> QED  BY <1>1, <1>2, <1>3 DEF Stocked, Told

\* A screen that was left goes when its command ends.
LEMMA LeftFine ==
    ASSUME NEW G, NEW c, Sound(c, G), ~Current(c, "run")
    PROVE  Fine(Kept([c EXCEPT !.run = "none", !.key = NoKey]), G)
  BY AsleepFine DEF Asleep

LEMMA SettleStays ==
    ASSUME DeviceInv, NEW i \in Controllers, Settle(i), UNCHANGED scenario
    PROVE  DeviceInv'
<1> DEFINE c == ctl[i]
<1>1. c # NoCtl /\ c.run \in Answers /\ c.scope # "incidents"
  BY NoCtlIdle DEF Settle, Answers
<1>2. Sound(c, Named)
  BY <1>1, AtWork
<1>3. /\ Told(c.run, c.key) /\ UNCHANGED intents
      /\ Clear(c.key) \/ UNCHANGED <<stored, photos>>
  BY DEF Settle
<1>4. PICK d \in IF Current(c, "run") THEN ScopeSettled(c)
                 ELSE {Kept([c EXCEPT !.run = "none", !.key = NoKey])} : ctl' = [ctl EXCEPT ![i] = d]
  BY DEF Settle
<1>5. Fine(d, Named)
  <2>1. CASE Current(c, "run")
    BY <1>1, <1>2, <1>4, <2>1, SettledSound DEF Fine
  <2>2. CASE ~Current(c, "run")
    BY <1>2, <1>4, <2>2, LeftFine
  <2> QED  BY <2>1, <2>2
<1>6. Controlled'
  BY <1>3, <1>4, <1>5, CtlSame DEF DeviceInv
<1>7. stored' \in Named \cup {NoKey} /\ photos' \subseteq Photos
  BY <1>3, ClearStocks DEF DeviceInv
<1> HIDE DEF c
<1>8. Stocked'
  BY <1>3, <1>7, ToldStocks DEF DeviceInv
<1> QED  BY <1>6, <1>8 DEF DeviceInv

\* The next command of the incident screen is a named one, and the record is its own.
LEMMA AdvanceStocks ==
    ASSUME Stocked, NEW c \in Ctl, NEW p \in {"report", "discard"}, NEW e \in Keys \cup {NoKey}, NEW k \in Fresh,
           NEW a, Advance(c, p, e, k), Told(a, c.key), UNCHANGED scenario
    PROVE  Stocked' /\ Named \subseteq Named' /\ k \in Named' /\ Named' \subseteq Keys
<1>1. k \in Keys /\ c.snap \in Photos \cup {NoPhoto}
  BY DEF Fresh, Ctl
<1>2. p \in AllPaths
  <2>1. "incidents" \in AllScopes /\ p \in Allowed("incidents")
    BY DEF AllScopes, Allowed
  <2> QED  BY <2>1 DEF AllPaths
<1>3. intents' \in [Keys -> Intents] /\ Named \subseteq Named' /\ k \in Named'
  BY <1>1, <1>2, NamedGrows DEF Advance
<1>4. outcome' \in [Keys -> {"none", "unsure", "known", "given up"}] /\ token' \in {token, "none"}
  BY DEF Stocked, Told
<1>5. Stocked'
  BY <1>3, <1>4 DEF Stocked, Told, Advance
<1> QED  BY <1>3, <1>5 DEF Named

LEMMA EvidenceStays ==
    ASSUME DeviceInv, NEW i \in Controllers, EvidenceStored(i), UNCHANGED scenario
    PROVE  DeviceInv'
<1> DEFINE c == ctl[i]
           next == IF windowOpen /\ c.snap # NoPhoto THEN "report" ELSE "discard"
<1>1. c # NoCtl /\ Told("ok", c.key)
  BY NoCtlIdle DEF EvidenceStored
<1>2. Sound(c, Named) /\ c \in Ctl /\ Sound(Done(c), Named)
  BY <1>1, AtWork, DoneSound
<1>3. CASE \E k \in Fresh : Advance(c, next, c.key, k) /\ ctl' = [ctl EXCEPT ![i] = Running(Done(c), k)]
  <2>1. PICK k \in Fresh : Advance(c, next, c.key, k) /\ ctl' = [ctl EXCEPT ![i] = Running(Done(c), k)]
    BY <1>3
  <2>2. next \in {"report", "discard"} /\ c.key \in Keys \cup {NoKey}
    BY <1>2 DEF Ctl
  <2> HIDE DEF c, next
  <2>3. Stocked' /\ Named \subseteq Named' /\ k \in Named' /\ Named' \subseteq Keys
    BY <1>1, <1>2, <2>1, <2>2, AdvanceStocks DEF DeviceInv
  <2>4. Sound(Done(c), Named')
    BY <1>2, <2>3 DEF Sound
  <2>5. Sound(Running(Done(c), k), Named')
    BY <2>3, <2>4, RunningSound
  <2> QED  BY <2>1, <2>3, <2>5, CtlSet DEF DeviceInv, Fine
<1>4. CASE ctl' = [ctl EXCEPT ![i] = Done(c)] /\ UNCHANGED <<stored, intents, photos>>
  <2>1. Controlled'
    BY <1>2, <1>4, CtlSame DEF DeviceInv, Fine
  <2>2. Stocked'
    BY <1>1, <1>4, ToldStocks DEF DeviceInv, Stocked
  <2> QED  BY <2>1, <2>2 DEF DeviceInv
<1> QED  BY <1>3, <1>4 DEF EvidenceStored

LEMMA ReportRefusedStays ==
    ASSUME DeviceInv, NEW i \in Controllers, ReportRefused(i), UNCHANGED scenario
    PROVE  DeviceInv'
<1> DEFINE c == ctl[i]
<1>1. c # NoCtl /\ c.run # "none" /\ Told(c.run, c.key)
  BY NoCtlIdle DEF ReportRefused
<1>2. Sound(c, Named) /\ c \in Ctl
  BY <1>1, AtWork
<1>3. PICK k \in Fresh :
        /\ Advance(c, "discard", intents[c.key].evidence, k)
        /\ LET d == [c EXCEPT !.intent = k] IN
           ctl' = [ctl EXCEPT ![i] =
               IF ~Current(c, "run") THEN Asleep(d)
               ELSE IF c.run = "refused" THEN Running(Done(d), k)
               ELSE [Done(d) EXCEPT !.ready = FALSE, !.error = "unauthorized"]]
  BY DEF ReportRefused
<1> DEFINE d == [c EXCEPT !.intent = k]
           f == Done(d)
           e == [f EXCEPT !.ready = FALSE, !.error = "unauthorized"]
<1>4. c.key \in Named
  BY <1>1, <1>2 DEF Sound
<1>5. intents[c.key].evidence \in Keys \cup {NoKey}
  BY <1>4, PhotoOf DEF DeviceInv
<1>6. ctl' = [ctl EXCEPT ![i] = IF ~Current(c, "run") THEN Asleep(d)
                                ELSE IF c.run = "refused" THEN Running(f, k) ELSE e]
  BY <1>3
<1> HIDE DEF c
<1>7. Stocked' /\ Named \subseteq Named' /\ k \in Named' /\ Named' \subseteq Keys
  BY <1>1, <1>2, <1>3, <1>5, AdvanceStocks DEF DeviceInv
<1>8. Sound(c, Named')
  BY <1>2, <1>7 DEF Sound
<1>9. /\ d \in Ctl
      /\ d.intent = k /\ d.found = c.found /\ d.key = c.key /\ d.run = c.run
      /\ d.owner = c.owner /\ d.load = c.load /\ d.busy = c.busy /\ d.active = c.active
  <2>1. d \in Ctl
    BY <1>2, <1>7 DEF Ctl
  <2>2. /\ d.intent = k /\ d.found = c.found /\ d.key = c.key /\ d.run = c.run
        /\ d.owner = c.owner /\ d.load = c.load /\ d.busy = c.busy /\ d.active = c.active
    BY <1>2, <1>7 DEF Ctl
  <2> QED  BY <2>1, <2>2
<1> HIDE DEF d
<1>10. c.found \in Named' \cup {NoKey}
  BY <1>8 DEF Sound
<1>11. Sound(d, Named')
  BY <1>7, <1>8, <1>9, <1>10, StillSound
<1>12. Sound(f, Named') /\ f \in Ctl
  BY <1>11, DoneSound DEF Sound
<1> HIDE DEF f
<1>13. /\ e \in Ctl
      /\ e.intent = f.intent /\ e.found = f.found /\ e.key = f.key /\ e.run = f.run
       /\ e.owner = f.owner /\ e.load = f.load /\ e.busy = f.busy /\ e.active = f.active
  <2>1. e \in Ctl
    BY <1>12 DEF Ctl
  <2>2. /\ e.intent = f.intent /\ e.found = f.found /\ e.key = f.key /\ e.run = f.run
         /\ e.owner = f.owner /\ e.load = f.load /\ e.busy = f.busy /\ e.active = f.active
    BY <1>12 DEF Ctl
  <2> QED  BY <2>1, <2>2
<1> HIDE DEF e
<1>14. Sound(e, Named')
  BY <1>12, <1>13, StillSound DEF Sound
<1>15. Sound(Running(f, k), Named')
  BY <1>7, <1>12, RunningSound
<1>16. ASSUME ~Current(c, "run") PROVE Fine(Asleep(d), Named')
  <2>1. ~Current(d, "run")
    BY <1>9, <1>16 DEF Current
  <2> QED  BY <1>11, <2>1, AsleepFine
<1>17. Fine(IF ~Current(c, "run") THEN Asleep(d)
            ELSE IF c.run = "refused" THEN Running(f, k) ELSE e, Named')
  BY <1>14, <1>15, <1>16 DEF Fine
<1> QED  BY <1>6, <1>7, <1>17, CtlSet DEF DeviceInv

LEMMA AnsweredSound ==
    ASSUME NEW G, NEW c, Sound(c, G), c.run \in {"ok", "refused", "unauthorized"}, NEW d \in IncidentsAnswered(c)
    PROVE  Sound(d, G)
<1> DEFINE g == Gone(c)
           h == [g EXCEPT !.snap = NoPhoto]
           b == [h EXCEPT !.draft = NoPhoto]
           e == [b EXCEPT !.ready = FALSE, !.error = "unauthorized"]
<1>1. Sound(g, G) /\ g \in Ctl
  BY DoneSound DEF Sound
<1>2. d \in {h, b, e, Loading(h), Loading(b)}
  <2>1. CASE c.run = "ok"
    BY <2>1 DEF IncidentsAnswered
  <2>2. CASE c.run = "refused"
    BY <2>2 DEF IncidentsAnswered
  <2>3. CASE c.run = "unauthorized"
    BY <2>3 DEF IncidentsAnswered
  <2> QED  BY <2>1, <2>2, <2>3
<1> HIDE DEF g
<1>3. /\ h \in Ctl
      /\ h.intent = g.intent /\ h.found = g.found /\ h.key = g.key /\ h.run = g.run
      /\ h.owner = g.owner /\ h.load = g.load /\ h.busy = g.busy /\ h.active = g.active
  <2>1. h \in Ctl
    BY <1>1 DEF Ctl
  <2>2. /\ h.intent = g.intent /\ h.found = g.found /\ h.key = g.key /\ h.run = g.run
        /\ h.owner = g.owner /\ h.load = g.load /\ h.busy = g.busy /\ h.active = g.active
    BY <1>1 DEF Ctl
  <2> QED  BY <2>1, <2>2
<1> HIDE DEF h
<1>4. Sound(h, G)
  BY <1>1, <1>3, StillSound DEF Sound
<1>5. /\ b \in Ctl
      /\ b.intent = h.intent /\ b.found = h.found /\ b.key = h.key /\ b.run = h.run
      /\ b.owner = h.owner /\ b.load = h.load /\ b.busy = h.busy /\ b.active = h.active
  <2>1. b \in Ctl
    BY <1>3 DEF Ctl
  <2>2. /\ b.intent = h.intent /\ b.found = h.found /\ b.key = h.key /\ b.run = h.run
        /\ b.owner = h.owner /\ b.load = h.load /\ b.busy = h.busy /\ b.active = h.active
    BY <1>3 DEF Ctl
  <2> QED  BY <2>1, <2>2
<1> HIDE DEF b
<1>6. Sound(b, G)
  BY <1>4, <1>5, StillSound DEF Sound
<1>7. /\ e \in Ctl
      /\ e.intent = b.intent /\ e.found = b.found /\ e.key = b.key /\ e.run = b.run
      /\ e.owner = b.owner /\ e.load = b.load /\ e.busy = b.busy /\ e.active = b.active
  <2>1. e \in Ctl
    BY <1>5 DEF Ctl
  <2>2. /\ e.intent = b.intent /\ e.found = b.found /\ e.key = b.key /\ e.run = b.run
        /\ e.owner = b.owner /\ e.load = b.load /\ e.busy = b.busy /\ e.active = b.active
    BY <1>5 DEF Ctl
  <2> QED  BY <2>1, <2>2
<1> HIDE DEF e
<1>8. Sound(e, G)
  BY <1>6, <1>7, StillSound DEF Sound
<1> QED  BY <1>2, <1>4, <1>6, <1>8, LoadingSound

LEMMA IncidentsSettleStays ==
    ASSUME DeviceInv, NEW i \in Controllers, IncidentsSettle(i), UNCHANGED scenario
    PROVE  DeviceInv'
<1> DEFINE c == ctl[i]
           f == Done(c)
           e == [f EXCEPT !.ready = FALSE, !.error = "unauthorized"]
<1>1. c # NoCtl /\ c.run \in Answers
  BY NoCtlIdle DEF IncidentsSettle, Answers
<1>2. Sound(c, Named)
  BY <1>1, AtWork
<1>3. /\ Told(c.run, c.key) /\ UNCHANGED intents
      /\ Clear(c.key) \/ UNCHANGED <<stored, photos>>
  BY DEF IncidentsSettle
<1>4. PICK d \in IF ~Current(c, "run") THEN {Asleep(c)}
                 ELSE IF Final(c) THEN IncidentsAnswered(c)
                 ELSE IF c.run = "unknown" THEN {f} ELSE {e} : ctl' = [ctl EXCEPT ![i] = d]
  BY DEF IncidentsSettle
<1> HIDE DEF c
<1>5. Sound(f, Named) /\ f \in Ctl
  BY <1>2, DoneSound DEF Sound
<1> HIDE DEF f
<1>6. /\ e \in Ctl
      /\ e.intent = f.intent /\ e.found = f.found /\ e.key = f.key /\ e.run = f.run
      /\ e.owner = f.owner /\ e.load = f.load /\ e.busy = f.busy /\ e.active = f.active
  <2>1. e \in Ctl
    BY <1>5 DEF Ctl
  <2>2. /\ e.intent = f.intent /\ e.found = f.found /\ e.key = f.key /\ e.run = f.run
        /\ e.owner = f.owner /\ e.load = f.load /\ e.busy = f.busy /\ e.active = f.active
    BY <1>5 DEF Ctl
  <2> QED  BY <2>1, <2>2
<1> HIDE DEF e
<1>7. Sound(e, Named)
  BY <1>5, <1>6, StillSound DEF Sound
<1>8. Fine(d, Named)
  <2>1. CASE ~Current(c, "run")
    BY <1>2, <1>4, <2>1, AsleepFine
  <2>2. CASE Current(c, "run") /\ Final(c)
    BY <1>2, <1>4, <2>2, AnsweredSound DEF Fine, Final
  <2>3. CASE Current(c, "run") /\ ~Final(c)
    BY <1>4, <1>5, <1>7, <2>3 DEF Fine
  <2> QED  BY <2>1, <2>2, <2>3
<1>9. Controlled'
  BY <1>3, <1>4, <1>8, CtlSame DEF DeviceInv
<1>10. stored' \in Named \cup {NoKey} /\ photos' \subseteq Photos
  BY <1>3, ClearStocks DEF DeviceInv
<1>11. Stocked'
  BY <1>3, <1>10, ToldStocks DEF DeviceInv
<1> QED  BY <1>9, <1>11 DEF DeviceInv

LEMMA PickPhotoStays ==
    ASSUME DeviceInv, NEW i \in Controllers, NEW p \in Photos, PickPhoto(i, p), UNCHANGED scenario
    PROVE  DeviceInv'
<1> DEFINE c == ctl[i]
           d == [c EXCEPT !.draft = p]
<1>1. c # NoCtl
  BY NoCtlIdle DEF PickPhoto, Idle
<1>2. Sound(c, Named) /\ c \in Ctl
  BY <1>1, AtWork
<1>3. ctl' = [ctl EXCEPT ![i] = d]
  BY DEF PickPhoto
<1> HIDE DEF c
<1>4. /\ d \in Ctl
      /\ d.intent = c.intent /\ d.found = c.found /\ d.key = c.key /\ d.run = c.run
      /\ d.owner = c.owner /\ d.load = c.load /\ d.busy = c.busy /\ d.active = c.active
  <2>1. d \in Ctl
    BY <1>2 DEF Ctl
  <2>2. /\ d.intent = c.intent /\ d.found = c.found /\ d.key = c.key /\ d.run = c.run
        /\ d.owner = c.owner /\ d.load = c.load /\ d.busy = c.busy /\ d.active = c.active
    BY <1>2 DEF Ctl
  <2> QED  BY <2>1, <2>2
<1> HIDE DEF d
<1>5. Sound(d, Named)
  BY <1>2, <1>4, StillSound DEF Sound
<1>6. Controlled'
  BY <1>3, <1>5, CtlSame DEF DeviceInv, Fine, PickPhoto
<1>7. photos' \subseteq Photos
  BY DEF DeviceInv, Stocked, PickPhoto
<1>8. Stocked'
  BY <1>7 DEF DeviceInv, Stocked, Named, PickPhoto, serverVars, clientVars
<1> QED  BY <1>6, <1>8 DEF DeviceInv

LEMMA OpenKeeps ==
    ASSUME DeviceInv, NEW i \in Controllers, NEW s \in scenario.screens, Open(i, s)
    PROVE  Controlled'
<1>1. s \in AllScopes
  BY MobileAssumption DEF DeviceInv, Stocked, MobileAssumption
<1>2. Fine(Started(s), Named)
  BY <1>1, StartedSound DEF Fine
<1> QED  BY <1>2, CtlSame DEF DeviceInv, Open

LEMMA LeaveKeeps ==
    ASSUME DeviceInv, NEW i \in Controllers, Leave(i) \/ LeaveToLogin(i)
    PROVE  Controlled'
<1>1. Fine(Stopped(ctl[i]), Named)
  BY StoppedFine DEF DeviceInv, Controlled
<1>2. ctl' = [ctl EXCEPT ![i] = Stopped(ctl[i])] /\ UNCHANGED intents
  BY DEF Leave, LeaveToLogin
<1> QED  BY <1>1, <1>2, CtlSame DEF DeviceInv

\* A link or a start puts the screen of the stored command in place of what was shown.
LEMMA LinkKeeps ==
    ASSUME DeviceInv, LinkArrives \/ LinkOpens \/ Restart
    PROVE  Controlled'
<1>1. UNCHANGED intents
  BY DEF LinkArrives, LinkOpens, Restart
<1>2. Named' = Named
  BY <1>1 DEF Named
<1>3. \A i \in Controllers : Fine(ctl[i], Named) /\ Fine(AllStopped[i], Named) /\ Fine(NoCtl, Named)
  BY StoppedFine DEF DeviceInv, Controlled, AllStopped, Fine
<1>4. stored # NoKey => Fine(Started(ScopeOf(stored)), Named)
  BY StoredScope, StartedSound DEF DeviceInv, Fine
<1>5. CASE UNCHANGED ctl
  BY <1>2, <1>5 DEF DeviceInv, Controlled
<1>6. CASE ctl' = AllStopped
  BY <1>2, <1>3, <1>6 DEF Controlled, AllStopped
<1>7. CASE ctl' = [i \in Controllers |-> NoCtl]
  BY <1>2, <1>3, <1>7 DEF Controlled
<1>8. CASE stored # NoKey /\ \E i \in Controllers : ctl' = [AllStopped EXCEPT ![i] = Started(ScopeOf(stored))]
  <2>1. PICK i \in Controllers : ctl' = [AllStopped EXCEPT ![i] = Started(ScopeOf(stored))]
    BY <1>8
  <2>2. ctl' = [j \in Controllers |-> IF j = i THEN Started(ScopeOf(stored)) ELSE AllStopped[j]]
    BY <2>1 DEF AllStopped
  <2> QED  BY <1>2, <1>3, <1>4, <1>8, <2>2 DEF Controlled
<1>9. CASE /\ stored # NoKey
           /\ \E i \in Controllers : ctl' = [j \in Controllers |-> IF j = i THEN Started(ScopeOf(stored)) ELSE NoCtl]
  <2>1. PICK i \in Controllers : ctl' = [j \in Controllers |-> IF j = i THEN Started(ScopeOf(stored)) ELSE NoCtl]
    BY <1>9
  <2> QED  BY <1>2, <1>3, <1>4, <1>9, <2>1 DEF Controlled
<1> QED  BY <1>5, <1>6, <1>7, <1>8, <1>9 DEF LinkArrives, LinkOpens, Restart

LEMMA StocksKept ==
    ASSUME Stocked, UNCHANGED <<intents, stored, sent, executed, outcome, scenario>>, photos' \subseteq Photos,
           token' \in {"none", "valid", "revoked"}, windowOpen' \in BOOLEAN, link' \in BOOLEAN
    PROVE  Stocked'
<1>1. Named' = Named
  BY DEF Named
<1> QED  BY <1>1 DEF Stocked

LEMMA StepStays ==
    ASSUME DeviceInv, NEW i \in Controllers, Step(i), UNCHANGED scenario
    PROVE  DeviceInv'
<1>1. CASE Resume(i) \/ IncidentsRestored(i) \/ Refresh(i) \/ Retry(i) \/ RetryNeedsOrder(i)
           \/ NoAnswer(i) \/ Leave(i) \/ LeaveToLogin(i)
  <2>1. UNCHANGED <<stored, intents, photos, token, windowOpen, sent, executed, outcome, link>>
    BY <1>1 DEF Resume, IncidentsRestored, Refresh, Retry, RetryNeedsOrder, NoAnswer, Leave, LeaveToLogin,
                serverVars, clientVars
  <2>2. Stocked'
    BY <2>1 DEF DeviceInv, Stocked, Named
  <2>3. Controlled'
    BY <1>1, ResumeKeeps, RestoredKeeps, RefreshKeeps, RetryKeeps, NeedsOrderKeeps, NoAnswerKeeps, LeaveKeeps
  <2> QED  BY <2>2, <2>3 DEF DeviceInv
<1>2. CASE Loaded(i)
  <2>1. Controlled' /\ token' \in {"none", token}
    BY <1>2, LoadedKeeps
  <2>2. UNCHANGED <<stored, intents, photos, windowOpen, sent, executed, outcome, link>>
    BY <1>2 DEF Loaded, clientVars
  <2>3. Stocked'
    BY <2>1, <2>2, StocksKept DEF DeviceInv, Stocked
  <2> QED  BY <2>1, <2>3 DEF DeviceInv
<1>3. CASE \E p \in Paths : \E k \in Fresh : Begin(i, k, p)
  BY <1>3, BeginKeeps
<1>4. CASE GiveUpEvidence(i) \/ Save(i) \/ Settle(i)
  BY <1>4, GiveUpStays, SaveStays, SettleStays
<1>5. CASE EvidenceStored(i) \/ ReportRefused(i) \/ IncidentsSettle(i)
  BY <1>5, EvidenceStays, ReportRefusedStays, IncidentsSettleStays
<1>6. CASE \E p \in Photos : PickPhoto(i, p)
  BY <1>6, PickPhotoStays
<1>7. CASE \E s \in scenario.screens : Open(i, s)
  <2>1. Controlled'
    BY <1>7, OpenKeeps
  <2>2. UNCHANGED <<stored, intents, photos, token, windowOpen, sent, executed, outcome, link>>
    BY <1>7 DEF Open, serverVars, clientVars
  <2>3. Stocked'
    BY <2>2 DEF DeviceInv, Stocked, Named
  <2> QED  BY <2>1, <2>3 DEF DeviceInv
<1> QED  BY <1>1, <1>2, <1>3, <1>4, <1>5, <1>6, <1>7 DEF Step

LEMMA NextStays ==
    ASSUME DeviceInv, [MobileNext]_vars
    PROVE  DeviceInv'
<1>1. CASE UNCHANGED vars
  BY <1>1 DEF vars, DeviceInv, Stocked, Controlled, Named
<1>2. CASE \E i \in Controllers : Step(i) /\ UNCHANGED scenario
  BY <1>2, StepStays
<1>3. CASE \E k \in Keys : Serve(k) /\ UNCHANGED scenario
  BY <1>3, ServeStays
<1>4. CASE \E k \in Keys : Lose(k) /\ UNCHANGED scenario
  BY <1>4 DEF Lose, clientVars, DeviceInv, Stocked, Controlled, Named
<1>5. CASE (LinkArrives \/ LinkOpens \/ Restart) /\ UNCHANGED scenario
  <2>1. Controlled'
    BY <1>5, LinkKeeps
  <2>2. /\ UNCHANGED <<stored, intents, token, windowOpen, sent, executed, outcome>>
        /\ link' \in {TRUE, FALSE, link} /\ photos' \subseteq photos
    BY <1>5 DEF LinkArrives, LinkOpens, Restart, serverVars
  <2>3. Stocked'
    BY <1>5, <2>2, StocksKept DEF DeviceInv, Stocked
  <2> QED  BY <2>1, <2>3 DEF DeviceInv
<1>6. CASE (Revoke \/ SignIn \/ CloseWindow) /\ UNCHANGED scenario
  <2>1. /\ UNCHANGED <<stored, intents, photos, ctl, sent, executed, outcome, link>>
        /\ token' \in {token, "revoked", "valid"} /\ windowOpen' \in {windowOpen, FALSE}
    BY <1>6 DEF Revoke, SignIn, CloseWindow, clientVars
  <2>2. Stocked'
    BY <1>6, <2>1, StocksKept DEF DeviceInv, Stocked
  <2>3. Controlled'
    BY <2>1 DEF DeviceInv, Controlled, Named
  <2> QED  BY <2>2, <2>3 DEF DeviceInv
<1> QED  BY <1>1, <1>2, <1>3, <1>4, <1>5, <1>6 DEF MobileNext

LEMMA InitStays == MobileInit => DeviceInv
<1> SUFFICES ASSUME MobileInit PROVE DeviceInv
  OBVIOUS
<1>1. Stocked
  BY DEF MobileInit, Stocked, Intents
<1>2. Controlled
  BY DEF MobileInit, Controlled, Fine
<1> QED  BY <1>1, <1>2 DEF DeviceInv

\* The device's state and its controllers have the types of pending-commerce.ts and of the
\* commerce-controllers, whatever the order of answers, links and restarts.
THEOREM MobileTypeCorrect == MobileSpec => []MobileTypeOK
<1>1. DeviceInv => MobileTypeOK
  <2> SUFFICES ASSUME DeviceInv PROVE MobileTypeOK
    OBVIOUS
  <2>1. \A i \in Controllers : ctl[i] \in Ctl \cup {NoCtl}
    BY DEF DeviceInv, Controlled, Fine, Sound
  <2>2. ctl \in [Controllers -> Ctl \cup {NoCtl}]
    BY <2>1 DEF DeviceInv, Controlled
  <2> QED  BY <2>2 DEF DeviceInv, Stocked, Named, Intents, MobileTypeOK
<1> QED  BY <1>1, InitStays, NextStays, PTL DEF MobileSpec

\* No controller of the app stays busy without a read or a command of its current epoch that
\* ends it (refresh() and retry() of every commerce controller).
THEOREM BusyAlwaysHasWork == MobileSpec => []BusyHasWork
<1>1. DeviceInv => BusyHasWork
  <2> SUFFICES ASSUME DeviceInv, NEW i \in Controllers, ctl[i].busy, ctl[i].active
               PROVE  \/ Current(ctl[i], "load") /\ ctl[i].load = "list"
                      \/ Current(ctl[i], "run") /\ Locked(ctl[i])
    BY DEF BusyHasWork
  <2>1. Sound(ctl[i], Named)
    BY NoCtlIdle, AtWork
  <2> QED  BY <2>1 DEF Sound, Works, Current, Locked
<1> QED  BY <1>1, InitStays, NextStays, PTL DEF MobileSpec
=============================================================================
