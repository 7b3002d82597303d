---------------------- MODULE SellerRegistration_proofs ----------------------
(***************************************************************************)
(* The registration of a seller for any tabs, fields, requests under way   *)
(* and submissions.  SInv says what every tab knows of the application at  *)
(* the revision it stands at, and what the answer of every request it      *)
(* waits for will be worth when it settles.                                *)
(***************************************************************************)
EXTENDS SellerRegistration, TLAPS

-----------------------------------------------------------------------------
(* The records. *)

Text == [Fields -> Texts]
Intent == [key : Keys \cup {NoKey}, rev : Nat]
Draft == [rev : Nat, text : Text, step : 0 .. 6, type : Types, identity : {"none", "VERIFIED", "RECORDED"},
          has : SUBSET Parts, submitted : BOOLEAN, key : Keys \cup {NoKey}, from : Nat]
Conflict == [state : {"none", "loading", "unavailable", "ready"}, text : Text, rev : Nat,
             choice : [Fields -> {"mine", "server", "open"}], picked : SUBSET Fields]
Form == [access : {"closed", "checking", "signedIn", "signedOut", "unavailable"}, busy : BOOLEAN,
         text : Text, base : Text, own : SUBSET Fields, rev : Nat, step : 1 .. 6, type : Types,
         entered : BOOLEAN, lists : {"none", "ready", "error"}, conflict : Conflict, pending : Intent,
         failed : BOOLEAN, confirmed : BOOLEAN, submitted : BOOLEAN]
Answers == Common \cup {"none", "missing", "unavailable"}
Sent == [op : Ops, tab : Tabs, waits : BOOLEAN, runs : BOOLEAN, live : BOOLEAN, rev : Nat,
         text : Text, with : Types, seen : Types, key : Keys \cup {NoKey}, answer : Answers, copy : Draft]

-----------------------------------------------------------------------------
(* The invariant. *)

\* What the service stores is an application that the form reads, or none.
Sound(d) ==
    /\ d \in Draft
    /\ d.rev = 0 => /\ d.step = 0 /\ d.type = "none" /\ d.identity = "none" /\ d.has = {}
                    /\ ~d.submitted
    /\ d.rev > 0 => d.step > 0 /\ Reads(d)

\* A copy at revision r agrees with d when r is d's, or the one d was submitted from.
Current(d, r) == r > 0 /\ (r = d.rev \/ (d.submitted /\ r = d.from))
Agrees(d, text, step, type) == text = d.text /\ (step > 1 => step = d.step /\ type = d.type)
AtEnd(d, r) == d.step = 6 /\ (d.submitted \/ d.rev = r)
Shows(d, r, text, step, type) ==
    /\ r <= d.rev
    /\ Current(d, r) => Agrees(d, text, step, type)
    /\ step = 6 => AtEnd(d, r)

\* An unresolved submission is its tab's, of the last step and of the service's revision.
Intended(t, i, d, sn) == i # NoIntent => i.key \in Keys /\ sn[i.key] = t /\ AtEnd(d, i.rev)

\* A field is proposed as the tab's own only where the tab differs from what it last saw saved.
OwnOnly(choice, picked, text, base) ==
    \A x \in Fields : choice[x] = "mine" => x \in picked \/ text[x] # base[x]
Compared(p, d) ==
    p.conflict.state = "ready" =>
        /\ p.conflict.rev > 0 /\ Shows(d, p.conflict.rev, p.conflict.text, 1, "none")
        /\ OwnOnly(p.conflict.choice, p.conflict.picked, p.text, p.base)

\* The form of tab t, with submission i stored there.
Formed(t, p, d, i, sn) ==
    /\ p \in Form /\ Shows(d, p.rev, p.base, p.step, p.type)
    /\ p.rev = 0 => p.step = 1 /\ p.base = Empty
    /\ p.step > 1 => p.text = p.base /\ p.conflict = NoConflict
    /\ p.access \in {"checking", "unavailable"} => p.conflict = NoConflict
    /\ Differing(p.text, p.base) \subseteq p.own
    /\ Compared(p, d)
    /\ ~p.failed
    /\ Intended(t, p.pending, d, sn)
    /\ p.access = "signedIn" /\ p.pending # NoIntent => p.step = 6 /\ p.pending.rev = p.rev
    /\ p.access # "closed" /\ i # NoIntent => p.pending = i

\* Where the form stands while it waits for a request ...
Stage(c, p) ==
    /\ c.op = "save" => p.step = 1 /\ p.conflict = NoConflict /\ c.text = p.text
    /\ c.op = "reread" => p.step = 1
    /\ c.op = "type" => p.step < 3 /\ p.text = p.base /\ p.conflict = NoConflict
    /\ c.op \in {"natural", "legal"} => p.step = 2
    /\ c.op = "business" => p.step = 3 /\ p.lists = "ready"
    /\ c.op = "area" => p.step = 4
    /\ c.op = "extra" => p.step = 5
    /\ c.op = "submit" => p.step = 6 /\ p.pending = [key |-> c.key, rev |-> c.rev]

\* ... and what the answer brings it.
After == [type |-> 2, natural |-> 3, legal |-> 3, business |-> 4, area |-> 5, extra |-> 6, submit |-> 6]
Replied(c, p) ==
    /\ c.answer = "ok" /\ c.op \in {"read", "reread"} => c.copy.rev > 0 /\ c.copy.step > 0
    /\ c.answer = "ok" /\ c.op = "read" /\ p.pending # NoIntent
           => c.copy.submitted \/ (c.copy.rev = p.pending.rev /\ c.copy.step = 6)
    /\ c.answer = "missing" /\ c.op = "read" => p.rev = 0 /\ p.pending = NoIntent
    /\ c.answer = "ok" /\ c.op \notin {"read", "reread", "submit"} => c.copy.rev = c.rev + 1
    /\ c.answer = "ok" /\ c.op \notin {"read", "reread"} => c.copy.text = p.text /\ c.copy.rev > 0
    /\ c.answer = "ok" /\ c.op \in DOMAIN After => c.copy.step = After[c.op]
    /\ c.answer = "ok" /\ c.op \in DOMAIN After
           => c.copy.type = IF c.op = "type" THEN c.with ELSE p.type

Waited(c, p) ==
    /\ c.waits
    /\ IF c.op = "read" THEN p.access = "checking" ELSE p.access = "signedIn" /\ p.busy
    /\ c.op \notin {"read", "reread"} => c.rev = p.rev
    /\ Stage(c, p) /\ Replied(c, p)

\* A request under way: what it asks for can be stored, what it brought back was stored.
Asked(c) ==
    /\ c \in Sent /\ (c.waits \/ c.runs)
    /\ c.op \in {"read", "reread"} => c.live
    /\ c.op = "save" => \A x \in Fields : c.text[x] # Blank
    /\ c.op = "type" => c.with \in {"NATURAL", "LEGAL"}
    /\ c.op = "submit" => c.key \in Keys
Flown(c, d, tb) ==
    c # NoFlight => /\ Asked(c)
                    /\ Shows(d, c.copy.rev, c.copy.text, c.copy.step, c.copy.type)
                    /\ c.live => Waited(c, tb[c.tab])

\* A page waits for one answer at a time.
Alone(fl) == \A f, g \in Flights : fl[f].live /\ fl[g].live /\ fl[f].tab = fl[g].tab => f = g
\* A submission whose outcome was not told is stored in its tab.
Kept(st, sn, kn) == \A k \in Keys : sn[k] # NoTab /\ k \notin kn => st[sn[k]].key = k

Shaped(tb, st, fl, sn, kn) ==
    /\ tb \in [Tabs -> Form] /\ st \in [Tabs -> Intent] /\ fl \in [Flights -> Sent \cup {NoFlight}]
    /\ sn \in [Keys -> Tabs \cup {NoTab}] /\ kn \subseteq Keys
AllFormed(d, tb, st, sn) == \A t \in Tabs : Formed(t, tb[t], d, st[t], sn)
AllIntended(d, st, sn) == \A t \in Tabs : Intended(t, st[t], d, sn)
AllFlown(d, tb, fl) == \A f \in Flights : Flown(fl[f], d, tb)
Tight(d, tb, st, fl, sn, kn) ==
    /\ Sound(d) /\ Shaped(tb, st, fl, sn, kn)
    /\ AllFormed(d, tb, st, sn) /\ AllIntended(d, st, sn) /\ AllFlown(d, tb, fl)
    /\ Alone(fl) /\ Kept(st, sn, kn)

LeftOK == /\ left \in [step : 0 .. 6, ops : SUBSET Ops, commands : Nat]
          /\ \E s \in Scenarios : left.step = s.step /\ left.ops = s.ops /\ left.commands \in 0 .. s.commands

SInv == Tight(draft, tab, stored, flight, sender, known) /\ LeftOK

-----------------------------------------------------------------------------
(* The records of the source are of their sets. *)

LEMMA EmptyIsText == Empty \in Text
  BY DEF Empty, Text, Texts

LEMMA NoIntentIsIntent == NoIntent \in Intent
  BY DEF NoIntent, Intent

LEMMA NoDraftIsDraft == NoDraft \in Draft
  BY EmptyIsText DEF NoDraft, Draft, Types, Parts

LEMMA NoConflictIsConflict == NoConflict \in Conflict
  BY EmptyIsText DEF NoConflict, Conflict

LEMMA ClosedIsForm == Closed \in Form
  BY EmptyIsText, NoIntentIsIntent, NoConflictIsConflict DEF Closed, Form, Types

-----------------------------------------------------------------------------
(* The service: a write raises the revision by one, leaves a sound          *)
(* application, and takes the last step only to submit.                     *)

Moves(d, e) ==
    /\ e.rev = d.rev + 1 /\ d.rev \in Nat
    /\ ~d.submitted
    /\ e.submitted => d.step = 6 /\ e.from = d.rev /\ e.text = d.text /\ e.step = d.step /\ e.type = d.type
    /\ d.step = 6 => e.submitted /\ e.step = 6

LEMMA AtEndKept ==
    ASSUME NEW d, NEW e, Moves(d, e), NEW r, AtEnd(d, r)
    PROVE  AtEnd(e, r)
  BY DEF Moves, AtEnd

LEMMA ShowsKept ==
    ASSUME NEW d, NEW e, Moves(d, e), NEW r \in Nat, NEW text, NEW step, NEW type,
           Shows(d, r, text, step, type)
    PROVE  Shows(e, r, text, step, type)
  <1>1. r <= e.rev
    BY DEF Moves, Shows
  <1>2. ASSUME Current(e, r) PROVE Agrees(e, text, step, type)
    <2>1. r = d.rev /\ e.submitted
      BY <1>2 DEF Current, Moves, Shows
    <2>2. Current(d, r)
      BY <1>2, <2>1 DEF Current
    <2>3. Agrees(d, text, step, type)
      BY <2>2 DEF Shows
    <2> QED BY <2>1, <2>3 DEF Agrees, Moves
  <1>3. step = 6 => AtEnd(e, r)
    BY AtEndKept DEF Shows
  <1> QED BY <1>1, <1>2, <1>3 DEF Shows

LEMMA IntendedKept ==
    ASSUME NEW d, NEW e, Moves(d, e), NEW t, NEW i, NEW sn, Intended(t, i, d, sn)
    PROVE  Intended(t, i, e, sn)
  BY AtEndKept DEF Intended

LEMMA FormedKept ==
    ASSUME NEW d, NEW e, Moves(d, e), NEW t, NEW p, NEW i, NEW sn, Formed(t, p, d, i, sn)
    PROVE  Formed(t, p, e, i, sn)
  <1>1. p.rev \in Nat /\ p.conflict.rev \in Nat
    BY DEF Formed, Form, Conflict
  <1>2. Shows(e, p.rev, p.base, p.step, p.type)
    BY <1>1, ShowsKept DEF Formed
  <1>3. Compared(p, e)
    BY <1>1, ShowsKept DEF Formed, Compared
  <1>4. Intended(t, p.pending, e, sn)
    BY IntendedKept DEF Formed
  <1> QED BY <1>2, <1>3, <1>4 DEF Formed

LEMMA FlownKept ==
    ASSUME NEW d, NEW e, Moves(d, e), NEW c, NEW tb, Flown(c, d, tb)
    PROVE  Flown(c, e, tb)
  <1>1. CASE c = NoFlight
    BY <1>1 DEF Flown
  <1>2. CASE c # NoFlight
    <2>1. c.copy.rev \in Nat
      BY <1>2 DEF Flown, Asked, Sent, Draft
    <2>2. Shows(e, c.copy.rev, c.copy.text, c.copy.step, c.copy.type)
      BY <1>2, <2>1, ShowsKept DEF Flown
    <2> QED BY <1>2, <2>2 DEF Flown
  <1> QED BY <1>1, <1>2

LEMMA ShowsItself ==
    ASSUME NEW d, Sound(d)
    PROVE  Shows(d, d.rev, d.text, d.step, d.type)
  BY DEF Sound, Shows, Current, Agrees, AtEnd, Draft

\* What the gateway and the form read of a draft, in one.
Whole(d) ==
    /\ \A f \in Fields : d.text[f] # Blank
    /\ TypeAndIdentity(d)
    /\ Done(d, 4, "business") /\ Done(d, 5, "area") /\ Done(d, 6, "extra")
    /\ d.submitted => d.step = 6 /\ d.key # NoKey

LEMMA ReadsWhole ==
    ASSUME NEW d
    PROVE  Reads(d) <=> Whole(d)
  BY DEF Reads, GatewayReads, GatewayReadsRest, FormReads, FormReadsRest, Whole

LEMMA SoundSaved ==
    ASSUME NEW d, Sound(d), NEW c, Asked(c), c.op = "save", SaveAccepted(d, c)
    PROVE  Sound(Saved(d, c)) /\ Moves(d, Saved(d, c))
  <1> DEFINE e == Saved(d, c)
  <1> DEFINE r == d.rev + 1
  <1> DEFINE x == c.text
  <1> DEFINE s == IF c.rev = 0 THEN 1 ELSE d.step
  <1>1. d \in Draft /\ c \in Sent
    BY DEF Sound, Asked
  <1>2. r \in Nat /\ x \in Text /\ s \in 0 .. 6
    BY <1>1 DEF Draft, Sent, Parts
  <1>3. e = [d EXCEPT !.rev = r, !.text = x, !.step = s] /\ r = d.rev + 1
    BY DEF Saved
  <1>4. e \in Draft /\ e.rev = d.rev + 1
    <2> HIDE DEF e, r, x, s
    <2> QED BY <1>1, <1>2, <1>3 DEF Draft
  <1>5. Whole(e)
    BY <1>1, ReadsWhole DEF Saved, SaveAccepted, At, Sound, Whole, TypeAndIdentity, Done, Draft, Asked, Sent, Types, Parts
  <1>6. e.step > 0
    BY <1>1 DEF Saved, SaveAccepted, At, Draft, Sound
  <1>7. Sound(e)
    <2> HIDE DEF e
    <2> QED BY <1>1, <1>4, <1>5, <1>6, ReadsWhole DEF Sound, Draft
  <1>8. Moves(d, e)
    BY <1>1, <1>4 DEF Saved, SaveAccepted, At, Moves, Sound, Draft, Sent
  <1> QED BY <1>7, <1>8

LEMMA SoundTyped ==
    ASSUME NEW d, Sound(d), NEW c, Asked(c), c.op = "type", TypeAccepted(d, c)
    PROVE  Sound(Typed(d, c)) /\ Moves(d, Typed(d, c))
  <1> DEFINE e == Typed(d, c)
  <1> DEFINE r == d.rev + 1
  <1> DEFINE x == c.with
  <1>1. d \in Draft /\ c \in Sent
    BY DEF Sound, Asked
  <1>2. r \in Nat /\ x \in Types /\ 2 \in 0 .. 6
    BY <1>1 DEF Draft, Sent, Parts
  <1>3. e = [d EXCEPT !.rev = r, !.type = x, !.identity = "none", !.step = 2] /\ r = d.rev + 1
    BY DEF Typed
  <1>4. e \in Draft /\ e.rev = d.rev + 1
    <2> HIDE DEF e, r, x
    <2> QED BY <1>1, <1>2, <1>3 DEF Draft
  <1>5. Whole(e)
    BY <1>1, ReadsWhole DEF Typed, TypeAccepted, At, Sound, Whole, TypeAndIdentity, Done, Draft, Asked, Sent, Types, Parts
  <1>6. e.step > 0
    BY <1>1 DEF Typed, TypeAccepted, At, Draft, Sound
  <1>7. Sound(e)
    <2> HIDE DEF e
    <2> QED BY <1>1, <1>4, <1>5, <1>6, ReadsWhole DEF Sound, Draft
  <1>8. Moves(d, e)
    BY <1>1, <1>4 DEF Typed, TypeAccepted, At, Moves, Sound, Draft, Sent
  <1> QED BY <1>7, <1>8

LEMMA SoundVerified ==
    ASSUME NEW d, Sound(d), NEW c, Asked(c), c.op = "natural", NaturalAccepted(d, c)
    PROVE  Sound(Verified(d, c)) /\ Moves(d, Verified(d, c))
  <1> DEFINE e == Verified(d, c)
  <1> DEFINE r == d.rev + 1
  <1>1. d \in Draft /\ c \in Sent
    BY DEF Sound, Asked
  <1>2. r \in Nat /\ 3 \in 0 .. 6
    BY <1>1 DEF Draft, Sent, Parts
  <1>3. e = [d EXCEPT !.rev = r, !.identity = "VERIFIED", !.step = 3] /\ r = d.rev + 1
    BY DEF Verified
  <1>4. e \in Draft /\ e.rev = d.rev + 1
    <2> HIDE DEF e, r
    <2> QED BY <1>1, <1>2, <1>3 DEF Draft
  <1>5. Whole(e)
    BY <1>1, ReadsWhole DEF Verified, NaturalAccepted, At, Sound, Whole, TypeAndIdentity, Done, Draft, Asked, Sent, Types, Parts
  <1>6. e.step > 0
    BY <1>1 DEF Verified, NaturalAccepted, At, Draft, Sound
  <1>7. Sound(e)
    <2> HIDE DEF e
    <2> QED BY <1>1, <1>4, <1>5, <1>6, ReadsWhole DEF Sound, Draft
  <1>8. Moves(d, e)
    BY <1>1, <1>4 DEF Verified, NaturalAccepted, At, Moves, Sound, Draft, Sent
  <1> QED BY <1>7, <1>8

LEMMA SoundRecorded ==
    ASSUME NEW d, Sound(d), NEW c, Asked(c), c.op = "legal", LegalAccepted(d, c)
    PROVE  Sound(Recorded(d, c)) /\ Moves(d, Recorded(d, c))
  <1> DEFINE e == Recorded(d, c)
  <1> DEFINE r == d.rev + 1
  <1>1. d \in Draft /\ c \in Sent
    BY DEF Sound, Asked
  <1>2. r \in Nat /\ 3 \in 0 .. 6
    BY <1>1 DEF Draft, Sent, Parts
  <1>3. e = [d EXCEPT !.rev = r, !.identity = "RECORDED", !.step = 3] /\ r = d.rev + 1
    BY DEF Recorded
  <1>4. e \in Draft /\ e.rev = d.rev + 1
    <2> HIDE DEF e, r
    <2> QED BY <1>1, <1>2, <1>3 DEF Draft
  <1>5. Whole(e)
    BY <1>1, ReadsWhole DEF Recorded, LegalAccepted, At, Sound, Whole, TypeAndIdentity, Done, Draft, Asked, Sent, Types, Parts
  <1>6. e.step > 0
    BY <1>1 DEF Recorded, LegalAccepted, At, Draft, Sound
  <1>7. Sound(e)
    <2> HIDE DEF e
    <2> QED BY <1>1, <1>4, <1>5, <1>6, ReadsWhole DEF Sound, Draft
  <1>8. Moves(d, e)
    BY <1>1, <1>4 DEF Recorded, LegalAccepted, At, Moves, Sound, Draft, Sent
  <1> QED BY <1>7, <1>8

LEMMA SoundBusinessSaved ==
    ASSUME NEW d, Sound(d), NEW c, Asked(c), c.op = "business", BusinessAccepted(d, c)
    PROVE  Sound(BusinessSaved(d, c)) /\ Moves(d, BusinessSaved(d, c))
  <1> DEFINE e == BusinessSaved(d, c)
  <1> DEFINE r == d.rev + 1
  <1> DEFINE h == d.has \cup {"business"}
  <1>1. d \in Draft /\ c \in Sent
    BY DEF Sound, Asked
  <1>2. r \in Nat /\ h \in SUBSET Parts /\ 4 \in 0 .. 6
    BY <1>1 DEF Draft, Sent, Parts
  <1>3. e = [d EXCEPT !.rev = r, !.has = h, !.step = 4] /\ r = d.rev + 1
    BY DEF BusinessSaved
  <1>4. e \in Draft /\ e.rev = d.rev + 1
    <2> HIDE DEF e, r, h
    <2> QED BY <1>1, <1>2, <1>3 DEF Draft
  <1>5. Whole(e)
    BY <1>1, ReadsWhole DEF BusinessSaved, BusinessAccepted, At, Sound, Whole, TypeAndIdentity, Done, Draft, Asked, Sent, Types, Parts
  <1>6. e.step > 0
    BY <1>1 DEF BusinessSaved, BusinessAccepted, At, Draft, Sound
  <1>7. Sound(e)
    <2> HIDE DEF e
    <2> QED BY <1>1, <1>4, <1>5, <1>6, ReadsWhole DEF Sound, Draft
  <1>8. Moves(d, e)
    BY <1>1, <1>4 DEF BusinessSaved, BusinessAccepted, At, Moves, Sound, Draft, Sent
  <1> QED BY <1>7, <1>8

LEMMA SoundAreaSaved ==
    ASSUME NEW d, Sound(d), NEW c, Asked(c), c.op = "area", AreaAccepted(d, c)
    PROVE  Sound(AreaSaved(d, c)) /\ Moves(d, AreaSaved(d, c))
  <1> DEFINE e == AreaSaved(d, c)
  <1> DEFINE r == d.rev + 1
  <1> DEFINE h == d.has \cup {"area"}
  <1>1. d \in Draft /\ c \in Sent
    BY DEF Sound, Asked
  <1>2. r \in Nat /\ h \in SUBSET Parts /\ 5 \in 0 .. 6
    BY <1>1 DEF Draft, Sent, Parts
  <1>3. e = [d EXCEPT !.rev = r, !.has = h, !.step = 5] /\ r = d.rev + 1
    BY DEF AreaSaved
  <1>4. e \in Draft /\ e.rev = d.rev + 1
    <2> HIDE DEF e, r, h
    <2> QED BY <1>1, <1>2, <1>3 DEF Draft
  <1>5. Whole(e)
    BY <1>1, ReadsWhole DEF AreaSaved, AreaAccepted, At, Sound, Whole, TypeAndIdentity, Done, Draft, Asked, Sent, Types, Parts
  <1>6. e.step > 0
    BY <1>1 DEF AreaSaved, AreaAccepted, At, Draft, Sound
  <1>7. Sound(e)
    <2> HIDE DEF e
    <2> QED BY <1>1, <1>4, <1>5, <1>6, ReadsWhole DEF Sound, Draft
  <1>8. Moves(d, e)
    BY <1>1, <1>4 DEF AreaSaved, AreaAccepted, At, Moves, Sound, Draft, Sent
  <1> QED BY <1>7, <1>8

LEMMA SoundExtraSaved ==
    ASSUME NEW d, Sound(d), NEW c, Asked(c), c.op = "extra", ExtraAccepted(d, c)
    PROVE  Sound(ExtraSaved(d, c)) /\ Moves(d, ExtraSaved(d, c))
  <1> DEFINE e == ExtraSaved(d, c)
  <1> DEFINE r == d.rev + 1
  <1> DEFINE h == d.has \cup {"extra"}
  <1>1. d \in Draft /\ c \in Sent
    BY DEF Sound, Asked
  <1>2. r \in Nat /\ h \in SUBSET Parts /\ 6 \in 0 .. 6
    BY <1>1 DEF Draft, Sent, Parts
  <1>3. e = [d EXCEPT !.rev = r, !.has = h, !.step = 6] /\ r = d.rev + 1
    BY DEF ExtraSaved
  <1>4. e \in Draft /\ e.rev = d.rev + 1
    <2> HIDE DEF e, r, h
    <2> QED BY <1>1, <1>2, <1>3 DEF Draft
  <1>5. Whole(e)
    BY <1>1, ReadsWhole DEF ExtraSaved, ExtraAccepted, At, Sound, Whole, TypeAndIdentity, Done, Draft, Asked, Sent, Types, Parts
  <1>6. e.step > 0
    BY <1>1 DEF ExtraSaved, ExtraAccepted, At, Draft, Sound
  <1>7. Sound(e)
    <2> HIDE DEF e
    <2> QED BY <1>1, <1>4, <1>5, <1>6, ReadsWhole DEF Sound, Draft
  <1>8. Moves(d, e)
    BY <1>1, <1>4 DEF ExtraSaved, ExtraAccepted, At, Moves, Sound, Draft, Sent
  <1> QED BY <1>7, <1>8

LEMMA SoundSubmitted ==
    ASSUME NEW d, Sound(d), NEW c, Asked(c), c.op = "submit", SubmitAccepted(d, c)
    PROVE  Sound(Submitted(d, c)) /\ Moves(d, Submitted(d, c))
  <1> DEFINE e == Submitted(d, c)
  <1> DEFINE r == d.rev + 1
  <1> DEFINE k == c.key
  <1> DEFINE n == c.rev
  <1>1. d \in Draft /\ c \in Sent
    BY DEF Sound, Asked
  <1>2. r \in Nat /\ k \in Keys \cup {NoKey} /\ n \in Nat
    BY <1>1 DEF Draft, Sent, Parts
  <1>3. e = [d EXCEPT !.rev = r, !.key = k, !.from = n, !.submitted = TRUE] /\ r = d.rev + 1
    BY DEF Submitted
  <1>4. e \in Draft /\ e.rev = d.rev + 1
    <2> HIDE DEF e, r, k, n
    <2> QED BY <1>1, <1>2, <1>3 DEF Draft
  <1>5. Whole(e)
    BY <1>1, ReadsWhole, SellerAssumption DEF Submitted, SubmitAccepted, At, Sound, Whole, TypeAndIdentity, Done, Draft, Asked, Sent, Types, Parts
  <1>6. e.step > 0
    BY <1>1 DEF Submitted, SubmitAccepted, At, Draft, Sound
  <1>7. Sound(e)
    <2> HIDE DEF e
    <2> QED BY <1>1, <1>4, <1>5, <1>6, ReadsWhole DEF Sound, Draft
  <1>8. Moves(d, e)
    BY <1>1, <1>4 DEF Submitted, SubmitAccepted, At, Moves, Sound, Draft, Sent
  <1> QED BY <1>7, <1>8

LEMMA WriteSound ==
    ASSUME NEW d, Sound(d), NEW c, Asked(c), Accepted(d, c)
    PROVE  Sound(Written(d, c)) /\ Moves(d, Written(d, c))
  <1>1. CASE c.op = "save"
    BY <1>1, SoundSaved DEF Accepted, Written
  <1>2. CASE c.op = "type"
    BY <1>2, SoundTyped DEF Accepted, Written
  <1>3. CASE c.op = "natural"
    BY <1>3, SoundVerified DEF Accepted, Written
  <1>4. CASE c.op = "legal"
    BY <1>4, SoundRecorded DEF Accepted, Written
  <1>5. CASE c.op = "business"
    BY <1>5, SoundBusinessSaved DEF Accepted, Written
  <1>6. CASE c.op = "area"
    BY <1>6, SoundAreaSaved DEF Accepted, Written
  <1>7. CASE c.op = "extra"
    BY <1>7, SoundExtraSaved DEF Accepted, Written
  <1>8. CASE c.op = "submit"
    BY <1>8, SoundSubmitted DEF Accepted, Written
  <1>9. CASE c.op \notin {"save", "type", "natural", "legal", "business", "area", "extra", "submit"}
    BY <1>9 DEF Accepted
  <1> QED BY <1>1, <1>2, <1>3, <1>4, <1>5, <1>6, <1>7, <1>8, <1>9

\* The draft after a request was run.
Ran(d, c) == IF Accepted(d, c) THEN Written(d, c) ELSE d

LEMMA RanSound ==
    ASSUME NEW d, Sound(d), NEW c, Asked(c)
    PROVE  Sound(Ran(d, c)) /\ (Moves(d, Ran(d, c)) \/ Ran(d, c) = d)
  BY WriteSound DEF Ran

\* What the answer of the gateway says of the service.
LEMMA RelayedSays ==
    ASSUME NEW op \in Ops, NEW s \in Answers
    PROVE  /\ Relayed(op, s) \in Answers
           /\ Relayed(op, s) = "ok" => s = "ok"
           /\ Relayed(op, s) = "missing" => s = "missing"
           /\ Relayed(op, s) = "none" => s = "none"
  BY DEF Relayed, Answers

LEMMA StatusAnswer ==
    ASSUME NEW d, NEW c
    PROVE  Status(d, c) \in Answers
  BY DEF Status, Answers, Common

LEMMA StatusOfRead ==
    ASSUME NEW d, Sound(d), NEW c, c.op \in {"read", "reread"}
    PROVE  /\ Status(d, c) = "ok" => d.rev > 0 /\ d.step > 0
           /\ Status(d, c) = "missing" => d.rev = 0
           /\ ~Accepted(d, c)
  BY DEF Status, Sound, Draft, Accepted

LEMMA StatusOfWrite ==
    ASSUME NEW d, NEW c, c.op \notin {"read", "reread"}, Status(d, c) = "ok"
    PROVE  Accepted(d, c) \/ (c.op = "submit" /\ Replayed(d, c))
  BY DEF Status

LEMMA RepliedRead ==
    ASSUME NEW d, Sound(d), NEW t, NEW p, NEW i, NEW sn, Formed(t, p, d, i, sn),
           NEW c, c \in Sent, c.op \in {"read", "reread"},
           NEW r, r.op = c.op, r.copy = d, r.answer = Relayed(c.op, Status(d, c))
    PROVE  Replied(r, p)
  <1>0. c.op \in Ops /\ Status(d, c) \in Answers
    BY StatusAnswer DEF Sent
  <1>a. (r.answer = "ok" => Status(d, c) = "ok") /\ (r.answer = "missing" => Status(d, c) = "missing")
    BY <1>0, RelayedSays
  <1>b. (Status(d, c) = "ok" => d.rev > 0 /\ d.step > 0) /\ (Status(d, c) = "missing" => d.rev = 0)
    BY StatusOfRead
  <1>1. r.answer = "ok" => d.rev > 0 /\ d.step > 0
    BY <1>a, <1>b
  <1>2. r.answer = "missing" => d.rev = 0
    BY <1>a, <1>b
  <1>3. d.rev = 0 => p.rev = 0 /\ p.pending = NoIntent
    BY DEF Formed, Shows, Form, Intended, AtEnd, Sound
  <1>4. p.pending # NoIntent => d.submitted \/ (d.rev = p.pending.rev /\ d.step = 6)
    BY DEF Formed, Intended, AtEnd
  <1>5. r.op \notin DOMAIN After
    BY DEF After
  <1> QED BY <1>1, <1>2, <1>3, <1>4, <1>5 DEF Replied

\* What an accepted write brings a form that stands where it was asked for.
Brings(c, p, e) ==
    /\ c.op # "submit" => e.rev = c.rev + 1
    /\ e.text = p.text /\ e.rev > 0
    /\ c.op \in DOMAIN After => e.step = After[c.op] /\ e.type = IF c.op = "type" THEN c.with ELSE p.type

\* A form past its first step, or with nothing unsaved, on the revision of the draft.
LEMMA OnRevision ==
    ASSUME NEW d, Sound(d), NEW t, NEW p, NEW i, NEW sn, Formed(t, p, d, i, sn),
           p.rev = d.rev, d.step > 0, p.step > 1 \/ p.text = p.base
    PROVE  p.text = d.text /\ (p.step > 1 => p.step = d.step /\ p.type = d.type)
  BY DEF Formed, Shows, Current, Agrees, Sound, Draft

LEMMA BringsSaved ==
    ASSUME NEW d, Sound(d), NEW t, NEW p, NEW i, NEW sn, Formed(t, p, d, i, sn),
           NEW c, Asked(c), c.op = "save", c.rev = p.rev, Stage(c, p), SaveAccepted(d, c)
    PROVE  Brings(c, p, Saved(d, c))
  <1>1. d \in Draft /\ c \in Sent /\ p \in Form
    BY DEF Sound, Asked, Formed
  <1> QED BY <1>1 DEF Brings, Saved, SaveAccepted, At, Stage, After, Draft

LEMMA BringsTyped ==
    ASSUME NEW d, Sound(d), NEW t, NEW p, NEW i, NEW sn, Formed(t, p, d, i, sn),
           NEW c, Asked(c), c.op = "type", c.rev = p.rev, Stage(c, p), TypeAccepted(d, c)
    PROVE  Brings(c, p, Typed(d, c))
  <1>1. d \in Draft /\ c \in Sent /\ p \in Form
    BY DEF Sound, Asked, Formed
  <1>2. p.text = d.text /\ (p.step > 1 => p.step = d.step /\ p.type = d.type)
    BY <1>1, OnRevision DEF TypeAccepted, At, Stage
  <1> QED BY <1>1, <1>2 DEF Brings, Typed, TypeAccepted, At, Stage, After, Draft

LEMMA BringsVerified ==
    ASSUME NEW d, Sound(d), NEW t, NEW p, NEW i, NEW sn, Formed(t, p, d, i, sn),
           NEW c, Asked(c), c.op = "natural", c.rev = p.rev, Stage(c, p), NaturalAccepted(d, c)
    PROVE  Brings(c, p, Verified(d, c))
  <1>1. d \in Draft /\ c \in Sent /\ p \in Form
    BY DEF Sound, Asked, Formed
  <1>2. p.text = d.text /\ (p.step > 1 => p.step = d.step /\ p.type = d.type)
    BY <1>1, OnRevision DEF NaturalAccepted, At, Stage
  <1> QED BY <1>1, <1>2 DEF Brings, Verified, NaturalAccepted, At, Stage, After, Draft

LEMMA BringsRecorded ==
    ASSUME NEW d, Sound(d), NEW t, NEW p, NEW i, NEW sn, Formed(t, p, d, i, sn),
           NEW c, Asked(c), c.op = "legal", c.rev = p.rev, Stage(c, p), LegalAccepted(d, c)
    PROVE  Brings(c, p, Recorded(d, c))
  <1>1. d \in Draft /\ c \in Sent /\ p \in Form
    BY DEF Sound, Asked, Formed
  <1>2. p.text = d.text /\ (p.step > 1 => p.step = d.step /\ p.type = d.type)
    BY <1>1, OnRevision DEF LegalAccepted, At, Stage
  <1> QED BY <1>1, <1>2 DEF Brings, Recorded, LegalAccepted, At, Stage, After, Draft

LEMMA BringsBusinessSaved ==
    ASSUME NEW d, Sound(d), NEW t, NEW p, NEW i, NEW sn, Formed(t, p, d, i, sn),
           NEW c, Asked(c), c.op = "business", c.rev = p.rev, Stage(c, p), BusinessAccepted(d, c)
    PROVE  Brings(c, p, BusinessSaved(d, c))
  <1>1. d \in Draft /\ c \in Sent /\ p \in Form
    BY DEF Sound, Asked, Formed
  <1>2. p.text = d.text /\ (p.step > 1 => p.step = d.step /\ p.type = d.type)
    BY <1>1, OnRevision DEF BusinessAccepted, At, Stage
  <1> QED BY <1>1, <1>2 DEF Brings, BusinessSaved, BusinessAccepted, At, Stage, After, Draft

LEMMA BringsAreaSaved ==
    ASSUME NEW d, Sound(d), NEW t, NEW p, NEW i, NEW sn, Formed(t, p, d, i, sn),
           NEW c, Asked(c), c.op = "area", c.rev = p.rev, Stage(c, p), AreaAccepted(d, c)
    PROVE  Brings(c, p, AreaSaved(d, c))
  <1>1. d \in Draft /\ c \in Sent /\ p \in Form
    BY DEF Sound, Asked, Formed
  <1>2. p.text = d.text /\ (p.step > 1 => p.step = d.step /\ p.type = d.type)
    BY <1>1, OnRevision DEF AreaAccepted, At, Stage
  <1> QED BY <1>1, <1>2 DEF Brings, AreaSaved, AreaAccepted, At, Stage, After, Draft

LEMMA BringsExtraSaved ==
    ASSUME NEW d, Sound(d), NEW t, NEW p, NEW i, NEW sn, Formed(t, p, d, i, sn),
           NEW c, Asked(c), c.op = "extra", c.rev = p.rev, Stage(c, p), ExtraAccepted(d, c)
    PROVE  Brings(c, p, ExtraSaved(d, c))
  <1>1. d \in Draft /\ c \in Sent /\ p \in Form
    BY DEF Sound, Asked, Formed
  <1>2. p.text = d.text /\ (p.step > 1 => p.step = d.step /\ p.type = d.type)
    BY <1>1, OnRevision DEF ExtraAccepted, At, Stage
  <1> QED BY <1>1, <1>2 DEF Brings, ExtraSaved, ExtraAccepted, At, Stage, After, Draft

LEMMA BringsSubmitted ==
    ASSUME NEW d, Sound(d), NEW t, NEW p, NEW i, NEW sn, Formed(t, p, d, i, sn),
           NEW c, Asked(c), c.op = "submit", c.rev = p.rev, Stage(c, p), SubmitAccepted(d, c)
    PROVE  Brings(c, p, Submitted(d, c))
  <1>1. d \in Draft /\ c \in Sent /\ p \in Form
    BY DEF Sound, Asked, Formed
  <1>2. p.text = d.text /\ (p.step > 1 => p.step = d.step /\ p.type = d.type)
    BY <1>1, OnRevision DEF SubmitAccepted, At, Stage
  <1> QED BY <1>1, <1>2 DEF Brings, Submitted, SubmitAccepted, At, Stage, After, Draft

LEMMA BringsReplayed ==
    ASSUME NEW d, Sound(d), NEW t, NEW p, NEW i, NEW sn, Formed(t, p, d, i, sn),
           NEW c, Asked(c), c.op = "submit", c.rev = p.rev, Stage(c, p), Replayed(d, c)
    PROVE  Brings(c, p, d)
  <1>1. d \in Draft /\ p \in Form
    BY DEF Sound, Formed
  <1>2. p.step = 6 /\ p.rev > 0 /\ d.rev > 0
    BY <1>1 DEF Stage, Formed, Form, Sound, Draft, Replayed
  <1>3. Agrees(d, p.base, p.step, p.type)
    BY <1>2 DEF Formed, Shows, Current, Replayed
  <1>4. p.text = p.base
    BY <1>2 DEF Formed
  <1> QED BY <1>2, <1>3, <1>4 DEF Brings, After, Agrees

LEMMA BringsWrite ==
    ASSUME NEW d, Sound(d), NEW t, NEW p, NEW i, NEW sn, Formed(t, p, d, i, sn),
           NEW c, Asked(c), c.op \notin {"read", "reread"}, c.rev = p.rev, Stage(c, p), Status(d, c) = "ok"
    PROVE  Brings(c, p, Ran(d, c))
  <1>1. CASE ~Accepted(d, c)
    <2>1. c.op = "submit" /\ Replayed(d, c)
      BY <1>1, StatusOfWrite
    <2> QED BY <1>1, <2>1, BringsReplayed DEF Ran
  <1>2. CASE Accepted(d, c)
    <2>0. Ran(d, c) = Written(d, c)
      BY <1>2 DEF Ran
    <2>1. CASE c.op = "save"
      BY <1>2, <2>0, <2>1, BringsSaved DEF Accepted, Written
    <2>2. CASE c.op = "type"
      BY <1>2, <2>0, <2>2, BringsTyped DEF Accepted, Written
    <2>3. CASE c.op = "natural"
      BY <1>2, <2>0, <2>3, BringsVerified DEF Accepted, Written
    <2>4. CASE c.op = "legal"
      BY <1>2, <2>0, <2>4, BringsRecorded DEF Accepted, Written
    <2>5. CASE c.op = "business"
      BY <1>2, <2>0, <2>5, BringsBusinessSaved DEF Accepted, Written
    <2>6. CASE c.op = "area"
      BY <1>2, <2>0, <2>6, BringsAreaSaved DEF Accepted, Written
    <2>7. CASE c.op = "extra"
      BY <1>2, <2>0, <2>7, BringsExtraSaved DEF Accepted, Written
    <2>8. CASE c.op = "submit"
      BY <1>2, <2>0, <2>8, BringsSubmitted DEF Accepted, Written
    <2>9. c.op \in {"save", "type", "natural", "legal", "business", "area", "extra", "submit"}
      BY <1>2 DEF Accepted
    <2> QED BY <2>1, <2>2, <2>3, <2>4, <2>5, <2>6, <2>7, <2>8, <2>9
  <1> QED BY <1>1, <1>2

LEMMA RepliedWrite ==
    ASSUME NEW d, Sound(d), NEW t, NEW p, NEW i, NEW sn, Formed(t, p, d, i, sn),
           NEW c, Asked(c), c.op \notin {"read", "reread"}, c.rev = p.rev, Stage(c, p),
           NEW r, r.op = c.op, r.rev = c.rev, r.with = c.with, r.copy = Ran(d, c),
           r.answer = Relayed(c.op, Status(d, c))
    PROVE  Replied(r, p)
  <1>1. r.answer = "ok" => Status(d, c) = "ok"
    BY RelayedSays, StatusAnswer DEF Asked, Sent
  <1>2. r.answer = "ok" => Brings(c, p, Ran(d, c))
    BY <1>1, BringsWrite
  <1> QED BY <1>2 DEF Replied, Brings

-----------------------------------------------------------------------------
(* What a step leaves alone: the invariant after one tab and one request    *)
(* have changed, from the facts about these two.                            *)

\* No other request of the tab is waited for.
Quiet(fl, t, f) == \A g \in Flights \ {f} : ~(fl[g].live /\ fl[g].tab = t)
Silent(fl, t) == \A g \in Flights : ~(fl[g].live /\ fl[g].tab = t)
\* The submissions of the other tabs stay theirs.
Others(sn, sm, t) == \A k \in Keys : sm[k] = sn[k] \/ (sm[k] = t /\ sn[k] \in {t, NoTab})

LEMMA IntendedOthers ==
    ASSUME NEW sn, NEW sm, NEW t \in Tabs, NEW u \in Tabs, u # t, Others(sn, sm, t),
           NEW i, NEW d, Intended(u, i, d, sn)
    PROVE  Intended(u, i, d, sm)
  BY SellerAssumption DEF Others, Intended

LEMMA FormedOthers ==
    ASSUME NEW sn, NEW sm, NEW t \in Tabs, NEW u \in Tabs, u # t, Others(sn, sm, t),
           NEW i, NEW d, NEW p, Formed(u, p, d, i, sn)
    PROVE  Formed(u, p, d, i, sm)
  BY IntendedOthers DEF Formed

LEMMA FlownElsewhere ==
    ASSUME NEW c, NEW d, NEW tb, NEW tc, Flown(c, d, tb), c.live => tc[c.tab] = tb[c.tab]
    PROVE  Flown(c, d, tc)
  BY DEF Flown

LEMMA TabStep ==
    ASSUME NEW d, NEW tb, NEW st, NEW fl, NEW sn, NEW kn, Tight(d, tb, st, fl, sn, kn),
           NEW t \in Tabs, NEW f \in Flights, Quiet(fl, t, f),
           NEW sm \in [Keys -> Tabs \cup {NoTab}], Others(sn, sm, t), NEW km \in SUBSET Keys,
           NEW p, NEW i \in Intent, Formed(t, p, d, i, sm), Intended(t, i, d, sm),
           NEW c \in Sent \cup {NoFlight}, c.live => c.tab = t,
           Flown(c, d, [tb EXCEPT ![t] = p]), Kept([st EXCEPT ![t] = i], sm, km)
    PROVE  Tight(d, [tb EXCEPT ![t] = p], [st EXCEPT ![t] = i], [fl EXCEPT ![f] = c], sm, km)
  <1> DEFINE tc == [tb EXCEPT ![t] = p]
  <1> DEFINE sc == [st EXCEPT ![t] = i]
  <1> DEFINE fc == [fl EXCEPT ![f] = c]
  <1>0. Sound(d) /\ Shaped(tb, st, fl, sn, kn)
    BY DEF Tight
  <1>a. p \in Form
    BY DEF Formed
  <1>1. Shaped(tc, sc, fc, sm, km)
    BY <1>0, <1>a DEF Shaped
  <1>b. tc[t] = p /\ sc[t] = i /\ fc[f] = c
    BY <1>0 DEF Shaped
  <1>c. \A u \in Tabs : u # t => tc[u] = tb[u] /\ sc[u] = st[u]
    BY <1>0 DEF Shaped
  <1>d. \A g \in Flights : g # f => fc[g] = fl[g]
    BY <1>0 DEF Shaped
  <1>e. Flown(c, d, tc) /\ Kept(sc, sm, km)
    OBVIOUS
  <1> HIDE DEF tc, sc, fc
  <1>2. AllFormed(d, tc, sc, sm)
    <2> SUFFICES ASSUME NEW u \in Tabs PROVE Formed(u, tc[u], d, sc[u], sm)
      BY DEF AllFormed
    <2>1. Formed(u, tb[u], d, st[u], sn)
      BY DEF Tight, AllFormed
    <2> QED BY <1>b, <1>c, <2>1, FormedOthers
  <1>3. AllIntended(d, sc, sm)
    <2> SUFFICES ASSUME NEW u \in Tabs PROVE Intended(u, sc[u], d, sm)
      BY DEF AllIntended
    <2>1. Intended(u, st[u], d, sn)
      BY DEF Tight, AllIntended
    <2> QED BY <1>b, <1>c, <2>1, IntendedOthers
  <1>4. AllFlown(d, tc, fc)
    <2> SUFFICES ASSUME NEW g \in Flights PROVE Flown(fc[g], d, tc)
      BY DEF AllFlown
    <2>1. CASE g = f
      BY <1>b, <1>e, <2>1
    <2>2. CASE g # f
      <3>1. Flown(fl[g], d, tb)
        BY DEF Tight, AllFlown
      <3>2. fl[g].live => fl[g].tab # t
        BY <2>2 DEF Quiet
      <3>3. fl[g].live => fl[g] # NoFlight
        BY DEF NoFlight
      <3>4. fl[g].live => fl[g].tab \in Tabs
        BY <3>1, <3>3 DEF Flown, Asked, Sent
      <3>5. fl[g].live => tc[fl[g].tab] = tb[fl[g].tab]
        BY <1>c, <3>2, <3>4
      <3>6. Flown(fl[g], d, tc)
        BY <3>1, <3>5, FlownElsewhere
      <3> QED BY <1>d, <2>2, <3>6
    <2> QED BY <2>1, <2>2
  <1>5. Alone(fc)
    <2> SUFFICES ASSUME NEW g \in Flights, NEW h \in Flights, fc[g].live, fc[h].live, fc[g].tab = fc[h].tab
                 PROVE  g = h
      BY DEF Alone
    <2>1. CASE g # f /\ h # f
      BY <1>d, <2>1 DEF Tight, Alone
    <2>2. CASE g = f /\ h # f
      BY <1>b, <1>d, <2>2 DEF Quiet
    <2>3. CASE g # f /\ h = f
      BY <1>b, <1>d, <2>3 DEF Quiet
    <2> QED BY <2>1, <2>2, <2>3
  <1> QED BY <1>0, <1>1, <1>2, <1>3, <1>4, <1>5, <1>e DEF Tight, tc, sc, fc

\* Only the form of a tab changes.
LEMMA PageStep ==
    ASSUME NEW d, NEW tb, NEW st, NEW fl, NEW sn, NEW kn, Tight(d, tb, st, fl, sn, kn),
           NEW t \in Tabs, NEW p, Formed(t, p, d, st[t], sn),
           \A g \in Flights : fl[g].live /\ fl[g].tab = t => Waited(fl[g], p)
    PROVE  Tight(d, [tb EXCEPT ![t] = p], st, fl, sn, kn)
  <1> DEFINE tc == [tb EXCEPT ![t] = p]
  <1>0. Sound(d) /\ Shaped(tb, st, fl, sn, kn)
    BY DEF Tight
  <1>a. p \in Form
    BY DEF Formed
  <1>1. Shaped(tc, st, fl, sn, kn)
    BY <1>0, <1>a DEF Shaped
  <1>b. tc[t] = p /\ \A u \in Tabs : u # t => tc[u] = tb[u]
    BY <1>0 DEF Shaped
  <1> HIDE DEF tc
  <1>2. AllFormed(d, tc, st, sn)
    BY <1>b DEF Tight, AllFormed
  <1>3. AllFlown(d, tc, fl)
    <2> SUFFICES ASSUME NEW g \in Flights PROVE Flown(fl[g], d, tc)
      BY DEF AllFlown
    <2>1. Flown(fl[g], d, tb)
      BY DEF Tight, AllFlown
    <2>2. CASE fl[g].live /\ fl[g].tab = t
      <3>1. Waited(fl[g], tc[fl[g].tab])
        BY <1>b, <2>2
      <3> QED BY <2>1, <3>1 DEF Flown
    <2>3. CASE ~(fl[g].live /\ fl[g].tab = t)
      <3>1. fl[g].live => fl[g].tab \in Tabs
        BY <2>1 DEF Flown, Asked, Sent, NoFlight
      <3>2. fl[g].live => tc[fl[g].tab] = tb[fl[g].tab]
        BY <1>b, <2>3, <3>1
      <3> QED BY <2>1, <3>2, FlownElsewhere
    <2> QED BY <2>2, <2>3
  <1> QED BY <1>0, <1>1, <1>2, <1>3 DEF Tight, tc

\* Only a request changes, which goes on or ends, and what the service stores.
LEMMA FlightStep ==
    ASSUME NEW d, NEW tb, NEW st, NEW fl, NEW sn, NEW kn, Tight(d, tb, st, fl, sn, kn),
           NEW f \in Flights, NEW e, Sound(e), Moves(d, e) \/ e = d,
           NEW c \in Sent \cup {NoFlight}, Flown(c, e, tb), c.live => fl[f].live /\ c.tab = fl[f].tab
    PROVE  Tight(e, tb, st, [fl EXCEPT ![f] = c], sn, kn)
  <1> DEFINE fc == [fl EXCEPT ![f] = c]
  <1>0. Shaped(tb, st, fl, sn, kn)
    BY DEF Tight
  <1>1. Shaped(tb, st, fc, sn, kn)
    BY <1>0 DEF Shaped
  <1>a. fc[f] = c /\ \A g \in Flights : g # f => fc[g] = fl[g]
    BY <1>0 DEF Shaped
  <1> HIDE DEF fc
  <1>2. AllFormed(e, tb, st, sn)
    BY FormedKept DEF Tight, AllFormed
  <1>3. AllIntended(e, st, sn)
    BY IntendedKept DEF Tight, AllIntended
  <1>4. AllFlown(e, tb, fc)
    <2> SUFFICES ASSUME NEW g \in Flights PROVE Flown(fc[g], e, tb)
      BY DEF AllFlown
    <2>1. Flown(fl[g], d, tb)
      BY DEF Tight, AllFlown
    <2>2. Flown(fl[g], e, tb)
      BY <2>1, FlownKept
    <2> QED BY <1>a, <2>2
  <1>5. Alone(fc)
    BY <1>a DEF Tight, Alone
  <1> QED BY <1>1, <1>2, <1>3, <1>4, <1>5 DEF Tight, fc

-----------------------------------------------------------------------------
(* The network. *)

\* What the invariant says of one request.
LEMMA OfFlight ==
    ASSUME NEW d, NEW tb, NEW st, NEW fl, NEW sn, NEW kn, Tight(d, tb, st, fl, sn, kn),
           NEW f \in Flights, fl[f] # NoFlight
    PROVE  /\ Asked(fl[f]) /\ Flown(fl[f], d, tb) /\ fl[f].tab \in Tabs
           /\ Formed(fl[f].tab, tb[fl[f].tab], d, st[fl[f].tab], sn)
           /\ fl[f].live => Waited(fl[f], tb[fl[f].tab])
           /\ Sound(d)
  <1>1. Flown(fl[f], d, tb)
    BY DEF Tight, AllFlown
  <1>2. Asked(fl[f]) /\ fl[f].tab \in Tabs
    BY <1>1 DEF Flown, Asked, Sent
  <1>3. Formed(fl[f].tab, tb[fl[f].tab], d, st[fl[f].tab], sn)
    BY <1>2 DEF Tight, AllFormed
  <1>4. Sound(d) /\ (fl[f].live => Waited(fl[f], tb[fl[f].tab]))
    BY <1>1 DEF Tight, Flown
  <1> QED BY <1>1, <1>2, <1>3, <1>4

\* A request that got an answer.
Gets(c, a, e) == [c EXCEPT !.runs = FALSE, !.answer = a, !.copy = e]
LEMMA GetsRecord ==
    ASSUME NEW c \in Sent, NEW a \in Answers, NEW e \in Draft
    PROVE  \A r : r = Gets(c, a, e) =>
              /\ r \in Sent /\ r.answer = a /\ r.copy = e /\ r.op = c.op /\ r.tab = c.tab /\ r.rev = c.rev
              /\ r.with = c.with /\ r.waits = c.waits /\ r.live = c.live /\ r.text = c.text /\ r.key = c.key
  BY DEF Gets, Sent

LEMMA StageOf ==
    ASSUME NEW c, NEW r, NEW p, r.op = c.op, r.rev = c.rev, r.text = c.text, r.key = c.key, Stage(c, p)
    PROVE  Stage(r, p)
  BY DEF Stage

LEMMA ServedFlown ==
    ASSUME NEW d, NEW tb, NEW st, NEW fl, NEW sn, NEW kn, Tight(d, tb, st, fl, sn, kn),
           NEW f \in Flights, fl[f] # NoFlight, fl[f].waits
    PROVE  \A r : r = Gets(fl[f], Relayed(fl[f].op, Status(d, fl[f])), Ran(d, fl[f])) =>
              r \in Sent /\ r.live = fl[f].live /\ r.tab = fl[f].tab /\ Flown(r, Ran(d, fl[f]), tb)
  <1> DEFINE c == fl[f]
  <1> DEFINE p == tb[c.tab]
  <1> DEFINE e == Ran(d, c)
  <1>1. Asked(c) /\ Sound(d) /\ Formed(c.tab, p, d, st[c.tab], sn) /\ (c.live => Waited(c, p))
    BY OfFlight
  <1>a. c.waits
    OBVIOUS
  <1>b. ~Accepted(d, c) => e = d
    BY DEF Ran
  <1>c. e = Ran(d, c)
    OBVIOUS
  <1> HIDE DEF c, p, e
  <1>2. c \in Sent /\ c.op \in Ops /\ Status(d, c) \in Answers
    BY <1>1, StatusAnswer DEF Asked, Sent
  <1>3. Relayed(c.op, Status(d, c)) \in Answers
    BY <1>2, RelayedSays
  <1>4. Sound(e)
    BY <1>1, <1>c, RanSound
  <1>5. e \in Draft
    BY <1>4 DEF Sound
  <1> SUFFICES ASSUME NEW r, r = Gets(c, Relayed(c.op, Status(d, c)), e)
               PROVE  r \in Sent /\ r.live = c.live /\ r.tab = c.tab /\ Flown(r, e, tb)
    BY DEF c, e
  <1>6. /\ r \in Sent /\ r.answer = Relayed(c.op, Status(d, c)) /\ r.copy = e /\ r.op = c.op /\ r.tab = c.tab
        /\ r.rev = c.rev /\ r.with = c.with /\ r.waits = c.waits /\ r.live = c.live /\ r.text = c.text
        /\ r.key = c.key
    BY <1>2, <1>3, <1>5, GetsRecord
  <1>7. Asked(r)
    BY <1>1, <1>6, <1>a DEF Asked
  <1>8. Shows(e, e.rev, e.text, e.step, e.type)
    BY <1>4, ShowsItself
  <1>9. ASSUME c.live PROVE Waited(r, p)
    <2>1. Waited(c, p)
      BY <1>1, <1>9
    <2>2. Stage(c, p)
      BY <2>1 DEF Waited
    <2>3. Stage(r, p)
      BY <1>6, <2>2, StageOf
    <2>4. CASE c.op \in {"read", "reread"}
      <3>1. e = d
        BY <1>b, <1>1, <2>4, StatusOfRead
      <3>2. Replied(r, p)
        BY <1>1, <1>2, <1>6, <2>4, <3>1, RepliedRead
      <3> QED BY <1>6, <2>1, <2>3, <3>2, <2>4 DEF Waited
    <2>5. CASE c.op \notin {"read", "reread"}
      <3>1. c.rev = p.rev
        BY <2>1, <2>5 DEF Waited
      <3>2. Replied(r, p)
        BY <1>1, <1>6, <1>c, <2>2, <2>5, <3>1, RepliedWrite
      <3> QED BY <1>6, <2>1, <2>3, <3>1, <3>2 DEF Waited
    <2> QED BY <2>4, <2>5
  <1>10. Flown(r, e, tb)
    BY <1>6, <1>7, <1>8, <1>9 DEF Flown, p
  <1> QED BY <1>6, <1>10

\* A request turned away brings nothing.
LEMMA DeniedFlown ==
    ASSUME NEW c, NEW d, NEW tb, Flown(c, d, tb), c # NoFlight, c.waits, NEW a \in {"denied", "refused", "unavailable"}
    PROVE  \A r : r = [c EXCEPT !.runs = FALSE, !.answer = a] =>
              r \in Sent /\ r.live = c.live /\ r.tab = c.tab /\ Flown(r, d, tb)
  <1>1. Asked(c) /\ c \in Sent
    BY DEF Flown, Asked
  <1>2. a \in Answers
    BY DEF Answers, Common
  <1> SUFFICES ASSUME NEW r, r = [c EXCEPT !.runs = FALSE, !.answer = a]
               PROVE  r \in Sent /\ r.live = c.live /\ r.tab = c.tab /\ Flown(r, d, tb)
    OBVIOUS
  <1>3. /\ r \in Sent /\ r.answer = a /\ r.copy = c.copy /\ r.op = c.op /\ r.tab = c.tab /\ r.rev = c.rev
        /\ r.waits = c.waits /\ r.live = c.live /\ r.text = c.text /\ r.key = c.key /\ r.with = c.with
    BY <1>1, <1>2 DEF Sent
  <1>4. Asked(r)
    BY <1>1, <1>3 DEF Asked
  <1>5. ASSUME r.live PROVE Waited(r, tb[r.tab])
    <2>1. Waited(c, tb[c.tab])
      BY <1>3, <1>5 DEF Flown
    <2>2. Stage(r, tb[c.tab])
      BY <1>3, <2>1, StageOf DEF Waited
    <2>3. Replied(r, tb[c.tab])
      BY <1>3 DEF Replied
    <2> QED BY <1>3, <2>1, <2>2, <2>3 DEF Waited
  <1> QED BY <1>3, <1>4, <1>5 DEF Flown

LEMMA NoFlightFlown == ASSUME NEW d, NEW tb PROVE Flown(NoFlight, d, tb) /\ ~NoFlight.live /\ ~NoFlight.waits /\ ~NoFlight.runs
  BY DEF Flown, NoFlight

LEMMA ServeTight ==
    ASSUME SInv, NEW f \in Flights, Serve(f)
    PROVE  SInv'
  <1> DEFINE c == flight[f]
  <1>0. Tight(draft, tab, stored, flight, sender, known) /\ LeftOK
    BY DEF SInv
  <1>1. c # NoFlight
    BY NoFlightFlown DEF Serve
  <1>2. Sound(Ran(draft, c)) /\ (Moves(draft, Ran(draft, c)) \/ Ran(draft, c) = draft)
    BY <1>0, <1>1, OfFlight, RanSound
  <1>3. draft' = Ran(draft, c)
    BY DEF Serve, Ran
  <1>4. UNCHANGED <<tab, stored, sender, known, left>>
    BY DEF Serve
  <1>5. PICK r : /\ flight' = [flight EXCEPT ![f] = r]
                 /\ r \in Sent \cup {NoFlight} /\ Flown(r, Ran(draft, c), tab)
                 /\ r.live => flight[f].live /\ r.tab = flight[f].tab
    <2>1. CASE ~c.waits
      BY <2>1, NoFlightFlown DEF Serve
    <2>2. CASE c.waits
      <3>1. flight' = [flight EXCEPT ![f] = Gets(c, Relayed(c.op, Status(draft, c)), Ran(draft, c))]
        BY <2>2 DEF Serve, Gets, Ran
      <3> DEFINE r == Gets(c, Relayed(c.op, Status(draft, c)), Ran(draft, c))
      <3>2. r \in Sent /\ r.live = c.live /\ r.tab = c.tab /\ Flown(r, Ran(draft, c), tab)
        BY <1>0, <1>1, <2>2, ServedFlown
      <3> HIDE DEF r
      <3> QED BY <3>1, <3>2 DEF r
    <2> QED BY <2>1, <2>2
  <1> HIDE DEF c
  <1>6. Tight(Ran(draft, c), tab, stored, flight', sender, known)
    BY <1>0, <1>2, <1>5, FlightStep
  <1>7. SInv'
    BY <1>0, <1>3, <1>4, <1>6 DEF SInv, LeftOK
  <1> QED BY <1>7

LEMMA TurnAwayTight ==
    ASSUME SInv, NEW f \in Flights, NEW status \in {"denied", "refused"}, TurnAway(f, status)
    PROVE  SInv'
  <1>0. Tight(draft, tab, stored, flight, sender, known) /\ LeftOK
    BY DEF SInv
  <1>1. flight[f] # NoFlight /\ flight[f].waits
    BY NoFlightFlown DEF TurnAway
  <1>2. UNCHANGED <<draft, tab, stored, sender, known, left>>
    BY DEF TurnAway
  <1>3. flight[f] \in Sent /\ Flown(flight[f], draft, tab) /\ Sound(draft)
    BY <1>0, <1>1, OfFlight DEF Asked
  <1> DEFINE a == Relayed(flight[f].op, status)
  <1>4. a \in {"denied", "refused", "unavailable"}
    BY DEF Relayed
  <1>5. flight' = [flight EXCEPT ![f] = [flight[f] EXCEPT !.runs = FALSE, !.answer = a]]
    <2>1. flight = [g \in Flights |-> flight[g]]
      BY <1>0 DEF Tight, Shaped
    <2>2. flight' = [flight EXCEPT ![f].runs = FALSE, ![f].answer = a]
      BY DEF TurnAway
    <2> QED BY <1>3, <2>1, <2>2 DEF Sent
  <1> HIDE DEF a
  <1>6. PICK r : flight' = [flight EXCEPT ![f] = r] /\ r \in Sent /\ Flown(r, draft, tab)
                 /\ (r.live => flight[f].live /\ r.tab = flight[f].tab)
    <2> DEFINE r == [flight[f] EXCEPT !.runs = FALSE, !.answer = a]
    <2>1. r \in Sent /\ r.live = flight[f].live /\ r.tab = flight[f].tab /\ Flown(r, draft, tab)
      BY <1>1, <1>3, <1>4, DeniedFlown
    <2> HIDE DEF r
    <2> QED BY <1>5, <2>1 DEF r
  <1>7. Tight(draft, tab, stored, flight', sender, known)
    BY <1>0, <1>3, <1>6, FlightStep
  <1> QED BY <1>0, <1>2, <1>7 DEF SInv, LeftOK

LEMMA DropTight ==
    ASSUME SInv, NEW f \in Flights, Drop(f)
    PROVE  SInv'
  <1>0. Tight(draft, tab, stored, flight, sender, known) /\ LeftOK /\ Sound(draft)
    BY DEF SInv, Tight
  <1>1. UNCHANGED <<draft, tab, stored, sender, known, left>> /\ flight' = [flight EXCEPT ![f] = NoFlight]
    BY DEF Drop
  <1>2. Tight(draft, tab, stored, flight', sender, known)
    BY <1>0, <1>1, FlightStep, NoFlightFlown
  <1> QED BY <1>0, <1>1, <1>2 DEF SInv, LeftOK

-----------------------------------------------------------------------------
(* The page. *)

LEMMA OfTab ==
    ASSUME SInv, NEW t \in Tabs
    PROVE  /\ Tight(draft, tab, stored, flight, sender, known) /\ LeftOK
           /\ Formed(t, tab[t], draft, stored[t], sender) /\ tab[t] \in Form
           /\ Intended(t, stored[t], draft, sender) /\ stored[t] \in Intent
           /\ Sound(draft) /\ draft.rev \in Nat
           /\ tab = [u \in Tabs |-> tab[u]] /\ stored = [u \in Tabs |-> stored[u]]
  BY DEF SInv, Tight, AllFormed, AllIntended, Shaped, Sound, Draft, Formed

\* A page that waits for nothing.
LEMMA IdleSilent ==
    ASSUME SInv, NEW t \in Tabs,
           tab[t].access # "checking", ~(tab[t].access = "signedIn" /\ tab[t].busy)
    PROVE  Silent(flight, t)
  <1> SUFFICES ASSUME NEW g \in Flights, flight[g].live, flight[g].tab = t PROVE FALSE
    BY DEF Silent
  <1>1. flight[g] # NoFlight
    BY NoFlightFlown
  <1>2. Waited(flight[g], tab[t])
    BY <1>1, OfFlight DEF SInv
  <1> QED BY <1>2 DEF Waited

LEMMA SilentQuiet == ASSUME NEW fl, NEW t, Silent(fl, t), NEW f PROVE Quiet(fl, t, f)
  BY DEF Silent, Quiet

LEMMA LeftDown ==
    ASSUME LeftOK, left.commands > 0, left' = [left EXCEPT !.commands = @ - 1]
    PROVE  LeftOK'
  <1>1. left' \in [step : 0 .. 6, ops : SUBSET Ops, commands : Nat]
    BY DEF LeftOK
  <1>2. left'.step = left.step /\ left'.ops = left.ops /\ left'.commands = left.commands - 1
    BY DEF LeftOK
  <1>3. PICK s \in Scenarios : left.step = s.step /\ left.ops = s.ops /\ left.commands \in 0 .. s.commands
    BY DEF LeftOK
  <1>4. s.commands \in Nat /\ left.commands \in Nat
    BY SellerAssumption DEF LeftOK
  <1>5. left'.commands \in 0 .. s.commands
    BY <1>2, <1>3, <1>4
  <1> QED BY <1>1, <1>2, <1>3, <1>5 DEF LeftOK

\* The invariant does not look at the rest of the form.
LEMMA FormedSame ==
    ASSUME NEW t, NEW p, NEW d, NEW i, NEW sn, Formed(t, p, d, i, sn), NEW q \in Form,
           q.access = p.access, q.text = p.text, q.base = p.base, q.own = p.own, q.rev = p.rev, q.step = p.step,
           q.type = p.type, q.conflict = p.conflict, q.pending = p.pending, q.failed = p.failed
    PROVE  Formed(t, q, d, i, sn)
  <1>1. Compared(q, d)
    BY DEF Formed, Compared
  <1> QED BY <1>1 DEF Formed

\* A request just sent.
New(c) == c.waits /\ c.runs /\ c.live /\ c.answer = "none" /\ c.copy = NoDraft
LEMMA RequestNew ==
    ASSUME NEW op \in Ops, NEW t \in Tabs, tab[t] \in Form
    PROVE  \A c : c = Request(op, t) =>
              c \in Sent /\ New(c) /\ c.op = op /\ c.tab = t /\ c.rev = tab[t].rev
  <1>1. tab[t].rev \in Nat /\ tab[t].type \in Types
    BY DEF Form
  <1>2. NoFlight.text \in Text /\ NoFlight.with \in Types /\ NoFlight.key \in Keys \cup {NoKey}
        /\ NoFlight.answer \in Answers /\ NoFlight.copy \in Draft
    BY EmptyIsText, NoDraftIsDraft DEF NoFlight, Types, Answers
  <1> QED BY <1>1, <1>2 DEF Request, NoFlight, Sent, New

LEMMA NewFlown ==
    ASSUME NEW c \in Sent, New(c), NEW d, d.rev \in Nat, NEW tb, Asked(c), Stage(c, tb[c.tab]),
           IF c.op = "read" THEN tb[c.tab].access = "checking" ELSE tb[c.tab].access = "signedIn" /\ tb[c.tab].busy,
           c.op \notin {"read", "reread"} => c.rev = tb[c.tab].rev
    PROVE  Flown(c, d, tb)
  <1>1. Shows(d, c.copy.rev, c.copy.text, c.copy.step, c.copy.type)
    BY DEF New, NoDraft, Shows, Current
  <1>2. Replied(c, tb[c.tab])
    BY DEF New, Replied
  <1>3. c.waits
    BY DEF New
  <1> QED BY <1>1, <1>2, <1>3 DEF Flown, Waited

\* A tab takes a form and sends a request, and nothing else changes.
LEMMA SendTight ==
    ASSUME SInv, NEW t \in Tabs, NEW f \in Flights, Silent(flight, t),
           NEW p, Formed(t, p, draft, stored[t], sender),
           NEW c \in Sent, c.tab = t, Flown(c, draft, [tab EXCEPT ![t] = p]),
           tab' = [tab EXCEPT ![t] = p], flight' = [flight EXCEPT ![f] = c],
           UNCHANGED <<draft, stored, sender, known>>, LeftOK'
    PROVE  SInv'
  <1>1. Tight(draft, tab, stored, flight, sender, known)
        /\ Intended(t, stored[t], draft, sender) /\ stored[t] \in Intent
    BY OfTab
  <1>2. Quiet(flight, t, f)
    BY SilentQuiet
  <1>3. sender \in [Keys -> Tabs \cup {NoTab}] /\ known \in SUBSET Keys /\ Kept(stored, sender, known)
    BY <1>1 DEF Tight, Shaped
  <1>4. Others(sender, sender, t)
    BY DEF Others
  <1>5. [stored EXCEPT ![t] = stored[t]] = stored
    BY <1>1 DEF Tight, Shaped
  <1>6. Kept([stored EXCEPT ![t] = stored[t]], sender, known)
    BY <1>3, <1>5
  <1>7. Tight(draft, [tab EXCEPT ![t] = p], [stored EXCEPT ![t] = stored[t]], [flight EXCEPT ![f] = c], sender, known)
    BY <1>1, <1>2, <1>3, <1>4, <1>6, TabStep
  <1> QED BY <1>5, <1>7 DEF SInv

\* A command of the form.
LEMMA CommandTight ==
    ASSUME SInv, NEW t \in Tabs, NEW f \in Flights, NEW op, NEW c, Command(t, f, op, c), Ready(tab[t]),
           c \in Sent, New(c), c.tab = t, c.rev = tab[t].rev, c.op # "read", Asked(c), Stage(c, tab[t])
    PROVE  SInv'
  <1> DEFINE p == [tab[t] EXCEPT !.busy = TRUE]
  <1>1. Formed(t, tab[t], draft, stored[t], sender) /\ tab[t] \in Form /\ LeftOK /\ draft.rev \in Nat
        /\ tab = [u \in Tabs |-> tab[u]]
    BY OfTab
  <1>2. Silent(flight, t)
    BY IdleSilent DEF Ready
  <1>3. /\ p \in Form /\ p.busy
        /\ p.access = tab[t].access /\ p.text = tab[t].text /\ p.base = tab[t].base /\ p.own = tab[t].own
        /\ p.rev = tab[t].rev /\ p.step = tab[t].step /\ p.type = tab[t].type /\ p.conflict = tab[t].conflict
        /\ p.pending = tab[t].pending /\ p.failed = tab[t].failed /\ p.lists = tab[t].lists
    BY <1>1 DEF Form
  <1>4. tab' = [tab EXCEPT ![t] = p]
    BY <1>1 DEF Command, Form
  <1>5. flight' = [flight EXCEPT ![f] = c] /\ UNCHANGED <<draft, stored, sender, known>>
    BY DEF Command
  <1>6. LeftOK'
    BY <1>1, LeftDown DEF Command, Commands
  <1> HIDE DEF p
  <1>7. Formed(t, p, draft, stored[t], sender)
    BY <1>1, <1>3, FormedSame
  <1>8. Stage(c, p)
    BY <1>3 DEF Stage
  <1> DEFINE tc == [tab EXCEPT ![t] = p]
  <1>9. tc[c.tab] = p
    BY <1>1
  <1>10. tab[t].access = "signedIn"
    BY DEF Ready
  <1> HIDE DEF tc
  <1>11. Flown(c, draft, tc)
    BY <1>1, <1>3, <1>8, <1>9, <1>10, NewFlown
  <1> QED BY <1>2, <1>4, <1>5, <1>6, <1>7, <1>11, SendTight DEF tc

-----------------------------------------------------------------------------
(* The commands of the form. *)

LEMMA SaveTight ==
    ASSUME SInv, NEW t \in Tabs, NEW f \in Flights, Save(t, f)
    PROVE  SInv'
  <1> DEFINE r == Request("save", t)
  <1> DEFINE c == [r EXCEPT !.text = tab[t].text]
  <1>1. tab[t] \in Form
    BY OfTab
  <1>2. r \in Sent /\ New(r) /\ r.op = "save" /\ r.tab = t /\ r.rev = tab[t].rev
    BY <1>1, RequestNew DEF Ops
  <1>3. CanType(tab[t]) /\ (\A x \in Fields : tab[t].text[x] # Blank) /\ Command(t, f, "save", c)
    BY DEF Save
  <1>4. tab[t].text \in Text /\ tab[t].step = 1 /\ tab[t].conflict = NoConflict /\ Ready(tab[t])
    BY <1>1, <1>3 DEF CanType, Form
  <1> HIDE DEF r
  <1>5. c \in Sent /\ New(c) /\ c.op = "save" /\ c.tab = t /\ c.rev = tab[t].rev /\ c.text = tab[t].text
    BY <1>2, <1>4 DEF Sent, New
  <1> HIDE DEF c
  <1>6. Asked(c)
    BY <1>3, <1>5 DEF Asked, New
  <1>7. Stage(c, tab[t])
    BY <1>4, <1>5 DEF Stage
  <1> QED BY <1>3, <1>4, <1>5, <1>6, <1>7, CommandTight

LEMMA SaveApplicantTypeTight ==
    ASSUME SInv, NEW t \in Tabs, NEW f \in Flights, NEW type \in {"NATURAL", "LEGAL"}, SaveApplicantType(t, f, type)
    PROVE  SInv'
  <1> DEFINE r == Request("type", t)
  <1> DEFINE c == [r EXCEPT !.with = type]
  <1>1. tab[t] \in Form
    BY OfTab
  <1>2. r \in Sent /\ New(r) /\ r.op = "type" /\ r.tab = t /\ r.rev = tab[t].rev
    BY <1>1, RequestNew DEF Ops
  <1>3. TypeOffered(tab[t]) /\ Command(t, f, "type", c)
    BY DEF SaveApplicantType
  <1>4. tab[t].step < 3 /\ tab[t].text = tab[t].base /\ tab[t].conflict = NoConflict /\ Ready(tab[t])
    BY <1>3 DEF TypeOffered, Unsaved
  <1> HIDE DEF r
  <1>5. c \in Sent /\ New(c) /\ c.op = "type" /\ c.tab = t /\ c.rev = tab[t].rev /\ c.with = type
    BY <1>2, <1>4 DEF Sent, New, Types
  <1> HIDE DEF c
  <1>6. Asked(c)
    BY <1>5 DEF Asked, New
  <1>7. Stage(c, tab[t])
    BY <1>4, <1>5 DEF Stage
  <1> QED BY <1>3, <1>4, <1>5, <1>6, <1>7, CommandTight

LEMMA VerifyNaturalIdentityTight ==
    ASSUME SInv, NEW t \in Tabs, NEW f \in Flights, VerifyNaturalIdentity(t, f)
    PROVE  SInv'
  <1> DEFINE c == Request("natural", t)
  <1>1. tab[t] \in Form
    BY OfTab
  <1>2. c \in Sent /\ New(c) /\ c.op = "natural" /\ c.tab = t /\ c.rev = tab[t].rev
    BY <1>1, RequestNew DEF Ops
  <1>3. tab[t].step = 2 /\ Ready(tab[t]) /\ Command(t, f, "natural", c)
    BY DEF VerifyNaturalIdentity, IdentityOffered
  <1> HIDE DEF c
  <1>4. Asked(c)
    BY <1>2 DEF Asked, New
  <1>5. Stage(c, tab[t])
    BY <1>2, <1>3 DEF Stage
  <1> QED BY <1>2, <1>3, <1>4, <1>5, CommandTight

LEMMA SaveLegalIdentityTight ==
    ASSUME SInv, NEW t \in Tabs, NEW f \in Flights, SaveLegalIdentity(t, f)
    PROVE  SInv'
  <1> DEFINE c == Request("legal", t)
  <1>1. tab[t] \in Form
    BY OfTab
  <1>2. c \in Sent /\ New(c) /\ c.op = "legal" /\ c.tab = t /\ c.rev = tab[t].rev
    BY <1>1, RequestNew DEF Ops
  <1>3. tab[t].step = 2 /\ Ready(tab[t]) /\ Command(t, f, "legal", c)
    BY DEF SaveLegalIdentity, IdentityOffered
  <1> HIDE DEF c
  <1>4. Asked(c)
    BY <1>2 DEF Asked, New
  <1>5. Stage(c, tab[t])
    BY <1>2, <1>3 DEF Stage
  <1> QED BY <1>2, <1>3, <1>4, <1>5, CommandTight

LEMMA SaveBusinessInformationTight ==
    ASSUME SInv, NEW t \in Tabs, NEW f \in Flights, SaveBusinessInformation(t, f)
    PROVE  SInv'
  <1> DEFINE c == Request("business", t)
  <1>1. tab[t] \in Form
    BY OfTab
  <1>2. c \in Sent /\ New(c) /\ c.op = "business" /\ c.tab = t /\ c.rev = tab[t].rev
    BY <1>1, RequestNew DEF Ops
  <1>3. tab[t].step = 3 /\ tab[t].lists = "ready" /\ Ready(tab[t]) /\ Command(t, f, "business", c)
    BY DEF SaveBusinessInformation, BusinessOffered
  <1> HIDE DEF c
  <1>4. Asked(c)
    BY <1>2 DEF Asked, New
  <1>5. Stage(c, tab[t])
    BY <1>2, <1>3 DEF Stage
  <1> QED BY <1>2, <1>3, <1>4, <1>5, CommandTight

LEMMA SaveActivityAreaTight ==
    ASSUME SInv, NEW t \in Tabs, NEW f \in Flights, SaveActivityArea(t, f)
    PROVE  SInv'
  <1> DEFINE c == Request("area", t)
  <1>1. tab[t] \in Form
    BY OfTab
  <1>2. c \in Sent /\ New(c) /\ c.op = "area" /\ c.tab = t /\ c.rev = tab[t].rev
    BY <1>1, RequestNew DEF Ops
  <1>3. tab[t].step = 4 /\ Ready(tab[t]) /\ Command(t, f, "area", c)
    BY DEF SaveActivityArea, AreaOffered
  <1> HIDE DEF c
  <1>4. Asked(c)
    BY <1>2 DEF Asked, New
  <1>5. Stage(c, tab[t])
    BY <1>2, <1>3 DEF Stage
  <1> QED BY <1>2, <1>3, <1>4, <1>5, CommandTight

LEMMA SaveAdditionalInformationTight ==
    ASSUME SInv, NEW t \in Tabs, NEW f \in Flights, SaveAdditionalInformation(t, f)
    PROVE  SInv'
  <1> DEFINE c == Request("extra", t)
  <1>1. tab[t] \in Form
    BY OfTab
  <1>2. c \in Sent /\ New(c) /\ c.op = "extra" /\ c.tab = t /\ c.rev = tab[t].rev
    BY <1>1, RequestNew DEF Ops
  <1>3. tab[t].step = 5 /\ Ready(tab[t]) /\ Command(t, f, "extra", c)
    BY DEF SaveAdditionalInformation, ExtraOffered
  <1> HIDE DEF c
  <1>4. Asked(c)
    BY <1>2 DEF Asked, New
  <1>5. Stage(c, tab[t])
    BY <1>2, <1>3 DEF Stage
  <1> QED BY <1>2, <1>3, <1>4, <1>5, CommandTight

-----------------------------------------------------------------------------
(* The draft is read. *)

LEMMA ReadTight ==
    ASSUME SInv, NEW t \in Tabs, NEW f \in Flights, Silent(flight, t),
           NEW p, Formed(t, p, draft, stored[t], sender), tab' = [tab EXCEPT ![t] = p],
           NEW c \in Sent, New(c), c.tab = t, flight' = [flight EXCEPT ![f] = c],
           \/ c.op = "read" /\ p.access = "checking"
           \/ c.op = "reread" /\ p.access = "signedIn" /\ p.busy /\ p.step = 1,
           UNCHANGED <<draft, stored, sender, known, left>>
    PROVE  SInv'
  <1> DEFINE tc == [tab EXCEPT ![t] = p]
  <1>1. LeftOK' /\ draft.rev \in Nat
    BY OfTab DEF LeftOK
  <1>2. tc[c.tab] = p
    BY OfTab
  <1> HIDE DEF tc
  <1>3. Asked(c)
    BY DEF Asked, New
  <1>4. Stage(c, p)
    BY DEF Stage
  <1>5. Flown(c, draft, tc)
    BY <1>1, <1>2, <1>3, <1>4, NewFlown
  <1> QED BY <1>1, <1>5, SendTight DEF tc

\* What a page remembers is read back from the store before it asks.
LEMMA CheckingFormed ==
    ASSUME SInv, NEW t \in Tabs, NEW p, Formed(t, p, draft, stored[t], sender), p.conflict = NoConflict
    PROVE  \A q : q = Checking(p, t) => Formed(t, q, draft, stored[t], sender) /\ q.access = "checking"
  <1>1. stored[t] \in Intent /\ Intended(t, stored[t], draft, sender) /\ p \in Form
    BY OfTab DEF Formed
  <1> SUFFICES ASSUME NEW q, q = Checking(p, t)
               PROVE  Formed(t, q, draft, stored[t], sender) /\ q.access = "checking"
    OBVIOUS
  <1>2. /\ q \in Form /\ q.access = "checking" /\ q.pending = stored[t]
        /\ q.text = p.text /\ q.base = p.base /\ q.own = p.own /\ q.rev = p.rev /\ q.step = p.step
        /\ q.type = p.type /\ q.conflict = p.conflict /\ q.failed = p.failed
    BY <1>1 DEF Checking, Form
  <1> QED BY <1>1, <1>2 DEF Formed, Compared

LEMMA ClosedFormed ==
    ASSUME SInv, NEW t \in Tabs, NEW i
    PROVE  Formed(t, Closed, draft, i, sender) /\ Closed.conflict = NoConflict
  <1>1. draft.rev \in Nat
    BY OfTab
  <1> DEFINE p == Closed
  <1>2. /\ p.access = "closed" /\ p.text = Empty /\ p.base = Empty /\ p.own = {} /\ p.rev = 0 /\ p.step = 1
        /\ p.type = "none" /\ p.conflict = NoConflict /\ p.pending = NoIntent /\ p.failed = FALSE
    BY DEF Closed
  <1>3. Differing(Empty, Empty) = {}
    BY DEF Differing
  <1>4. Shows(draft, 0, Empty, 1, "none")
    BY <1>1 DEF Shows, Current
  <1>5. Compared(p, draft)
    BY <1>2 DEF Compared, NoConflict
  <1>6. p \in Form
    BY ClosedIsForm
  <1> HIDE DEF p
  <1>7. Formed(t, p, draft, i, sender)
    BY <1>2, <1>3, <1>4, <1>5, <1>6 DEF Formed, Intended
  <1> QED BY <1>2, <1>7 DEF p

LEMMA OpenTight ==
    ASSUME SInv, NEW t \in Tabs, NEW f \in Flights, Open(t, f)
    PROVE  SInv'
  <1> DEFINE r == Request("read", t)
  <1> DEFINE c == [r EXCEPT !.rev = 0]
  <1> DEFINE p == Checking(Closed, t)
  <1>1. tab[t] \in Form /\ tab[t].access = "closed"
    BY OfTab DEF Open
  <1>2. Silent(flight, t)
    BY <1>1, IdleSilent
  <1>3. r \in Sent /\ New(r) /\ r.op = "read" /\ r.tab = t
    BY <1>1, RequestNew DEF Ops
  <1>4. Checking(Opened, t) = p
    BY DEF Checking, Opened, Closed
  <1>5. Formed(t, p, draft, stored[t], sender) /\ p.access = "checking"
    BY ClosedFormed, CheckingFormed
  <1>6. tab' = [tab EXCEPT ![t] = p] /\ flight' = [flight EXCEPT ![f] = c]
        /\ UNCHANGED <<draft, stored, sender, known, left>>
    BY <1>4 DEF Open
  <1> HIDE DEF r, p
  <1>7. c \in Sent /\ New(c) /\ c.op = "read" /\ c.tab = t
    BY <1>3 DEF Sent, New
  <1> HIDE DEF c
  <1> QED BY <1>2, <1>5, <1>6, <1>7, ReadTight

LEMMA RecheckTight ==
    ASSUME SInv, NEW t \in Tabs, NEW f \in Flights, Recheck(t, f)
    PROVE  SInv'
  <1> DEFINE c == Request("read", t)
  <1> DEFINE p == Checking(tab[t], t)
  <1>1. tab[t] \in Form /\ tab[t].access = "unavailable" /\ Formed(t, tab[t], draft, stored[t], sender)
    BY OfTab DEF Recheck
  <1>2. Silent(flight, t)
    BY <1>1, IdleSilent
  <1>3. c \in Sent /\ New(c) /\ c.op = "read" /\ c.tab = t
    BY <1>1, RequestNew DEF Ops
  <1>4. tab[t].conflict = NoConflict
    BY <1>1 DEF Formed
  <1>5. Formed(t, p, draft, stored[t], sender) /\ p.access = "checking"
    BY <1>1, <1>4, CheckingFormed
  <1>6. tab' = [tab EXCEPT ![t] = p] /\ flight' = [flight EXCEPT ![f] = c]
        /\ UNCHANGED <<draft, stored, sender, known, left>>
    BY OfTab DEF Recheck
  <1> HIDE DEF c, p
  <1> QED BY <1>2, <1>3, <1>5, <1>6, ReadTight

\* The comparison that waits for the service's copy has nothing to compare yet.
LEMMA UncomparedFormed ==
    ASSUME NEW t, NEW p, NEW d, NEW i, NEW sn, Formed(t, p, d, i, sn), p.step = 1, p.access = "signedIn",
           NEW q \in Form, NEW s \in {"none", "loading", "unavailable"},
           q.conflict = [NoConflict EXCEPT !.state = s],
           q.access \in {"signedIn", "signedOut"}, q.text = p.text, q.base = p.base, q.own = p.own, q.rev = p.rev,
           q.step = p.step, q.type = p.type, q.pending = p.pending, q.failed = p.failed
    PROVE  Formed(t, q, d, i, sn)
  <1>1. q.conflict.state # "ready"
    BY DEF NoConflict
  <1> QED BY <1>1 DEF Formed, Compared

LEMMA RetryConflictTight ==
    ASSUME SInv, NEW t \in Tabs, NEW f \in Flights, RetryConflict(t, f)
    PROVE  SInv'
  <1> DEFINE c == Request("reread", t)
  <1> DEFINE k == [NoConflict EXCEPT !.state = "loading"]
  <1> DEFINE p == [tab[t] EXCEPT !.busy = TRUE, !.conflict = k]
  <1>1. tab[t] \in Form /\ Ready(tab[t]) /\ tab[t].conflict.state = "unavailable"
        /\ Formed(t, tab[t], draft, stored[t], sender) /\ tab = [u \in Tabs |-> tab[u]]
    BY OfTab DEF RetryConflict
  <1>2. Silent(flight, t)
    BY <1>1, IdleSilent DEF Ready
  <1>3. c \in Sent /\ New(c) /\ c.op = "reread" /\ c.tab = t
    BY <1>1, RequestNew DEF Ops
  <1>4. tab[t].step = 1
    BY <1>1 DEF Formed, Form, NoConflict
  <1>5. tab' = [tab EXCEPT ![t] = p]
    BY <1>1 DEF RetryConflict, Form
  <1>6. flight' = [flight EXCEPT ![f] = c] /\ UNCHANGED <<draft, stored, sender, known, left>>
    BY DEF RetryConflict
  <1>7. k \in Conflict /\ k = [NoConflict EXCEPT !.state = "loading"]
    BY NoConflictIsConflict DEF Conflict
  <1> HIDE DEF c, k
  <1>8. /\ p \in Form /\ p.busy /\ p.conflict = k
        /\ p.access = tab[t].access /\ p.text = tab[t].text /\ p.base = tab[t].base /\ p.own = tab[t].own
        /\ p.rev = tab[t].rev /\ p.step = tab[t].step /\ p.type = tab[t].type
        /\ p.pending = tab[t].pending /\ p.failed = tab[t].failed
    BY <1>1, <1>7 DEF Form
  <1> HIDE DEF p
  <1>9. tab[t].access = "signedIn"
    BY <1>1 DEF Ready
  <1>10. Formed(t, p, draft, stored[t], sender)
    BY <1>1, <1>4, <1>7, <1>8, <1>9, UncomparedFormed
  <1> QED BY <1>2, <1>3, <1>4, <1>5, <1>6, <1>8, <1>9, <1>10, ReadTight

-----------------------------------------------------------------------------
(* What only the page does. *)

LEMMA PageTight ==
    ASSUME SInv, NEW t \in Tabs, NEW p, Formed(t, p, draft, stored[t], sender),
           \A g \in Flights : flight[g].live /\ flight[g].tab = t => Waited(flight[g], p),
           tab' = [tab EXCEPT ![t] = p], UNCHANGED <<draft, stored, flight, sender, known, left>>
    PROVE  SInv'
  BY PageStep DEF SInv, LeftOK

LEMMA IdleTight ==
    ASSUME SInv, NEW t \in Tabs, NEW p, Formed(t, p, draft, stored[t], sender), Ready(tab[t]),
           tab' = [tab EXCEPT ![t] = p], UNCHANGED <<draft, stored, flight, sender, known, left>>
    PROVE  SInv'
  <1>1. Silent(flight, t)
    BY IdleSilent DEF Ready
  <1> QED BY <1>1, PageTight DEF Silent

\* The requests a page waits for, while what they do not ask for changes.
LEMMA WaitedSame ==
    ASSUME NEW c, NEW p, Waited(c, p), NEW q,
           q.access = p.access, q.busy = p.busy, q.text = p.text, q.base = p.base, q.rev = p.rev, q.step = p.step,
           q.type = p.type, q.conflict = p.conflict, q.pending = p.pending, q.lists = p.lists \/ p.step # 3
    PROVE  Waited(c, q)
  <1>1. Stage(c, q)
    BY DEF Waited, Stage
  <1>2. Replied(c, q)
    BY DEF Waited, Replied
  <1> QED BY <1>1, <1>2 DEF Waited

LEMMA SameTight ==
    ASSUME SInv, NEW t \in Tabs, NEW p \in Form, tab' = [tab EXCEPT ![t] = p],
           p.access = tab[t].access, p.busy = tab[t].busy, p.text = tab[t].text, p.base = tab[t].base,
           p.own = tab[t].own, p.rev = tab[t].rev, p.step = tab[t].step, p.type = tab[t].type,
           p.conflict = tab[t].conflict, p.pending = tab[t].pending, p.failed = tab[t].failed,
           p.lists = tab[t].lists \/ tab[t].step # 3 \/ tab[t].lists # "ready",
           UNCHANGED <<draft, stored, flight, sender, known, left>>
    PROVE  SInv'
  <1>1. Formed(t, p, draft, stored[t], sender)
    BY OfTab, FormedSame
  <1>2. ASSUME NEW g \in Flights, flight[g].live, flight[g].tab = t PROVE Waited(flight[g], p)
    <2>1. flight[g] # NoFlight
      BY <1>2, NoFlightFlown
    <2>2. Waited(flight[g], tab[t]) /\ flight[g].op \in Ops
      BY <1>2, <2>1, OfFlight DEF SInv, Asked, Sent
    <2>3. CASE p.lists = tab[t].lists \/ tab[t].step # 3
      BY <2>2, <2>3, WaitedSame
    <2>4. CASE tab[t].step = 3 /\ tab[t].lists # "ready"
      <3>1. flight[g].op = "read"
        BY <2>2, <2>4 DEF Waited, Stage, Ops
      <3>2. Stage(flight[g], p)
        BY <3>1 DEF Stage
      <3>3. Replied(flight[g], p)
        BY <2>2 DEF Waited, Replied
      <3> QED BY <2>2, <3>1, <3>2, <3>3 DEF Waited
    <2> QED BY <2>3, <2>4
  <1> QED BY <1>1, <1>2, PageTight

LEMMA FillTight ==
    ASSUME SInv, NEW t \in Tabs, Fill(t)
    PROVE  SInv'
  <1> DEFINE v == ~tab[t].entered
  <1> DEFINE p == [tab[t] EXCEPT !.entered = v]
  <1>1. tab[t] \in Form /\ tab = [u \in Tabs |-> tab[u]]
    BY OfTab
  <1>2. v \in BOOLEAN
    BY <1>1 DEF Form
  <1>3. tab' = [tab EXCEPT ![t] = p]
    BY <1>1 DEF Fill, Form
  <1>4. UNCHANGED <<draft, stored, flight, sender, known, left>>
    BY DEF Fill
  <1> HIDE DEF v
  <1>5. p \in Form /\ p.lists = tab[t].lists
        /\ p.access = tab[t].access /\ p.busy = tab[t].busy /\ p.text = tab[t].text /\ p.base = tab[t].base
        /\ p.own = tab[t].own /\ p.rev = tab[t].rev /\ p.step = tab[t].step /\ p.type = tab[t].type
        /\ p.conflict = tab[t].conflict /\ p.pending = tab[t].pending /\ p.failed = tab[t].failed
    BY <1>1, <1>2 DEF Form
  <1> HIDE DEF p
  <1> QED BY <1>3, <1>4, <1>5, SameTight

LEMMA ConfirmTight ==
    ASSUME SInv, NEW t \in Tabs, Confirm(t)
    PROVE  SInv'
  <1> DEFINE v == ~tab[t].confirmed
  <1> DEFINE p == [tab[t] EXCEPT !.confirmed = v]
  <1>1. tab[t] \in Form /\ tab = [u \in Tabs |-> tab[u]]
    BY OfTab
  <1>2. v \in BOOLEAN
    BY <1>1 DEF Form
  <1>3. tab' = [tab EXCEPT ![t] = p]
    BY <1>1 DEF Confirm, Form
  <1>4. UNCHANGED <<draft, stored, flight, sender, known, left>>
    BY DEF Confirm
  <1> HIDE DEF v
  <1>5. p \in Form /\ p.lists = tab[t].lists
        /\ p.access = tab[t].access /\ p.busy = tab[t].busy /\ p.text = tab[t].text /\ p.base = tab[t].base
        /\ p.own = tab[t].own /\ p.rev = tab[t].rev /\ p.step = tab[t].step /\ p.type = tab[t].type
        /\ p.conflict = tab[t].conflict /\ p.pending = tab[t].pending /\ p.failed = tab[t].failed
    BY <1>1, <1>2 DEF Form
  <1> HIDE DEF p
  <1> QED BY <1>3, <1>4, <1>5, SameTight

LEMMA BackToEditTight ==
    ASSUME SInv, NEW t \in Tabs, BackToEdit(t)
    PROVE  SInv'
  <1> DEFINE v == FALSE
  <1> DEFINE p == [tab[t] EXCEPT !.confirmed = v]
  <1>1. tab[t] \in Form /\ tab = [u \in Tabs |-> tab[u]]
    BY OfTab
  <1>2. v \in BOOLEAN
    BY <1>1 DEF Form
  <1>3. tab' = [tab EXCEPT ![t] = p]
    BY <1>1 DEF BackToEdit, Form
  <1>4. UNCHANGED <<draft, stored, flight, sender, known, left>>
    BY DEF BackToEdit
  <1> HIDE DEF v
  <1>5. p \in Form /\ p.lists = tab[t].lists
        /\ p.access = tab[t].access /\ p.busy = tab[t].busy /\ p.text = tab[t].text /\ p.base = tab[t].base
        /\ p.own = tab[t].own /\ p.rev = tab[t].rev /\ p.step = tab[t].step /\ p.type = tab[t].type
        /\ p.conflict = tab[t].conflict /\ p.pending = tab[t].pending /\ p.failed = tab[t].failed
    BY <1>1, <1>2 DEF Form
  <1> HIDE DEF p
  <1> QED BY <1>3, <1>4, <1>5, SameTight

\* The lists of a stage that nothing was sent from yet change.
LEMMA ListsTight ==
    ASSUME SInv, NEW t \in Tabs, NEW v \in {"ready", "error"}, tab' = [tab EXCEPT ![t].lists = v],
           tab[t].step # 3 \/ tab[t].lists = "none", UNCHANGED <<draft, stored, flight, sender, known, left>>
    PROVE  SInv'
  <1> DEFINE p == [tab[t] EXCEPT !.lists = v]
  <1>1. tab[t] \in Form /\ tab = [u \in Tabs |-> tab[u]]
    BY OfTab
  <1>2. tab' = [tab EXCEPT ![t] = p]
    BY <1>1 DEF Form
  <1>3. p \in Form
        /\ p.access = tab[t].access /\ p.busy = tab[t].busy /\ p.text = tab[t].text /\ p.base = tab[t].base
        /\ p.own = tab[t].own /\ p.rev = tab[t].rev /\ p.step = tab[t].step /\ p.type = tab[t].type
        /\ p.conflict = tab[t].conflict /\ p.pending = tab[t].pending /\ p.failed = tab[t].failed
    BY <1>1 DEF Form
  <1> HIDE DEF p
  <1> QED BY <1>2, <1>3, SameTight

LEMMA ProvincesEndTight ==
    ASSUME SInv, NEW t \in Tabs, ProvincesEnd(t)
    PROVE  SInv'
  <1>1. PICK v \in {"ready", "error"} : tab' = [tab EXCEPT ![t].lists = v]
    BY DEF ProvincesEnd
  <1>2. tab[t].step # 3 /\ UNCHANGED <<draft, stored, flight, sender, known, left>>
    BY DEF ProvincesEnd
  <1> QED BY <1>1, <1>2, ListsTight

LEMMA CitiesFailTight ==
    ASSUME SInv, NEW t \in Tabs, CitiesFail(t)
    PROVE  SInv'
  <1>1. tab[t].step # 3 /\ tab' = [tab EXCEPT ![t].lists = "error"]
        /\ UNCHANGED <<draft, stored, flight, sender, known, left>>
    BY DEF CitiesFail
  <1> QED BY <1>1, ListsTight

LEMMA CategoriesEndTight ==
    ASSUME SInv, NEW t \in Tabs, CategoriesEnd(t)
    PROVE  SInv'
  <1>1. tab[t].access = "signedIn" /\ tab[t].step = 3 /\ tab[t].lists = "none"
        /\ UNCHANGED <<draft, stored, flight, sender, known, left>>
    BY DEF CategoriesEnd
  <1>2. CASE \E result \in {"ready", "error"} : tab' = [tab EXCEPT ![t].lists = result]
    BY <1>1, <1>2, ListsTight
  <1>3. CASE tab' = [tab EXCEPT ![t].access = "signedOut"]
    <2> DEFINE p == [tab[t] EXCEPT !.access = "signedOut"]
    <2>1. tab[t] \in Form /\ tab = [u \in Tabs |-> tab[u]] /\ Formed(t, tab[t], draft, stored[t], sender)
      BY OfTab
    <2>2. tab' = [tab EXCEPT ![t] = p]
      BY <1>3, <2>1 DEF Form
    <2>3. /\ p \in Form /\ p.access = "signedOut"
          /\ p.text = tab[t].text /\ p.base = tab[t].base /\ p.own = tab[t].own /\ p.rev = tab[t].rev
          /\ p.step = tab[t].step /\ p.type = tab[t].type /\ p.conflict = tab[t].conflict
          /\ p.pending = tab[t].pending /\ p.failed = tab[t].failed
      BY <2>1 DEF Form
    <2> HIDE DEF p
    <2>4. Formed(t, p, draft, stored[t], sender)
      BY <1>1, <2>1, <2>3 DEF Formed, Compared
    <2>5. ASSUME NEW g \in Flights, flight[g].live, flight[g].tab = t PROVE FALSE
      <3>1. flight[g] # NoFlight
        BY <2>5, NoFlightFlown
      <3>2. Waited(flight[g], tab[t]) /\ flight[g].op \in Ops
        BY <2>5, <3>1, OfFlight DEF SInv, Asked, Sent
      <3> QED BY <1>1, <3>2 DEF Waited, Stage, Ops
    <2> QED BY <1>1, <2>2, <2>4, <2>5, PageTight
  <1> QED BY <1>2, <1>3 DEF CategoriesEnd

LEMMA UpdateTight ==
    ASSUME SInv, NEW t \in Tabs, NEW x \in Fields, Update(t, x)
    PROVE  SInv'
  <1> DEFINE w == [tab[t].text EXCEPT ![x] = t]
  <1> DEFINE o == tab[t].own \cup {x}
  <1> DEFINE p == [tab[t] EXCEPT !.text = w, !.own = o]
  <1>1. tab[t] \in Form /\ tab = [u \in Tabs |-> tab[u]] /\ Formed(t, tab[t], draft, stored[t], sender)
    BY OfTab
  <1>2. CanType(tab[t]) /\ UNCHANGED <<draft, stored, flight, sender, known, left>>
    BY DEF Update
  <1>3. tab' = [tab EXCEPT ![t] = p]
    <2>1. tab[t] = [n \in DOMAIN tab[t] |-> tab[t][n]] /\ "text" \in DOMAIN tab[t] /\ "own" \in DOMAIN tab[t]
      BY <1>1 DEF Form
    <2>2. tab' = [tab EXCEPT ![t] = [[tab[t] EXCEPT !.text = w] EXCEPT !.own = o]]
      BY <1>1, <2>1 DEF Update
    <2>3. [[tab[t] EXCEPT !.text = w] EXCEPT !.own = o] = p
      OBVIOUS
    <2> QED BY <2>2, <2>3
  <1>4. w \in Text /\ o \in SUBSET Fields /\ x \in o /\ tab[t].own \subseteq o
        /\ \A y \in Fields : y # x => w[y] = tab[t].text[y]
    BY <1>1 DEF Form, Text, Texts
  <1> HIDE DEF w, o
  <1>5. /\ p \in Form /\ p.text = w /\ p.own = o
        /\ p.access = tab[t].access /\ p.base = tab[t].base /\ p.rev = tab[t].rev /\ p.step = tab[t].step
        /\ p.type = tab[t].type /\ p.conflict = tab[t].conflict /\ p.pending = tab[t].pending
        /\ p.failed = tab[t].failed
    BY <1>1, <1>4 DEF Form
  <1> HIDE DEF p
  <1>6. tab[t].step = 1 /\ tab[t].conflict = NoConflict /\ Ready(tab[t])
    BY <1>1, <1>2 DEF CanType, Form
  <1>7. Differing(p.text, p.base) \subseteq p.own
    BY <1>1, <1>4, <1>5 DEF Formed, Differing
  <1>8. Compared(p, draft)
    BY <1>5, <1>6 DEF Compared, NoConflict
  <1>9. Formed(t, p, draft, stored[t], sender)
    BY <1>1, <1>5, <1>6, <1>7, <1>8 DEF Formed
  <1> QED BY <1>2, <1>3, <1>6, <1>9, IdleTight

-----------------------------------------------------------------------------
(* The comparison of a conflict. *)

LEMMA ConflictOf ==
    ASSUME SInv, NEW t \in Tabs, Resolvable(tab[t])
    PROVE  /\ tab[t] \in Form /\ tab[t].conflict \in Conflict /\ tab[t].step = 1 /\ Ready(tab[t])
           /\ tab[t].access = "signedIn" /\ tab[t].conflict.rev > 0
           /\ Shows(draft, tab[t].conflict.rev, tab[t].conflict.text, 1, "none")
           /\ OwnOnly(tab[t].conflict.choice, tab[t].conflict.picked, tab[t].text, tab[t].base)
  <1>1. tab[t] \in Form /\ Formed(t, tab[t], draft, stored[t], sender)
    BY OfTab
  <1>2. tab[t].conflict.state = "ready" /\ Ready(tab[t]) /\ tab[t].access = "signedIn"
    BY DEF Resolvable, Ready
  <1>3. tab[t].step = 1
    BY <1>1, <1>2 DEF Formed, Form, NoConflict
  <1>4. tab[t].conflict \in Conflict
    BY <1>1 DEF Form
  <1> QED BY <1>1, <1>2, <1>3, <1>4 DEF Formed, Compared

LEMMA ShowsStep ==
    ASSUME NEW d, NEW r, NEW text, Shows(d, r, text, 1, "none"), NEW step, step = 1, NEW type
    PROVE  Shows(d, r, text, step, type)
  BY DEF Shows, Agrees

LEMMA TakenFormed ==
    ASSUME SInv, NEW t \in Tabs, Resolvable(tab[t]), NEW text \in Text, NEW own \in SUBSET Fields,
           Differing(text, tab[t].conflict.text) \subseteq own
    PROVE  \A q : q = Taken(tab[t], text, own) => Formed(t, q, draft, stored[t], sender)
  <1> SUFFICES ASSUME NEW q, q = Taken(tab[t], text, own) PROVE Formed(t, q, draft, stored[t], sender)
    OBVIOUS
  <1>1. Formed(t, tab[t], draft, stored[t], sender)
    BY OfTab
  <1> DEFINE p == tab[t]
  <1>2. /\ p \in Form /\ p.conflict \in Conflict /\ p.step = 1 /\ p.access = "signedIn"
        /\ p.conflict.rev > 0 /\ Shows(draft, p.conflict.rev, p.conflict.text, 1, "none")
    BY ConflictOf
  <1>3. q = Taken(p, text, own) /\ Formed(t, p, draft, stored[t], sender) /\ Differing(text, p.conflict.text) \subseteq own
    BY <1>1
  <1> HIDE DEF p
  <1>4. p.conflict.text \in Text /\ p.conflict.rev \in Nat
    BY <1>2 DEF Conflict
  <1>5. /\ q \in Form /\ q.text = text /\ q.base = p.conflict.text /\ q.own = own /\ q.rev = p.conflict.rev
        /\ q.conflict = NoConflict /\ q.access = p.access /\ q.step = p.step /\ q.type = p.type
        /\ q.pending = p.pending /\ q.failed = p.failed
    BY <1>2, <1>3, <1>4, NoConflictIsConflict DEF Taken, Form
  <1>6. Shows(draft, q.rev, q.base, q.step, q.type)
    BY <1>2, <1>5, ShowsStep
  <1>7. Compared(q, draft)
    BY <1>5 DEF Compared, NoConflict
  <1>8. p.pending = NoIntent
    BY <1>2, <1>3 DEF Formed
  <1> QED BY <1>2, <1>3, <1>4, <1>5, <1>6, <1>7, <1>8 DEF Formed

LEMMA ChooseServerCopyTight ==
    ASSUME SInv, NEW t \in Tabs, ChooseServerCopy(t)
    PROVE  SInv'
  <1>1. Resolvable(tab[t]) /\ UNCHANGED <<draft, stored, flight, sender, known, left>>
    BY DEF ChooseServerCopy
  <1>2. tab[t].conflict.text \in Text /\ Ready(tab[t])
    BY <1>1, ConflictOf DEF Conflict
  <1>3. Differing(tab[t].conflict.text, tab[t].conflict.text) \subseteq {}
    BY DEF Differing
  <1> DEFINE q == ServerCopy(tab[t])
  <1>4. tab' = [tab EXCEPT ![t] = q]
    BY OfTab DEF ChooseServerCopy
  <1>5. Formed(t, q, draft, stored[t], sender)
    BY <1>1, <1>2, <1>3, TakenFormed DEF ServerCopy
  <1> HIDE DEF q
  <1> QED BY <1>1, <1>2, <1>4, <1>5, IdleTight

LEMMA ChooseMyCopyTight ==
    ASSUME SInv, NEW t \in Tabs, ChooseMyCopy(t)
    PROVE  SInv'
  <1>1. Resolvable(tab[t]) /\ UNCHANGED <<draft, stored, flight, sender, known, left>>
    BY DEF ChooseMyCopy
  <1>2. tab[t].text \in Text /\ Ready(tab[t])
    BY <1>1, ConflictOf DEF Form
  <1>3. Differing(tab[t].text, tab[t].conflict.text) \in SUBSET Fields
    BY DEF Differing
  <1> DEFINE q == MyCopy(tab[t])
  <1>4. tab' = [tab EXCEPT ![t] = q]
    BY OfTab DEF ChooseMyCopy
  <1>5. Formed(t, q, draft, stored[t], sender)
    BY <1>1, <1>2, <1>3, TakenFormed DEF MyCopy
  <1> HIDE DEF q
  <1> QED BY <1>1, <1>2, <1>4, <1>5, IdleTight

\* What a combination keeps of the tab's text, the applicant typed or picked.
LEMMA ChooseCombinedCopyTight ==
    ASSUME SInv, NEW t \in Tabs, ChooseCombinedCopy(t)
    PROVE  SInv'
  <1> DEFINE p == tab[t]
  <1> DEFINE w == [x \in Fields |-> IF p.conflict.choice[x] = "mine" THEN p.text[x] ELSE p.conflict.text[x]]
  <1> DEFINE o == p.own \cup p.conflict.picked
  <1> DEFINE q == CombinedCopy(p)
  <1>1. Resolvable(p) /\ UNCHANGED <<draft, stored, flight, sender, known, left>>
    BY DEF ChooseCombinedCopy
  <1>2. /\ p \in Form /\ p.conflict \in Conflict /\ Ready(p)
        /\ OwnOnly(p.conflict.choice, p.conflict.picked, p.text, p.base)
    BY <1>1, ConflictOf
  <1>3. Differing(p.text, p.base) \subseteq p.own
    BY OfTab DEF Formed
  <1>4. w \in Text /\ o \in SUBSET Fields
    BY <1>2 DEF Form, Conflict, Text
  <1>5. Differing(w, p.conflict.text) \subseteq o
    <2> SUFFICES ASSUME NEW x \in Fields, w[x] # p.conflict.text[x] PROVE x \in o
      BY DEF Differing
    <2>1. p.conflict.choice[x] = "mine"
      OBVIOUS
    <2>2. x \in p.conflict.picked \/ p.text[x] # p.base[x]
      BY <1>2, <2>1 DEF OwnOnly
    <2> QED BY <1>3, <2>2 DEF Differing
  <1>6. tab' = [tab EXCEPT ![t] = q]
    BY OfTab DEF ChooseCombinedCopy
  <1>7. q = Taken(p, w, o)
    BY DEF CombinedCopy
  <1> HIDE DEF w, o, q
  <1>8. Formed(t, q, draft, stored[t], sender)
    BY <1>1, <1>4, <1>5, <1>7, TakenFormed
  <1> QED BY <1>1, <1>2, <1>6, <1>8, IdleTight

LEMMA SelectConflictFieldTight ==
    ASSUME SInv, NEW t \in Tabs, NEW x \in Fields, NEW choice \in {"mine", "server"}, SelectConflictField(t, x, choice)
    PROVE  SInv'
  <1> DEFINE p == tab[t]
  <1> DEFINE h == [p.conflict.choice EXCEPT ![x] = choice]
  <1> DEFINE k == IF choice = "mine" THEN p.conflict.picked \cup {x} ELSE p.conflict.picked \ {x}
  <1> DEFINE n == [p.conflict EXCEPT !.choice = h, !.picked = k]
  <1> DEFINE q == [p EXCEPT !.conflict = n]
  <1>1. Resolvable(p) /\ UNCHANGED <<draft, stored, flight, sender, known, left>>
    BY DEF SelectConflictField
  <1>2. /\ p \in Form /\ p.conflict \in Conflict /\ Ready(p) /\ p.step = 1 /\ p.access = "signedIn"
        /\ p.conflict.rev > 0 /\ Shows(draft, p.conflict.rev, p.conflict.text, 1, "none")
        /\ OwnOnly(p.conflict.choice, p.conflict.picked, p.text, p.base)
    BY <1>1, ConflictOf
  <1>3. Formed(t, p, draft, stored[t], sender) /\ tab = [u \in Tabs |-> tab[u]]
    BY OfTab
  <1>4. tab' = [tab EXCEPT ![t] = q]
    <2>1. tab' = [tab EXCEPT ![t].conflict.choice[x] = choice,
                             ![t].conflict.picked = IF choice = "mine" THEN @ \cup {x} ELSE @ \ {x}]
      BY DEF SelectConflictField
    <2> DEFINE m == [p.conflict EXCEPT !.choice = h]
    <2>2. tab' = [tab EXCEPT ![t] = [[p EXCEPT !.conflict = m] EXCEPT !.conflict = [m EXCEPT !.picked = k]]]
      BY <1>2, <1>3, <2>1 DEF Form, Conflict
    <2>3. [m EXCEPT !.picked = k] = n
      BY <1>2 DEF Conflict
    <2> HIDE DEF m, n, h, k
    <2>4. [[p EXCEPT !.conflict = m] EXCEPT !.conflict = n] = [p EXCEPT !.conflict = n]
      BY <1>2 DEF Form
    <2> QED BY <2>2, <2>3, <2>4
  <1>5. h \in [Fields -> {"mine", "server", "open"}] /\ k \in SUBSET Fields
    BY <1>2 DEF Conflict
  <1>6. OwnOnly(h, k, p.text, p.base)
    BY <1>2 DEF OwnOnly, Conflict
  <1> HIDE DEF h, k
  <1>7. n \in Conflict /\ n.choice = h /\ n.picked = k /\ n.rev = p.conflict.rev /\ n.text = p.conflict.text
    BY <1>2, <1>5 DEF Conflict
  <1> HIDE DEF n
  <1>8. /\ q \in Form /\ q.conflict = n
        /\ q.access = p.access /\ q.text = p.text /\ q.base = p.base /\ q.own = p.own /\ q.rev = p.rev
        /\ q.step = p.step /\ q.type = p.type /\ q.pending = p.pending /\ q.failed = p.failed
    BY <1>2, <1>7 DEF Form
  <1> HIDE DEF p, q
  <1>9. Compared(q, draft)
    BY <1>2, <1>6, <1>7, <1>8 DEF Compared
  <1>10. Formed(t, q, draft, stored[t], sender)
    BY <1>2, <1>3, <1>8, <1>9 DEF Formed
  <1> QED BY <1>1, <1>2, <1>4, <1>10, IdleTight DEF p

-----------------------------------------------------------------------------
(* The submission is sent, and a page is left. *)

\* A form on its last step only remembers a submission of its own revision.
LEMMA RememberedHere ==
    ASSUME SInv, NEW t \in Tabs, CanSubmit(tab[t]), NEW intent \in Intents(tab[t])
    PROVE  /\ intent \in Intent /\ intent.key \in Keys /\ intent.rev = tab[t].rev
           /\ intent = [key |-> intent.key, rev |-> tab[t].rev]
           /\ sender[intent.key] \in {t, NoTab}
           /\ stored[t] = NoIntent \/ stored[t] = intent
           /\ Storable(tab[t], t, intent)
           /\ tab[t].step = 6 /\ tab[t].access = "signedIn" /\ AtEnd(draft, tab[t].rev)
  <1> DEFINE p == tab[t]
  <1>1. p \in Form /\ Formed(t, p, draft, stored[t], sender) /\ stored[t] \in Intent
    BY OfTab
  <1>2. p.step = 6 /\ p.access = "signedIn" /\ p.rev \in Nat
    BY <1>1 DEF CanSubmit, ReviewOffered, Ready, Form
  <1>3. AtEnd(draft, p.rev)
    BY <1>1, <1>2 DEF Formed, Shows
  <1>4. p.pending # NoIntent => p.pending.rev = p.rev
    BY <1>1, <1>2 DEF Formed
  <1>5. stored[t] = NoIntent \/ stored[t] = p.pending
    BY <1>1, <1>2 DEF Formed
  <1>6. CASE p.pending # NoIntent
    <2>1. intent = p.pending
      BY <1>4, <1>6 DEF Intents
    <2>2. intent.key \in Keys /\ sender[intent.key] = t
      BY <1>1, <1>6, <2>1 DEF Formed, Intended
    <2>3. intent \in Intent
      BY <1>1, <2>1 DEF Form
    <2>4. intent = [key |-> intent.key, rev |-> p.rev]
      BY <1>4, <1>6, <2>1, <2>3 DEF Intent
    <2> QED BY <1>2, <1>3, <1>4, <1>5, <1>6, <2>1, <2>2, <2>3, <2>4 DEF Storable, Persistable
  <1>7. CASE p.pending = NoIntent
    <2>1. PICK k \in Keys : sender[k] = NoTab /\ intent = [key |-> k, rev |-> p.rev]
      BY <1>7 DEF Intents, FreshIntents
    <2>2. intent \in Intent /\ intent.key = k /\ intent.rev = p.rev
      BY <1>2, <2>1 DEF Intent
    <2> QED BY <1>2, <1>3, <1>5, <1>7, <2>1, <2>2 DEF Storable, Persistable
  <1> QED BY <1>6, <1>7

LEMMA SubmitForReviewTight ==
    ASSUME SInv, NEW t \in Tabs, NEW f \in Flights, NEW intent \in Intents(tab[t]), SubmitForReview(t, f, intent)
    PROVE  SInv'
  <1> DEFINE p == [tab[t] EXCEPT !.pending = intent, !.busy = TRUE]
  <1> DEFINE r == Request("submit", t)
  <1> DEFINE c == [r EXCEPT !.key = intent.key]
  <1> DEFINE sm == [sender EXCEPT ![intent.key] = t]
  <1>1. CanSubmit(tab[t]) /\ left.commands > 0 /\ left' = [left EXCEPT !.commands = @ - 1]
        /\ UNCHANGED <<draft, known>>
    BY DEF SubmitForReview, Commands
  <1>2. /\ intent \in Intent /\ intent.key \in Keys /\ intent.rev = tab[t].rev
        /\ intent = [key |-> intent.key, rev |-> tab[t].rev]
        /\ sender[intent.key] \in {t, NoTab}
        /\ stored[t] = NoIntent \/ stored[t] = intent
        /\ Storable(tab[t], t, intent)
        /\ tab[t].step = 6 /\ tab[t].access = "signedIn" /\ AtEnd(draft, tab[t].rev)
    BY <1>1, RememberedHere
  <1>3. tab[t] \in Form /\ Formed(t, tab[t], draft, stored[t], sender) /\ tab = [u \in Tabs |-> tab[u]]
        /\ Tight(draft, tab, stored, flight, sender, known) /\ LeftOK /\ draft.rev \in Nat
    BY OfTab
  <1>4. sender \in [Keys -> Tabs \cup {NoTab}] /\ known \in SUBSET Keys /\ Kept(stored, sender, known)
        /\ stored \in [Tabs -> Intent]
    BY <1>3 DEF Tight, Shaped
  <1>5. Silent(flight, t)
    BY <1>1, IdleSilent DEF CanSubmit, Ready
  <1>6. stored' = [stored EXCEPT ![t] = intent] /\ sender' = sm /\ flight' = [flight EXCEPT ![f] = c]
    BY <1>2 DEF SubmitForReview
  <1>7. tab' = [tab EXCEPT ![t] = p]
    <2>1. tab' = [tab EXCEPT ![t].pending = intent, ![t].busy = TRUE]
      BY <1>2 DEF SubmitForReview
    <2> QED BY <1>3, <2>1 DEF Form
  <1>8. r \in Sent /\ New(r) /\ r.op = "submit" /\ r.tab = t /\ r.rev = tab[t].rev
    BY <1>3, RequestNew DEF Ops
  <1> HIDE DEF r
  <1>9. c \in Sent /\ New(c) /\ c.op = "submit" /\ c.tab = t /\ c.rev = tab[t].rev /\ c.key = intent.key
    BY <1>2, <1>8 DEF Sent, New
  <1>10. /\ p \in Form /\ p.busy /\ p.pending = intent
         /\ p.access = tab[t].access /\ p.text = tab[t].text /\ p.base = tab[t].base /\ p.own = tab[t].own
         /\ p.rev = tab[t].rev /\ p.step = tab[t].step /\ p.type = tab[t].type /\ p.conflict = tab[t].conflict
         /\ p.failed = tab[t].failed
    BY <1>2, <1>3 DEF Form
  <1>11. sm \in [Keys -> Tabs \cup {NoTab}] /\ sm[intent.key] = t
         /\ \A k \in Keys : k # intent.key => sm[k] = sender[k]
    BY <1>2, <1>4
  <1> HIDE DEF p, c, sm
  <1>12. Others(sender, sm, t)
    BY <1>2, <1>11 DEF Others
  <1>13. Intended(t, intent, draft, sm)
    BY <1>2, <1>11 DEF Intended
  <1>14. Compared(p, draft)
    BY <1>3, <1>10 DEF Formed, Compared
  <1>15. Formed(t, p, draft, intent, sm)
    BY <1>2, <1>3, <1>10, <1>13, <1>14 DEF Formed
  <1>16. Asked(c)
    BY <1>2, <1>9 DEF Asked, New
  <1>17. Stage(c, p)
    BY <1>2, <1>9, <1>10 DEF Stage
  <1> DEFINE tc == [tab EXCEPT ![t] = p]
  <1>18. tc[c.tab] = p
    BY <1>3, <1>9
  <1> HIDE DEF tc
  <1>19. Flown(c, draft, tc)
    BY <1>2, <1>3, <1>9, <1>10, <1>16, <1>17, <1>18, NewFlown
  <1> DEFINE sc == [stored EXCEPT ![t] = intent]
  <1>20. sc[t] = intent /\ \A u \in Tabs : u # t => sc[u] = stored[u]
    BY <1>4
  <1> HIDE DEF sc
  <1>21. Kept(sc, sm, known)
    <2> SUFFICES ASSUME NEW k \in Keys, sm[k] # NoTab, k \notin known PROVE sc[sm[k]].key = k
      BY DEF Kept
    <2>1. CASE k = intent.key
      BY <1>11, <1>20, <2>1
    <2>2. CASE k # intent.key
      <3>1. sm[k] = sender[k] /\ sender[k] \in Tabs /\ stored[sender[k]].key = k
        BY <1>4, <1>11, <2>2 DEF Kept
      <3>2. sender[k] # t
        BY <1>2, <2>2, <3>1, SellerAssumption DEF NoIntent
      <3> QED BY <1>20, <3>1, <3>2
    <2> QED BY <2>1, <2>2
  <1>22. Quiet(flight, t, f)
    BY <1>5, SilentQuiet
  <1>23. c \in Sent \cup {NoFlight} /\ (c.live => c.tab = t)
    BY <1>9
  <1>24. Tight(draft, tc, sc, [flight EXCEPT ![f] = c], sm, known)
    BY <1>2, <1>3, <1>4, <1>11, <1>12, <1>13, <1>15, <1>19, <1>21, <1>22, <1>23, TabStep DEF tc, sc
  <1>25. LeftOK'
    BY <1>1, <1>3, LeftDown
  <1> QED BY <1>1, <1>6, <1>7, <1>24, <1>25 DEF SInv, tc, sc

\* A request left behind is waited for by no form.
LEMMA AbandonedFlown ==
    ASSUME NEW c, NEW d, NEW tb, Flown(c, d, tb), NEW live \in BOOLEAN, c # NoFlight
    PROVE  \A r : r = Abandoned(c, live) =>
              /\ r \in Sent \cup {NoFlight} /\ ~r.live
              /\ \A tc : Flown(r, d, tc)
  <1>1. Asked(c) /\ c \in Sent /\ Shows(d, c.copy.rev, c.copy.text, c.copy.step, c.copy.type)
    BY DEF Flown, Asked
  <1> SUFFICES ASSUME NEW r, r = Abandoned(c, live)
               PROVE  r \in Sent \cup {NoFlight} /\ ~r.live /\ \A tc : Flown(r, d, tc)
    OBVIOUS
  <1>2. CASE r = NoFlight
    BY <1>2, NoFlightFlown
  <1>3. CASE r = [c EXCEPT !.live = FALSE] /\ c.op = "submit" /\ c.waits
    <2>1. /\ r \in Sent /\ ~r.live /\ r.op = c.op /\ r.waits = c.waits /\ r.copy = c.copy /\ r.key = c.key
      BY <1>1, <1>3 DEF Sent
    <2>2. Asked(r)
      BY <1>1, <1>3, <2>1 DEF Asked
    <2> QED BY <1>1, <2>1, <2>2 DEF Flown
  <1>4. CASE r = [c EXCEPT !.waits = FALSE, !.live = FALSE] /\ c.runs /\ c.op \notin {"read", "reread"}
    <2>1. /\ r \in Sent /\ ~r.live /\ r.op = c.op /\ r.runs = c.runs /\ r.copy = c.copy /\ r.key = c.key
          /\ r.text = c.text /\ r.with = c.with
      BY <1>1, <1>4 DEF Sent
    <2>2. Asked(r)
      BY <1>1, <1>4, <2>1 DEF Asked
    <2> QED BY <1>1, <2>1, <2>2 DEF Flown
  <1> QED BY <1>2, <1>3, <1>4 DEF Abandoned

LEMMA LeaveTight ==
    ASSUME SInv, NEW t \in Tabs, NEW live \in BOOLEAN, Leave(t, live)
    PROVE  SInv'
  <1> DEFINE tc == [tab EXCEPT ![t] = Closed]
  <1> DEFINE fc == [f \in Flights |-> IF flight[f].tab = t THEN Abandoned(flight[f], live) ELSE flight[f]]
  <1>1. Tight(draft, tab, stored, flight, sender, known) /\ LeftOK /\ Shaped(tab, stored, flight, sender, known)
    BY OfTab DEF Tight
  <1>2. tab' = tc /\ flight' = fc /\ UNCHANGED <<draft, stored, sender, known, left>>
    BY DEF Leave
  <1>3. tc[t] = Closed /\ (\A u \in Tabs : u # t => tc[u] = tab[u]) /\ tc \in [Tabs -> Form]
    BY <1>1, ClosedIsForm DEF Shaped
  <1>4. \A f \in Flights : fc[f] = IF flight[f].tab = t THEN Abandoned(flight[f], live) ELSE flight[f]
    OBVIOUS
  <1>a. fc = [f \in Flights |-> fc[f]]
    OBVIOUS
  <1> HIDE DEF tc, fc
  <1>5. ASSUME NEW f \in Flights
        PROVE  fc[f] \in Sent \cup {NoFlight} /\ Flown(fc[f], draft, tc)
               /\ (fc[f].live => fc[f] = flight[f] /\ flight[f].live)
    <2>1. Flown(flight[f], draft, tab) /\ flight[f] \in Sent \cup {NoFlight}
      BY <1>1 DEF Tight, AllFlown, Shaped
    <2>2. CASE flight[f].tab = t
      <3>1. flight[f] # NoFlight
        BY <2>2, SellerAssumption DEF NoFlight
      <3>2. fc[f] = Abandoned(flight[f], live)
        BY <1>4, <2>2
      <3> QED BY <2>1, <3>1, <3>2, AbandonedFlown
    <2>3. CASE flight[f].tab # t
      <3>1. fc[f] = flight[f]
        BY <1>4, <2>3
      <3>2. flight[f].live => flight[f].tab \in Tabs
        BY <2>1, NoFlightFlown DEF Sent
      <3>3. flight[f].live => tc[flight[f].tab] = tab[flight[f].tab]
        BY <1>3, <2>3, <3>2
      <3>4. Flown(flight[f], draft, tc)
        BY <2>1, <3>3, FlownElsewhere
      <3> QED BY <2>1, <3>1, <3>4
    <2> QED BY <2>2, <2>3
  <1>6. AllFormed(draft, tc, stored, sender)
    BY <1>1, <1>3, ClosedFormed DEF Tight, AllFormed
  <1>7. AllFlown(draft, tc, fc)
    BY <1>5 DEF AllFlown
  <1>8. Alone(fc)
    BY <1>1, <1>5 DEF Tight, Alone
  <1>9. Shaped(tc, stored, fc, sender, known)
    BY <1>1, <1>3, <1>5, <1>a DEF Shaped
  <1>10. Tight(draft, tc, stored, fc, sender, known)
    BY <1>1, <1>6, <1>7, <1>8, <1>9 DEF Tight
  <1> QED BY <1>1, <1>2, <1>10 DEF SInv, LeftOK

-----------------------------------------------------------------------------
(* The answers. *)

\* What the page is told: what came back, or that nothing did in time.
Told(c, answer) == answer = "unavailable" \/ (answer = c.answer /\ answer # "none")

\* A form that waits for a request.
Awaits(c, p) ==
    /\ Asked(c) /\ c \in Sent /\ p \in Form /\ c.tab \in Tabs
    /\ Waited(c, p) /\ Stage(c, p) /\ Replied(c, p)
    /\ Formed(c.tab, p, draft, stored[c.tab], sender)
    /\ Shows(draft, c.copy.rev, c.copy.text, c.copy.step, c.copy.type)
    /\ c.copy.rev \in Nat /\ c.copy.text \in Text /\ c.copy.step \in 0 .. 6 /\ c.copy.type \in Types

LEMMA AwaitsOf ==
    ASSUME SInv, NEW f \in Flights, flight[f].live
    PROVE  Awaits(flight[f], tab[flight[f].tab])
  <1> DEFINE c == flight[f]
  <1>1. c # NoFlight
    BY NoFlightFlown
  <1>2. Asked(c) /\ Flown(c, draft, tab) /\ c.tab \in Tabs /\ Waited(c, tab[c.tab])
        /\ Formed(c.tab, tab[c.tab], draft, stored[c.tab], sender)
    BY <1>1, OfFlight DEF SInv
  <1>3. c \in Sent /\ c.copy \in Draft
    BY <1>2 DEF Asked, Sent
  <1>4. c.copy.rev \in Nat /\ c.copy.text \in Text /\ c.copy.step \in 0 .. 6 /\ c.copy.type \in Types
    BY <1>3 DEF Draft
  <1> QED BY <1>1, <1>2, <1>3, <1>4 DEF Awaits, Waited, Formed, Flown

\* Only where the form stands changes.
LEMMA FormedMoved ==
    ASSUME NEW t, NEW p, NEW d, NEW i, NEW sn, Formed(t, p, d, i, sn), p.access # "closed",
           NEW q \in Form, q.access # "closed",
           q.access \in {"checking", "unavailable"} => p.conflict = NoConflict,
           q.access = "signedIn" => p.access = "signedIn",
           q.text = p.text, q.base = p.base, q.own = p.own, q.rev = p.rev, q.step = p.step,
           q.type = p.type, q.conflict = p.conflict, q.pending = p.pending, q.failed = p.failed
    PROVE  Formed(t, q, d, i, sn)
  <1>1. Compared(q, d)
    BY DEF Formed, Compared
  <1> QED BY <1>1 DEF Formed

\* A write that was neither done nor too late leaves the form, or signs it out.
LEMMA RejectedFormed ==
    ASSUME NEW c, NEW p, Awaits(c, p), c.op # "read", NEW answer
    PROVE  \A q : q = [SignedOut(p, answer) EXCEPT !.busy = FALSE] => Formed(c.tab, q, draft, stored[c.tab], sender)
  <1> SUFFICES ASSUME NEW q, q = [SignedOut(p, answer) EXCEPT !.busy = FALSE]
               PROVE  Formed(c.tab, q, draft, stored[c.tab], sender)
    OBVIOUS
  <1>1. p \in Form /\ p.access = "signedIn" /\ Formed(c.tab, p, draft, stored[c.tab], sender)
    BY DEF Awaits, Waited
  <1> DEFINE a == IF answer = "denied" THEN "signedOut" ELSE p.access
  <1>2. a \in {"signedIn", "signedOut"}
    BY <1>1
  <1>3. q = [p EXCEPT !.access = a, !.busy = FALSE]
    BY <1>1 DEF SignedOut, Form
  <1> HIDE DEF a
  <1>4. /\ q \in Form /\ q.access = a
        /\ q.text = p.text /\ q.base = p.base /\ q.own = p.own /\ q.rev = p.rev /\ q.step = p.step
        /\ q.type = p.type /\ q.conflict = p.conflict /\ q.pending = p.pending /\ q.failed = p.failed
    BY <1>1, <1>2, <1>3 DEF Form
  <1> QED BY <1>1, <1>2, <1>4, FormedMoved

\* A step done takes the form to the revision and the step the service stands at.
LEMMA AdvancedFormed ==
    ASSUME NEW c, NEW p, Awaits(c, p), c.answer = "ok", NEW op, op = c.op,
           op \in {"type", "natural", "legal", "business", "area", "extra"},
           NEW q \in Form, q.access = p.access, q.text = p.text, q.base = p.base, q.own = p.own, q.rev = p.rev + 1,
           q.step = After[op], q.type = IF op = "type" THEN c.with ELSE p.type,
           q.conflict = p.conflict, q.pending = p.pending, q.failed = p.failed
    PROVE  Formed(c.tab, q, draft, stored[c.tab], sender)
  <1>1. /\ p \in Form /\ Formed(c.tab, p, draft, stored[c.tab], sender) /\ Stage(c, p) /\ Replied(c, p)
        /\ p.access = "signedIn" /\ c.rev = p.rev /\ Shows(draft, c.copy.rev, c.copy.text, c.copy.step, c.copy.type)
    BY DEF Awaits, Waited
  <1>2. p.text = p.base /\ p.conflict = NoConflict /\ p.pending = NoIntent
    BY <1>1 DEF Stage, Formed
  <1>3. c.copy.rev = p.rev + 1 /\ c.copy.text = p.text
    BY <1>1 DEF Replied
  <1>4. op \in DOMAIN After
    BY DEF After
  <1>5. c.copy.step = q.step /\ c.copy.type = q.type
    BY <1>1, <1>4 DEF Replied
  <1>6. Shows(draft, q.rev, q.base, q.step, q.type)
    BY <1>1, <1>2, <1>3, <1>5
  <1>7. q.rev > 0
    BY <1>1 DEF Form
  <1>8. Compared(q, draft)
    BY <1>2 DEF Compared, NoConflict
  <1> QED BY <1>1, <1>2, <1>6, <1>7, <1>8 DEF Formed

\* The form of a command that came too late reads the draft again.
LEMMA ReadAgainFormed ==
    ASSUME SInv, NEW c, NEW p, Awaits(c, p), c.op \in {"type", "natural", "legal"}
    PROVE  \A q : q = ReadAgain(p, c.tab) =>
              Formed(c.tab, q, draft, stored[c.tab], sender) /\ q.access = "checking"
  <1> DEFINE r == Checking(p, c.tab)
  <1>1. Formed(c.tab, p, draft, stored[c.tab], sender) /\ c.tab \in Tabs /\ p.conflict = NoConflict
    BY DEF Awaits, Stage, Formed
  <1>2. Formed(c.tab, r, draft, stored[c.tab], sender) /\ r.access = "checking"
    BY <1>1, CheckingFormed
  <1>3. r \in Form
    BY <1>2 DEF Formed
  <1>r. r = Checking(p, c.tab)
    OBVIOUS
  <1> HIDE DEF r
  <1> SUFFICES ASSUME NEW q, q = ReadAgain(p, c.tab)
               PROVE  Formed(c.tab, q, draft, stored[c.tab], sender) /\ q.access = "checking"
    OBVIOUS
  <1>4. q = [r EXCEPT !.busy = FALSE]
    BY <1>r DEF ReadAgain
  <1>5. /\ q \in Form /\ q.access = r.access /\ q.text = r.text /\ q.base = r.base /\ q.own = r.own
        /\ q.rev = r.rev /\ q.step = r.step /\ q.type = r.type /\ q.conflict = r.conflict
        /\ q.pending = r.pending /\ q.failed = r.failed
    BY <1>3, <1>4 DEF Form
  <1>6. Formed(c.tab, q, draft, stored[c.tab], sender)
    BY <1>2, <1>5, FormedSame
  <1> QED BY <1>2, <1>5, <1>6

LEMMA TypeSettledFormed ==
    ASSUME SInv, NEW c, NEW p, Awaits(c, p), c.op = "type", NEW answer, Told(c, answer)
    PROVE  Formed(c.tab, TypeSettled(p, c.tab, answer, c.with), draft, stored[c.tab], sender)
  <1> DEFINE q == TypeSettled(p, c.tab, answer, c.with)
  <1>1. CASE answer = "ok"
    <2> DEFINE r == p.rev + 1
    <2>1. q = [p EXCEPT !.busy = FALSE, !.rev = r, !.step = 2, !.entered = FALSE, !.lists = "none", !.type = c.with]
      BY <1>1 DEF TypeSettled, Advanced, Awaits, Form
    <2>2. p \in Form /\ c.with \in Types /\ c.answer = "ok" /\ p.rev \in Nat
      BY <1>1 DEF Told, Awaits, Form, Sent
    <2>3. r \in Nat /\ r = p.rev + 1 /\ After["type"] = 2 /\ 2 \in 1 .. 6
      BY <2>2 DEF After
    <2> HIDE DEF q, r
    <2>4. /\ q \in Form /\ q.access = p.access /\ q.text = p.text /\ q.base = p.base /\ q.own = p.own
          /\ q.rev = r /\ q.step = 2 /\ q.type = c.with /\ q.conflict = p.conflict
          /\ q.pending = p.pending /\ q.failed = p.failed
      BY <2>1, <2>2, <2>3 DEF Form
    <2>5. Formed(c.tab, q, draft, stored[c.tab], sender)
      BY <2>2, <2>3, <2>4, AdvancedFormed
    <2> QED BY <2>5 DEF q
  <1>2. CASE answer = "conflict"
    BY <1>2, ReadAgainFormed DEF TypeSettled
  <1>3. CASE answer \notin {"ok", "conflict"}
    BY <1>3, RejectedFormed DEF TypeSettled
  <1> QED BY <1>1, <1>2, <1>3

LEMMA NaturalSettledFormed ==
    ASSUME SInv, NEW c, NEW p, Awaits(c, p), c.op = "natural", NEW answer, Told(c, answer)
    PROVE  Formed(c.tab, NaturalSettled(p, c.tab, answer), draft, stored[c.tab], sender)
  <1> DEFINE q == NaturalSettled(p, c.tab, answer)
  <1>1. CASE answer = "ok"
    <2> DEFINE r == p.rev + 1
    <2>1. q = [p EXCEPT !.busy = FALSE, !.rev = r, !.step = 3, !.entered = FALSE, !.lists = "none"]
      BY <1>1 DEF NaturalSettled, Advanced
    <2>2. p \in Form /\ c.answer = "ok" /\ p.rev \in Nat
      BY <1>1 DEF Told, Awaits, Form
    <2>3. r \in Nat /\ r = p.rev + 1 /\ After["natural"] = 3 /\ 3 \in 1 .. 6
      BY <2>2 DEF After
    <2> HIDE DEF q, r
    <2>4. /\ q \in Form /\ q.access = p.access /\ q.text = p.text /\ q.base = p.base /\ q.own = p.own
          /\ q.rev = r /\ q.step = 3 /\ q.type = p.type /\ q.conflict = p.conflict
          /\ q.pending = p.pending /\ q.failed = p.failed
      BY <2>1, <2>2, <2>3 DEF Form
    <2>5. Formed(c.tab, q, draft, stored[c.tab], sender)
      BY <2>2, <2>3, <2>4, AdvancedFormed
    <2> QED BY <2>5 DEF q
  <1>2. CASE answer = "conflict"
    BY <1>2, ReadAgainFormed DEF NaturalSettled
  <1>3. CASE answer \notin {"ok", "conflict"}
    BY <1>3, RejectedFormed DEF NaturalSettled
  <1> QED BY <1>1, <1>2, <1>3

LEMMA LegalSettledFormed ==
    ASSUME SInv, NEW c, NEW p, Awaits(c, p), c.op = "legal", NEW answer, Told(c, answer)
    PROVE  Formed(c.tab, LegalSettled(p, c.tab, answer), draft, stored[c.tab], sender)
  <1> DEFINE q == LegalSettled(p, c.tab, answer)
  <1>1. CASE answer = "ok"
    <2> DEFINE r == p.rev + 1
    <2>1. q = [p EXCEPT !.busy = FALSE, !.rev = r, !.step = 3, !.entered = FALSE, !.lists = "none"]
      BY <1>1 DEF LegalSettled, Advanced
    <2>2. p \in Form /\ c.answer = "ok" /\ p.rev \in Nat
      BY <1>1 DEF Told, Awaits, Form
    <2>3. r \in Nat /\ r = p.rev + 1 /\ After["legal"] = 3 /\ 3 \in 1 .. 6
      BY <2>2 DEF After
    <2> HIDE DEF q, r
    <2>4. /\ q \in Form /\ q.access = p.access /\ q.text = p.text /\ q.base = p.base /\ q.own = p.own
          /\ q.rev = r /\ q.step = 3 /\ q.type = p.type /\ q.conflict = p.conflict
          /\ q.pending = p.pending /\ q.failed = p.failed
      BY <2>1, <2>2, <2>3 DEF Form
    <2>5. Formed(c.tab, q, draft, stored[c.tab], sender)
      BY <2>2, <2>3, <2>4, AdvancedFormed
    <2> QED BY <2>5 DEF q
  <1>2. CASE answer = "conflict"
    BY <1>2, ReadAgainFormed DEF LegalSettled
  <1>3. CASE answer \notin {"ok", "conflict"}
    BY <1>3, RejectedFormed DEF LegalSettled
  <1> QED BY <1>1, <1>2, <1>3

LEMMA BusinessSettledFormed ==
    ASSUME SInv, NEW c, NEW p, Awaits(c, p), c.op = "business", NEW answer, Told(c, answer)
    PROVE  Formed(c.tab, BusinessSettled(p, answer), draft, stored[c.tab], sender)
  <1> DEFINE q == BusinessSettled(p, answer)
  <1>1. CASE answer = "ok"
    <2> DEFINE r == p.rev + 1
    <2>1. q = [p EXCEPT !.busy = FALSE, !.rev = r, !.step = 4, !.entered = FALSE, !.lists = "none"]
      BY <1>1 DEF BusinessSettled, Advanced
    <2>2. p \in Form /\ c.answer = "ok" /\ p.rev \in Nat
      BY <1>1 DEF Told, Awaits, Form
    <2>3. r \in Nat /\ r = p.rev + 1 /\ After["business"] = 4 /\ 4 \in 1 .. 6
      BY <2>2 DEF After
    <2> HIDE DEF q, r
    <2>4. /\ q \in Form /\ q.access = p.access /\ q.text = p.text /\ q.base = p.base /\ q.own = p.own
          /\ q.rev = r /\ q.step = 4 /\ q.type = p.type /\ q.conflict = p.conflict
          /\ q.pending = p.pending /\ q.failed = p.failed
      BY <2>1, <2>2, <2>3 DEF Form
    <2>5. Formed(c.tab, q, draft, stored[c.tab], sender)
      BY <2>2, <2>3, <2>4, AdvancedFormed
    <2> QED BY <2>5 DEF q
  <1>2. CASE answer # "ok"
    BY <1>2, RejectedFormed DEF BusinessSettled
  <1> QED BY <1>1, <1>2

LEMMA AreaSettledFormed ==
    ASSUME SInv, NEW c, NEW p, Awaits(c, p), c.op = "area", NEW answer, Told(c, answer)
    PROVE  Formed(c.tab, AreaSettled(p, answer), draft, stored[c.tab], sender)
  <1> DEFINE q == AreaSettled(p, answer)
  <1>1. CASE answer = "ok"
    <2> DEFINE r == p.rev + 1
    <2>1. q = [p EXCEPT !.busy = FALSE, !.rev = r, !.step = 5, !.entered = FALSE, !.lists = "none"]
      BY <1>1 DEF AreaSettled, Advanced
    <2>2. p \in Form /\ c.answer = "ok" /\ p.rev \in Nat
      BY <1>1 DEF Told, Awaits, Form
    <2>3. r \in Nat /\ r = p.rev + 1 /\ After["area"] = 5 /\ 5 \in 1 .. 6
      BY <2>2 DEF After
    <2> HIDE DEF q, r
    <2>4. /\ q \in Form /\ q.access = p.access /\ q.text = p.text /\ q.base = p.base /\ q.own = p.own
          /\ q.rev = r /\ q.step = 5 /\ q.type = p.type /\ q.conflict = p.conflict
          /\ q.pending = p.pending /\ q.failed = p.failed
      BY <2>1, <2>2, <2>3 DEF Form
    <2>5. Formed(c.tab, q, draft, stored[c.tab], sender)
      BY <2>2, <2>3, <2>4, AdvancedFormed
    <2> QED BY <2>5 DEF q
  <1>2. CASE answer # "ok"
    BY <1>2, RejectedFormed DEF AreaSettled
  <1> QED BY <1>1, <1>2

LEMMA ExtraSettledFormed ==
    ASSUME SInv, NEW c, NEW p, Awaits(c, p), c.op = "extra", NEW answer, Told(c, answer)
    PROVE  Formed(c.tab, ExtraSettled(p, answer), draft, stored[c.tab], sender)
  <1> DEFINE q == ExtraSettled(p, answer)
  <1>1. CASE answer = "ok"
    <2> DEFINE r == p.rev + 1
    <2>1. q = [p EXCEPT !.busy = FALSE, !.rev = r, !.step = 6, !.entered = FALSE, !.lists = "none"]
      BY <1>1 DEF ExtraSettled, Advanced
    <2>2. p \in Form /\ c.answer = "ok" /\ p.rev \in Nat
      BY <1>1 DEF Told, Awaits, Form
    <2>3. r \in Nat /\ r = p.rev + 1 /\ After["extra"] = 6 /\ 6 \in 1 .. 6
      BY <2>2 DEF After
    <2> HIDE DEF q, r
    <2>4. /\ q \in Form /\ q.access = p.access /\ q.text = p.text /\ q.base = p.base /\ q.own = p.own
          /\ q.rev = r /\ q.step = 6 /\ q.type = p.type /\ q.conflict = p.conflict
          /\ q.pending = p.pending /\ q.failed = p.failed
      BY <2>1, <2>2, <2>3 DEF Form
    <2>5. Formed(c.tab, q, draft, stored[c.tab], sender)
      BY <2>2, <2>3, <2>4, AdvancedFormed
    <2> QED BY <2>5 DEF q
  <1>2. CASE answer # "ok"
    BY <1>2, RejectedFormed DEF ExtraSettled
  <1> QED BY <1>1, <1>2

LEMMA SaveSettledFormed ==
    ASSUME NEW c, NEW p, Awaits(c, p), c.op = "save", NEW answer, Told(c, answer)
    PROVE  Formed(c.tab, SaveSettled(p, answer), draft, stored[c.tab], sender)
  <1> DEFINE q == SaveSettled(p, answer)
  <1>0. /\ p \in Form /\ Formed(c.tab, p, draft, stored[c.tab], sender) /\ p.access = "signedIn" /\ p.step = 1
        /\ p.conflict = NoConflict /\ p.pending = NoIntent /\ c.rev = p.rev /\ p.rev \in Nat /\ p.text \in Text
    BY DEF Awaits, Waited, Stage, Formed, Form
  <1>1. CASE answer = "ok"
    <2> DEFINE r == p.rev + 1
    <2>1. q = [p EXCEPT !.busy = FALSE, !.base = p.text, !.own = {}, !.rev = r]
      BY <1>1 DEF SaveSettled
    <2>2. c.answer = "ok" /\ Replied(c, p) /\ Shows(draft, c.copy.rev, c.copy.text, c.copy.step, c.copy.type)
      BY <1>1 DEF Told, Awaits
    <2>3. c.copy.rev = r /\ c.copy.text = p.text /\ r \in Nat /\ r > 0
      BY <1>0, <2>2 DEF Replied
    <2> HIDE DEF q, r
    <2>4. /\ q \in Form /\ q.base = p.text /\ q.own = {} /\ q.rev = r
          /\ q.access = p.access /\ q.text = p.text /\ q.step = p.step /\ q.type = p.type /\ q.conflict = p.conflict
          /\ q.pending = p.pending /\ q.failed = p.failed
      BY <1>0, <2>1, <2>3 DEF Form
    <2>5. Shows(draft, q.rev, q.base, q.step, q.type)
      BY <1>0, <2>2, <2>3, <2>4 DEF Shows, Agrees
    <2>6. Differing(q.text, q.base) = {}
      BY <2>4 DEF Differing
    <2>7. Compared(q, draft)
      BY <1>0, <2>4 DEF Compared, NoConflict
    <2>8. Formed(c.tab, q, draft, stored[c.tab], sender)
      BY <1>0, <2>3, <2>4, <2>5, <2>6, <2>7 DEF Formed
    <2> QED BY <2>8 DEF q
  <1>2. CASE answer = "conflict"
    <2> DEFINE k == [NoConflict EXCEPT !.state = "loading"]
    <2>1. q = [p EXCEPT !.conflict = k]
      BY <1>2 DEF SaveSettled
    <2>2. k \in Conflict /\ k = [NoConflict EXCEPT !.state = "loading"]
      BY NoConflictIsConflict DEF Conflict
    <2> HIDE DEF q, k
    <2>3. /\ q \in Form /\ q.conflict = k
          /\ q.access = p.access /\ q.text = p.text /\ q.base = p.base /\ q.own = p.own /\ q.rev = p.rev
          /\ q.step = p.step /\ q.type = p.type /\ q.pending = p.pending /\ q.failed = p.failed
      BY <1>0, <2>1, <2>2 DEF Form
    <2>4. Formed(c.tab, q, draft, stored[c.tab], sender)
      BY <1>0, <2>2, <2>3, UncomparedFormed
    <2> QED BY <2>4 DEF q
  <1>3. CASE answer \notin {"ok", "conflict"}
    BY <1>3, RejectedFormed DEF SaveSettled
  <1> QED BY <1>1, <1>2, <1>3

\* The service's copy beside the tab's: only what differs from what the tab last saw is its own.
LEMMA SuggestedOwn ==
    ASSUME NEW seen \in Text, NEW mine \in Text, NEW server \in Text
    PROVE  /\ Suggested(seen, mine, server) \in [Fields -> {"mine", "server", "open"}]
           /\ OwnOnly(Suggested(seen, mine, server), {}, mine, seen)
  BY DEF Suggested, OwnOnly

LEMMA RereadSettledFormed ==
    ASSUME NEW c, NEW p, Awaits(c, p), c.op = "reread", NEW answer, Told(c, answer)
    PROVE  Formed(c.tab, RereadSettled(p, answer, c.copy), draft, stored[c.tab], sender)
  <1> DEFINE q == RereadSettled(p, answer, c.copy)
  <1>0. /\ p \in Form /\ Formed(c.tab, p, draft, stored[c.tab], sender) /\ p.access = "signedIn" /\ p.step = 1
        /\ p.text \in Text /\ p.base \in Text /\ p.pending = NoIntent
        /\ c.copy.text \in Text /\ c.copy.rev \in Nat
    BY DEF Awaits, Waited, Stage, Formed, Form
  <1>1. CASE answer = "ok" /\ ~c.copy.submitted
    <2> DEFINE h == Suggested(p.base, p.text, c.copy.text)
    <2> DEFINE k == [NoConflict EXCEPT !.state = "ready", !.text = c.copy.text, !.rev = c.copy.rev, !.choice = h]
    <2>1. q = [p EXCEPT !.busy = FALSE, !.conflict = k]
      BY <1>1 DEF RereadSettled
    <2>2. c.answer = "ok" /\ Replied(c, p) /\ Shows(draft, c.copy.rev, c.copy.text, c.copy.step, c.copy.type)
      BY <1>1 DEF Told, Awaits
    <2>3. c.copy.rev > 0 /\ Shows(draft, c.copy.rev, c.copy.text, 1, "none")
      BY <2>2 DEF Replied, Shows, Agrees
    <2>4. h \in [Fields -> {"mine", "server", "open"}] /\ OwnOnly(h, {}, p.text, p.base)
      BY <1>0, SuggestedOwn
    <2> HIDE DEF h
    <2>5. k \in Conflict /\ k.rev = c.copy.rev /\ k.text = c.copy.text /\ k.choice = h /\ k.picked = {}
      <3>1. NoConflict \in Conflict /\ NoConflict.picked = {}
        BY NoConflictIsConflict DEF NoConflict
      <3> QED BY <1>0, <2>4, <3>1 DEF Conflict
    <2> HIDE DEF q, k
    <2>6. /\ q \in Form /\ q.conflict = k
          /\ q.access = p.access /\ q.text = p.text /\ q.base = p.base /\ q.own = p.own /\ q.rev = p.rev
          /\ q.step = p.step /\ q.type = p.type /\ q.pending = p.pending /\ q.failed = p.failed
      BY <1>0, <2>1, <2>5 DEF Form
    <2>7. Compared(q, draft)
      BY <2>3, <2>4, <2>5, <2>6 DEF Compared
    <2>8. Formed(c.tab, q, draft, stored[c.tab], sender)
      BY <1>0, <2>6, <2>7 DEF Formed
    <2> QED BY <2>8 DEF q
  <1>2. CASE ~(answer = "ok" /\ ~c.copy.submitted)
    <2> DEFINE s == IF answer = "denied" THEN "none" ELSE "unavailable"
    <2> DEFINE a == IF answer = "denied" THEN "signedOut" ELSE "signedIn"
    <2> DEFINE k == [NoConflict EXCEPT !.state = s]
    <2>1. q = [p EXCEPT !.busy = FALSE, !.access = a, !.conflict = k]
      <3>1. CASE answer = "denied"
        <4>1. k = NoConflict
          BY <3>1 DEF NoConflict
        <4> QED BY <3>1, <4>1 DEF RereadSettled
      <3>2. CASE answer # "denied"
        <4>1. q = [p EXCEPT !.busy = FALSE, !.conflict = k]
          BY <1>2, <3>2 DEF RereadSettled
        <4>2. p = [p EXCEPT !.access = p.access]
          BY <1>0 DEF Form
        <4> QED BY <1>0, <3>2, <4>1, <4>2 DEF Form
      <3> QED BY <3>1, <3>2
    <2>2. k \in Conflict /\ s \in {"none", "loading", "unavailable"} /\ a \in {"signedIn", "signedOut"}
      BY NoConflictIsConflict DEF Conflict
    <2>k. k = [NoConflict EXCEPT !.state = s]
      OBVIOUS
    <2> HIDE DEF q, k, s, a
    <2>3. /\ q \in Form /\ q.conflict = k /\ q.access = a
          /\ q.text = p.text /\ q.base = p.base /\ q.own = p.own /\ q.rev = p.rev
          /\ q.step = p.step /\ q.type = p.type /\ q.pending = p.pending /\ q.failed = p.failed
      BY <1>0, <2>1, <2>2 DEF Form
    <2>4. Formed(c.tab, q, draft, stored[c.tab], sender)
      BY <1>0, <2>2, <2>3, <2>k, UncomparedFormed
    <2> QED BY <2>4 DEF q
  <1> QED BY <1>1, <1>2

\* What is stored in the tab once the outcome is known.
Remains(i, key) == IF key # NoKey /\ i.key = key THEN NoIntent ELSE i

LEMMA MirroredForm ==
    ASSUME NEW p \in Form, NEW d \in Draft, d.step > 0
    PROVE  \A r : r = Mirrored(p, d) =>
              /\ r \in Form /\ r.text = d.text /\ r.base = d.text /\ r.own = {} /\ r.rev = d.rev /\ r.step = d.step
              /\ r.type = d.type /\ r.access = "signedIn" /\ r.conflict = p.conflict /\ r.pending = p.pending
              /\ r.failed = p.failed
  <1> DEFINE e == (d.step = 2 /\ d.type = "LEGAL")
  <1>1. d.text \in Text /\ d.rev \in Nat /\ d.step \in 1 .. 6 /\ d.type \in Types /\ e \in BOOLEAN
    BY DEF Draft
  <1> SUFFICES ASSUME NEW r, r = Mirrored(p, d)
               PROVE  /\ r \in Form /\ r.text = d.text /\ r.base = d.text /\ r.own = {} /\ r.rev = d.rev
                      /\ r.step = d.step /\ r.type = d.type /\ r.access = "signedIn"
                      /\ r.conflict = p.conflict /\ r.pending = p.pending /\ r.failed = p.failed
    OBVIOUS
  <1>2. r = [p EXCEPT !.text = d.text, !.base = d.text, !.own = {}, !.rev = d.rev, !.step = d.step, !.type = d.type,
                      !.lists = "none", !.entered = e, !.access = "signedIn"]
    BY DEF Mirrored
  <1> HIDE DEF e
  <1> QED BY <1>1, <1>2 DEF Form

LEMMA ClearableOf ==
    ASSUME NEW t, NEW p, NEW d, NEW sn, Formed(t, p, d, stored[t], sn), p.access # "closed",
           NEW key, p.pending = NoIntent \/ p.pending.key = key
    PROVE  p.pending # NoIntent => Clearable(t, key)
  BY DEF Formed, Clearable

LEMMA ReadSettledFormed ==
    ASSUME SInv, NEW c, NEW p, Awaits(c, p), c.op = "read", p = tab[c.tab], NEW answer, Told(c, answer)
    PROVE  Formed(c.tab, ReadSettled(p, c.tab, answer, c.copy), draft, Remains(stored[c.tab], Resolved(c, answer)), sender)
  <1> DEFINE t == c.tab
  <1> DEFINE d == c.copy
  <1> DEFINE q == ReadSettled(p, t, answer, d)
  <1> DEFINE key == Resolved(c, answer)
  <1> DEFINE i == Remains(stored[t], key)
  <1>0. /\ p \in Form /\ Formed(t, p, draft, stored[t], sender) /\ p.access = "checking" /\ p.conflict = NoConflict
        /\ t \in Tabs /\ stored[t] \in Intent /\ Replied(c, p) /\ draft.rev \in Nat
        /\ Shows(draft, d.rev, d.text, d.step, d.type) /\ d \in Draft
    BY OfTab DEF Awaits, Waited, Formed, Asked, Sent
  <1>1. key = IF answer = "ok" /\ d.submitted THEN p.pending.key ELSE NoKey
    BY DEF Resolved
  <1>2. stored[t] # NoIntent => p.pending = stored[t]
    BY <1>0 DEF Formed
  <1>3. CASE answer = "ok"
    <2>1. d.rev > 0 /\ d.step > 0
          /\ (p.pending # NoIntent => d.submitted \/ (d.rev = p.pending.rev /\ d.step = 6))
      BY <1>0, <1>3 DEF Told, Replied
    <2> DEFINE m == Mirrored(p, d)
    <2>2. /\ m \in Form /\ m.text = d.text /\ m.base = d.text /\ m.own = {} /\ m.rev = d.rev /\ m.step = d.step
          /\ m.type = d.type /\ m.access = "signedIn" /\ m.conflict = p.conflict /\ m.pending = p.pending
          /\ m.failed = p.failed
      BY <1>0, <2>1, MirroredForm
    <2>3. q = Restored(p, t, d)
      BY <1>3 DEF ReadSettled
    <2> DEFINE n == IF d.submitted THEN NoIntent ELSE p.pending
    <2>4. /\ q \in Form /\ q.text = d.text /\ q.base = d.text /\ q.own = {} /\ q.rev = d.rev /\ q.step = d.step
          /\ q.type = d.type /\ q.access = "signedIn" /\ q.conflict = NoConflict /\ q.failed = p.failed
          /\ q.pending = n
      <3>1. CASE d.submitted
        <4>1. p.pending # NoIntent => Clearable(t, p.pending.key)
          BY <1>0, ClearableOf
        <4>2. q = [m EXCEPT !.submitted = TRUE, !.pending = NoIntent]
          BY <2>3, <3>1, <4>1 DEF Restored
        <4>3. NoIntent \in Intent
          BY NoIntentIsIntent
        <4> HIDE DEF m, q
        <4> QED BY <1>0, <2>2, <3>1, <4>2, <4>3 DEF Form
      <3>2. CASE ~d.submitted
        <4>1. CASE p.pending = NoIntent
          <5>1. q = m
            BY <2>3, <3>2, <4>1 DEF Restored
          <5> HIDE DEF m, q
          <5> QED BY <1>0, <2>2, <3>2, <5>1
        <4>2. CASE p.pending # NoIntent
          <5>1. q = [m EXCEPT !.confirmed = TRUE]
            BY <2>1, <2>3, <3>2, <4>2 DEF Restored
          <5> HIDE DEF m, q
          <5> QED BY <1>0, <2>2, <3>2, <5>1 DEF Form
        <4> QED BY <4>1, <4>2
      <3> QED BY <3>1, <3>2
    <2>5. i # NoIntent => n = i
      <3>1. CASE d.submitted /\ stored[t] # NoIntent
        <4>1. stored[t].key \in Keys
          BY <1>0, <3>1, OfTab DEF Intended
        <4>2. key = stored[t].key /\ key # NoKey
          BY <1>1, <1>2, <1>3, <3>1, <4>1, SellerAssumption
        <4> QED BY <4>2 DEF Remains
      <3>2. CASE d.submitted /\ stored[t] = NoIntent
        BY <3>2 DEF Remains
      <3>3. CASE ~d.submitted
        BY <1>1, <1>2, <3>3 DEF Remains
      <3> QED BY <3>1, <3>2, <3>3
    <2>6. n # NoIntent => d.step = 6 /\ n.rev = d.rev
      BY <2>1
    <2>7. Intended(t, n, draft, sender)
      BY <1>0 DEF Formed, Intended
    <2> HIDE DEF q, m, n, key, i
    <2>8. Differing(q.text, q.base) = {} /\ Compared(q, draft)
      BY <2>4 DEF Differing, Compared, NoConflict
    <2>9. Shows(draft, q.rev, q.base, q.step, q.type)
      BY <1>0, <2>4
    <2>10. ~q.failed
      BY <1>0, <2>4 DEF Formed
    <2>11. Formed(t, q, draft, i, sender)
      BY <2>1, <2>4, <2>5, <2>6, <2>7, <2>8, <2>9, <2>10 DEF Formed
    <2> QED BY <2>11 DEF q, i, key
  <1>4. CASE answer # "ok"
    <2>1. i = stored[t]
      BY <1>1, <1>4 DEF Remains
    <2>2. CASE answer = "missing"
      <3>1. p.rev = 0 /\ p.pending = NoIntent
        BY <1>0, <2>2 DEF Told, Replied
      <3>2. p.base = Empty /\ p.step = 1
        BY <1>0, <3>1 DEF Formed
      <3> DEFINE b == p.failed
      <3>3. q = [p EXCEPT !.access = "signedIn", !.rev = 0, !.base = Empty, !.failed = b]
        BY <1>0, <2>2, <3>1 DEF ReadSettled, Form, Formed
      <3>b. b \in BOOLEAN /\ b = p.failed /\ 0 \in Nat /\ Empty \in Text
        BY <1>0, EmptyIsText DEF Form
      <3> HIDE DEF q, b
      <3>c. /\ q.access = "signedIn" /\ q.rev = 0 /\ q.base = Empty /\ q.failed = b
            /\ q.text = p.text /\ q.own = p.own /\ q.step = p.step
            /\ q.type = p.type /\ q.conflict = p.conflict /\ q.pending = p.pending
        BY <1>0, <3>3, <3>b DEF Form
      <3>d. q \in Form
        BY <1>0, <3>3, <3>b DEF Form
      <3>4. /\ q \in Form /\ q.access = "signedIn"
            /\ q.text = p.text /\ q.base = p.base /\ q.own = p.own /\ q.rev = p.rev /\ q.step = p.step
            /\ q.type = p.type /\ q.conflict = p.conflict /\ q.pending = p.pending /\ q.failed = p.failed
        BY <3>1, <3>2, <3>b, <3>c, <3>d
      <3>5. Compared(q, draft)
        BY <1>0, <3>4 DEF Compared, NoConflict
      <3>6. Formed(t, q, draft, stored[t], sender)
        BY <1>0, <3>1, <3>4, <3>5 DEF Formed
      <3> QED BY <2>1, <3>6 DEF q
    <2>3. CASE answer # "missing"
      <3> DEFINE a == IF answer = "denied" THEN "signedOut" ELSE "unavailable"
      <3>1. q = [p EXCEPT !.access = a]
        BY <1>4, <2>3 DEF ReadSettled
      <3>2. a \in {"signedOut", "unavailable"}
        OBVIOUS
      <3> HIDE DEF a, q
      <3>3. /\ q \in Form /\ q.access = a
            /\ q.text = p.text /\ q.base = p.base /\ q.own = p.own /\ q.rev = p.rev /\ q.step = p.step
            /\ q.type = p.type /\ q.conflict = p.conflict /\ q.pending = p.pending /\ q.failed = p.failed
        BY <1>0, <3>1, <3>2 DEF Form
      <3>4. Formed(t, q, draft, stored[t], sender)
        BY <1>0, <3>2, <3>3, FormedMoved
      <3> QED BY <2>1, <3>4 DEF q
    <2> QED BY <2>2, <2>3
  <1> QED BY <1>3, <1>4

LEMMA SubmitSettledFormed ==
    ASSUME SInv, NEW c, NEW p, Awaits(c, p), c.op = "submit", NEW answer, Told(c, answer)
    PROVE  Formed(c.tab, SubmitSettled(p, c.tab, c.key, answer, c.copy), draft,
                  Remains(stored[c.tab], Resolved(c, answer)), sender)
  <1> DEFINE t == c.tab
  <1> DEFINE d == c.copy
  <1> DEFINE q == SubmitSettled(p, t, c.key, answer, d)
  <1> DEFINE key == Resolved(c, answer)
  <1> DEFINE i == Remains(stored[t], key)
  <1>0. /\ p \in Form /\ Formed(t, p, draft, stored[t], sender) /\ p.access = "signedIn" /\ p.step = 6
        /\ p.pending = [key |-> c.key, rev |-> c.rev] /\ p.text = p.base /\ p.conflict = NoConflict
        /\ t \in Tabs /\ stored[t] \in Intent /\ Replied(c, p) /\ c.key \in Keys
        /\ Shows(draft, d.rev, d.text, d.step, d.type) /\ d.rev \in Nat
    BY OfTab DEF Awaits, Waited, Stage, Formed, Asked
  <1>1. key = IF answer # "unavailable" THEN c.key ELSE NoKey
    BY DEF Resolved
  <1>2. stored[t] # NoIntent => p.pending = stored[t]
    BY <1>0 DEF Formed
  <1>3. CASE answer = "unavailable"
    <2>1. i = stored[t] /\ q = [p EXCEPT !.busy = FALSE]
      BY <1>1, <1>3 DEF Remains, SubmitSettled
    <2> HIDE DEF q, i
    <2>2. /\ q \in Form /\ q.access = p.access
          /\ q.text = p.text /\ q.base = p.base /\ q.own = p.own /\ q.rev = p.rev /\ q.step = p.step
          /\ q.type = p.type /\ q.conflict = p.conflict /\ q.pending = p.pending /\ q.failed = p.failed
      BY <1>0, <2>1 DEF Form
    <2>3. Formed(t, q, draft, stored[t], sender)
      BY <1>0, <2>2, FormedSame
    <2> QED BY <2>1, <2>3 DEF q, i
  <1>4. CASE answer # "unavailable"
    <2>1. Clearable(t, c.key) /\ i = NoIntent
      <3>1. key = c.key /\ key # NoKey
        BY <1>0, <1>1, <1>4, SellerAssumption
      <3>2. stored[t] = NoIntent \/ stored[t].key = c.key
        BY <1>0, <1>2
      <3> QED BY <3>1, <3>2 DEF Clearable, Remains
    <2>2. NoIntent \in Intent
      BY NoIntentIsIntent
    <2>3. CASE answer = "ok"
      <3>1. q = [p EXCEPT !.busy = FALSE, !.pending = NoIntent, !.rev = d.rev, !.submitted = TRUE, !.confirmed = TRUE]
        BY <2>1, <2>3 DEF SubmitSettled
      <3>2. c.answer = "ok" /\ "submit" \in DOMAIN After /\ After["submit"] = 6
        BY <2>3 DEF Told, After
      <3>3. d.text = p.text /\ d.rev > 0 /\ d.step = p.step /\ d.type = p.type
        BY <1>0, <3>2 DEF Replied
      <3> HIDE DEF q, i, d
      <3>4. /\ q \in Form /\ q.rev = d.rev /\ q.pending = NoIntent
            /\ q.access = p.access /\ q.text = p.text /\ q.base = p.base /\ q.own = p.own /\ q.step = p.step
            /\ q.type = p.type /\ q.conflict = p.conflict /\ q.failed = p.failed
        BY <1>0, <2>2, <3>1 DEF Form
      <3>5. Shows(draft, q.rev, q.base, q.step, q.type)
        BY <1>0, <3>3, <3>4
      <3>6. Compared(q, draft)
        BY <1>0, <3>4 DEF Compared, NoConflict
      <3>7. Intended(t, q.pending, draft, sender)
        BY <3>4 DEF Intended
      <3>8. Formed(t, q, draft, i, sender)
        BY <1>0, <2>1, <3>3, <3>4, <3>5, <3>6, <3>7 DEF Formed
      <3> QED BY <3>8 DEF q, i, d
    <2>4. CASE answer # "ok"
      <3> DEFINE a == IF answer = "denied" THEN "signedOut" ELSE p.access
      <3>1. q = [p EXCEPT !.access = a, !.busy = FALSE, !.pending = NoIntent]
        BY <1>0, <1>4, <2>1, <2>4 DEF SubmitSettled, SignedOut, Form
      <3>2. a \in {"signedIn", "signedOut"}
        BY <1>0
      <3> HIDE DEF q, i, a
      <3>3. /\ q \in Form /\ q.access = a /\ q.pending = NoIntent
            /\ q.text = p.text /\ q.base = p.base /\ q.own = p.own /\ q.rev = p.rev /\ q.step = p.step
            /\ q.type = p.type /\ q.conflict = p.conflict /\ q.failed = p.failed
        BY <1>0, <2>2, <3>1, <3>2 DEF Form
      <3>4. Compared(q, draft)
        BY <1>0, <3>3 DEF Compared, NoConflict
      <3>5. Intended(t, q.pending, draft, sender)
        BY <3>3 DEF Intended
      <3>6. Formed(t, q, draft, i, sender)
        BY <1>0, <2>1, <3>2, <3>3, <3>4, <3>5 DEF Formed
      <3> QED BY <3>6 DEF q, i
    <2> QED BY <2>3, <2>4
  <1> QED BY <1>3, <1>4

LEMMA SettledFormed ==
    ASSUME SInv, NEW f \in Flights, flight[f].live, NEW answer, Told(flight[f], answer)
    PROVE  LET c == flight[f]
           IN  Formed(c.tab, Settled(tab[c.tab], c, answer), draft,
                      Remains(stored[c.tab], Resolved(c, answer)), sender)
  <1> DEFINE c == flight[f]
  <1> DEFINE p == tab[c.tab]
  <1>0. Awaits(c, p) /\ c.op \in Ops /\ p = tab[c.tab] /\ Told(c, answer)
    BY AwaitsOf DEF Awaits, Sent
  <1> HIDE DEF c, p
  <1>1. CASE c.op \notin {"read", "submit"}
    <2>1. Remains(stored[c.tab], Resolved(c, answer)) = stored[c.tab]
      BY <1>1 DEF Remains, Resolved
    <2>2. CASE c.op = "reread"
      <3>1. Formed(c.tab, RereadSettled(p, answer, c.copy), draft, stored[c.tab], sender)
        BY <1>0, <2>2, RereadSettledFormed
      <3> QED BY <1>0, <2>1, <2>2, <3>1 DEF Settled, c, p
    <2>3. CASE c.op = "save"
      <3>1. Formed(c.tab, SaveSettled(p, answer), draft, stored[c.tab], sender)
        BY <1>0, <2>3, SaveSettledFormed
      <3> QED BY <1>0, <2>1, <2>3, <3>1 DEF Settled, c, p
    <2>4. CASE c.op = "type"
      <3>1. Formed(c.tab, TypeSettled(p, c.tab, answer, c.with), draft, stored[c.tab], sender)
        BY <1>0, <2>4, TypeSettledFormed
      <3> QED BY <1>0, <2>1, <2>4, <3>1 DEF Settled, c, p
    <2>5. CASE c.op = "natural"
      <3>1. Formed(c.tab, NaturalSettled(p, c.tab, answer), draft, stored[c.tab], sender)
        BY <1>0, <2>5, NaturalSettledFormed
      <3> QED BY <1>0, <2>1, <2>5, <3>1 DEF Settled, c, p
    <2>6. CASE c.op = "legal"
      <3>1. Formed(c.tab, LegalSettled(p, c.tab, answer), draft, stored[c.tab], sender)
        BY <1>0, <2>6, LegalSettledFormed
      <3> QED BY <1>0, <2>1, <2>6, <3>1 DEF Settled, c, p
    <2>7. CASE c.op = "business"
      <3>1. Formed(c.tab, BusinessSettled(p, answer), draft, stored[c.tab], sender)
        BY <1>0, <2>7, BusinessSettledFormed
      <3> QED BY <1>0, <2>1, <2>7, <3>1 DEF Settled, c, p
    <2>8. CASE c.op = "area"
      <3>1. Formed(c.tab, AreaSettled(p, answer), draft, stored[c.tab], sender)
        BY <1>0, <2>8, AreaSettledFormed
      <3> QED BY <1>0, <2>1, <2>8, <3>1 DEF Settled, c, p
    <2>9. CASE c.op = "extra"
      <3>1. Formed(c.tab, ExtraSettled(p, answer), draft, stored[c.tab], sender)
        BY <1>0, <2>9, ExtraSettledFormed
      <3> QED BY <1>0, <2>1, <2>9, <3>1 DEF Settled, c, p
    <2> QED BY <1>0, <1>1, <2>2, <2>3, <2>4, <2>5, <2>6, <2>7, <2>8, <2>9 DEF Ops
  <1>2. CASE c.op = "read"
    <2>1. Formed(c.tab, ReadSettled(p, c.tab, answer, c.copy), draft, Remains(stored[c.tab], Resolved(c, answer)), sender)
      BY <1>0, <1>2, ReadSettledFormed
    <2> QED BY <1>0, <1>2, <2>1 DEF Settled, c, p
  <1>3. CASE c.op = "submit"
    <2>1. Formed(c.tab, SubmitSettled(p, c.tab, c.key, answer, c.copy), draft,
                 Remains(stored[c.tab], Resolved(c, answer)), sender)
      BY <1>0, <1>3, SubmitSettledFormed
    <2> QED BY <1>0, <1>3, <2>1 DEF Settled, c, p
  <1> QED BY <1>1, <1>2, <1>3

\* The read a form goes on with finds it where it waits for it.
LEMMA FollowedFlown ==
    ASSUME SInv, NEW f \in Flights, flight[f].live, NEW answer, Told(flight[f], answer)
    PROVE  LET c == flight[f]
               q == Settled(tab[c.tab], c, answer)
           IN  \A r : r = Followed(c, answer) =>
                  /\ r \in Sent \cup {NoFlight} /\ (r.live => r.tab = c.tab)
                  /\ Flown(r, draft, [tab EXCEPT ![c.tab] = q])
  <1> DEFINE c == flight[f]
  <1> DEFINE p == tab[c.tab]
  <1> DEFINE q == Settled(p, c, answer)
  <1> DEFINE tc == [tab EXCEPT ![c.tab] = q]
  <1> DEFINE r == Followed(c, answer)
  <1>0. Awaits(c, p) /\ c.op \in Ops /\ c.tab \in Tabs /\ p \in Form /\ draft.rev \in Nat
    BY AwaitsOf, OfTab DEF Awaits, Sent
  <1>t. tc[c.tab] = q
    BY <1>0, OfTab
  <1>1. CASE answer # "conflict" \/ c.op \notin {"save", "type", "natural", "legal"}
    <2>1. r = NoFlight
      BY <1>1 DEF Followed
    <2> QED BY <2>1, NoFlightFlown
  <1>2. CASE answer = "conflict" /\ c.op = "save"
    <2>1. r = Request("reread", c.tab)
      BY <1>2 DEF Followed
    <2>2. r \in Sent /\ New(r) /\ r.op = "reread" /\ r.tab = c.tab
      BY <1>0, <2>1, RequestNew DEF Ops
    <2>3. q.access = "signedIn" /\ q.busy /\ q.step = 1
      <3>1. p.access = "signedIn" /\ p.busy /\ p.step = 1
        BY <1>0, <1>2 DEF Awaits, Waited, Stage
      <3>2. q = [p EXCEPT !.conflict = [NoConflict EXCEPT !.state = "loading"]]
        BY <1>2 DEF Settled, SaveSettled
      <3> HIDE DEF q
      <3> QED BY <1>0, <3>1, <3>2 DEF Form
    <2> HIDE DEF q, r, tc
    <2>4. Asked(r) /\ Stage(r, tc[r.tab])
      BY <1>t, <2>2, <2>3 DEF Asked, New, Stage
    <2>5. Flown(r, draft, tc)
      BY <1>0, <1>t, <2>2, <2>3, <2>4, NewFlown
    <2> QED BY <2>2, <2>5 DEF q, r, tc
  <1>3. CASE answer = "conflict" /\ c.op \in {"type", "natural", "legal"}
    <2>1. r = Request("read", c.tab)
      BY <1>3 DEF Followed
    <2>2. r \in Sent /\ New(r) /\ r.op = "read" /\ r.tab = c.tab
      BY <1>0, <2>1, RequestNew DEF Ops
    <2>3. q.access = "checking"
      <3>1. q = ReadAgain(p, c.tab)
        BY <1>3 DEF Settled, TypeSettled, NaturalSettled, LegalSettled
      <3> QED BY <1>0, <1>3, <3>1, ReadAgainFormed
    <2> HIDE DEF q, r, tc
    <2>4. Asked(r) /\ Stage(r, tc[r.tab])
      BY <1>t, <2>2, <2>3 DEF Asked, New, Stage
    <2>5. Flown(r, draft, tc)
      BY <1>0, <1>t, <2>2, <2>3, <2>4, NewFlown
    <2> QED BY <2>2, <2>5 DEF q, r, tc
  <1> QED BY <1>0, <1>1, <1>2, <1>3

\* Of a submission whose outcome an answer tells, nothing is stored any more.
LEMMA RemainsKept ==
    ASSUME SInv, NEW t \in Tabs, NEW key
    PROVE  LET km == IF key # NoKey THEN known \cup {key} ELSE known
           IN  Kept([stored EXCEPT ![t] = Remains(stored[t], key)], sender, km)
  <1> DEFINE km == IF key # NoKey THEN known \cup {key} ELSE known
  <1> DEFINE sc == [stored EXCEPT ![t] = Remains(stored[t], key)]
  <1>1. Kept(stored, sender, known) /\ sender \in [Keys -> Tabs \cup {NoTab}] /\ stored \in [Tabs -> Intent]
    BY DEF SInv, Tight, Shaped
  <1>2. sc[t] = Remains(stored[t], key) /\ \A u \in Tabs : u # t => sc[u] = stored[u]
    BY <1>1
  <1> HIDE DEF sc
  <1>3. ASSUME NEW k \in Keys, sender[k] # NoTab, k \notin km PROVE sc[sender[k]].key = k
    <2>1. k \notin known /\ (key # NoKey => k # key)
      BY <1>3
    <2>2. stored[sender[k]].key = k /\ sender[k] \in Tabs
      BY <1>1, <1>3, <2>1 DEF Kept
    <2> QED BY <1>2, <2>1, <2>2 DEF Remains
  <1>4. Kept(sc, sender, km)
    BY <1>3 DEF Kept
  <1> QED BY <1>4 DEF sc

LEMMA ResolvedKey ==
    ASSUME SInv, NEW f \in Flights, flight[f].waits, NEW answer
    PROVE  Resolved(flight[f], answer) \in Keys \cup {NoKey}
  <1> DEFINE c == flight[f]
  <1>1. Asked(c) /\ c.tab \in Tabs /\ Formed(c.tab, tab[c.tab], draft, stored[c.tab], sender)
    BY OfFlight, NoFlightFlown DEF SInv
  <1>2. tab[c.tab].pending.key \in Keys \cup {NoKey}
    BY <1>1 DEF Formed, Form, Intent
  <1> QED BY <1>1, <1>2 DEF Resolved, Asked

LEMMA ForgetStep ==
    ASSUME NEW d, NEW tb, NEW st, NEW fl, NEW sn, NEW kn, Tight(d, tb, st, fl, sn, kn),
           NEW t \in Tabs, NEW key, NEW km \in SUBSET Keys,
           Kept([st EXCEPT ![t] = Remains(st[t], key)], sn, km)
    PROVE  Tight(d, tb, [st EXCEPT ![t] = Remains(st[t], key)], fl, sn, km)
  <1> DEFINE sc == [st EXCEPT ![t] = Remains(st[t], key)]
  <1>1. Shaped(tb, st, fl, sn, kn)
    BY DEF Tight
  <1>2. sc \in [Tabs -> Intent] /\ \A u \in Tabs : sc[u] = st[u] \/ sc[u] = NoIntent
    BY <1>1, NoIntentIsIntent DEF Shaped, Remains
  <1>3. Kept(sc, sn, km)
    OBVIOUS
  <1> HIDE DEF sc
  <1>4. AllFormed(d, tb, sc, sn)
    <2> SUFFICES ASSUME NEW u \in Tabs PROVE Formed(u, tb[u], d, sc[u], sn)
      BY DEF AllFormed
    <2>1. Formed(u, tb[u], d, st[u], sn)
      BY DEF Tight, AllFormed
    <2> QED BY <1>2, <2>1 DEF Formed
  <1>5. AllIntended(d, sc, sn)
    <2> SUFFICES ASSUME NEW u \in Tabs PROVE Intended(u, sc[u], d, sn)
      BY DEF AllIntended
    <2>1. Intended(u, st[u], d, sn)
      BY DEF Tight, AllIntended
    <2> QED BY <1>2, <2>1 DEF Intended
  <1>6. Shaped(tb, sc, fl, sn, km)
    BY <1>1, <1>2 DEF Shaped
  <1> QED BY <1>3, <1>4, <1>5, <1>6 DEF Tight, sc

LEMMA SettleTight ==
    ASSUME SInv, NEW f \in Flights, NEW answer, Settle(f, answer)
    PROVE  SInv'
  <1> DEFINE c == flight[f]
  <1> DEFINE t == c.tab
  <1> DEFINE key == Resolved(c, answer)
  <1> DEFINE i == Remains(stored[t], key)
  <1> DEFINE km == IF key # NoKey THEN known \cup {key} ELSE known
  <1> DEFINE q == Settled(tab[t], c, answer)
  <1> DEFINE sc == [stored EXCEPT ![t] = i]
  <1>0. Tight(draft, tab, stored, flight, sender, known) /\ LeftOK /\ Shaped(tab, stored, flight, sender, known)
        /\ Sound(draft) /\ Alone(flight)
    BY DEF SInv, Tight
  <1>1. c.waits /\ Told(c, answer) /\ UNCHANGED <<draft, sender, left>>
    BY DEF Settle, Told
  <1>2. c # NoFlight /\ Asked(c) /\ Flown(c, draft, tab) /\ t \in Tabs
    BY <1>0, <1>1, NoFlightFlown, OfFlight
  <1>3. stored' = sc
    <2>1. CASE key # NoKey /\ stored[t].key = key
      BY <2>1 DEF Settle, Remains
    <2>2. CASE ~(key # NoKey /\ stored[t].key = key)
      <3>1. stored' = stored
        BY <2>2 DEF Settle
      <3>2. i = stored[t]
        BY <2>2 DEF Remains
      <3> HIDE DEF i
      <3> QED BY <1>0, <1>2, <3>1, <3>2 DEF Shaped
    <2> QED BY <2>1, <2>2
  <1>4. known' = km /\ km \in SUBSET Keys
    BY <1>0, <1>1, ResolvedKey DEF Settle, Shaped
  <1>5. Kept(sc, sender, km)
    BY <1>2, RemainsKept
  <1>6. LeftOK'
    BY <1>0, <1>1 DEF LeftOK
  <1>7. flight' = [flight EXCEPT ![f] = IF c.runs /\ c.op \notin {"read", "reread"}
                                        THEN [c EXCEPT !.waits = FALSE, !.live = FALSE] ELSE Followed(c, answer)]
    BY DEF Settle
  <1>8. CASE c.live
    <2>1. tab' = [tab EXCEPT ![t] = q]
      BY <1>8 DEF Settle
    <2>2. Formed(t, q, draft, i, sender)
      BY <1>1, <1>8, SettledFormed
    <2>3. i \in Intent /\ Intended(t, i, draft, sender)
      <3>1. stored[t] \in Intent /\ Intended(t, stored[t], draft, sender)
        BY <1>2, OfTab
      <3> QED BY <3>1, NoIntentIsIntent DEF Remains, Intended
    <2> DEFINE tc == [tab EXCEPT ![t] = q]
    <2>4. PICK r : /\ flight' = [flight EXCEPT ![f] = r] /\ r \in Sent \cup {NoFlight} /\ (r.live => r.tab = t)
                   /\ Flown(r, draft, tc)
      <3>1. CASE c.runs /\ c.op \notin {"read", "reread"}
        <4> DEFINE r == Abandoned(c, FALSE)
        <4>1. r = [c EXCEPT !.waits = FALSE, !.live = FALSE]
          BY <3>1 DEF Abandoned
        <4>2. flight' = [flight EXCEPT ![f] = r]
          BY <1>7, <3>1, <4>1
        <4>3. r \in Sent \cup {NoFlight} /\ ~r.live /\ Flown(r, draft, tc)
          BY <1>2, AbandonedFlown
        <4> HIDE DEF r
        <4> QED BY <4>2, <4>3
      <3>2. CASE ~(c.runs /\ c.op \notin {"read", "reread"})
        <4> DEFINE r == Followed(c, answer)
        <4>1. flight' = [flight EXCEPT ![f] = r]
          BY <1>7, <3>2
        <4>2. r \in Sent \cup {NoFlight} /\ (r.live => r.tab = t) /\ Flown(r, draft, tc)
          BY <1>1, <1>8, FollowedFlown
        <4> HIDE DEF r
        <4> QED BY <4>1, <4>2
      <3> QED BY <3>1, <3>2
    <2>5. Quiet(flight, t, f)
      BY <1>0, <1>8 DEF Alone, Quiet
    <2>6. Others(sender, sender, t) /\ sender \in [Keys -> Tabs \cup {NoTab}]
      BY <1>0 DEF Others, Shaped
    <2> HIDE DEF c, t, key, i, km, q
    <2>7. Tight(draft, tc, sc, [flight EXCEPT ![f] = r], sender, km)
      BY <1>0, <1>2, <1>4, <1>5, <2>2, <2>3, <2>4, <2>5, <2>6, TabStep
    <2> QED BY <1>1, <1>3, <1>4, <1>6, <2>1, <2>4, <2>7 DEF SInv
  <1>9. CASE ~c.live
    <2>1. tab' = tab
      BY <1>9 DEF Settle
    <2>2. PICK r : flight' = [flight EXCEPT ![f] = r] /\ r \in Sent \cup {NoFlight} /\ ~r.live /\ Flown(r, draft, tab)
      <3>1. CASE c.runs /\ c.op \notin {"read", "reread"}
        <4> DEFINE r == Abandoned(c, FALSE)
        <4>1. r = [c EXCEPT !.waits = FALSE, !.live = FALSE]
          BY <3>1 DEF Abandoned
        <4>2. flight' = [flight EXCEPT ![f] = r]
          BY <1>7, <3>1, <4>1
        <4>3. r \in Sent \cup {NoFlight} /\ ~r.live /\ Flown(r, draft, tab)
          BY <1>2, AbandonedFlown
        <4> HIDE DEF r
        <4> QED BY <4>2, <4>3
      <3>2. CASE ~(c.runs /\ c.op \notin {"read", "reread"})
        <4>1. flight' = [flight EXCEPT ![f] = NoFlight]
          BY <1>7, <1>9, <3>2 DEF Followed
        <4> QED BY <4>1, NoFlightFlown
      <3> QED BY <3>1, <3>2
    <2>3. Tight(draft, tab, stored, flight', sender, known)
      BY <1>0, <2>2, FlightStep
    <2>4. Tight(draft, tab, sc, flight', sender, km)
      BY <1>2, <1>4, <1>5, <2>3, ForgetStep
    <2> HIDE DEF sc, km
    <2> QED BY <1>1, <1>3, <1>4, <1>6, <2>1, <2>4 DEF SInv
  <1> QED BY <1>8, <1>9

-----------------------------------------------------------------------------
(* Init and Next. *)

LEMMA StandingSound ==
    ASSUME NEW step \in 0 .. 6, NEW type \in {"NATURAL", "LEGAL"}
    PROVE  Sound(Standing(step, type))
  <1>1. CASE step = 0
    <2>1. Standing(step, type) = NoDraft
      BY <1>1 DEF Standing
    <2>2. Sound(NoDraft)
      BY NoDraftIsDraft DEF Sound, NoDraft
    <2> QED BY <2>1, <2>2
  <1>2. CASE step # 0
    <2> DEFINE x == [f \in Fields |-> Filed]
    <2> DEFINE y == IF step < 2 THEN "none" ELSE type
    <2> DEFINE n == IF step < 3 THEN "none" ELSE IF type = "NATURAL" THEN "VERIFIED" ELSE "RECORDED"
    <2> DEFINE h == (IF step < 4 THEN {} ELSE {"business"}) \cup (IF step < 5 THEN {} ELSE {"area"})
                        \cup (IF step < 6 THEN {} ELSE {"extra"})
    <2> DEFINE d == Standing(step, type)
    <2>1. d = [NoDraft EXCEPT !.rev = step, !.step = step, !.text = x, !.type = y, !.identity = n, !.has = h]
      BY <1>2 DEF Standing
    <2>2. x \in Text /\ y \in Types /\ n \in {"none", "VERIFIED", "RECORDED"} /\ h \in SUBSET Parts /\ step \in Nat
      BY DEF Text, Texts, Types, Parts
    <2>3. /\ (y = "none") = (step < 2)
          /\ n = IF step < 3 THEN "none" ELSE IF y = "NATURAL" THEN "VERIFIED" ELSE "RECORDED"
          /\ \A f \in Fields : x[f] # Blank
      BY SellerAssumption
    <2>4. ("business" \in h) = (step >= 4) /\ ("area" \in h) = (step >= 5) /\ ("extra" \in h) = (step >= 6)
      OBVIOUS
    <2>5. NoDraft.submitted = FALSE
      BY DEF NoDraft
    <2> HIDE DEF d, x, y, n, h
    <2>6. /\ d \in Draft /\ d.rev = step /\ d.step = step /\ d.text = x /\ d.type = y /\ d.identity = n /\ d.has = h
          /\ d.submitted = FALSE
      BY <2>1, <2>2, <2>5, NoDraftIsDraft DEF Draft
    <2>7. Whole(d)
      BY <2>3, <2>4, <2>6 DEF Whole, TypeAndIdentity, Done
    <2>8. Sound(d)
      BY <1>2, <2>6, <2>7, ReadsWhole DEF Sound
    <2> QED BY <2>8 DEF d
  <1> QED BY <1>1, <1>2

LEMMA InitTight == SellerInit => SInv
  <1> SUFFICES ASSUME SellerInit PROVE SInv
    OBVIOUS
  <1>1. left \in [step : 0 .. 6, ops : SUBSET Ops, commands : Nat] /\ left \in Scenarios
    BY SellerAssumption DEF SellerInit
  <1>2. LeftOK
    BY <1>1 DEF LeftOK
  <1>3. Sound(draft)
    BY <1>1, StandingSound DEF SellerInit
  <1>4. draft.rev \in Nat
    BY <1>3 DEF Sound, Draft
  <1>5. Shaped(tab, stored, flight, sender, known)
    BY ClosedIsForm, NoIntentIsIntent DEF SellerInit, Shaped
  <1>6. \A t \in Tabs : \A i : Formed(t, Closed, draft, i, sender)
    <2> TAKE t \in Tabs
    <2> TAKE i
    <2> DEFINE p == Closed
    <2>1. /\ p.access = "closed" /\ p.text = Empty /\ p.base = Empty /\ p.own = {} /\ p.rev = 0 /\ p.step = 1
          /\ p.type = "none" /\ p.conflict = NoConflict /\ p.pending = NoIntent /\ p.failed = FALSE
      BY DEF Closed
    <2>2. Differing(Empty, Empty) = {} /\ p \in Form
      BY ClosedIsForm DEF Differing
    <2>3. Shows(draft, 0, Empty, 1, "none")
      BY <1>4 DEF Shows, Current
    <2>4. Compared(p, draft)
      BY <2>1 DEF Compared, NoConflict
    <2> HIDE DEF p
    <2>5. Formed(t, p, draft, i, sender)
      BY <2>1, <2>2, <2>3, <2>4 DEF Formed, Intended
    <2> QED BY <2>5 DEF p
  <1>7. AllFormed(draft, tab, stored, sender)
    BY <1>6 DEF SellerInit, AllFormed
  <1>8. AllIntended(draft, stored, sender)
    BY DEF SellerInit, AllIntended, Intended
  <1>9. AllFlown(draft, tab, flight) /\ Alone(flight)
    BY NoFlightFlown DEF SellerInit, AllFlown, Alone
  <1>10. Kept(stored, sender, known)
    BY DEF SellerInit, Kept
  <1> QED BY <1>2, <1>3, <1>5, <1>7, <1>8, <1>9, <1>10 DEF SInv, Tight

LEMMA PageActionTight ==
    ASSUME SInv, NEW t \in Tabs, Page(t)
    PROVE  SInv'
  <1>1. ASSUME NEW f \in Flights, Open(t, f) \/ Recheck(t, f) \/ RetryConflict(t, f) PROVE SInv'
    BY <1>1, OpenTight, RecheckTight, RetryConflictTight
  <1>2. ASSUME NEW f \in Flights, Stages(t, f) PROVE SInv'
    <2>1. CASE Save(t, f)
      BY <2>1, SaveTight
    <2>2. CASE \E type \in {"NATURAL", "LEGAL"} : SaveApplicantType(t, f, type)
      BY <2>2, SaveApplicantTypeTight
    <2>3. CASE VerifyNaturalIdentity(t, f)
      BY <2>3, VerifyNaturalIdentityTight
    <2>4. CASE SaveLegalIdentity(t, f)
      BY <2>4, SaveLegalIdentityTight
    <2>5. CASE SaveBusinessInformation(t, f)
      BY <2>5, SaveBusinessInformationTight
    <2>6. CASE SaveActivityArea(t, f)
      BY <2>6, SaveActivityAreaTight
    <2>7. CASE SaveAdditionalInformation(t, f)
      BY <2>7, SaveAdditionalInformationTight
    <2>8. CASE \E intent \in Intents(tab[t]) : SubmitForReview(t, f, intent)
      BY <2>8, SubmitForReviewTight
    <2> QED BY <1>2, <2>1, <2>2, <2>3, <2>4, <2>5, <2>6, <2>7, <2>8 DEF Stages
  <1>3. ASSUME NEW x \in Fields, Update(t, x) PROVE SInv'
    BY <1>3, UpdateTight
  <1>4. CASE Fill(t)
    BY <1>4, FillTight
  <1>5. CASE CategoriesEnd(t)
    BY <1>5, CategoriesEndTight
  <1>6. CASE ProvincesEnd(t)
    BY <1>6, ProvincesEndTight
  <1>7. CASE CitiesFail(t)
    BY <1>7, CitiesFailTight
  <1>8. CASE Confirm(t)
    BY <1>8, ConfirmTight
  <1>9. CASE BackToEdit(t)
    BY <1>9, BackToEditTight
  <1>10. CASE Conflicts(t)
    <2>1. CASE \E x \in Fields, choice \in {"mine", "server"} : SelectConflictField(t, x, choice)
      BY <2>1, SelectConflictFieldTight
    <2>2. CASE ChooseServerCopy(t)
      BY <2>2, ChooseServerCopyTight
    <2>3. CASE ChooseMyCopy(t)
      BY <2>3, ChooseMyCopyTight
    <2>4. CASE ChooseCombinedCopy(t)
      BY <2>4, ChooseCombinedCopyTight
    <2> QED BY <1>10, <2>1, <2>2, <2>3, <2>4 DEF Conflicts
  <1>11. ASSUME NEW live \in BOOLEAN, Leave(t, live) PROVE SInv'
    BY <1>11, LeaveTight
  <1> QED BY <1>1, <1>2, <1>3, <1>4, <1>5, <1>6, <1>7, <1>8, <1>9, <1>10, <1>11 DEF Page

LEMMA NetworkActionTight ==
    ASSUME SInv, NEW f \in Flights, Network(f)
    PROVE  SInv'
  <1>1. CASE Serve(f)
    BY <1>1, ServeTight
  <1>2. CASE Drop(f)
    BY <1>2, DropTight
  <1>3. ASSUME NEW status \in {"denied", "refused"}, TurnAway(f, status) PROVE SInv'
    BY <1>3, TurnAwayTight
  <1>4. ASSUME NEW answer, Settle(f, answer) PROVE SInv'
    BY <1>4, SettleTight
  <1> QED BY <1>1, <1>2, <1>3, <1>4 DEF Network

LEMMA NextTight == SInv /\ [SellerNext]_vars => SInv'
  <1> SUFFICES ASSUME SInv, [SellerNext]_vars PROVE SInv'
    OBVIOUS
  <1>1. CASE UNCHANGED vars
    BY <1>1 DEF vars, SInv, LeftOK
  <1>2. CASE SellerNext
    BY <1>2, PageActionTight, NetworkActionTight DEF SellerNext
  <1> QED BY <1>1, <1>2

-----------------------------------------------------------------------------
(* What the invariant says. *)

LEMMA InvTypes == SInv => SellerTypeOK
  <1> SUFFICES ASSUME SInv PROVE SellerTypeOK
    OBVIOUS
  <1>1. draft \in Draft /\ Shaped(tab, stored, flight, sender, known) /\ LeftOK
    BY DEF SInv, Tight, Sound
  <1>2. ASSUME NEW t \in Tabs
        PROVE  /\ DOMAIN tab[t] = DOMAIN Closed
               /\ tab[t].access \in {"closed", "checking", "signedIn", "signedOut", "unavailable"}
               /\ tab[t].conflict.state \in {"none", "loading", "unavailable", "ready"}
               /\ tab[t].lists \in {"none", "ready", "error"}
               /\ tab[t].step \in 1 .. 6 /\ tab[t].type \in Types /\ tab[t].own \subseteq Fields
               /\ tab[t].step > 1 => tab[t].text = tab[t].base /\ tab[t].conflict = NoConflict
               /\ stored[t] \in [key : Keys \cup {NoKey}, rev : Nat]
    <2>1. tab[t] \in Form /\ stored[t] \in Intent /\ Formed(t, tab[t], draft, stored[t], sender)
      BY OfTab
    <2>2. DOMAIN tab[t] = DOMAIN Closed
      <3>1. DOMAIN Closed = {"access", "busy", "text", "base", "own", "rev", "step", "type", "entered", "lists",
                             "conflict", "pending", "failed", "confirmed", "submitted"}
        BY DEF Closed
      <3>2. DOMAIN tab[t] = {"access", "busy", "text", "base", "own", "rev", "step", "type", "entered", "lists",
                             "conflict", "pending", "failed", "confirmed", "submitted"}
        BY <2>1 DEF Form
      <3> QED BY <3>1, <3>2
    <2> QED BY <2>1, <2>2 DEF Form, Conflict, Intent, Formed
  <1>3. ASSUME NEW f \in Flights
        PROVE  DOMAIN flight[f] = DOMAIN NoFlight /\ (flight[f].waits \/ flight[f].runs \/ flight[f] = NoFlight)
    <2>1. CASE flight[f] = NoFlight
      BY <2>1
    <2>2. CASE flight[f] # NoFlight
      <3>1. flight[f] \in Sent /\ Asked(flight[f])
        BY <2>2, OfFlight DEF SInv, Asked
      <3>2. DOMAIN flight[f] = DOMAIN NoFlight
        BY <3>1 DEF Sent, NoFlight
      <3> QED BY <3>1, <3>2 DEF Asked
    <2> QED BY <2>1, <2>2
  <1> QED BY <1>1, <1>2, <1>3 DEF SellerTypeOK, Draft, Text, Shaped, LeftOK

LEMMA InvReadable == SInv => DraftReadable
  BY DEF SInv, Tight, Sound, DraftReadable

\* A page that is not behind agrees with the service.
LEMMA InvAgrees ==
    ASSUME SInv, NEW t \in Tabs, tab[t].rev = draft.rev, tab[t].rev > 0
    PROVE  Agrees(draft, tab[t].base, tab[t].step, tab[t].type)
  <1>1. Formed(t, tab[t], draft, stored[t], sender)
    BY OfTab
  <1> QED BY <1>1 DEF Formed, Shows, Current

LEMMA InvOwn == SInv => OwnChangesOnly
  <1> SUFFICES ASSUME SInv, NEW t \in Tabs, tab[t].rev = draft.rev, tab[t].rev > 0
               PROVE  tab[t].base = draft.text /\ Differing(tab[t].text, draft.text) \subseteq tab[t].own
    BY DEF OwnChangesOnly
  <1>1. Formed(t, tab[t], draft, stored[t], sender)
    BY OfTab
  <1>2. tab[t].base = draft.text
    BY InvAgrees DEF Agrees
  <1> QED BY <1>1, <1>2 DEF Formed

LEMMA InvRepeatable == SInv => SubmissionRepeatable
  <1> SUFFICES ASSUME SInv, NEW k \in Keys, sender[k] # NoTab, k \notin known
               PROVE  stored[sender[k]].key = k /\ ~tab[sender[k]].failed
    BY DEF SubmissionRepeatable
  <1>1. stored[sender[k]].key = k /\ sender[k] \in Tabs
    BY DEF SInv, Tight, Kept, Shaped
  <1>2. Formed(sender[k], tab[sender[k]], draft, stored[sender[k]], sender)
    BY <1>1, OfTab
  <1> QED BY <1>1, <1>2 DEF Formed

LEMMA InvShown == SInv => ShownAsStored
  <1> SUFFICES ASSUME SInv, NEW t \in Tabs, tab[t].step > 1, tab[t].rev = draft.rev
               PROVE  tab[t].step = draft.step /\ tab[t].type = draft.type /\ tab[t].text = draft.text
    BY DEF ShownAsStored
  <1>1. Formed(t, tab[t], draft, stored[t], sender) /\ tab[t] \in Form
    BY OfTab
  <1>2. tab[t].rev > 0 /\ tab[t].text = tab[t].base
    BY <1>1 DEF Formed, Form
  <1>3. Agrees(draft, tab[t].base, tab[t].step, tab[t].type)
    BY <1>2, InvAgrees
  <1> QED BY <1>2, <1>3 DEF Agrees

-----------------------------------------------------------------------------
(* The theorems. *)

\* In every behaviour each tab, request and stored submission of the registration, and the
\* application itself, has its shape, and a form past its first step edits none of its texts
\* (registration-form.tsx, the rows of seller.registration_drafts).
THEOREM SellerTypeCorrect == SellerSpec => []SellerTypeOK
  BY InitTight, NextTight, InvTypes, PTL DEF SellerSpec

\* However many tabs write, and whatever of their requests is lost or late, the gateway and the
\* form read every application the service stores: no applicant is left with one the page calls
\* unavailable (loadSellerDraft, GET of app/api/seller/registration).
THEOREM ApplicationReadable == SellerSpec => []DraftReadable
  BY InitTight, NextTight, InvReadable, PTL DEF SellerSpec

\* A tab on the service's revision knows the service's texts, and differs only in fields its
\* applicant typed or chose: merging after a conflict takes back nobody else's edit
\* (suggestSellerFieldChoices, the three copies of the form).
THEOREM MergeKeepsOthers == SellerSpec => []OwnChangesOnly
  BY InitTight, NextTight, InvOwn, PTL DEF SellerSpec

\* A submission whose outcome its tab was not told is still stored there under its key, and the
\* page is not locked against repeating it (sellerRegistrationSubmitIntent and the functions
\* that persist and clear it).
THEOREM SubmissionStaysRepeatable == SellerSpec => []SubmissionRepeatable
  BY InitTight, NextTight, InvRepeatable, PTL DEF SellerSpec

\* A form past its first step that is on the service's revision shows the step, the type and the
\* texts the service has: what a command does under a revision is done to what was shown.
THEOREM CommandsOnWhatIsShown == SellerSpec => []ShownAsStored
  BY InitTight, NextTight, InvShown, PTL DEF SellerSpec

=============================================================================
