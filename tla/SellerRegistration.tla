------------------------- MODULE SellerRegistration -------------------------
(***************************************************************************)
(* The registration of a seller: one application on the service, edited    *)
(* through any number of tabs (registration-form.tsx) and their gateway    *)
(* (app/api/seller/registration).  Every write names the revision it was   *)
(* made from; a tab that is behind compares its copy with the service's,   *)
(* and the last step is repeated with the record the tab stored for it.    *)
(***************************************************************************)
EXTENDS Naturals, FiniteSets

CONSTANTS
    Tabs, Fields,       \* browser tabs of the applicant, fields of the first step
    Blank, Filed,       \* the absent text, the text first filed; a typed one is named by its tab
    Keys, NoKey,        \* idempotency keys of the submission
    Flights, NoTab,     \* requests under way at a time
    Scenarios           \* [step: where the application stands, ops: what is done, commands: how often]

Ops == {"read", "reread", "save", "type", "natural", "legal", "business", "area", "extra", "submit"}

ASSUME SellerAssumption ==
    /\ {Blank, Filed, NoTab} \cap Tabs = {} /\ Blank # Filed /\ NoKey \notin Keys
    /\ Scenarios \subseteq [step : 0 .. 6, ops : SUBSET Ops, commands : Nat]

VARIABLES
    draft,      \* the row of seller.registration_drafts; revision 0: there is none
    tab,        \* what each tab shows and remembers
    stored,     \* the unresolved submission in each tab's sessionStorage
    flight,     \* requests: does the page still wait, may the service still run it
    sender,     \* the tab that sent a submission
    known,      \* submissions whose outcome the page was told
    left        \* the scenario, and the commands it has left

vars == <<draft, tab, stored, flight, sender, known, left>>

Texts == Tabs \cup {Blank, Filed}
Empty == [f \in Fields |-> Blank]
Types == {"none", "NATURAL", "LEGAL"}
Parts == {"business", "area", "extra"}
NoIntent == [key |-> NoKey, rev |-> 0]
NoConflict == [state |-> "none", text |-> Empty, rev |-> 0, choice |-> [f \in Fields |-> "server"],
               picked |-> {}]     \* ghost: the fields whose own text the user picked
NoDraft == [rev |-> 0, text |-> Empty, step |-> 0, type |-> "none", identity |-> "none",
            has |-> {}, submitted |-> FALSE, key |-> NoKey, from |-> 0]
NoFlight == [op |-> "none", tab |-> NoTab, waits |-> FALSE, runs |-> FALSE, live |-> FALSE, rev |-> 0,
             text |-> Empty, with |-> "none", seen |-> "none", key |-> NoKey, answer |-> "none", copy |-> NoDraft]

\* The form of a page not open, or just opened.
Closed == [access |-> "closed", busy |-> FALSE, text |-> Empty, base |-> Empty, own |-> {}, rev |-> 0,
           step |-> 1, type |-> "none", entered |-> FALSE, lists |-> "none", conflict |-> NoConflict, pending |-> NoIntent,
           failed |-> FALSE, confirmed |-> FALSE, submitted |-> FALSE]
Opened == [Closed EXCEPT !.access = "checking"]

\* Every record has its shape; a tab past the first step edits none of its texts.
SellerTypeOK ==
    /\ draft \in [rev : Nat, text : [Fields -> Texts], step : 0 .. 6, type : Types,
                  identity : {"none", "VERIFIED", "RECORDED"}, has : SUBSET Parts,
                  submitted : BOOLEAN, key : Keys \cup {NoKey}, from : Nat]
    /\ \A t \in Tabs :
         /\ DOMAIN tab[t] = DOMAIN Closed
         /\ tab[t].access \in {"closed", "checking", "signedIn", "signedOut", "unavailable"}
         /\ tab[t].conflict.state \in {"none", "loading", "unavailable", "ready"}
         /\ tab[t].lists \in {"none", "ready", "error"}
         /\ tab[t].step \in 1 .. 6 /\ tab[t].type \in Types /\ tab[t].own \subseteq Fields
         /\ tab[t].step > 1 => tab[t].text = tab[t].base /\ tab[t].conflict = NoConflict
         /\ stored[t] \in [key : Keys \cup {NoKey}, rev : Nat]
    /\ \A f \in Flights : DOMAIN flight[f] = DOMAIN NoFlight /\ (flight[f].waits \/ flight[f].runs \/ flight[f] = NoFlight)
    /\ sender \in [Keys -> Tabs \cup {NoTab}] /\ known \subseteq Keys
    /\ \E s \in Scenarios : left.step = s.step /\ left.ops = s.ops /\ left.commands \in 0 .. s.commands

-----------------------------------------------------------------------------
(* What the gateway and the form accept of an application.  Both read it    *)
(* stage by stage: what a stage asks for is there once it is done.          *)

Done(d, n, part) == (part \in d.has) = (d.step >= n)
TypeAndIdentity(d) ==
    /\ (d.type = "none") = (d.step < 2)
    /\ d.identity = IF d.step < 3 THEN "none" ELSE IF d.type = "NATURAL" THEN "VERIFIED" ELSE "RECORDED"

\* GET of app/api/seller/registration.
GatewayReads(d) == TypeAndIdentity(d) /\ Done(d, 4, "business")
GatewayReadsRest(d) ==
    /\ Done(d, 5, "area") /\ Done(d, 6, "extra")
    /\ d.submitted => d.step = 6 /\ d.key # NoKey

\* loadSellerDraft, in the browser, of what the gateway let through.
FormReadsEarly(d) ==     \* mutant: off by one
    /\ \A f \in Fields : d.text[f] # Blank
    /\ TypeAndIdentity(d) /\ Done(d, 3, "business")
FormReads(d) ==
    /\ \A f \in Fields : d.text[f] # Blank
    /\ TypeAndIdentity(d) /\ Done(d, 4, "business")
FormReadsRest(d) ==
    /\ Done(d, 5, "area") /\ Done(d, 6, "extra")
    /\ d.submitted => d.key # NoKey

Reads(d) == GatewayReads(d) /\ GatewayReadsRest(d) /\ FormReads(d) /\ FormReadsRest(d)

\* The statuses each gateway passes on; whatever else the service says is "unavailable".
Common        == {"ok", "denied", "refused", "conflict"}
ReadPasses    == {"ok", "denied", "missing"}
SavePasses    == Common
TypePasses    == Common
NaturalPasses == Common \cup {"missing"}
LegalPasses   == Common \cup {"missing"}
BusinessPasses == Common
AreaPasses    == Common
ExtraPasses   == Common
SubmitPasses  == Common \cup {"missing"}

Passes(op) ==
    CASE op \in {"read", "reread"} -> ReadPasses
      [] op = "save" -> SavePasses         [] op = "type" -> TypePasses
      [] op = "natural" -> NaturalPasses   [] op = "legal" -> LegalPasses
      [] op = "business" -> BusinessPasses [] op = "area" -> AreaPasses
      [] op = "extra" -> ExtraPasses       [] op = "submit" -> SubmitPasses

Relayed(op, status) == IF status \in Passes(op) THEN status ELSE "unavailable"

-----------------------------------------------------------------------------
(* The service: every write is one guarded statement on the row.            *)

\* The writes of one step of the form are accepted on a draft at that step and revision.
At(d, r, steps) == ~d.submitted /\ d.step \in steps /\ d.rev = r

SaveAccepted(d, c) == IF c.rev = 0 THEN d.rev = 0 ELSE At(d, c.rev, {1})
Saved(d, c) == [d EXCEPT !.rev = @ + 1, !.text = c.text, !.step = IF c.rev = 0 THEN 1 ELSE @]

TypeAccepted(d, c) == At(d, c.rev, {1, 2})
\* Mutant: the revision is not raised.
TypedUnnumbered(d, c) == [d EXCEPT !.type = c.with, !.identity = "none", !.step = 2]

Typed(d, c) == [d EXCEPT !.rev = @ + 1, !.type = c.with, !.identity = "none", !.step = 2]

NaturalAccepted(d, c) == At(d, c.rev, {2}) /\ d.type = "NATURAL"
Verified(d, c) == [d EXCEPT !.rev = @ + 1, !.identity = "VERIFIED", !.step = 3]

LegalAccepted(d, c) == At(d, c.rev, {2}) /\ d.type = "LEGAL"
Recorded(d, c) == [d EXCEPT !.rev = @ + 1, !.identity = "RECORDED", !.step = 3]

BusinessAccepted(d, c) == At(d, c.rev, {3})
BusinessSaved(d, c) == [d EXCEPT !.rev = @ + 1, !.has = @ \cup {"business"}, !.step = 4]

AreaAccepted(d, c) == At(d, c.rev, {4})
AreaSaved(d, c) == [d EXCEPT !.rev = @ + 1, !.has = @ \cup {"area"}, !.step = 5]

ExtraAccepted(d, c) == At(d, c.rev, {5})
ExtraSaved(d, c) == [d EXCEPT !.rev = @ + 1, !.has = @ \cup {"extra"}, !.step = 6]

SubmitAccepted(d, c) == At(d, c.rev, {6})
Submitted(d, c) == [d EXCEPT !.rev = @ + 1, !.submitted = TRUE, !.key = c.key, !.from = c.rev]
\* The same submission again is answered with what it did.
Replayed(d, c) == d.submitted /\ d.key = c.key /\ d.from = c.rev

Accepted(d, c) ==
    CASE c.op = "save" -> SaveAccepted(d, c)         [] c.op = "type" -> TypeAccepted(d, c)
      [] c.op = "natural" -> NaturalAccepted(d, c)   [] c.op = "legal" -> LegalAccepted(d, c)
      [] c.op = "business" -> BusinessAccepted(d, c) [] c.op = "area" -> AreaAccepted(d, c)
      [] c.op = "extra" -> ExtraAccepted(d, c)       [] c.op = "submit" -> SubmitAccepted(d, c)
      [] OTHER -> FALSE

Written(d, c) ==
    CASE c.op = "save" -> Saved(d, c)             [] c.op = "type" -> Typed(d, c)
      [] c.op = "natural" -> Verified(d, c)       [] c.op = "legal" -> Recorded(d, c)
      [] c.op = "business" -> BusinessSaved(d, c) [] c.op = "area" -> AreaSaved(d, c)
      [] c.op = "extra" -> ExtraSaved(d, c)       [] c.op = "submit" -> Submitted(d, c)

Status(d, c) ==
    IF c.op \in {"read", "reread"}
    THEN IF d.rev = 0 THEN "missing" ELSE IF Reads(d) THEN "ok" ELSE "unavailable"
    ELSE IF Accepted(d, c) \/ (c.op = "submit" /\ Replayed(d, c)) THEN "ok"
    ELSE IF c.op \in {"natural", "submit"} /\ d.rev = 0 THEN "missing" ELSE "conflict"

\* The service runs a request, whether or not the page still waits for its answer.
Serve(f) ==
    LET c == flight[f]
        status == Status(draft, c)
        after == IF Accepted(draft, c) THEN Written(draft, c) ELSE draft
    IN /\ c.runs
       /\ draft' = after
       /\ flight' = [flight EXCEPT ![f] =
            IF c.waits THEN [c EXCEPT !.runs = FALSE, !.answer = Relayed(c.op, status), !.copy = after]
            ELSE NoFlight]
       /\ UNCHANGED <<tab, stored, sender, known, left>>

\* ... or turns it away: no session any more, a value the service refuses, an identity not matched.
TurnAway(f, status) ==
    /\ flight[f].runs /\ flight[f].waits
    /\ status \in {"denied", "refused"} /\ (flight[f].op \in {"read", "reread", "type"} => status = "denied")
    /\ flight' = [flight EXCEPT ![f].runs = FALSE, ![f].answer = Relayed(flight[f].op, status)]
    /\ UNCHANGED <<draft, tab, stored, sender, known, left>>

\* A request nobody waits for is lost on its way.
Drop(f) ==
    /\ flight[f].runs /\ ~flight[f].waits
    /\ flight' = [flight EXCEPT ![f] = NoFlight]
    /\ UNCHANGED <<draft, tab, stored, sender, known, left>>

-----------------------------------------------------------------------------
(* The form.                                                                *)

Request(op, t) == [NoFlight EXCEPT !.op = op, !.tab = t, !.waits = TRUE, !.runs = TRUE, !.live = TRUE,
                                   !.rev = tab[t].rev, !.seen = tab[t].type]

Ready(p) == p.access = "signedIn" /\ ~p.busy
Unsaved(p) == p.text # p.base
UnsavedStage(p, n) == p.step = n /\ p.entered
Free(f) == flight[f] = NoFlight
Commands(op) == op \in left.ops /\ left.commands > 0 /\ left' = [left EXCEPT !.commands = @ - 1]

\* The draft is read anew: on entering the page, and after some conflicts.
Checking(p, t) == [p EXCEPT !.access = "checking", !.pending = stored[t]]

Open(t, f) ==
    /\ tab[t].access = "closed" /\ Free(f)
    /\ tab' = [tab EXCEPT ![t] = Checking(Opened, t)]
    /\ flight' = [flight EXCEPT ![f] = [Request("read", t) EXCEPT !.rev = 0]]
    /\ UNCHANGED <<draft, stored, sender, known, left>>

Recheck(t, f) ==
    /\ tab[t].access = "unavailable" /\ Free(f)
    /\ tab' = [tab EXCEPT ![t] = Checking(@, t)]
    /\ flight' = [flight EXCEPT ![f] = Request("read", t)]
    /\ UNCHANGED <<draft, stored, sender, known, left>>

\* What the page offers: a section is shown from its step on, its inputs at its step.
CanType(p) == Ready(p) /\ p.conflict = NoConflict /\ ~p.submitted /\ p.step < 2
TypeOffered(p) ==
    /\ Ready(p) /\ p.conflict = NoConflict /\ ~p.submitted /\ p.rev > 0 /\ p.step < 3
    /\ ~Unsaved(p) /\ ~UnsavedStage(p, 2)
IdentityOffered(p) == Ready(p) /\ ~p.submitted /\ p.step = 2 /\ p.type # "none"
BusinessOffered(p) == Ready(p) /\ ~p.submitted /\ p.step = 3
AreaOffered(p)     == Ready(p) /\ ~p.submitted /\ p.step = 4
ExtraOffered(p)    == Ready(p) /\ ~p.submitted /\ p.step = 5
ReviewOffered(p)   == ~p.busy /\ ~p.submitted /\ p.step = 6 /\ p.rev > 0

\* update: the applicant types into a field of the first step.
Update(t, x) ==
    /\ CanType(tab[t]) /\ "save" \in left.ops
    /\ tab' = [tab EXCEPT ![t].text[x] = t, ![t].own = @ \cup {x}]
    /\ UNCHANGED <<draft, stored, flight, sender, known, left>>

\* The inputs of the stage the form stands at are filled in, or emptied; those of the
\* last stage are filled in from the start and count as touched from then on.
Fill(t) ==
    /\ \/ IdentityOffered(tab[t]) \/ BusinessOffered(tab[t]) \/ AreaOffered(tab[t])
       \/ ExtraOffered(tab[t]) /\ ~tab[t].entered
    /\ tab' = [tab EXCEPT ![t].entered = ~@]
    /\ UNCHANGED <<draft, stored, flight, sender, known, left>>

\* The lists a stage chooses from arrive, or not; without them nothing is chosen.
CategoriesEnd(t) ==
    /\ tab[t].access = "signedIn" /\ tab[t].step = 3 /\ ~tab[t].submitted /\ tab[t].lists = "none"
    /\ \/ \E result \in {"ready", "error"} : tab' = [tab EXCEPT ![t].lists = result]
       \/ tab' = [tab EXCEPT ![t].access = "signedOut"]
    /\ UNCHANGED <<draft, stored, flight, sender, known, left>>

ProvincesEnd(t) ==
    /\ tab[t].access = "signedIn" /\ tab[t].step = 4 /\ ~tab[t].submitted /\ tab[t].lists = "none"
    /\ \E result \in {"ready", "error"} : tab' = [tab EXCEPT ![t].lists = result]
    /\ UNCHANGED <<draft, stored, flight, sender, known, left>>

\* The cities of a province that do not arrive lock the stage for good.
CitiesFail(t) ==
    /\ tab[t].step = 4 /\ tab[t].lists = "ready" /\ tab[t].entered
    /\ tab' = [tab EXCEPT ![t].lists = "error"]
    /\ UNCHANGED <<draft, stored, flight, sender, known, left>>

Command(t, f, op, request) ==
    /\ Free(f) /\ Commands(op)
    /\ tab' = [tab EXCEPT ![t].busy = TRUE]
    /\ flight' = [flight EXCEPT ![f] = request]
    /\ UNCHANGED <<draft, stored, sender, known>>

\* handleSubmit, once validateSellerDraft found nothing missing.
Save(t, f) ==
    /\ CanType(tab[t])
    /\ \A x \in Fields : tab[t].text[x] # Blank
    /\ Command(t, f, "save", [Request("save", t) EXCEPT !.text = tab[t].text])

SaveApplicantType(t, f, type) ==
    /\ TypeOffered(tab[t])
    /\ Command(t, f, "type", [Request("type", t) EXCEPT !.with = type])

VerifyNaturalIdentity(t, f) ==
    /\ IdentityOffered(tab[t]) /\ tab[t].type = "NATURAL" /\ tab[t].rev >= 1 /\ ~Unsaved(tab[t]) /\ tab[t].entered
    /\ Command(t, f, "natural", Request("natural", t))

SaveLegalIdentity(t, f) ==
    /\ IdentityOffered(tab[t]) /\ tab[t].type = "LEGAL" /\ tab[t].rev >= 1 /\ ~Unsaved(tab[t]) /\ tab[t].entered
    /\ Command(t, f, "legal", Request("legal", t))

SaveBusinessInformation(t, f) ==
    /\ BusinessOffered(tab[t]) /\ tab[t].rev >= 1 /\ tab[t].lists = "ready" /\ tab[t].entered
    /\ Command(t, f, "business", Request("business", t))

SaveActivityArea(t, f) ==
    /\ AreaOffered(tab[t]) /\ tab[t].rev >= 1 /\ tab[t].lists = "ready" /\ tab[t].entered
    /\ Command(t, f, "area", Request("area", t))

SaveAdditionalInformation(t, f) ==
    /\ ExtraOffered(tab[t]) /\ tab[t].rev >= 1
    /\ Command(t, f, "extra", Request("extra", t))

Confirm(t) ==
    /\ ReviewOffered(tab[t]) /\ tab[t].access = "signedIn" /\ tab[t].pending = NoIntent /\ ~tab[t].failed
    /\ tab' = [tab EXCEPT ![t].confirmed = ~@]
    /\ UNCHANGED <<draft, stored, flight, sender, known, left>>

\* sellerRegistrationSubmitIntent: the unresolved submission again, else a new one.

FreshIntents(p) == {[key |-> k, rev |-> p.rev] : k \in {k \in Keys : sender[k] = NoTab}}
AlwaysFresh(p) == FreshIntents(p)      \* mutant: a retry under a new key
Intents(p) == IF p.pending # NoIntent /\ p.pending.rev = p.rev THEN {p.pending} ELSE FreshIntents(p)
\* persistSellerRegistrationSubmitIntent refuses to store it over another one.
Persistable(t, intent) == stored[t] \in {NoIntent, intent}

CanSubmit(p) ==
    /\ ReviewOffered(p) /\ Ready(p) /\ p.conflict = NoConflict
    /\ ~Unsaved(p) /\ p.confirmed /\ ~p.failed

\* A submission that cannot be stored, or is not of this revision, blocks the page instead.
Storable(p, t, intent) == (p.pending # NoIntent => p.pending.rev = p.rev) /\ Persistable(t, intent)

SubmitForReview(t, f, intent) ==
    /\ CanSubmit(tab[t]) /\ Free(f) /\ Commands("submit")
    /\ IF Storable(tab[t], t, intent)
       THEN /\ stored' = [stored EXCEPT ![t] = intent]
            /\ tab' = [tab EXCEPT ![t].pending = intent, ![t].busy = TRUE]
            /\ sender' = [sender EXCEPT ![intent.key] = t]
            /\ flight' = [flight EXCEPT ![f] = [Request("submit", t) EXCEPT !.key = intent.key]]
       ELSE /\ tab' = [tab EXCEPT ![t].failed = TRUE]
            /\ UNCHANGED <<stored, sender, flight>>
    /\ UNCHANGED <<draft, known>>

\* The applicant goes back to edit, which only takes the confirmation away.
BackToEdit(t) ==
    /\ ReviewOffered(tab[t]) /\ tab[t].access # "closed" /\ tab[t].pending = NoIntent /\ tab[t].confirmed
    /\ tab' = [tab EXCEPT ![t].confirmed = FALSE]
    /\ UNCHANGED <<draft, stored, flight, sender, known, left>>

-----------------------------------------------------------------------------
(* A save that came too late: the tab's copy against the service's.         *)

\* suggestSellerFieldChoices: what the tab last saw saved, its own text, the service's.
SuggestedTwoWay(seen, mine, server) ==      \* mutant: what the tab last saw is not looked at
    [x \in Fields |-> IF mine[x] = server[x] THEN "server" ELSE "mine"]
Suggested(seen, mine, server) ==
    [x \in Fields |->
        IF mine[x] = server[x] THEN "server"
        ELSE IF mine[x] # seen[x] /\ server[x] # seen[x] THEN "open"
        ELSE IF mine[x] # seen[x] THEN "mine" ELSE "server"]
Differing(mine, server) == {x \in Fields : mine[x] # server[x]}

RetryConflict(t, f) ==
    /\ Ready(tab[t]) /\ tab[t].conflict.state = "unavailable" /\ Free(f)
    /\ tab' = [tab EXCEPT ![t].busy = TRUE, ![t].conflict = [NoConflict EXCEPT !.state = "loading"]]
    /\ flight' = [flight EXCEPT ![f] = Request("reread", t)]
    /\ UNCHANGED <<draft, stored, sender, known, left>>

Resolvable(p) == Ready(p) /\ p.conflict.state = "ready"

\* The form takes a text, on the service's revision.
Taken(p, text, own) ==
    [p EXCEPT !.text = text, !.base = p.conflict.text, !.own = own, !.rev = p.conflict.rev, !.conflict = NoConflict]

SelectConflictField(t, x, choice) ==
    LET p == tab[t]
    IN /\ Resolvable(p) /\ x \in Differing(p.text, p.conflict.text) /\ choice \in {"mine", "server"}
       /\ p.conflict.choice[x] # choice
       /\ tab' = [tab EXCEPT ![t].conflict.choice[x] = choice,
                             ![t].conflict.picked = IF choice = "mine" THEN @ \cup {x} ELSE @ \ {x}]
       /\ UNCHANGED <<draft, stored, flight, sender, known, left>>

ServerCopy(p) == Taken(p, p.conflict.text, {})

MyCopy(p) == Taken(p, p.text, Differing(p.text, p.conflict.text))
CombinedCopy(p) ==
    Taken(p, [x \in Fields |-> IF p.conflict.choice[x] = "mine" THEN p.text[x] ELSE p.conflict.text[x]],
          p.own \cup p.conflict.picked)

ChooseServerCopy(t) ==
    /\ Resolvable(tab[t])
    /\ tab' = [tab EXCEPT ![t] = ServerCopy(@)]
    /\ UNCHANGED <<draft, stored, flight, sender, known, left>>

ChooseMyCopy(t) ==
    /\ Resolvable(tab[t])
    /\ tab' = [tab EXCEPT ![t] = MyCopy(@)]
    /\ UNCHANGED <<draft, stored, flight, sender, known, left>>

ChooseCombinedCopy(t) ==
    /\ Resolvable(tab[t])
    /\ Differing(tab[t].text, tab[t].conflict.text) # {}
    /\ \A x \in Differing(tab[t].text, tab[t].conflict.text) : tab[t].conflict.choice[x] # "open"
    /\ tab' = [tab EXCEPT ![t] = CombinedCopy(@)]
    /\ UNCHANGED <<draft, stored, flight, sender, known, left>>

-----------------------------------------------------------------------------
(* The answers.  A page that was left runs its continuation too, but only   *)
(* the submission's does something then: it clears the stored record.       *)

SignedOut(p, answer) == [p EXCEPT !.access = IF answer = "denied" THEN "signedOut" ELSE @]

\* clearSellerRegistrationSubmitIntent says whether nothing of it is left.
Clearable(t, key) == stored[t] = NoIntent \/ stored[t].key = key

MirroredOnly(p, d) ==       \* mutant: the confirmed texts are not kept
    [p EXCEPT !.text = d.text, !.own = {}, !.rev = d.rev, !.step = d.step, !.type = d.type, !.access = "signedIn"]
Mirrored(p, d) ==
    [p EXCEPT !.text = d.text, !.base = d.text, !.own = {}, !.rev = d.rev, !.step = d.step, !.type = d.type,
              !.lists = "none",
              !.entered = d.step = 2 /\ d.type = "LEGAL",    \* the representative is not filled in again
              !.access = "signedIn"]

Restored(p, t, d) ==
    IF d.submitted
    THEN IF p.pending # NoIntent /\ ~Clearable(t, p.pending.key)
         THEN [Mirrored(p, d) EXCEPT !.submitted = TRUE, !.failed = TRUE]
         ELSE [Mirrored(p, d) EXCEPT !.submitted = TRUE, !.pending = NoIntent]
    ELSE IF p.pending = NoIntent THEN Mirrored(p, d)
    ELSE IF p.pending.rev # d.rev THEN [Mirrored(p, d) EXCEPT !.failed = TRUE]
    ELSE [Mirrored(p, d) EXCEPT !.confirmed = TRUE]

ReadSettled(p, t, answer, d) ==
    CASE answer = "denied" -> [p EXCEPT !.access = "signedOut"]
      [] answer = "missing" -> [p EXCEPT !.access = "signedIn", !.rev = 0, !.base = Empty,
                                         !.failed = @ \/ p.pending # NoIntent]
      [] answer = "ok" -> Restored(p, t, d)
      [] OTHER -> [p EXCEPT !.access = "unavailable"]

\* retrieveCurrentDraft: only a draft that can still be edited is put beside the tab's.
RereadSettled(p, answer, d) ==
    CASE answer = "denied" -> [p EXCEPT !.busy = FALSE, !.access = "signedOut", !.conflict = NoConflict]
      [] answer = "ok" /\ ~d.submitted ->
            [p EXCEPT !.busy = FALSE,
                      !.conflict = [NoConflict EXCEPT !.state = "ready", !.text = d.text, !.rev = d.rev,
                                                      !.choice = Suggested(p.base, p.text, d.text)]]
      [] OTHER -> [p EXCEPT !.busy = FALSE, !.conflict = [NoConflict EXCEPT !.state = "unavailable"]]

SaveSettled(p, answer) ==
    CASE answer = "ok" -> [p EXCEPT !.busy = FALSE, !.base = p.text, !.own = {}, !.rev = @ + 1]
      [] answer = "conflict" -> [p EXCEPT !.conflict = [NoConflict EXCEPT !.state = "loading"]]
      [] OTHER -> [SignedOut(p, answer) EXCEPT !.busy = FALSE]

\* A step done takes the form to the next, which is empty.
Advanced(p, step) == [p EXCEPT !.busy = FALSE, !.rev = @ + 1, !.step = step, !.entered = FALSE, !.lists = "none"]
ReadAgain(p, t) == [Checking(p, t) EXCEPT !.busy = FALSE]

TypeSettled(p, t, answer, type) ==
    CASE answer = "ok" -> [Advanced(p, 2) EXCEPT !.type = type]
      [] answer = "conflict" -> ReadAgain(p, t)
      [] OTHER -> [SignedOut(p, answer) EXCEPT !.busy = FALSE]

NaturalSettled(p, t, answer) ==
    CASE answer = "ok" -> Advanced(p, 3)
      [] answer = "conflict" -> ReadAgain(p, t)
      [] OTHER -> [SignedOut(p, answer) EXCEPT !.busy = FALSE]

LegalSettled(p, t, answer) ==
    CASE answer = "ok" -> Advanced(p, 3)
      [] answer = "conflict" -> ReadAgain(p, t)
      [] OTHER -> [SignedOut(p, answer) EXCEPT !.busy = FALSE]

\* The later steps only say that they were too late.
BusinessSettled(p, answer) == IF answer = "ok" THEN Advanced(p, 4) ELSE [SignedOut(p, answer) EXCEPT !.busy = FALSE]
AreaSettled(p, answer)     == IF answer = "ok" THEN Advanced(p, 5) ELSE [SignedOut(p, answer) EXCEPT !.busy = FALSE]
ExtraSettled(p, answer)    == IF answer = "ok" THEN Advanced(p, 6) ELSE [SignedOut(p, answer) EXCEPT !.busy = FALSE]

SubmitSettled(p, t, key, answer, d) ==
    IF answer = "unavailable" THEN [p EXCEPT !.busy = FALSE]
    ELSE IF ~Clearable(t, key) THEN [p EXCEPT !.busy = FALSE, !.failed = TRUE]
    ELSE IF answer = "ok" THEN [p EXCEPT !.busy = FALSE, !.pending = NoIntent, !.rev = d.rev,
                                         !.submitted = TRUE, !.confirmed = TRUE]
    ELSE [SignedOut(p, answer) EXCEPT !.busy = FALSE, !.pending = NoIntent]

Settled(p, c, answer) ==
    CASE c.op = "read"     -> ReadSettled(p, c.tab, answer, c.copy)
      [] c.op = "reread"   -> RereadSettled(p, answer, c.copy)
      [] c.op = "save"     -> SaveSettled(p, answer)
      [] c.op = "type"     -> TypeSettled(p, c.tab, answer, c.with)
      [] c.op = "natural"  -> NaturalSettled(p, c.tab, answer)
      [] c.op = "legal"    -> LegalSettled(p, c.tab, answer)
      [] c.op = "business" -> BusinessSettled(p, answer)
      [] c.op = "area"     -> AreaSettled(p, answer)
      [] c.op = "extra"    -> ExtraSettled(p, answer)
      [] c.op = "submit"   -> SubmitSettled(p, c.tab, c.key, answer, c.copy)

\* The read a settled request goes on with, if its page is still there.
Followed(c, answer) ==
    IF ~c.live \/ answer # "conflict" THEN NoFlight
    ELSE CASE c.op = "save" -> Request("reread", c.tab)
           [] c.op \in {"type", "natural", "legal"} -> Request("read", c.tab)
           [] OTHER -> NoFlight

\* The submission whose outcome an answer tells, and which is no longer stored.
Resolved(c, answer) ==
    CASE c.op = "submit" /\ answer # "unavailable" -> c.key
      [] c.op = "read" /\ answer = "ok" /\ c.copy.submitted -> tab[c.tab].pending.key
      [] OTHER -> NoKey

\* An answer reaches the page, or the time for it is over.
Settle(f, answer) ==
    LET c == flight[f]
        key == Resolved(c, answer)
    IN /\ c.waits
       /\ answer = "unavailable" \/ (answer = c.answer /\ answer # "none")
       /\ tab' = IF c.live THEN [tab EXCEPT ![c.tab] = Settled(@, c, answer)] ELSE tab
       /\ stored' = IF key # NoKey /\ stored[c.tab].key = key THEN [stored EXCEPT ![c.tab] = NoIntent] ELSE stored
       /\ known' = IF key # NoKey THEN known \cup {key} ELSE known
       /\ flight' = [flight EXCEPT ![f] =
            IF c.runs /\ c.op \notin {"read", "reread"} THEN [c EXCEPT !.waits = FALSE, !.live = FALSE]
            ELSE Followed(c, answer)]
       /\ UNCHANGED <<draft, sender, left>>

\* The page is left: within the site the continuation of a submission lives on.
Abandoned(c, live) ==
    IF c.op = "submit" /\ c.waits /\ live THEN [c EXCEPT !.live = FALSE]
    ELSE IF c.runs /\ c.op \notin {"read", "reread"} THEN [c EXCEPT !.waits = FALSE, !.live = FALSE]
    ELSE NoFlight

Leave(t, live) ==
    /\ tab[t].access # "closed"
    /\ tab' = [tab EXCEPT ![t] = Closed]
    /\ flight' = [f \in Flights |-> IF flight[f].tab = t THEN Abandoned(flight[f], live) ELSE flight[f]]
    /\ UNCHANGED <<draft, stored, sender, known, left>>

-----------------------------------------------------------------------------
\* An application that stands at a step, as the form itself took it there.
Standing(step, type) ==
    IF step = 0 THEN NoDraft
    ELSE [NoDraft EXCEPT !.rev = step, !.step = step, !.text = [x \in Fields |-> Filed],
            !.type = IF step < 2 THEN "none" ELSE type,
            !.identity = IF step < 3 THEN "none" ELSE IF type = "NATURAL" THEN "VERIFIED" ELSE "RECORDED",
            !.has = (IF step < 4 THEN {} ELSE {"business"}) \cup (IF step < 5 THEN {} ELSE {"area"})
                        \cup (IF step < 6 THEN {} ELSE {"extra"})]

SellerInit ==
    /\ left \in Scenarios
    /\ draft \in {Standing(left.step, type) : type \in {"NATURAL", "LEGAL"}}
    /\ tab = [t \in Tabs |-> Closed]
    /\ stored = [t \in Tabs |-> NoIntent]
    /\ flight = [f \in Flights |-> NoFlight]
    /\ sender = [k \in Keys |-> NoTab]
    /\ known = {}

Stages(t, f) ==
    \/ Save(t, f)
    \/ \E type \in {"NATURAL", "LEGAL"} : SaveApplicantType(t, f, type)
    \/ VerifyNaturalIdentity(t, f) \/ SaveLegalIdentity(t, f)
    \/ SaveBusinessInformation(t, f) \/ SaveActivityArea(t, f) \/ SaveAdditionalInformation(t, f)
    \/ \E intent \in Intents(tab[t]) : SubmitForReview(t, f, intent)

Conflicts(t) ==
    \/ \E x \in Fields, choice \in {"mine", "server"} : SelectConflictField(t, x, choice)
    \/ ChooseServerCopy(t) \/ ChooseMyCopy(t) \/ ChooseCombinedCopy(t)

Page(t) ==
    \/ \E f \in Flights : Open(t, f) \/ Recheck(t, f) \/ RetryConflict(t, f) \/ Stages(t, f)
    \/ \E x \in Fields : Update(t, x)
    \/ Fill(t) \/ CategoriesEnd(t) \/ ProvincesEnd(t) \/ CitiesFail(t)
    \/ Confirm(t) \/ BackToEdit(t) \/ Conflicts(t)
    \/ \E live \in BOOLEAN : Leave(t, live)

Network(f) ==
    \/ Serve(f) \/ Drop(f)
    \/ \E status \in {"denied", "refused"} : TurnAway(f, status)
    \/ \E answer \in {"unavailable", flight[f].answer} : Settle(f, answer)

SellerNext == (\E t \in Tabs : Page(t)) \/ (\E f \in Flights : Network(f))

SellerSpec == SellerInit /\ [][SellerNext]_vars

-----------------------------------------------------------------------------
(* Properties.                                                              *)

\* What the service stores is what its gateway and the form accept: no sequence of
\* writes through the tabs leaves the applicant with an application the page calls unavailable.
DraftReadable == draft.rev > 0 => Reads(draft)

\* A tab on the service's revision knows the service's text, and the fields in which
\* its own differs are those the applicant typed into, or chose to keep, in this tab:
\* a merge after a conflict takes back nobody else's edit by itself.
OwnChangesOnly ==
    \A t \in Tabs :
        LET p == tab[t]
        IN p.access = "signedIn" /\ p.conflict = NoConflict /\ p.rev = draft.rev /\ p.rev > 0
           => p.base = draft.text /\ Differing(p.text, draft.text) \subseteq p.own

\* A submission whose outcome its tab was not told is still stored there, key and revision,
\* through reloads and answers of abandoned pages, and the page is not locked against repeating it.
SubmissionRepeatable ==
    \A k \in Keys :
        sender[k] # NoTab /\ k \notin known
        => stored[sender[k]].key = k /\ ~tab[sender[k]].failed

\* A form past its first step that is on the service's revision shows the step, the type and the
\* text the service has: what is verified, confirmed or submitted under a revision is what was shown.
ShownAsStored ==
    \A t \in Tabs :
        LET p == tab[t]
        IN p.access = "signedIn" /\ p.step > 1 /\ p.rev = draft.rev
           => p.step = draft.step /\ p.type = draft.type /\ p.text = draft.text

\* Of docs/implementation/HANA-SELLER-003.md: an out-of-date request to choose the type
\* gets a 409; so none the service would accept comes from a tab that shows another type than is stored.
TypeSeen ==
    \A f \in Flights :
        LET c == flight[f]
        IN c.op = "type" /\ c.runs /\ TypeAccepted(draft, c) => draft.type = c.seen

=============================================================================
