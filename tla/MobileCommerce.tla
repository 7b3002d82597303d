--------------------------- MODULE MobileCommerce ---------------------------
(***************************************************************************)
(* The buyer's mobile app: the store of the one unresolved command         *)
(* (pending-commerce.ts), the controllers of the six commerce screens that *)
(* save, post, recover and clear it, the photographs of incident reports,  *)
(* and the routing of a cold start and of incoming links (App.tsx).  The   *)
(* process may die between any two steps, an answer may be lost, a request *)
(* the app gave up on may still be executed.                               *)
(***************************************************************************)
EXTENDS Naturals, FiniteSets

CONSTANTS
    Keys, NoKey,        \* identities of the commands the user gives
    Photos, NoPhoto,    \* files in the app's evidence directory
    Controllers,        \* instances of screen controllers alive at a time
    Paths,              \* the commands in play, a subset of AllPaths
    Scenarios           \* a behaviour has the screens of one of these, and its
                        \* user gives no more commands than it says

AllScopes == {"cart", "checkout", "orders", "incidents", "support", "wallet"}

\* The mutations each screen may store.
Allowed(scope) ==
    CASE scope = "cart"      -> {"cart-items"}
      [] scope = "checkout"  -> {"addresses", "quotes", "orders"}
      [] scope = "orders"    -> {"cancel", "pickup-confirmation"}
      [] scope = "incidents" -> {"evidence", "discard", "report", "confirm-collection"}
      [] scope = "support"   -> {"tickets", "read"}
      [] scope = "wallet"    -> {"withdrawals", "withdrawal-cancel"}
      [] OTHER               -> {}

AllPaths == UNION {Allowed(s) : s \in AllScopes}

ASSUME MobileAssumption ==
    /\ NoKey \notin Keys
    /\ NoPhoto \notin Photos
    /\ Scenarios \subseteq [screens : SUBSET AllScopes, commands : Nat]
    /\ Paths \subseteq AllPaths

VARIABLES
    stored,     \* key of the record in SecureStore
    intents,    \* what each key stands for: path and body are frozen with it
    photos,     \* photographs on the device
    ctl,        \* the controllers
    token,      \* the session token of the device
    windowOpen, \* the hour after receipt in which an order may be reported
    sent,       \* requests the server may still execute
    executed,   \* commands the server executed
    outcome,    \* what the device knows of each posted command
    link,       \* an incoming link found nothing pending and is about to open
    scenario    \* the one of this behaviour

vars == <<stored, intents, photos, ctl, token, windowOpen, sent, executed, outcome, link, scenario>>

-----------------------------------------------------------------------------
NoIntent == [path |-> "none", photo |-> NoPhoto, evidence |-> NoKey]
NoCtl == [scope |-> "none", active |-> FALSE, resuming |-> FALSE, load |-> "none",
          owner |-> "none", busy |-> FALSE, ready |-> FALSE, error |-> "none",
          placed |-> FALSE, intent |-> NoKey, found |-> NoKey, run |-> "none", key |-> NoKey,
          draft |-> NoPhoto, snap |-> NoPhoto]

Answers == {"ok", "refused", "unauthorized", "unknown"}
Ctl == [scope : AllScopes, active : BOOLEAN, resuming : BOOLEAN,
        load : {"none", "list"},                \* the reads in flight
        owner : {"none", "load", "run"},        \* the flow of the current epoch
        busy : BOOLEAN, ready : BOOLEAN, error : {"none", "unauthorized", "unknown"},
        placed : BOOLEAN,                       \* the checkout has its order
        intent : Keys \cup {NoKey},
        found : Keys \cup {NoKey},              \* the record resume() is restoring
        run : {"none", "save", "post"} \cup Answers,    \* where retry() is: locked unless "none"
        key : Keys \cup {NoKey},                        \* the intent retry() works on
        draft : Photos \cup {NoPhoto}, snap : Photos \cup {NoPhoto}]

MobileTypeOK ==
    /\ stored \in Keys \cup {NoKey}
    /\ intents \in [Keys -> [path : AllPaths, photo : Photos \cup {NoPhoto},
                             evidence : Keys \cup {NoKey}] \cup {NoIntent}]
    /\ photos \subseteq Photos
    /\ ctl \in [Controllers -> Ctl \cup {NoCtl}]
    /\ token \in {"none", "valid", "revoked"}
    /\ windowOpen \in BOOLEAN
    /\ sent \subseteq Keys /\ executed \subseteq Keys
    /\ outcome \in [Keys -> {"none", "unsure", "known", "given up"}]
    /\ link \in BOOLEAN /\ scenario \in Scenarios

MobileInit ==
    /\ stored = NoKey
    /\ intents = [k \in Keys |-> NoIntent]
    /\ photos = {}
    /\ ctl = [i \in Controllers |-> NoCtl]
    /\ token = "valid"
    /\ windowOpen = TRUE
    /\ sent = {} /\ executed = {}
    /\ outcome = [k \in Keys |-> "none"]
    /\ link = FALSE
    /\ scenario \in Scenarios

Path(k) == intents[k].path
ScopeOf(k) == CHOOSE s \in AllScopes : Path(k) \in Allowed(s)
Given == {k \in Keys : Path(k) \notin {"none", "report", "discard"}}
Fresh == {k \in Keys : intents[k] = NoIntent}

serverVars == <<token, windowOpen, sent, executed>>
clientVars == <<outcome, link>>

-----------------------------------------------------------------------------
(* Controllers: a record of the fields of one controller object. *)

Started(s) == [NoCtl EXCEPT !.scope = s, !.active = TRUE, !.resuming = TRUE]

Locked(c)  == c.run # "none"
Current(c, flow) == c.active /\ c.owner = flow

\* An unmounted controller lives on until its retry() ends; of its fields only
\* those matter that retry() still reads.
Kept(c) ==
    IF c.active THEN c
    ELSE IF ~Locked(c) THEN NoCtl
    ELSE [NoCtl EXCEPT !.scope = c.scope, !.run = c.run, !.key = c.key, !.snap = c.snap]
Stopped(c) == Kept([c EXCEPT !.active = FALSE])

\* refresh() of the screens that show one document, and of those that keep their lists.
Loading(c) == [c EXCEPT !.load = "list", !.owner = "load", !.busy = TRUE, !.error = "none",
                        !.ready = c.scope \in {"support", "wallet"} /\ @]

CartRefreshable(c)     == ~Locked(c)
CheckoutRefreshable(c) == ~Locked(c)
OrdersRefreshable(c)   == ~Locked(c) /\ c.intent = NoKey
IncidentsRefreshable(c) == ~Locked(c) /\ c.intent = NoKey
SupportRefreshable(c)  == ~Locked(c) /\ c.intent = NoKey
WalletRefreshable(c)   == ~Locked(c) /\ c.intent = NoKey

Refreshable(c) ==
    CASE c.scope = "cart"      -> CartRefreshable(c)
      [] c.scope = "checkout"  -> CheckoutRefreshable(c)
      [] c.scope = "orders"    -> OrdersRefreshable(c)
      [] c.scope = "incidents" -> IncidentsRefreshable(c)
      [] c.scope = "support"   -> SupportRefreshable(c)
      [] c.scope = "wallet"    -> WalletRefreshable(c)

\* The screen's refresh, page buttons and the return of the app to the foreground.
Refresh(i) ==
    /\ ctl[i].active /\ Refreshable(ctl[i])
    /\ ctl' = [ctl EXCEPT ![i] = Loading(@)]
    /\ UNCHANGED <<stored, intents, photos, serverVars, clientVars>>

\* The reads of a screen end.  A refused token is removed from the device.
Unauthorized == token # "valid"
Loaded(i) ==
    LET c == ctl[i] IN
    /\ c.load = "list"
    /\ \E result \in {"ok", "unauthorized", "unknown"} :
         /\ result # "unknown" => (Unauthorized <=> result = "unauthorized")
         /\ token' = IF result = "unauthorized" THEN "none" ELSE token
         /\ ctl' = [ctl EXCEPT ![i] =
              LET d == [c EXCEPT !.load = "none"] IN
              IF ~Current(c, "load") THEN d
              ELSE [d EXCEPT !.busy = FALSE, !.owner = "none",
                             !.ready = result = "ok" \/ (result = "unknown" /\ @),
                             !.error = IF result = "ok" THEN "none" ELSE result,
                             !.draft = IF result = "unauthorized" THEN NoPhoto ELSE @]]
    /\ UNCHANGED <<stored, intents, photos, windowOpen, sent, executed, clientVars>>

-----------------------------------------------------------------------------
(* Recovery: what start() does with the stored record. *)

\* An evidence command is rebuilt from its photograph.
Restorable(s) == stored # NoKey /\ ScopeOf(stored) = s
Unreadable(s) == Restorable(s) /\ Path(stored) = "evidence" /\ intents[stored].photo \notin photos

Restored(c) == [c EXCEPT !.resuming = FALSE, !.intent = stored]

CartResumed(c) ==
    LET d == IF Restorable(c.scope) THEN Restored(c) ELSE [c EXCEPT !.resuming = FALSE]
    IN  IF CartRefreshable(d) THEN Loading(d) ELSE d

CheckoutResumed(c) ==
    LET d == IF Restorable(c.scope) THEN Restored(c) ELSE [c EXCEPT !.resuming = FALSE]
    IN  IF CheckoutRefreshable(d) THEN Loading(d) ELSE d

\* With a restored command the order is not read: only the answer can show it.
OrdersResumed(c) ==
    LET d == [c EXCEPT !.resuming = FALSE]
    IN  IF Restorable(c.scope) THEN Restored(c)
        ELSE IF OrdersRefreshable(d) THEN Loading(d) ELSE d

\* The command is offered again only after the order and the cases were read.
IncidentsResumed(c) ==
    LET d == [c EXCEPT !.resuming = FALSE] IN
    IF Restorable(c.scope)
    THEN [d EXCEPT !.found = stored, !.snap = intents[stored].photo]
    ELSE IF IncidentsRefreshable(d) THEN Loading(d) ELSE d

\* The lists are read even while a command just given is on its way: its answer
\* then meets a newer epoch.
SupportResumed(c) ==
    Loading(IF Restorable(c.scope) THEN Restored(c) ELSE [c EXCEPT !.resuming = FALSE])
WalletResumed(c) ==
    Loading(IF Restorable(c.scope) THEN Restored(c) ELSE [c EXCEPT !.resuming = FALSE])

Resumed(c) ==
    CASE c.scope = "cart"      -> CartResumed(c)
      [] c.scope = "checkout"  -> CheckoutResumed(c)
      [] c.scope = "orders"    -> OrdersResumed(c)
      [] c.scope = "incidents" -> IncidentsResumed(c)
      [] c.scope = "support"   -> SupportResumed(c)
      [] c.scope = "wallet"    -> WalletResumed(c)

Resume(i) ==
    LET c == ctl[i] IN
    /\ c.resuming /\ c.active
    /\ ctl' = [ctl EXCEPT ![i] = IF Unreadable(c.scope)
                                 THEN [c EXCEPT !.resuming = FALSE, !.error = "unknown"]
                                 ELSE Resumed(c)]
    /\ UNCHANGED <<stored, intents, photos, serverVars, clientVars>>

\* resume() of the incident screen after its two reads.
IncidentsRestored(i) ==
    LET c == ctl[i] IN
    /\ c.found # NoKey /\ c.active
    /\ ctl' \in {[ctl EXCEPT ![i] = [c EXCEPT !.found = NoKey, !.error = "unknown"]]}
            \cup (IF Unauthorized THEN {}
                  ELSE {[ctl EXCEPT ![i] = [c EXCEPT !.found = NoKey, !.ready = TRUE,
                                                     !.intent = c.found, !.draft = c.snap]]})
    /\ UNCHANGED <<stored, intents, photos, serverVars, clientVars>>

-----------------------------------------------------------------------------
(* The user gives a command: the intent is frozen and retry() starts. *)

Idle(c) == c.active /\ ~Locked(c) /\ ~c.busy /\ c.intent = NoKey

CartCanSet(c)            == Idle(c) /\ c.ready
CheckoutCanBegin(c, p)   == Idle(c) /\ c.ready /\ ~c.placed /\ (p = "orders" => c.error = "none")
OrdersCanChange(c)       == Idle(c) /\ c.ready /\ c.error = "none"
CanReport(c)             == Idle(c) /\ c.ready /\ c.error = "none" /\ windowOpen /\ c.draft # NoPhoto
CanConfirmReturn(c)      == Idle(c) /\ c.ready /\ c.error = "none"
SupportCanBegin(c, p)    == Idle(c) /\ (IF p = "tickets" THEN c.error = "none" ELSE c.ready)
WalletCanBegin(c, p)     == Idle(c) /\ (IF p = "withdrawals" THEN c.error = "none" ELSE c.ready)

CanBegin(c, p) ==
    /\ c.active
    /\ p \in Allowed(c.scope) \ {"report", "discard"}
    /\ CASE c.scope = "cart"      -> CartCanSet(c)
         [] c.scope = "checkout"  -> CheckoutCanBegin(c, p)
         [] c.scope = "orders"    -> OrdersCanChange(c)
         [] c.scope = "incidents" -> IF p = "evidence" THEN CanReport(c) ELSE CanConfirmReturn(c)
         [] c.scope = "support"   -> SupportCanBegin(c, p)
         [] c.scope = "wallet"    -> WalletCanBegin(c, p)

Running(c, k) ==
    [c EXCEPT !.intent = k, !.key = k, !.run = "save", !.owner = "run", !.busy = TRUE,
              !.error = IF c.scope \in {"cart", "checkout"} THEN @ ELSE "none"]

Begin(i, k, p) ==
    LET c == ctl[i]
        photo == IF p = "evidence" THEN c.draft ELSE c.snap
    IN  /\ CanBegin(c, p) /\ Cardinality(Given) < scenario.commands
        /\ intents' = [intents EXCEPT ![k] = [path |-> p, photo |-> photo, evidence |-> NoKey]]
        /\ ctl' = [ctl EXCEPT ![i] = Running([c EXCEPT !.snap = photo], k)]
        /\ UNCHANGED <<stored, photos, serverVars, clientVars>>

\* The record and its photograph go; a photograph that cannot be removed is
\* left to the next start.  A failure to remove the record is swallowed.
\* Mistake: an emptied record is written in place of the one to be removed.
ClearedToNothing(k) == IF stored = k THEN NoPhoto ELSE stored
ClearedBy(k) == IF stored = k THEN NoKey ELSE stored
Clear(k) ==
    \/ UNCHANGED <<stored, photos>>
    \/ /\ stored' = ClearedBy(k)
       /\ photos' \in {photos, IF stored = k THEN photos \ {intents[k].photo} ELSE photos}

\* "Check the result of the previous request": the same key and body again.
Retry(i) ==
    LET c == ctl[i] IN
    /\ c.active /\ ~Locked(c) /\ ~c.busy /\ c.intent # NoKey
    /\ Path(c.intent) = "evidence" => c.snap # NoPhoto /\ c.ready /\ windowOpen
    /\ ctl' = [ctl EXCEPT ![i] = Running(c, c.intent)]
    /\ UNCHANGED <<stored, intents, photos, serverVars, clientVars>>

\* A photograph whose order is not at hand is recovered from the store again.
RetryNeedsOrder(i) ==
    LET c == ctl[i] IN
    /\ c.active /\ ~Locked(c) /\ ~c.busy /\ c.intent # NoKey
    /\ Path(c.intent) = "evidence" /\ ~(c.snap # NoPhoto /\ c.ready)
    /\ ctl' = [ctl EXCEPT ![i].resuming = TRUE]
    /\ UNCHANGED <<stored, intents, photos, serverVars, clientVars>>

\* After the window the photograph is given up, whatever became of earlier attempts.
GiveUpEvidence(i) ==
    LET c == ctl[i] IN
    /\ c.active /\ ~Locked(c) /\ ~c.busy /\ c.intent # NoKey
    /\ Path(c.intent) = "evidence" /\ c.snap # NoPhoto /\ c.ready /\ ~windowOpen
    /\ Clear(c.intent)
    /\ ctl' = [ctl EXCEPT ![i] = [c EXCEPT !.intent = NoKey, !.snap = NoPhoto, !.draft = NoPhoto]]
    /\ outcome' = [outcome EXCEPT ![c.intent] = "given up"]
    /\ UNCHANGED <<intents, serverVars, link>>

\* A command once answered stays answered, also when another screen sends it again.
Posted(k) == [outcome EXCEPT ![k] = IF @ = "known" THEN @ ELSE "unsure"]

\* Mistake: the command is posted whatever the store already holds.
SaveOver(i) ==
    LET c == ctl[i] IN
    /\ c.run = "save"
    /\ stored' = c.key
    /\ sent' = sent \cup {c.key} /\ outcome' = Posted(c.key)
    /\ ctl' = [ctl EXCEPT ![i].run = "post"]
    /\ UNCHANGED <<intents, photos, token, windowOpen, executed, link>>

\* save() refuses to replace another unresolved command, or fails: nothing is
\* posted.  Otherwise the request leaves, if there is a token to send with it.
Save(i) ==
    LET c == ctl[i] IN
    /\ c.run = "save"
    /\ \/ /\ ctl' = [ctl EXCEPT ![i].run = "unknown"]
          /\ UNCHANGED <<stored, sent, outcome>>
       \/ /\ stored \in {NoKey, c.key}
          /\ stored' = c.key
          /\ IF token = "none"
             THEN /\ ctl' = [ctl EXCEPT ![i].run = "unauthorized"]
                  /\ UNCHANGED <<sent, outcome>>
             ELSE /\ sent' = sent \cup {c.key}
                  /\ outcome' = Posted(c.key)
                  /\ ctl' = [ctl EXCEPT ![i].run = "post"]
    /\ UNCHANGED <<intents, photos, token, windowOpen, executed, link>>

-----------------------------------------------------------------------------
(* The server, as the command boundary promises it: a key is executed at   *)
(* most once, an executed key is answered as before.  Requests with one    *)
(* key are decided one at a time.                                          *)

Reported(e)  == \E k \in executed : Path(k) = "report" /\ intents[k].evidence = e
Discarded(e) == \E k \in executed : Path(k) = "discard" /\ intents[k].evidence = e

Acceptable(k) ==
    /\ Path(k) = "report" => windowOpen /\ ~Discarded(intents[k].evidence)
    /\ Path(k) = "discard" => ~Reported(intents[k].evidence)

Answered(k, answer) ==
    [i \in Controllers |-> IF ctl[i].run = "post" /\ ctl[i].key = k
                            THEN [ctl[i] EXCEPT !.run = answer] ELSE ctl[i]]

Serve(k) ==
    /\ k \in sent
    /\ \A i \in Controllers : ctl[i].key = k => ctl[i].run \in {"none", "save", "post"}
    /\ sent' = sent \ {k}
    /\ \/ /\ Unauthorized
          /\ ctl' = Answered(k, "unauthorized")
          /\ UNCHANGED executed
       \/ /\ ~Unauthorized
          /\ k \in executed \/ Acceptable(k)
          /\ executed' = executed \cup {k}
          /\ ctl' = Answered(k, "ok")
       \/ /\ ~Unauthorized /\ k \notin executed
          /\ ctl' = Answered(k, "refused")
          /\ UNCHANGED executed
    /\ UNCHANGED <<stored, intents, photos, token, windowOpen, clientVars>>

\* A request is lost, or the client hears nothing it can use in 15 seconds.
Lose(k) ==
    /\ k \in sent
    /\ sent' = sent \ {k}
    /\ UNCHANGED <<stored, intents, photos, ctl, token, windowOpen, executed, clientVars>>

NoAnswer(i) ==
    /\ ctl[i].run \in {"post", "ok", "refused", "unauthorized"}
    /\ ctl' = [ctl EXCEPT ![i].run = "unknown"]
    /\ UNCHANGED <<stored, intents, photos, serverVars, clientVars>>


-----------------------------------------------------------------------------
(* The rest of retry(): the store, then the screen if it is still the one   *)
(* that asked.                                                              *)

\* Mistake: the screen is told that it is no longer busy only on success.
DoneStillBusy(c) ==
    [c EXCEPT !.run = "none", !.key = NoKey, !.busy = c.run # "ok", !.owner = "none"]
Done(c) == [c EXCEPT !.run = "none", !.key = NoKey, !.busy = FALSE, !.owner = "none"]
Gone(c) == [Done(c) EXCEPT !.intent = NoKey]

\* What a live screen becomes: "ok" is its own, a conflict may reload it, an
\* unauthorized one shows nothing, an unknown outcome keeps the intent.
Settled(c, ok, conflict) ==
    CASE c.run = "ok"           -> {ok}
      [] c.run = "refused"      -> {Gone(c)} \cup conflict
      [] c.run = "unauthorized" -> {[Gone(c) EXCEPT !.ready = FALSE, !.placed = FALSE,
                                                    !.error = "unauthorized"]}
      [] c.run = "unknown"      -> {Done(c)}

CartSettled(c) ==
    Settled(c, [Gone(c) EXCEPT !.ready = TRUE, !.error = "none"], {Loading(Gone(c))})
CheckoutSettled(c) ==
    Settled(c, [Gone(c) EXCEPT !.placed = @ \/ Path(c.key) = "orders"], {})
OrdersSettled(c) ==
    Settled(c, [Gone(c) EXCEPT !.ready = TRUE], {Loading(Gone(c))})
SupportSettled(c) == Settled(c, Loading(Gone(c)), {Loading(Gone(c))})
WalletSettled(c)  == Settled(c, Loading(Gone(c)), {Loading(Gone(c))})

ScopeSettled(c) ==
    CASE c.scope = "cart"     -> CartSettled(c)
      [] c.scope = "checkout" -> CheckoutSettled(c)
      [] c.scope = "orders"   -> OrdersSettled(c)
      [] c.scope = "support"  -> SupportSettled(c)
      [] c.scope = "wallet"   -> WalletSettled(c)

\* The session token goes with the first 401 of any request.
Told(answer, k) ==
    /\ token' = IF answer = "unauthorized" THEN "none" ELSE token
    /\ outcome' = IF answer = "unknown" THEN outcome ELSE [outcome EXCEPT ![k] = "known"]
    /\ UNCHANGED <<windowOpen, sent, executed, link>>

Settle(i) ==
    LET c == ctl[i] IN
    /\ c.run \in Answers /\ c.scope # "incidents"
    /\ IF c.run = "unknown" THEN UNCHANGED <<stored, photos>> ELSE Clear(c.key)
    /\ Told(c.run, c.key)
    /\ \E d \in IF Current(c, "run") THEN ScopeSettled(c)
                 ELSE {Kept([c EXCEPT !.run = "none", !.key = NoKey])} :
         ctl' = [ctl EXCEPT ![i] = d]
    /\ UNCHANGED intents

-----------------------------------------------------------------------------
(* The incident screen goes on from an answer to the next command: from the *)
(* photograph to the report, and to its removal when no report will come.   *)

Asleep(c) == Kept([c EXCEPT !.run = "none", !.key = NoKey])

\* The next command of evidence e replaces the record of key c.key.
Advance(c, p, e, k) ==
    /\ stored = c.key
    /\ stored' = k
    /\ intents' = [intents EXCEPT ![k] = [path |-> p, photo |-> c.snap, evidence |-> e]]
    /\ UNCHANGED photos

\* The photograph arrived: report it, or have it removed after the window.
EvidenceStored(i) ==
    LET c == ctl[i]
        next == IF windowOpen /\ c.snap # NoPhoto THEN "report" ELSE "discard"
    IN  /\ c.run = "ok" /\ Path(c.key) = "evidence" /\ Current(c, "run")
        /\ Told("ok", c.key)
        /\ \/ \E k \in Fresh : /\ Advance(c, next, c.key, k)
                                /\ ctl' = [ctl EXCEPT ![i] = Running(Done(c), k)]
           \/ /\ ctl' = [ctl EXCEPT ![i] = Done(c)]    \* the record was not replaced
              /\ UNCHANGED <<stored, intents, photos>>

\* The report is not accepted: its photograph is to be removed, at once
\* unless a new session is needed first.
ReportRefused(i) ==
    LET c == ctl[i] IN
    /\ c.run \in {"refused", "unauthorized"} /\ Path(c.key) = "report"
    /\ Told(c.run, c.key)
    /\ \E k \in Fresh :
         /\ Advance(c, "discard", intents[c.key].evidence, k)
         /\ LET d == [c EXCEPT !.intent = k] IN
            ctl' = [ctl EXCEPT ![i] =
                IF ~Current(c, "run") THEN Asleep(d)
                ELSE IF c.run = "refused" THEN Running(Done(d), k)
                ELSE [Done(d) EXCEPT !.ready = FALSE, !.error = "unauthorized"]]

\* Answers the screen does not go on from; a removal that needs a new session
\* is kept, and so is the record of a screen that was left before its "ok".
Final(c) ==
    \/ c.run = "ok" /\ Path(c.key) # "evidence" /\ Current(c, "run")
    \/ c.run = "refused"
    \/ c.run = "unauthorized" /\ Path(c.key) # "discard"

IncidentsAnswered(c) ==
    LET gone == [Gone(c) EXCEPT !.snap = NoPhoto]
        bare == [gone EXCEPT !.draft = NoPhoto]
        reported == Path(c.key) \in {"report", "confirm-collection"}
    IN  CASE c.run = "ok"      -> {IF reported THEN Loading(bare) ELSE bare}
          [] c.run = "refused" -> {IF reported THEN gone ELSE bare}
                                  \cup (IF Path(c.key) = "discard" THEN {}
                                        ELSE {Loading(IF reported THEN gone ELSE bare)})
          [] c.run = "unauthorized" -> {[bare EXCEPT !.ready = FALSE, !.error = "unauthorized"]}

IncidentsSettle(i) ==
    LET c == ctl[i] IN
    /\ c.run \in Answers /\ c.scope = "incidents"
    /\ ~(c.run = "ok" /\ Path(c.key) = "evidence" /\ Current(c, "run"))
    /\ Told(c.run, c.key)
    /\ IF Final(c) THEN Clear(c.key) ELSE UNCHANGED <<stored, photos>>
    /\ \E d \in IF ~Current(c, "run") THEN {Asleep(c)}
                 ELSE IF Final(c) THEN IncidentsAnswered(c)
                 ELSE IF c.run = "unknown" THEN {Done(c)}
                 ELSE {[Done(c) EXCEPT !.ready = FALSE, !.error = "unauthorized"]} :
         ctl' = [ctl EXCEPT ![i] = d]
    /\ UNCHANGED intents

\* The file is copied into the app's directory; the photo it replaces goes.
PickPhoto(i, p) ==
    LET c == ctl[i] IN
    /\ c.scope = "incidents" /\ Idle(c) /\ c.ready /\ windowOpen
    /\ p \notin photos
    /\ photos' = (photos \ {c.draft}) \cup {p}
    /\ ctl' = [ctl EXCEPT ![i].draft = p]
    /\ UNCHANGED <<stored, intents, serverVars, clientVars>>

-----------------------------------------------------------------------------
(* Screens, links and the life of the process (App.tsx). *)

Browsing == \A i \in Controllers : ~ctl[i].active
AllStopped == [i \in Controllers |-> Stopped(ctl[i])]

Open(i, s) ==
    /\ Browsing /\ ctl[i] = NoCtl
    /\ ctl' = [ctl EXCEPT ![i] = Started(s)]
    /\ UNCHANGED <<stored, intents, photos, serverVars, clientVars>>

\* The back buttons: two screens may be left in the middle of a request.
MayLeave(c) == c.scope \in {"support", "wallet"} \/ (~c.busy /\ c.intent = NoKey)
Leave(i) ==
    /\ ctl[i].active /\ MayLeave(ctl[i])
    /\ ctl' = [ctl EXCEPT ![i] = Stopped(@)]
    /\ UNCHANGED <<stored, intents, photos, serverVars, clientVars>>

\* The button for a new session is there whenever the screen shows a 401.
LeaveToLogin(i) ==
    /\ ctl[i].active /\ ctl[i].error = "unauthorized"
    /\ ctl' = [ctl EXCEPT ![i] = Stopped(@)]
    /\ UNCHANGED <<stored, intents, photos, serverVars, clientVars>>

\* A link asks the store first: a pending command keeps or takes the screen.
LinkArrives ==
    /\ ~link
    /\ \/ stored = NoKey /\ link' = TRUE /\ UNCHANGED ctl
       \/ /\ stored # NoKey
          /\ \A i \in Controllers : ctl[i].active => ctl[i].scope # ScopeOf(stored)
          /\ \E i \in Controllers : /\ AllStopped[i] = NoCtl
                                   /\ ctl' = [AllStopped EXCEPT ![i] = Started(ScopeOf(stored))]
          /\ UNCHANGED link
    /\ UNCHANGED <<stored, intents, photos, serverVars, outcome>>

LinkOpens ==
    /\ link /\ link' = FALSE
    /\ ctl' = AllStopped
    /\ UNCHANGED <<stored, intents, photos, serverVars, outcome>>

\* The process dies and starts again: on the screen of the stored command, or
\* on the public pages if the store cannot be read.
Restart ==
    /\ photos' \in {photos, IF stored = NoKey THEN {} ELSE photos \cap {intents[stored].photo}}
    /\ link' = FALSE
    /\ \/ ctl' = [i \in Controllers |-> NoCtl]
       \/ /\ stored # NoKey
          /\ \E i \in Controllers :
               ctl' = [j \in Controllers |-> IF j = i THEN Started(ScopeOf(stored)) ELSE NoCtl]
    /\ UNCHANGED <<stored, intents, serverVars, outcome>>

Revoke ==
    /\ token = "valid" /\ token' = "revoked"
    /\ UNCHANGED <<stored, intents, photos, ctl, windowOpen, sent, executed, clientVars>>

SignIn ==
    /\ Browsing /\ token # "valid" /\ token' = "valid"
    /\ UNCHANGED <<stored, intents, photos, ctl, windowOpen, sent, executed, clientVars>>

CloseWindow ==
    /\ windowOpen /\ windowOpen' = FALSE
    /\ UNCHANGED <<stored, intents, photos, ctl, token, sent, executed, clientVars>>

Step(i) ==
    \/ Resume(i) \/ IncidentsRestored(i) \/ Loaded(i) \/ Refresh(i)
    \/ \E p \in Paths : \E k \in Fresh : Begin(i, k, p)
    \/ Retry(i) \/ RetryNeedsOrder(i) \/ GiveUpEvidence(i) \/ Save(i)
    \/ NoAnswer(i) \/ Settle(i) \/ EvidenceStored(i) \/ ReportRefused(i) \/ IncidentsSettle(i)
    \/ \E p \in Photos : PickPhoto(i, p)
    \/ \E s \in scenario.screens : Open(i, s)
    \/ Leave(i) \/ LeaveToLogin(i)

MobileNext ==
    /\ scenario' = scenario
    /\ \/ \E i \in Controllers : Step(i)
       \/ \E k \in Keys : Serve(k) \/ Lose(k)
       \/ LinkArrives \/ LinkOpens \/ Restart \/ Revoke \/ SignIn \/ CloseWindow

MobileSpec == MobileInit /\ [][MobileNext]_vars

-----------------------------------------------------------------------------
(* Properties. *)

\* Whatever dies, is left or is answered late: a posted command without a
\* definite answer is the one in the store, so it is sent again under its key
\* after any restart and no other command is posted before
\* (pending-commerce.ts save, clear, restore).
Recoverable == \A k \in Keys : outcome[k] = "unsure" => stored = k

\* The epochs of reads and commands cross without leaving a screen busy for
\* ever: a busy screen waits for a flow of its current epoch.
BusyHasWork ==
    \A i \in Controllers : ctl[i].busy /\ ctl[i].active =>
        \/ Current(ctl[i], "load") /\ ctl[i].load = "list"
        \/ Current(ctl[i], "run") /\ Locked(ctl[i])

=============================================================================
