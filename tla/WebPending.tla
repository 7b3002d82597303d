----------------------------- MODULE WebPending -----------------------------
(***************************************************************************)
(* One tab of the web marketplace: the session stores of unresolved        *)
(* commands (web-pending-*.ts), the panels of the buyer, the seller, the   *)
(* support and the administrator that store, post, retry and clear them,   *)
(* the gateway routes between browser and service, and the service.  The   *)
(* tab may be reloaded and left at any moment, an answer may be lost on    *)
(* either side of the gateway, a request given up on may run late.         *)
(***************************************************************************)
EXTENDS Naturals, FiniteSets

CONSTANTS
    Keys, NoKey,        \* identities of the commands the user gives
    Flights,            \* requests the tab has under way at a time
    Scenarios           \* pages, commands in play and how many are given

-----------------------------------------------------------------------------
(* What the stores accept: the mutations of each panel. *)

ProductActs        == {"add to cart"}
CartActs           == {"set quantity"}
CheckoutActs       == {"address", "quote", "order"}
OrdersActs         == {"cancel", "pickup"}
WalletActs         == {"withdraw", "withdrawal cancel"}
AccountActs        == {"buyer ticket", "buyer read"}
SellerOpsActs      == {"order state", "contact", "visit"}
SellerBusinessActs == {"offer", "new offer", "service", "new service", "seller ticket", "seller read"}
DecisionActs       == {"decide"}
OperationActs      == {"unavailability", "sla"}
ReplyActs          == {"reply"}
AdminOpsActs       == {"permission", "content", "publish", "organization", "member", "revoke",
                       "fee", "household", "program", "credit", "settlements", "withdrawal sla"}
AdminSellersActs   == {"review", "activate", "suspend", "reinstate"}
OutcomeActs        == {"outcome"}
RetentionActs      == {"purge"}
TrainingActs       == {"train"}

BuyerPanels   == {"cart", "checkout", "orders", "wallet", "account"}
SellerPanels  == {"sellerOps", "sellerBusiness"}
SupportPanels == {"supportView", "supportTickets"}
AdminPanels   == {"adminOps", "adminSellers", "outcomes", "retention", "training"}
Panels == {"product"} \cup BuyerPanels \cup SellerPanels \cup SupportPanels \cup AdminPanels

ActsOf(p) ==
    CASE p = "product"        -> ProductActs
      [] p = "cart"           -> CartActs
      [] p = "checkout"       -> CheckoutActs
      [] p = "orders"         -> OrdersActs
      [] p = "wallet"         -> WalletActs
      [] p = "account"        -> AccountActs
      [] p = "sellerOps"      -> SellerOpsActs
      [] p = "sellerBusiness" -> SellerBusinessActs
      [] p = "supportView"    -> DecisionActs \cup OperationActs
      [] p = "supportTickets" -> ReplyActs
      [] p = "adminOps"       -> AdminOpsActs
      [] p = "adminSellers"   -> AdminSellersActs
      [] p = "outcomes"       -> OutcomeActs
      [] p = "retention"      -> RetentionActs
      [] p = "training"       -> TrainingActs

Acts == UNION {ActsOf(p) : p \in Panels}

ASSUME WebAssumption ==
    /\ NoKey \notin Keys
    /\ Scenarios \subseteq [pages : SUBSET (SUBSET Panels), acts : SUBSET Acts, commands : Nat]

\* The lists of a panel, each read by itself; a list shows the commands that
\* are possible in what it shows.
ListOf(a) ==
    CASE a \in {"contact", "visit"}       -> "returns"
      [] a = "order state"                -> "orders"
      [] a = "offer"                      -> "offers"
      [] a = "service"                    -> "services"
      [] a \in {"seller ticket", "buyer ticket", "reply"} -> "tickets"
      [] a \in {"seller read", "buyer read"} -> "notifications"
      [] a \in AdminSellersActs           -> "detail"
      [] OTHER                            -> "main"

Stores == {"none", "buyer", "seller", "decision", "operation",
           "adminOps", "adminSellers", "outcomes", "retention", "training"}
StoreOf(p, a) ==
    CASE p = "product"         -> "none"
      [] p \in BuyerPanels     -> "buyer"
      [] p \in SellerPanels    -> "seller"
      [] p \in SupportPanels   -> IF a \in DecisionActs THEN "decision" ELSE "operation"
      [] p \in AdminPanels     -> p

VARIABLES
    store,      \* the key of the record in each store
    cmd,        \* what each key stands for
    panel,      \* the panels on the page
    flights,    \* requests whose answer the tab awaits
    late,       \* requests nobody awaits that may still reach the service
    possible,   \* the commands the service's state permits
    executed,   \* the commands it executed
    outcome,    \* what the tab has been told of each command
    scenario    \* the one of this behaviour

vars == <<store, cmd, panel, flights, late, possible, executed, outcome, scenario>>

Answers == {"ok", "refused", "conflict", "unauthorized", "unknown", "dropped"}
NoCmd == [panel |-> "none", act |-> "none"]
NoFlight == [key |-> NoKey, panel |-> "none", live |-> FALSE, answer |-> "none"]
NoPanel == [on |-> FALSE, active |-> FALSE, loading |-> {}, ready |-> {}, denied |-> FALSE,
            offered |-> {}, pending |-> NoKey, decision |-> NoKey, busy |-> FALSE,
            locked |-> FALSE, frozen |-> FALSE]

Lists == {ListOf(a) : a \in Acts}
Panel == [on : BOOLEAN,
          active : BOOLEAN,               \* the seller asked for the panel's data
          loading : SUBSET Lists,         \* lists being read
          ready : SUBSET Lists,           \* lists on the screen
          denied : BOOLEAN,               \* the account may not use the panel
          offered : SUBSET Acts,          \* commands possible in the lists shown
          pending : Keys \cup {NoKey},    \* the unresolved command
          decision : Keys \cup {NoKey},   \* supportView: the unresolved decision
          busy : BOOLEAN,
          locked : BOOLEAN,               \* storageFailure
          frozen : BOOLEAN]               \* supportTickets: a decision is unresolved

\* The panels of the behaviour's pages; the support view brings its tickets.
InPlay == (UNION scenario.pages) \cup
          (IF {"supportView"} \in scenario.pages THEN {"supportTickets"} ELSE {})

WebTypeOK ==
    /\ store \in [Stores -> Keys \cup {NoKey}]
    /\ cmd \in [Keys -> [panel : Panels, act : Acts] \cup {NoCmd}]
    /\ panel \in [InPlay -> Panel]
    /\ flights \in [Flights -> [key : Keys, panel : Panels, live : BOOLEAN,
                                answer : Answers \cup {"none"}] \cup {NoFlight}]
    /\ late \subseteq Keys /\ executed \subseteq Keys /\ possible \subseteq Acts
    /\ outcome \in [Keys -> {"none", "unsure", "known", "dropped"}]
    /\ scenario \in Scenarios
    /\ \A k \in Keys : k \in late \cup executed => outcome[k] # "none"
    /\ \A p \in BuyerPanels \cap InPlay :     \* a page restores its own commands only
          panel[p].pending # NoKey => cmd[panel[p].pending].panel = p

WebInit ==
    /\ scenario \in Scenarios
    /\ store = [s \in Stores |-> NoKey]
    /\ cmd = [k \in Keys |-> NoCmd]
    /\ panel = [p \in InPlay |-> NoPanel]
    /\ flights = [f \in Flights |-> NoFlight]
    /\ late = {} /\ executed = {}
    /\ possible = scenario.acts \ {"activate", "suspend", "reinstate"}
    /\ outcome = [k \in Keys |-> "none"]

ListsOf(p) == {ListOf(a) : a \in ActsOf(p) \cap scenario.acts} \cup
              (IF p \in {"supportView", "adminSellers"} THEN {"main"} ELSE {})
Given == {k \in Keys : cmd[k] # NoCmd}
StoreFor(k) == StoreOf(cmd[k].panel, cmd[k].act)

-----------------------------------------------------------------------------
(* The stores.  A record is never overwritten by another command's, and     *)
(* only the command it is about removes it.                                 *)

Vacant(s, k) == store[s] \in {NoKey, k}

BuyerOverwrites(k)      == TRUE
BuyerPersists(k)        == Vacant("buyer", k)
SellerPersists(k)       == Vacant("seller", k)
DecisionPersists(k)     == Vacant("decision", k)
OperationPersists(k)    == Vacant("operation", k)
AdminOpsPersists(k)     == Vacant("adminOps", k)
AdminSellersPersists(k) == Vacant("adminSellers", k)
OutcomePersists(k)      == Vacant("outcomes", k)
RetentionPersists(k)    == Vacant("retention", k)
TrainingPersists(k)     == Vacant("training", k)

Persists(s, k) ==
    CASE s = "none"         -> TRUE
      [] s = "buyer"        -> BuyerPersists(k)
      [] s = "seller"       -> SellerPersists(k)
      [] s = "decision"     -> DecisionPersists(k)
      [] s = "operation"    -> OperationPersists(k)
      [] s = "adminOps"     -> AdminOpsPersists(k)
      [] s = "adminSellers" -> AdminSellersPersists(k)
      [] s = "outcomes"     -> OutcomePersists(k)
      [] s = "retention"    -> RetentionPersists(k)
      [] s = "training"     -> TrainingPersists(k)

\* The store after its command's record is saved, and after it is removed.
Saved(s, k)   == IF s = "none" THEN store ELSE [store EXCEPT ![s] = k]
Removed(s, k) == IF store[s] = k THEN [store EXCEPT ![s] = NoKey] ELSE store
Removes(s, k) == s = "none" \/ store[s] \in {NoKey, k}

-----------------------------------------------------------------------------
(* Mounting: what a panel finds in the stores.  `st' are the stores. *)

\* The five buyer pages share one store and cannot read each other's records.
NeverForeign(p, st) == FALSE
Foreign(p, st) == st["buyer"] # NoKey /\ cmd[st["buyer"]].panel # p
BuyerRestored(p, c, st) == IF Foreign(p, st) THEN c ELSE [c EXCEPT !.pending = st["buyer"]]

CartRestored(c, st)     == BuyerRestored("cart", c, st)
CheckoutRestored(c, st) == BuyerRestored("checkout", c, st)
OrdersRestored(c, st)   == BuyerRestored("orders", c, st)
WalletRestored(c, st)   == [BuyerRestored("wallet", c, st) EXCEPT !.busy = Foreign("wallet", st)]
AccountRestored(c, st)  == [BuyerRestored("account", c, st) EXCEPT !.busy = Foreign("account", st)]

\* The dashboard's panels share one store, the first opens for either's record.
SellerOpsRestored(c, st) ==
    [c EXCEPT !.pending = st["seller"], !.active = st["seller"] # NoKey]
SellerBusinessRestored(c, st) ==
    [c EXCEPT !.pending = st["seller"],
              !.active = st["seller"] # NoKey /\ cmd[st["seller"]].panel = "sellerBusiness"]

\* Two unresolved support commands are one too many.
SupportViewRestored(c, st) ==
    IF st["decision"] # NoKey /\ st["operation"] # NoKey THEN [c EXCEPT !.locked = TRUE]
    ELSE [c EXCEPT !.decision = st["decision"], !.pending = st["operation"]]
SupportTicketsRestored(c, st) ==
    [c EXCEPT !.frozen = st["decision"] # NoKey, !.pending = st["operation"]]

AdminOpsRestored(c, st)     == [c EXCEPT !.pending = st["adminOps"]]
AdminSellersRestored(c, st) == [c EXCEPT !.pending = st["adminSellers"]]
OutcomesRestored(c, st)     == [c EXCEPT !.pending = st["outcomes"]]
RetentionRestored(c, st)    == [c EXCEPT !.pending = st["retention"]]
TrainingRestored(c, st)     == [c EXCEPT !.pending = st["training"]]

Restored(p, c, st) ==
    CASE p = "product"        -> c
      [] p = "cart"           -> CartRestored(c, st)
      [] p = "checkout"       -> CheckoutRestored(c, st)
      [] p = "orders"         -> OrdersRestored(c, st)
      [] p = "wallet"         -> WalletRestored(c, st)
      [] p = "account"        -> AccountRestored(c, st)
      [] p = "sellerOps"      -> SellerOpsRestored(c, st)
      [] p = "sellerBusiness" -> SellerBusinessRestored(c, st)
      [] p = "supportView"    -> SupportViewRestored(c, st)
      [] p = "supportTickets" -> SupportTicketsRestored(c, st)
      [] p = "adminOps"       -> AdminOpsRestored(c, st)
      [] p = "adminSellers"   -> AdminSellersRestored(c, st)
      [] p = "outcomes"       -> OutcomesRestored(c, st)
      [] p = "retention"      -> RetentionRestored(c, st)
      [] p = "training"       -> TrainingRestored(c, st)

\* Reading lists takes them off the screen first.
Reads(c, ls) == [c EXCEPT !.loading = @ \cup ls, !.ready = @ \ ls,
                          !.offered = {a \in @ : ListOf(a) \notin ls}]
ReadAtOnce(p) == IF p \in {"retention", "training"} THEN {} ELSE ListsOf(p)
ReadsAll(p, c) == IF c.active THEN Reads(c, ReadAtOnce(p)) ELSE c

Mounted(p, st) ==
    LET c == [NoPanel EXCEPT !.on = TRUE, !.active = p \notin SellerPanels]
    IN  ReadsAll(p, Restored(p, c, st))

\* The support page shows its tickets only beside a list of incidents.
WithTickets(pn, st) ==
    IF "supportView" \notin InPlay THEN pn
    ELSE LET view == pn["supportView"] IN
         IF ~view.on THEN pn
         ELSE [pn EXCEPT !["supportTickets"] =
                   IF "main" \notin view.ready \/ view.locked THEN NoPanel
                   ELSE IF @.on THEN @ ELSE Mounted("supportTickets", st)]

\* Panels that share a store hear of every change of it.
SellerDeaf(c, st)   == c
SellerHears(c, st)  == [c EXCEPT !.pending = st["seller"]]
ViewHears(c, st)    == [c EXCEPT !.pending = st["operation"]]
TicketsDeafToDecisions(c, st) ==
    [c EXCEPT !.pending = IF st["operation"] # store["operation"] THEN st["operation"] ELSE @]
TicketsHear(c, st) ==
    [c EXCEPT !.pending = IF st["operation"] # store["operation"] THEN st["operation"] ELSE @,
              !.frozen  = IF st["decision"] # store["decision"] THEN st["decision"] # NoKey ELSE @]

Hears(p, c, st) ==
    IF ~c.on THEN c ELSE
    CASE p \in SellerPanels /\ st["seller"] # store["seller"] -> SellerHears(c, st)
      [] p = "supportView" /\ st["operation"] # store["operation"] -> ViewHears(c, st)
      [] p = "supportTickets" -> TicketsHear(c, st)
      [] OTHER -> c
Told(st) == [p \in InPlay |-> Hears(p, panel[p], st)]

\* A request outlives the panel that sent it.
Orphaned(pn, fl) ==
    [f \in Flights |-> [fl[f] EXCEPT !.live = @ /\ pn[fl[f].panel].on]]

-----------------------------------------------------------------------------
(* Giving a command: the handlers with the conditions of their controls. *)

\* Forms are on the page whatever the lists show.
FormActs == {"withdraw", "buyer ticket", "new offer", "new service", "seller ticket", "sla"}
            \cup AdminOpsActs
Offers(c, a) == a \in c.offered \/ a \in FormActs

Idle(c) == ~c.busy /\ c.pending = NoKey

AddToCart(c)          == Idle(c) /\ Offers(c, "add to cart")
SetQuantity(c)        == Idle(c) /\ Offers(c, "set quantity")
SaveAddress(c)        == Idle(c) /\ Offers(c, "address")
RequestQuote(c)       == Idle(c) /\ Offers(c, "quote")
PlaceOrder(c)         == Idle(c) /\ Offers(c, "order")
ChangeOrder(c, a)     == Idle(c) /\ Offers(c, a)
RequestWithdrawal(c)  == Idle(c)
CancelWithdrawal(c)   == Idle(c) /\ Offers(c, "withdrawal cancel")
OpenBuyerTicket(c)    == Idle(c)
MarkBuyerRead(c)      == Idle(c) /\ Offers(c, "buyer read")
AdvanceOrder(c)       == c.active /\ Idle(c) /\ Offers(c, "order state")
RecordReturn(c, a)    == c.active /\ Idle(c) /\ Offers(c, a)
SaveOffer(c)          == c.active /\ Idle(c) /\ Offers(c, "offer")
CreateOffer(c)        == c.active /\ Idle(c)
SaveService(c)        == c.active /\ Idle(c) /\ Offers(c, "service")
CreateService(c)      == c.active /\ Idle(c)
MarkSellerRead(c)     == c.active /\ Idle(c) /\ Offers(c, "seller read")
OpenSellerTicket(c)   == c.active /\ Idle(c)
Operate(c)            == Idle(c)
Review(c)             == Idle(c) /\ Offers(c, "review")
ActivateSeller(c)     == Idle(c) /\ Offers(c, "activate")
SuspendSeller(c)      == Idle(c) /\ Offers(c, "suspend")
ReinstateSeller(c)    == Idle(c) /\ Offers(c, "reinstate")
RecordOutcome(c)      == Idle(c) /\ Offers(c, "outcome")
StartPurge(c)         == Idle(c) /\ Offers(c, "purge")
StartTraining(c)      == Idle(c) /\ Offers(c, "train")

\* Support commands are given and repeated by the same control: with nothing
\* pending it gives a command, with its own command pending it repeats it.
Decide(c, own)            == ~c.busy /\ c.pending = NoKey /\ Offers(c, "decide") /\ c.decision = own
VerifyUnavailable(c, own) == ~c.busy /\ c.decision = NoKey /\ Offers(c, "unavailability") /\ c.pending = own
AssessReturnSla(c, own)   == ~c.busy /\ c.decision = NoKey /\ c.pending = own
ReplyToTicket(c, own)     == ~c.busy /\ ~c.frozen /\ Offers(c, "reply") /\ c.pending = own

SupportControl(a, c, own) ==
    CASE a = "decide"         -> Decide(c, own)
      [] a = "unavailability" -> VerifyUnavailable(c, own)
      [] a = "sla"            -> AssessReturnSla(c, own)
      [] a = "reply"          -> ReplyToTicket(c, own)

Usable(c) == c.on /\ ~c.locked /\ ~c.denied

CanGive(a, c) ==
    Usable(c) /\
    CASE a = "add to cart"       -> AddToCart(c)
      [] a = "set quantity"      -> SetQuantity(c)
      [] a = "address"           -> SaveAddress(c)
      [] a = "quote"             -> RequestQuote(c)
      [] a = "order"             -> PlaceOrder(c)
      [] a \in OrdersActs        -> ChangeOrder(c, a)
      [] a = "withdraw"          -> RequestWithdrawal(c)
      [] a = "withdrawal cancel" -> CancelWithdrawal(c)
      [] a = "buyer ticket"      -> OpenBuyerTicket(c)
      [] a = "buyer read"        -> MarkBuyerRead(c)
      [] a = "order state"       -> AdvanceOrder(c)
      [] a \in {"contact", "visit"} -> RecordReturn(c, a)
      [] a = "offer"             -> SaveOffer(c)
      [] a = "new offer"         -> CreateOffer(c)
      [] a = "service"           -> SaveService(c)
      [] a = "new service"       -> CreateService(c)
      [] a = "seller read"       -> MarkSellerRead(c)
      [] a = "seller ticket"     -> OpenSellerTicket(c)
      [] a \in DecisionActs \cup OperationActs \cup ReplyActs -> SupportControl(a, c, NoKey)
      [] a \in AdminOpsActs      -> Operate(c)
      [] a = "review"            -> Review(c)
      [] a = "activate"          -> ActivateSeller(c)
      [] a = "suspend"           -> SuspendSeller(c)
      [] a = "reinstate"         -> ReinstateSeller(c)
      [] a = "outcome"           -> RecordOutcome(c)
      [] a = "purge"             -> StartPurge(c)
      [] a = "train"             -> StartTraining(c)

\* The control that repeats the unresolved command k.
BuyerPageRepeats(c)   == "main" \in c.ready
AccountRepeats(c)     == TRUE
SellerRepeats(p, k)   == cmd[k].panel = p
AdminRepeats(c)       == TRUE

CanRepeat(p, c, k) ==
    /\ Usable(c) /\ ~c.busy /\ c.active
    /\ CASE p \in SupportPanels -> cmd[k].panel = p /\ SupportControl(cmd[k].act, c, k)
         [] OTHER -> /\ c.pending = k
                     /\ CASE p \in {"product", "cart", "checkout", "orders"} -> BuyerPageRepeats(c)
                          [] p \in {"wallet", "account"} -> AccountRepeats(c)
                          [] p \in SellerPanels -> SellerRepeats(p, k)
                          [] p \in AdminPanels -> AdminRepeats(c)

\* The panel once the command is saved and posted, and when saving failed:
\* buyer pages keep the command they could not save, the others lock.
Begun(p, c, k, a) ==
    IF p = "supportView" /\ a \in DecisionActs
    THEN [c EXCEPT !.decision = k, !.busy = TRUE]
    ELSE [c EXCEPT !.pending = k, !.busy = TRUE]

PageUnsaved(c, k)    == [c EXCEPT !.pending = k, !.ready = {}, !.offered = {}]
AccountUnsaved(c, k) == [c EXCEPT !.pending = k]
OutcomeUnsaved(c)    == c
Unsaved(p, c, k) ==
    CASE p \in {"cart", "checkout", "orders"} -> PageUnsaved(c, k)
      [] p \in {"wallet", "account"} -> AccountUnsaved(c, k)
      [] p = "outcomes" -> OutcomeUnsaved(c)
      [] OTHER -> [c EXCEPT !.locked = TRUE]

\* Post the command k, an a of panel p, with the stores st.
Post(p, k, a, st) ==
    /\ store' = st
    /\ panel' = WithTickets([Told(st) EXCEPT ![p] = Begun(p, @, k, a)], st)
    /\ \E f \in Flights :
          /\ flights[f] = NoFlight
          /\ flights' = [flights EXCEPT ![f] =
                            [key |-> k, panel |-> p, live |-> TRUE, answer |-> "none"]]
    /\ outcome' = [outcome EXCEPT ![k] = IF @ = "none" THEN "unsure" ELSE @]

DoesNotSave(p, k) ==
    /\ panel' = WithTickets([panel EXCEPT ![p] = Unsaved(p, @, k)], store)
    /\ UNCHANGED <<store, flights, outcome>>

Give(p, a, k, saves) ==
    LET s == StoreOf(p, a) IN
    /\ cmd[k] = NoCmd /\ Cardinality(Given) < scenario.commands
    /\ a \in ActsOf(p) \cap scenario.acts /\ CanGive(a, panel[p])
    /\ cmd' = [cmd EXCEPT ![k] = [panel |-> p, act |-> a]]
    /\ saves => Persists(s, k)
    /\ s = "none" => saves
    /\ IF saves THEN Post(p, k, a, Saved(s, k)) ELSE DoesNotSave(p, k)
    /\ UNCHANGED <<late, possible, executed, scenario>>

\* Buyer and support panels save again what they repeat, the others only post.
SavesAgain(p) == p \in BuyerPanels \cup SupportPanels

Repeat(p, k, saves) ==
    LET s == StoreFor(k) IN
    /\ cmd[k] # NoCmd /\ CanRepeat(p, panel[p], k)
    /\ saves => ~SavesAgain(p) \/ Persists(s, k)
    /\ ~saves => SavesAgain(p) /\ ~Persists(s, k)
    /\ IF saves THEN Post(p, k, cmd[k].act, IF SavesAgain(p) THEN Saved(s, k) ELSE store)
       ELSE DoesNotSave(p, k)
    /\ UNCHANGED <<cmd, late, possible, executed, scenario>>

-----------------------------------------------------------------------------
(* The gateway and the service.  A gateway relays the definite refusals of  *)
(* the service; what fails or cannot be read it reports as unknown.         *)

Relayed(status)               == IF status = "failed" THEN "unknown" ELSE status
BuyerForwarded(status)        == Relayed(status)
StaffForwarded(status)        == Relayed(status)
AdminOpsForwarded(status)     == Relayed(status)
AdminSellersForwarded(status) == Relayed(status)
OutcomesForwarded(status)     == Relayed(status)
RetentionForwarded(status)    == Relayed(status)
ResearchForwarded(status)     == Relayed(status)

Forwarded(p, status) ==
    CASE p \in {"product"} \cup BuyerPanels -> BuyerForwarded(status)
      [] p \in SellerPanels \cup SupportPanels -> StaffForwarded(status)
      [] p = "adminOps"     -> AdminOpsForwarded(status)
      [] p = "adminSellers" -> AdminSellersForwarded(status)
      [] p = "outcomes"     -> OutcomesForwarded(status)
      [] p = "retention"    -> RetentionForwarded(status)
      [] p = "training"     -> ResearchForwarded(status)

\* A request without any answer: buyerPost and staffPost say 503, the
\* administrator's pages let the error of fetch through.
BuyerPostFails == "unknown"
StaffPostFails == "unknown"
FetchFails     == "dropped"
PostFails(p) ==
    CASE p \in AdminPanels -> FetchFails
      [] p \in SellerPanels \cup SupportPanels -> StaffPostFails
      [] OTHER -> BuyerPostFails

\* Commands that can run once, and what they make possible.
OneShot == {"cancel", "pickup", "withdrawal cancel", "buyer read", "seller read", "order state",
            "contact", "visit", "decide", "unavailability", "reply"} \cup AdminSellersActs
Enables(a) ==
    CASE a = "review"   -> {"activate"}
      [] a \in {"activate", "reinstate"} -> {"suspend"}
      [] a = "suspend"  -> {"reinstate"}
      [] OTHER          -> {}
After(a) == (possible \ (IF a \in OneShot THEN {a} ELSE {})) \cup (Enables(a) \cap scenario.acts)

\* The service runs a command once and answers a repeated key as it did before.
Runs(k) ==
    /\ k \notin executed /\ cmd[k].act \in possible
    /\ executed' = executed \cup {k}
    /\ possible' = After(cmd[k].act)

Statuses(k) ==
    {"unauthorized", "failed",
     IF k \in executed THEN "ok" ELSE IF cmd[k].act \in possible THEN "refused" ELSE "conflict"}

Answer(f, answer) == flights' = [flights EXCEPT ![f].answer = answer]

Serve(f) ==
    LET fl == flights[f] IN
    /\ fl # NoFlight /\ fl.answer = "none"
    /\ \/ /\ Runs(fl.key)
          /\ \E status \in {"ok", "failed"} : Answer(f, Forwarded(fl.panel, status))
       \/ /\ \E status \in Statuses(fl.key) : Answer(f, Forwarded(fl.panel, status))
          /\ UNCHANGED <<executed, possible>>
    /\ UNCHANGED <<store, cmd, panel, late, outcome, scenario>>

\* The gateway's patience ends, or the browser loses the connection.
TimesOut(f) ==
    LET fl == flights[f] IN
    /\ fl # NoFlight /\ fl.answer = "none"
    /\ \/ Answer(f, Forwarded(fl.panel, "failed"))
       \/ Answer(f, PostFails(fl.panel))
    /\ late' = late \cup {fl.key}
    /\ UNCHANGED <<store, cmd, panel, possible, executed, outcome, scenario>>

Late(k) ==
    /\ k \in late
    /\ late' = late \ {k}
    /\ Runs(k) \/ UNCHANGED <<executed, possible>>
    /\ UNCHANGED <<store, cmd, panel, flights, outcome, scenario>>

\* Somebody else does what this tab could have done.
Elsewhere(a) ==
    /\ a \in possible \cap OneShot
    /\ possible' = After(a)
    /\ UNCHANGED <<store, cmd, panel, flights, late, executed, outcome, scenario>>

-----------------------------------------------------------------------------
(* The answer arrives.  A panel that is gone still clears its record. *)

PageClears(fl)    == fl.answer # "unknown"
AccountClears(fl) == fl.answer = "ok" \/ (fl.live /\ fl.answer # "unknown")
PanelClears(fl)   == fl.answer # "unknown"
Clears(fl) == IF fl.panel \in {"wallet", "account"} THEN AccountClears(fl)
              ELSE IF fl.panel \in BuyerPanels THEN PageClears(fl)
              ELSE PanelClears(fl)

Free(c)     == [c EXCEPT !.busy = FALSE, !.pending = NoKey]
Kept(c, k)  == [c EXCEPT !.busy = FALSE, !.pending = k]
Lock(c)     == [c EXCEPT !.busy = FALSE, !.locked = TRUE]
Hidden(c)   == [c EXCEPT !.ready = {}, !.offered = {}]

CartSettled(c, fl) ==
    CASE fl.answer = "unauthorized" -> Hidden(Free(c))
      [] fl.answer = "conflict"     -> Reads(Free(c), {"main"})
      [] OTHER                      -> Free(c)
OrdersSettled(c, fl) ==
    CASE fl.answer = "unauthorized" -> Hidden(Free(c))
      [] fl.answer = "conflict"     -> Reads(Free(c), {"main"})
      [] OTHER                      -> [Free(c) EXCEPT !.offered = @ \cap After(cmd[fl.key].act)]
CheckoutSettled(c, fl) ==
    IF fl.answer = "unauthorized" THEN Hidden(Free(c)) ELSE Free(c)
ProductSettled(c, fl) == Free(c)
WalletSettled(c, fl)  == IF fl.answer \in {"ok", "conflict"} THEN ReadsAll("wallet", Free(c)) ELSE Free(c)
AccountSettled(c, fl) == IF fl.answer \in {"ok", "conflict"} THEN ReadsAll("account", Free(c)) ELSE Free(c)
SellerOpsSettled(c, fl) ==
    IF fl.answer \in {"ok", "conflict"} THEN ReadsAll("sellerOps", Free(c)) ELSE Free(c)
SellerBusinessSettled(c, fl) ==
    IF fl.answer = "ok" THEN Reads(Free(c), {ListOf(cmd[fl.key].act)} \cap ListsOf("sellerBusiness"))
    ELSE Free(c)
Again(c, fl) == IF fl.answer \in {"ok", "conflict"} THEN Reads(c, {"main"}) ELSE c
DecisionSettled(c, fl)       == Again([c EXCEPT !.busy = FALSE, !.decision = NoKey], fl)
UnavailabilitySettled(c, fl) == Again(Free(c), fl)
SlaSettled(c, fl)            == Again(Free(c), fl)
TicketsSettled(c, fl) ==
    IF fl.answer \in {"ok", "conflict"} THEN Reads(Free(c), {"tickets"}) ELSE Free(c)
AdminOpsSettled(c, fl) ==
    IF fl.answer \in {"ok", "conflict"} THEN ReadsAll("adminOps", Free(c)) ELSE Free(c)
AdminSellersSettled(c, fl) ==
    IF fl.answer \in {"ok", "conflict"} THEN ReadsAll("adminSellers", Free(c)) ELSE Free(c)
OutcomesSettled(c, fl)  == Free(c)
RetentionSettled(c, fl) == Hidden(Free(c))      \* another purge needs another preview
TrainingSettled(c, fl)  == IF fl.answer = "unauthorized" THEN Hidden(Free(c)) ELSE Free(c)

Cleared(c, fl) ==
    LET p == fl.panel  a == cmd[fl.key].act IN
    CASE p = "product"        -> ProductSettled(c, fl)
      [] p = "cart"           -> CartSettled(c, fl)
      [] p = "checkout"       -> CheckoutSettled(c, fl)
      [] p = "orders"         -> OrdersSettled(c, fl)
      [] p = "wallet"         -> WalletSettled(c, fl)
      [] p = "account"        -> AccountSettled(c, fl)
      [] p = "sellerOps"      -> SellerOpsSettled(c, fl)
      [] p = "sellerBusiness" -> SellerBusinessSettled(c, fl)
      [] a \in DecisionActs   -> DecisionSettled(c, fl)
      [] a = "unavailability" -> UnavailabilitySettled(c, fl)
      [] a = "sla"            -> SlaSettled(c, fl)
      [] p = "supportTickets" -> TicketsSettled(c, fl)
      [] p = "adminOps"       -> AdminOpsSettled(c, fl)
      [] p = "adminSellers"   -> AdminSellersSettled(c, fl)
      [] p = "outcomes"       -> OutcomesSettled(c, fl)
      [] p = "retention"      -> RetentionSettled(c, fl)
      [] p = "training"       -> TrainingSettled(c, fl)

\* The support view keeps what it had pending, the others set it again.
Unresolved(c, fl) ==
    IF fl.panel = "supportView" THEN [c EXCEPT !.busy = FALSE] ELSE Kept(c, fl.key)

\* Panels other than the buyer's lock when the record they would remove is
\* another command's.
Settled(c, fl) ==
    IF ~fl.live THEN c
    ELSE IF fl.answer = "unknown" THEN Unresolved(c, fl)
    ELSE IF ~Removes(StoreFor(fl.key), fl.key) /\ fl.panel \notin BuyerPanels THEN Lock(c)
    ELSE Cleared(c, fl)

\* After a success the research pages read their history; an unreadable answer
\* lands in the branch of the command's own failure.
HistoryFails(fl) == fl.answer = "ok" /\ fl.live /\ fl.panel \in {"outcomes", "retention"}

Learned(o, fl) ==
    IF o # "unsure" \/ ~Clears(fl) THEN o
    ELSE IF fl.answer = "dropped" THEN "dropped" ELSE "known"

Settle(f, historyFails) ==
    LET fl == flights[f]
        s  == StoreFor(fl.key)
        st == IF Clears(fl) /\ s # "none" THEN Removed(s, fl.key) ELSE store
        c  == Settled(Told(st)[fl.panel], fl)
        pn == [Told(st) EXCEPT ![fl.panel] =
                 IF historyFails THEN Kept(c, fl.key) ELSE c]
        shown == WithTickets(pn, st)
    IN  /\ fl # NoFlight /\ fl.answer # "none"
        /\ historyFails => HistoryFails(fl) /\ ~c.locked
        /\ store' = st
        /\ panel' = shown
        /\ flights' = Orphaned(shown, [flights EXCEPT ![f] = NoFlight])
        /\ outcome' = [outcome EXCEPT ![fl.key] = Learned(@, fl)]
        /\ UNCHANGED <<cmd, late, possible, executed, scenario>>

-----------------------------------------------------------------------------
(* The page: reading, leaving, coming back, reloading. *)

Gated == {"supportView", "adminOps", "adminSellers"}

ReadEnds(p, l, result) ==
    LET c == panel[p]
        d == [c EXCEPT !.loading = @ \ {l}]
        shown == CASE result = "ready"  ->
                        [d EXCEPT !.ready = @ \cup {l},
                                  !.offered = @ \cup {a \in possible \cap ActsOf(p) : ListOf(a) = l}]
                   [] result = "error"  -> d
                   [] result = "denied" -> [d EXCEPT !.denied = TRUE]
    IN  /\ l \in c.loading
        /\ result = "denied" => p \in Gated /\ l = "main"
        /\ panel' = WithTickets([panel EXCEPT ![p] = shown], store)
        /\ UNCHANGED <<store, cmd, flights, late, possible, executed, outcome, scenario>>

\* Refresh buttons and pagers.
MayRead(p, l) ==
    LET c == panel[p] IN
    /\ Usable(c) /\ c.active /\ l \in ListsOf(p) \ c.loading
    /\ CASE p \in {"product", "cart", "checkout"} -> "main" \notin c.ready
         [] p = "orders"         -> "main" \notin c.ready \/ Idle(c)
         [] p \in {"sellerOps", "supportView", "training"} -> ~c.busy
         [] p = "supportTickets" -> Idle(c) /\ ~c.frozen
         [] p = "outcomes"       -> TRUE
         [] OTHER                -> Idle(c)

Read(p, l) ==
    /\ MayRead(p, l)
    /\ LET pn == WithTickets([panel EXCEPT ![p] = Reads(@, {l})], store)
       IN  panel' = pn /\ flights' = Orphaned(pn, flights)
    /\ UNCHANGED <<store, cmd, late, possible, executed, outcome, scenario>>

\* The seller asks for a panel's data; the second panel waits for what is unresolved.
Activate(p) ==
    /\ p \in SellerPanels /\ Usable(panel[p]) /\ ~panel[p].active
    /\ p = "sellerBusiness" => panel[p].pending = NoKey
    /\ panel' = [panel EXCEPT ![p] = ReadsAll(p, [@ EXCEPT !.active = TRUE])]
    /\ UNCHANGED <<store, cmd, flights, late, possible, executed, outcome, scenario>>

OnPage == {p \in InPlay : panel[p].on}
Shows(page) == [p \in InPlay |-> IF p \in page THEN Mounted(p, store) ELSE NoPanel]

Enter(page) ==
    /\ OnPage = {} /\ page \in scenario.pages
    /\ panel' = Shows(page)
    /\ UNCHANGED <<store, cmd, flights, late, possible, executed, outcome, scenario>>

Leave ==
    /\ OnPage # {}
    /\ panel' = [p \in InPlay |-> NoPanel]
    /\ flights' = Orphaned(panel', flights)
    /\ UNCHANGED <<store, cmd, late, possible, executed, outcome, scenario>>

\* Nobody waits any more for the requests of the page that was reloaded.
Reload ==
    /\ OnPage # {}
    /\ panel' = Shows(OnPage \ {"supportTickets"})
    /\ late' = late \cup {flights[f].key : f \in {g \in Flights :
                               flights[g] # NoFlight /\ flights[g].answer = "none"}}
    /\ flights' = [f \in Flights |-> NoFlight]
    /\ UNCHANGED <<store, cmd, possible, executed, outcome, scenario>>

WebNext ==
    \/ \E p \in OnPage, k \in Keys, saves \in BOOLEAN :
          \/ \E a \in ActsOf(p) \cap scenario.acts : Give(p, a, k, saves)
          \/ Repeat(p, k, saves)
    \/ \E f \in Flights : Serve(f) \/ TimesOut(f)
    \/ \E k \in Keys : Late(k)
    \/ \E a \in scenario.acts : Elsewhere(a)
    \/ \E f \in Flights, historyFails \in BOOLEAN : Settle(f, historyFails)
    \/ \E p \in OnPage, result \in {"ready", "error", "denied"} :
          \E l \in panel[p].loading : ReadEnds(p, l, result)
    \/ \E p \in OnPage : \E l \in ListsOf(p) : Read(p, l)
    \/ \E p \in OnPage : Activate(p)
    \/ \E page \in scenario.pages : Enter(page)
    \/ Leave \/ Reload

WebSpec == WebInit /\ [][WebNext]_vars

-----------------------------------------------------------------------------
(* Properties *)

\* A command whose result this tab has not been told is still in its store,
\* whatever was reloaded, left, answered twice or answered late; so the tab can
\* repeat it under its own key (web-pending-*.ts, sendIntent and mutate).  The
\* product page keeps its command in memory only.
UnresolvedStored ==
    \A k \in Keys : outcome[k] = "unsure" /\ StoreFor(k) # "none" => store[StoreFor(k)] = k

\* The support page has two stores and two components that write them; never
\* are both filled, which would lock the page (support-view.tsx:95-133).
OneSupportCommand == store["decision"] = NoKey \/ store["operation"] = NoKey

\* While a store holds an unresolved command no panel of that store takes
\* another one, though the panels learn of it by events only.
NothingBesideUnresolved ==
    \A p \in OnPage \ {"product"} : \A a \in ActsOf(p) \cap scenario.acts :
        CanGive(a, panel[p])
        => store[StoreOf(p, a)] = NoKey \/ cmd[store[StoreOf(p, a)]].panel \in BuyerPanels \ {p}

\* No answer the tab did not get makes it forget a command.
AmbiguousKept ==
    \A k \in Keys : outcome[k] \in {"unsure", "dropped"} /\ StoreFor(k) # "none" =>
                        store[StoreFor(k)] = k

=============================================================================
