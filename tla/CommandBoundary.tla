-------------------------- MODULE CommandBoundary ---------------------------
(***************************************************************************)
(* CommerceService.ExecuteAsync, the boundary every commerce command goes  *)
(* through: rights are checked, one PostgreSQL advisory lock serialises    *)
(* the transactions of all API processes, rights are checked again, a      *)
(* receipt answers a repeated command, a limit slows an actor down, the    *)
(* handler runs, and its changes, the receipt and the journal entry are    *)
(* committed together.  An attempt is one execution of ExecuteAsync: a     *)
(* client that got no answer sends its command again in another attempt,   *)
(* perhaps while the first one is still running.                           *)
(***************************************************************************)
EXTENDS Integers, Sequences, FiniteSets

CONSTANTS
    Attempts, Actors, Keys,
    Payloads,       \* action and input of a command: what its fingerprint tells apart
    RightOf,        \* the right each payload's action asks for
    Grants, Revokes,\* accounts a SET_STAFF_PERMISSION payload switches on or off
    Officials,      \* accounts that may have a role or a seller activation
    RateLimit,      \* 120 receipts of an actor ...
    RateWindow,     \* ... in one minute
    MaxTime,        \* bound: the clock stops here
    NoAttempt

ASSUME BoundaryAssumption ==
    /\ RightOf \in [Payloads -> {"none", "staff", "standing"}]
    /\ Grants \in [Payloads -> SUBSET Actors]
    /\ Revokes \in [Payloads -> SUBSET Actors]
    /\ Officials \subseteq Actors
    /\ RateLimit \in Nat \ {0}
    /\ RateWindow \in Nat \ {0}
    /\ MaxTime \in Nat
    /\ NoAttempt \notin Attempts

\* The receipts' primary key: actor and Idempotency-Key.
Commands == Actors \X Keys

VARIABLES
    now,        \* server clock
    pc,         \* how far each attempt has come
    request,    \* the command and payload of each attempt
    staged,     \* the receipt each attempt has added to its unit of work
    result,     \* what each attempt will answer, once it is known
    lock,       \* holder of pg_advisory_xact_lock(48710261004)
    receipt,    \* command_receipts, by actor and key
    journal,    \* the journal entries of the commands, in commit order
    staff,      \* accounts whose PERMISSION document is active
    standing    \* accounts with a role or seller activation; other databases

vars == <<now, pc, request, staged, result, lock, receipt, journal, staff, standing>>

NoRequest == [command |-> <<>>, payload |-> "none"]
NoReceipt == [payload |-> "none", result |-> 0, created |-> 0]

Request == [command : Commands, payload : Payloads]
Receipt == [payload : Payloads, result : Nat \ {0}, created : Nat]

Changed == 0    \* IDEMPOTENCY_PAYLOAD_CHANGED

\* waiting: for the lock.  locked: transaction open.  allowed: rights seen under
\* the lock.  fresh: no receipt, under the limit.  ready: handler and receipt
\* staged.  answering: the outcome is known.  Then the attempt is over: answered,
\* failed (an exception the client sees) or lost (the client sees nothing).
Holding  == {"locked", "allowed", "fresh", "ready"}
Running  == {"waiting", "answering"} \cup Holding
Finished == {"answered", "failed", "lost"}

TypeOK ==
    /\ now \in Nat
    /\ pc \in [Attempts -> {"idle"} \cup Running \cup Finished]
    /\ request \in [Attempts -> Request \cup {NoRequest}]
    /\ staged \in [Attempts -> Receipt \cup {NoReceipt}]
    /\ result \in [Attempts -> Nat]
    /\ lock \in Attempts \cup {NoAttempt}
    /\ receipt \in [Commands -> Receipt \cup {NoReceipt}]
    /\ journal \in Seq(Request)
    /\ staff \subseteq Actors
    /\ standing \subseteq Officials

Init ==
    /\ now = 0
    /\ pc = [r \in Attempts |-> "idle"]
    /\ request = [r \in Attempts |-> NoRequest]
    /\ staged = [r \in Attempts |-> NoReceipt]
    /\ result = [r \in Attempts |-> 0]
    /\ lock = NoAttempt
    /\ receipt = [c \in Commands |-> NoReceipt]
    /\ journal = <<>>
    /\ staff \in SUBSET Actors
    /\ standing = Officials

-----------------------------------------------------------------------------
Actor(r)    == request[r].command[1]
ReceiptOf(r) == receipt[request[r].command]

\* Permission, Admin and Seller: an ADMIN role stands for every permission.
Allowed(a, p) ==
    CASE RightOf[p] = "none"     -> TRUE
      [] RightOf[p] = "staff"    -> a \in standing \/ a \in staff
      [] RightOf[p] = "standing" -> a \in standing

Goto(r, place) == pc' = [pc EXCEPT ![r] = place]

\* The request arrives; rights are checked before the transaction is opened.
Submit(r, c, p) ==
    /\ pc[r] = "idle"
    /\ request' = [request EXCEPT ![r] = [command |-> c, payload |-> p]]
    /\ IF Allowed(c[1], p) THEN Goto(r, "waiting") ELSE Goto(r, "failed")
    /\ UNCHANGED <<now, staged, result, lock, receipt, journal, staff, standing>>

\* Mistake: the lock is not shared by the API processes.
AcquireOwn(r) ==
    /\ pc[r] = "waiting"
    /\ lock' = r
    /\ Goto(r, "locked")
    /\ UNCHANGED <<now, request, staged, result, receipt, journal, staff, standing>>

Acquire(r) ==
    /\ pc[r] = "waiting"
    /\ lock = NoAttempt
    /\ lock' = r
    /\ Goto(r, "locked")
    /\ UNCHANGED <<now, request, staged, result, receipt, journal, staff, standing>>

\* Mistake: the rights seen before waiting are relied on.
RecheckSkipped(r) ==
    /\ pc[r] = "locked"
    /\ Goto(r, "allowed")
    /\ UNCHANGED <<now, request, staged, result, lock, receipt, journal, staff, standing>>

Recheck(r) ==
    /\ pc[r] = "locked"
    /\ IF Allowed(Actor(r), request[r].payload)
         THEN Goto(r, "allowed") /\ UNCHANGED lock
         ELSE Goto(r, "failed") /\ lock' = NoAttempt
    /\ UNCHANGED <<now, request, staged, result, receipt, journal, staff, standing>>

\* A receipt answers the command: with its result, or with a conflict when the
\* fingerprint differs.  Either way the transaction ends without changes.
Replay(r) ==
    /\ pc[r] = "allowed"
    /\ ReceiptOf(r) # NoReceipt
    /\ result' = [result EXCEPT ![r] =
                    IF ReceiptOf(r).payload = request[r].payload
                      THEN ReceiptOf(r).result ELSE Changed]
    /\ Goto(r, "answering")
    /\ lock' = NoAttempt
    /\ UNCHANGED <<now, request, staged, receipt, journal, staff, standing>>

Recent(a) ==
    {c \in Commands : /\ c[1] = a
                      /\ receipt[c] # NoReceipt
                      /\ receipt[c].created > now - RateWindow}

\* Mistake: one command too many.
CheckRateOffByOne(r) ==
    /\ pc[r] = "allowed"
    /\ ReceiptOf(r) = NoReceipt
    /\ IF Cardinality(Recent(Actor(r))) > RateLimit
         THEN Goto(r, "failed") /\ lock' = NoAttempt
         ELSE Goto(r, "fresh") /\ UNCHANGED lock
    /\ UNCHANGED <<now, request, staged, result, receipt, journal, staff, standing>>

CheckRate(r) ==
    /\ pc[r] = "allowed"
    /\ ReceiptOf(r) = NoReceipt
    /\ IF Cardinality(Recent(Actor(r))) >= RateLimit
         THEN Goto(r, "failed") /\ lock' = NoAttempt
         ELSE Goto(r, "fresh") /\ UNCHANGED lock
    /\ UNCHANGED <<now, request, staged, result, receipt, journal, staff, standing>>

\* Mistake: the result is the number of effects before the command.
HandleOffByOne(r) ==
    /\ pc[r] = "fresh"
    /\ staged' = [staged EXCEPT ![r] = [payload |-> request[r].payload,
                                       result |-> Len(journal), created |-> now]]
    /\ Goto(r, "ready")
    /\ UNCHANGED <<now, request, result, lock, receipt, journal, staff, standing>>

\* The handler reads the documents as they are and stages its changes; what it
\* returns is determined by the effects so far.  The receipt is staged with them.
Handle(r) ==
    /\ pc[r] = "fresh"
    /\ staged' = [staged EXCEPT ![r] = [payload |-> request[r].payload,
                                       result |-> Len(journal) + 1, created |-> now]]
    /\ Goto(r, "ready")
    /\ UNCHANGED <<now, request, result, lock, receipt, journal, staff, standing>>

\* The handler refuses (CommerceConflict and the like): everything rolls back.
Reject(r) ==
    /\ pc[r] = "fresh"
    /\ Goto(r, "failed")
    /\ lock' = NoAttempt
    /\ UNCHANGED <<now, request, staged, result, receipt, journal, staff, standing>>

Commit(r) ==
    LET p == request[r].payload
    IN  /\ pc[r] = "ready"
        /\ receipt' = [receipt EXCEPT ![request[r].command] = staged[r]]
        /\ journal' = Append(journal, request[r])
        /\ staff' = (staff \ Revokes[p]) \cup Grants[p]
        /\ result' = [result EXCEPT ![r] = staged[r].result]
        /\ staged' = [staged EXCEPT ![r] = NoReceipt]
        /\ Goto(r, "answering")
        /\ lock' = NoAttempt
        /\ UNCHANGED <<now, request, standing>>

Respond(r) ==
    /\ pc[r] = "answering"
    /\ Goto(r, "answered")
    /\ UNCHANGED <<now, request, staged, result, lock, receipt, journal, staff, standing>>

\* Mistake: the lock outlives the transaction (a session lock).
CrashKeepsLock(r) ==
    /\ pc[r] \in Running
    /\ Goto(r, "lost")
    /\ staged' = [staged EXCEPT ![r] = NoReceipt]
    /\ UNCHANGED <<now, request, result, lock, receipt, journal, staff, standing>>

\* The process, the connection or the request dies: an open transaction rolls
\* back and gives up the lock, a committed one stays.
Crash(r) ==
    /\ pc[r] \in Running
    /\ Goto(r, "lost")
    /\ staged' = [staged EXCEPT ![r] = NoReceipt]
    /\ lock' = IF lock = r THEN NoAttempt ELSE lock
    /\ UNCHANGED <<now, request, result, receipt, journal, staff, standing>>

\* Roles, activations and suspensions change in other databases at any time.
ChangeStanding(a) ==
    /\ standing' = IF a \in standing THEN standing \ {a} ELSE standing \cup {a}
    /\ UNCHANGED <<now, pc, request, staged, result, lock, receipt, journal, staff>>

Tick ==
    /\ now < MaxTime
    /\ now' = now + 1
    /\ UNCHANGED <<pc, request, staged, result, lock, receipt, journal, staff, standing>>

Proceed(r) ==
    Recheck(r) \/ Replay(r) \/ CheckRate(r) \/ Handle(r) \/ Commit(r) \/ Respond(r)

Next ==
    \/ \E r \in Attempts, c \in Commands, p \in Payloads : Submit(r, c, p)
    \/ \E r \in Attempts : Acquire(r) \/ Proceed(r) \/ Reject(r) \/ Crash(r)
    \/ \E a \in Officials : ChangeStanding(a)
    \/ Tick

Spec == Init /\ [][Next]_vars

\* The process that runs an attempt keeps running it, and PostgreSQL grants an
\* advisory lock to its waiters in turn.
Fairness == \A r \in Attempts : WF_vars(Proceed(r)) /\ SF_vars(Acquire(r))

FairSpec == Spec /\ Fairness

-----------------------------------------------------------------------------
(* Properties *)

\* The boundary keeps the promise of ExactlyOnce: whatever attempts overlap,
\* crash or are repeated, the effects are the journal and the answers are what
\* the attempts answered.
Answers == {[command |-> request[r].command, payload |-> request[r].payload,
             result |-> result[r]] : r \in {x \in Attempts : pc[x] = "answered"}}

Promise == INSTANCE ExactlyOnce WITH effects <- journal, answers <- Answers
ImplementsExactlyOnce == Promise!Spec

\* A command that needs a staff permission is answered from its receipt, handled
\* and committed only while its actor has it: a revocation that committed first,
\* even while the command waited for the lock, stops it.  (Of roles, which other
\* databases hold, the code knows only what it reads after taking the lock.)
NoRevokedStaffCommits ==
    \A r \in Attempts :
       /\ pc[r] \in {"allowed", "fresh", "ready"}
       /\ RightOf[request[r].payload] = "staff"
       /\ Actor(r) \notin Officials
       => Actor(r) \in staff

\* No actor ever commits more than RateLimit commands within one RateWindow,
\* wherever the window lies and however much time passes between the count and
\* the commit.
RateBounded ==
    \A a \in Actors, t \in 0..MaxTime :
       Cardinality({c \in Commands : /\ c[1] = a
                                     /\ receipt[c] # NoReceipt
                                     /\ receipt[c].created \in (t - RateWindow + 1)..t})
         <= RateLimit

\* Whoever waits for the lock gets an outcome unless its own process dies: no
\* attempt, also one that crashes while it holds the lock, blocks the others.
NobodyStarves ==
    \A r \in Attempts : pc[r] = "waiting" ~> pc[r] \in Finished
=============================================================================
