----------------------- MODULE CommandBoundary_proofs -----------------------
(***************************************************************************)
(* Proofs about CommandBoundary, for any attempts, actors, keys and        *)
(* payloads: type correctness, that revoked staff commit nothing, and that *)
(* the boundary implements ExactlyOnce.                                    *)
(***************************************************************************)
EXTENDS CommandBoundary, FiniteSetTheorems, TLAPS

\* Whoever is past Acquire and before the end of the transaction is the one
\* attempt that holds the lock.
LockInv == \A r \in Attempts : pc[r] \in Holding <=> lock = r

RequestInv == \A r \in Attempts : pc[r] # "idle" => request[r] \in Request

\* Under the lock nothing overtakes: what was read about the receipt and the
\* journal is still so when the transaction commits.
StagedInv ==
    \A r \in Attempts :
       /\ pc[r] \in {"fresh", "ready"} => ReceiptOf(r) = NoReceipt
       /\ pc[r] = "ready" =>
             /\ staged[r] \in Receipt
             /\ staged[r].payload = request[r].payload
             /\ staged[r].result = Len(journal) + 1

\* Receipts and journal entries name each other.
ReceiptInv ==
    /\ \A c \in Commands :
          receipt[c] # NoReceipt =>
             /\ receipt[c].result \in 1..Len(journal)
             /\ journal[receipt[c].result] = [command |-> c, payload |-> receipt[c].payload]
    /\ \A i \in 1..Len(journal) : receipt[journal[i].command] # NoReceipt

\* An outcome is what the journal says of the command.
Justified(r, i) ==
    /\ journal[i].command = request[r].command
    /\ \/ journal[i].payload = request[r].payload /\ result[r] = i
       \/ journal[i].payload # request[r].payload /\ result[r] = Changed

AnswerInv ==
    \A r \in Attempts :
       pc[r] \in {"answering", "answered"} => \E i \in 1..Len(journal) : Justified(r, i)

IInv == TypeOK /\ LockInv /\ RequestInv /\ StagedInv /\ ReceiptInv /\ AnswerInv

-----------------------------------------------------------------------------
LEMMA NoReceiptIsNone == NoReceipt \notin Receipt
  BY DEF NoReceipt, Receipt

LEMMA InitInv == Init => IInv
  BY BoundaryAssumption
  DEF Init, IInv, TypeOK, LockInv, RequestInv, StagedInv, ReceiptInv, AnswerInv, Running,
      Holding, Finished

LEMMA TypeStep == IInv /\ [Next]_vars => TypeOK'
<1> SUFFICES ASSUME IInv, [Next]_vars PROVE TypeOK'
  OBVIOUS
<1> USE BoundaryAssumption DEF IInv, TypeOK, Goto, Running, Holding, Finished
<1>1. ASSUME NEW r \in Attempts, NEW c \in Commands, NEW p \in Payloads, Submit(r, c, p)
      PROVE  TypeOK'
  BY <1>1 DEF Submit, Request
<1>2. ASSUME NEW r \in Attempts, Acquire(r) PROVE TypeOK'
  BY <1>2 DEF Acquire
<1>3. ASSUME NEW r \in Attempts, Recheck(r) PROVE TypeOK'
  BY <1>3 DEF Recheck
<1>4. ASSUME NEW r \in Attempts, Replay(r) PROVE TypeOK'
  <2>1. request[r].command \in Commands
    BY <1>4 DEF Replay, RequestInv, Request
  <2>2. ReceiptOf(r).result \in Nat
    BY <2>1, <1>4 DEF Replay, ReceiptOf, Receipt
  <2> QED
    BY <1>4, <2>2 DEF Replay, Changed
<1>5. ASSUME NEW r \in Attempts, CheckRate(r) PROVE TypeOK'
  BY <1>5 DEF CheckRate
<1>6. ASSUME NEW r \in Attempts, Handle(r) PROVE TypeOK'
  <2>1. request[r].payload \in Payloads
    BY <1>6 DEF Handle, RequestInv, Request
  <2>2. Len(journal) + 1 \in Nat \ {0}
    OBVIOUS
  <2> QED
    BY <1>6, <2>1, <2>2 DEF Handle, Receipt
<1>7. ASSUME NEW r \in Attempts, Commit(r) PROVE TypeOK'
  <2>1. request[r] \in Request /\ staged[r] \in Receipt
    BY <1>7 DEF Commit, RequestInv, StagedInv
  <2>2. journal' \in Seq(Request)
    BY <1>7, <2>1 DEF Commit
  <2>3. receipt' \in [Commands -> Receipt \cup {NoReceipt}]
    BY <1>7, <2>1 DEF Commit
  <2>4. result' \in [Attempts -> Nat]
    BY <1>7, <2>1 DEF Commit, Receipt
  <2>5. staff' \subseteq Actors
    BY <1>7, <2>1 DEF Commit, Request
  <2> QED
    BY <1>7, <2>2, <2>3, <2>4, <2>5 DEF Commit
<1>8. ASSUME NEW r \in Attempts, Respond(r) PROVE TypeOK'
  BY <1>8 DEF Respond
<1>9. ASSUME NEW r \in Attempts, Reject(r) PROVE TypeOK'
  BY <1>9 DEF Reject
<1>10. ASSUME NEW r \in Attempts, Crash(r) PROVE TypeOK'
  BY <1>10 DEF Crash
<1>11. ASSUME NEW a \in Officials, ChangeStanding(a) PROVE TypeOK'
  BY <1>11 DEF ChangeStanding
<1>12. CASE Tick
  BY <1>12 DEF Tick
<1>13. CASE UNCHANGED vars
  BY <1>13 DEF vars
<1> QED
  BY <1>1, <1>2, <1>3, <1>4, <1>5, <1>6, <1>7, <1>8, <1>9, <1>10, <1>11, <1>12, <1>13
  DEF Next, Proceed

LEMMA LockStep == IInv /\ [Next]_vars => LockInv'
<1> SUFFICES ASSUME IInv, [Next]_vars PROVE LockInv'
  OBVIOUS
<1> USE BoundaryAssumption DEF IInv, TypeOK, LockInv, Goto, Running, Holding, Finished
<1>1. ASSUME NEW r \in Attempts, NEW c \in Commands, NEW p \in Payloads, Submit(r, c, p)
      PROVE  LockInv'
  BY <1>1 DEF Submit
<1>2. ASSUME NEW r \in Attempts, Acquire(r) PROVE LockInv'
  BY <1>2 DEF Acquire
<1>3. ASSUME NEW r \in Attempts, Recheck(r) PROVE LockInv'
  BY <1>3 DEF Recheck
<1>4. ASSUME NEW r \in Attempts, Replay(r) PROVE LockInv'
  BY <1>4 DEF Replay
<1>5. ASSUME NEW r \in Attempts, CheckRate(r) PROVE LockInv'
  <2>1. \/ Goto(r, "failed") /\ lock' = NoAttempt
        \/ Goto(r, "fresh") /\ UNCHANGED lock
    BY <1>5 DEF CheckRate
  <2>2. CASE Goto(r, "failed") /\ lock' = NoAttempt
    BY <1>5, <2>2 DEF CheckRate
  <2>3. CASE Goto(r, "fresh") /\ UNCHANGED lock
    BY <1>5, <2>3 DEF CheckRate
  <2> QED
    BY <2>1, <2>2, <2>3
<1>6. ASSUME NEW r \in Attempts, Handle(r) PROVE LockInv'
  BY <1>6 DEF Handle
<1>7. ASSUME NEW r \in Attempts, Commit(r) PROVE LockInv'
  BY <1>7 DEF Commit
<1>8. ASSUME NEW r \in Attempts, Respond(r) PROVE LockInv'
  BY <1>8 DEF Respond
<1>9. ASSUME NEW r \in Attempts, Reject(r) PROVE LockInv'
  BY <1>9 DEF Reject
<1>10. ASSUME NEW r \in Attempts, Crash(r) PROVE LockInv'
  BY <1>10 DEF Crash
<1>11. ASSUME NEW a \in Officials, ChangeStanding(a) PROVE LockInv'
  BY <1>11 DEF ChangeStanding
<1>12. CASE Tick
  BY <1>12 DEF Tick
<1>13. CASE UNCHANGED vars
  BY <1>13 DEF vars
<1> QED
  BY <1>1, <1>2, <1>3, <1>4, <1>5, <1>6, <1>7, <1>8,
     <1>9, <1>10, <1>11, <1>12, <1>13
  DEF Next, Proceed

LEMMA RequestStep == IInv /\ [Next]_vars => RequestInv'
<1> SUFFICES ASSUME IInv, [Next]_vars PROVE RequestInv'
  OBVIOUS
<1> USE BoundaryAssumption DEF IInv, TypeOK, RequestInv, Goto
<1>1. ASSUME NEW r \in Attempts, NEW c \in Commands, NEW p \in Payloads, Submit(r, c, p)
      PROVE  RequestInv'
  BY <1>1 DEF Submit, Request
<1>2. ASSUME NEW r \in Attempts, Acquire(r) PROVE RequestInv'
  BY <1>2 DEF Acquire
<1>3. ASSUME NEW r \in Attempts, Recheck(r) PROVE RequestInv'
  BY <1>3 DEF Recheck
<1>4. ASSUME NEW r \in Attempts, Replay(r) PROVE RequestInv'
  BY <1>4 DEF Replay
<1>5. ASSUME NEW r \in Attempts, CheckRate(r) PROVE RequestInv'
  BY <1>5 DEF CheckRate
<1>6. ASSUME NEW r \in Attempts, Handle(r) PROVE RequestInv'
  BY <1>6 DEF Handle
<1>7. ASSUME NEW r \in Attempts, Commit(r) PROVE RequestInv'
  BY <1>7 DEF Commit
<1>8. ASSUME NEW r \in Attempts, Respond(r) PROVE RequestInv'
  BY <1>8 DEF Respond
<1>9. ASSUME NEW r \in Attempts, Reject(r) PROVE RequestInv'
  BY <1>9 DEF Reject
<1>10. ASSUME NEW r \in Attempts, Crash(r) PROVE RequestInv'
  BY <1>10 DEF Crash, Running, Holding
<1>11. ASSUME NEW a \in Officials, ChangeStanding(a) PROVE RequestInv'
  BY <1>11 DEF ChangeStanding
<1>12. CASE Tick
  BY <1>12 DEF Tick
<1>13. CASE UNCHANGED vars
  BY <1>13 DEF vars
<1> QED
  BY <1>1, <1>2, <1>3, <1>4, <1>5, <1>6, <1>7, <1>8,
     <1>9, <1>10, <1>11, <1>12, <1>13
  DEF Next, Proceed

LEMMA StagedStep == IInv /\ [Next]_vars => StagedInv'
<1> SUFFICES ASSUME IInv, [Next]_vars PROVE StagedInv'
  OBVIOUS
<1> USE BoundaryAssumption DEF IInv, TypeOK, LockInv, StagedInv, ReceiptOf, Goto, Holding
<1>1. ASSUME NEW r \in Attempts, NEW c \in Commands, NEW p \in Payloads, Submit(r, c, p)
      PROVE  StagedInv'
  BY <1>1 DEF Submit
<1>2. ASSUME NEW r \in Attempts, Acquire(r) PROVE StagedInv'
  BY <1>2 DEF Acquire
<1>3. ASSUME NEW r \in Attempts, Recheck(r) PROVE StagedInv'
  BY <1>3 DEF Recheck
<1>4. ASSUME NEW r \in Attempts, Replay(r) PROVE StagedInv'
  BY <1>4 DEF Replay
<1>5. ASSUME NEW r \in Attempts, CheckRate(r) PROVE StagedInv'
  BY <1>5 DEF CheckRate
<1>6. ASSUME NEW r \in Attempts, Handle(r) PROVE StagedInv'
  <2>1. request[r].payload \in Payloads
    BY <1>6 DEF Handle, RequestInv, Request
  <2>2. Len(journal) + 1 \in Nat \ {0}
    OBVIOUS
  <2>3. staged'[r] \in Receipt
    BY <1>6, <2>1, <2>2 DEF Handle, Receipt
  <2> QED
    BY <1>6, <2>3 DEF Handle
<1>7. ASSUME NEW r \in Attempts, Commit(r) PROVE StagedInv'
  \* Nobody else is past the receipt: everybody else is outside the lock.
  BY <1>7 DEF Commit
<1>8. ASSUME NEW r \in Attempts, Respond(r) PROVE StagedInv'
  BY <1>8 DEF Respond
<1>9. ASSUME NEW r \in Attempts, Reject(r) PROVE StagedInv'
  BY <1>9 DEF Reject
<1>10. ASSUME NEW r \in Attempts, Crash(r) PROVE StagedInv'
  BY <1>10 DEF Crash
<1>11. ASSUME NEW a \in Officials, ChangeStanding(a) PROVE StagedInv'
  BY <1>11 DEF ChangeStanding
<1>12. CASE Tick
  BY <1>12 DEF Tick
<1>13. CASE UNCHANGED vars
  BY <1>13 DEF vars
<1> QED
  BY <1>1, <1>2, <1>3, <1>4, <1>5, <1>6, <1>7, <1>8,
     <1>9, <1>10, <1>11, <1>12, <1>13
  DEF Next, Proceed

LEMMA ReceiptStep == IInv /\ [Next]_vars => ReceiptInv'
<1> SUFFICES ASSUME IInv, [Next]_vars PROVE ReceiptInv'
  OBVIOUS
<1> USE BoundaryAssumption DEF IInv, TypeOK, ReceiptInv
<1>1. ASSUME NEW r \in Attempts, NEW c \in Commands, NEW p \in Payloads, Submit(r, c, p)
      PROVE  ReceiptInv'
  BY <1>1 DEF Submit
<1>2. ASSUME NEW r \in Attempts, Acquire(r) PROVE ReceiptInv'
  BY <1>2 DEF Acquire
<1>3. ASSUME NEW r \in Attempts, Recheck(r) PROVE ReceiptInv'
  BY <1>3 DEF Recheck
<1>4. ASSUME NEW r \in Attempts, Replay(r) PROVE ReceiptInv'
  BY <1>4 DEF Replay
<1>5. ASSUME NEW r \in Attempts, CheckRate(r) PROVE ReceiptInv'
  BY <1>5 DEF CheckRate
<1>6. ASSUME NEW r \in Attempts, Handle(r) PROVE ReceiptInv'
  BY <1>6 DEF Handle
<1>7. ASSUME NEW r \in Attempts, Commit(r) PROVE ReceiptInv'
  <2> DEFINE c == request[r].command
             n == Len(journal) + 1
  <2>1. /\ request[r] \in Request
        /\ request[r] = [command |-> c, payload |-> request[r].payload]
        /\ c \in Commands
    BY <1>7 DEF Commit, RequestInv, Request
  <2>2. /\ staged[r] \in Receipt
        /\ staged[r].payload = request[r].payload
        /\ staged[r].result = n
        /\ receipt[c] = NoReceipt
    BY <1>7 DEF Commit, StagedInv, ReceiptOf
  <2>3. /\ Len(journal') = n
        /\ journal'[n] = request[r]
        /\ \A i \in 1..Len(journal) : journal'[i] = journal[i]
    BY <1>7, <2>1 DEF Commit
  <2>4. receipt' = [receipt EXCEPT ![c] = staged[r]]
    BY <1>7 DEF Commit
  <2>5. ASSUME NEW d \in Commands, receipt'[d] # NoReceipt
        PROVE  /\ receipt'[d].result \in 1..Len(journal')
               /\ journal'[receipt'[d].result] = [command |-> d, payload |-> receipt'[d].payload]
    BY <2>1, <2>2, <2>3, <2>4, <2>5
  <2>6. ASSUME NEW i \in 1..Len(journal') PROVE receipt'[journal'[i].command] # NoReceipt
    <3>1. CASE i = n
      BY <3>1, <2>1, <2>2, <2>3, <2>4, NoReceiptIsNone
    <3>2. CASE i \in 1..Len(journal)
      <4>1. journal[i] \in Request
        BY <3>2
      <4>2. journal[i].command \in Commands /\ receipt[journal[i].command] # NoReceipt
        BY <3>2, <4>1 DEF Request
      <4> QED
        BY <3>2, <4>2, <2>1, <2>2, <2>3, <2>4, NoReceiptIsNone
    <3> QED
      BY <3>1, <3>2, <2>3
  <2> QED
    BY <2>5, <2>6
<1>8. ASSUME NEW r \in Attempts, Respond(r) PROVE ReceiptInv'
  BY <1>8 DEF Respond
<1>9. ASSUME NEW r \in Attempts, Reject(r) PROVE ReceiptInv'
  BY <1>9 DEF Reject
<1>10. ASSUME NEW r \in Attempts, Crash(r) PROVE ReceiptInv'
  BY <1>10 DEF Crash
<1>11. ASSUME NEW a \in Officials, ChangeStanding(a) PROVE ReceiptInv'
  BY <1>11 DEF ChangeStanding
<1>12. CASE Tick
  BY <1>12 DEF Tick
<1>13. CASE UNCHANGED vars
  BY <1>13 DEF vars
<1> QED
  BY <1>1, <1>2, <1>3, <1>4, <1>5, <1>6, <1>7, <1>8,
     <1>9, <1>10, <1>11, <1>12, <1>13
  DEF Next, Proceed

LEMMA AnswerStep == IInv /\ [Next]_vars => AnswerInv'
<1> SUFFICES ASSUME IInv, [Next]_vars PROVE AnswerInv'
  OBVIOUS
<1> USE BoundaryAssumption DEF IInv, TypeOK, AnswerInv, Justified, Goto
<1>1. ASSUME NEW r \in Attempts, NEW c \in Commands, NEW p \in Payloads, Submit(r, c, p)
      PROVE  AnswerInv'
  BY <1>1 DEF Submit
<1>2. ASSUME NEW r \in Attempts, Acquire(r) PROVE AnswerInv'
  BY <1>2 DEF Acquire
<1>3. ASSUME NEW r \in Attempts, Recheck(r) PROVE AnswerInv'
  BY <1>3 DEF Recheck
<1>4. ASSUME NEW r \in Attempts, Replay(r) PROVE AnswerInv'
  <2>1. PICK c \in Commands : c = request[r].command /\ receipt[c] # NoReceipt
    BY <1>4 DEF Replay, ReceiptOf, RequestInv, Request
  <2>2. PICK i \in 1..Len(journal) :
           i = receipt[c].result /\ journal[i] = [command |-> c, payload |-> receipt[c].payload]
    BY <2>1 DEF ReceiptInv
  <2>3. result'[r] = IF receipt[c].payload = request[r].payload THEN i ELSE Changed
    BY <1>4, <2>1, <2>2 DEF Replay, ReceiptOf
  <2>4. Justified(r, i)'
    BY <1>4, <2>1, <2>2, <2>3 DEF Replay
  <2>5. ASSUME NEW x \in Attempts, x # r, pc'[x] \in {"answering", "answered"}
        PROVE  \E j \in 1..Len(journal') : Justified(x, j)'
    <3>1. PICK j \in 1..Len(journal) : Justified(x, j)
      BY <1>4, <2>5 DEF Replay
    <3>2. Justified(x, j)'
      BY <1>4, <2>5, <3>1 DEF Replay
    <3> QED
      BY <1>4, <3>2 DEF Replay
  <2>6. \E j \in 1..Len(journal') : Justified(r, j)'
    BY <1>4, <2>2, <2>4 DEF Replay
  <2> QED
    BY <2>5, <2>6
<1>5. ASSUME NEW r \in Attempts, CheckRate(r) PROVE AnswerInv'
  BY <1>5 DEF CheckRate
<1>6. ASSUME NEW r \in Attempts, Handle(r) PROVE AnswerInv'
  BY <1>6 DEF Handle
<1>7. ASSUME NEW r \in Attempts, Commit(r) PROVE AnswerInv'
  <2>1. PICK n \in Nat : n = Len(journal) + 1 /\ staged[r].result = n
    BY <1>7 DEF Commit, StagedInv
  <2>2. /\ Len(journal') = n
        /\ journal'[n] = request[r]
        /\ \A i \in 1..Len(journal) : journal'[i] = journal[i]
    BY <1>7, <2>1 DEF Commit, RequestInv
  <2>3. Justified(r, n)'
    BY <1>7, <2>1, <2>2 DEF Commit
  <2>4. ASSUME NEW x \in Attempts, x # r, pc'[x] \in {"answering", "answered"}
        PROVE  \E i \in 1..Len(journal') : Justified(x, i)'
    <3>1. PICK i \in 1..Len(journal) : Justified(x, i)
      BY <1>7, <2>4 DEF Commit
    <3>2. Justified(x, i)'
      BY <1>7, <2>2, <2>4, <3>1 DEF Commit
    <3> QED
      BY <3>1, <3>2, <2>1, <2>2
  <2>5. \E i \in 1..Len(journal') : Justified(r, i)'
    BY <2>1, <2>2, <2>3
  <2> QED
    BY <2>4, <2>5
<1>8. ASSUME NEW r \in Attempts, Respond(r) PROVE AnswerInv'
  BY <1>8 DEF Respond
<1>9. ASSUME NEW r \in Attempts, Reject(r) PROVE AnswerInv'
  BY <1>9 DEF Reject
<1>10. ASSUME NEW r \in Attempts, Crash(r) PROVE AnswerInv'
  BY <1>10 DEF Crash
<1>11. ASSUME NEW a \in Officials, ChangeStanding(a) PROVE AnswerInv'
  BY <1>11 DEF ChangeStanding
<1>12. CASE Tick
  BY <1>12 DEF Tick
<1>13. CASE UNCHANGED vars
  BY <1>13 DEF vars
<1> QED
  BY <1>1, <1>2, <1>3, <1>4, <1>5, <1>6, <1>7, <1>8,
     <1>9, <1>10, <1>11, <1>12, <1>13
  DEF Next, Proceed

-----------------------------------------------------------------------------
LEMMA Inductive == Spec => []IInv
<1>1. IInv /\ [Next]_vars => IInv'
  BY TypeStep, LockStep, RequestStep, StagedStep, ReceiptStep, AnswerStep DEF IInv
<1> QED
  BY InitInv, <1>1, PTL DEF Spec

\* The state always has its type: no attempt, receipt or journal entry is ever
\* left half-written, whatever crashes.
THEOREM TypeCorrect == Spec => []TypeOK
  BY Inductive, PTL DEF IInv

-----------------------------------------------------------------------------
LEMMA StaffStep ==
    IInv /\ NoRevokedStaffCommits /\ [Next]_vars => NoRevokedStaffCommits'
<1> SUFFICES ASSUME IInv, NoRevokedStaffCommits, [Next]_vars PROVE NoRevokedStaffCommits'
  OBVIOUS
<1> USE BoundaryAssumption DEF IInv, TypeOK, LockInv, NoRevokedStaffCommits, Actor, Goto, Holding
<1>1. ASSUME NEW r \in Attempts, NEW c \in Commands, NEW p \in Payloads, Submit(r, c, p)
      PROVE  NoRevokedStaffCommits'
  BY <1>1 DEF Submit
<1>2. ASSUME NEW r \in Attempts, Acquire(r) PROVE NoRevokedStaffCommits'
  BY <1>2 DEF Acquire
<1>3. ASSUME NEW r \in Attempts, Recheck(r) PROVE NoRevokedStaffCommits'
  <2>1. \/ /\ Allowed(Actor(r), request[r].payload)
           /\ pc' = [pc EXCEPT ![r] = "allowed"]
        \/ pc' = [pc EXCEPT ![r] = "failed"]
    BY <1>3 DEF Recheck
  <2>2. UNCHANGED <<request, staff>>
    BY <1>3 DEF Recheck
  <2>3. Allowed(Actor(r), request[r].payload) /\ RightOf[request[r].payload] = "staff"
        /\ Actor(r) \notin Officials => Actor(r) \in staff
    BY DEF Allowed
  <2> QED
    BY <2>1, <2>2, <2>3
<1>4. ASSUME NEW r \in Attempts, Replay(r) PROVE NoRevokedStaffCommits'
  BY <1>4 DEF Replay
<1>5. ASSUME NEW r \in Attempts, CheckRate(r) PROVE NoRevokedStaffCommits'
  <2>1. \/ Goto(r, "failed") /\ lock' = NoAttempt
        \/ Goto(r, "fresh") /\ UNCHANGED lock
    BY <1>5 DEF CheckRate
  <2> QED
    BY <1>5, <2>1 DEF CheckRate
<1>6. ASSUME NEW r \in Attempts, Handle(r) PROVE NoRevokedStaffCommits'
  BY <1>6 DEF Handle
<1>7. ASSUME NEW r \in Attempts, Commit(r) PROVE NoRevokedStaffCommits'
  BY <1>7 DEF Commit
<1>8. ASSUME NEW r \in Attempts, Respond(r) PROVE NoRevokedStaffCommits'
  BY <1>8 DEF Respond
<1>9. ASSUME NEW r \in Attempts, Reject(r) PROVE NoRevokedStaffCommits'
  BY <1>9 DEF Reject
<1>10. ASSUME NEW r \in Attempts, Crash(r) PROVE NoRevokedStaffCommits'
  BY <1>10 DEF Crash
<1>11. ASSUME NEW a \in Officials, ChangeStanding(a) PROVE NoRevokedStaffCommits'
  BY <1>11 DEF ChangeStanding
<1>12. CASE Tick
  BY <1>12 DEF Tick
<1>13. CASE UNCHANGED vars
  BY <1>13 DEF vars
<1> QED
  BY <1>1, <1>2, <1>3, <1>4, <1>5, <1>6, <1>7, <1>8,
     <1>9, <1>10, <1>11, <1>12, <1>13
  DEF Next, Proceed

\* What the model checker saw with one clerk holds for any number of staff,
\* attempts and revocations: waiting for the lock never lets a command through on
\* a staff permission that is gone.
THEOREM NoRevokedStaff == Spec => []NoRevokedStaffCommits
<1>1. Init => NoRevokedStaffCommits
  BY DEF Init, NoRevokedStaffCommits
<1> QED
  BY <1>1, Inductive, StaffStep, PTL DEF Spec

-----------------------------------------------------------------------------
\* What an attempt that is over has told its client.
Told(r) == [command |-> request[r].command, payload |-> request[r].payload,
            result |-> result[r]]

\* A step that tells nobody anything leaves the answers as they are.
LEMMA AnswersStutter ==
    ASSUME \A r \in Attempts : pc[r] = "answered" <=> pc'[r] = "answered",
           \A r \in Attempts : pc[r] = "answered" => /\ request'[r] = request[r]
                                                     /\ result'[r] = result[r]
    PROVE  Answers' = Answers
  BY DEF Answers

LEMMA RespondAnswers ==
    ASSUME TypeOK, NEW r \in Attempts, Respond(r)
    PROVE  Answers' = Answers \cup {Told(r)}
  BY DEF Answers, Told, Respond, Goto, TypeOK

LEMMA RefinementStep == IInv /\ [Next]_vars => [Promise!Next]_<<journal, Answers>>
<1> SUFFICES ASSUME IInv, [Next]_vars PROVE [Promise!Next]_<<journal, Answers>>
  OBVIOUS
<1> DEFINE Goal == [Promise!Next]_<<journal, Answers>>
<1> USE DEF IInv, TypeOK, Goto
<1>1. ASSUME NEW r \in Attempts, NEW c \in Commands, NEW p \in Payloads, Submit(r, c, p)
      PROVE  Goal
  <2>1. Answers' = Answers /\ journal' = journal
    BY <1>1, AnswersStutter DEF Submit
  <2> QED
    BY <2>1
<1>2. ASSUME NEW r \in Attempts, Acquire(r) PROVE Goal
  <2>1. Answers' = Answers /\ journal' = journal
    BY <1>2, AnswersStutter DEF Acquire
  <2> QED
    BY <2>1
<1>3. ASSUME NEW r \in Attempts, Recheck(r) PROVE Goal
  <2>1. Answers' = Answers /\ journal' = journal
    BY <1>3, AnswersStutter DEF Recheck
  <2> QED
    BY <2>1
<1>4. ASSUME NEW r \in Attempts, Replay(r) PROVE Goal
  <2>1. Answers' = Answers /\ journal' = journal
    BY <1>4, AnswersStutter DEF Replay
  <2> QED
    BY <2>1
<1>5. ASSUME NEW r \in Attempts, CheckRate(r) PROVE Goal
  <2>1. \/ pc' = [pc EXCEPT ![r] = "failed"]
        \/ pc' = [pc EXCEPT ![r] = "fresh"]
    BY <1>5 DEF CheckRate
  <2>2. Answers' = Answers /\ journal' = journal
    BY <1>5, <2>1, AnswersStutter DEF CheckRate
  <2> QED
    BY <2>2
<1>6. ASSUME NEW r \in Attempts, Handle(r) PROVE Goal
  <2>1. Answers' = Answers /\ journal' = journal
    BY <1>6, AnswersStutter DEF Handle
  <2> QED
    BY <2>1
<1>7. ASSUME NEW r \in Attempts, Commit(r) PROVE Goal
  <2> DEFINE c == request[r].command
             p == request[r].payload
  <2>1. c \in Commands /\ p \in Payloads /\ request[r] = [command |-> c, payload |-> p]
    BY <1>7 DEF Commit, RequestInv, Request
  <2>2. receipt[c] = NoReceipt
    BY <1>7 DEF Commit, StagedInv, ReceiptOf
  <2>3. ~Promise!Happened(c)
    BY <2>2 DEF Promise!Happened, ReceiptInv
  <2>4. Answers' = Answers
    <3>1. /\ pc[r] = "ready" /\ pc' = [pc EXCEPT ![r] = "answering"]
          /\ result' = [result EXCEPT ![r] = staged[r].result] /\ request' = request
      BY <1>7 DEF Commit
    <3>2. \A s \in Attempts : /\ pc[s] = "answered" <=> pc'[s] = "answered"
                              /\ pc[s] = "answered" => result'[s] = result[s]
      BY <3>1
    <3> QED
      BY <3>1, <3>2, AnswersStutter
  <2>5. journal' = Append(journal, [command |-> c, payload |-> p])
    BY <1>7, <2>1 DEF Commit
  <2>6. Promise!TakeEffect(c, p)
    BY <2>3, <2>4, <2>5 DEF Promise!TakeEffect
  <2> QED
    BY <2>1, <2>6 DEF Promise!Next
<1>8. ASSUME NEW r \in Attempts, Respond(r) PROVE Goal
  <2>1. PICK i \in 1..Len(journal) : Justified(r, i)
    BY <1>8 DEF Respond, AnswerInv
  <2>2. i \in DOMAIN journal /\ journal' = journal /\ request[r].payload \in Payloads
    BY <1>8 DEF Respond, RequestInv, Request
  <2>3. Answers' = Answers \cup {Told(r)}
    BY <1>8, RespondAnswers
  <2>4. CASE journal[i].payload = request[r].payload
    <3>1. Promise!Answer(i)
      BY <2>1, <2>2, <2>3, <2>4 DEF Promise!Answer, Justified, Told
    <3> QED
      BY <2>2, <3>1 DEF Promise!Next
  <2>5. CASE journal[i].payload # request[r].payload
    <3>1. Promise!Refuse(i, request[r].payload)
      BY <2>1, <2>2, <2>3, <2>5
      DEF Promise!Refuse, Promise!Refused, Justified, Told, Changed
    <3> QED
      BY <2>2, <3>1 DEF Promise!Next
  <2> QED
    BY <2>4, <2>5
<1>9. ASSUME NEW r \in Attempts, Reject(r) PROVE Goal
  <2>1. Answers' = Answers /\ journal' = journal
    BY <1>9, AnswersStutter DEF Reject
  <2> QED
    BY <2>1
<1>10. ASSUME NEW r \in Attempts, Crash(r) PROVE Goal
  <2>1. Answers' = Answers /\ journal' = journal
    BY <1>10, AnswersStutter DEF Crash, Running, Holding
  <2> QED
    BY <2>1
<1>11. ASSUME NEW a \in Officials, ChangeStanding(a) PROVE Goal
  <2>1. Answers' = Answers /\ journal' = journal
    BY <1>11, AnswersStutter DEF ChangeStanding
  <2> QED
    BY <2>1
<1>12. CASE Tick
  <2>1. Answers' = Answers /\ journal' = journal
    BY <1>12, AnswersStutter DEF Tick
  <2> QED
    BY <2>1
<1>13. CASE UNCHANGED vars
  <2>1. Answers' = Answers /\ journal' = journal
    BY <1>13, AnswersStutter DEF vars
  <2> QED
    BY <2>1
<1> QED
  BY <1>1, <1>2, <1>3, <1>4, <1>5, <1>6, <1>7, <1>8,
     <1>9, <1>10, <1>11, <1>12, <1>13
  DEF Next, Proceed

\* Every behaviour of the boundary is one of ExactlyOnce, for any number of API
\* processes, repetitions and crashes: a command takes effect at most once, its
\* answers agree, and no answer is given that the journal does not bear out.
THEOREM ExactlyOnceImplemented == Spec => ImplementsExactlyOnce
<1>1. Init => Promise!Init
  BY DEF Init, Promise!Init, Answers
<1> QED
  BY <1>1, Inductive, RefinementStep, PTL DEF Spec, ImplementsExactlyOnce, Promise!Spec

-----------------------------------------------------------------------------
(* The rate limit *)

Used == {c \in Commands : receipt[c] # NoReceipt}

\* The receipts of actor a that are younger than RateWindow at time t: Recent is
\* this at the present time.
Younger(a, t) == {c \in Used : c[1] = a /\ receipt[c].created > t - RateWindow}

Within(a, t) == {c \in Used : c[1] = a /\ receipt[c].created \in (t - RateWindow + 1)..t}

\* What the count found stays true until the commit, although time passes: the
\* receipts it counted only grow older, and no other receipt is added.
CountInv ==
    /\ IsFiniteSet(Used)
    /\ \A c \in Used : receipt[c].created <= now
    /\ \A r \in Attempts :
          /\ pc[r] = "fresh" => Cardinality(Younger(Actor(r), now)) < RateLimit
          /\ pc[r] = "ready" =>
                /\ staged[r].created <= now
                /\ \A c \in Used : receipt[c].created <= staged[r].created
                /\ Cardinality(Younger(Actor(r), staged[r].created)) < RateLimit

LimitInv == \A a \in Actors, t \in 0..MaxTime : Cardinality(Within(a, t)) <= RateLimit

RateInv == IInv /\ CountInv /\ LimitInv

LEMMA LimitIsRateBounded == LimitInv <=> RateBounded
<1>1. \A a, t : Within(a, t) = {c \in Commands : /\ c[1] = a
                                               /\ receipt[c] # NoReceipt
                                               /\ receipt[c].created \in (t - RateWindow + 1)..t}
  BY DEF Within, Used
<1> QED
  BY <1>1 DEF LimitInv, RateBounded

LEMMA UsedTyped == TypeOK => \A c \in Used : c \in Commands /\ receipt[c].created \in Nat
  BY DEF TypeOK, Used, Receipt

\* Fewer receipts are younger at a later time.
LEMMA YoungerShrinks ==
    ASSUME TypeOK, IsFiniteSet(Used), NEW a, NEW t \in Nat, NEW u \in Nat, t <= u
    PROVE  /\ Cardinality(Younger(a, u)) \in Nat
           /\ Cardinality(Younger(a, t)) \in Nat
           /\ Cardinality(Younger(a, u)) <= Cardinality(Younger(a, t))
<1>1. IsFiniteSet(Younger(a, t))
  BY FS_Subset DEF Younger
<1>2. Younger(a, u) \in SUBSET Younger(a, t)
  BY UsedTyped, BoundaryAssumption DEF Younger
<1> QED
  BY <1>1, <1>2, FS_Subset, FS_CardinalityType

\* A step that adds no receipt and moves no attempt into "fresh" or "ready".
LEMMA CountStutter ==
    ASSUME RateInv, TypeOK', receipt' = receipt, now' = now,
           \A r \in Attempts : /\ pc'[r] \in {"fresh", "ready"} => pc'[r] = pc[r]
                               /\ pc'[r] \in {"fresh", "ready"} => request'[r] = request[r]
                               /\ pc'[r] = "ready" => staged'[r] = staged[r]
    PROVE  CountInv' /\ LimitInv'
<1>1. Used' = Used /\ (\A a, t : Younger(a, t)' = Younger(a, t) /\ Within(a, t)' = Within(a, t))
  BY DEF Used, Younger, Within
<1>2. LimitInv'
  BY <1>1 DEF RateInv, LimitInv
<1>3. CountInv'
  BY <1>1 DEF RateInv, CountInv, Actor
<1> QED
  BY <1>2, <1>3

LEMMA RateStep == RateInv /\ [Next]_vars => RateInv'
<1> SUFFICES ASSUME RateInv, [Next]_vars PROVE CountInv' /\ LimitInv'
  BY TypeStep, LockStep, RequestStep, StagedStep, ReceiptStep, AnswerStep DEF RateInv, IInv
<1>0. TypeOK /\ TypeOK' /\ IInv
  BY TypeStep DEF RateInv, IInv
<1> DEFINE Goal == CountInv' /\ LimitInv'
<1> USE DEF Goto
<1>1. ASSUME NEW r \in Attempts, NEW c \in Commands, NEW p \in Payloads, Submit(r, c, p)
      PROVE  Goal
  BY <1>1, <1>0, CountStutter DEF Submit, TypeOK
<1>2. ASSUME NEW r \in Attempts, Acquire(r) PROVE Goal
  BY <1>2, <1>0, CountStutter DEF Acquire, TypeOK
<1>3. ASSUME NEW r \in Attempts, Recheck(r) PROVE Goal
  BY <1>3, <1>0, CountStutter DEF Recheck, TypeOK
<1>4. ASSUME NEW r \in Attempts, Replay(r) PROVE Goal
  BY <1>4, <1>0, CountStutter DEF Replay, TypeOK
<1>5. ASSUME NEW r \in Attempts, CheckRate(r) PROVE Goal
  <2>1. CASE pc' = [pc EXCEPT ![r] = "failed"]
    BY <1>5, <2>1, <1>0, CountStutter DEF CheckRate, TypeOK
  <2>2. CASE pc' = [pc EXCEPT ![r] = "fresh"] /\ pc' # [pc EXCEPT ![r] = "failed"]
    <3>1. ~(Cardinality(Recent(Actor(r))) >= RateLimit)
      BY <1>5, <2>2 DEF CheckRate
    <3>2. Recent(Actor(r)) = Younger(Actor(r), now)
      BY DEF Recent, Younger, Used
    <3>3. Cardinality(Younger(Actor(r), now)) < RateLimit
      BY <3>1, <3>2, <1>0, YoungerShrinks, BoundaryAssumption DEF RateInv, CountInv, TypeOK
    <3>4. Used' = Used /\ (\A a, t : Younger(a, t)' = Younger(a, t) /\ Within(a, t)' = Within(a, t))
      BY <1>5 DEF CheckRate, Used, Younger, Within
    <3>5. \A x \in Attempts : /\ pc'[x] = "fresh" => x = r \/ pc[x] = "fresh"
                              /\ pc'[x] = "ready" => pc[x] = "ready"
      BY <2>2, <1>0 DEF TypeOK
    <3>6. now' = now /\ request' = request /\ staged' = staged /\ receipt' = receipt
      BY <1>5 DEF CheckRate
    <3> QED
      BY <3>3, <3>4, <3>5, <3>6 DEF RateInv, CountInv, LimitInv, Actor
  <2> QED
    BY <1>5, <2>1, <2>2 DEF CheckRate
<1>6. ASSUME NEW r \in Attempts, Handle(r) PROVE Goal
  <2>1. Used' = Used /\ (\A a, t : Younger(a, t)' = Younger(a, t) /\ Within(a, t)' = Within(a, t))
    BY <1>6 DEF Handle, Used, Younger, Within
  <2>2. staged'[r].created = now /\ Cardinality(Younger(Actor(r), now)) < RateLimit
    BY <1>6, <1>0 DEF Handle, RateInv, CountInv, TypeOK
  <2>3. ASSUME NEW x \in Attempts
        PROVE  /\ pc'[x] = "fresh" => pc[x] = "fresh"
               /\ pc'[x] = "ready" => x = r \/ (pc[x] = "ready" /\ staged'[x] = staged[x])
    <3>1. pc'[r] = "ready" /\ (x # r => pc'[x] = pc[x])
      <4>1. DOMAIN pc = Attempts
        BY <1>0 DEF TypeOK
      <4> QED
        BY <1>6, <4>1 DEF Handle
    <3>2. x # r => staged'[x] = staged[x]
      BY <1>6, <1>0 DEF Handle, TypeOK
    <3> QED
      BY <3>1, <3>2
  <2>4. now' = now /\ request' = request /\ receipt' = receipt
    BY <1>6 DEF Handle
  <2>5. now \in Nat
    BY <1>0 DEF TypeOK
  <2> QED
    BY <2>1, <2>2, <2>3, <2>4, <2>5 DEF RateInv, CountInv, LimitInv, Actor
<1>7. ASSUME NEW r \in Attempts, Commit(r) PROVE Goal
  <2>1. PICK k \in Commands : k = request[r].command
    BY <1>7, <1>0 DEF Commit, IInv, RequestInv, Request
  <2>2. PICK s \in Nat : s = staged[r].created
    BY <1>7, <1>0 DEF Commit, IInv, StagedInv, Receipt
  <2>3. /\ receipt[k] = NoReceipt
        /\ receipt'[k] = staged[r]
        /\ staged[r] # NoReceipt
        /\ \A c \in Commands : c # k => receipt'[c] = receipt[c]
    BY <1>7, <1>0, <2>1, NoReceiptIsNone DEF Commit, IInv, TypeOK, StagedInv, ReceiptOf
  <2>4. Used' = Used \cup {k} /\ k \notin Used
    BY <2>1, <2>3 DEF Used
  <2>5. IsFiniteSet(Used')
    BY <2>4, FS_AddElement DEF RateInv, CountInv
  <2>6. /\ now' = now /\ s <= now
        /\ \A c \in Used : receipt[c].created <= s
        /\ Cardinality(Younger(k[1], s)) < RateLimit
    BY <1>7, <2>1, <2>2 DEF Commit, RateInv, CountInv, Actor
  <2>7. \A c \in Used' : receipt'[c].created <= now'
    BY <2>2, <2>3, <2>4, <2>6, UsedTyped, <1>0 DEF RateInv, CountInv, TypeOK, Used
  <2>8. \A x \in Attempts : pc'[x] \notin {"fresh", "ready"}
    BY <1>7, <1>0 DEF Commit, IInv, TypeOK, LockInv, Holding
  <2>9. ASSUME NEW a \in Actors, NEW t \in 0..MaxTime PROVE Cardinality(Within(a, t)') <= RateLimit
    <3>1. \A c \in Used : receipt'[c] = receipt[c] /\ c # k
      BY <2>3, <2>4 DEF Used
    <3>2. CASE a = k[1] /\ s \in (t - RateWindow + 1)..t
      <4>1. Within(a, t)' = Within(a, t) \cup {k}
        BY <2>2, <2>3, <2>4, <3>1, <3>2 DEF Within
      <4>2. Within(a, t) \in SUBSET Younger(a, s)
        BY <2>6, <3>2, UsedTyped, <1>0, BoundaryAssumption DEF Within, Younger
      <4>3. IsFiniteSet(Younger(a, s))
        BY FS_Subset DEF Younger, RateInv, CountInv
      <4>4. /\ IsFiniteSet(Within(a, t))
            /\ Cardinality(Within(a, t)) <= Cardinality(Younger(a, s))
        BY <4>2, <4>3, FS_Subset
      <4>5. Cardinality(Within(a, t)) \in Nat /\ Cardinality(Younger(a, s)) \in Nat
        BY <4>3, <4>4, FS_CardinalityType
      <4>6. Cardinality(Within(a, t) \cup {k}) <= Cardinality(Within(a, t)) + 1
        <5>1. Cardinality(Within(a, t) \cup {k}) =
                IF k \in Within(a, t) THEN Cardinality(Within(a, t))
                ELSE Cardinality(Within(a, t)) + 1
          BY <4>4, FS_AddElement
        <5> QED
          BY <5>1, <4>5
      <4>7. IsFiniteSet(Within(a, t) \cup {k})
        BY <4>4, FS_AddElement
      <4>8. Cardinality(Within(a, t) \cup {k}) \in Nat
        BY <4>7, FS_CardinalityType
      <4> QED
        BY <2>6, <3>2, <4>1, <4>4, <4>5, <4>6, <4>8, BoundaryAssumption
    <3>3. CASE ~(a = k[1] /\ s \in (t - RateWindow + 1)..t)
      <4>1. Within(a, t)' = Within(a, t)
        BY <2>2, <2>3, <2>4, <3>1, <3>3 DEF Within
      <4> QED
        BY <4>1 DEF RateInv, LimitInv
    <3> QED
      BY <3>2, <3>3
  <2> QED
    BY <2>5, <2>7, <2>8, <2>9 DEF CountInv, LimitInv
<1>8. ASSUME NEW r \in Attempts, Respond(r) PROVE Goal
  BY <1>8, <1>0, CountStutter DEF Respond, TypeOK
<1>9. ASSUME NEW r \in Attempts, Reject(r) PROVE Goal
  BY <1>9, <1>0, CountStutter DEF Reject, TypeOK
<1>10. ASSUME NEW r \in Attempts, Crash(r) PROVE Goal
  BY <1>10, <1>0, CountStutter DEF Crash, TypeOK
<1>11. ASSUME NEW a \in Officials, ChangeStanding(a) PROVE Goal
  BY <1>11, <1>0, CountStutter DEF ChangeStanding, TypeOK
<1>12. CASE Tick
  <2>1. Used' = Used /\ (\A a, t : Younger(a, t)' = Younger(a, t) /\ Within(a, t)' = Within(a, t))
    BY <1>12 DEF Tick, Used, Younger, Within
  <2>2. now \in Nat /\ now' \in Nat /\ now < now'
    BY <1>12, <1>0 DEF Tick, TypeOK
  <2>3. pc' = pc /\ request' = request /\ staged' = staged /\ receipt' = receipt
    BY <1>12 DEF Tick
  <2>4. \A c \in Used : receipt[c].created <= now'
    BY <2>2, UsedTyped, <1>0 DEF RateInv, CountInv
  <2>5. \A r \in Attempts : pc[r] = "fresh" => Cardinality(Younger(Actor(r), now')) < RateLimit
    BY <2>2, <1>0, YoungerShrinks, BoundaryAssumption DEF RateInv, CountInv
  <2>6. \A r \in Attempts : pc[r] = "ready" => staged[r].created \in Nat
    BY <1>0 DEF IInv, StagedInv, Receipt
  <2>7. \A r \in Attempts : pc[r] = "ready" => staged[r].created <= now'
    BY <2>2, <2>6 DEF RateInv, CountInv
  <2>8. CountInv'
    BY <2>1, <2>3, <2>4, <2>5, <2>7 DEF RateInv, CountInv, Actor
  <2>9. LimitInv'
    BY <2>1 DEF RateInv, LimitInv
  <2> QED
    BY <2>8, <2>9
<1>13. CASE UNCHANGED vars
  BY <1>13, <1>0, CountStutter DEF vars, TypeOK
<1> QED
  BY <1>1, <1>2, <1>3, <1>4, <1>5, <1>6, <1>7, <1>8,
     <1>9, <1>10, <1>11, <1>12, <1>13
  DEF Next, Proceed

\* The limit of the run holds for every limit and window: counting first and
\* committing later never lets an actor exceed it.
THEOREM RateLimited == Spec => []RateBounded
<1>1. Init => RateInv
  <2> SUFFICES ASSUME Init PROVE RateInv
    OBVIOUS
  <2>1. Used = {}
    BY DEF Init, Used
  <2>2. \A a, t : Within(a, t) = {}
    BY <2>1 DEF Within
  <2>3. CountInv
    BY <2>1, FS_EmptySet DEF Init, CountInv
  <2>4. LimitInv
    BY <2>2, FS_EmptySet, BoundaryAssumption DEF LimitInv
  <2> QED
    BY <2>3, <2>4, InitInv DEF RateInv
<1>2. RateInv => RateBounded
  BY LimitIsRateBounded DEF RateInv
<1> QED
  BY <1>1, <1>2, RateStep, PTL DEF Spec
=============================================================================
