------------------------- MODULE MCCommandBoundary --------------------------
(***************************************************************************)
(* A clerk, who needs a staff permission, sends a command, repeats it with *)
(* the same or another input or sends a second one, while a chief, who has *)
(* the ADMIN role, may revoke the permission.                              *)
(***************************************************************************)
EXTENDS CommandBoundary, TLC

CONSTANTS chief, clerk, work, rework, revoke, k1, k2, r1, r2, r3

MCRightOf == (work :> "staff") @@ (rework :> "staff") @@ (revoke :> "standing")
MCGrants  == [p \in Payloads |-> {}]
MCRevokes == [p \in Payloads |-> IF p = revoke THEN {clerk} ELSE {}]

\* What each attempt may be sent.
Menu(r) ==
    CASE r = r1 -> {<<clerk, k1>>} \X {work, rework}
      [] r = r2 -> {<<clerk, k1>>, <<clerk, k2>>} \X {work}
      [] r = r3 -> {<<<<chief, k1>>, revoke>>, <<<<clerk, k1>>, work>>, <<<<clerk, k2>>, rework>>}

MCNext ==
    \/ \E r \in Attempts : \E m \in Menu(r) : Submit(r, m[1], m[2])
    \/ \E r \in Attempts : Acquire(r) \/ Proceed(r) \/ Reject(r) \/ Crash(r)
    \/ \E a \in Officials : ChangeStanding(a)
    \/ Tick

MCSpec == Init /\ [][MCNext]_vars /\ Fairness
=============================================================================
