---------------------------- MODULE ExactlyOnce -----------------------------
(***************************************************************************)
(* What a client of Henna's commerce commands is promised                  *)
(* (docs/implementation/HANA-COMMERCE-INTERNAL.md): commands take effect   *)
(* one after another; a command, named by its actor and its               *)
(* Idempotency-Key, takes effect at most once; whoever sends it again with *)
(* the same input is given the result of that one time, and with another   *)
(* input is refused.                                                       *)
(***************************************************************************)
EXTENDS Naturals, Sequences

CONSTANTS Commands, Payloads

VARIABLES
    effects,    \* the commands that took effect, in order
    answers     \* the answers clients have been given

Refused == 0    \* the result of a command whose key stands for another input

Init == effects = <<>> /\ answers = {}

Happened(c) == \E i \in DOMAIN effects : effects[i].command = c

TakeEffect(c, p) ==
    /\ ~Happened(c)
    /\ effects' = Append(effects, [command |-> c, payload |-> p])
    /\ UNCHANGED answers

\* The result of a command is what it did to the state it found: its place in
\* the order of effects.
Answer(i) ==
    /\ answers' = answers \cup
         {[command |-> effects[i].command, payload |-> effects[i].payload, result |-> i]}
    /\ UNCHANGED effects

Refuse(i, p) ==
    /\ effects[i].payload # p
    /\ answers' = answers \cup
         {[command |-> effects[i].command, payload |-> p, result |-> Refused]}
    /\ UNCHANGED effects

Next ==
    \/ \E c \in Commands, p \in Payloads : TakeEffect(c, p)
    \/ \E i \in DOMAIN effects : Answer(i)
    \/ \E i \in DOMAIN effects, p \in Payloads : Refuse(i, p)

Spec == Init /\ [][Next]_<<effects, answers>>
=============================================================================
