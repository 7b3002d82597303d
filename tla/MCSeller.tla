------------------------------ MODULE MCSeller ------------------------------
(* Two tabs of one applicant, from several steps of the application on.      *)
EXTENDS SellerRegistration, TLC

Symmetry == Permutations(Flights) \cup Permutations(Keys)

\* The first step and the type; the middle steps; the end.
MCScenarios ==
    {[step |-> 0, ops |-> {"save"}, commands |-> 3],
     [step |-> 1, ops |-> {"save", "type"}, commands |-> 2],
     [step |-> 2, ops |-> {"type", "natural", "legal", "business"}, commands |-> 4],
     [step |-> 4, ops |-> {"area", "extra", "submit"}, commands |-> 5],
     [step |-> 6, ops |-> {"submit"}, commands |-> 4]}

\* The first step and the type only.
MCTypes == {[step |-> 1, ops |-> {"save", "type"}, commands |-> 3]}
=============================================================================
