------------------------------ MODULE MCMobile ------------------------------
(* A small device: few commands, one photograph, at most two controllers of *)
(* the same or of different screens alive at a time.                        *)
EXTENDS MobileCommerce, TLC

MCScenarios ==
    {[screens |-> {"incidents"}, commands |-> 1],
     [screens |-> {"cart", "wallet"}, commands |-> 2],
     [screens |-> {"checkout"}, commands |-> 1],
     [screens |-> {"orders"}, commands |-> 1],
     [screens |-> {"support"}, commands |-> 1]}

KeySymmetry == Permutations(Keys)
ControllerSymmetry == Permutations(Controllers)
Symmetry == KeySymmetry \cup ControllerSymmetry
=============================================================================
