------------------------------ MODULE MCFunds -------------------------------
(***************************************************************************)
(* One programme is enough for rounding, repeated allocations and relinks; *)
(* a second account with no cash shows that wallets do not mix.            *)
(***************************************************************************)
EXTENDS Funds, TLC

CONSTANTS a1, a2

MCAccounts == {a1, a2}
MCProgramTerms == [expires : {1, 2}, categories : {{"food"}}, organization : BOOLEAN]
MCInitialCash == (a1 :> 3) @@ (a2 :> 0)
=============================================================================
