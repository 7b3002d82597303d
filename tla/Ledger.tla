------------------------------- MODULE Ledger -------------------------------
(***************************************************************************)
(* The money journal of Henna's commerce back end.  Every handler that     *)
(* moves money appends MONEY_TRANSFER entries, each naming a debit account *)
(* and a credit account; the journal is append-only.  What matters of it   *)
(* here is the balance it leaves on every account, so the journal is       *)
(* represented by the function balance of the modules that extend this one.*)
(***************************************************************************)
EXTENDS Integers, FiniteSets

CONSTANTS
    Accounts,      \* identity accounts acting as buyers and beneficiaries
    Programs,      \* identities of credit programmes
    Withdrawals,   \* identities of withdrawal requests
    OrderIds       \* identities of orders

\* Identities are 128-bit GUIDs: there are finitely many, so amounts of different
\* accounts and of different orders can be added up.
ASSUME LedgerAssumption == IsFiniteSet(Accounts) /\ IsFiniteSet(OrderIds)

\* A grant is identified by its programme and its beneficiary: Allocate refuses
\* a second grant of a programme to an account (HOUSEHOLD_ALREADY_ALLOCATED).
GrantIds == Programs \X Accounts

ApprovedSource      == <<"APPROVED_SOURCE", "external">>
ProgramAvailable(p) == <<"PROGRAM_AVAILABLE", p>>
HouseholdCredit(g)  == <<"HOUSEHOLD_CREDIT", g>>
BuyerCash(a)        == <<"BUYER_CASH", a>>
WithdrawalHold(w)   == <<"WITHDRAWAL_HOLD", w>>
OrderCash(o)        == <<"ORDER_CASH", o>>
OrderCredit(o)      == <<"ORDER_CREDIT", o>>

LedgerAccounts ==
    {ApprovedSource}
      \cup {ProgramAvailable(p) : p \in Programs}
      \cup {HouseholdCredit(g) : g \in GrantIds}
      \cup {BuyerCash(a) : a \in Accounts}
      \cup {WithdrawalHold(w) : w \in Withdrawals}
      \cup {OrderCash(o) : o \in OrderIds}
      \cup {OrderCredit(o) : o \in OrderIds}

\* One journal entry.  Nothing is written for a zero amount; a negative amount
\* aborts the command, so callers guard against it.
Transfer(balance, debit, credit, amount) ==
    IF amount = 0
      THEN balance
      ELSE [balance EXCEPT ![debit] = @ - amount, ![credit] = @ + amount]
=============================================================================
