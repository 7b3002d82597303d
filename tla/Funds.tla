------------------------------- MODULE Funds --------------------------------
(***************************************************************************)
(* Where Henna's money comes from and how it leaves: credit programmes and *)
(* their allocation to households, cash wallets, and withdrawal requests   *)
(* (CommerceService: CREATE_PROGRAM, ALLOCATE_CREDIT, LINK_HOUSEHOLD,      *)
(* GRANT/REVOKE_ORGANIZATION_MEMBER, REQUEST_WITHDRAWAL,                   *)
(* CANCEL_WITHDRAWAL, ASSESS_WITHDRAWAL_SLA).                              *)
(*                                                                         *)
(* Commands run one at a time: each holds a PostgreSQL advisory lock from  *)
(* before its first read to its commit, so a command is one action, and a  *)
(* command that throws rolls back and is no step.  A document is a record; *)
(* the record that stands for a missing document is named No....           *)
(***************************************************************************)
EXTENDS Ledger, Functions

CONSTANTS
    Households,     \* household keys asserted by the finance staff
    NoHousehold,    \* "no household": no link, or no grant
    Categories,     \* published catalogue categories
    InitialCash,    \* cash put in each wallet from outside; no command does it
    FundAmounts,    \* amounts a programme may be funded with
    ProgramTerms,   \* expiry, categories and ownership a programme may be given
    Pools,          \* amounts an allocation may ask to distribute
    Weights,        \* need weights (household factor times geography)
    WithdrawAmounts,\* amounts a buyer may ask to withdraw
    WithdrawalSla,  \* 72 hours, in the model's time unit
    MaxTime,        \* bound: the clock stops here
    MaxRial         \* largest amount of the code's checked 64-bit arithmetic

ASSUME FundsAssumption ==
    /\ NoHousehold \notin Households
    /\ InitialCash \in [Accounts -> Nat]
    /\ FundAmounts \subseteq Nat \ {0}
    /\ ProgramTerms \subseteq [expires : Nat, categories : (SUBSET Categories) \ {{}},
                              organization : BOOLEAN]
    /\ Pools \subseteq Nat \ {0}
    /\ Weights \subseteq Nat \ {0}
    /\ WithdrawAmounts \subseteq Nat \ {0}
    /\ WithdrawalSla \in Nat
    /\ MaxTime \in Nat
    /\ MaxRial \in Nat

VARIABLES
    now,          \* server clock
    wallet,       \* cash wallet documents
    program,      \* credit programme documents
    grant,        \* credit grant documents
    link,         \* household link documents: the key an account is linked to
    members,      \* accounts holding a BENEFICIARY membership
    withdrawal,   \* withdrawal documents
    balance       \* journal balance of every ledger account

creditVars   == <<program, grant, link, members>>
withdrawVars == <<withdrawal>>
fundsVars    == <<now, wallet, program, grant, link, members, withdrawal, balance>>

-----------------------------------------------------------------------------
NoProgram == [funded |-> 0, unallocated |-> 0, expires |-> 0,
              categories |-> {}, organization |-> FALSE]
NoGrant == [household |-> NoHousehold, granted |-> 0, available |-> 0]
NoWithdrawal == [state |-> "NONE", account |-> "none", amount |-> 0,
                 due |-> 0, escalated |-> FALSE]

\* A grant copies the expiry and the categories of its programme, which no
\* command changes afterwards, so they are read from the programme.
Program == [funded : Nat, unallocated : Int, expires : Nat,
            categories : SUBSET Categories, organization : BOOLEAN]
Grant == [household : Households \cup {NoHousehold}, granted : Int, available : Int]
Withdrawal == [state : {"NONE", "OWNERSHIP_VERIFICATION_PENDING", "CANCELLED"},
               account : Accounts \cup {"none"}, amount : Nat, due : Nat,
               escalated : BOOLEAN]

FundsTypeOK ==
    /\ now \in Nat
    /\ wallet \in [Accounts -> Nat]
    /\ program \in [Programs -> Program]
    /\ grant \in [GrantIds -> Grant]
    /\ link \in [Accounts -> Households \cup {NoHousehold}]
    /\ members \subseteq Accounts
    /\ withdrawal \in [Withdrawals -> Withdrawal]
    /\ balance \in [LedgerAccounts -> Int]

FundsInit ==
    /\ now = 0
    /\ wallet = InitialCash
    /\ program = [p \in Programs |-> NoProgram]
    /\ grant = [g \in GrantIds |-> NoGrant]
    /\ link = [a \in Accounts |-> NoHousehold]
    /\ members = {}
    /\ withdrawal = [w \in Withdrawals |-> NoWithdrawal]
    /\ balance = [x \in LedgerAccounts |-> 0]

-----------------------------------------------------------------------------
(* Credit programmes *)

ProgramExists(p) == program[p] # NoProgram
GrantExists(g)   == grant[g] # NoGrant

CreateProgram(p, amount, term) ==
    /\ ~ProgramExists(p)
    /\ term.expires > now
    /\ program' = [program EXCEPT ![p] =
                     [funded |-> amount, unallocated |-> amount, expires |-> term.expires,
                      categories |-> term.categories, organization |-> term.organization]]
    /\ balance' = Transfer(balance, ApprovedSource, ProgramAvailable(p), amount)
    /\ UNCHANGED <<now, wallet, grant, link, members, withdrawal>>

\* Finance staff assert a household key for an account; a second assertion
\* replaces the first, whatever was allocated under it.
LinkHousehold(a, h) ==
    /\ link' = [link EXCEPT ![a] = h]
    /\ UNCHANGED <<now, wallet, program, grant, members, withdrawal, balance>>

\* Role BENEFICIARY of the one organisation the model has.
GrantMembership(a) ==
    /\ members' = members \cup {a}
    /\ UNCHANGED <<now, wallet, program, grant, link, withdrawal, balance>>

RevokeMembership(a) ==
    /\ a \in members
    /\ members' = members \ {a}
    /\ UNCHANGED <<now, wallet, program, grant, link, withdrawal, balance>>

\* Mistake: shares are rounded up.
SharesRoundedUp(pool, weight) ==
    [a \in DOMAIN weight |->
       (pool * weight[a] + SumFunction(weight) - 1) \div SumFunction(weight)]

\* What each beneficiary of the pool receives: its weighted part, rounded down.
Shares(pool, weight) ==
    [a \in DOMAIN weight |-> (pool * weight[a]) \div SumFunction(weight)]

\* Mistake: only the account, not its household, is looked up among the grants.
EligibleByAccount(p, S) ==
    /\ S # {}
    /\ \A a \in S : link[a] # NoHousehold
    /\ \A a, b \in S : link[a] = link[b] => a = b
    /\ \A a \in S, g \in GrantIds : g[1] = p /\ GrantExists(g) => g[2] # a
    /\ program[p].organization => S \subseteq members

\* Conditions on the beneficiaries of one allocation: each linked to a household,
\* no household twice, none already served by the programme under its account or
\* its household, all members when the programme belongs to an organisation.
Eligible(p, S) ==
    /\ S # {}
    /\ \A a \in S : link[a] # NoHousehold
    /\ \A a, b \in S : link[a] = link[b] => a = b
    /\ \A a \in S, g \in GrantIds :
          g[1] = p /\ GrantExists(g) => g[2] # a /\ grant[g].household # link[a]
    /\ program[p].organization => S \subseteq members

\* Distributes pool over the beneficiaries in DOMAIN weight and posts one
\* transfer per grant.  The parts lost to rounding stay with the programme.
Allocate(p, pool, weight) ==
    LET S == DOMAIN weight
        share == Shares(pool, weight)
        assigned == SumFunction(share)
    IN  /\ ProgramExists(p)
        /\ program[p].expires > now
        /\ pool <= program[p].unallocated
        /\ Eligible(p, S)
        /\ \A a \in S : share[a] \in 0..MaxRial
        /\ assigned \in 0..MaxRial
        /\ grant' = [g \in GrantIds |->
                       IF g[1] = p /\ g[2] \in S
                         THEN [household |-> link[g[2]], granted |-> share[g[2]],
                               available |-> share[g[2]]]
                         ELSE grant[g]]
        /\ program' = [program EXCEPT ![p].unallocated = @ - assigned]
        /\ balance' = [x \in LedgerAccounts |->
                         IF x = ProgramAvailable(p) THEN balance[x] - assigned
                         ELSE IF \E a \in S : x = HouseholdCredit(<<p, a>>)
                                THEN balance[x] + share[x[2][2]]
                                ELSE balance[x]]
        /\ UNCHANGED <<now, wallet, link, members, withdrawal>>

-----------------------------------------------------------------------------
(* Withdrawals *)

\* Mistake: the wallet is not checked.
WithdrawUnchecked(w, a, amount) ==
    /\ withdrawal[w].state = "NONE"
    /\ wallet' = [wallet EXCEPT ![a] = @ - amount]
    /\ withdrawal' = [withdrawal EXCEPT ![w] =
                        [state |-> "OWNERSHIP_VERIFICATION_PENDING", account |-> a,
                         amount |-> amount, due |-> now + WithdrawalSla,
                         escalated |-> FALSE]]
    /\ balance' = Transfer(balance, BuyerCash(a), WithdrawalHold(w), amount)
    /\ UNCHANGED <<now, creditVars>>

\* Cash leaves the wallet at once and is held until the bank account's
\* ownership is verified, which no code does yet.
Withdraw(w, a, amount) ==
    /\ withdrawal[w].state = "NONE"
    /\ wallet[a] >= amount
    /\ wallet' = [wallet EXCEPT ![a] = @ - amount]
    /\ withdrawal' = [withdrawal EXCEPT ![w] =
                        [state |-> "OWNERSHIP_VERIFICATION_PENDING", account |-> a,
                         amount |-> amount, due |-> now + WithdrawalSla,
                         escalated |-> FALSE]]
    /\ balance' = Transfer(balance, BuyerCash(a), WithdrawalHold(w), amount)
    /\ UNCHANGED <<now, creditVars>>

\* Mistake: a request can be cancelled again.
CancelWithdrawalTwice(w) ==
    LET a == withdrawal[w].account
        amount == withdrawal[w].amount
    IN  /\ withdrawal[w].state # "NONE"
        /\ wallet[a] + amount <= MaxRial
        /\ wallet' = [wallet EXCEPT ![a] = @ + amount]
        /\ withdrawal' = [withdrawal EXCEPT ![w].state = "CANCELLED"]
        /\ balance' = Transfer(balance, WithdrawalHold(w), BuyerCash(a), amount)
        /\ UNCHANGED <<now, creditVars>>

CancelWithdrawal(w) ==
    LET a == withdrawal[w].account
        amount == withdrawal[w].amount
    IN  /\ withdrawal[w].state = "OWNERSHIP_VERIFICATION_PENDING"
        /\ wallet[a] + amount <= MaxRial
        /\ wallet' = [wallet EXCEPT ![a] = @ + amount]
        /\ withdrawal' = [withdrawal EXCEPT ![w].state = "CANCELLED"]
        /\ balance' = Transfer(balance, WithdrawalHold(w), BuyerCash(a), amount)
        /\ UNCHANGED <<now, creditVars>>

Overdue(w) ==
    /\ withdrawal[w].state = "OWNERSHIP_VERIFICATION_PENDING"
    /\ ~withdrawal[w].escalated
    /\ withdrawal[w].due < now

\* Flags every overdue request, and notifies its buyer, once.
AssessWithdrawals ==
    /\ withdrawal' = [w \in Withdrawals |->
                        IF Overdue(w) THEN [withdrawal[w] EXCEPT !.escalated = TRUE]
                        ELSE withdrawal[w]]
    /\ UNCHANGED <<now, wallet, creditVars, balance>>

Tick ==
    /\ now < MaxTime
    /\ now' = now + 1
    /\ UNCHANGED <<wallet, creditVars, withdrawal, balance>>

FundsNext ==
    \/ \E p \in Programs, amount \in FundAmounts, term \in ProgramTerms :
          CreateProgram(p, amount, term)
    \/ \E a \in Accounts, h \in Households : LinkHousehold(a, h)
    \/ \E a \in Accounts : GrantMembership(a)
    \/ \E a \in Accounts : RevokeMembership(a)
    \/ \E p \in Programs, pool \in Pools, S \in SUBSET Accounts :
          \E weight \in [S -> Weights] : Allocate(p, pool, weight)
    \/ \E w \in Withdrawals, a \in Accounts, amount \in WithdrawAmounts :
          Withdraw(w, a, amount)
    \/ \E w \in Withdrawals : CancelWithdrawal(w)
    \/ AssessWithdrawals
    \/ Tick

FundsSpec == FundsInit /\ [][FundsNext]_fundsVars

-----------------------------------------------------------------------------
(* Properties *)

\* Each kind of balance document against its journal account.
WalletsReconciled ==
    \A a \in Accounts : wallet[a] = InitialCash[a] + balance[BuyerCash(a)]
ProgramsReconciled ==
    \A p \in Programs : program[p].unallocated = balance[ProgramAvailable(p)]
GrantsReconciled ==
    \A g \in GrantIds : grant[g].available = balance[HouseholdCredit(g)]
HoldsReconciled ==
    \A w \in Withdrawals :
       balance[WithdrawalHold(w)] =
          IF withdrawal[w].state = "OWNERSHIP_VERIFICATION_PENDING"
            THEN withdrawal[w].amount ELSE 0

\* Every balance document equals what the journal says of its account: no
\* handler changes a wallet, a programme, a grant or a hold without posting the
\* matching transfer, or posts one without changing the document.
Reconciled ==
    WalletsReconciled /\ ProgramsReconciled /\ GrantsReconciled /\ HoldsReconciled

\* IntegrityAsync's PROGRAM_BALANCE_INVALID and PROGRAM_ALLOCATION_MISMATCH:
\* rounding never hands out more than the pool, over any series of allocations
\* of one programme, and what is granted plus what is left is what was funded.
ProgramsAccounted ==
    \A p \in Programs :
       /\ program[p].unallocated \in 0..program[p].funded
       /\ SumFunction([a \in Accounts |-> grant[<<p, a>>].granted])
            + program[p].unallocated = program[p].funded

\* One household is served once by a programme, through whichever of its
\* accounts, also when accounts are linked to other households in between.
HouseholdOncePerProgram ==
    \A g, h \in GrantIds :
       /\ g # h /\ g[1] = h[1]
       /\ GrantExists(g) /\ GrantExists(h)
       => grant[g].household # grant[h].household

\* IntegrityAsync's CREDIT_BALANCE_INVALID, first part: a grant carries money.
GrantsPositive ==
    \A g \in GrantIds : GrantExists(g) => grant[g].granted > 0

\* IntegrityAsync's CREDIT_HOUSEHOLD_LINK_MISSING: the household frozen in a
\* grant is the one its account is linked to.
GrantsLinked ==
    \A g \in GrantIds : GrantExists(g) => link[g[2]] = grant[g].household
=============================================================================
