-------------------------------- MODULE Ledger --------------------------------
(***************************************************************************)
(* The wallet.Ledger port of internal/cashback/wallet: what every          *)
(* implementation of a double-entry ledger promises the cashback domain.   *)
(*                                                                         *)
(* A transfer is the movement it makes on every account.  A key records at *)
(* most one transfer, a recorded transfer never changes, and no member     *)
(* account is drawn below zero.  Every call that is not a Post of this     *)
(* module (a replay, a conflict, a refusal) leaves the ledger as it is.    *)
(***************************************************************************)
EXTENDS Integers, Functions

CONSTANTS
    MemberAccounts,     \* the members' stage accounts
    HouseAccounts,      \* the boundary accounts, which may go negative
    Keys,               \* idempotency keys
    Transfers,          \* the movements callers ask for, valid or not
    NoTransfer          \* what a key records before its first transfer

Accounts == MemberAccounts \cup HouseAccounts

ASSUME LedgerAssumption ==
    /\ Transfers \subseteq [Accounts -> Int]
    /\ NoTransfer \notin Transfers

VARIABLES
    balance,    \* the sum of an account's postings
    posted      \* the transfer recorded under each key

ledgerVars == <<balance, posted>>

LedgerTypeOK ==
    /\ balance \in [Accounts -> Int]
    /\ posted \in [Keys -> Transfers \cup {NoTransfer}]

LedgerInit ==
    /\ balance = [a \in Accounts |-> 0]
    /\ posted = [k \in Keys |-> NoTransfer]

------------------------------------------------------------------------------
(* Transfer.Validate: the postings sum to zero and move something. *)
Validates(t) ==
    /\ SumFunction(t) = 0
    /\ \E a \in Accounts : t[a] # 0

(* The member accounts a transfer names, in the ledger's eyes those drawn. *)
Drawn(t) == {a \in MemberAccounts : t[a] # 0}

Funds(t) == \A a \in Drawn(t) : balance[a] + t[a] >= 0

Record(k, t) ==
    /\ balance' = [a \in Accounts |-> balance[a] + t[a]]
    /\ posted' = [posted EXCEPT ![k] = t]

Post(k, t) ==
    /\ Validates(t)
    /\ posted[k] = NoTransfer
    /\ Funds(t)
    /\ Record(k, t)

LedgerNext == \E k \in Keys, t \in Transfers : Post(k, t)

LedgerSpec == LedgerInit /\ [][LedgerNext]_ledgerVars

------------------------------------------------------------------------------
(* No member account holds less than nothing (ErrInsufficientFunds), the   *)
(* rule the reservation of a withdrawal leans on.                          *)
NeverOverdrawn == \A a \in MemberAccounts : balance[a] >= 0

(* C-1: what the accounts hold sums to zero. *)
ZeroSum == SumFunction(balance) = 0
==============================================================================
