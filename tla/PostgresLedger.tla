---------------------------- MODULE PostgresLedger ----------------------------
(***************************************************************************)
(* internal/cashback/wallet/postgres: Post as the statements of one        *)
(* database transaction, run by several callers at once.                   *)
(*                                                                         *)
(* balance and posted are the committed tables.  The claim of a key (its   *)
(* row in the unique index) and the row locks on member accounts last      *)
(* until the transaction ends; other callers wait for them.  Every         *)
(* statement reads what is committed when it runs (READ COMMITTED).        *)
(***************************************************************************)
EXTENDS Ledger, FiniteSets

CONSTANTS
    Procs,      \* the concurrent callers of Post
    NoProc,     \* nobody
    IdOf,       \* an account's id, in the order the lock statement sorts by
    MaxFaults   \* bound: lost connections and cancelled calls together

ASSUME PostgresAssumption ==
    /\ NoProc \notin Procs
    /\ IsFiniteSet(Accounts)
    /\ IdOf \in [MemberAccounts -> Nat]
    /\ \A a, b \in MemberAccounts : IdOf[a] = IdOf[b] => a = b
    /\ MaxFaults \in Nat

VARIABLES
    pc,         \* where each caller is
    key,        \* the key it posts under
    transfer,   \* the transfer it posts
    answer,     \* what its last Post came back with
    claimed,    \* who holds each key, uncommitted
    locked,     \* who holds the row lock on each member account
    faults

procVars == <<pc, key, transfer, answer, claimed, locked>>
vars     == <<ledgerVars, procVars, faults>>

Answers == {"none", "ref", "conflict", "funds", "lost"}

TypeOK ==
    /\ LedgerTypeOK
    /\ pc \in [Procs -> {"idle", "judge", "claim", "lock", "funds", "commit", "answer"}]
    /\ key \in [Procs -> Keys]
    /\ transfer \in [Procs -> Transfers]
    /\ answer \in [Procs -> Answers]
    /\ claimed \in [Keys -> Procs \cup {NoProc}]
    /\ locked \in [MemberAccounts -> Procs \cup {NoProc}]
    /\ faults \in 0 .. MaxFaults

(* key and transfer mean nothing before a caller's first call. *)
Init ==
    /\ LedgerInit
    /\ pc = [p \in Procs |-> "idle"]
    /\ key \in [Procs -> Keys]
    /\ transfer \in [Procs -> Transfers]
    /\ answer = [p \in Procs |-> "none"]
    /\ claimed = [k \in Keys |-> NoProc]
    /\ locked = [a \in MemberAccounts |-> NoProc]
    /\ faults = 0

------------------------------------------------------------------------------
Goto(p, l) == pc' = [pc EXCEPT ![p] = l]

(* Commit and rollback both let go of everything the transaction holds. *)
ReleaseLocks(p) ==
    /\ claimed' = [k \in Keys |-> IF claimed[k] = p THEN NoProc ELSE claimed[k]]
    /\ locked' = [a \in MemberAccounts |-> IF locked[a] = p THEN NoProc ELSE locked[a]]

(* Post returns: with the recorded reference, or refusing. *)
Return(p, said) ==
    /\ Goto(p, "idle")
    /\ answer' = [answer EXCEPT ![p] = said]
    /\ ReleaseLocks(p)
    /\ UNCHANGED <<ledgerVars, key, transfer, faults>>

Same == UNCHANGED <<ledgerVars, key, transfer, answer, faults>>

(* A caller posts; a transfer Validate refuses goes no further. *)
Call(p, k, t) ==
    /\ pc[p] = "idle"
    /\ Validates(t)
    /\ Goto(p, "judge")
    /\ key' = [key EXCEPT ![p] = k]
    /\ transfer' = [transfer EXCEPT ![p] = t]
    /\ answer' = [answer EXCEPT ![p] = "none"]
    /\ UNCHANGED <<ledgerVars, claimed, locked, faults>>

(* Mutants: a conflict comes back as the database's own error, or any      *)
(* recorded key counts as a replay.                                        *)
Judged_Raw(p) == IF posted[key[p]] = transfer[p] THEN "ref" ELSE "23505"
Judged_AnyReplay(p) == "ref"

(* judgeRecordedKey: a recorded key answers before anything else is asked. *)
Judged(p) == IF posted[key[p]] = transfer[p] THEN "ref" ELSE "conflict"

judgeRecordedKey(p) ==
    /\ pc[p] = "judge"
    /\ \/ /\ posted[key[p]] # NoTransfer
          /\ Return(p, Judged(p))
       \/ /\ posted[key[p]] = NoTransfer
          /\ Goto(p, "claim")
          /\ UNCHANGED <<claimed, locked>>
          /\ Same

(* Mutant: the funds are looked at before the key is claimed. *)
ClaimKey_AfterFunds(p) ==
    /\ pc[p] = "claim"
    /\ claimed[key[p]] = NoProc
    /\ \/ Funds(transfer[p]) = FALSE /\ Return(p, "funds")
       \/ /\ Funds(transfer[p])
          /\ posted[key[p]] # NoTransfer
          /\ Return(p, Judged(p))
       \/ /\ Funds(transfer[p])
          /\ posted[key[p]] = NoTransfer
          /\ claimed' = [claimed EXCEPT ![key[p]] = p]
          /\ Goto(p, "lock")
          /\ UNCHANGED locked
          /\ Same

(* insert ... on conflict do nothing waits for a running holder of the     *)
(* key; when that one committed, its row is judged instead.                *)
ClaimKey(p) ==
    /\ pc[p] = "claim"
    /\ claimed[key[p]] = NoProc
    /\ \/ /\ posted[key[p]] # NoTransfer
          /\ Return(p, Judged(p))
       \/ /\ posted[key[p]] = NoTransfer
          /\ claimed' = [claimed EXCEPT ![key[p]] = p]
          /\ Goto(p, "lock")
          /\ UNCHANGED locked
          /\ Same

(* Mutant: rows are locked in the order the plan returns them. *)
IsNextLock_AnyOrder(p, a) == a \in Drawn(transfer[p]) /\ locked[a] # p

(* The next row the lock statement takes: ORDER BY id. *)
IsNextLock(p, a) ==
    /\ a \in Drawn(transfer[p]) /\ locked[a] # p
    /\ \A b \in Drawn(transfer[p]) : locked[b] # p => IdOf[a] <= IdOf[b]

lockAccounts(p) ==
    /\ pc[p] = "lock"
    /\ \/ \E a \in MemberAccounts :
            /\ IsNextLock(p, a)
            /\ locked[a] = NoProc
            /\ locked' = [locked EXCEPT ![a] = p]
            /\ UNCHANGED pc
       \/ /\ \A a \in Drawn(transfer[p]) : locked[a] = p
          /\ Goto(p, "funds")
          /\ UNCHANGED locked
    /\ UNCHANGED claimed
    /\ Same

(* The balances are summed by a statement of its own, after the locks. *)
checkFunds(p) ==
    /\ pc[p] = "funds"
    /\ \/ ~Funds(transfer[p]) /\ Return(p, "funds")
       \/ /\ Funds(transfer[p])
          /\ Goto(p, "commit")
          /\ UNCHANGED <<claimed, locked>>
          /\ Same

(* Mutant: the postings are committed and the claimed key is not. *)
Commit_WithoutKey(p) ==
    /\ pc[p] = "commit"
    /\ balance' = [a \in Accounts |-> balance[a] + transfer[p][a]]
    /\ UNCHANGED posted
    /\ Goto(p, "answer")
    /\ ReleaseLocks(p)
    /\ UNCHANGED <<key, transfer, answer, faults>>

Commit(p) ==
    /\ pc[p] = "commit"
    /\ Record(key[p], transfer[p])
    /\ Goto(p, "answer")
    /\ ReleaseLocks(p)
    /\ UNCHANGED <<key, transfer, answer, faults>>

Answer(p) ==
    /\ pc[p] = "answer"
    /\ Return(p, "ref")

(* A lost connection or a cancelled context: rolled back unless the commit *)
(* went through, and the caller does not know which.                       *)
Crash(p) ==
    /\ pc[p] # "idle"
    /\ faults < MaxFaults
    /\ faults' = faults + 1
    /\ Goto(p, "idle")
    /\ answer' = [answer EXCEPT ![p] = "lost"]
    /\ ReleaseLocks(p)
    /\ UNCHANGED <<ledgerVars, key, transfer>>

Step(p) ==
    \/ judgeRecordedKey(p) \/ ClaimKey(p) \/ lockAccounts(p)
    \/ checkFunds(p) \/ Commit(p) \/ Answer(p)

Next == \E p \in Procs :
    \/ \E k \in Keys, t \in Transfers : Call(p, k, t)
    \/ Step(p)
    \/ Crash(p)

Spec == Init /\ [][Next]_vars

------------------------------------------------------------------------------
(* Properties.  LedgerSpec itself is one: however the statements of        *)
(* concurrent posts interleave, each commit is one Post of the port, made  *)
(* when the key was free and the funds were there.                         *)

(* A caller told its transfer is recorded finds it recorded, under its own *)
(* key and with its own postings ("never a raw unique-violation error").   *)
ToldRefIsRecorded ==
    \A p \in Procs : answer[p] = "ref" => posted[key[p]] = transfer[p]

(* Two posts racing one key both learn the winner's reference: a loser is  *)
(* never told about funds when the question it asked was about a key.      *)
FundsAnswerIsAboutFunds ==
    [][\A p \in Procs : answer[p] # "funds" /\ answer'[p] = "funds"
            => posted[key[p]] = NoTransfer]_vars

(* Who a caller waits for: the holder of its key or of its next row. *)
WaitsFor(p, q) ==
    \/ pc[p] = "claim" /\ claimed[key[p]] = q
    \/ pc[p] = "lock" /\ \E a \in MemberAccounts : IsNextLock(p, a) /\ locked[a] = q

(* "Two transfers over the same pair of accounts cannot each hold what the *)
(* other wants" (sqlLockAccounts): some running caller waits for nobody.   *)
NoWaitCycle ==
    (\E p \in Procs : pc[p] # "idle") =>
        \E p \in Procs : pc[p] # "idle" /\ \A q \in Procs : ~WaitsFor(p, q)
==============================================================================
