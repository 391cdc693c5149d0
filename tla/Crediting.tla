------------------------------ MODULE Crediting ------------------------------
(***************************************************************************)
(* internal/cashback/earnings: what the networks report, turned into what  *)
(* members are owed.  The lifecycle job makes three passes (credit,        *)
(* confirm, reverse); each reads a page of what is waiting and then acts   *)
(* on every item in a transaction of its own, while the networks restate,  *)
(* statements arrive, operators review held credits and withdrawals claim  *)
(* confirmed ones.                                                         *)
(*                                                                         *)
(* An item's transfer is posted before its rows are written, and no        *)
(* rollback undoes it.  Sweeps shows where the reports come from and       *)
(* Withdrawals what claiming a credit is made of; here each is a step.     *)
(***************************************************************************)
EXTENDS Integers, FiniteSets, FiniteSetsExt

CONSTANTS
    Purchases,
    MaxReports,     \* bound: reports about a purchase, each superseding the last
    AmountOf,       \* the commission a report states, and the member's share
                    \* of it: one number, as no code here compares the two
    Statements,     \* what a statement pays for each purchase of its period,
                    \* 0 where it has no line
    Payable,        \* reports in the currency their member is paid in
    Clicks,
    MemberOf,       \* who clicked
    Cites,          \* the references a network may state for a purchase
    NoClick,        \* a reference no click of the network answers to
    Runs,           \* runs of the lifecycle job, on any instance
    Exclusive,      \* the scheduler's lock holds: one run at a time
    Operators,
    NoOne, NoReport, NoTransfer,
    MaxFaults       \* bound: transactions lost after their transfer

(* Report n about purchase p. *)
Reports == UNION {{p} \X (1 .. MaxReports[p]) : p \in Purchases}

ASSUME CreditingAssumption ==
    /\ MaxReports \in [Purchases -> Nat]
    /\ AmountOf \in [Reports -> Nat] /\ Payable \subseteq Reports
    /\ \A st \in Statements : st \in [DOMAIN st -> Nat] /\ DOMAIN st \subseteq Purchases
    /\ NoClick \notin Clicks /\ NoReport \notin Reports
    /\ Cites \in [Purchases -> SUBSET (Clicks \cup {NoClick})]
    /\ Runs \cap Operators = {} /\ NoOne \notin Runs \cup Operators
    /\ Exclusive \in BOOLEAN /\ MaxFaults \in Nat
    /\ IsFiniteSet(Purchases) /\ IsFiniteSet(Runs \cup Operators)

VARIABLES
    status, ref,    \* network_transaction: what each report says; declined
                    \* stands for reversed too, no code tells them apart here
    covered, paid,  \* purchases in an imported statement's period; what its
                    \* line pays for them, 0 where it has none
    difference,     \* reconciliation_difference about a report
    queued,         \* unattributed_transaction, open or closed
    credit,         \* the state of the credit that cites a report
    undone,         \* the report its reversing entry cites
    lock,           \* the operator that holds the credit's row
    balance, posted,    \* the ledger
    pc, page, item, \* where a run or an operator is, and with what
    torn,           \* history: a transfer stands whose rows were not written
    faults

statement == <<covered, paid, difference>>
evidence == <<status, ref, statement>>
entries  == <<queued, credit, undone>>
money    == <<balance, posted>>
vars == <<evidence, entries, lock, money, pc, page, item, torn, faults>>

------------------------------------------------------------------------------
(* Reports about one purchase, and the ledger's side of a credit.          *)

(* The states that hold money are the stages it is held in (postings.go). *)
Stages == {"held", "pending", "confirmed", "reserved"}

Members == {MemberOf[k] : k \in Clicks}
House == <<NoOne, "receivable">>
Accounts == (Members \X Stages) \cup {House}

(* postingsFor: out of the receivable, between two stages, or back. *)
Side(m, s) == IF s = "receivable" THEN House ELSE <<m, s>>

Move(m, from, to, n) == [a \in Accounts |->
    IF a = Side(m, to) THEN n ELSE IF a = Side(m, from) THEN -n ELSE 0]

Owner(r) == MemberOf[ref[r]]

Moved(r, from, to) == Move(Owner(r), from, to, AmountOf[r])

Transfers == { Move(m, s[1], s[2], AmountOf[r]) : m \in Members, r \in Reports,
                 s \in (Stages \cup {"receivable"}) \X (Stages \cup {"receivable"}) }

ASSUME TransferAssumption == NoTransfer \notin Transfers

(* The key of an opening names the report and the state; that of a later   *)
(* move the entry, its cause and the state.                                *)
openingKey(r, to) == <<NoReport, r, to>>
idempotencyKey(r, cause, to) == <<r, cause, to>>
Keys == { openingKey(r, s) : r \in Reports, s \in {"held", "pending"} } \cup
        { idempotencyKey(r, c, s) : r \in Reports, c \in Reports,
                                    s \in {"pending", "confirmed", "reversed"} }

L == INSTANCE Ledger WITH MemberAccounts <- Members \X Stages,
                          HouseAccounts <- {House}

Said(p) == {n \in 1 .. MaxReports[p] : status[<<p, n>>] # "none"}

(* The row nothing supersedes. *)
tip(p) == <<p, Cardinality(Said(p))>>

IsCredit(r) == credit[r] # "none"

Items == [credit : Reports, cause : Reports, state : Stages]

TypeOK ==
    /\ status \in [Reports -> {"none", "pending", "confirmed", "declined"}]
    /\ ref \in [Reports -> Clicks \cup {NoClick}]
    /\ covered \subseteq Purchases /\ paid \in [Purchases -> Nat]
    /\ difference \in [Reports -> {"none", "open", "resolved"}]
    /\ queued \subseteq Reports
    /\ credit \in [Reports -> Stages \cup {"none"}]
    /\ undone \in [Reports -> Reports \cup {NoReport}]
    /\ lock \in [Reports -> Operators \cup {NoOne}]
    /\ L!LedgerTypeOK
    /\ pc \in [Runs \cup Operators -> {"idle", "credit", "confirm", "reverse",
                 "opening", "confirming", "reversing", "releasing", "rejecting"}]
    /\ page \in [Runs -> SUBSET Items]
    /\ item \in [Runs \cup Operators -> Items \cup {NoReport}]
    /\ torn \in BOOLEAN /\ faults \in 0 .. MaxFaults

Init ==
    /\ status = [r \in Reports |-> "none"]
    /\ ref = [r \in Reports |-> NoClick]
    /\ covered = {} /\ paid = [p \in Purchases |-> 0] /\ queued = {}
    /\ difference = [r \in Reports |-> "none"]
    /\ credit = [r \in Reports |-> "none"]
    /\ undone = [r \in Reports |-> NoReport]
    /\ lock = [r \in Reports |-> NoOne]
    /\ L!LedgerInit
    /\ pc = [x \in Runs \cup Operators |-> "idle"]
    /\ page = [w \in Runs |-> {}]
    /\ item = [x \in Runs \cup Operators |-> NoReport]
    /\ torn = FALSE /\ faults = 0

------------------------------------------------------------------------------
(* What arrives from outside.                                              *)

(* A sweep stores what the network says now, superseding the last report. *)
Report(p, s, k) ==
    LET r == <<p, Cardinality(Said(p)) + 1>> IN
    /\ r \in Reports
    /\ status' = [status EXCEPT ![r] = s]
    /\ ref' = [ref EXCEPT ![r] = k]
    /\ UNCHANGED <<statement, entries, lock, money, pc, page, item, torn, faults>>

(* An operator imports a statement of a period no other covers.  In a      *)
(* second transaction, and again whenever the import is repeated, it is    *)
(* compared with the reports as they stand.                                *)
ImportStatement(st) ==
    /\ DOMAIN st \cap covered = {}
    /\ covered' = covered \cup DOMAIN st
    /\ paid' = [p \in Purchases |-> IF p \in DOMAIN st THEN st[p] ELSE paid[p]]
    /\ UNCHANGED <<status, ref, difference, entries, lock, money, pc, page, item, torn, faults>>

owed(r) == IF status[r] = "declined" THEN 0 ELSE AmountOf[r]

(* AmountMismatch, or ReportedNotPaid of a report that is confirmed. *)
Derive(st) == { tip(p) : p \in {q \in DOMAIN st : Said(q) # {} /\
    \/ paid[q] # 0 /\ paid[q] # owed(tip(q))
    \/ paid[q] = 0 /\ status[tip(q)] = "confirmed"} }

(* One difference for a report, once, whether it was resolved or not. *)
DetectDifferences(st) ==
    LET new == {r \in Derive(st) : difference[r] = "none"} IN
    /\ DOMAIN st \subseteq covered
    /\ new # {}
    /\ difference' = [r \in Reports |-> IF r \in new THEN "open" ELSE difference[r]]
    /\ UNCHANGED <<status, ref, covered, paid, entries, lock, money, pc, page, item, torn, faults>>

ResolveDifference(r) ==
    /\ difference[r] = "open"
    /\ difference' = [difference EXCEPT ![r] = "resolved"]
    /\ UNCHANGED <<status, ref, covered, paid, entries, lock, money, pc, page, item, torn, faults>>

(* A withdrawal claims a confirmed credit, which must not be reversed      *)
(* (ConfirmedEntriesFor), and gives it back if it fails.                   *)
Claim(r) ==
    /\ credit[r] = "confirmed" /\ undone[r] = NoReport
    /\ lock[r] = NoOne
    /\ L!Funds(Moved(r, "confirmed", "reserved"))
    /\ balance' = [a \in Accounts |-> balance[a] + Moved(r, "confirmed", "reserved")[a]]
    /\ credit' = [credit EXCEPT ![r] = "reserved"]
    /\ UNCHANGED <<evidence, queued, undone, lock, posted, pc, page, item, torn, faults>>

GiveBack(r) ==
    /\ credit[r] = "reserved"
    /\ lock[r] = NoOne
    /\ L!Funds(Moved(r, "reserved", "confirmed"))
    /\ balance' = [a \in Accounts |-> balance[a] + Moved(r, "reserved", "confirmed")[a]]
    /\ credit' = [credit EXCEPT ![r] = "confirmed"]
    /\ UNCHANGED <<evidence, queued, undone, lock, posted, pc, page, item, torn, faults>>

------------------------------------------------------------------------------
(* Steps every transaction shares.                                         *)

Goto(x, l, i) ==
    /\ pc' = [pc EXCEPT ![x] = l]
    /\ item' = [item EXCEPT ![x] = i]

(* Entries.post: recorded now, or earlier with the same postings. *)
Accepted(k, t) == IF posted[k] = NoTransfer THEN L!Funds(t) ELSE posted[k] = t

Post(k, t) ==
    /\ Accepted(k, t)
    /\ IF posted[k] = NoTransfer THEN L!Record(k, t) ELSE UNCHANGED money

(* A run is done with an item, written or not, and turns to the next. *)
NextItem(w, i, pass) ==
    /\ page' = [page EXCEPT ![w] = @ \ {i}]
    /\ Goto(w, pass, NoReport)

------------------------------------------------------------------------------
(* Crediting (lifecycle.go, open.go, attribution.go).                      *)

(* A share of nothing is not a credit. *)
Earns(r) == status[r] \in {"pending", "confirmed"} /\ AmountOf[r] > 0

(* Tips that earn something, of purchases no entry cites, not queued. *)
ReportsAwaitingCredit == { tip(p) : p \in
    {q \in Purchases : /\ Said(q) # {} /\ Earns(tip(q)) /\ tip(q) \notin queued
                       /\ \A n \in Said(q) : ~IsCredit(<<q, n>>)} }

Begin(w) ==
    /\ pc[w] = "idle"
    /\ Exclusive => \A v \in Runs : pc[v] = "idle"
    /\ pc' = [pc EXCEPT ![w] = "credit"]
    /\ page' = [page EXCEPT ![w] =
         {[credit |-> r, cause |-> r, state |-> "pending"] : r \in ReportsAwaitingCredit}]
    /\ UNCHANGED <<evidence, entries, lock, money, item, torn, faults>>

(* Mutant: the index on clicks is there, but not unique. *)
ClickCredited_Never(k) == FALSE

(* entry_click_id_idx: one click backs one credit. *)
ClickCredited(k) == \E r \in Reports : IsCredit(r) /\ ref[r] = k

(* An insert that another transaction's uncommitted one makes wait. *)
InsertWaits(w, r) == \E v \in Runs \ {w} :
    pc[v] = "opening" /\ ref[item[v].credit] = ref[r]

(* Nobody to credit it to: an operator's to look at. *)
QueueReport(w, i) ==
    LET r == i.credit IN
    /\ pc[w] = "credit" /\ i \in page[w]
    /\ \/ ref[r] = NoClick
       \/ /\ ~InsertWaits(w, r)
          /\ ~IsCredit(r) /\ (ClickCredited(ref[r]) \/ r \notin Payable)
    /\ queued' = queued \cup {r}
    /\ NextItem(w, i, "credit")
    /\ UNCHANGED <<evidence, credit, undone, lock, money, torn, faults>>

(* entry_one_per_report: another run was faster. *)
AlreadyCredited(w, i) ==
    /\ pc[w] = "credit" /\ i \in page[w]
    /\ ref[i.credit] # NoClick
    /\ ~InsertWaits(w, i.credit) /\ IsCredit(i.credit)
    /\ NextItem(w, i, "credit")
    /\ UNCHANGED <<evidence, entries, lock, money, torn, faults>>

(* Holds.Evaluate: no rule matches, or one holds the credit for review. *)
Evaluate == {"pending", "held"}

(* The entry is inserted, held if a rule says so, and its credit posted. *)
Open(w, i, verdict) ==
    LET r == i.credit IN
    /\ pc[w] = "credit" /\ i \in page[w]
    /\ ref[r] # NoClick /\ r \in Payable
    /\ ~InsertWaits(w, r) /\ ~ClickCredited(ref[r])
    /\ Post(openingKey(r, verdict), Moved(r, "receivable", verdict))
    /\ Goto(w, "opening", [i EXCEPT !.state = verdict])
    /\ UNCHANGED <<evidence, entries, lock, page, torn, faults>>

CommitOpen(w) ==
    /\ pc[w] = "opening"
    /\ credit' = [credit EXCEPT ![item[w].credit] = item[w].state]
    /\ page' = [page EXCEPT ![w] = {i \in @ : i.credit # item[w].credit}]
    /\ Goto(w, "credit", NoReport)
    /\ UNCHANGED <<evidence, queued, undone, lock, money, torn, faults>>

------------------------------------------------------------------------------
(* Confirming (lifecycle.go, confirm.go, statemachine.go).                 *)

AwaitingConfirmation == {r \in Reports : credit[r] = "pending" /\ status[tip(r[1])] = "confirmed"}

ItemsOf(S) == {[credit |-> r, cause |-> tip(r[1]), state |-> credit[r]] : r \in S}

BeginConfirm(w) ==
    /\ pc[w] = "credit" /\ page[w] = {}
    /\ pc' = [pc EXCEPT ![w] = "confirm"]
    /\ page' = [page EXCEPT ![w] = ItemsOf(AwaitingConfirmation)]
    /\ UNCHANGED <<evidence, entries, lock, money, item, torn, faults>>

(* Mutant: nothing disputed counts as received. *)
ReportIsReconciled_Undisputed(p) == \A n \in Said(p) : difference[<<p, n>>] # "open"

(* A difference about any report of the purchase stands in the way. *)
ReportIsReconciled(p) ==
    /\ p \in covered
    /\ \A n \in Said(p) : difference[<<p, n>>] # "open"

Confirm(w, i) ==
    /\ pc[w] = "confirm" /\ i \in page[w]
    /\ ReportIsReconciled(i.credit[1])
    /\ Post(idempotencyKey(i.credit, i.cause, "confirmed"), Moved(i.credit, i.state, "confirmed"))
    /\ Goto(w, "confirming", i)
    /\ UNCHANGED <<evidence, entries, lock, page, torn, faults>>

(* ErrNotReconciled, or the ledger refuses: left for the next run. *)
SkipConfirm(w, i) ==
    /\ pc[w] = "confirm" /\ i \in page[w]
    /\ ReportIsReconciled(i.credit[1]) =>
         ~Accepted(idempotencyKey(i.credit, i.cause, "confirmed"), Moved(i.credit, i.state, "confirmed"))
    /\ NextItem(w, i, "confirm")
    /\ UNCHANGED <<evidence, entries, lock, money, torn, faults>>

(* MoveEntry, conditional on the state the page was read with. *)
CommitConfirm(w) ==
    LET i == item[w] IN
    /\ pc[w] = "confirming"
    /\ lock[i.credit] = NoOne
    /\ IF credit[i.credit] = i.state
       THEN credit' = [credit EXCEPT ![i.credit] = "confirmed"] /\ UNCHANGED torn
       ELSE torn' = TRUE /\ UNCHANGED credit
    /\ NextItem(w, i, "confirm")
    /\ UNCHANGED <<evidence, queued, undone, lock, money, faults>>

------------------------------------------------------------------------------
(* Reversing (lifecycle.go, reversal.go).                                  *)

TakenBack(r) ==
    status[tip(r[1])] = "declined" /\ tip(r[1]) # r

(* Mutant: a confirmed credit is thought final. *)
AwaitingReversal_Unconfirmed == {r \in Reports :
    /\ credit[r] \in {"held", "pending"}
    /\ TakenBack(r) /\ undone[r] = NoReport}

AwaitingReversal == {r \in Reports :
    /\ credit[r] \in {"held", "pending", "confirmed"}
    /\ TakenBack(r) /\ undone[r] = NoReport}

BeginReverse(w) ==
    /\ pc[w] = "confirm" /\ page[w] = {}
    /\ pc' = [pc EXCEPT ![w] = "reverse"]
    /\ page' = [page EXCEPT ![w] = ItemsOf(AwaitingReversal)]
    /\ UNCHANGED <<evidence, entries, lock, money, item, torn, faults>>

(* Mutant: a reversal is always taken from the pending stage. *)
ReversalTransfer_Pending(i) == Moved(i.credit, "pending", "receivable")

(* Out of the stage the page saw the credit in. *)
ReversalTransfer(i) == Moved(i.credit, i.state, "receivable")

Reverse(w, i) ==
    /\ pc[w] = "reverse" /\ i \in page[w]
    /\ Post(idempotencyKey(i.credit, i.cause, "reversed"), ReversalTransfer(i))
    /\ Goto(w, "reversing", i)
    /\ UNCHANGED <<evidence, entries, lock, page, torn, faults>>

SkipReverse(w, i) ==
    /\ pc[w] = "reverse" /\ i \in page[w]
    /\ ~Accepted(idempotencyKey(i.credit, i.cause, "reversed"), ReversalTransfer(i))
    /\ NextItem(w, i, "reverse")
    /\ UNCHANGED <<evidence, entries, lock, money, torn, faults>>

(* The reversing entry: at most one per credit, and citing the click its   *)
(* own report names (entry_evidence_guard).  The credit's row is left as   *)
(* it is, whatever state it is in by now.                                  *)
CommitReverse(w) ==
    LET i == item[w] IN
    /\ pc[w] = "reversing"
    /\ lock[i.credit] = NoOne
    /\ IF undone[i.credit] = NoReport /\ ref[i.cause] = ref[i.credit]
       THEN undone' = [undone EXCEPT ![i.credit] = i.cause]
       ELSE UNCHANGED undone
    /\ torn' = (torn \/ undone' = undone \/ credit[i.credit] # i.state)
    /\ NextItem(w, i, "reverse")
    /\ UNCHANGED <<evidence, queued, credit, lock, money, faults>>

EndRun(w) ==
    /\ pc[w] = "reverse" /\ page[w] = {}
    /\ pc' = [pc EXCEPT ![w] = "idle"]
    /\ UNCHANGED <<evidence, entries, lock, money, page, item, torn, faults>>

------------------------------------------------------------------------------
(* Reviewing held credits (review.go).                                     *)

heldForDecision(r) == lock[r] = NoOne /\ credit[r] = "held" /\ undone[r] = NoReport

Held(r) == [credit |-> r, cause |-> r, state |-> "held"]

(* SELECT ... FOR UPDATE, until the transaction ends. *)
LockEntry(o, r) == lock' = [lock EXCEPT ![r] = o]

Decide(o, r, to, key, l) ==
    /\ pc[o] = "idle"
    /\ heldForDecision(r)
    /\ Post(idempotencyKey(r, r, key), Moved(r, "held", to))
    /\ LockEntry(o, r)
    /\ Goto(o, l, Held(r))
    /\ UNCHANGED <<evidence, entries, page, torn, faults>>

Release(o, r) == Decide(o, r, "pending", "pending", "releasing")

Reject(o, r) == Decide(o, r, "receivable", "reversed", "rejecting")

Unlock(o) == lock' = [r \in Reports |-> IF lock[r] = o THEN NoOne ELSE lock[r]]

CommitRelease(o) ==
    /\ pc[o] = "releasing"
    /\ credit' = [credit EXCEPT ![item[o].credit] = "pending"]
    /\ Unlock(o)
    /\ Goto(o, "idle", NoReport)
    /\ UNCHANGED <<evidence, queued, undone, money, page, torn, faults>>

CommitReject(o) ==
    /\ pc[o] = "rejecting"
    /\ undone' = [undone EXCEPT ![item[o].credit] = item[o].credit]
    /\ Unlock(o)
    /\ Goto(o, "idle", NoReport)
    /\ UNCHANGED <<evidence, queued, credit, money, page, torn, faults>>

------------------------------------------------------------------------------
(* A transaction is lost: with the run or the request it belongs to, or    *)
(* alone, in which case the run goes on.                                   *)
Posting == {"opening", "confirming", "reversing", "releasing", "rejecting"}

PassOf == [opening |-> "credit", confirming |-> "confirm", reversing |-> "reverse"]

Crash(x) ==
    /\ pc[x] # "idle"
    /\ faults < MaxFaults
    /\ faults' = faults + 1
    /\ torn' = (torn \/ pc[x] \in Posting)
    /\ Unlock(x)
    /\ Goto(x, "idle", NoReport)
    /\ page' = [w \in Runs |-> IF w = x THEN {} ELSE page[w]]
    /\ UNCHANGED <<evidence, entries, money>>

ItemFails(w) ==
    /\ pc[w] \in DOMAIN PassOf
    /\ faults < MaxFaults
    /\ faults' = faults + 1
    /\ torn' = TRUE
    /\ page' = [page EXCEPT ![w] = {i \in @ : i.credit # item[w].credit}]
    /\ Goto(w, PassOf[pc[w]], NoReport)
    /\ UNCHANGED <<evidence, entries, lock, money>>

Step(w) ==
    \/ \E i \in page[w] :
         \/ QueueReport(w, i) \/ AlreadyCredited(w, i)
         \/ \E v \in Evaluate : Open(w, i, v)
         \/ Confirm(w, i) \/ SkipConfirm(w, i)
         \/ Reverse(w, i) \/ SkipReverse(w, i)
    \/ CommitOpen(w) \/ CommitConfirm(w) \/ CommitReverse(w)
    \/ BeginConfirm(w) \/ BeginReverse(w) \/ EndRun(w)

Next ==
    \/ \E p \in Purchases, s \in {"pending", "confirmed", "declined"} :
         \E k \in Cites[p] : Report(p, s, k)
    \/ \E st \in Statements : ImportStatement(st) \/ DetectDifferences(st)
    \/ \E w \in Runs : Begin(w) \/ Step(w) \/ ItemFails(w) \/ Crash(w)
    \/ \E o \in Operators :
         \/ \E r \in Reports : Release(o, r) \/ Reject(o, r)
         \/ CommitRelease(o) \/ CommitReject(o) \/ Crash(o)
    \/ \E r \in Reports : Claim(r) \/ GiveBack(r) \/ ResolveDifference(r)

Spec == Init /\ [][Next]_vars

(* The job runs again and again, its passes go on, an operator's request   *)
(* ends and a row comes to whoever waits for it.                           *)
FairSpec ==
    /\ Spec
    /\ \A w \in Runs : WF_vars(Begin(w)) /\ SF_vars(Step(w))
    /\ \A o \in Operators : WF_vars(CommitRelease(o) \/ CommitReject(o))

------------------------------------------------------------------------------
(* Properties.                                                             *)

Stands(r) == IsCredit(r) /\ undone[r] = NoReport

(* No purchase is credited twice, whatever the network restates.  No       *)
(* constraint says so: the lock keeps two runs from reading the same page, *)
(* and where it was lost, one click still backs one credit.                *)
OneCreditPerPurchase ==
    \A p \in Purchases : \A m, n \in Said(p) :
        /\ IsCredit(<<p, m>>) /\ IsCredit(<<p, n>>)
        /\ Exclusive \/ ref[<<p, m>>] = ref[<<p, n>>]
        => m = n

(* FR-043: money a member can withdraw rests on the network's approval of  *)
(* the purchase and on a statement that covers it.                         *)
ConfirmedIsEarned ==
    \A r \in Reports : credit[r] \in {"confirmed", "reserved"} =>
        /\ r[1] \in covered
        /\ \E n \in Said(r[1]) : status[<<r[1], n>>] = "confirmed"

InStage(m, s) == {r \in Reports : Stands(r) /\ credit[r] = s /\ Owner(r) = m}

Quiet == \A x \in Runs \cup Operators : pc[x] \notin Posting

(* D7: no state is recorded without its posting.  A credit's opening, its  *)
(* confirmation and its reversal each stand in the ledger, in full, even   *)
(* where transactions were lost or pages were stale.                       *)
Backed ==
    \A r \in Reports : IsCredit(r) =>
        /\ \E s \in {"held", "pending"} : posted[openingKey(r, s)] = Moved(r, "receivable", s)
        /\ credit[r] \in {"confirmed", "reserved"} =>
             \E c \in Reports : posted[idempotencyKey(r, c, "confirmed")] = Moved(r, "pending", "confirmed")
        /\ undone[r] # NoReport => \E s \in Stages :
             posted[idempotencyKey(r, undone[r], "reversed")] = Moved(r, s, "receivable")

(* C-1: what a member's stage holds in the ledger is what their credits in *)
(* that state add up to, unless some transaction was lost or refused after *)
(* its transfer; and even then no state stands without its posting.  One   *)
(* run at a time: overlapping ones may reverse and confirm one credit.     *)
BooksAgree ==
    /\ Backed
    /\ Quiet /\ ~torn => \A m \in Members, s \in Stages :
          balance[<<m, s>>] = MapThenSumSet(LAMBDA r : AmountOf[r], InStage(m, s))

(* What the documents say of FR-043: nothing confirms until a statement    *)
(* has accounted for it, by paying for it or by a difference an operator   *)
(* has decided.                                                            *)
ConfirmedIsAccountedFor ==
    \A r \in Reports : credit[r] = "confirmed" =>
        \/ paid[r[1]] > 0
        \/ \E n \in Said(r[1]) : difference[<<r[1], n>>] = "resolved"

(* A credit the network took back is undone in the end, unless a           *)
(* withdrawal has claimed it first: a stale page, of this run or another,  *)
(* costs a refused item and no more.  The report that takes it back must   *)
(* still name its click, or no reversing entry may cite it.                *)
TakenBackIsUndone ==
    \A r \in Reports :
        (Stands(r) /\ TakenBack(r) /\ ref[tip(r[1])] = ref[r]) ~> (undone[r] # NoReport \/ credit[r] = "reserved")
==============================================================================
