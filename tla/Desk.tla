--------------------------------- MODULE Desk ---------------------------------
(***************************************************************************)
(* The operations desk (internal/cashback/ops): network statements and the *)
(* differences they raise against the reports on record, the queue of      *)
(* unattributed reports, the verification of payout destinations, the      *)
(* operators' pages and the accounting export, over the members' records.  *)
(*                                                                         *)
(* A statement is imported in one transaction and its differences are      *)
(* derived in another, which reads the current reports once and then       *)
(* records what is not there yet.  A decision is an update of a row nobody *)
(* has decided, in a transaction that holds the row until it ends; one     *)
(* that finds the row decided answers with the decision on record.         *)
(***************************************************************************)
EXTENDS Members, Bags, BagsExt, FiniteSetsExt

CONSTANTS
    Operators,
    Statements,     \* the documents, each with its lines and its period
    Words,          \* what the network may report of a transaction
    Verdicts,       \* what an operator may decide
    PageLimit,
    MaxExportRows

VARIABLES
    report,         \* cashback.network_transaction, in the order of its ids
    credited,       \* the reports an entry cites
    queue,          \* cashback.unattributed_transaction
    run,            \* run[k]: who imported statement k, or NoOne
    fresh,          \* run[k] was compared with the reports as they stand
    difference,     \* cashback.reconciliation_difference
    told,           \* the events
    operator,       \* each operator's request and its answer
    export,         \* the journal exported so far, window by window
    walk            \* a page walk through one of the lists

deskVars == <<report, credited, queue, run, fresh, difference, told, operator, export, walk>>
vars == <<memberVars, deskVars>>

NoWalk == [what |-> "none", of |-> NoOne, state |-> NoOne, after |-> NoOne, seen |-> <<>>, due |-> {}, over |-> FALSE]

DeskInit ==
    /\ report = <<>>
    /\ credited = {}
    /\ queue = <<>>
    /\ run = [k \in 1..Len(Statements) |-> NoOne]
    /\ fresh = [k \in 1..Len(Statements) |-> FALSE]
    /\ difference = <<>>
    /\ told = SetToBag({<<"destination.verified", n>> : n \in {m \in 1..Len(destination) : destination[m].verifiedBy # NoOne}})
    /\ operator = [o \in Operators |-> Away]
    /\ export = [upto |-> 0, rows |-> {}]
    /\ walk = NoWalk

---------------------------------------------------------------------------------
(* The report nothing supersedes. *)
Tip(n) == \A m \in (n + 1)..Len(report) : report[m].tx # report[n].tx
Tips == {n \in 1..Len(report) : Tip(n)}

Queued(n) == [report |-> n, decision |-> NoOne, at |-> clock]
RecordUnattributed(n) == queue' = Append(queue, Queued(n))

(* The poller stores a report that supersedes the last of its transaction,   *)
(* and queues it if it names no click.                                       *)
PollReport ==
    /\ Spend("reports")
    /\ \E w \in Words :
          /\ ~ \E n \in Tips : report[n] = w
          /\ report' = Append(report, w)
          /\ IF w.ref THEN UNCHANGED queue ELSE RecordUnattributed(Len(report) + 1)
    /\ fresh' = [k \in DOMAIN fresh |-> FALSE]
    /\ UNCHANGED <<credited, run, difference, told, operator, export>>

(* Earnings open an entry on a current report that names a click. *)
CreditReport ==
    /\ Spend("credits")
    /\ \E n \in Tips \ credited : report[n].ref /\ credited' = credited \cup {n}
    /\ UNCHANGED <<report, queue, run, fresh, difference, told, operator, export>>

---------------------------------------------------------------------------------
Begun(o) == operator[o].st = "begun"
Stop(o) == operator' = [operator EXCEPT ![o] = Away]

requireOperator(o) ==
    /\ Spend("sessions")
    /\ operator[o].st \in {"away", "answered"}
    /\ operator' = [operator EXCEPT ![o] = [st |-> "begun"]]
    /\ UNCHANGED <<report, credited, queue, run, fresh, difference, told, export>>

Lines(k) == Statements[k].lines
Pays(k) == {Lines(k)[i].tx : i \in 1..Len(Lines(k))}

(* A statement pays a transaction once, over a period that is one. *)
Validate(k) ==
    /\ Cardinality(Pays(k)) = Len(Lines(k))
    /\ Statements[k].from < Statements[k].to

(* The event of a run, which is written once. *)
importedEvent(k) == <<"statement.imported", k>>

(* The document is imported once; its differences are derived after each import. *)
ImportStatement(o, k) ==
    IF run[k] # NoOne THEN UNCHANGED <<run, told>>
    ELSE /\ run' = [run EXCEPT ![k] = o]
         /\ told' = BagAdd(told, importedEvent(k))

importStatement(o) ==
    /\ Begun(o)
    /\ \E k \in 1..Len(Statements) :
          IF ~ Validate(k) THEN Stop(o) /\ UNCHANGED <<run, told>>
          ELSE /\ operator' = [operator EXCEPT ![o] = [st |-> "detect", run |-> k]]
               /\ ImportStatement(o, k)
    /\ UNCHANGED <<report, credited, queue, fresh, difference, export, budget>>

contains(k, at) == Statements[k].from <= at /\ at < Statements[k].to

CurrentReportsForStatement(k) ==
    {n \in Tips : report[n].tx \in Pays(k) \/ (report[n].status = "confirmed" /\ contains(k, report[n].at))}

owed(w) == IF w.status \in {"declined", "reversed"} THEN 0 ELSE w.commission

Paid(k, n) == {i \in 1..Len(Lines(k)) : Lines(k)[i].tx = report[n].tx /\ Lines(k)[i].cur = report[n].cur}

(* One disagreement: about a report, or about a line no report matches. *)
Difference(k, n, i, cur, expected, actual) ==
    [run |-> k, report |-> n, line |-> i, cur |-> cur, expected |-> expected, actual |-> actual]

(* What the statement and the reports disagree on: a payment of a report     *)
(* nobody has in its currency, a report paid differently, and a confirmed    *)
(* report of the period that is not paid.                                    *)
Derive(k, reports) ==
    LET found(i) == {n \in reports : i \in Paid(k, n)}
    IN  {Difference(k, 0, i, Lines(k)[i].cur, 0, Lines(k)[i].paid) :
            i \in {j \in 1..Len(Lines(k)) : found(j) = {}}}
        \cup {Difference(k, n, 0, report[n].cur, owed(report[n]), Lines(k)[i].paid) :
            <<i, n>> \in {<<j, m>> \in (1..Len(Lines(k))) \X reports : m \in found(j) /\ owed(report[m]) # Lines(k)[j].paid}}
        \cup {Difference(k, n, 0, report[n].cur, report[n].commission, 0) :
            n \in {m \in reports : Paid(k, m) = {} /\ report[m].status = "confirmed" /\ contains(k, report[m].at)}}

(* DetectDifferences reads the run and the reports; the rows it will record  *)
(* are dated by when it began.                                               *)
DetectDifferences(o) ==
    /\ operator[o].st = "detect"
    /\ operator' = [operator EXCEPT ![o] = [st |-> "record", run |-> @.run, now |-> clock, seen |-> Len(report),
                                            found |-> Derive(@.run, CurrentReportsForStatement(@.run))]]
    /\ UNCHANGED <<report, credited, queue, run, fresh, difference, told, export, budget>>

(* Mutant: a difference is known by its transaction. *)
OnRecord_ByTransaction(d) ==
    LET tx(x) == IF x.report = 0 THEN Lines(x.run)[x.line].tx ELSE report[x.report].tx
    IN  \E n \in 1..Len(difference) : difference[n].run = d.run /\ tx(difference[n].says) = tx(d)

(* One difference for a run's report, and one for its line. *)
OnRecord(d) ==
    \E n \in 1..Len(difference) : LET x == difference[n].says
                                  IN  <<x.run, x.report, x.line>> = <<d.run, d.report, d.line>>

(* The event of a recorded row. *)
foundEvent(n) == <<"difference.found", n>>

RecordDifference(o) ==
    /\ operator[o].st = "record"
    /\ LET new == SetToSeq({d \in operator[o].found : ~ OnRecord(d)})
       IN  /\ difference' = difference \o [i \in 1..Len(new) |-> [run |-> operator[o].run, says |-> new[i], decision |-> NoOne,
                                                                  at |-> operator[o].now]]
           /\ told' = told (+) SetToBag({foundEvent(n) : n \in (Len(difference) + 1)..(Len(difference) + Len(new))})
    /\ fresh' = [fresh EXCEPT ![operator[o].run] = @ \/ operator[o].seen = Len(report)]
    /\ Stop(o)
    /\ UNCHANGED <<report, credited, queue, run, export, budget>>

---------------------------------------------------------------------------------
(* What operators decide: a difference, an unattributed report, a destination. *)
Targets ==
    {<<"difference", n>> : n \in 1..Len(difference)}
    \cup {<<"unattributed", n>> : n \in 1..Len(queue)}
    \cup {<<"destination", n>> : n \in 1..Len(destination)}

Decision(t) ==
    CASE t[1] = "difference"   -> difference[t[2]].decision
      [] t[1] = "unattributed" -> queue[t[2]].decision
      [] t[1] = "destination"  -> destination[t[2]].verifiedBy

OpenWork(n) == queue[n].decision = NoOne /\ Tip(queue[n].report) /\ queue[n].report \notin credited

Answer(o, t, says) == operator' = [operator EXCEPT ![o] = [st |-> "answered", on |-> t, says |-> says]]

(* Why a queue row is closed to a dismissal. *)
explain(n) ==
    CASE queue[n].decision # NoOne          -> queue[n].decision
      [] queue[n].report \in credited       -> [by |-> NoOne, what |-> "credited"]
      [] OTHER                              -> [by |-> NoOne, what |-> "superseded"]

Updates(o, t, v) == operator' = [operator EXCEPT ![o] = [st |-> "update", on |-> t, what |-> v]]

(* A dismissal and a verification begin with a read of the row. *)
Dismiss(o, n, v) ==
    IF OpenWork(n) THEN Updates(o, <<"unattributed", n>>, v) ELSE Answer(o, <<"unattributed", n>>, explain(n))

Verify(o, n, v) ==
    IF destination[n].verifiedBy # NoOne THEN Answer(o, <<"destination", n>>, destination[n].verifiedBy)
                                         ELSE Updates(o, <<"destination", n>>, v)

resolveDifference(o) ==
    /\ Begun(o)
    /\ \E n \in 1..Len(difference), v \in Verdicts : Updates(o, <<"difference", n>>, v)
    /\ UNCHANGED <<report, credited, queue, run, fresh, difference, told, export, budget>>

dismissUnattributed(o) ==
    /\ Begun(o)
    /\ \E n \in 1..Len(queue), v \in Verdicts : Dismiss(o, n, v)
    /\ UNCHANGED <<report, credited, queue, run, fresh, difference, told, export, budget>>

verifyDestination(o) ==
    /\ Begun(o)
    /\ \E n \in 1..Len(destination), v \in Verdicts : Verify(o, n, v)
    /\ UNCHANGED <<report, credited, queue, run, fresh, difference, told, export, budget>>

Held(t) == \E o \in Operators : operator[o].st = "decided" /\ operator[o].on = t

(* Mutant: the row is updated as it was read. *)
StillOpen_AsRead(t) == TRUE

StillOpen(t) == Decision(t) = NoOne

(* What an operator who came second is told. *)
decidedAlready(t) == Decision(t)

(* The update waits for a transaction that has the row, and then matches the *)
(* row if nobody has decided it.                                             *)
UpdateRow(o) ==
    /\ operator[o].st = "update"
    /\ LET t == operator[o].on
       IN  /\ ~ Held(t)
           /\ IF StillOpen(t) THEN operator' = [operator EXCEPT ![o].st = "decided"]
                              ELSE Answer(o, t, decidedAlready(t))
    /\ UNCHANGED <<report, credited, queue, run, fresh, difference, told, export, budget>>

Announces == [difference |-> "difference.resolved", unattributed |-> "unattributed.dismissed", destination |-> "destination.verified"]

ResolvesDifference(t, made) ==
    /\ t[1] = "difference"
    /\ difference' = [difference EXCEPT ![t[2]].decision = made]
    /\ UNCHANGED <<queue, destination>>

ResolvesUnattributedReport(t, made) ==
    /\ t[1] = "unattributed"
    /\ queue' = [queue EXCEPT ![t[2]].decision = made]
    /\ UNCHANGED <<difference, destination>>

VerifiesDestination(t, made) ==
    /\ t[1] = "destination"
    /\ destination' = [destination EXCEPT ![t[2]].verifiedBy = made]
    /\ UNCHANGED <<difference, queue>>

(* The event of a decision: one for each row. *)
resolvedEvent(t) == <<Announces[t[1]], t[2]>>

(* The decision commits with its event. *)
CommitDecision(o) ==
    /\ operator[o].st = "decided"
    /\ LET t == operator[o].on
           made == [by |-> o, what |-> operator[o].what]
       IN  /\ \/ ResolvesDifference(t, made)
              \/ ResolvesUnattributedReport(t, made)
              \/ VerifiesDestination(t, made)
           /\ told' = BagAdd(told, resolvedEvent(t))
           /\ Answer(o, t, made)
    /\ UNCHANGED <<report, credited, run, fresh, export, budget>>

(* The request dies, and its transaction with it. *)
OperatorGone(o) ==
    /\ Spend("faults")
    /\ operator[o].st \notin {"away", "answered"}
    /\ Stop(o)
    /\ UNCHANGED <<report, credited, queue, run, fresh, difference, told, export>>

ExportDifferences(from, to) == {n \in 1..Len(difference) : from <= difference[n].at /\ difference[n].at < to}

(* A window with too many rows is refused, not cut. *)
ExportReconciliation(from, to) ==
    LET rows == ExportDifferences(from, to)
    IN  export' = IF Cardinality(rows) > MaxExportRows THEN export
                  ELSE [upto |-> to, rows |-> export.rows \cup rows]

(* Half-open, and never empty: each starts where the last one ended. *)
ExportWindows == {<<export.upto, to>> : to \in (export.upto + 1)..clock}

(* The next window of the journal, up to now at most. *)
exportReconciliation ==
    /\ Spend("exports")
    /\ \E w \in ExportWindows : ExportReconciliation(w[1], w[2])
    /\ UNCHANGED <<report, credited, queue, run, fresh, difference, told, operator>>

---------------------------------------------------------------------------------
(* Mutant: the cursor is the time alone. *)
Follows_Time(k, l) == k[1] > l[1]

(* Keyset order on (time, id). *)
Follows(k, l) == k[1] > l[1] \/ (k[1] = l[1] /\ k[2] > l[2])

ListDifferencesForRun(k) == {n \in 1..Len(difference) : difference[n].run = k}
ListOpenUnattributedReports == {n \in 1..Len(queue) : OpenWork(n)}
ListWithdrawalsAwaitingApproval == {r \in 1..Len(request) : request[r].state = "awaiting_approval"}
ListUnverifiedDestinations == {n \in 1..Len(destination) : destination[n].verifiedBy = NoOne}
MemberEntries(a, s) == {n \in 1..Len(entry[a]) : s = NoOne \/ entry[a][n] = s}

Rows(w) ==
    CASE w.what = "none"         -> {}
      [] w.what = "differences"  -> ListDifferencesForRun(w.of)
      [] w.what = "unattributed" -> ListOpenUnattributedReports
      [] w.what = "awaiting"     -> ListWithdrawalsAwaitingApproval
      [] w.what = "unverified"   -> ListUnverifiedDestinations
      [] w.what = "history"      -> MemberEntries(w.of, w.state)

(* A member's history is read from its newest entry back. *)
Key(w, x) ==
    CASE w.what = "differences"  -> <<difference[x].at, x>>
      [] w.what = "unattributed" -> <<queue[x].at, x>>
      [] w.what = "awaiting"     -> <<request[x].at, x>>
      [] w.what = "unverified"   -> <<destination[x].at, x>>
      [] w.what = "history"      -> <<- x, 0>>

(* The cursor keeps the whole key of the last row shown; a walk without one *)
(* starts at the first row.                                                 *)
PastCursor(w, x) == w.after = NoOne \/ Follows(Key(w, x), w.after)

StartWalk(what, of, state) ==
    /\ Spend("walks")
    /\ walk.what = "none" \/ walk.over
    /\ walk' = LET w == [NoWalk EXCEPT !.what = what, !.of = of, !.state = state] IN [w EXCEPT !.due = Rows(w)]
    /\ UNCHANGED <<report, credited, queue, run, fresh, difference, told, operator, export>>

listDifferences == \E k \in 1..Len(Statements) : run[k] # NoOne /\ StartWalk("differences", k, NoOne)
listUnattributed == StartWalk("unattributed", NoOne, NoOne)
listWithdrawalsAwaitingApproval == StartWalk("awaiting", NoOne, NoOne)
listUnverifiedDestinations == StartWalk("unverified", NoOne, NoOne)
ListEntries == \E a \in Accounts, s \in {NoOne, "pending", "confirmed"} : StartWalk("history", a, s)

(* One page, from the cursor on, and one row more to tell whether another follows. *)
Page ==
    /\ walk.what # "none"
    /\ ~ walk.over
    /\ LET rows == SetToSortSeq({x \in Rows(walk) : PastCursor(walk, x)},
                                LAMBDA x, y : LET k == Key(walk, x) l == Key(walk, y)
                                              IN  k[1] < l[1] \/ (k[1] = l[1] /\ k[2] < l[2]))
           more == Len(rows) > PageLimit
           shown == IF more THEN SubSeq(rows, 1, PageLimit) ELSE rows
       IN  walk' = [walk EXCEPT !.seen = @ \o shown,
                                !.after = IF more THEN Key(walk, shown[PageLimit]) ELSE @,
                                !.over = ~ more]
    /\ UNCHANGED <<report, credited, queue, run, fresh, difference, told, operator, export, budget>>

---------------------------------------------------------------------------------
memberRecords == <<account, participation, announced, deletion, request, flagged, vault, entry, device, handler, clock>>

(* What a walk still has to show: the rows that were there from its start. *)
Watched == \E w \in {walk} : walk' = [w EXCEPT !.due = @ \cap Rows(w)']

OperatorStep(o) ==
    \/ requireOperator(o)
    \/ importStatement(o)
    \/ DetectDifferences(o)
    \/ RecordDifference(o)
    \/ resolveDifference(o)
    \/ dismissUnattributed(o)
    \/ verifyDestination(o)
    \/ UpdateRow(o)
    \/ OperatorGone(o)

Init == MembersInit /\ DeskInit

Next ==
    \/ /\ MemberStep
       /\ UNCHANGED <<report, credited, queue, run, fresh, difference, told, operator, export>>
       /\ Watched
    \/ /\ PollReport \/ CreditReport \/ exportReconciliation \/ \E o \in Operators : OperatorStep(o)
       /\ UNCHANGED <<memberRecords, destination>>
       /\ Watched
    \/ /\ \E o \in Operators : CommitDecision(o)
       /\ UNCHANGED memberRecords
       /\ Watched
    \/ /\ listDifferences \/ listUnattributed \/ listWithdrawalsAwaitingApproval \/ listUnverifiedDestinations \/ ListEntries \/ Page
       /\ UNCHANGED <<memberRecords, destination>>

Spec == Init /\ [][Next]_vars

---------------------------------------------------------------------------------
(* What a run's differences add up to, where they are about a report that   *)
(* is current or a line no current report answers, is what the statement    *)
(* paid less what the reports it covers are owed, in each currency, once    *)
(* the run has been compared with the reports as they stand: nothing is     *)
(* raised twice, left out or raised against a superseded report, although   *)
(* statements are imported again, detections overlap and reports are        *)
(* superseded before, while and after they are compared.                    *)
DeltasAddUp ==
    \A k \in {j \in DOMAIN run : fresh[j]}, cur \in {w.cur : w \in Words} :
        LET about(n) == LET x == difference[n].says
                        IN  /\ x.run = k
                            /\ x.cur = cur
                            /\ IF x.report # 0 THEN Tip(x.report)
                               ELSE ~ \E m \in Tips : report[m].tx = Lines(k)[x.line].tx /\ report[m].cur = cur
            covers(n) == /\ report[n].cur = cur
                         /\ \/ \E i \in 1..Len(Lines(k)) : Lines(k)[i].tx = report[n].tx /\ Lines(k)[i].cur = cur
                            \/ report[n].status = "confirmed" /\ contains(k, report[n].at)
            due(n) == IF report[n].status \in {"pending", "confirmed"} THEN report[n].commission ELSE 0
        IN  MapThenSumSet(LAMBDA n : difference[n].says.actual - difference[n].says.expected,
                          {n \in 1..Len(difference) : about(n)})
            = MapThenSumSet(LAMBDA i : Lines(k)[i].paid, {i \in 1..Len(Lines(k)) : Lines(k)[i].cur = cur})
              - MapThenSumSet(due, {n \in Tips : covers(n)})

(* What an operator was answered is what is on record, for good: the one    *)
(* whose decision was taken finds it there, one who came second was told    *)
(* the first's, and each decision was announced once.                       *)
AnswersAreTheRecord ==
    /\ \A o \in Operators :
          operator[o].st = "answered" =>
              \/ operator[o].says = Decision(operator[o].on)
              \/ operator[o].says.by = NoOne /\ ~ OpenWork(operator[o].on[2])
    /\ \A t \in Targets : CopiesIn(<<Announces[t[1]], t[2]>>, told) = IF Decision(t) = NoOne THEN 0 ELSE 1

(* A walk through the pages shows no row twice and every row that was on    *)
(* the list all along, while rows are added and decided under it and rows   *)
(* share the time they are ordered by.                                      *)
ListsAreWhole ==
    /\ walk.over => walk.due \subseteq ToSet(walk.seen)
    /\ IsInjective(walk.seen)

(* "Both windows are half-open, [from, to), so two adjacent exports share no *)
(* row and miss none": every row dated in the windows exported so far is in *)
(* an export.                                                               *)
AdjacentExportsMissNone ==
    \A n \in 1..Len(difference) : difference[n].at < export.upto => n \in export.rows
==============================================================================
