-------------------------------- MODULE Sweeps --------------------------------
(***************************************************************************)
(* internal/cashback/networks: what an affiliate network says about        *)
(* purchases, read into an immutable evidence table by two sweeps over one *)
(* publisher account.  The forward sweep reads each period once, as soon   *)
(* as the network reports it; the trailing sweep reads it once more, after *)
(* the network has had time to change its mind.                            *)
(*                                                                         *)
(* Instants are integers.  What a report says (click reference, statuses,  *)
(* amounts) is one opaque fact: the content digest tells facts apart and   *)
(* nothing else does.                                                      *)
(***************************************************************************)
EXTENDS Integers

CONSTANTS
    Purchases,      \* transactions, by the network's own id
    At,             \* when each was made (transacted_at)
    Facts,          \* what a report can say of one
    NoFact,         \* nothing reported, nothing stored
    Pollers,        \* runs of either sweep, on any instance
    NoPoller,
    NoTime,         \* a null timestamp
    MaxWindow,      \* Limits.MaxWindow
    ReportingLag,   \* Limits.ReportingLag
    TrailingLag,    \* DefaultTrailingLag
    Validation,     \* how long a network may take over a purchase (ADR-0003)
    Starts,         \* where an operator lets the history begin
    Skew,           \* how far an instance's clock may be from the network's
    MaxTime,        \* bound: the clock
    MaxFaults,      \* bound: polls that fail half way
    MaxConnects     \* bound: re-runs of the connect command

ASSUME SweepsAssumption ==
    /\ At \in [Purchases -> Nat]
    /\ NoFact \notin Facts
    /\ NoPoller \notin Pollers
    /\ NoTime \notin Int
    /\ Starts \subseteq Nat
    /\ MaxWindow \in Nat \ {0} /\ ReportingLag \in Nat
    /\ TrailingLag \in Nat /\ Validation \in Nat /\ Skew \in Nat
    /\ ReportingLag <= Validation
    /\ Validation + Skew <= TrailingLag + ReportingLag
    /\ MaxTime \in Nat /\ MaxFaults \in Nat /\ MaxConnects \in Nat

VARIABLES
    now,            \* the network's clock
    said,           \* what the network would answer about a purchase
    backfill, active, cursor, trailing,     \* the account row
    tip, digests,   \* a purchase's current row, and every fact in its chain
    read,           \* history: the fact the last completed poll read
    lock,           \* who holds the account row (FOR UPDATE)
    sweep, from, to, got,   \* an open poll: which, its window, what it read
    faults, connects

netVars  == <<now, said>>
rowVars  == <<backfill, active, cursor, trailing>>
evidence == <<tip, digests, read>>
pollVars == <<lock, sweep, from, to, got>>
vars == <<netVars, rowVars, evidence, pollVars, faults, connects>>

Times == Nat \cup {NoTime}

TypeOK ==
    /\ now \in Nat
    /\ said \in [Purchases -> Facts \cup {NoFact}]
    /\ backfill \in Times /\ active \in BOOLEAN
    /\ cursor \in Times /\ trailing \in Times
    /\ tip \in [Purchases -> Facts \cup {NoFact}]
    /\ digests \in [Purchases -> SUBSET Facts]
    /\ read \in [Purchases -> Facts \cup {NoFact}]
    /\ lock \in Pollers \cup {NoPoller}
    /\ sweep \in {"forward", "trailing"}
    /\ from \in Nat /\ to \in Nat
    /\ got \in [Purchases -> Facts \cup {NoFact}]
    /\ faults \in Nat /\ connects \in Nat

Nothing == [t \in Purchases |-> NoFact]

Init ==
    /\ now = 0
    /\ said = Nothing
    /\ backfill = NoTime /\ active = FALSE
    /\ cursor = NoTime /\ trailing = NoTime
    /\ tip = Nothing /\ read = Nothing
    /\ digests = [t \in Purchases |-> {}]
    /\ lock = NoPoller
    /\ sweep = "forward" /\ from = 0 /\ to = 0 /\ got = Nothing
    /\ faults = 0 /\ connects = 0

------------------------------------------------------------------------------
(* The network.                                                            *)

(* It reports a purchase once it is made and changes what it says until    *)
(* validation is over.                                                     *)
Says(t, f) ==
    /\ At[t] <= now /\ now <= At[t] + Validation
    /\ said[t] # f
    /\ said' = [said EXCEPT ![t] = f]
    /\ UNCHANGED <<now, rowVars, evidence, pollVars, faults, connects>>

(* Time passes, but no purchase gets older than the lag unreported. *)
Tick ==
    /\ now < MaxTime
    /\ \A t \in Purchases : At[t] + ReportingLag <= now => said[t] # NoFact
    /\ now' = now + 1
    /\ UNCHANGED <<said, rowVars, evidence, pollVars, faults, connects>>

------------------------------------------------------------------------------
(* Connecting the account (connect.go, network.sql).                       *)

(* The upsert: the start of the history is written once, the switch on     *)
(* every run, the cursors never.                                           *)
Connect(b, on) ==
    /\ lock = NoPoller
    /\ connects < MaxConnects
    /\ connects' = connects + 1
    /\ backfill' = IF backfill = NoTime THEN b ELSE backfill
    /\ active' = on
    /\ UNCHANGED <<netVars, cursor, trailing, evidence, pollVars, faults>>

------------------------------------------------------------------------------
(* Choosing a window (poll.go).                                            *)

Earlier(a, b) == IF a < b THEN a ELSE b

Start(c) == IF c = NoTime THEN backfill ELSE c

(* Mutant: the window ends at the present, whatever the network has        *)
(* reported.                                                               *)
nextForwardWindow_ToNow(at) ==
    LET a == Start(cursor) IN
    {w \in {<<a, Earlier(a + MaxWindow, at)>>} : at > a}

(* The next period nobody has read, up to the reporting horizon; or none. *)
nextForwardWindow(at) ==
    LET a == Start(cursor)
        horizon == at - ReportingLag
    IN  {w \in {<<a, Earlier(a + MaxWindow, horizon)>>} : horizon > a}

(* Mutant: the trailing sweep starts over every time. *)
nextTrailingWindow_FromStart ==
    LET horizon == cursor - TrailingLag IN
    {w \in {<<backfill, Earlier(backfill + MaxWindow, horizon)>>} : horizon > backfill}

(* Mutant: a period is re-read as soon as it was read. *)
nextTrailingWindow_NoLag ==
    LET a == Start(trailing) IN
    {w \in {<<a, Earlier(a + MaxWindow, cursor)>>} : cursor > a}

(* The next period the forward sweep passed a lag ago; or none. *)
nextTrailingWindow ==
    LET a == Start(trailing)
        horizon == cursor - TrailingLag
    IN  {w \in {<<a, Earlier(a + MaxWindow, horizon)>>} : horizon > a}

------------------------------------------------------------------------------
(* One poll (poller.go).                                                   *)

(* The row is locked, judged and a window chosen, on this instance's clock.*)
(* A refused or empty poll rolls back and changes nothing.                 *)
PollForward(p, at) ==
    /\ lock = NoPoller
    /\ active /\ backfill # NoTime
    /\ cursor = NoTime => backfill <= at
    /\ \E w \in nextForwardWindow(at) : from' = w[1] /\ to' = w[2]
    /\ lock' = p /\ sweep' = "forward" /\ got' = Nothing
    /\ UNCHANGED <<netVars, rowVars, evidence, faults, connects>>

PollTrailing(p) ==
    /\ lock = NoPoller
    /\ active /\ backfill # NoTime
    /\ cursor # NoTime
    /\ \E w \in nextTrailingWindow : from' = w[1] /\ to' = w[2]
    /\ lock' = p /\ sweep' = "trailing" /\ got' = Nothing
    /\ UNCHANGED <<netVars, rowVars, evidence, faults, connects>>

Contains(t) == from <= At[t] /\ At[t] < to

(* The answer comes a report at a time, and the network goes on changing   *)
(* its mind between two of them.                                           *)
Fetch(p, t) ==
    /\ lock = p
    /\ Contains(t) /\ got[t] = NoFact /\ said[t] # NoFact
    /\ got' = [got EXCEPT ![t] = said[t]]
    /\ UNCHANGED <<netVars, rowVars, evidence, lock, sweep, from, to, faults, connects>>

(* A report not read, or one whose digest the chain holds, writes nothing; *)
(* another is the new tip.                                                 *)
Record(t) ==
    IF got[t] = NoFact \/ got[t] \in digests[t] THEN tip[t] ELSE got[t]

(* Every report of the window and the cursor that follows, in one commit. *)
Commit(p) ==
    /\ lock = p
    /\ \A t \in Purchases : Contains(t) /\ said[t] # NoFact => got[t] # NoFact
    /\ tip' = [t \in Purchases |-> Record(t)]
    /\ digests' = [t \in Purchases |-> digests[t] \cup ({got[t]} \ {NoFact})]
    /\ read' = [t \in Purchases |-> IF got[t] = NoFact THEN read[t] ELSE got[t]]
    /\ IF sweep = "trailing"
       THEN trailing' = to /\ UNCHANGED cursor
       ELSE cursor' = to /\ UNCHANGED trailing
    /\ lock' = NoPoller
    /\ UNCHANGED <<netVars, backfill, active, sweep, from, to, got, faults, connects>>

(* The network fails, the run times out, the process dies: all of it is    *)
(* rolled back.                                                            *)
Abort(p) ==
    /\ lock = p
    /\ faults < MaxFaults
    /\ faults' = faults + 1
    /\ lock' = NoPoller
    /\ UNCHANGED <<netVars, rowVars, evidence, sweep, from, to, got, connects>>

Next ==
    \/ Tick
    \/ \E t \in Purchases, f \in Facts : Says(t, f)
    \/ \E b \in Starts, on \in BOOLEAN : Connect(b, on)
    \/ \E p \in Pollers :
         \/ \E at \in now - Skew .. now + Skew : PollForward(p, at)
         \/ PollTrailing(p)
         \/ \E t \in Purchases : Fetch(p, t)
         \/ Commit(p)
         \/ Abort(p)

Spec == Init /\ [][Next]_vars

(* The jobs keep ticking, an open poll ends, and time goes on.  Switching  *)
(* the account on is nobody's duty, and neither is any particular answer   *)
(* of the network beyond the one its reporting lag promises.               *)
FairSpec ==
    /\ Spec
    /\ WF_vars(Tick)
    /\ \A t \in Purchases : WF_vars(said[t] = NoFact /\ \E f \in Facts : Says(t, f))
    /\ SF_vars(\E p \in Pollers : PollForward(p, now))
    /\ SF_vars(\E p \in Pollers : PollTrailing(p))
    /\ \A p \in Pollers : WF_vars(Commit(p) \/ \E t \in Purchases : Fetch(p, t))

------------------------------------------------------------------------------
(* Properties.                                                             *)

(* A purchase of the history the account was connected for. *)
Wanted(t) == backfill # NoTime /\ backfill <= At[t]

Passed(c, t) == c # NoTime /\ At[t] < c

(* "At most one window re-fetched, never one skipped" (FR-031): what the   *)
(* forward cursor has passed is in the evidence table, so no report slips  *)
(* between a window and the reporting horizon.                             *)
NothingUnread == \A t \in Purchases : Wanted(t) /\ Passed(cursor, t) => tip[t] # NoFact

(* What the trailing cursor has passed is what the network had to say: by  *)
(* the time a period is re-read its purchases are decided, and a change    *)
(* the forward sweep could not see is the current row now.  This holds     *)
(* even where a fast clock made the forward sweep miss one.                *)
RereadSettles ==
    \A t \in Purchases : Wanted(t) /\ Passed(trailing, t) => tip[t] = said[t]

(* The current row is "what the network last said about it" when it was    *)
(* last asked.  A fact that comes back after another one is swallowed by   *)
(* its digest, so this rests on no period being read a third time.         *)
TipIsLastRead == \A t \in Purchases : tip[t] = read[t]

(* Every purchase old enough is settled in the end if the account stays on.*)
EverySaleSettles ==
    (<>[]active) =>
        \A t \in Purchases :
            []( Wanted(t) /\ At[t] + TrailingLag + ReportingLag < MaxTime
                => <>(Passed(trailing, t) /\ tip[t] = said[t]) )
==============================================================================
