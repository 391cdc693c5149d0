----------------------------- MODULE EventStream -----------------------------
(***************************************************************************)
(* The transactional outbox of internal/platform/events: the append-only   *)
(* domain_event table as its producers write it and as a poll reads it.    *)
(*                                                                         *)
(* An event's place in the stream is (occurred_at, id).  occurred_at is    *)
(* the START time of the appending transaction and the row becomes         *)
(* readable only at its COMMIT, so rows do not become readable in stream   *)
(* order.  Every event is a transaction of its own here; id is its number  *)
(* in Events, which need not follow the order the transactions start in.   *)
(***************************************************************************)
EXTENDS Integers, FiniteSets

CONSTANTS
    N,          \* the number of appending transactions
    Lanes,      \* the (type, subject) lanes
    LaneOf,     \* the lane each event is appended to
    Handled,    \* the events whose type the subscriber handles
    KeyOf,      \* the (producer, idempotency key) each event is appended under
    MaxTime,    \* bound: no transaction starts at or after this instant
    XidCircle,  \* the number of 32-bit transaction ids (2^32 in Postgres)
    FirstXid    \* the 64-bit transaction id the first append is given

Events == 1 .. N

ASSUME StreamAssumption ==
    /\ N \in Nat
    /\ LaneOf \in [Events -> Lanes]
    /\ Handled \subseteq Events
    /\ DOMAIN KeyOf = Events
    /\ MaxTime \in Nat
    /\ XidCircle \in Nat /\ XidCircle > 6
    /\ FirstXid \in Nat /\ FirstXid % XidCircle >= 3

VARIABLES
    clock,      \* the database's clock
    tx,         \* "none", "open", "appended", "committed" or "aborted"
    at,         \* occurred_at: the start time of the event's transaction
    xid,        \* the 64-bit id the transaction was given at its append
    nextXid

streamVars == <<clock, tx, at, xid, nextXid>>

StreamTypeOK ==
    /\ clock \in 0 .. MaxTime
    /\ tx \in [Events -> {"none", "open", "appended", "committed", "aborted"}]
    /\ at \in [Events -> 0 .. MaxTime]
    /\ xid \in [Events -> Nat]
    /\ nextXid \in Nat

StreamInit ==
    /\ clock = 0
    /\ tx = [e \in Events |-> "none"]
    /\ at = [e \in Events |-> 0]
    /\ xid = [e \in Events |-> 0]
    /\ nextXid = FirstXid

------------------------------------------------------------------------------
(* The order (occurred_at, id) of the stream. *)

Before(e, f) == at[e] < at[f] \/ (at[e] = at[f] /\ e < f)

IsFirst(e, S) == e \in S /\ \A f \in S \ {e} : Before(e, f)

(* The position a checkpoint holds is an event's, or 0 before the first. *)
After(e, cp) == cp = 0 \/ Before(cp, e)

Committed == {e \in Events : tx[e] = "committed"}
Running   == {e \in Events : tx[e] \in {"open", "appended"}}

------------------------------------------------------------------------------
(* Transaction ids: a 64-bit counter that skips the ids whose low 32 bits  *)
(* are the reserved 0, 1 and 2, of which the poll reads the low 32 bits.   *)

xid32(v) == v % XidCircle

firstNormalXID == 3

(* int32(a - b) < 0 for a - b wrapped to 32 bits. *)
xidPrecedes(a, b) ==
    IF a < firstNormalXID \/ b < firstNormalXID
      THEN a < b
      ELSE (a - b) % XidCircle >= XidCircle \div 2

SuccXid(x) == IF (x + 1) % XidCircle = 0 THEN x + 1 + firstNormalXID ELSE x + 1

(* pg_snapshot_xmin: the oldest id still running, else the next to be given. *)
SnapshotXmin ==
    LET running == {xid[e] : e \in {f \in Events : tx[f] = "appended"}}
    IN  IF running = {} THEN nextXid
        ELSE CHOOSE x \in running : \A y \in running : x <= y

(* t is the oldest start among the open transactions, or the current       *)
(* instant when none is open.                                              *)
oldestOpenTransaction(t) ==
    IF Running = {} THEN t = clock
    ELSE (\E e \in Running : at[e] = t) /\ (\A e \in Running : t <= at[e])

(* Mutant: a row as old as the oldest open transaction counts as settled. *)
Settled_AtHorizon(e, openSince) ==
    /\ at[e] <= openSince
    /\ xidPrecedes(xid32(xid[e]), xid32(SnapshotXmin))

(* What one poll calls settled, given the horizon it read one statement    *)
(* before: no append can any more land in front of the row.                *)
Settled(e, openSince) ==
    /\ at[e] < openSince
    /\ xidPrecedes(xid32(xid[e]), xid32(SnapshotXmin))

(* The first rows past a checkpoint, no more than limit of them.           *)
PollRows(cp, limit) ==
    LET rows == {e \in Committed : After(e, cp)}
    IN  {e \in rows : Cardinality({f \in rows : Before(f, e)}) < limit}

------------------------------------------------------------------------------
(* Producers. *)

AdvanceClock ==
    /\ clock < MaxTime
    /\ clock' = clock + 1
    /\ UNCHANGED <<tx, at, xid, nextXid>>

Begin(e) ==
    /\ tx[e] = "none"
    /\ clock < MaxTime
    /\ tx' = [tx EXCEPT ![e] = "open"]
    /\ at' = [at EXCEPT ![e] = clock]
    /\ UNCHANGED <<clock, xid, nextXid>>

SameKey(e, f) == e # f /\ KeyOf[e] = KeyOf[f]

(* Writer.Append: the insert is given an id and holds its idempotency key  *)
(* until the transaction ends; it waits for a running holder of the key.   *)
Append(e) ==
    /\ tx[e] = "open"
    /\ \A f \in Events : SameKey(e, f) => tx[f] \notin {"appended", "committed"}
    /\ tx' = [tx EXCEPT ![e] = "appended"]
    /\ xid' = [xid EXCEPT ![e] = nextXid]
    /\ nextXid' = SuccXid(nextXid)
    /\ UNCHANGED <<clock, at>>

(* ErrAlreadyAppended: the key is taken, and the failed insert has aborted *)
(* the transaction it ran in.                                              *)
AlreadyAppended(e) ==
    /\ tx[e] = "open"
    /\ \E f \in Events : SameKey(e, f) /\ tx[f] = "committed"
    /\ tx' = [tx EXCEPT ![e] = "aborted"]
    /\ nextXid' = SuccXid(nextXid)
    /\ UNCHANGED <<clock, at, xid>>

Commit(e) ==
    /\ tx[e] = "appended"
    /\ tx' = [tx EXCEPT ![e] = "committed"]
    /\ UNCHANGED <<clock, at, xid, nextXid>>

Rollback(e) ==
    /\ tx[e] \in {"open", "appended"}
    /\ tx' = [tx EXCEPT ![e] = "aborted"]
    /\ UNCHANGED <<clock, at, xid, nextXid>>

Produce ==
    \/ AdvanceClock
    \/ \E e \in Events :
        Begin(e) \/ Append(e) \/ AlreadyAppended(e) \/ Commit(e) \/ Rollback(e)
==============================================================================
