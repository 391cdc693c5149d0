----------------------------- MODULE SweepsProofs -----------------------------
(***************************************************************************)
(* What the two sweeps promise, for any purchases, windows and lags that   *)
(* leave the network its time to decide.  Both cursors stay behind the     *)
(* clock by their lag, so a window holds only purchases the network has    *)
(* reported (forward) or decided (trailing), and no period is read a third *)
(* time.                                                                   *)
(***************************************************************************)
EXTENDS Sweeps, TLAPS

(* The network has reported what its lag lets nobody ask for sooner. *)
Visible == \A t \in Purchases : At[t] + ReportingLag < now => said[t] # NoFact

CursorInv ==
    /\ cursor # NoTime =>
         /\ backfill # NoTime
         /\ backfill <= cursor
         /\ cursor + ReportingLag <= now + Skew
    /\ trailing # NoTime =>
         /\ cursor # NoTime
         /\ backfill <= trailing
         /\ trailing + TrailingLag <= cursor

(* Ahead of the forward cursor nothing is stored; ahead of the trailing    *)
(* one a chain is one row long.                                            *)
ChainInv ==
    \A t \in Purchases :
        /\ cursor = NoTime \/ At[t] >= cursor => digests[t] = {} /\ tip[t] = NoFact
        /\ trailing = NoTime \/ At[t] >= trailing => digests[t] \subseteq {tip[t]}
        /\ tip[t] = read[t]

ForwardPoll ==
    /\ from = Start(cursor)
    /\ to + ReportingLag <= now + Skew

TrailingPoll ==
    /\ cursor # NoTime
    /\ from = Start(trailing)
    /\ to + TrailingLag <= cursor
    /\ \A t \in Purchases : got[t] \in {NoFact, said[t]}

PollInv ==
    lock # NoPoller =>
        /\ backfill # NoTime /\ from < to
        /\ sweep = "forward" => ForwardPoll
        /\ sweep = "trailing" => TrailingPoll
        /\ \A t \in Purchases : got[t] # NoFact => Contains(t)

SettledInv == (Skew = 0 => NothingUnread) /\ RereadSettles

IInv == TypeOK /\ Visible /\ CursorInv /\ ChainInv /\ PollInv /\ SettledInv

(* A purchase behind the trailing horizon is decided: the network says no  *)
(* more about it.                                                          *)
LEMMA Decided ==
    ASSUME IInv, NEW t \in Purchases, cursor # NoTime, At[t] + TrailingLag < cursor
    PROVE  At[t] + Validation < now /\ At[t] + ReportingLag < now /\ said[t] # NoFact
<1>1. At[t] \in Nat /\ cursor \in Nat /\ now \in Nat
  BY SweepsAssumption DEF IInv, TypeOK, Times
<1>2. cursor + ReportingLag <= now + Skew
  BY DEF IInv, CursorInv
<1>3. At[t] + Validation < now /\ At[t] + ReportingLag < now
  BY <1>1, <1>2, SweepsAssumption
<1> QED BY <1>3 DEF IInv, Visible

(* The invariant holds before anything was read. *)
LEMMA InitInv == ASSUME Init PROVE IInv
<1>1. TypeOK
  BY SweepsAssumption DEF Init, TypeOK, Times, Nothing
<1>2. Visible
  BY SweepsAssumption DEF Init, Visible
<1>3. CursorInv /\ PollInv
  BY DEF Init, CursorInv, PollInv
<1>4. ChainInv
  BY DEF Init, ChainInv, Nothing
<1>5. SettledInv
  BY DEF Init, SettledInv, NothingUnread, RereadSettles, Passed
<1> QED BY <1>1, <1>2, <1>3, <1>4, <1>5 DEF IInv

(* The network may change its mind about what is not yet final. *)
LEMMA SaysKeeps ==
    ASSUME IInv, NEW s \in Purchases, NEW f \in Facts, Says(s, f)
    PROVE  IInv'
<1> USE DEF netVars, rowVars, evidence, pollVars
<1>0. UNCHANGED <<now, backfill, active, cursor, trailing, tip, digests, read,
                  lock, sweep, from, to, got, faults, connects>>
  BY DEF Says
<1>1. TypeOK'
  BY <1>0 DEF IInv, TypeOK, Says
<1>2. Visible'
  BY <1>0, SweepsAssumption DEF IInv, TypeOK, Visible, Says
<1>3. CursorInv' /\ ChainInv'
  BY <1>0 DEF IInv, CursorInv, ChainInv
<1>4. ASSUME NEW t \in Purchases, cursor # NoTime, At[t] + TrailingLag < cursor
      PROVE  said'[t] = said[t]
  <2>1. At[t] + Validation < now
    BY <1>4, Decided
  <2>2. At[s] + Validation >= now /\ At[s] \in Nat /\ now \in Nat
    BY SweepsAssumption DEF IInv, TypeOK, Says
  <2>3. s # t
    BY <2>1, <2>2, SweepsAssumption
  <2> QED BY <2>3 DEF Says, IInv, TypeOK
<1>5. PollInv'
  <2> SUFFICES ASSUME lock # NoPoller, sweep = "trailing", NEW t \in Purchases
               PROVE  got[t] \in {NoFact, said'[t]}
    BY <1>0 DEF IInv, PollInv, ForwardPoll, TrailingPoll, Contains, Start
  <2>1. CASE got[t] = NoFact
    BY <2>1
  <2>2. CASE got[t] # NoFact
    <3>1. At[t] < to /\ cursor # NoTime /\ to + TrailingLag <= cursor
      BY <2>2 DEF IInv, PollInv, TrailingPoll, Contains
    <3>2. At[t] + TrailingLag < cursor
      BY <3>1, SweepsAssumption DEF IInv, TypeOK, Times
    <3> QED BY <1>4, <3>1, <3>2 DEF IInv, PollInv, TrailingPoll
  <2> QED BY <2>1, <2>2
<1>6. SettledInv'
  <2>1. (Skew = 0 => NothingUnread)'
    BY <1>0 DEF IInv, SettledInv, NothingUnread, Wanted, Passed
  <2>2. RereadSettles'
    <3> SUFFICES ASSUME NEW t \in Purchases, Wanted(t), Passed(trailing, t)
                 PROVE  tip[t] = said'[t]
      BY <1>0 DEF RereadSettles, Wanted, Passed
    <3>1. cursor # NoTime /\ At[t] + TrailingLag < cursor
      BY SweepsAssumption DEF IInv, CursorInv, Passed, TypeOK, Times
    <3> QED BY <3>1, <1>4 DEF IInv, SettledInv, RereadSettles
  <2> QED BY <2>1, <2>2 DEF SettledInv
<1> QED BY <1>1, <1>2, <1>3, <1>5, <1>6 DEF IInv

(* Time passes. *)
LEMMA TickKeeps == ASSUME IInv, Tick PROVE IInv'
<1> USE DEF netVars, rowVars, evidence, pollVars
<1>0. /\ now' = now + 1
      /\ UNCHANGED <<said, backfill, active, cursor, trailing, tip, digests, read,
                     lock, sweep, from, to, got, faults, connects>>
  BY DEF Tick
<1>1. TypeOK'
  BY <1>0 DEF IInv, TypeOK
<1>2. Visible'
  BY <1>0, SweepsAssumption DEF IInv, TypeOK, Visible, Tick
<1>3. CursorInv'
  BY <1>0, SweepsAssumption DEF IInv, TypeOK, Times, CursorInv
<1>4. ChainInv' /\ SettledInv'
  BY <1>0 DEF IInv, ChainInv, SettledInv, NothingUnread, RereadSettles, Wanted, Passed
<1>5. PollInv'
  BY <1>0, SweepsAssumption
     DEF IInv, TypeOK, Times, PollInv, ForwardPoll, TrailingPoll, Contains, Start
<1> QED BY <1>1, <1>2, <1>3, <1>4, <1>5 DEF IInv

(* The connect command starts an account, or starts it again. *)
LEMMA ConnectKeeps ==
    ASSUME IInv, NEW b \in Starts, NEW on \in BOOLEAN, Connect(b, on)
    PROVE  IInv'
<1> USE DEF netVars, rowVars, evidence, pollVars
<1>0. /\ lock = NoPoller
      /\ backfill' = IF backfill = NoTime THEN b ELSE backfill
      /\ active' = on /\ connects' = connects + 1
      /\ UNCHANGED <<now, said, cursor, trailing, tip, digests, read,
                     lock, sweep, from, to, got, faults>>
  BY DEF Connect
<1>1. TypeOK'
  BY <1>0, SweepsAssumption DEF IInv, TypeOK, Times
<1>2. Visible' /\ ChainInv' /\ PollInv'
  BY <1>0 DEF IInv, Visible, ChainInv, PollInv
<1>3. CursorInv' /\ SettledInv'
  BY <1>0 DEF IInv, CursorInv, SettledInv, NothingUnread, RereadSettles, Wanted, Passed
<1> QED BY <1>1, <1>2, <1>3 DEF IInv

(* A forward poll opens a window at its cursor. *)
LEMMA PollForwardKeeps ==
    ASSUME IInv, NEW p \in Pollers, NEW at \in now - Skew .. now + Skew, PollForward(p, at)
    PROVE  IInv'
<1> USE DEF netVars, rowVars, evidence
<1>0. /\ backfill # NoTime
      /\ lock' = p /\ sweep' = "forward" /\ got' = Nothing
      /\ UNCHANGED <<now, said, backfill, active, cursor, trailing, tip, digests, read,
                     faults, connects>>
  BY DEF PollForward
<1>1. /\ from' = Start(cursor)
      /\ to' = Earlier(from' + MaxWindow, at - ReportingLag)
      /\ at - ReportingLag > from'
  BY DEF PollForward, nextForwardWindow
<1>2. from' \in Nat
  BY <1>0, <1>1 DEF IInv, TypeOK, Times, Start
<1>3. to' \in Nat /\ from' < to' /\ to' + ReportingLag <= now + Skew
  BY <1>1, <1>2, SweepsAssumption DEF IInv, TypeOK, Earlier
<1>4. TypeOK'
  BY <1>0, <1>2, <1>3 DEF IInv, TypeOK, Nothing
<1>5. Visible' /\ CursorInv' /\ ChainInv' /\ SettledInv'
  BY <1>0 DEF IInv, Visible, CursorInv, ChainInv, SettledInv, NothingUnread, RereadSettles,
              Wanted, Passed
<1>6. PollInv'
  BY <1>0, <1>1, <1>3 DEF PollInv, ForwardPoll, Start, Nothing
<1> QED BY <1>4, <1>5, <1>6 DEF IInv

(* A trailing poll opens one behind it. *)
LEMMA PollTrailingKeeps ==
    ASSUME IInv, NEW p \in Pollers, PollTrailing(p)
    PROVE  IInv'
<1> USE DEF netVars, rowVars, evidence
<1>0. /\ backfill # NoTime /\ cursor # NoTime
      /\ lock' = p /\ sweep' = "trailing" /\ got' = Nothing
      /\ UNCHANGED <<now, said, backfill, active, cursor, trailing, tip, digests, read,
                     faults, connects>>
  BY DEF PollTrailing
<1>1. /\ from' = Start(trailing)
      /\ to' = Earlier(from' + MaxWindow, cursor - TrailingLag)
      /\ cursor - TrailingLag > from'
  BY DEF PollTrailing, nextTrailingWindow
<1>2. from' \in Nat
  BY <1>0, <1>1 DEF IInv, TypeOK, Times, Start
<1>3. to' \in Nat /\ from' < to' /\ to' + TrailingLag <= cursor
  BY <1>0, <1>1, <1>2, SweepsAssumption DEF IInv, TypeOK, Times, Earlier
<1>4. TypeOK'
  BY <1>0, <1>2, <1>3 DEF IInv, TypeOK, Nothing
<1>5. Visible' /\ CursorInv' /\ ChainInv' /\ SettledInv'
  BY <1>0 DEF IInv, Visible, CursorInv, ChainInv, SettledInv, NothingUnread, RereadSettles,
              Wanted, Passed
<1>6. PollInv'
  BY <1>0, <1>1, <1>3 DEF PollInv, TrailingPoll, Start, Nothing
<1> QED BY <1>4, <1>5, <1>6 DEF IInv

(* What the network answers now goes into the open window. *)
LEMMA FetchKeeps ==
    ASSUME IInv, NEW p \in Pollers, NEW s \in Purchases, Fetch(p, s)
    PROVE  IInv'
<1> USE DEF netVars, rowVars, evidence
<1>0. UNCHANGED <<now, said, backfill, active, cursor, trailing, tip, digests, read,
                  lock, sweep, from, to, faults, connects>>
  BY DEF Fetch
<1>1. Contains(s) /\ got' = [got EXCEPT ![s] = said[s]]
  BY DEF Fetch
<1>2. TypeOK'
  BY <1>0, <1>1 DEF IInv, TypeOK
<1>3. Visible' /\ CursorInv' /\ ChainInv' /\ SettledInv'
  BY <1>0 DEF IInv, Visible, CursorInv, ChainInv, SettledInv, NothingUnread, RereadSettles,
              Wanted, Passed
<1>4. PollInv'
  BY <1>0, <1>1
     DEF IInv, TypeOK, PollInv, ForwardPoll, TrailingPoll, Contains, Start
<1> QED BY <1>2, <1>3, <1>4 DEF IInv

(* A poll that fails leaves nothing. *)
LEMMA AbortKeeps ==
    ASSUME IInv, NEW p \in Pollers, Abort(p)
    PROVE  IInv'
BY DEF Abort, netVars, rowVars, evidence, IInv, TypeOK, Visible, CursorInv, ChainInv,
       PollInv, SettledInv, NothingUnread, RereadSettles, Wanted, Passed

(* What a commit writes of a purchase it read is what the poll read: its   *)
(* chain was empty, or one row long and a repeat is that row.              *)
LEMMA RecordIsRead ==
    ASSUME IInv, NEW p \in Pollers, lock = p, NEW t \in Purchases, got[t] # NoFact
    PROVE  Record(t) = got[t]
<1>0. p # NoPoller
  BY SweepsAssumption
<1>1. from <= At[t] /\ backfill # NoTime /\ from \in Nat /\ At[t] \in Nat
  BY <1>0, SweepsAssumption DEF IInv, PollInv, Contains, TypeOK
<1>2. digests[t] \subseteq {tip[t]}
  <2>1. CASE sweep = "forward"
    <3>1. from = Start(cursor)
      BY <1>0, <2>1 DEF IInv, PollInv, ForwardPoll
    <3>2. cursor = NoTime \/ At[t] >= cursor
      BY <1>1, <3>1 DEF Start
    <3> QED BY <3>2 DEF IInv, ChainInv
  <2>2. CASE sweep = "trailing"
    <3>1. from = Start(trailing)
      BY <1>0, <2>2 DEF IInv, PollInv, TrailingPoll
    <3>2. trailing = NoTime \/ At[t] >= trailing
      BY <1>1, <3>1 DEF Start
    <3> QED BY <3>2 DEF IInv, ChainInv
  <2> QED BY <2>1, <2>2 DEF IInv, TypeOK
<1> QED BY <1>2 DEF Record

(* A poll that ends stores its rows and moves its cursor as one. *)
LEMMA CommitKeeps ==
    ASSUME IInv, NEW p \in Pollers, Commit(p)
    PROVE  IInv'
<1> USE DEF netVars
<1>0. /\ lock = p /\ lock' = NoPoller /\ p # NoPoller
      /\ UNCHANGED <<now, said, backfill, active, sweep, from, to, got, faults, connects>>
  BY SweepsAssumption DEF Commit
<1>1. ASSUME NEW t \in Purchases
      PROVE  /\ tip'[t] = Record(t)
             /\ digests'[t] = digests[t] \cup ({got[t]} \ {NoFact})
             /\ read'[t] = IF got[t] = NoFact THEN read[t] ELSE got[t]
  BY DEF Commit
<1>2. ASSUME NEW t \in Purchases, got[t] = NoFact
      PROVE  tip'[t] = tip[t] /\ digests'[t] = digests[t] /\ read'[t] = read[t]
  BY <1>1, <1>2 DEF Record
<1>3. ASSUME NEW t \in Purchases, got[t] # NoFact
      PROVE  tip'[t] = got[t] /\ read'[t] = got[t] /\ Contains(t)
  BY <1>0, <1>1, <1>3, RecordIsRead DEF IInv, PollInv
<1>4. /\ backfill # NoTime /\ from < to /\ from \in Nat /\ to \in Nat
      /\ cursor \in Times /\ trailing \in Times /\ backfill \in Nat /\ now \in Nat
  BY <1>0 DEF IInv, PollInv, TypeOK, Times
<1>5. TypeOK'
  <2>1. tip' \in [Purchases -> Facts \cup {NoFact}]
    BY DEF Commit, Record, IInv, TypeOK
  <2>2. digests' \in [Purchases -> SUBSET Facts]
    BY DEF Commit, IInv, TypeOK
  <2>3. read' \in [Purchases -> Facts \cup {NoFact}]
    BY DEF Commit, IInv, TypeOK
  <2>4. cursor' \in Times /\ trailing' \in Times
    BY <1>4 DEF Commit, Times
  <2> QED BY <1>0, <2>1, <2>2, <2>3, <2>4 DEF IInv, TypeOK
<1>6. Visible' /\ PollInv'
  BY <1>0 DEF IInv, Visible, PollInv
<1>7. CASE sweep = "forward"
  <2>1. /\ cursor' = to /\ trailing' = trailing
        /\ from = Start(cursor) /\ to + ReportingLag <= now + Skew
    BY <1>0, <1>7 DEF Commit, IInv, PollInv, ForwardPoll
  <2>2. /\ backfill <= from
        /\ cursor # NoTime => from = cursor
    BY <1>4, <2>1 DEF IInv, CursorInv, Start
  <2>3. CursorInv'
    BY <1>0, <1>4, <2>1, <2>2, SweepsAssumption DEF IInv, CursorInv, Times
  <2>4. ASSUME NEW t \in Purchases
        PROVE  /\ At[t] >= to => digests'[t] = {} /\ tip'[t] = NoFact
               /\ trailing = NoTime \/ At[t] >= trailing => digests'[t] \subseteq {tip'[t]}
               /\ tip'[t] = read'[t]
    <3>0. At[t] \in Nat
      BY SweepsAssumption
    <3>1. CASE got[t] = NoFact
      <4>1. At[t] >= to => cursor = NoTime \/ At[t] >= cursor
        BY <1>4, <2>2, <3>0 DEF Times
      <4> QED BY <1>2, <3>1, <4>1 DEF IInv, ChainInv
    <3>2. CASE got[t] # NoFact
      <4>1. from <= At[t] /\ At[t] < to
        BY <1>3, <3>2 DEF Contains
      <4>2. cursor = NoTime \/ At[t] >= cursor
        BY <4>1, <2>2
      <4>3. digests[t] = {}
        BY <4>2 DEF IInv, ChainInv
      <4>4. ~(At[t] >= to)
        BY <4>1, <1>4, <3>0
      <4> QED BY <1>1, <1>3, <3>2, <4>3, <4>4
    <3> QED BY <3>1, <3>2
  <2>5. ChainInv'
    BY <1>4, <2>1, <2>4, SweepsAssumption DEF ChainInv
  <2>6. ASSUME Skew = 0, NEW t \in Purchases, Wanted(t), At[t] < to
        PROVE  tip'[t] # NoFact
    <3>0. At[t] \in Nat
      BY SweepsAssumption
    <3>1. CASE cursor # NoTime /\ At[t] < cursor
      <4>1. tip[t] # NoFact
        BY <2>6, <3>1 DEF IInv, SettledInv, NothingUnread, Passed
      <4> QED BY <4>1, <1>2, <1>3
    <3>2. CASE ~(cursor # NoTime /\ At[t] < cursor)
      <4>1. from <= At[t]
        BY <1>4, <2>1, <2>2, <2>6, <3>0, <3>2 DEF Wanted, Start, Times
      <4>2. At[t] + ReportingLag < now
        BY <1>4, <2>1, <2>6, <3>0, SweepsAssumption
      <4>3. got[t] # NoFact
        BY <2>6, <4>1, <4>2 DEF IInv, Visible, Commit, Contains
      <4> QED BY <4>3, <1>3
    <3> QED BY <3>1, <3>2
  <2>7. ASSUME NEW t \in Purchases, Wanted(t), Passed(trailing, t)
        PROVE  tip'[t] = said[t]
    <3>1. got[t] = NoFact
      <4>1. At[t] < from
        BY <1>4, <2>2, <2>7, SweepsAssumption DEF IInv, CursorInv, Passed, Times
      <4> QED BY <1>3, <1>4, <4>1, SweepsAssumption DEF Contains
    <3> QED BY <1>2, <2>7, <3>1 DEF IInv, SettledInv, RereadSettles
  <2>8. SettledInv'
    BY <1>0, <2>1, <2>6, <2>7 DEF SettledInv, NothingUnread, RereadSettles, Wanted, Passed
  <2> QED BY <1>5, <1>6, <2>3, <2>5, <2>8 DEF IInv
<1>8. CASE sweep = "trailing"
  <2>1. /\ trailing' = to /\ cursor' = cursor /\ cursor # NoTime /\ cursor \in Nat
        /\ from = Start(trailing) /\ to + TrailingLag <= cursor
    BY <1>0, <1>4, <1>8 DEF Commit, IInv, PollInv, TrailingPoll, Times
  <2>2. /\ backfill <= from
        /\ trailing # NoTime => from = trailing
    BY <1>4, <2>1 DEF IInv, CursorInv, Start
  <2>3. CursorInv'
    BY <1>0, <1>4, <2>1, <2>2, SweepsAssumption DEF IInv, CursorInv, Times
  <2>4. ASSUME NEW t \in Purchases
        PROVE  /\ At[t] >= cursor => digests'[t] = {} /\ tip'[t] = NoFact
               /\ At[t] >= to => digests'[t] \subseteq {tip'[t]}
               /\ tip'[t] = read'[t]
    <3>0. At[t] \in Nat
      BY SweepsAssumption
    <3>1. CASE got[t] = NoFact
      <4>1. At[t] >= to => trailing = NoTime \/ At[t] >= trailing
        BY <1>4, <2>2, <3>0 DEF Times
      <4> QED BY <1>2, <3>1, <4>1 DEF IInv, ChainInv
    <3>2. CASE got[t] # NoFact
      <4>1. At[t] < to
        BY <1>3, <3>2 DEF Contains
      <4>2. ~(At[t] >= to) /\ ~(At[t] >= cursor)
        BY <4>1, <1>4, <2>1, <3>0, SweepsAssumption
      <4> QED BY <1>3, <3>2, <4>2
    <3> QED BY <3>1, <3>2
  <2>5. ChainInv'
    BY <1>4, <2>1, <2>4, SweepsAssumption DEF ChainInv
  <2>6. ASSUME NEW t \in Purchases, Wanted(t), At[t] < to
        PROVE  tip'[t] = said[t]
    <3>0. At[t] \in Nat
      BY SweepsAssumption
    <3>1. CASE trailing # NoTime /\ At[t] < trailing
      <4>1. got[t] = NoFact
        BY <1>3, <1>4, <2>2, <3>0, <3>1 DEF Contains, Times
      <4> QED BY <1>2, <2>6, <3>1, <4>1 DEF IInv, SettledInv, RereadSettles, Passed
    <3>2. CASE ~(trailing # NoTime /\ At[t] < trailing)
      <4>1. from <= At[t]
        BY <1>4, <2>1, <2>2, <2>6, <3>0, <3>2 DEF Wanted, Start, Times
      <4>2. At[t] + TrailingLag < cursor
        BY <1>4, <2>1, <2>6, <3>0, SweepsAssumption
      <4>3. got[t] # NoFact
        BY <2>1, <2>6, <4>1, <4>2, Decided DEF Commit, Contains
      <4>4. got[t] = said[t]
        BY <1>0, <1>8, <4>3 DEF IInv, PollInv, TrailingPoll
      <4> QED BY <1>3, <4>3, <4>4
    <3> QED BY <3>1, <3>2
  <2>7. ASSUME NEW t \in Purchases, tip[t] # NoFact
        PROVE  tip'[t] # NoFact
    BY <1>2, <1>3, <2>7
  <2>8. SettledInv'
    BY <1>0, <2>1, <2>6, <2>7
       DEF IInv, SettledInv, NothingUnread, RereadSettles, Wanted, Passed
  <2> QED BY <1>5, <1>6, <2>3, <2>5, <2>8 DEF IInv
<1> QED BY <1>7, <1>8 DEF IInv, TypeOK

(* The invariant of the two sweeps: cursors behind their horizons, chains  *)
(* no longer than the reads that made them, an open poll inside its window.*)
THEOREM SweepsInductive == Spec => []IInv
<1>1. IInv /\ [Next]_vars => IInv'
  <2> SUFFICES ASSUME IInv, [Next]_vars PROVE IInv'
    OBVIOUS
  <2>1. CASE Tick
    BY <2>1, TickKeeps
  <2>2. ASSUME NEW t \in Purchases, NEW f \in Facts, Says(t, f) PROVE IInv'
    BY <2>2, SaysKeeps
  <2>3. ASSUME NEW b \in Starts, NEW on \in BOOLEAN, Connect(b, on) PROVE IInv'
    BY <2>3, ConnectKeeps
  <2>4. ASSUME NEW p \in Pollers, NEW at \in now - Skew .. now + Skew, PollForward(p, at)
        PROVE  IInv'
    BY <2>4, PollForwardKeeps
  <2>5. ASSUME NEW p \in Pollers,
               PollTrailing(p) \/ (\E t \in Purchases : Fetch(p, t)) \/ Commit(p) \/ Abort(p)
        PROVE  IInv'
    BY <2>5, PollTrailingKeeps, FetchKeeps, CommitKeeps, AbortKeeps
  <2>6. CASE UNCHANGED vars
    BY <2>6 DEF vars, netVars, rowVars, evidence, pollVars, IInv, TypeOK, Visible, CursorInv,
                ChainInv, PollInv, ForwardPoll, TrailingPoll, SettledInv, NothingUnread,
                RereadSettles, Wanted, Passed, Contains, Start
  <2> QED BY <2>1, <2>2, <2>3, <2>4, <2>5, <2>6 DEF Next
<1> QED BY InitInv, <1>1, PTL DEF Spec

(* Every row and poll keeps its type (Poller.poll). *)
THEOREM SweepsTypeCorrect == Spec => []TypeOK
<1>1. IInv => TypeOK
  BY DEF IInv
<1> QED BY <1>1, SweepsInductive, PTL

(* With clocks that agree, the forward cursor never passes a purchase that *)
(* is not in the evidence table (nextForwardWindow).                       *)
THEOREM ForwardMissesNothing == ASSUME Skew = 0 PROVE Spec => []NothingUnread
<1>1. IInv => NothingUnread
  BY DEF IInv, SettledInv
<1> QED BY <1>1, SweepsInductive, PTL

(* Whatever the clocks, what the trailing cursor has passed is stored as   *)
(* the network finally had it (nextTrailingWindow).                        *)
THEOREM TrailingSettles == Spec => []RereadSettles
<1>1. IInv => RereadSettles
  BY DEF IInv, SettledInv
<1> QED BY <1>1, SweepsInductive, PTL

(* No digest swallows a report that should have become the current row     *)
(* (Superseder.Record).                                                    *)
THEOREM CurrentRowIsCurrent == Spec => []TipIsLastRead
<1>1. IInv => TipIsLastRead
  BY DEF IInv, ChainInv, TipIsLastRead
<1> QED BY <1>1, SweepsInductive, PTL
==============================================================================
