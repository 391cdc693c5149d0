---------------------------- MODULE RegistryProofs ----------------------------
(***************************************************************************)
(* Proofs about Registry, for every number of events, workers, lanes and   *)
(* faults, every batch size and every start of the transaction ids, with   *)
(* the advisory lock in force or lost; LaneOrder, which needs the lock,    *)
(* with it in force.                                                       *)
(***************************************************************************)
EXTENDS Registry, FiniteSetTheorems, TLAPS

Handling == {"rehandle", "repark", "rerecord", "reresolve", "handle", "park", "record"}

(* The event a worker is handling is one of the stream's. *)
CurOK == \A w \in Workers : pc[w] \in Handling => cur[w] \in Events

TypeInv == TypeOK /\ CurOK

(* No transaction started in the future. *)
StartedByNow == \A e \in Events : tx[e] # "none" => at[e] <= clock

(* A position that may be saved: nothing can be appended at or behind it   *)
(* any more, and what is there is accounted for.                           *)
Safe(p) ==
    p # 0 => /\ tx[p] = "committed"
             /\ at[p] < clock
             /\ \A e \in Events : tx[e] # "none" /\ ~Before(p, e) => Accounted(e)

(* The rows a drain has yet to account for, the one in hand included. *)
InHand(w) == pc[w] \in {"handle", "park", "record"}
Ahead(w) == batch[w] \cup (IF InHand(w) THEN {cur[w]} ELSE {})

(* The pass may still move its watermark. *)
MayAdvance(w) ==
    \/ pc[w] \in {"deliveries", "letters"}
    \/ pc[w] \in Visiting /\ advancing[w]

(* Nothing between the watermark and a settled row is missing from the     *)
(* batch, and nothing can be appended there any more.                      *)
Sealed(w, e) ==
    \A f \in Events : tx[f] # "none" /\ ~Before(e, f) =>
        \/ tx[f] = "aborted"
        \/ tx[f] = "committed" /\ (~After(f, watermark[w]) \/ f \in Ahead(w))

RowsInv(w) ==
    \A e \in Ahead(w) :
        /\ tx[e] = "committed"
        /\ After(e, watermark[w])
        /\ e \notin unsettled[w] => at[e] < clock /\ Sealed(w, e)

HandInv(w) ==
    cur[w] \notin unsettled[w] /\ \A g \in batch[w] : Before(cur[w], g)

BatchInv(w) == MayAdvance(w) => RowsInv(w) /\ (InHand(w) => HandInv(w))

(* No transaction older than the horizon is open when the rows are read. *)
HorizonInv(w) ==
    pc[w] = "poll" => /\ openSince[w] <= clock
                      /\ \A f \in Running : openSince[w] <= at[f]

(* What the pass read of the tables is still so. *)
ReadInv(w) ==
    /\ pc[w] = "reresolve" => cur[w] \in delivered
    /\ done[w] \subseteq delivered
    /\ \A e \in parked[w] : letter[e] # "none" \/ e \in delivered

WorkerInv(w) == Safe(watermark[w]) /\ BatchInv(w) /\ HorizonInv(w) /\ ReadInv(w)

IInv ==
    /\ TypeInv
    /\ StartedByNow
    /\ Safe(checkpoint)
    /\ \A w \in Workers : WorkerInv(w)

------------------------------------------------------------------------------
(* Types. *)

(* What producers do keeps the types. *)
LEMMA ProduceTypes ==
    ASSUME TypeInv, Produce, UNCHANGED <<tables, handled, faults, pc, local>>
    PROVE  TypeInv'
<1> USE StreamAssumption DEF TypeInv, TypeOK
<1>1. StreamTypeOK'
  <2> USE DEF StreamTypeOK
  <2>1. CASE AdvanceClock
    BY <2>1 DEF AdvanceClock
  <2>2. ASSUME NEW e \in Events, Begin(e)
        PROVE  StreamTypeOK'
    BY <2>2 DEF Begin
  <2>3. ASSUME NEW e \in Events, Append(e)
        PROVE  StreamTypeOK'
    BY <2>3 DEF Append, SuccXid, firstNormalXID
  <2>4. ASSUME NEW e \in Events, AlreadyAppended(e)
        PROVE  StreamTypeOK'
    BY <2>4 DEF AlreadyAppended, SuccXid, firstNormalXID
  <2>5. ASSUME NEW e \in Events, Commit(e) \/ Rollback(e)
        PROVE  StreamTypeOK'
    BY <2>5 DEF Commit, Rollback
  <2> QED
    BY <2>1, <2>2, <2>3, <2>4, <2>5 DEF Produce
<1>2. TablesTypeOK' /\ PassTypeOK' /\ CurOK'
  BY DEF tables, local, TablesTypeOK, PassTypeOK, CurOK
<1> QED
  BY <1>1, <1>2

(* The end of a pass keeps the types. *)
LEMMA FinishTypes ==
    ASSUME PassTypeOK, NEW w \in Workers, Finish(w)
    PROVE  PassTypeOK'
BY StreamAssumption DEF PassTypeOK, Finish, Goto

(* And so does each statement of a pass. *)
LEMMA TickTypes ==
    ASSUME TypeInv, NEW w \in Workers, tick(w)
    PROVE  TypeInv'
<1> USE StreamAssumption, RegistryAssumption
<1> USE DEF TypeInv, TypeOK, streamVars, tables
<1>1. CASE blockedLanes(w)
  <2> USE <1>1 DEF blockedLanes, Goto, NoFault, LaneParked
  <2>1. StreamTypeOK' /\ TablesTypeOK' /\ handled' \in [Events -> Nat] /\ faults' \in 0 .. MaxFaults
    BY DEF StreamTypeOK, TablesTypeOK, CurOK, Handling
  <2>2. PassTypeOK'
    BY DEF PassTypeOK, Redelivering, Draining, Visiting, CurOK, Handling
  <2>3. CurOK'
    BY DEF PassTypeOK, CurOK, Handling, Redelivering, Draining, Visiting
  <2> QED
    BY <2>1, <2>2, <2>3
<1>2. CASE requeuedDeadLetters(w)
  <2> USE <1>2 DEF requeuedDeadLetters, Goto, NoFault, Fault
  <2>1. StreamTypeOK' /\ TablesTypeOK' /\ handled' \in [Events -> Nat] /\ faults' \in 0 .. MaxFaults
    BY DEF StreamTypeOK, TablesTypeOK, CurOK, Handling
  <2>2. PassTypeOK'
    BY DEF Committed, PassTypeOK, Redelivering, Draining, Visiting, CurOK, Handling
  <2>3. CurOK'
    BY DEF PassTypeOK, CurOK, Handling, Redelivering, Draining, Visiting
  <2> QED
    BY <2>1, <2>2, <2>3
<1>3. ASSUME NEW e \in Events, RecheckFails(w, e)
       PROVE  TypeInv'
  <2> USE <1>3 DEF RecheckFails, IsFirst, Block, Fault
  <2>1. StreamTypeOK' /\ TablesTypeOK' /\ handled' \in [Events -> Nat] /\ faults' \in 0 .. MaxFaults
    BY DEF StreamTypeOK, TablesTypeOK, CurOK, Handling
  <2>2. PassTypeOK'
    BY DEF PassTypeOK, Redelivering, Draining, Visiting, CurOK, Handling
  <2>3. CurOK'
    BY DEF PassTypeOK, CurOK, Handling, Redelivering, Draining, Visiting
  <2> QED
    BY <2>1, <2>2, <2>3
<1>4. ASSUME NEW e \in Events, AlreadyRecorded(w, e)
       PROVE  TypeInv'
  <2> USE <1>4 DEF AlreadyRecorded, IsFirst, Unblock, Fault, NoFault
  <2>1. StreamTypeOK' /\ TablesTypeOK' /\ handled' \in [Events -> Nat] /\ faults' \in 0 .. MaxFaults
    BY DEF StreamTypeOK, TablesTypeOK, CurOK, Handling
  <2>2. PassTypeOK'
    BY DEF PassTypeOK, Redelivering, Draining, Visiting, CurOK, Handling
  <2>3. CurOK'
    BY DEF PassTypeOK, CurOK, Handling, Redelivering, Draining, Visiting
  <2> QED
    BY <2>1, <2>2, <2>3
<1>5. ASSUME NEW e \in Events, NotRecorded(w, e)
       PROVE  TypeInv'
  <2> USE <1>5 DEF NotRecorded, IsFirst, Goto, NoFault
  <2>1. StreamTypeOK' /\ TablesTypeOK' /\ handled' \in [Events -> Nat] /\ faults' \in 0 .. MaxFaults
    BY DEF StreamTypeOK, TablesTypeOK, CurOK, Handling
  <2>2. PassTypeOK'
    <3>1. e \in 0 .. N
      BY DEF Events
    <3> QED
      BY <3>1 DEF PassTypeOK, Redelivering
  <2>3. CurOK'
    BY DEF PassTypeOK, CurOK, Handling, Redelivering, Draining, Visiting
  <2> QED
    BY <2>1, <2>2, <2>3
<1>6. CASE Rehandle(w)
  <2> USE <1>6 DEF Rehandle, attemptDelivery, Goto, Block, Fault, NoFault
  <2>1. StreamTypeOK' /\ TablesTypeOK' /\ handled' \in [Events -> Nat] /\ faults' \in 0 .. MaxFaults
    BY DEF StreamTypeOK, TablesTypeOK, CurOK, Handling
  <2>2. PassTypeOK'
    BY DEF PassTypeOK, Redelivering, Draining, Visiting, CurOK, Handling
  <2>3. CurOK'
    BY DEF PassTypeOK, CurOK, Handling, Redelivering, Draining, Visiting
  <2> QED
    BY <2>1, <2>2, <2>3
<1>7. CASE reparkDeadLetter(w)
  <2> USE <1>7 DEF reparkDeadLetter, Goto, Fault, NoFault, local
  <2>1. StreamTypeOK' /\ TablesTypeOK' /\ handled' \in [Events -> Nat] /\ faults' \in 0 .. MaxFaults
    BY DEF StreamTypeOK, TablesTypeOK, CurOK, Handling
  <2>2. PassTypeOK'
    BY DEF PassTypeOK, Redelivering, Draining, Visiting, CurOK, Handling
  <2>3. CurOK'
    BY DEF PassTypeOK, CurOK, Handling, Redelivering, Draining, Visiting
  <2> QED
    BY <2>1, <2>2, <2>3
<1>8. CASE Rerecord(w)
  <2> USE <1>8 DEF Rerecord, Goto, Block, Fault, NoFault
  <2>1. StreamTypeOK' /\ TablesTypeOK' /\ handled' \in [Events -> Nat] /\ faults' \in 0 .. MaxFaults
    BY DEF StreamTypeOK, TablesTypeOK, CurOK, Handling
  <2>2. PassTypeOK'
    BY DEF PassTypeOK, Redelivering, Draining, Visiting, CurOK, Handling
  <2>3. CurOK'
    BY DEF PassTypeOK, CurOK, Handling, Redelivering, Draining, Visiting
  <2> QED
    BY <2>1, <2>2, <2>3
<1>9. CASE resolveDeadLetter(w)
  <2> USE <1>9 DEF resolveDeadLetter, Goto, Unblock, Fault, NoFault
  <2>1. StreamTypeOK' /\ TablesTypeOK' /\ handled' \in [Events -> Nat] /\ faults' \in 0 .. MaxFaults
    BY DEF StreamTypeOK, TablesTypeOK, CurOK, Handling
  <2>2. PassTypeOK'
    BY DEF PassTypeOK, Redelivering, Draining, Visiting, CurOK, Handling
  <2>3. CurOK'
    BY DEF PassTypeOK, CurOK, Handling, Redelivering, Draining, Visiting
  <2> QED
    BY <2>1, <2>2, <2>3
<1>10. CASE Redelivered(w)
  <2> USE <1>10 DEF Redelivered, Goto, NoFault, local
  <2>1. StreamTypeOK' /\ TablesTypeOK' /\ handled' \in [Events -> Nat] /\ faults' \in 0 .. MaxFaults
    BY DEF StreamTypeOK, TablesTypeOK, CurOK, Handling
  <2>2. PassTypeOK'
    BY DEF PassTypeOK, Redelivering, Draining, Visiting, CurOK, Handling
  <2>3. CurOK'
    BY DEF PassTypeOK, CurOK, Handling, Redelivering, Draining, Visiting
  <2> QED
    BY <2>1, <2>2, <2>3
<1>11. CASE Load(w)
  <2> USE <1>11 DEF Load, Goto, NoFault
  <2>1. StreamTypeOK' /\ TablesTypeOK' /\ handled' \in [Events -> Nat] /\ faults' \in 0 .. MaxFaults
    BY DEF StreamTypeOK, TablesTypeOK, CurOK, Handling
  <2>2. PassTypeOK'
    BY DEF TablesTypeOK, PassTypeOK, Redelivering, Draining, Visiting, CurOK, Handling
  <2>3. CurOK'
    BY DEF PassTypeOK, CurOK, Handling, Redelivering, Draining, Visiting
  <2> QED
    BY <2>1, <2>2, <2>3
<1>12. CASE ReadHorizon(w)
  <2> USE <1>12 DEF ReadHorizon, Goto, NoFault
  <2>1. StreamTypeOK' /\ TablesTypeOK' /\ handled' \in [Events -> Nat] /\ faults' \in 0 .. MaxFaults
    BY DEF StreamTypeOK, TablesTypeOK, CurOK, Handling
  <2>2. PassTypeOK'
    BY DEF PassTypeOK, Redelivering, Draining, Visiting, CurOK, Handling
  <2>3. CurOK'
    BY DEF PassTypeOK, CurOK, Handling, Redelivering, Draining, Visiting
  <2> QED
    BY <2>1, <2>2, <2>3
<1>13. CASE pollStream(w)
  <2> DEFINE rows == PollRows(watermark[w], BatchSize)
  <2>1. StreamTypeOK' /\ TablesTypeOK' /\ handled' \in [Events -> Nat] /\ faults' \in 0 .. MaxFaults
    BY <1>13 DEF pollStream, NoFault, StreamTypeOK, TablesTypeOK
  <2>2. rows \subseteq Events /\ Committed \subseteq Events
    BY DEF PollRows, Committed
  <2> HIDE DEF rows
  <2>3. CASE rows = {}
    <3>1. Finish(w)
      BY <1>13, <2>3 DEF pollStream, rows
    <3>2. CurOK'
      BY <3>1 DEF Finish, Goto, CurOK, Handling, PassTypeOK
    <3> QED
      BY <2>1, <3>1, <3>2, FinishTypes
  <2>4. CASE rows # {}
    <3>1. /\ pc' = [pc EXCEPT ![w] = "deliveries"]
          /\ polled' = [polled EXCEPT ![w] = Committed]
          /\ batch' = [batch EXCEPT ![w] = rows]
          /\ unsettled' = [unsettled EXCEPT ![w] =
                             {e \in rows : ~Settled(e, openSince[w])}]
          /\ openSince' = [openSince EXCEPT ![w] = 0]
          /\ UNCHANGED <<blocked, todo, done, parked, cur, watermark, advanced,
                         advancing>>
      BY <1>13, <2>4 DEF pollStream, Goto, rows
    <3>2. CurOK'
      BY <3>1 DEF CurOK, Handling, PassTypeOK
    <3>3. PassTypeOK'
      BY <2>2, <3>1 DEF PassTypeOK, Draining
    <3> QED
      BY <2>1, <3>2, <3>3
  <2> QED
    BY <2>3, <2>4
<1>14. CASE recordedDeliveries(w)
  <2> USE <1>14 DEF recordedDeliveries, Goto, NoFault
  <2>1. StreamTypeOK' /\ TablesTypeOK' /\ handled' \in [Events -> Nat] /\ faults' \in 0 .. MaxFaults
    BY DEF StreamTypeOK, TablesTypeOK, CurOK, Handling
  <2>2. PassTypeOK'
    BY DEF PassTypeOK, Redelivering, Draining, Visiting, CurOK, Handling
  <2>3. CurOK'
    BY DEF PassTypeOK, CurOK, Handling, Redelivering, Draining, Visiting
  <2> QED
    BY <2>1, <2>2, <2>3
<1>15. CASE recordedDeadLetters(w)
  <2> USE <1>15 DEF recordedDeadLetters, Goto, NoFault
  <2>1. StreamTypeOK' /\ TablesTypeOK' /\ handled' \in [Events -> Nat] /\ faults' \in 0 .. MaxFaults
    BY DEF StreamTypeOK, TablesTypeOK, CurOK, Handling
  <2>2. PassTypeOK'
    BY DEF PassTypeOK, Redelivering, Draining, Visiting, CurOK, Handling
  <2>3. CurOK'
    BY DEF PassTypeOK, CurOK, Handling, Redelivering, Draining, Visiting
  <2> QED
    BY <2>1, <2>2, <2>3
<1>16. ASSUME NEW e \in Events, PassOver(w, e)
       PROVE  TypeInv'
  <2> USE <1>16 DEF PassOver, NextRow, IsFirst, pass, Contiguous, NoFault
  <2>1. StreamTypeOK' /\ TablesTypeOK' /\ handled' \in [Events -> Nat] /\ faults' \in 0 .. MaxFaults
    BY DEF StreamTypeOK, TablesTypeOK, CurOK, Handling
  <2>2. PassTypeOK'
    <3>1. e \in 0 .. N /\ Contiguous(w, e) \in BOOLEAN
      BY DEF Events
    <3>2. watermark' \in [Workers -> 0 .. N]
      BY <3>1 DEF PassTypeOK
    <3>3. advanced' \in [Workers -> BOOLEAN] /\ advancing' \in [Workers -> BOOLEAN]
      BY <3>1 DEF PassTypeOK
    <3> QED
      BY <3>2, <3>3 DEF PassTypeOK
  <2>3. CurOK'
    BY DEF PassTypeOK, CurOK, Handling, Redelivering, Draining, Visiting
  <2> QED
    BY <2>1, <2>2, <2>3
<1>17. ASSUME NEW e \in Events, PassParked(w, e)
       PROVE  TypeInv'
  <2> USE <1>17 DEF PassParked, NextRow, IsFirst, Block, pass, Contiguous, NoFault
  <2>1. StreamTypeOK' /\ TablesTypeOK' /\ handled' \in [Events -> Nat] /\ faults' \in 0 .. MaxFaults
    BY DEF StreamTypeOK, TablesTypeOK, CurOK, Handling
  <2>2. PassTypeOK'
    BY DEF Events, PassTypeOK, Redelivering, Draining, Visiting, CurOK, Handling
  <2>3. CurOK'
    BY DEF PassTypeOK, CurOK, Handling, Redelivering, Draining, Visiting
  <2> QED
    BY <2>1, <2>2, <2>3
<1>18. ASSUME NEW e \in Events, Hold(w, e)
       PROVE  TypeInv'
  <2> USE <1>18 DEF Hold, NextRow, IsFirst, Pin, NoFault
  <2>1. StreamTypeOK' /\ TablesTypeOK' /\ handled' \in [Events -> Nat] /\ faults' \in 0 .. MaxFaults
    BY DEF StreamTypeOK, TablesTypeOK, CurOK, Handling
  <2>2. PassTypeOK'
    BY DEF PassTypeOK, Redelivering, Draining, Visiting, CurOK, Handling
  <2>3. CurOK'
    BY DEF PassTypeOK, CurOK, Handling, Redelivering, Draining, Visiting
  <2> QED
    BY <2>1, <2>2, <2>3
<1>19. ASSUME NEW e \in Events, Take(w, e)
       PROVE  TypeInv'
  <2> USE <1>19 DEF Take, NextRow, IsFirst, Contiguous, Goto, NoFault
  <2>1. StreamTypeOK' /\ TablesTypeOK' /\ handled' \in [Events -> Nat] /\ faults' \in 0 .. MaxFaults
    BY DEF StreamTypeOK, TablesTypeOK, CurOK, Handling
  <2>2. PassTypeOK'
    BY DEF Events, PassTypeOK, Redelivering, Draining, Visiting, CurOK, Handling
  <2>3. CurOK'
    BY DEF PassTypeOK, CurOK, Handling, Redelivering, Draining, Visiting
  <2> QED
    BY <2>1, <2>2, <2>3
<1>20. CASE Handle(w)
  <2> USE <1>20 DEF Handle, attemptDelivery, Goto, Block, Fault, NoFault
  <2>1. StreamTypeOK' /\ TablesTypeOK' /\ handled' \in [Events -> Nat] /\ faults' \in 0 .. MaxFaults
    BY DEF StreamTypeOK, TablesTypeOK, CurOK, Handling
  <2>2. PassTypeOK'
    BY DEF PassTypeOK, Redelivering, Draining, Visiting, CurOK, Handling
  <2>3. CurOK'
    BY DEF PassTypeOK, CurOK, Handling, Redelivering, Draining, Visiting
  <2> QED
    BY <2>1, <2>2, <2>3
<1>21. CASE parkDeadLetter(w)
  <2> USE <1>21 DEF parkDeadLetter, Goto, pass, Pin, Fault, NoFault
  <2>1. StreamTypeOK' /\ TablesTypeOK' /\ handled' \in [Events -> Nat] /\ faults' \in 0 .. MaxFaults
    BY DEF StreamTypeOK, TablesTypeOK, CurOK, Handling
  <2>2. PassTypeOK'
    <3>1. cur[w] \in 0 .. N /\ advancing[w] \in BOOLEAN
      BY DEF Events, PassTypeOK
    <3>2. watermark' \in [Workers -> 0 .. N]
      BY <3>1 DEF PassTypeOK
    <3>3. advanced' \in [Workers -> BOOLEAN] /\ advancing' \in [Workers -> BOOLEAN]
      BY <3>1 DEF PassTypeOK
    <3> QED
      BY <3>2, <3>3 DEF PassTypeOK, Visiting
  <2>3. CurOK'
    BY DEF PassTypeOK, CurOK, Handling, Redelivering, Draining, Visiting
  <2> QED
    BY <2>1, <2>2, <2>3
<1>22. CASE recordDelivery(w)
  <2> USE <1>22 DEF recordDelivery, Goto, pass, Pin, Fault, NoFault
  <2>1. StreamTypeOK' /\ TablesTypeOK' /\ handled' \in [Events -> Nat] /\ faults' \in 0 .. MaxFaults
    BY DEF StreamTypeOK, TablesTypeOK, CurOK, Handling
  <2>2. PassTypeOK'
    BY DEF Events, PassTypeOK, Redelivering, Draining, Visiting, CurOK, Handling
  <2>3. CurOK'
    BY DEF PassTypeOK, CurOK, Handling, Redelivering, Draining, Visiting
  <2> QED
    BY <2>1, <2>2, <2>3
<1>23. CASE Save(w)
  <2> USE <1>23 DEF Save, Finish, Goto, NoFault
  <2>1. StreamTypeOK' /\ TablesTypeOK' /\ handled' \in [Events -> Nat] /\ faults' \in 0 .. MaxFaults
    BY DEF PassTypeOK, StreamTypeOK, TablesTypeOK, CurOK, Handling
  <2>2. PassTypeOK'
    BY DEF PassTypeOK, Redelivering, Draining, Visiting, CurOK, Handling
  <2>3. CurOK'
    BY DEF PassTypeOK, CurOK, Handling, Redelivering, Draining, Visiting
  <2> QED
    BY <2>1, <2>2, <2>3
<1> QED
  BY <1>1, <1>2, <1>3, <1>4, <1>5, <1>6, <1>7, <1>8, <1>9, <1>10, <1>11, <1>12, <1>13, <1>14, <1>15, <1>16, <1>17, <1>18, <1>19, <1>20, <1>21, <1>22, <1>23 DEF tick

(* The types hold at the start. *)
LEMMA InitTypes ==
    ASSUME Init
    PROVE  TypeInv
BY StreamAssumption, RegistryAssumption
   DEF Init, StreamInit, TypeInv, TypeOK, StreamTypeOK, TablesTypeOK, PassTypeOK,
       CurOK, Handling

(* Every step keeps the types. *)
LEMMA StepTypes ==
    ASSUME TypeInv, [Next]_vars
    PROVE  TypeInv'
<1>1. CASE Produce /\ UNCHANGED <<tables, handled, faults, pc, local>>
  BY <1>1, ProduceTypes
<1>2. ASSUME NEW w \in Workers, tick(w)
      PROVE  TypeInv'
  BY <1>2, TickTypes
<1>3. ASSUME NEW w \in Workers, Abort(w)
      PROVE  TypeInv'
  <2> USE <1>3 DEF TypeInv, TypeOK, Abort, streamVars, tables
  <2>1. StreamTypeOK' /\ TablesTypeOK' /\ handled' \in [Events -> Nat] /\ faults' \in 0 .. MaxFaults
    BY RegistryAssumption DEF StreamTypeOK, TablesTypeOK, Fault
  <2>2. PassTypeOK'
    BY FinishTypes
  <2>3. CurOK'
    BY DEF Finish, Goto, CurOK, Handling, PassTypeOK
  <2> QED
    BY <2>1, <2>2, <2>3
<1>4. ASSUME NEW e \in Events, Requeue(e)
      PROVE  TypeInv'
  <2> USE <1>4 DEF TypeInv, TypeOK, Requeue, streamVars
  <2>1. StreamTypeOK' /\ TablesTypeOK'
    BY DEF StreamTypeOK, TablesTypeOK
  <2>2. PassTypeOK' /\ CurOK'
    BY DEF PassTypeOK, CurOK, local
  <2> QED
    BY <2>1, <2>2
<1>5. CASE UNCHANGED vars
  <2> USE <1>5 DEF TypeInv, TypeOK, vars, streamVars, tables
  <2>1. StreamTypeOK' /\ TablesTypeOK'
    BY DEF StreamTypeOK, TablesTypeOK
  <2>2. PassTypeOK' /\ CurOK'
    BY DEF PassTypeOK, CurOK, local
  <2> QED
    BY <2>1, <2>2
<1> QED
  BY <1>1, <1>2, <1>3, <1>4, <1>5 DEF Next

(* Type correctness: every table and every pass keeps its type, whatever   *)
(* the interleaving of producers, workers, operator and faults.            *)
THEOREM TypeCorrect == Spec => []TypeOK
<1>1. Init => TypeInv
  BY InitTypes
<1>2. TypeInv /\ [Next]_vars => TypeInv'
  BY StepTypes
<1>3. TypeInv => TypeOK
  BY DEF TypeInv
<1> QED
  BY <1>1, <1>2, <1>3, PTL DEF Spec

------------------------------------------------------------------------------
(* No skips. *)

(* What every step leaves standing: ended transactions stay as they ended, *)
(* a transaction starts at the current instant, completion rows stay and a *)
(* letter leaves only with the completion row of its event in the table.   *)
Grows ==
    /\ clock <= clock'
    /\ \A e \in Events :
         /\ tx[e] \in {"committed", "aborted"} => tx'[e] = tx[e]
         /\ tx[e] # "none" => tx'[e] # "none" /\ at'[e] = at[e]
         /\ tx[e] = "none" /\ tx'[e] # "none" => at'[e] = clock
    /\ delivered \subseteq delivered'
    /\ \A e \in Events : letter[e] # "none" => letter'[e] # "none" \/ e \in delivered'

(* In no step is anything committed, recorded or settled undone. *)
LEMMA GrowsStep ==
    ASSUME TypeInv, \A w \in Workers : ReadInv(w), [Next]_vars
    PROVE  Grows
<1> USE DEF TypeInv, TypeOK, StreamTypeOK, TablesTypeOK
<1>1. CASE Produce /\ UNCHANGED <<tables, handled, faults, pc, local>>
  <2>1. CASE AdvanceClock
    BY <1>1, <2>1, StreamAssumption DEF AdvanceClock, Grows, tables
  <2>2. ASSUME NEW e \in Events,
               Begin(e) \/ Append(e) \/ AlreadyAppended(e) \/ Commit(e) \/ Rollback(e)
        PROVE  Grows
    BY <1>1, <2>2, StreamAssumption
       DEF Begin, Append, AlreadyAppended, Commit, Rollback, Grows, tables
  <2> QED
    BY <1>1, <2>1, <2>2 DEF Produce
<1>2. CASE UNCHANGED <<streamVars, delivered, letter>>
  BY <1>2, StreamAssumption DEF Grows, streamVars
<1>3. ASSUME NEW w \in Workers, tick(w)
      PROVE  Grows
  <2> USE DEF streamVars, Grows
  <2>1. CASE Rerecord(w) \/ recordDelivery(w)
    BY <2>1, StreamAssumption DEF Rerecord, recordDelivery
  <2>2. ASSUME NEW e \in Events, AlreadyRecorded(w, e)
        PROVE  Grows
    BY <2>2, StreamAssumption DEF AlreadyRecorded
  <2>3. CASE resolveDeadLetter(w)
    BY <2>3, StreamAssumption DEF resolveDeadLetter, ReadInv
  <2>4. CASE reparkDeadLetter(w) \/ parkDeadLetter(w)
    BY <2>4, StreamAssumption DEF reparkDeadLetter, parkDeadLetter
  <2>5. CASE \/ blockedLanes(w) \/ requeuedDeadLetters(w) \/ Rehandle(w)
             \/ Redelivered(w) \/ Load(w) \/ ReadHorizon(w) \/ pollStream(w)
             \/ recordedDeliveries(w) \/ recordedDeadLetters(w) \/ Handle(w)
             \/ Save(w)
    BY <2>5, <1>2
       DEF blockedLanes, requeuedDeadLetters, Rehandle, Redelivered, Load,
           ReadHorizon, pollStream, recordedDeliveries, recordedDeadLetters,
           Handle, Save, tables
  <2>6. ASSUME NEW e \in Events,
               \/ RecheckFails(w, e) \/ NotRecorded(w, e) \/ PassOver(w, e)
               \/ PassParked(w, e) \/ Hold(w, e) \/ Take(w, e)
        PROVE  Grows
    BY <2>6, <1>2
       DEF RecheckFails, NotRecorded, PassOver, PassParked, Hold, Take, tables
  <2> QED
    BY <1>3, <2>1, <2>2, <2>3, <2>4, <2>5, <2>6 DEF tick
<1>4. ASSUME NEW w \in Workers, Abort(w)
      PROVE  Grows
  BY <1>4, <1>2 DEF Abort, tables
<1>5. ASSUME NEW e \in Events, Requeue(e)
      PROVE  Grows
  BY <1>5, StreamAssumption DEF Requeue, Grows, streamVars
<1> QED
  BY <1>1, <1>2, <1>3, <1>4, <1>5 DEF Next, vars, tables

(* So no transaction started later than now. *)
LEMMA StartedStable ==
    ASSUME TypeInv, TypeInv', StartedByNow, Grows
    PROVE  StartedByNow'
BY StreamAssumption DEF TypeInv, TypeOK, StreamTypeOK, StartedByNow, Grows

(* A safe position stays safe: a transaction that starts later lies past   *)
(* it, and what accounts for an event is never taken back.                 *)
LEMMA AccountedStable ==
    ASSUME TypeInv, Grows, NEW e \in Events, Accounted(e)
    PROVE  Accounted(e)'
BY DEF TypeInv, TypeOK, StreamTypeOK, Grows, Accounted

(* A position that is safe stays so. *)
LEMMA SafeStable ==
    ASSUME TypeInv, TypeInv', StartedByNow, Grows, NEW p \in 0 .. N, Safe(p)
    PROVE  /\ p # 0 => /\ tx'[p] = "committed" /\ at'[p] < clock'
           /\ p # 0 => \A e \in Events : tx'[e] # "none" /\ ~Before(p, e)'
                                        => Accounted(e)'
<1> SUFFICES ASSUME p # 0
             PROVE  /\ tx'[p] = "committed" /\ at'[p] < clock'
                    /\ \A e \in Events : tx'[e] # "none" /\ ~Before(p, e)' => Accounted(e)'
  OBVIOUS
<1> p \in Events
  BY StreamAssumption DEF Events
<1>1. tx[p] = "committed" /\ at[p] < clock
  BY DEF Safe
<1>2. tx'[p] = "committed" /\ at'[p] = at[p] /\ at'[p] < clock'
  BY <1>1, StreamAssumption DEF Grows, TypeInv, TypeOK, StreamTypeOK
<1>3. ASSUME NEW e \in Events, tx'[e] # "none", ~Before(p, e)'
      PROVE  Accounted(e)'
  <2>1. tx[e] # "none"
    BY <1>1, <1>2, <1>3, StreamAssumption
       DEF Grows, Before, TypeInv, TypeOK, StreamTypeOK
  <2>2. ~Before(p, e)
    BY <1>2, <1>3, <2>1 DEF Grows, Before
  <2>3. Accounted(e)
    BY <2>1, <2>2 DEF Safe
  <2> QED
    BY <2>3, AccountedStable
<1> QED
  BY <1>2, <1>3

(* A pass that did not take the step keeps what it holds. *)
Kept(v) ==
    /\ pc'[v] = pc[v] /\ openSince'[v] = openSince[v] /\ batch'[v] = batch[v]
    /\ unsettled'[v] = unsettled[v] /\ done'[v] = done[v] /\ parked'[v] = parked[v]
    /\ cur'[v] = cur[v] /\ watermark'[v] = watermark[v]
    /\ advancing'[v] = advancing[v]

(* A worker that ends its pass leaves the others alone. *)
LEMMA FinishKeeps ==
    ASSUME TypeInv, NEW w \in Workers, NEW v \in Workers \ {w}, Finish(w)
    PROVE  Kept(v)
BY DEF TypeInv, TypeOK, PassTypeOK, Finish, Goto, Kept

(* And so does one in the middle of it. *)
LEMMA TickKeeps ==
    ASSUME TypeInv, NEW w \in Workers, NEW v \in Workers \ {w}, tick(w)
    PROVE  Kept(v)
<1> USE DEF TypeInv, TypeOK, PassTypeOK, Kept, Goto
<1>1. CASE blockedLanes(w) \/ requeuedDeadLetters(w)
  BY <1>1 DEF blockedLanes, requeuedDeadLetters
<1>2. ASSUME NEW e \in Events,
             RecheckFails(w, e) \/ AlreadyRecorded(w, e) \/ NotRecorded(w, e)
      PROVE  Kept(v)
  BY <1>2 DEF RecheckFails, AlreadyRecorded, NotRecorded
<1>3. CASE Rehandle(w) \/ Handle(w)
  BY <1>3 DEF Rehandle, Handle, attemptDelivery
<1>4. CASE reparkDeadLetter(w) \/ Rerecord(w) \/ resolveDeadLetter(w) \/ Redelivered(w)
  BY <1>4 DEF reparkDeadLetter, Rerecord, resolveDeadLetter, Redelivered, local
<1>5. CASE Load(w) \/ ReadHorizon(w)
  BY <1>5 DEF Load, ReadHorizon
<1>6. CASE pollStream(w)
  BY <1>6, FinishKeeps DEF pollStream
<1>7. CASE recordedDeliveries(w) \/ recordedDeadLetters(w)
  BY <1>7 DEF recordedDeliveries, recordedDeadLetters
<1>8. ASSUME NEW e \in Events, PassOver(w, e) \/ PassParked(w, e)
      PROVE  Kept(v)
  BY <1>8 DEF PassOver, PassParked, NextRow, pass
<1>9. ASSUME NEW e \in Events, Hold(w, e) \/ Take(w, e)
      PROVE  Kept(v)
  BY <1>9 DEF Hold, Take, NextRow, Pin
<1>10. CASE parkDeadLetter(w)
  BY <1>10 DEF parkDeadLetter, pass, Pin
<1>11. CASE recordDelivery(w)
  BY <1>11 DEF recordDelivery, pass, Pin
<1>12. CASE Save(w)
  BY <1>12, FinishKeeps DEF Save
<1> QED
  BY <1>1, <1>2, <1>3, <1>4, <1>5, <1>6, <1>7, <1>8, <1>9, <1>10, <1>11, <1>12
     DEF tick

(* The rows of a batch keep what is known of them. *)
LEMMA RowsKept ==
    ASSUME TypeInv, TypeInv', StartedByNow, Grows, NEW v \in Workers, WorkerInv(v),
           MayAdvance(v), Ahead(v)' = Ahead(v), unsettled'[v] = unsettled[v],
           watermark'[v] = watermark[v]
    PROVE  RowsInv(v)' /\ \A e \in Ahead(v) : at'[e] = at[e]
<1>1. RowsInv(v) /\ Safe(watermark[v])
  BY DEF WorkerInv, BatchInv
<1>2. Ahead(v) \subseteq Events
  BY DEF Ahead, InHand, TypeInv, TypeOK, PassTypeOK, CurOK, Handling
<1>3. watermark[v] \in 0 .. N
  BY DEF TypeInv, TypeOK, PassTypeOK
<1>4. \A f \in Events : tx[f] # "none" => (After(f, watermark[v])' <=> After(f, watermark[v]))
  <2>1. watermark[v] # 0 => watermark[v] \in Events /\ at'[watermark[v]] = at[watermark[v]]
    BY <1>1, <1>3, StreamAssumption DEF Safe, Grows, Events
  <2> QED
    BY <2>1 DEF Grows, After, Before
<1>5. ASSUME NEW e \in Ahead(v)
      PROVE  /\ tx'[e] = "committed" /\ at'[e] = at[e]
             /\ After(e, watermark[v])'
             /\ e \notin unsettled'[v] => at'[e] < clock' /\ Sealed(v, e)'
  <2>1. /\ tx[e] = "committed" /\ After(e, watermark[v])
        /\ e \notin unsettled[v] => at[e] < clock /\ Sealed(v, e)
    BY <1>1 DEF RowsInv
  <2>2. tx'[e] = "committed" /\ at'[e] = at[e]
    BY <1>2, <2>1 DEF Grows
  <2>3. ASSUME e \notin unsettled[v]
        PROVE  at'[e] < clock' /\ Sealed(v, e)'
    <3>1. at'[e] < clock'
      BY <1>2, <2>1, <2>2, <2>3, StreamAssumption
         DEF Grows, TypeInv, TypeOK, StreamTypeOK
    <3>2. ASSUME NEW f \in Events, tx'[f] # "none", ~Before(e, f)'
          PROVE  \/ tx'[f] = "aborted"
                 \/ tx'[f] = "committed" /\ (~After(f, watermark[v])' \/ f \in Ahead(v)')
      <4>1. tx[f] # "none"
        BY <1>2, <2>1, <2>2, <2>3, <3>2, StreamAssumption
           DEF Grows, Before, TypeInv, TypeOK, StreamTypeOK
      <4>2. ~Before(e, f)
        BY <1>2, <2>2, <3>2, <4>1 DEF Grows, Before
      <4>3. \/ tx[f] = "aborted"
            \/ tx[f] = "committed" /\ (~After(f, watermark[v]) \/ f \in Ahead(v))
        BY <2>1, <2>3, <4>1, <4>2 DEF Sealed
      <4> QED
        BY <1>4, <4>1, <4>3 DEF Grows
    <3> QED
      BY <3>1, <3>2 DEF Sealed
  <2> QED
    BY <1>2, <1>4, <2>1, <2>2, <2>3
<1> QED
  BY <1>5 DEF RowsInv

(* A horizon that was read bounds what is open until the poll. *)
LEMMA HorizonKept ==
    ASSUME TypeInv, TypeInv', Grows, NEW v \in Workers, HorizonInv(v),
           pc'[v] = "poll" => pc[v] = "poll" /\ openSince'[v] = openSince[v]
    PROVE  HorizonInv(v)'
<1> SUFFICES ASSUME pc[v] = "poll", openSince'[v] = openSince[v]
             PROVE  /\ openSince[v] <= clock'
                    /\ \A f \in Running' : openSince[v] <= at'[f]
  BY DEF HorizonInv
<1>1. openSince[v] \in Nat /\ clock \in Nat /\ clock' \in Nat
  BY StreamAssumption DEF TypeInv, TypeOK, StreamTypeOK, PassTypeOK
<1>2. openSince[v] <= clock /\ \A f \in Running : openSince[v] <= at[f]
  BY DEF HorizonInv
<1>3. ASSUME NEW f \in Running'
      PROVE  openSince[v] <= at'[f]
  <2>1. f \in Events /\ tx'[f] \in {"open", "appended"}
    BY DEF Running
  <2>2. CASE tx[f] = "none"
    BY <1>2, <2>1, <2>2 DEF Grows
  <2>3. CASE tx[f] # "none"
    <3>1. f \in Running
      BY <2>1, <2>3 DEF Grows, Running, TypeInv, TypeOK, StreamTypeOK
    <3> QED
      BY <1>2, <2>1, <2>3, <3>1 DEF Grows
  <2> QED
    BY <2>2, <2>3
<1> QED
  BY <1>1, <1>2, <1>3 DEF Grows

(* What a worker knows stays true while others act. *)
LEMMA KeptInv ==
    ASSUME TypeInv, TypeInv', StartedByNow, Grows, NEW v \in Workers, Kept(v),
           WorkerInv(v)
    PROVE  WorkerInv(v)'
<1>1. Safe(watermark[v])'
  <2>1. watermark[v] \in 0 .. N
    BY DEF TypeInv, TypeOK, PassTypeOK
  <2> QED
    BY <2>1, SafeStable DEF Kept, Safe, WorkerInv
<1>2. BatchInv(v)'
  <2> SUFFICES ASSUME MayAdvance(v)'
               PROVE  RowsInv(v)' /\ (InHand(v)' => HandInv(v)')
    BY DEF BatchInv
  <2>1. MayAdvance(v) /\ Ahead(v)' = Ahead(v) /\ InHand(v)' = InHand(v)
    BY DEF Kept, MayAdvance, Ahead, InHand
  <2>2. RowsInv(v)' /\ \A e \in Ahead(v) : at'[e] = at[e]
    BY <2>1, RowsKept DEF Kept
  <2>3. InHand(v) => HandInv(v)'
    BY <2>1, <2>2 DEF WorkerInv, BatchInv, HandInv, Kept, Before, Ahead
  <2> QED
    BY <2>1, <2>2, <2>3
<1>3. HorizonInv(v)'
  BY HorizonKept DEF WorkerInv, Kept
<1>4. ReadInv(v)'
  BY DEF WorkerInv, ReadInv, Kept, Grows, TypeInv, TypeOK, PassTypeOK
<1> QED
  BY <1>1, <1>2, <1>3, <1>4 DEF WorkerInv

(* A pass that cannot move its watermark any more, or has none yet. *)
LEMMA QuietInv ==
    ASSUME TypeInv, TypeInv', StartedByNow, Grows, Safe(checkpoint),
           NEW w \in Workers, WorkerInv(w),
           watermark'[w] \in {watermark[w], checkpoint, 0},
           ~MayAdvance(w)', pc'[w] # "poll",
           pc'[w] = "reresolve" => cur'[w] \in delivered',
           done'[w] \in {done[w], {}}, parked'[w] \in {parked[w], {}}
    PROVE  WorkerInv(w)'
<1>1. Safe(watermark[w])'
  <2>1. watermark[w] \in 0 .. N /\ checkpoint \in 0 .. N
    BY DEF TypeInv, TypeOK, PassTypeOK, TablesTypeOK
  <2>2. CASE watermark'[w] = 0
    BY <2>2 DEF Safe
  <2>3. CASE watermark'[w] = checkpoint
    BY <2>1, <2>3, SafeStable DEF Safe
  <2>4. CASE watermark'[w] = watermark[w]
    BY <2>1, <2>4, SafeStable DEF Safe, WorkerInv
  <2> QED
    BY <2>2, <2>3, <2>4
<1>2. BatchInv(w)' /\ HorizonInv(w)'
  BY DEF BatchInv, HorizonInv
<1>3. ReadInv(w)'
  BY DEF WorkerInv, ReadInv, Grows, TypeInv, TypeOK, PassTypeOK
<1> QED
  BY <1>1, <1>2, <1>3 DEF WorkerInv

(* A worker that ended its pass knows nothing. *)
LEMMA FinishInv ==
    ASSUME TypeInv, TypeInv', StartedByNow, Grows, Safe(checkpoint),
           NEW w \in Workers, WorkerInv(w), Finish(w)
    PROVE  WorkerInv(w)'
<1>1. /\ watermark'[w] = 0 /\ pc'[w] = "idle" /\ done'[w] = {} /\ parked'[w] = {}
  BY DEF TypeInv, TypeOK, PassTypeOK, Finish, Goto
<1>2. ~MayAdvance(w)'
  BY <1>1 DEF MayAdvance, Visiting
<1> QED
  BY <1>1, <1>2, QuietInv

(* The watermark moves over the first row ahead, which is settled and      *)
(* accounted for: the position it reaches is safe, and what is left of the *)
(* batch still has everything that lies in front of a settled row.         *)
LEMMA AdvanceInv ==
    ASSUME TypeInv, TypeInv', StartedByNow, Grows, NEW w \in Workers, WorkerInv(w),
           MayAdvance(w), NEW e \in Ahead(w), e \notin unsettled[w],
           \A g \in Ahead(w) \ {e} : Before(e, g),
           Accounted(e)', pc'[w] = "row", batch'[w] = Ahead(w) \ {e},
           unsettled'[w] = unsettled[w], watermark'[w] = e
    PROVE  Safe(watermark[w])' /\ BatchInv(w)'
<1>1. RowsInv(w) /\ Safe(watermark[w])
  BY DEF WorkerInv, BatchInv
<1>2. Ahead(w) \subseteq Events
  BY DEF Ahead, InHand, TypeInv, TypeOK, PassTypeOK, CurOK, Handling
<1>3. watermark[w] \in 0 .. N /\ (watermark[w] # 0 => watermark[w] \in Events)
  BY StreamAssumption DEF TypeInv, TypeOK, PassTypeOK, Events
<1>4. /\ \A x \in Events : at[x] \in Nat /\ at'[x] \in Nat /\ x \in Nat \ {0}
      /\ clock \in Nat /\ clock' \in Nat /\ clock <= clock'
      /\ e \in Events
  <2>1. \A x \in Events : x \in Nat \ {0}
    BY StreamAssumption DEF Events
  <2>2. \A x \in Events : at[x] \in Nat /\ at'[x] \in Nat
    BY StreamAssumption DEF TypeInv, TypeOK, StreamTypeOK
  <2>3. clock \in Nat /\ clock' \in Nat /\ clock <= clock'
    BY StreamAssumption DEF TypeInv, TypeOK, StreamTypeOK, Grows
  <2> QED
    BY <1>2, <2>1, <2>2, <2>3
<1>5. \A g \in Ahead(w) : tx[g] = "committed" /\ tx'[g] = "committed" /\ at'[g] = at[g]
  BY <1>1, <1>2 DEF RowsInv, Grows
<1>6. at[e] < clock /\ Sealed(w, e) /\ After(e, watermark[w])
  BY <1>1 DEF RowsInv
<1>7. ASSUME NEW g \in Ahead(w), at[g] < clock, NEW f \in Events, tx'[f] # "none", ~Before(g, f)'
      PROVE  tx[f] # "none" /\ ~Before(g, f) /\ at'[f] = at[f]
  <2>1. tx[f] # "none"
    BY <1>2, <1>4, <1>5, <1>7 DEF Grows, Before
  <2> QED
    BY <1>2, <1>5, <1>7, <2>1 DEF Grows, Before
<1>8. Safe(watermark[w])'
  <2>1. tx'[e] = "committed" /\ at'[e] < clock'
    BY <1>4, <1>5, <1>6
  <2>2. ASSUME NEW f \in Events, tx'[f] # "none", ~Before(e, f)'
        PROVE  Accounted(f)'
    <3>1. tx[f] # "none" /\ ~Before(e, f)
      BY <1>6, <1>7, <2>2
    <3>2. CASE f = e
      BY <3>2
    <3>3. CASE f # e /\ tx[f] = "aborted"
      BY <3>3, AccountedStable DEF Accounted
    <3>4. CASE f # e /\ tx[f] = "committed" /\ ~After(f, watermark[w])
      <4>1. Accounted(f)
        BY <1>1, <3>1, <3>4 DEF Safe, After
      <4> QED
        BY <4>1, AccountedStable
    <3>5. CASE f # e /\ f \in Ahead(w)
      BY <3>1, <3>5
    <3> QED
      BY <1>6, <3>1, <3>2, <3>3, <3>4, <3>5 DEF Sealed
  <2> QED
    BY <2>1, <2>2 DEF Safe
<1>9. BatchInv(w)'
  <2>1. ~InHand(w)' /\ Ahead(w)' = Ahead(w) \ {e}
    BY DEF InHand, Ahead
  <2>2. ASSUME NEW g \in Ahead(w) \ {e}
        PROVE  /\ tx'[g] = "committed"
               /\ After(g, watermark[w])'
               /\ g \notin unsettled'[w] => at'[g] < clock' /\ Sealed(w, g)'
    <3>1. Before(e, g)' /\ After(g, watermark[w])'
      BY <1>5 DEF Before, After
    <3>2. ASSUME g \notin unsettled[w]
          PROVE  at'[g] < clock' /\ Sealed(w, g)'
      <4>1. at[g] < clock /\ Sealed(w, g)
        BY <1>1, <3>2 DEF RowsInv
      <4>2. at'[g] < clock'
        BY <1>2, <1>4, <1>5, <4>1
      <4>3. ASSUME NEW f \in Events, tx'[f] # "none", ~Before(g, f)'
            PROVE  \/ tx'[f] = "aborted"
                   \/ tx'[f] = "committed" /\ (~After(f, watermark[w])' \/ f \in Ahead(w)')
        <5>1. tx[f] # "none" /\ ~Before(g, f) /\ at'[f] = at[f]
          BY <1>7, <4>1, <4>3
        <5>2. CASE tx[f] = "aborted"
          BY <5>2 DEF Grows
        <5>3. CASE tx[f] = "committed" /\ ~After(f, watermark[w])
          <6>1. watermark[w] \in Events /\ ~Before(watermark[w], f) /\ Before(watermark[w], e)
            BY <1>3, <1>6, <5>3 DEF After
          <6>2. ~Before(e, f)
            BY <1>4, <6>1 DEF Before
          <6>3. ~After(f, watermark[w])'
            BY <1>4, <1>5, <5>1, <6>2 DEF Before, After
          <6> QED
            BY <5>3, <6>3 DEF Grows
        <5>4. CASE tx[f] = "committed" /\ f \in Ahead(w)
          <6>1. CASE f = e
            BY <1>4, <1>5, <5>4, <6>1 DEF Before, After
          <6> QED
            BY <2>1, <5>4, <6>1 DEF Grows
        <5> QED
          BY <4>1, <5>1, <5>2, <5>3, <5>4 DEF Sealed
      <4> QED
        BY <4>2, <4>3 DEF Sealed
    <3> QED
      BY <1>5, <3>1, <3>2
  <2> QED
    BY <2>1, <2>2 DEF BatchInv, RowsInv
<1> QED
  BY <1>8, <1>9

(* The rows a poll returns are those up to some point: whatever is         *)
(* readable past the checkpoint and in front of one of them is among them. *)
LEMMA PollRowsClosed ==
    ASSUME TypeInv, NEW cp, NEW limit \in Nat, NEW e \in PollRows(cp, limit),
           NEW f \in Committed, After(f, cp), Before(f, e)
    PROVE  f \in PollRows(cp, limit)
<1> DEFINE rows == {g \in Committed : After(g, cp)}
           upTo(g) == {h \in rows : Before(h, g)}
<1>1. IsFiniteSet(rows)
  <2>1. IsFiniteSet(Events)
    BY StreamAssumption, FS_Interval DEF Events
  <2> QED
    BY <2>1, FS_Subset DEF Committed
<1>2. IsFiniteSet(upTo(e)) /\ upTo(f) \subseteq upTo(e)
  <2>1. upTo(e) \subseteq rows
    OBVIOUS
  <2>2. \A x \in Events : at[x] \in Nat /\ x \in Nat
    BY StreamAssumption DEF TypeInv, TypeOK, StreamTypeOK, Events
  <2>3. e \in Events /\ f \in Events /\ rows \subseteq Events
    BY DEF PollRows, Committed
  <2>4. \A h \in rows : Before(h, f) => Before(h, e)
    BY <2>2, <2>3 DEF Before
  <2> QED
    BY <1>1, <2>1, <2>4, FS_Subset
<1>3. Cardinality(upTo(f)) <= Cardinality(upTo(e))
  BY <1>2, FS_Subset
<1>4. Cardinality(upTo(e)) < limit /\ f \in rows
  BY DEF PollRows
<1>5. Cardinality(upTo(f)) \in Nat /\ Cardinality(upTo(e)) \in Nat
  BY <1>2, FS_Subset, FS_CardinalityType
<1>6. Cardinality(upTo(f)) < limit
  BY <1>3, <1>4, <1>5
<1> QED
  BY <1>4, <1>6 DEF PollRows

(* A settled row: the horizon was read before the rows, so what was open   *)
(* then, or opened since, started no earlier than the horizon.             *)
LEMMA PollInv ==
    ASSUME TypeInv, TypeInv', StartedByNow, Grows, NEW w \in Workers, WorkerInv(w),
           UNCHANGED streamVars, pc[w] = "poll", pc'[w] = "deliveries",
           batch'[w] = PollRows(watermark[w], BatchSize),
           unsettled'[w] = {e \in PollRows(watermark[w], BatchSize) :
                              ~Settled(e, openSince[w])},
           watermark'[w] = watermark[w]
    PROVE  BatchInv(w)'
<1> DEFINE rows == PollRows(watermark[w], BatchSize)
<1>1. ~InHand(w)' /\ Ahead(w)' = rows
  BY DEF InHand, Ahead
<1>2. openSince[w] <= clock /\ \A f \in Running : openSince[w] <= at[f]
  BY DEF WorkerInv, HorizonInv
<1>3. /\ \A x \in Events : at[x] \in Nat /\ x \in Nat
      /\ clock \in Nat /\ openSince[w] \in Nat
  <2>1. \A x \in Events : at[x] \in Nat /\ x \in Nat
    BY StreamAssumption DEF TypeInv, TypeOK, StreamTypeOK, Events
  <2>2. clock \in Nat /\ openSince[w] \in Nat
    BY StreamAssumption DEF TypeInv, TypeOK, StreamTypeOK, PassTypeOK
  <2> QED
    BY <2>1, <2>2
<1>4. at' = at /\ tx' = tx /\ clock' = clock
  BY DEF streamVars
<1>5. ASSUME NEW e \in rows
      PROVE  /\ tx[e] = "committed" /\ e \in Events
             /\ After(e, watermark[w])
             /\ e \notin unsettled'[w] => at[e] < clock /\ Sealed(w, e)'
  <2>1. tx[e] = "committed" /\ e \in Events /\ After(e, watermark[w])
    BY DEF PollRows, Committed
  <2>2. ASSUME e \notin unsettled'[w]
        PROVE  at[e] < clock /\ Sealed(w, e)'
    <3>1. at[e] < openSince[w]
      BY <2>2 DEF Settled
    <3>2. at[e] < clock
      BY <1>2, <1>3, <2>1, <3>1
    <3>3. ASSUME NEW f \in Events, tx[f] # "none", ~Before(e, f)
          PROVE  \/ tx[f] = "aborted"
                 \/ tx[f] = "committed" /\ (~After(f, watermark[w]) \/ f \in rows)
      <4>1. f \notin Running
        BY <1>2, <1>3, <2>1, <3>1, <3>3 DEF Before
      <4>2. tx[f] \in {"committed", "aborted"}
        BY <3>3, <4>1 DEF Running, TypeInv, TypeOK, StreamTypeOK
      <4>3. CASE tx[f] = "committed" /\ After(f, watermark[w]) /\ f # e
        <5>1. Before(f, e)
          BY <1>3, <2>1, <3>3, <4>3 DEF Before
        <5>2. f \in Committed
          BY <4>3 DEF Committed
        <5> QED
          BY <4>3, <5>1, <5>2, PollRowsClosed, RegistryAssumption
      <4> QED
        BY <4>2, <4>3
    <3>4. Sealed(w, e)'
      BY <1>1, <1>4, <3>3 DEF Sealed, Before, After
    <3> QED
      BY <3>2, <3>4
  <2> QED
    BY <2>1, <2>2
<1>6. RowsInv(w)'
  BY <1>1, <1>4, <1>5 DEF RowsInv, After, Before
<1> QED
  BY <1>1, <1>6 DEF BatchInv

(* The steps of a pass up to the poll: the watermark is not moved. *)
LEMMA RedeliverInv ==
    ASSUME TypeInv, TypeInv', StartedByNow, Grows, Safe(checkpoint),
           NEW w \in Workers, WorkerInv(w),
           \/ blockedLanes(w) \/ requeuedDeadLetters(w) \/ Rehandle(w)
           \/ reparkDeadLetter(w) \/ Rerecord(w) \/ resolveDeadLetter(w)
           \/ Redelivered(w) \/ Load(w)
           \/ \E e \in Events :
                RecheckFails(w, e) \/ AlreadyRecorded(w, e) \/ NotRecorded(w, e)
    PROVE  WorkerInv(w)'
<1> USE DEF TypeInv, TypeOK, PassTypeOK
<1>1. /\ watermark'[w] \in {watermark[w], checkpoint}
      /\ done'[w] = done[w] /\ parked'[w] = parked[w]
      /\ pc'[w] \in {"requeued", "load", "horizon"} \cup Redelivering
  <2>1. CASE blockedLanes(w) \/ requeuedDeadLetters(w) \/ Load(w) \/ Redelivered(w)
    BY <2>1 DEF blockedLanes, requeuedDeadLetters, Load, Redelivered, Goto, local,
                Redelivering
  <2>2. CASE Rehandle(w)
    BY <2>2 DEF Rehandle, attemptDelivery, Goto, Redelivering
  <2>3. CASE reparkDeadLetter(w) \/ Rerecord(w) \/ resolveDeadLetter(w)
    BY <2>3 DEF reparkDeadLetter, Rerecord, resolveDeadLetter, Goto, local, Redelivering
  <2>4. ASSUME NEW e \in Events,
               RecheckFails(w, e) \/ AlreadyRecorded(w, e) \/ NotRecorded(w, e)
        PROVE  /\ watermark'[w] \in {watermark[w], checkpoint}
               /\ done'[w] = done[w] /\ parked'[w] = parked[w]
               /\ pc'[w] \in {"requeued", "load", "horizon"} \cup Redelivering
    BY <2>4 DEF RecheckFails, AlreadyRecorded, NotRecorded, Goto, Redelivering
  <2> QED
    BY <2>1, <2>2, <2>3, <2>4
<1>2. pc'[w] = "reresolve" => cur'[w] \in delivered'
  BY DEF blockedLanes, requeuedDeadLetters, Rehandle, attemptDelivery, reparkDeadLetter,
         Rerecord, resolveDeadLetter, Redelivered, Load, RecheckFails, AlreadyRecorded,
         NotRecorded, Goto
<1>3. ~MayAdvance(w)' /\ pc'[w] # "poll"
  BY <1>1 DEF MayAdvance, Visiting, Redelivering
<1> QED
  BY <1>1, <1>2, <1>3, QuietInv

(* Reading the horizon, the rows and what is recorded of them. *)
LEMMA DrainInv ==
    ASSUME TypeInv, TypeInv', StartedByNow, Grows, Safe(checkpoint),
           NEW w \in Workers, WorkerInv(w),
           \/ ReadHorizon(w) \/ pollStream(w)
           \/ recordedDeliveries(w) \/ recordedDeadLetters(w)
    PROVE  WorkerInv(w)'
<1> USE DEF TypeInv, TypeOK, PassTypeOK
<1>0. watermark'[w] = watermark[w] => Safe(watermark[w])'
  BY SafeStable DEF Safe, WorkerInv
<1>1. CASE ReadHorizon(w)
  <2>1. /\ pc'[w] = "poll" /\ watermark'[w] = watermark[w]
        /\ done'[w] = done[w] /\ parked'[w] = parked[w]
        /\ UNCHANGED <<clock, tx, at, delivered, letter>>
    BY <1>1 DEF ReadHorizon, Goto, streamVars, tables
  <2>2. oldestOpenTransaction(openSince'[w])
    BY <1>1 DEF ReadHorizon
  <2>3. openSince'[w] <= clock /\ \A f \in Running : openSince'[w] <= at[f]
    BY <2>2, StreamAssumption
       DEF oldestOpenTransaction, StartedByNow, Running, StreamTypeOK
  <2>4. HorizonInv(w)'
    BY <2>1, <2>3 DEF HorizonInv, Running
  <2>5. BatchInv(w)'
    BY <2>1 DEF BatchInv, MayAdvance, Visiting
  <2>6. ReadInv(w)'
    BY <2>1 DEF ReadInv, WorkerInv
  <2> QED
    BY <1>0, <2>1, <2>4, <2>5, <2>6 DEF WorkerInv
<1>2. CASE pollStream(w)
  <2>1. CASE PollRows(watermark[w], BatchSize) = {}
    BY <1>2, <2>1, FinishInv DEF pollStream
  <2>2. CASE PollRows(watermark[w], BatchSize) # {}
    <3>1. /\ pc[w] = "poll" /\ pc'[w] = "deliveries" /\ watermark'[w] = watermark[w]
          /\ done'[w] = done[w] /\ parked'[w] = parked[w]
          /\ UNCHANGED <<streamVars, delivered, letter>>
          /\ batch'[w] = PollRows(watermark[w], BatchSize)
          /\ unsettled'[w] = {e \in PollRows(watermark[w], BatchSize) :
                                ~Settled(e, openSince[w])}
      BY <1>2, <2>2 DEF pollStream, Goto, tables
    <3>2. BatchInv(w)'
      BY <3>1, PollInv
    <3>3. HorizonInv(w)' /\ ReadInv(w)'
      BY <3>1 DEF HorizonInv, ReadInv, WorkerInv
    <3> QED
      BY <1>0, <3>1, <3>2, <3>3 DEF WorkerInv
  <2> QED
    BY <2>1, <2>2
<1>3. CASE recordedDeliveries(w) \/ recordedDeadLetters(w)
  <2>1. /\ pc[w] \in {"deliveries", "letters"} /\ pc'[w] \in {"letters", "row"}
        /\ watermark'[w] = watermark[w] /\ batch'[w] = batch[w]
        /\ unsettled'[w] = unsettled[w]
        /\ UNCHANGED <<streamVars, delivered, letter>>
    BY <1>3 DEF recordedDeliveries, recordedDeadLetters, Goto, tables
  <2>2. MayAdvance(w) /\ ~InHand(w)' /\ Ahead(w)' = Ahead(w)
    BY <2>1 DEF MayAdvance, InHand, Ahead
  <2>3. BatchInv(w)'
    BY <2>1, <2>2, RowsKept DEF BatchInv
  <2>4. HorizonInv(w)'
    BY <2>1 DEF HorizonInv
  <2>5. ReadInv(w)'
    BY <1>3, <2>1 DEF recordedDeliveries, recordedDeadLetters, ReadInv, WorkerInv
  <2> QED
    BY <1>0, <2>1, <2>3, <2>4, <2>5 DEF WorkerInv
<1> QED
  BY <1>1, <1>2, <1>3

(* The loop over the batch: a row in front of which the prefix is          *)
(* contiguous moves the watermark, every other one ends its moving.        *)
LEMMA VisitInv ==
    ASSUME TypeInv, TypeInv', StartedByNow, Grows, Safe(checkpoint),
           NEW w \in Workers, WorkerInv(w), NEW e \in Events,
           PassOver(w, e) \/ PassParked(w, e) \/ Hold(w, e) \/ Take(w, e)
    PROVE  WorkerInv(w)'
<1> USE DEF TypeInv, TypeOK, PassTypeOK
<1>1. /\ pc[w] = "row" /\ e \in batch[w] /\ batch'[w] = batch[w] \ {e}
      /\ \A g \in batch[w] \ {e} : Before(e, g)
      /\ done'[w] = done[w] /\ parked'[w] = parked[w] /\ unsettled'[w] = unsettled[w]
      /\ UNCHANGED <<streamVars, delivered, letter>>
  BY DEF PassOver, PassParked, Hold, Take, NextRow, IsFirst, tables
<1>2. pc'[w] \in {"row", "handle"}
  BY <1>1 DEF PassOver, PassParked, Hold, Take, Goto
<1>3. ~InHand(w) /\ Ahead(w) = batch[w]
  BY <1>1 DEF InHand, Ahead
<1>4. HorizonInv(w)' /\ ReadInv(w)'
  BY <1>1, <1>2 DEF HorizonInv, ReadInv, WorkerInv
<1>5. CASE ~advancing'[w] /\ watermark'[w] = watermark[w]
  <2>1. ~MayAdvance(w)'
    BY <1>2, <1>5 DEF MayAdvance
  <2> QED
    BY <1>1, <1>2, <1>5, <2>1, QuietInv
<1>6. CASE Contiguous(w, e) /\ (PassOver(w, e) \/ PassParked(w, e))
  <2>1. MayAdvance(w) /\ e \notin unsettled[w]
    BY <1>1, <1>6 DEF Contiguous, MayAdvance, Visiting
  <2>2. watermark'[w] = e /\ pc'[w] = "row"
    BY <1>1, <1>6 DEF PassOver, PassParked, pass
  <2>3. tx[e] = "committed"
    BY <1>1, <1>3, <2>1 DEF WorkerInv, BatchInv, RowsInv
  <2>4. e \in Handled => e \in done[w] \/ e \in parked[w]
    BY <1>6 DEF PassOver, PassParked
  <2>5. Accounted(e)
    BY <2>3, <2>4 DEF Accounted, WorkerInv, ReadInv
  <2>6. Accounted(e)'
    BY <2>5, AccountedStable
  <2>7. Safe(watermark[w])' /\ BatchInv(w)'
    BY <1>1, <1>3, <2>1, <2>2, <2>6, AdvanceInv
  <2> QED
    BY <1>4, <2>7 DEF WorkerInv
<1>7. CASE Contiguous(w, e) /\ Take(w, e)
  <2>1. MayAdvance(w) /\ e \notin unsettled[w]
    BY <1>1, <1>7 DEF Contiguous, MayAdvance, Visiting
  <2>2. watermark'[w] = watermark[w] /\ cur'[w] = e /\ pc'[w] = "handle"
    BY <1>7 DEF Take, Goto
  <2>3. InHand(w)' /\ Ahead(w)' = Ahead(w)
    BY <1>1, <1>3, <2>2 DEF InHand, Ahead
  <2>4. RowsInv(w)'
    BY <1>1, <2>1, <2>2, <2>3, RowsKept
  <2>5. HandInv(w)'
    BY <1>1, <2>1, <2>2 DEF HandInv, Before, streamVars
  <2>6. Safe(watermark[w])'
    BY <2>2, SafeStable DEF Safe, WorkerInv
  <2> QED
    BY <1>4, <2>4, <2>5, <2>6 DEF WorkerInv, BatchInv
<1>8. CASE Hold(w, e)
  BY <1>5, <1>8 DEF Hold, Pin
<1>9. CASE ~Contiguous(w, e) /\ ~Hold(w, e)
  BY <1>5, <1>9 DEF PassOver, PassParked, Take, pass
<1> QED
  BY <1>6, <1>7, <1>8, <1>9

(* The row in hand: accepted and recorded, parked, or pinned. *)
LEMMA HandleInv ==
    ASSUME TypeInv, TypeInv', StartedByNow, Grows, Safe(checkpoint),
           NEW w \in Workers, WorkerInv(w),
           Handle(w) \/ parkDeadLetter(w) \/ recordDelivery(w)
    PROVE  WorkerInv(w)'
<1> USE DEF TypeInv, TypeOK, PassTypeOK
<1>0. PICK e \in Events : e = cur[w]
  BY DEF Handle, parkDeadLetter, recordDelivery, CurOK, Handling
<1>1. /\ InHand(w) /\ pc[w] \in Visiting /\ pc'[w] \in Visiting /\ e = cur[w]
      /\ batch'[w] = batch[w] /\ unsettled'[w] = unsettled[w] /\ cur'[w] = e
      /\ done'[w] = done[w] /\ parked'[w] = parked[w]
      /\ UNCHANGED streamVars
  BY <1>0 DEF Handle, attemptDelivery, parkDeadLetter, recordDelivery, Goto, InHand,
         Visiting
<1>2. HorizonInv(w)' /\ ReadInv(w)'
  BY <1>1 DEF HorizonInv, ReadInv, WorkerInv, Grows, Visiting
<1>3. CASE ~advancing'[w] /\ watermark'[w] = watermark[w]
  <2>1. ~MayAdvance(w)' /\ pc'[w] \notin {"poll", "reresolve"}
    BY <1>1, <1>3 DEF MayAdvance, Visiting
  <2> QED
    BY <1>1, <1>3, <2>1, QuietInv
<1>4. CASE Handle(w) /\ advancing[w]
  <2>1. /\ InHand(w)' /\ Ahead(w)' = Ahead(w) /\ watermark'[w] = watermark[w]
    BY <1>1, <1>4 DEF Handle, attemptDelivery, Goto, InHand, Ahead
  <2>2. MayAdvance(w)
    BY <1>1, <1>4 DEF MayAdvance
  <2>3. RowsInv(w)'
    BY <1>1, <2>1, <2>2, RowsKept
  <2>4. HandInv(w)'
    BY <1>1, <2>2 DEF HandInv, Before, streamVars, WorkerInv, BatchInv
  <2>5. Safe(watermark[w])'
    BY <2>1, SafeStable DEF Safe, WorkerInv
  <2> QED
    BY <1>2, <2>3, <2>4, <2>5 DEF WorkerInv, BatchInv
<1>5. CASE advancing[w] /\ pc'[w] = "row" /\ watermark'[w] = e
           /\ (e \in delivered' \/ letter'[e] # "none")
  <2>1. MayAdvance(w)
    BY <1>1, <1>5 DEF MayAdvance
  <2>2. RowsInv(w) /\ HandInv(w) /\ e \in Ahead(w)
    BY <1>1, <2>1 DEF WorkerInv, BatchInv, Ahead
  <2>3. tx'[e] = "committed"
    BY <1>1, <2>2 DEF RowsInv, streamVars
  <2>4. Accounted(e)'
    BY <1>5, <2>3 DEF Accounted
  <2>5. e \notin batch[w]
    <3>1. e \in Nat /\ at[e] \in Nat
      BY StreamAssumption DEF StreamTypeOK, Events
    <3>2. ~Before(e, e)
      BY <3>1 DEF Before
    <3> QED
      BY <1>0, <2>2, <3>2 DEF HandInv
  <2>6. batch'[w] = Ahead(w) \ {e} /\ \A g \in Ahead(w) \ {e} : Before(e, g)
    BY <1>1, <2>2, <2>5 DEF Ahead, HandInv
  <2>7. Safe(watermark[w])' /\ BatchInv(w)'
    BY <1>1, <1>5, <2>1, <2>2, <2>4, <2>6, AdvanceInv DEF HandInv
  <2> QED
    BY <1>2, <2>7 DEF WorkerInv
<1>6. CASE Handle(w)
  BY <1>3, <1>4, <1>6 DEF Handle
<1>7. CASE parkDeadLetter(w)
  <2>1. CASE watermark'[w] = watermark[w] /\ ~advancing'[w]
    BY <1>3, <2>1
  <2>2. CASE pass(w, e, advancing[w]) /\ letter' = [letter EXCEPT ![e] = "parked"]
    <3>1. letter'[e] = "parked" /\ pc'[w] = "row"
      BY <1>1, <1>7, <2>2 DEF parkDeadLetter, Goto, TablesTypeOK
    <3>2. CASE advancing[w]
      BY <1>5, <2>2, <3>1, <3>2 DEF pass
    <3>3. CASE ~advancing[w]
      BY <1>3, <2>2, <3>3 DEF pass
    <3> QED
      BY <3>2, <3>3
  <2> QED
    BY <1>1, <1>7, <2>1, <2>2 DEF parkDeadLetter, Pin
<1>8. CASE recordDelivery(w)
  <2>1. CASE watermark'[w] = watermark[w] /\ ~advancing'[w]
    BY <1>3, <2>1
  <2>2. CASE pass(w, e, advancing[w]) /\ delivered' = delivered \cup {e}
    <3>1. e \in delivered' /\ pc'[w] = "row"
      BY <1>8, <2>2 DEF recordDelivery, Goto
    <3>2. CASE advancing[w]
      BY <1>5, <2>2, <3>1, <3>2 DEF pass
    <3>3. CASE ~advancing[w]
      BY <1>3, <2>2, <3>3 DEF pass
    <3> QED
      BY <3>2, <3>3
  <2> QED
    BY <1>1, <1>8, <2>1, <2>2 DEF recordDelivery, Pin
<1> QED
  BY <1>6, <1>7, <1>8

(* Every step keeps the invariant. *)
LEMMA StepInv ==
    ASSUME IInv, [Next]_vars
    PROVE  IInv'
<1> USE DEF IInv
<1>1. TypeInv'
  BY StepTypes
<1>2. Grows
  BY GrowsStep DEF WorkerInv
<1>3. StartedByNow'
  BY <1>1, <1>2, StartedStable
<1>4. checkpoint \in 0 .. N
  BY DEF TypeInv, TypeOK, TablesTypeOK
<1>5. checkpoint' = checkpoint => Safe(checkpoint)'
  BY <1>1, <1>2, <1>4, SafeStable DEF Safe
<1>6. ASSUME NEW w \in Workers, Save(w)
      PROVE  Safe(checkpoint)'
  <2>1. watermark[w] \in 0 .. N /\ Safe(watermark[w])
    BY DEF TypeInv, TypeOK, PassTypeOK, WorkerInv
  <2>2. checkpoint' = watermark[w] => Safe(checkpoint)'
    BY <1>1, <1>2, <2>1, SafeStable DEF Safe
  <2> QED
    BY <1>5, <1>6, <2>2 DEF Save
<1>7. CASE Produce /\ UNCHANGED <<tables, handled, faults, pc, local>>
  <2>1. \A v \in Workers : Kept(v)
    BY <1>7 DEF Kept, local
  <2>2. \A v \in Workers : WorkerInv(v)'
    BY <1>1, <1>2, <2>1, KeptInv
  <2> QED
    BY <1>1, <1>3, <1>5, <1>7, <2>2 DEF tables
<1>8. ASSUME NEW w \in Workers, tick(w)
      PROVE  IInv'
  <2>1. \A v \in Workers \ {w} : WorkerInv(v)'
    BY <1>1, <1>2, <1>8, TickKeeps, KeptInv
  <2>2. WorkerInv(w)
    OBVIOUS
  <2>3. ASSUME \/ blockedLanes(w) \/ requeuedDeadLetters(w) \/ Rehandle(w)
               \/ reparkDeadLetter(w) \/ Rerecord(w) \/ resolveDeadLetter(w)
               \/ Redelivered(w) \/ Load(w)
               \/ \E e \in Events :
                    RecheckFails(w, e) \/ AlreadyRecorded(w, e) \/ NotRecorded(w, e)
        PROVE  WorkerInv(w)'
    BY <1>1, <1>2, <2>2, <2>3, RedeliverInv
  <2>4. ASSUME \/ ReadHorizon(w) \/ pollStream(w)
               \/ recordedDeliveries(w) \/ recordedDeadLetters(w)
        PROVE  WorkerInv(w)'
    BY <1>1, <1>2, <2>2, <2>4, DrainInv
  <2>5. ASSUME NEW e \in Events,
               PassOver(w, e) \/ PassParked(w, e) \/ Hold(w, e) \/ Take(w, e)
        PROVE  WorkerInv(w)'
    BY <1>1, <1>2, <2>2, <2>5, VisitInv
  <2>6. ASSUME Handle(w) \/ parkDeadLetter(w) \/ recordDelivery(w)
        PROVE  WorkerInv(w)'
    BY <1>1, <1>2, <2>2, <2>6, HandleInv
  <2>7. ASSUME Save(w)
        PROVE  WorkerInv(w)'
    BY <1>1, <1>2, <2>2, <2>7, FinishInv DEF Save
  <2>8. WorkerInv(w)'
    BY <1>8, <2>3, <2>4, <2>5, <2>6, <2>7 DEF tick
  <2>9. Save(w) \/ checkpoint' = checkpoint
    BY <1>8 DEF tick, blockedLanes, requeuedDeadLetters, Rehandle, reparkDeadLetter,
         Rerecord, resolveDeadLetter, Redelivered, Load, RecheckFails, AlreadyRecorded,
         NotRecorded, ReadHorizon, pollStream, recordedDeliveries, recordedDeadLetters,
         PassOver, PassParked, Hold, Take, Handle, parkDeadLetter, recordDelivery, tables
  <2> QED
    BY <1>1, <1>3, <1>5, <1>6, <2>1, <2>8, <2>9
<1>9. ASSUME NEW w \in Workers, Abort(w)
      PROVE  IInv'
  <2>1. \A v \in Workers \ {w} : WorkerInv(v)'
    BY <1>1, <1>2, <1>9, FinishKeeps, KeptInv DEF Abort
  <2>2. WorkerInv(w)'
    BY <1>1, <1>2, <1>9, FinishInv DEF Abort
  <2> QED
    BY <1>1, <1>3, <1>5, <1>9, <2>1, <2>2 DEF Abort, tables
<1>10. ASSUME NEW e \in Events, Requeue(e)
       PROVE  IInv'
  <2>1. \A v \in Workers : Kept(v)
    BY <1>10 DEF Requeue, Kept, local
  <2>2. \A v \in Workers : WorkerInv(v)'
    BY <1>1, <1>2, <2>1, KeptInv
  <2> QED
    BY <1>1, <1>3, <1>5, <1>10, <2>2 DEF Requeue
<1>11. CASE UNCHANGED vars
  <2>1. \A v \in Workers : Kept(v)
    BY <1>11 DEF vars, Kept, local
  <2>2. \A v \in Workers : WorkerInv(v)'
    BY <1>1, <1>2, <2>1, KeptInv
  <2> QED
    BY <1>1, <1>3, <1>5, <1>11, <2>2 DEF vars, tables
<1> QED
  BY <1>7, <1>8, <1>9, <1>10, <1>11 DEF Next

(* The invariant holds throughout. *)
THEOREM Inductive == Spec => []IInv
<1>1. Init => IInv
  <2> SUFFICES ASSUME Init
               PROVE  IInv
    OBVIOUS
  <2>1. TypeInv
    BY InitTypes
  <2>2. StartedByNow /\ Safe(checkpoint)
    BY DEF Init, StreamInit, StartedByNow, Safe
  <2>3. \A w \in Workers : WorkerInv(w)
    BY DEF Init, WorkerInv, Safe, BatchInv, MayAdvance, Visiting, HorizonInv, ReadInv
  <2> QED
    BY <2>1, <2>2, <2>3 DEF IInv
<1>2. IInv /\ [Next]_vars => IInv'
  BY StepInv
<1> QED
  BY <1>1, <1>2, PTL DEF Spec

(* No skips: whatever lies at or behind the saved checkpoint is over, and  *)
(* if the subscriber handles it, it has a completion row or a dead letter. *)
(* It holds for any number of workers at once, so it does not rest on the  *)
(* scheduler's advisory lock.                                              *)
THEOREM NothingSkipped == Spec => []NoSkip
<1>1. IInv => NoSkip
  BY DEF IInv, Safe, NoSkip, After
<1> QED
  BY <1>1, Inductive, PTL

(* A dead letter is cleared only with the completion row of its event in   *)
(* the table, by the pass's own read or its own insert.                    *)
THEOREM LettersKept == Spec => LetterOutlivesFailure
<1>1. IInv /\ [Next]_vars =>
        [\A e \in Events : letter[e] # "none" /\ letter'[e] = "none"
            => e \in delivered]_vars
  <2> SUFFICES ASSUME IInv, Next, NEW e \in Events, letter[e] # "none", letter'[e] = "none"
               PROVE  e \in delivered
    BY DEF vars
  <2> USE DEF IInv, TypeInv, TypeOK, TablesTypeOK
  <2>1. ~(UNCHANGED letter)
    OBVIOUS
  <2>2. ASSUME NEW w \in Workers, tick(w)
        PROVE  e \in delivered
    <3>1. CASE reparkDeadLetter(w) \/ parkDeadLetter(w)
      BY <3>1 DEF reparkDeadLetter, parkDeadLetter
    <3>2. CASE resolveDeadLetter(w)
      BY <3>2 DEF resolveDeadLetter, WorkerInv, ReadInv
    <3>3. ASSUME NEW f \in Events, AlreadyRecorded(w, f)
          PROVE  e \in delivered
      BY <3>3 DEF AlreadyRecorded
    <3> QED
      BY <2>1, <2>2, <3>1, <3>2, <3>3
         DEF tick, blockedLanes, requeuedDeadLetters, Rehandle, Rerecord, Redelivered,
             Load, RecheckFails, NotRecorded, ReadHorizon, pollStream,
             recordedDeliveries, recordedDeadLetters, PassOver, PassParked, Hold, Take,
             Handle, recordDelivery, Save, tables
  <2>3. ASSUME NEW f \in Events, Requeue(f)
        PROVE  e \in delivered
    BY <2>3 DEF Requeue
  <2> QED
    BY <2>1, <2>2, <2>3 DEF Next, Abort, tables
<1> QED
  BY <1>1, Inductive, PTL DEF Spec, LetterOutlivesFailure

(* A completion row stands for an accepted delivery. *)
AcceptedInv ==
    /\ RecordedWasHandled
    /\ \A w \in Workers : pc[w] \in {"record", "rerecord"} => handled[cur[w]] > 0

(* A worker that writes a completion row has seen the handler accept.      *)
LEMMA AcceptedHolds == Spec => [](TypeInv /\ AcceptedInv)
<1>1. Init => AcceptedInv
  BY DEF Init, AcceptedInv, RecordedWasHandled
<1>2. TypeInv /\ AcceptedInv /\ [Next]_vars => AcceptedInv'
  <2> SUFFICES ASSUME TypeInv, AcceptedInv, [Next]_vars
               PROVE  AcceptedInv'
    OBVIOUS
  <2> USE DEF TypeInv, TypeOK, PassTypeOK, AcceptedInv, RecordedWasHandled
  <2>1. CASE UNCHANGED <<delivered, handled, pc, cur>>
    BY <2>1
  <2>2. ASSUME NEW w \in Workers, tick(w)
        PROVE  AcceptedInv'
    <3>1. CASE Rehandle(w) \/ Handle(w)
      <4>1. /\ cur[w] \in Events /\ UNCHANGED <<delivered, cur>>
            /\ \/ /\ handled' = [handled EXCEPT ![cur[w]] = @ + 1]
                  /\ pc' \in {[pc EXCEPT ![w] = "rerecord"], [pc EXCEPT ![w] = "record"]}
               \/ /\ handled' = handled
                  /\ pc' \in {[pc EXCEPT ![w] = "repark"], [pc EXCEPT ![w] = "park"]}
        BY <3>1 DEF Rehandle, Handle, attemptDelivery, Goto, CurOK, Handling, tables
      <4>2. delivered \subseteq Events
        BY DEF TablesTypeOK
      <4>3. CASE handled' = handled
        BY <4>1, <4>3
      <4>4. CASE handled' = [handled EXCEPT ![cur[w]] = @ + 1]
        <5>1. \A f \in Events : handled'[f] >= handled[f] /\ handled'[f] \in Nat
          BY <4>1, <4>4
        <5>2. handled'[cur[w]] > 0
          BY <4>1, <4>4
        <5>3. ASSUME NEW v \in Workers, pc'[v] \in {"record", "rerecord"}
              PROVE  handled'[cur'[v]] > 0
          <6>1. CASE v = w
            BY <4>1, <5>2, <6>1
          <6>2. CASE v # w
            <7>1. pc[v] \in {"record", "rerecord"} /\ cur[v] \in Events
              BY <4>1, <5>3, <6>2 DEF CurOK, Handling
            <7> QED
              BY <4>1, <5>1, <7>1
          <6> QED
            BY <6>1, <6>2
        <5> QED
          BY <4>1, <4>2, <5>1, <5>3
      <4> QED
        BY <4>1, <4>3, <4>4
    <3>2. CASE Rerecord(w) \/ recordDelivery(w)
      BY <3>2 DEF Rerecord, recordDelivery, Goto
    <3>3. CASE \/ blockedLanes(w) \/ requeuedDeadLetters(w) \/ reparkDeadLetter(w)
               \/ resolveDeadLetter(w) \/ Redelivered(w) \/ Load(w) \/ ReadHorizon(w)
               \/ recordedDeliveries(w) \/ recordedDeadLetters(w) \/ parkDeadLetter(w)
      BY <3>3 DEF blockedLanes, requeuedDeadLetters, reparkDeadLetter, resolveDeadLetter,
                  Redelivered, Load, ReadHorizon, recordedDeliveries,
                  recordedDeadLetters, parkDeadLetter, Goto, tables, local
    <3>4. ASSUME NEW e \in Events,
                 \/ RecheckFails(w, e) \/ AlreadyRecorded(w, e) \/ NotRecorded(w, e)
                 \/ PassOver(w, e) \/ PassParked(w, e) \/ Hold(w, e) \/ Take(w, e)
          PROVE  AcceptedInv'
      BY <3>4 DEF RecheckFails, AlreadyRecorded, NotRecorded, PassOver, PassParked,
                  Hold, Take, Goto, tables
    <3>5. CASE pollStream(w) \/ Save(w)
      BY <3>5 DEF pollStream, Save, Finish, Goto, tables
    <3> QED
      BY <2>2, <3>1, <3>2, <3>3, <3>4, <3>5 DEF tick
  <2>3. ASSUME NEW w \in Workers, Abort(w)
        PROVE  AcceptedInv'
    BY <2>3 DEF Abort, Finish, Goto, tables
  <2> QED
    BY <2>1, <2>2, <2>3 DEF Next, Requeue, vars, tables, local
<1>3. TypeInv /\ [Next]_vars => TypeInv'
  BY StepTypes
<1>4. Init => TypeInv
  BY InitTypes
<1> QED
  BY <1>1, <1>2, <1>3, <1>4, PTL DEF Spec

(* The registry records a delivery only after the handler accepted it,     *)
(* whatever the passes of the other workers do meanwhile.                  *)
THEOREM RecordedAccepted == Spec => []RecordedWasHandled
<1>1. AcceptedInv => RecordedWasHandled
  BY DEF AcceptedInv
<1> QED
  BY <1>1, AcceptedHolds, PTL
------------------------------------------------------------------------------
(* Order within a lane, under the advisory lock. *)

(* What the dead letters have cost: the delivery that failed; where its    *)
(* event is delivered and the letter still there, the clearing too; and a  *)
(* second letter on the lane, the two of the first and its own.            *)
LettersInv ==
    /\ \A e \in Events : letter[e] # "none" => faults > 0
    /\ \A e \in delivered : letter[e] # "none" =>
         faults > 1 \/ \E w \in Workers : pc[w] = "reresolve" /\ cur[w] = e
    /\ \A e, f \in Events :
         e # f /\ LaneOf[e] = LaneOf[f] /\ letter[e] # "none" /\ letter[f] # "none"
            => faults > 2

(* A repetition that no completion row prevented cost a fault. *)
AtRecord(e) == \E w \in Workers : pc[w] \in {"record", "rerecord"} /\ cur[w] = e

RepeatsInv ==
    \A e \in Events :
        handled[e] <= IF e \in delivered \/ AtRecord(e) THEN faults + 1 ELSE faults

(* The letters whose lane a pass does not hold once it has redelivered. *)
Missed(g) ==
    /\ faults > 1
    /\ handled[g] > 0 \/ faults > 2 \/ (RequeuedReadFails /\ letter[g] = "requeued")

InRedelivery(w) == pc[w] \in {"rehandle", "rerecord", "reresolve"}

(* The lane of a letter is held, or the letter is about to be redelivered. *)
HeadsInv(w) ==
    /\ pc[w] = "requeued" =>
         \A g \in Events : letter[g] = "parked" => LaneOf[g] \in blocked[w]
    /\ pc[w] \notin {"idle", "requeued"} =>
         \A g \in Events : letter[g] # "none" =>
            \/ LaneOf[g] \in blocked[w]
            \/ pc[w] \in Redelivering /\ g \in todo[w]
            \/ InRedelivery(w) /\ g = cur[w]
            \/ Missed(g)

(* What is to be redelivered is requeued, and not delivered yet. *)
TodoInv(w) ==
    /\ pc[w] \in Redelivering => \A g \in todo[w] : letter[g] = "requeued"
    /\ pc[w] \in Redelivering \ {"redeliver"} => cur[w] \notin todo[w]
    /\ InRedelivery(w) => letter[cur[w]] = "requeued"
    /\ pc[w] = "repark" => LaneOf[cur[w]] \in blocked[w]
    /\ pc[w] = "rehandle" => cur[w] \notin delivered

(* What the drain read of the tables is all there is to know. *)
ReadRows(w) == pc[w] \in {"deliveries", "letters"} \cup Visiting

FreshInv(w) ==
    /\ pc[w] \in {"horizon", "poll"} => watermark[w] = checkpoint
    /\ pc[w] \in {"letters"} \cup Visiting => batch[w] \cap delivered \subseteq done[w]
    /\ pc[w] \in Visiting => \A e \in batch[w] : letter[e] # "none" => e \in parked[w]
    /\ ReadRows(w) => polled[w] \subseteq Committed /\ Ahead(w) \subseteq polled[w]

(* The event in hand: first of what is ahead, without letter or row. *)
HandedInv(w) ==
    /\ InHand(w) => letter[cur[w]] = "none" /\ \A g \in batch[w] : Before(cur[w], g)
    /\ pc[w] \in {"handle", "park"} => cur[w] \notin delivered
    /\ pc[w] = "handle" => LaneOf[cur[w]] \notin blocked[w]
    /\ pc[w] = "park" =>
         /\ LaneOf[cur[w]] \in blocked[w]
         /\ faults > 0
         /\ \A g \in Events : LaneOf[g] = LaneOf[cur[w]] /\ letter[g] # "none" => faults > 2

(* What was readable is dealt with, in the batch, or past it. *)
SeenInv(w) ==
    ReadRows(w) => \A f \in polled[w] \cap Handled :
        \/ handled[f] > 0 \/ letter[f] # "none" \/ LaneOf[f] \in blocked[w]
        \/ f \in Ahead(w) \/ \A g \in Ahead(w) : Before(g, f)

OneActive == \A v, w \in Workers : pc[v] # "idle" /\ pc[w] # "idle" => v = w

PassInv(w) == HeadsInv(w) /\ TodoInv(w) /\ FreshInv(w) /\ HandedInv(w) /\ SeenInv(w)

LaneInv ==
    /\ OneActive
    /\ LettersInv
    /\ RepeatsInv
    /\ \A w \in Workers : PassInv(w)

(* While one worker is at it, every other is idle. *)
LEMMA Alone ==
    ASSUME Exclusive, TypeInv, OneActive, NEW w \in Workers, tick(w) \/ Abort(w)
    PROVE  /\ \A v \in Workers \ {w} : pc[v] = "idle" /\ pc'[v] = "idle"
           /\ OneActive'
<1>1. blockedLanes(w) \/ pc[w] # "idle"
  BY DEF tick, Abort, requeuedDeadLetters, RecheckFails, AlreadyRecorded, NotRecorded,
         Rehandle, reparkDeadLetter, Rerecord, resolveDeadLetter, Redelivered, Load,
         ReadHorizon, pollStream, recordedDeliveries, recordedDeadLetters, PassOver,
         PassParked, Hold, Take, NextRow, Handle, parkDeadLetter, recordDelivery, Save
<1>2. \A v \in Workers \ {w} : pc[v] = "idle"
  BY <1>1 DEF blockedLanes, OneActive
<1>3. \A v \in Workers \ {w} : pc'[v] = pc[v]
  BY TickKeeps, FinishKeeps DEF Abort, Kept
<1> QED
  BY <1>2, <1>3 DEF OneActive

(* What the lemmas about a step of worker w start from. *)
Acting(w) ==
    /\ TypeInv /\ TypeInv'
    /\ IInv /\ AcceptedInv /\ LaneInv
    /\ \A v \in Workers \ {w} : pc[v] = "idle" /\ pc'[v] = "idle"

(* A letter that leaves, or changes hands, costs the others nothing. *)
LEMMA LettersFewer ==
    ASSUME NEW w \in Workers, Acting(w), UNCHANGED delivered,
           \A e \in Events : letter'[e] # "none" => letter[e] # "none",
           faults' = faults \/ faults' = faults + 1,
           pc[w] = "reresolve" => faults' = faults + 1 \/ letter'[cur[w]] = "none"
    PROVE  LettersInv'
<1> USE DEF Acting, LaneInv
<1>1. faults \in Nat /\ faults' \in Nat /\ faults <= faults'
  BY RegistryAssumption DEF TypeInv, TypeOK
<1>2. ASSUME NEW e \in delivered, letter'[e] # "none"
      PROVE  faults' > 1 \/ \E v \in Workers : pc'[v] = "reresolve" /\ cur'[v] = e
  <2>1. e \in Events /\ letter[e] # "none"
    BY <1>2 DEF TypeInv, TypeOK, TablesTypeOK
  <2>2. faults > 0
    BY <2>1 DEF LettersInv
  <2>3. faults > 1 \/ (pc[w] = "reresolve" /\ cur[w] = e)
    BY <1>2, <2>1 DEF LettersInv
  <2> QED  BY <1>1, <1>2, <2>2, <2>3
<1> HIDE DEF LaneInv, Acting
<1>3. LettersInv
  BY DEF Acting, LaneInv
<1> QED  BY <1>1, <1>2, <1>3 DEF LettersInv

(* The books of the letters: what a letter costs is paid when it is made.  *)
LEMMA LettersStep ==
    ASSUME NEW w \in Workers, Acting(w), tick(w) \/ Abort(w)
    PROVE  LettersInv'
<1> USE DEF Fault, NoFault
<1>1. TypeInv /\ LettersInv /\ PassInv(w)
  BY DEF Acting, LaneInv
<1>2. faults \in Nat
  BY <1>1, RegistryAssumption DEF TypeInv, TypeOK
<1>3. letter \in [Events -> {"none", "parked", "requeued"}] /\ delivered \subseteq Events
  BY <1>1 DEF TypeInv, TypeOK, TablesTypeOK
<1>4. CASE \/ blockedLanes(w) \/ requeuedDeadLetters(w) \/ Rehandle(w) \/ Redelivered(w)
           \/ Load(w) \/ ReadHorizon(w) \/ pollStream(w) \/ recordedDeliveries(w)
           \/ recordedDeadLetters(w) \/ Handle(w) \/ Save(w) \/ Abort(w)
           \/ \E e \in Events :
                \/ RecheckFails(w, e) \/ NotRecorded(w, e) \/ PassOver(w, e)
                \/ PassParked(w, e) \/ Hold(w, e) \/ Take(w, e)
  <2>1. /\ UNCHANGED <<letter, delivered>> /\ (faults' = faults \/ faults' = faults + 1)
        /\ pc[w] = "reresolve" => faults' = faults + 1
    BY <1>4 DEF blockedLanes, requeuedDeadLetters, Rehandle, Redelivered, Load, ReadHorizon,
         pollStream, recordedDeliveries, recordedDeadLetters, Handle, Save, Abort,
         RecheckFails, NotRecorded, PassOver, PassParked, Hold, Take, NextRow,
         attemptDelivery, tables
  <2> QED  BY <2>1, LettersFewer
<1>5. ASSUME NEW e \in Events, AlreadyRecorded(w, e)
      PROVE  LettersInv'
  <2>1. /\ UNCHANGED delivered /\ pc[w] # "reresolve"
        /\ faults' = faults \/ faults' = faults + 1
        /\ \A f \in Events : letter'[f] # "none" => letter[f] # "none"
    BY <1>3, <1>5 DEF AlreadyRecorded
  <2> QED  BY <2>1, LettersFewer
<1>6. CASE reparkDeadLetter(w)
  <2>1. /\ UNCHANGED delivered /\ pc[w] # "reresolve"
        /\ faults' = faults \/ faults' = faults + 1
        /\ \A f \in Events : letter'[f] # "none" => letter[f] # "none"
    BY <1>3, <1>6 DEF reparkDeadLetter
  <2> QED  BY <2>1, LettersFewer
<1>7. CASE resolveDeadLetter(w)
  <2>1. /\ UNCHANGED delivered
        /\ faults' = faults \/ faults' = faults + 1
        /\ \A f \in Events : letter'[f] # "none" => letter[f] # "none"
        /\ faults' = faults + 1 \/ letter'[cur[w]] = "none"
    BY <1>1, <1>3, <1>7 DEF resolveDeadLetter, TypeInv, CurOK, Handling
  <2> QED  BY <2>1, LettersFewer
<1>8. CASE Rerecord(w)
  <2>1. /\ UNCHANGED letter /\ pc[w] = "rerecord"
        /\ \/ faults' = faults /\ delivered' = delivered \cup {cur[w]}
              /\ pc'[w] = "reresolve" /\ cur'[w] = cur[w]
           \/ faults' = faults + 1 /\ delivered' = delivered
    BY <1>1, <1>8 DEF Rerecord, Goto, TypeInv, TypeOK, PassTypeOK
  <2>2. CASE faults' = faults + 1 /\ delivered' = delivered
    BY <2>1, <2>2, LettersFewer
  <2>3. CASE /\ faults' = faults /\ delivered' = delivered \cup {cur[w]}
             /\ pc'[w] = "reresolve" /\ cur'[w] = cur[w]
    <3>1. \A e \in delivered : letter[e] # "none" => faults > 1
      BY <1>1, <2>1 DEF LettersInv, Acting
    <3> QED  BY <1>1, <2>1, <2>3, <3>1 DEF LettersInv
  <2> QED  BY <2>1, <2>2, <2>3
<1>9. CASE recordDelivery(w)
  <2>1. /\ UNCHANGED letter /\ pc[w] = "record" /\ letter[cur[w]] = "none"
        /\ \/ faults' = faults /\ delivered' = delivered \cup {cur[w]}
           \/ faults' = faults + 1 /\ delivered' = delivered
    BY <1>1, <1>9 DEF recordDelivery, PassInv, HandedInv, InHand
  <2>2. CASE faults' = faults + 1 /\ delivered' = delivered
    BY <2>1, <2>2, LettersFewer
  <2>3. CASE faults' = faults /\ delivered' = delivered \cup {cur[w]}
    <3>1. \A e \in delivered : letter[e] # "none" => faults > 1
      BY <1>1, <2>1 DEF LettersInv, Acting
    <3> QED  BY <1>1, <2>1, <2>3, <3>1 DEF LettersInv
  <2> QED  BY <2>1, <2>2, <2>3
<1>10. CASE parkDeadLetter(w)
  <2> DEFINE e == cur[w]
  <2>1. /\ pc[w] = "park" /\ UNCHANGED delivered /\ e \in Events
        /\ e \notin delivered /\ letter[e] = "none" /\ faults > 0
        /\ \A g \in Events : LaneOf[g] = LaneOf[e] /\ letter[g] # "none" => faults > 2
    BY <1>1, <1>10 DEF parkDeadLetter, PassInv, HandedInv, InHand, TypeInv, CurOK, Handling
  <2>2. \/ faults' = faults /\ letter' = [letter EXCEPT ![e] = "parked"]
        \/ UNCHANGED letter /\ (faults' = faults \/ faults' = faults + 1)
    BY <1>10 DEF parkDeadLetter
  <2>3. CASE UNCHANGED letter /\ (faults' = faults \/ faults' = faults + 1)
    BY <2>1, <2>3, LettersFewer
  <2>4. CASE faults' = faults /\ letter' = [letter EXCEPT ![e] = "parked"]
    <3>1. \A f \in Events : letter'[f] # "none" => f = e \/ letter[f] # "none"
      BY <1>3, <2>4
    <3>2. \A f \in Events : letter'[f] # "none" => faults' > 0
      BY <1>1, <2>1, <2>4
    <3>3. \A f \in delivered : letter[f] # "none" => faults > 1
      BY <1>1, <2>1 DEF LettersInv, Acting
    <3>4. \A f \in delivered' : letter'[f] # "none" => faults' > 1
      BY <1>3, <2>1, <2>4, <3>1, <3>3
    <3>5. ASSUME NEW f \in Events, NEW g \in Events, f # g, LaneOf[f] = LaneOf[g],
                 letter'[f] # "none", letter'[g] # "none"
          PROVE  faults' > 2
      BY <1>1, <2>1, <2>4, <3>1, <3>5 DEF LettersInv
    <3> QED  BY <3>2, <3>4, <3>5 DEF LettersInv
  <2> QED  BY <2>2, <2>3, <2>4
<1> QED
  BY <1>4, <1>5, <1>6, <1>7, <1>8, <1>9, <1>10 DEF tick

(* Repetitions: a delivery is handled again only where its record failed.  *)
LEMMA RepeatsStep ==
    ASSUME NEW w \in Workers, Acting(w), tick(w) \/ Abort(w)
    PROVE  RepeatsInv'
<1> USE DEF Fault, NoFault
<1>1. TypeInv /\ RepeatsInv /\ PassInv(w)
  BY DEF Acting, LaneInv
<1>2. faults \in Nat /\ handled \in [Events -> Nat]
  BY <1>1, RegistryAssumption DEF TypeInv, TypeOK
<1>3. \A e \in Events : AtRecord(e) <=> pc[w] \in {"record", "rerecord"} /\ cur[w] = e
  BY DEF AtRecord, Acting
<1>4. ASSUME UNCHANGED handled, delivered \subseteq delivered',
             faults' = faults \/ faults' = faults + 1,
             pc[w] \in {"record", "rerecord"} => faults' = faults + 1 \/ cur[w] \in delivered'
      PROVE  RepeatsInv'
  <2> SUFFICES ASSUME NEW e \in Events
               PROVE  (handled[e] <= IF e \in delivered \/ AtRecord(e) THEN faults + 1
                                     ELSE faults)'
    BY DEF RepeatsInv
  <2>1. handled[e] <= IF e \in delivered \/ AtRecord(e) THEN faults + 1 ELSE faults
    BY <1>1 DEF RepeatsInv
  <2>2. e \in delivered => e \in delivered'
    BY <1>4
  <2>3. handled'[e] = handled[e] /\ handled[e] \in Nat
    BY <1>2, <1>4
  <2>4. AtRecord(e) => faults' = faults + 1 \/ e \in delivered'
    BY <1>3, <1>4
  <2> HIDE DEF AtRecord
  <2> QED  BY <1>2, <1>4, <2>1, <2>2, <2>3, <2>4
<1>5. CASE \/ blockedLanes(w) \/ requeuedDeadLetters(w) \/ Redelivered(w)
           \/ Load(w) \/ ReadHorizon(w) \/ pollStream(w) \/ recordedDeliveries(w)
           \/ recordedDeadLetters(w) \/ Save(w) \/ Abort(w) \/ reparkDeadLetter(w)
           \/ resolveDeadLetter(w) \/ parkDeadLetter(w) \/ Rerecord(w) \/ recordDelivery(w)
  BY <1>4, <1>5
     DEF blockedLanes, requeuedDeadLetters, Redelivered, Load, ReadHorizon, pollStream,
         recordedDeliveries, recordedDeadLetters, Save, Abort, reparkDeadLetter,
         resolveDeadLetter, parkDeadLetter, Rerecord, recordDelivery, tables
<1>6. ASSUME NEW e \in Events,
             \/ RecheckFails(w, e) \/ AlreadyRecorded(w, e) \/ NotRecorded(w, e)
             \/ PassOver(w, e) \/ PassParked(w, e) \/ Hold(w, e) \/ Take(w, e)
      PROVE  RepeatsInv'
  BY <1>4, <1>6 DEF RecheckFails, AlreadyRecorded, NotRecorded, PassOver, PassParked, Hold,
                    Take, NextRow, tables
<1>7. CASE Rehandle(w) \/ Handle(w)
  <2>1. /\ pc[w] \in {"rehandle", "handle"} /\ cur[w] \in Events /\ cur[w] \notin delivered
        /\ UNCHANGED <<delivered, cur>>
    BY <1>1, <1>7 DEF Rehandle, Handle, tables, TypeInv, CurOK, Handling, PassInv, TodoInv,
                      HandedInv
  <2>2. \/ UNCHANGED handled /\ faults' = faults + 1
        \/ /\ handled' = [handled EXCEPT ![cur[w]] = @ + 1] /\ faults' = faults
           /\ pc'[w] \in {"record", "rerecord"}
    BY <1>1, <1>7 DEF Rehandle, Handle, attemptDelivery, Goto, TypeInv, TypeOK, PassTypeOK
  <2>3. CASE UNCHANGED handled /\ faults' = faults + 1
    BY <1>4, <2>1, <2>3
  <2>4. CASE /\ handled' = [handled EXCEPT ![cur[w]] = @ + 1] /\ faults' = faults
             /\ pc'[w] \in {"record", "rerecord"}
    <3> SUFFICES ASSUME NEW e \in Events
                 PROVE  (handled[e] <= IF e \in delivered \/ AtRecord(e) THEN faults + 1
                                       ELSE faults)'
      BY DEF RepeatsInv
    <3>1. ~ AtRecord(e)
      BY <1>3, <2>1
    <3>2. handled[e] <= IF e \in delivered THEN faults + 1 ELSE faults
      BY <1>1, <3>1 DEF RepeatsInv
    <3>3. CASE e = cur[w]
      <4>1. AtRecord(e)'
        BY <2>1, <2>4, <3>3 DEF AtRecord
      <4>2. handled[e] <= faults /\ handled'[e] = handled[e] + 1
        BY <1>2, <2>1, <2>4, <3>2, <3>3
      <4> QED  BY <1>2, <2>4, <4>1, <4>2
    <3>4. CASE e # cur[w]
      <4>1. handled'[e] = handled[e]
        BY <1>2, <2>4, <3>4
      <4> QED  BY <1>2, <2>1, <2>4, <3>2, <4>1
    <3> QED  BY <3>3, <3>4
  <2> QED  BY <2>2, <2>3, <2>4
<1> QED
  BY <1>5, <1>6, <1>7 DEF tick

(* The letters left to redeliver stay requeued: only this worker changes   *)
(* them, each as its turn comes.                                           *)
LEMMA TodoStep ==
    ASSUME NEW w \in Workers, Acting(w), tick(w) \/ Abort(w)
    PROVE  TodoInv(w)'
<1>1. TypeInv /\ TodoInv(w)
  BY DEF Acting, LaneInv, PassInv
<1>2. letter \in [Events -> {"none", "parked", "requeued"}] /\ PassTypeOK
  BY <1>1 DEF TypeInv, TypeOK, TablesTypeOK
<1> USE DEF TodoInv, InRedelivery, Redelivering
<1>3. CASE \/ blockedLanes(w) \/ Redelivered(w) \/ Load(w) \/ ReadHorizon(w)
           \/ recordedDeliveries(w) \/ recordedDeadLetters(w) \/ Handle(w)
           \/ parkDeadLetter(w) \/ recordDelivery(w)
           \/ \E e \in Events : PassOver(w, e) \/ PassParked(w, e) \/ Hold(w, e) \/ Take(w, e)
  <2>1. pc'[w] \notin Redelivering
    BY <1>2, <1>3 DEF blockedLanes, Redelivered, Load, ReadHorizon, recordedDeliveries,
         recordedDeadLetters, Handle, attemptDelivery, parkDeadLetter, recordDelivery,
         PassOver, PassParked, Hold, Take, NextRow, Goto, PassTypeOK
  <2> QED  BY <2>1
<1>4. CASE pollStream(w) \/ Save(w) \/ Abort(w)
  <2>1. pc'[w] \notin Redelivering
    BY <1>2, <1>4 DEF pollStream, Save, Abort, Finish, Goto, PassTypeOK
  <2> QED  BY <2>1
<1>5. CASE requeuedDeadLetters(w)
  BY <1>2, <1>5 DEF requeuedDeadLetters, Goto, PassTypeOK, tables
<1>6. ASSUME NEW e \in Events,
             RecheckFails(w, e) \/ AlreadyRecorded(w, e) \/ NotRecorded(w, e)
      PROVE  TodoInv(w)'
  <2>1. /\ pc[w] = "redeliver" /\ e \in todo[w] /\ todo'[w] = todo[w] \ {e}
        /\ \A g \in Events \ {e} : letter'[g] = letter[g]
    BY <1>2, <1>6 DEF RecheckFails, AlreadyRecorded, NotRecorded, IsFirst, PassTypeOK, tables
  <2>2. \A g \in todo'[w] : letter'[g] = "requeued"
    BY <1>1, <1>2, <2>1 DEF PassTypeOK
  <2>3. CASE RecheckFails(w, e) \/ AlreadyRecorded(w, e)
    BY <2>1, <2>2, <2>3 DEF RecheckFails, AlreadyRecorded
  <2>4. CASE NotRecorded(w, e)
    BY <1>1, <1>2, <2>1, <2>2, <2>4 DEF NotRecorded, Goto, PassTypeOK, tables
  <2> QED  BY <1>6, <2>3, <2>4
<1>7. CASE Rehandle(w) \/ Rerecord(w)
  BY <1>1, <1>2, <1>7 DEF Rehandle, Rerecord, attemptDelivery, Block, Goto, PassTypeOK, tables
<1>8. CASE reparkDeadLetter(w) \/ resolveDeadLetter(w)
  <2>1. /\ pc[w] \in {"repark", "reresolve"} /\ pc'[w] = "redeliver" /\ todo'[w] = todo[w]
        /\ \A g \in Events \ {cur[w]} : letter'[g] = letter[g]
    BY <1>2, <1>8 DEF reparkDeadLetter, resolveDeadLetter, Goto, PassTypeOK, local
  <2> QED  BY <1>1, <1>2, <2>1 DEF PassTypeOK
<1> QED
  BY <1>3, <1>4, <1>5, <1>6, <1>7, <1>8 DEF tick

(* A letter that was missed stays missed while its lane is not held again. *)
LEMMA MissedStays ==
    ASSUME TypeInv, NEW g \in Events, Missed(g), faults' >= faults, handled'[g] >= handled[g],
           letter'[g] = letter[g], faults' \in Nat, handled'[g] \in Nat
    PROVE  Missed(g)'
BY RegistryAssumption DEF Missed, TypeInv, TypeOK

(* A pass holds the lane of every letter it knows of, until the letter's   *)
(* own redelivery lets go of it.                                           *)
LEMMA HeadsStep ==
    ASSUME NEW w \in Workers, Acting(w), tick(w) \/ Abort(w)
    PROVE  HeadsInv(w)'
<1> USE DEF Fault, NoFault
<1>1. TypeInv /\ LettersInv /\ HeadsInv(w) /\ TodoInv(w) /\ HandedInv(w) /\ AcceptedInv
  BY DEF Acting, LaneInv, PassInv
<1>2. /\ letter \in [Events -> {"none", "parked", "requeued"}] /\ PassTypeOK
      /\ faults \in Nat /\ handled \in [Events -> Nat] /\ delivered \subseteq Events
  BY <1>1, RegistryAssumption DEF TypeInv, TypeOK, TablesTypeOK
<1>3. CASE blockedLanes(w)
  BY <1>2, <1>3, StreamAssumption DEF blockedLanes, Goto, HeadsInv, LaneParked, PassTypeOK, tables
<1>4. CASE requeuedDeadLetters(w)
  <2> SUFFICES ASSUME NEW g \in Events, letter[g] # "none", LaneOf[g] \notin blocked[w],
                      g \notin todo'[w]
               PROVE  Missed(g)'
    BY <1>2, <1>4 DEF requeuedDeadLetters, Goto, HeadsInv, Redelivering, PassTypeOK, tables
  <2>1. letter[g] = "requeued"
    BY <1>1, <1>2, <1>4 DEF HeadsInv, requeuedDeadLetters
  <2>2. faults > 0
    BY <1>1 DEF LettersInv
  <2>3. RequeuedReadFails /\ faults' = faults + 1 /\ letter' = letter
    BY <1>2, <1>4, <2>1 DEF requeuedDeadLetters, PassTypeOK, tables
  <2> QED  BY <1>2, <2>1, <2>2, <2>3 DEF Missed
<1>5. ASSUME pc[w] \notin {"idle", "requeued"}, pc'[w] \notin {"idle", "requeued"},
             UNCHANGED <<letter, handled>>, faults' = faults \/ faults' = faults + 1,
             blocked[w] \subseteq blocked'[w],
             \A g \in Events :
               /\ pc[w] \in Redelivering /\ g \in todo[w] =>
                    \/ pc'[w] \in Redelivering /\ g \in todo'[w]
                    \/ LaneOf[g] \in blocked'[w]
                    \/ InRedelivery(w)' /\ g = cur'[w]
               /\ InRedelivery(w) /\ g = cur[w] =>
                    (InRedelivery(w)' /\ g = cur'[w]) \/ LaneOf[g] \in blocked'[w]
      PROVE  HeadsInv(w)'
  <2>1. \A g \in Events : Missed(g) => Missed(g)'
    BY <1>2, <1>5 DEF Missed
  <2> QED  BY <1>1, <1>5, <2>1 DEF HeadsInv
<1>6. CASE \/ Redelivered(w) \/ Load(w) \/ ReadHorizon(w) \/ recordedDeliveries(w)
           \/ recordedDeadLetters(w) \/ recordDelivery(w)
  BY <1>2, <1>5, <1>6
     DEF Redelivered, Load, ReadHorizon, recordedDeliveries, recordedDeadLetters,
         recordDelivery, Goto, PassTypeOK, tables, local, Redelivering, InRedelivery
<1>7. ASSUME NEW e \in Events,
             PassOver(w, e) \/ PassParked(w, e) \/ Hold(w, e) \/ Take(w, e)
      PROVE  HeadsInv(w)'
  BY <1>2, <1>5, <1>7
     DEF PassOver, PassParked, Hold, Take, NextRow, Block, Goto, PassTypeOK, tables,
         Redelivering, InRedelivery
<1>8. ASSUME NEW e \in Events, RecheckFails(w, e) \/ NotRecorded(w, e)
      PROVE  HeadsInv(w)'
  BY <1>2, <1>5, <1>8
     DEF RecheckFails, NotRecorded, IsFirst, Block, Goto, PassTypeOK, tables, Redelivering,
         InRedelivery
<1>9. CASE Rerecord(w)
  BY <1>2, <1>5, <1>9
     DEF Rerecord, Block, Goto, PassTypeOK, tables, Redelivering, InRedelivery
<1>10. CASE pollStream(w) \/ Save(w) \/ Abort(w)
  <2>1. pc'[w] = "idle" \/ (pollStream(w) /\ pc'[w] = "deliveries" /\ blocked' = blocked)
    BY <1>2, <1>10 DEF pollStream, Save, Abort, Finish, Goto, PassTypeOK
  <2>2. CASE pc'[w] = "idle"
    BY <2>2 DEF HeadsInv
  <2>3. CASE pollStream(w) /\ pc'[w] = "deliveries" /\ blocked' = blocked
    BY <1>2, <1>5, <2>3 DEF pollStream, tables, Redelivering, InRedelivery
  <2> QED  BY <2>1, <2>2, <2>3
<1>11. CASE Rehandle(w) \/ Handle(w)
  <2>1. /\ pc[w] \in {"rehandle", "handle"} /\ UNCHANGED <<letter, cur, todo>>
        /\ cur[w] \in Events
    BY <1>1, <1>11 DEF Rehandle, Handle, tables, TypeInv, CurOK, Handling
  <2>2. /\ faults' \in Nat /\ faults' >= faults
        /\ \A g \in Events : handled'[g] \in Nat /\ handled'[g] >= handled[g]
    BY <1>2, <1>11, <2>1 DEF Rehandle, Handle, attemptDelivery
  <2>3. \A g \in Events : Missed(g) => Missed(g)'
    BY <1>1, <2>1, <2>2, MissedStays
  <2>4. /\ blocked[w] \subseteq blocked'[w] /\ pc'[w] \notin {"idle", "requeued"}
        /\ pc[w] = "rehandle" => pc'[w] \in Redelivering
        /\ pc[w] = "rehandle" => pc'[w] = "rerecord" \/ LaneOf[cur[w]] \in blocked'[w]
    BY <1>2, <1>11 DEF Rehandle, Handle, attemptDelivery, Block, Goto, PassTypeOK, Redelivering
  <2> QED  BY <1>1, <2>1, <2>3, <2>4 DEF HeadsInv, Redelivering, InRedelivery
<1>12. CASE parkDeadLetter(w)
  <2>1. /\ pc[w] = "park" /\ pc'[w] = "row" /\ UNCHANGED <<blocked, handled>>
        /\ LaneOf[cur[w]] \in blocked[w]
        /\ faults' \in Nat /\ faults' >= faults
        /\ \A g \in Events \ {cur[w]} : letter'[g] = letter[g]
    BY <1>1, <1>2, <1>12 DEF parkDeadLetter, Goto, PassTypeOK, HandedInv
  <2>2. \A g \in Events \ {cur[w]} : Missed(g) => Missed(g)'
    BY <1>1, <1>2, <2>1, MissedStays
  <2> QED  BY <1>1, <2>1, <2>2 DEF HeadsInv, Redelivering, InRedelivery
<1>13. CASE reparkDeadLetter(w)
  <2>1. /\ pc[w] = "repark" /\ pc'[w] = "redeliver" /\ UNCHANGED <<blocked, handled, todo>>
        /\ faults' \in Nat /\ faults' >= faults
        /\ \A g \in Events \ {cur[w]} : letter'[g] = letter[g]
    BY <1>1, <1>2, <1>13 DEF reparkDeadLetter, Goto, PassTypeOK, local
  <2>2. LaneOf[cur[w]] \in blocked[w]
    BY <1>1, <2>1 DEF TodoInv
  <2>3. \A g \in Events \ {cur[w]} : Missed(g) => Missed(g)'
    BY <1>1, <1>2, <2>1, MissedStays
  <2> QED  BY <1>1, <2>1, <2>2, <2>3 DEF HeadsInv, Redelivering, InRedelivery
<1>14. ASSUME NEW e \in Events, pc[w] \in Redelivering, pc'[w] = "redeliver", e \in delivered,
              letter[e] = "requeued", blocked'[w] = blocked[w] \ {LaneOf[e]},
              todo'[w] = todo[w] \ {e}, handled' = handled,
              InRedelivery(w) => e = cur[w],
              \/ letter' = [letter EXCEPT ![e] = "none"] /\ faults' = faults
              \/ letter' = letter /\ faults' = faults + 1
       PROVE  HeadsInv(w)'
  <2> SUFFICES ASSUME NEW g \in Events, letter'[g] # "none", LaneOf[g] \notin blocked'[w],
                      g \notin todo'[w]
               PROVE  Missed(g)'
    BY <1>14 DEF HeadsInv, Redelivering
  <2>1. letter[g] = letter'[g] /\ faults' \in Nat /\ faults' >= faults
    BY <1>2, <1>14
  <2>2. handled[e] > 0
    BY <1>1, <1>14 DEF AcceptedInv, RecordedWasHandled
  <2>3. CASE g = e
    <3>1. faults' = faults + 1 /\ faults > 0
      BY <1>1, <1>2, <1>14, <2>3 DEF LettersInv
    <3> QED  BY <1>2, <1>14, <2>2, <2>3, <3>1 DEF Missed
  <2>4. CASE g # e /\ LaneOf[g] = LaneOf[e]
    <3>1. faults > 2
      BY <1>1, <1>14, <2>1, <2>4 DEF LettersInv
    <3> QED  BY <1>2, <2>1, <3>1 DEF Missed
  <2>5. CASE LaneOf[g] # LaneOf[e]
    <3>1. Missed(g)
      BY <1>1, <1>14, <2>1, <2>5 DEF HeadsInv, Redelivering
    <3> QED  BY <1>1, <1>2, <1>14, <2>1, <3>1, MissedStays
  <2> QED  BY <2>3, <2>4, <2>5
<1>15. ASSUME NEW e \in Events, AlreadyRecorded(w, e)
       PROVE  HeadsInv(w)'
  <2>1. /\ pc[w] = "redeliver" /\ pc' = pc /\ e \in todo[w] /\ e \in delivered
        /\ todo'[w] = todo[w] \ {e} /\ blocked'[w] = blocked[w] \ {LaneOf[e]}
        /\ handled' = handled
        /\ \/ letter' = [letter EXCEPT ![e] = "none"] /\ faults' = faults
           \/ letter' = letter /\ faults' = faults + 1
    BY <1>2, <1>15 DEF AlreadyRecorded, IsFirst, Unblock, PassTypeOK
  <2>2. letter[e] = "requeued"
    BY <1>1, <2>1 DEF TodoInv, Redelivering
  <2> QED  BY <1>14, <2>1, <2>2 DEF Redelivering, InRedelivery
<1>16. CASE resolveDeadLetter(w)
  <2>1. /\ pc[w] = "reresolve" /\ pc'[w] = "redeliver" /\ cur[w] \in Events
        /\ todo' = todo /\ blocked'[w] = blocked[w] \ {LaneOf[cur[w]]}
        /\ handled' = handled
        /\ \/ letter' = [letter EXCEPT ![cur[w]] = "none"] /\ faults' = faults
           \/ letter' = letter /\ faults' = faults + 1
    BY <1>1, <1>2, <1>16 DEF resolveDeadLetter, Goto, Unblock, PassTypeOK, TypeInv, CurOK, Handling
  <2>2. cur[w] \in delivered
    BY <2>1 DEF Acting, IInv, WorkerInv, ReadInv
  <2>3. letter[cur[w]] = "requeued" /\ todo'[w] = todo[w] \ {cur[w]}
    BY <1>1, <2>1 DEF TodoInv, Redelivering, InRedelivery
  <2> QED  BY <1>14, <2>1, <2>2, <2>3 DEF Redelivering
<1> QED
  BY <1>3, <1>4, <1>6, <1>7, <1>8, <1>9, <1>10, <1>11, <1>12, <1>13, <1>15, <1>16 DEF tick

(* What the drain read of the tables stays all there is: nobody else       *)
(* writes them.                                                            *)
LEMMA FreshStep ==
    ASSUME NEW w \in Workers, Acting(w), tick(w) \/ Abort(w)
    PROVE  FreshInv(w)'
<1>1. TypeInv /\ FreshInv(w) /\ HandedInv(w)
  BY DEF Acting, LaneInv, PassInv
<1>2. /\ letter \in [Events -> {"none", "parked", "requeued"}] /\ PassTypeOK
      /\ delivered \subseteq Events
  BY <1>1 DEF TypeInv, TypeOK, TablesTypeOK
<1> USE DEF ReadRows, Visiting, Ahead, InHand
<1>3. CASE \/ blockedLanes(w) \/ requeuedDeadLetters(w) \/ Rehandle(w)
           \/ reparkDeadLetter(w) \/ Rerecord(w) \/ resolveDeadLetter(w) \/ Redelivered(w)
           \/ Load(w) \/ ReadHorizon(w)
           \/ \E e \in Events :
                RecheckFails(w, e) \/ AlreadyRecorded(w, e) \/ NotRecorded(w, e)
  <2>1. ~ ReadRows(w)'
    BY <1>2, <1>3 DEF blockedLanes, requeuedDeadLetters, Rehandle, attemptDelivery,
         reparkDeadLetter, Rerecord, resolveDeadLetter, Redelivered, Load, ReadHorizon,
         RecheckFails, AlreadyRecorded, NotRecorded, Goto, PassTypeOK
  <2>2. pc'[w] \in {"horizon", "poll"} => watermark'[w] = checkpoint'
    BY <1>1, <1>2, <1>3 DEF FreshInv, blockedLanes, requeuedDeadLetters, Rehandle,
         attemptDelivery, reparkDeadLetter, Rerecord, resolveDeadLetter, Redelivered, Load,
         ReadHorizon, RecheckFails, AlreadyRecorded, NotRecorded, Goto, PassTypeOK, tables
  <2> QED  BY <2>1, <2>2 DEF FreshInv
<1>4. CASE pollStream(w) \/ Save(w) \/ Abort(w)
  <2>1. \/ pc'[w] = "idle"
        \/ /\ pollStream(w) /\ pc'[w] = "deliveries" /\ polled'[w] = Committed
           /\ batch'[w] = PollRows(watermark[w], BatchSize) /\ UNCHANGED streamVars
    BY <1>2, <1>4 DEF pollStream, Save, Abort, Finish, Goto, PassTypeOK
  <2>2. PollRows(watermark[w], BatchSize) \subseteq Committed
    BY DEF PollRows
  <2> QED  BY <2>1, <2>2 DEF FreshInv, Committed, streamVars
<1>5. CASE recordedDeliveries(w) \/ recordedDeadLetters(w)
  <2>1. /\ UNCHANGED <<polled, batch, streamVars, letter, delivered>>
        /\ \/ pc[w] = "deliveries" /\ pc'[w] = "letters" /\ done'[w] = batch[w] \cap delivered
           \/ /\ pc[w] = "letters" /\ pc'[w] = "row" /\ done' = done
              /\ parked'[w] = {e \in batch[w] : letter[e] # "none"}
    BY <1>2, <1>5 DEF recordedDeliveries, recordedDeadLetters, Goto, PassTypeOK, tables
  <2> QED  BY <1>1, <2>1 DEF FreshInv, Committed, streamVars
<1>6. ASSUME NEW e \in Events,
             PassOver(w, e) \/ PassParked(w, e) \/ Hold(w, e) \/ Take(w, e)
      PROVE  FreshInv(w)'
  <2>1. /\ pc[w] = "row" /\ pc'[w] \in {"row", "handle"} /\ e \in batch[w]
        /\ batch'[w] = batch[w] \ {e}
        /\ pc'[w] = "handle" => cur'[w] = e
        /\ UNCHANGED <<polled, streamVars, letter, delivered, done, parked>>
    BY <1>2, <1>6 DEF PassOver, PassParked, Hold, Take, NextRow, IsFirst, Goto, PassTypeOK, tables
  <2> QED  BY <1>1, <2>1 DEF FreshInv, Committed, streamVars
<1>7. CASE Handle(w)
  <2>1. /\ pc[w] = "handle" /\ pc'[w] \in {"record", "park"}
        /\ UNCHANGED <<polled, streamVars, letter, delivered, done, parked, batch, cur>>
    BY <1>2, <1>7 DEF Handle, attemptDelivery, Goto, PassTypeOK, tables
  <2> QED  BY <1>1, <2>1 DEF FreshInv, Committed, streamVars
<1>8. CASE parkDeadLetter(w) \/ recordDelivery(w)
  <2>1. /\ InHand(w) /\ pc'[w] = "row"
        /\ UNCHANGED <<polled, streamVars, done, parked, batch>>
        /\ delivered' \subseteq delivered \cup {cur[w]}
        /\ \A e \in Events \ {cur[w]} : letter'[e] = letter[e]
    BY <1>2, <1>8 DEF parkDeadLetter, recordDelivery, Goto, PassTypeOK
  <2>2. cur[w] \notin batch[w] /\ batch[w] \subseteq Events
    <3>1. cur[w] \in Events /\ \A x \in Events : at[x] \in Nat /\ x \in Nat
      BY <1>1, <2>1, StreamAssumption
         DEF TypeInv, TypeOK, StreamTypeOK, CurOK, Handling, Events
    <3>2. ~ Before(cur[w], cur[w])
      BY <3>1 DEF Before
    <3> QED  BY <1>1, <1>2, <2>1, <3>2 DEF HandedInv, PassTypeOK
  <2> QED  BY <1>1, <2>1, <2>2 DEF FreshInv, Committed, streamVars
<1> QED
  BY <1>3, <1>4, <1>5, <1>6, <1>7, <1>8 DEF tick

(* The event in hand has neither letter nor completion row, and its lane   *)
(* is free until its own delivery fails.                                   *)
LEMMA HandedStep ==
    ASSUME NEW w \in Workers, Acting(w), tick(w) \/ Abort(w)
    PROVE  HandedInv(w)'
<1> USE DEF Fault, NoFault
<1>1. TypeInv /\ FreshInv(w) /\ HandedInv(w) /\ HeadsInv(w)
  BY DEF Acting, LaneInv, PassInv
<1>2. PassTypeOK /\ faults \in Nat
  BY <1>1, RegistryAssumption DEF TypeInv, TypeOK
<1>3. CASE ~ InHand(w)'
  BY <1>3 DEF InHand, HandedInv
<1>4. ASSUME NEW e \in Events, Take(w, e)
      PROVE  HandedInv(w)'
  <2>1. /\ pc[w] = "row" /\ pc'[w] = "handle" /\ cur'[w] = e /\ e \in batch[w]
        /\ batch'[w] = batch[w] \ {e} /\ \A f \in batch[w] \ {e} : Before(e, f)
        /\ e \notin done[w] /\ e \notin parked[w] /\ LaneOf[e] \notin blocked[w]
        /\ UNCHANGED <<streamVars, letter, delivered, blocked>>
    BY <1>2, <1>4 DEF Take, NextRow, IsFirst, Goto, PassTypeOK, tables
  <2>2. e \notin delivered /\ letter[e] = "none"
    BY <1>1, <2>1 DEF FreshInv, Visiting
  <2> QED  BY <2>1, <2>2 DEF HandedInv, InHand, Before, streamVars
<1>5. CASE Handle(w)
  <2>1. /\ pc[w] = "handle" /\ UNCHANGED <<streamVars, letter, delivered, batch, cur>>
        /\ \/ pc'[w] = "record"
           \/ /\ pc'[w] = "park" /\ faults' = faults + 1
              /\ blocked'[w] = blocked[w] \cup {LaneOf[cur[w]]}
    BY <1>2, <1>5 DEF Handle, attemptDelivery, Block, Goto, PassTypeOK, tables
  <2>2. ASSUME NEW g \in Events, LaneOf[g] = LaneOf[cur[w]], letter[g] # "none"
        PROVE  faults > 1
    <3>1. LaneOf[g] \notin blocked[w]
      BY <1>1, <2>1, <2>2 DEF HandedInv
    <3>2. Missed(g)
      BY <1>1, <2>1, <2>2, <3>1 DEF HeadsInv, Redelivering, InRedelivery
    <3> QED  BY <3>2 DEF Missed
  <2>3. /\ InHand(w)' => letter'[cur'[w]] = "none" /\ \A g \in batch'[w] : Before(cur[w], g)'
        /\ cur'[w] \notin delivered'
    BY <1>1, <2>1 DEF HandedInv, InHand, Before, streamVars
  <2>4. pc'[w] = "park" => /\ LaneOf[cur'[w]] \in blocked'[w] /\ faults' > 0
                           /\ \A g \in Events : LaneOf[g] = LaneOf[cur'[w]] /\ letter'[g] # "none"
                                => faults' > 2
    BY <1>2, <2>1, <2>2
  <2> QED  BY <2>1, <2>3, <2>4 DEF HandedInv, InHand, Before
<1>6. \/ ~ InHand(w)' \/ Handle(w) \/ \E e \in Events : Take(w, e)
  <2>1. CASE \/ blockedLanes(w) \/ requeuedDeadLetters(w) \/ Rehandle(w)
             \/ reparkDeadLetter(w) \/ Rerecord(w) \/ resolveDeadLetter(w) \/ Redelivered(w)
             \/ Load(w) \/ ReadHorizon(w) \/ recordedDeliveries(w)
             \/ recordedDeadLetters(w) \/ parkDeadLetter(w) \/ recordDelivery(w)
    BY <1>2, <2>1 DEF InHand, blockedLanes, requeuedDeadLetters, Rehandle, attemptDelivery,
         reparkDeadLetter, Rerecord, resolveDeadLetter, Redelivered, Load, ReadHorizon,
         recordedDeliveries, recordedDeadLetters, parkDeadLetter, recordDelivery, Goto,
         PassTypeOK
  <2>2. CASE pollStream(w) \/ Save(w) \/ Abort(w)
    BY <1>2, <2>2 DEF InHand, pollStream, Save, Abort, Finish, Goto, PassTypeOK
  <2>3. ASSUME NEW e \in Events,
               \/ RecheckFails(w, e) \/ AlreadyRecorded(w, e) \/ NotRecorded(w, e)
               \/ PassOver(w, e) \/ PassParked(w, e) \/ Hold(w, e)
        PROVE  ~ InHand(w)'
    BY <1>2, <2>3 DEF InHand, RecheckFails, AlreadyRecorded, NotRecorded, PassOver,
         PassParked, Hold, NextRow, Goto, PassTypeOK
  <2> QED  BY <2>1, <2>2, <2>3 DEF tick
<1> QED
  BY <1>3, <1>4, <1>5, <1>6

(* Whatever the poll could read is dealt with before the drain goes past   *)
(* it; what lies behind the checkpoint was dealt with before.              *)
LEMMA SeenStep ==
    ASSUME NEW w \in Workers, Acting(w), tick(w) \/ Abort(w)
    PROVE  SeenInv(w)'
<1> USE DEF Fault, NoFault
<1>1. TypeInv /\ FreshInv(w) /\ HandedInv(w) /\ SeenInv(w) /\ AcceptedInv /\ IInv
  BY DEF Acting, LaneInv, PassInv
<1>2. /\ letter \in [Events -> {"none", "parked", "requeued"}] /\ PassTypeOK
      /\ handled \in [Events -> Nat] /\ delivered \subseteq Events
  BY <1>1 DEF TypeInv, TypeOK, TablesTypeOK
<1>3. CASE ~ ReadRows(w)'
  BY <1>3 DEF SeenInv
<1>4. CASE pollStream(w) /\ ReadRows(w)'
  <2>1. /\ pc[w] = "poll" /\ pc'[w] = "deliveries" /\ polled'[w] = Committed
        /\ batch'[w] = PollRows(watermark[w], BatchSize)
        /\ UNCHANGED <<streamVars, tables, handled>>
    BY <1>2, <1>4 DEF pollStream, Finish, Goto, PassTypeOK, ReadRows, Visiting
  <2>2. watermark[w] = checkpoint /\ Ahead(w)' = PollRows(watermark[w], BatchSize)
    BY <1>1, <2>1 DEF FreshInv, Ahead, InHand
  <2> SUFFICES ASSUME NEW f \in Committed \cap Handled
               PROVE  \/ handled[f] > 0 \/ letter[f] # "none"
                      \/ f \in PollRows(checkpoint, BatchSize)
                      \/ \A g \in PollRows(checkpoint, BatchSize) : Before(g, f)
    BY <2>1, <2>2 DEF SeenInv, Committed, streamVars, tables, Before
  <2>3. f \in Events /\ tx[f] = "committed"
    BY DEF Committed
  <2>4. CASE ~ After(f, checkpoint)
    <3>1. Accounted(f)
      BY <1>1, <2>3, <2>4 DEF IInv, Safe, After
    <3> QED  BY <1>1, <2>3, <3>1 DEF Accounted, AcceptedInv, RecordedWasHandled
  <2>5. CASE After(f, checkpoint)
    <3> SUFFICES ASSUME f \notin PollRows(checkpoint, BatchSize),
                        NEW g \in PollRows(checkpoint, BatchSize)
                 PROVE  Before(g, f)
      OBVIOUS
    <3>1. ~ Before(f, g)
      BY <1>1, <2>5, PollRowsClosed, RegistryAssumption
    <3>2. g \in Events /\ g # f
      BY DEF PollRows, Committed
    <3>3. \A x \in Events : at[x] \in Nat /\ x \in Nat
      BY <1>1, StreamAssumption DEF TypeInv, TypeOK, StreamTypeOK, Events
    <3> QED  BY <2>3, <3>1, <3>2, <3>3 DEF Before
  <2> QED  BY <2>4, <2>5
<1>5. ASSUME ReadRows(w), UNCHANGED streamVars, polled'[w] = polled[w],
             Ahead(w)' \subseteq Ahead(w), blocked[w] \subseteq blocked'[w],
             \A f \in Events : /\ handled[f] > 0 => handled'[f] > 0
                               /\ letter[f] # "none" => letter'[f] # "none",
             \A f \in (Ahead(w) \ Ahead(w)') \cap Handled :
               handled'[f] > 0 \/ letter'[f] # "none" \/ LaneOf[f] \in blocked'[w]
      PROVE  SeenInv(w)'
  <2>1. polled[w] \subseteq Events
    BY <1>2 DEF PassTypeOK
  <2>2. \A f \in Events, g \in Events : Before(g, f) => Before(g, f)'
    BY <1>5 DEF Before, streamVars
  <2>3. Ahead(w) \subseteq Events
    BY <1>1, <1>2, <2>1, <1>5 DEF FreshInv
  <2> SUFFICES ASSUME NEW f \in polled[w] \cap Handled
               PROVE  \/ handled'[f] > 0 \/ letter'[f] # "none" \/ LaneOf[f] \in blocked'[w]
                      \/ f \in Ahead(w)' \/ \A g \in Ahead(w)' : Before(g, f)'
    BY <1>5 DEF SeenInv
  <2>4. \/ handled[f] > 0 \/ letter[f] # "none" \/ LaneOf[f] \in blocked[w]
        \/ f \in Ahead(w) \/ \A g \in Ahead(w) : Before(g, f)
    BY <1>1, <1>5 DEF SeenInv
  <2>5. CASE \A g \in Ahead(w) : Before(g, f)
    BY <1>5, <2>1, <2>2, <2>3, <2>5
  <2> HIDE DEF Before, Ahead
  <2> QED  BY <1>5, <2>1, <2>4, <2>5
<1>6. CASE recordedDeliveries(w) \/ recordedDeadLetters(w)
  <2>1. /\ ReadRows(w) /\ Ahead(w)' = Ahead(w)
        /\ UNCHANGED <<streamVars, polled, blocked, handled, letter>>
    BY <1>2, <1>6 DEF recordedDeliveries, recordedDeadLetters, ReadRows, Ahead, InHand, Goto,
                      PassTypeOK, tables
  <2> QED  BY <1>5, <2>1
<1>7. ASSUME NEW e \in Events,
             PassOver(w, e) \/ PassParked(w, e) \/ Hold(w, e) \/ Take(w, e)
      PROVE  SeenInv(w)'
  <2>1. /\ pc[w] = "row" /\ e \in batch[w] /\ batch'[w] = batch[w] \ {e}
        /\ UNCHANGED <<streamVars, polled, handled, letter>>
        /\ blocked[w] \subseteq blocked'[w]
    BY <1>2, <1>7 DEF PassOver, PassParked, Hold, Take, NextRow, IsFirst, Block, PassTypeOK,
                      tables
  <2>2. \/ pc'[w] = "handle" /\ cur'[w] = e
        \/ pc'[w] = "row" /\ (e \notin Handled \/ e \in done[w] \/ LaneOf[e] \in blocked'[w])
    BY <1>2, <1>7 DEF PassOver, PassParked, Hold, Take, NextRow, Block, Goto, PassTypeOK
  <2>3. e \in done[w] => handled[e] > 0
    BY <1>1 DEF IInv, WorkerInv, ReadInv, AcceptedInv, RecordedWasHandled
  <2>4. ReadRows(w) /\ Ahead(w) = batch[w]
    BY <2>1 DEF ReadRows, Visiting, Ahead, InHand
  <2>5. \/ Ahead(w)' = batch[w]
        \/ /\ Ahead(w)' = batch[w] \ {e}
           /\ e \notin Handled \/ e \in done[w] \/ LaneOf[e] \in blocked'[w]
    BY <2>1, <2>2 DEF Ahead, InHand
  <2> QED  BY <1>5, <2>1, <2>3, <2>4, <2>5
<1>8. CASE Handle(w)
  <2>1. /\ pc[w] = "handle" /\ pc'[w] \in {"record", "park"} /\ cur[w] \in Events
        /\ UNCHANGED <<streamVars, polled, letter, batch, cur>>
        /\ blocked[w] \subseteq blocked'[w]
        /\ handled' = handled \/ handled' = [handled EXCEPT ![cur[w]] = @ + 1]
    BY <1>1, <1>2, <1>8 DEF Handle, attemptDelivery, Block, Goto, PassTypeOK, tables, TypeInv,
                            CurOK, Handling
  <2>2. \A f \in Events : handled[f] > 0 => handled'[f] > 0
    BY <1>2, <2>1
  <2>3. ReadRows(w) /\ Ahead(w)' = Ahead(w)
    BY <2>1 DEF ReadRows, Visiting, Ahead, InHand
  <2> QED  BY <1>5, <2>1, <2>2, <2>3
<1>9. CASE parkDeadLetter(w) \/ recordDelivery(w)
  <2>1. /\ pc[w] \in {"park", "record"} /\ pc'[w] = "row"
        /\ UNCHANGED <<streamVars, polled, batch, blocked, handled>>
        /\ \A f \in Events : letter[f] # "none" => letter'[f] # "none"
    BY <1>2, <1>9 DEF parkDeadLetter, recordDelivery, Goto, PassTypeOK
  <2>2. handled[cur[w]] > 0 \/ LaneOf[cur[w]] \in blocked[w]
    BY <1>1, <2>1 DEF AcceptedInv, HandedInv
  <2>3. ReadRows(w) /\ Ahead(w)' = batch[w] /\ Ahead(w) = batch[w] \cup {cur[w]}
    BY <2>1 DEF ReadRows, Visiting, Ahead, InHand
  <2> QED  BY <1>5, <2>1, <2>2, <2>3
<1>10. \/ ~ ReadRows(w)' \/ pollStream(w) \/ recordedDeliveries(w) \/ recordedDeadLetters(w)
       \/ Handle(w) \/ parkDeadLetter(w) \/ recordDelivery(w)
       \/ \E e \in Events : PassOver(w, e) \/ PassParked(w, e) \/ Hold(w, e) \/ Take(w, e)
  <2> USE DEF ReadRows, Visiting
  <2>1. CASE \/ blockedLanes(w) \/ requeuedDeadLetters(w) \/ Rehandle(w)
             \/ reparkDeadLetter(w) \/ Rerecord(w) \/ resolveDeadLetter(w) \/ Redelivered(w)
             \/ Load(w) \/ ReadHorizon(w)
    BY <1>2, <2>1 DEF blockedLanes, requeuedDeadLetters, Rehandle, attemptDelivery,
         reparkDeadLetter, Rerecord, resolveDeadLetter, Redelivered, Load, ReadHorizon,
         Goto, PassTypeOK
  <2>2. CASE Save(w) \/ Abort(w)
    BY <1>2, <2>2 DEF Save, Abort, Finish, Goto, PassTypeOK
  <2>3. ASSUME NEW e \in Events,
               RecheckFails(w, e) \/ AlreadyRecorded(w, e) \/ NotRecorded(w, e)
        PROVE  ~ ReadRows(w)'
    BY <1>2, <2>3 DEF RecheckFails, AlreadyRecorded, NotRecorded, Goto, PassTypeOK
  <2> QED  BY <2>1, <2>2, <2>3 DEF tick
<1> QED
  BY <1>3, <1>4, <1>6, <1>7, <1>8, <1>9, <1>10

(* A pass that is not running has nothing to keep. *)
LEMMA IdlePass ==
    ASSUME NEW v \in Workers, pc[v] = "idle"
    PROVE  PassInv(v)
BY DEF PassInv, HeadsInv, TodoInv, FreshInv, HandedInv, SeenInv, InRedelivery, Redelivering,
       ReadRows, Visiting, InHand

(* A producer's step, or an operator's requeue, disturbs no pass. *)
LEMMA OutsideStep ==
    ASSUME TypeInv, TypeInv', Grows, LaneInv,
           UNCHANGED <<checkpoint, delivered, handled, faults, pc, local>>,
           \A e \in Events : \/ letter'[e] = letter[e]
                             \/ letter[e] = "parked" /\ letter'[e] = "requeued"
    PROVE  LaneInv'
<1>1. OneActive' /\ LettersInv' /\ RepeatsInv'
  <2>1. cur' = cur /\ \A e \in Events : letter'[e] # "none" => letter[e] # "none"
    BY DEF local
  <2>2. OneActive' /\ RepeatsInv'
    BY <2>1 DEF LaneInv, OneActive, RepeatsInv, AtRecord
  <2>3. delivered \subseteq Events /\ LettersInv
    BY DEF TypeInv, TypeOK, TablesTypeOK, LaneInv
  <2>4. LettersInv'
    BY <2>1, <2>3 DEF LettersInv
  <2> QED  BY <2>2, <2>4
<1>2. ASSUME NEW w \in Workers
      PROVE  PassInv(w)'
  <2> USE DEF local
  <2>1. PassInv(w) /\ PassTypeOK
    BY DEF LaneInv, TypeInv, TypeOK
  <2>2. \A e \in Events : Missed(e) => Missed(e)'
    BY DEF Missed
  <2>3. HeadsInv(w)' /\ TodoInv(w)'
    <3>1. /\ \A e \in Events : letter'[e] # "none" => letter[e] # "none"
          /\ \A e \in Events : letter'[e] = "parked" => letter[e] = "parked"
          /\ \A e \in Events : letter[e] = "requeued" => letter'[e] = "requeued"
      OBVIOUS
    <3>2. HeadsInv(w)'
      BY <2>1, <2>2, <3>1 DEF PassInv, HeadsInv, InRedelivery
    <3>3. todo[w] \subseteq Events /\ (InRedelivery(w) => cur[w] \in Events)
      BY <2>1 DEF PassTypeOK, TypeInv, CurOK, Handling, InRedelivery
    <3>4. TodoInv(w)'
      BY <2>1, <3>1, <3>3 DEF PassInv, TodoInv, InRedelivery
    <3> QED  BY <3>2, <3>4
  <2>4. \A e, f \in Events : tx[e] # "none" /\ tx[f] # "none" => (Before(e, f)' <=> Before(e, f))
    BY DEF Grows, Before
  <2>5. ReadRows(w) => /\ polled[w] \subseteq Committed /\ Ahead(w) \subseteq polled[w]
    BY <2>1 DEF PassInv, FreshInv
  <2>6. Committed \subseteq Committed' /\ Ahead(w)' = Ahead(w)
    BY DEF Grows, Committed, Ahead, InHand
  <2>7. FreshInv(w)'
    <3>1. batch[w] \subseteq Events /\ \A e \in Events : letter'[e] # "none" => letter[e] # "none"
      BY <2>1 DEF PassTypeOK
    <3> QED  BY <2>1, <2>5, <2>6, <3>1 DEF PassInv, FreshInv, ReadRows
  <2>8. HandedInv(w)'
    <3>1. CASE ~ InHand(w)
      BY <3>1 DEF HandedInv, InHand
    <3>2. CASE InHand(w)
      <4>1. /\ cur[w] \in Events /\ tx[cur[w]] # "none"
            /\ \A g \in batch[w] : g \in Events /\ tx[g] # "none"
        BY <2>5, <3>2 DEF InHand, Ahead, ReadRows, Visiting, Committed
      <4>2. \A g \in batch'[w] : Before(cur[w], g)'
        BY <2>1, <2>4, <3>2, <4>1 DEF PassInv, HandedInv
      <4>3. /\ letter'[cur[w]] = "none"
            /\ \A g \in Events : letter'[g] # "none" => letter[g] # "none"
        BY <2>1, <3>2, <4>1 DEF PassInv, HandedInv
      <4>4. HandedInv(w)
        BY <2>1 DEF PassInv
      <4> QED  BY <4>2, <4>3, <4>4 DEF HandedInv, InHand, Before
    <3> QED  BY <3>1, <3>2
  <2>9. SeenInv(w)'
    BY <2>1, <2>4, <2>5, <2>6 DEF PassInv, SeenInv, ReadRows, Committed
  <2> QED  BY <2>3, <2>7, <2>8, <2>9 DEF PassInv
<1> QED  BY <1>1, <1>2 DEF LaneInv

(* The invariant of the lanes is kept by every step. *)
LEMMA LaneStep ==
    ASSUME Exclusive, TypeInv, TypeInv', IInv, AcceptedInv, LaneInv, [Next]_vars
    PROVE  LaneInv'
<1>1. Grows
  BY GrowsStep DEF IInv, WorkerInv
<1>2. ASSUME NEW w \in Workers, tick(w) \/ Abort(w)
      PROVE  LaneInv'
  <2>1. OneActive' /\ \A v \in Workers \ {w} : pc[v] = "idle" /\ pc'[v] = "idle"
    BY <1>2, Alone DEF LaneInv
  <2>2. Acting(w)
    BY <2>1 DEF Acting
  <2>3. LettersInv' /\ RepeatsInv'
    BY <1>2, <2>2, LettersStep, RepeatsStep
  <2>4. PassInv(w)'
    BY <1>2, <2>2, HeadsStep, TodoStep, FreshStep, HandedStep, SeenStep DEF PassInv
  <2>5. \A v \in Workers \ {w} : PassInv(v)'
    BY <2>1 DEF PassInv, HeadsInv, TodoInv, FreshInv, HandedInv, SeenInv, InRedelivery,
         Redelivering, ReadRows, Visiting, InHand
  <2> QED  BY <2>1, <2>3, <2>4, <2>5 DEF LaneInv
<1>3. CASE Produce /\ UNCHANGED <<tables, handled, faults, pc, local>>
  BY <1>1, <1>3, OutsideStep DEF tables
<1>4. ASSUME NEW e \in Events, Requeue(e)
      PROVE  LaneInv'
  <2>1. \A f \in Events : \/ letter'[f] = letter[f]
                          \/ letter[f] = "parked" /\ letter'[f] = "requeued"
    BY <1>4 DEF Requeue, TypeInv, TypeOK, TablesTypeOK
  <2> QED  BY <1>1, <1>4, <2>1, OutsideStep DEF Requeue
<1>5. CASE UNCHANGED vars
  BY <1>1, <1>5, OutsideStep DEF vars, tables
<1> QED
  BY <1>2, <1>3, <1>4, <1>5 DEF Next

(* Order within a lane, while the advisory lock holds: a drain hands over  *)
(* an event only after every earlier one of its lane that was readable,    *)
(* but for a letter that two faults took out of its sight or three out of  *)
(* its hands; and every repetition costs a fault.                          *)
THEOREM LaneOrderHolds ==
    ASSUME Exclusive
    PROVE  Spec => []LaneOrder
<1>1. Init => LaneInv
  <2> SUFFICES ASSUME Init PROVE LaneInv
    OBVIOUS
  <2>1. OneActive /\ LettersInv /\ RepeatsInv
    BY DEF Init, OneActive, LettersInv, RepeatsInv
  <2>2. \A w \in Workers : PassInv(w)
    BY IdlePass DEF Init
  <2> QED  BY <2>1, <2>2 DEF LaneInv
<1>2. TypeInv /\ TypeInv' /\ IInv /\ AcceptedInv /\ LaneInv /\ [Next]_vars => LaneInv'
  BY LaneStep
<1>3. ASSUME TypeInv, LaneInv
      PROVE  LaneOrder
  <2>1. RepeatsNeedFaults
    <3>1. faults \in Nat /\ handled \in [Events -> Nat]
      BY <1>3, RegistryAssumption DEF TypeInv, TypeOK
    <3>2. \A e \in Events : handled[e] <= faults + 1
      BY <1>3, <3>1 DEF LaneInv, RepeatsInv
    <3> QED  BY <3>1, <3>2 DEF RepeatsNeedFaults
  <2>2. ASSUME NEW w \in Workers, pc[w] = "handle"
        PROVE  InOrder(w)
    <3> SUFFICES ASSUME NEW f \in polled[w] \cap Handled, LaneOf[f] = LaneOf[cur[w]],
                        Before(f, cur[w])
                 PROVE  handled[f] > 0 \/ Overtaken(f)
      BY DEF InOrder
    <3>1. HeadsInv(w) /\ FreshInv(w) /\ HandedInv(w) /\ SeenInv(w)
      BY <1>3 DEF LaneInv, PassInv
    <3>2. /\ f \in Events /\ cur[w] \in Events /\ batch[w] \subseteq Events
          /\ \A x \in Events : at[x] \in Nat /\ x \in Nat
      <4>1. PassTypeOK /\ cur[w] \in Events
        BY <1>3, <2>2 DEF TypeInv, TypeOK, CurOK, Handling
      <4>2. \A x \in Events : at[x] \in Nat /\ x \in Nat
        <5>1. StreamTypeOK
          BY <1>3 DEF TypeInv, TypeOK
        <5>2. at \in [Events -> 0 .. MaxTime]
          BY <5>1 DEF StreamTypeOK
        <5> QED  BY <5>2, StreamAssumption DEF Events
      <4> QED  BY <4>1, <4>2, StreamAssumption DEF PassTypeOK
    <3>3. Ahead(w) = batch[w] \cup {cur[w]} /\ ReadRows(w)
      BY <2>2 DEF Ahead, InHand, ReadRows, Visiting
    <3>4. f # cur[w] /\ ~ Before(cur[w], f)
      BY <3>2 DEF Before
    <3>5. f \notin batch[w]
      BY <2>2, <3>1, <3>4 DEF HandedInv, InHand
    <3>6. LaneOf[f] \notin blocked[w]
      BY <2>2, <3>1 DEF HandedInv
    <3>7. handled[f] > 0 \/ letter[f] # "none"
      BY <3>1, <3>3, <3>4, <3>5, <3>6 DEF SeenInv
    <3>8. letter[f] # "none" => Missed(f)
      BY <2>2, <3>1, <3>2, <3>6 DEF HeadsInv, Redelivering, InRedelivery
    <3> QED  BY <3>7, <3>8 DEF Missed, Overtaken
  <2> QED  BY <2>1, <2>2 DEF LaneOrder
<1> QED
  BY <1>1, <1>2, <1>3, Inductive, AcceptedHolds, PTL DEF Spec
==============================================================================
