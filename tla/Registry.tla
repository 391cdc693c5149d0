------------------------------- MODULE Registry -------------------------------
(***************************************************************************)
(* The durable subscriber registry of internal/platform/events: one        *)
(* subscriber's passes over the stream, with its three tables (checkpoint, *)
(* completed deliveries, dead letters), one action per statement a pass    *)
(* sends to the database or hands to the handler.                          *)
(*                                                                         *)
(* A pass is made by a worker, one process's scheduler job.  The           *)
(* scheduler's advisory lock lets one worker deliver at a time; Exclusive  *)
(* says whether the lock is in force (a lock whose session died no longer  *)
(* excludes anybody while its job is still running).                       *)
(***************************************************************************)
EXTENDS EventStream

CONSTANTS
    Workers,        \* the processes that run the delivery job
    Exclusive,      \* whether the advisory lock excludes a second worker
    BatchSize,      \* RegistryConfig.BatchSize
    MaxFaults,      \* bound: failures, crashes and cancellations together
    RequeuedReadFails   \* whether the read of the requeued rows may fail

ASSUME RegistryAssumption ==
    /\ Exclusive \in BOOLEAN
    /\ BatchSize \in Nat \ {0}
    /\ MaxFaults \in Nat
    /\ RequeuedReadFails \in BOOLEAN

VARIABLES
    checkpoint,     \* subscriber_checkpoint: an event's position, or 0
    delivered,      \* event_delivery: the events with a completion row
    letter,         \* event_dead_letter: "none", "parked" or "requeued"
    handled,        \* how often the handler accepted each event (history)
    faults,         \* how many faults have happened
    pc,             \* where each worker is in its pass
    blocked,        \* the lanes the pass holds
    todo,           \* the requeued events the pass has yet to redeliver
    openSince,      \* the open-transaction horizon the poll read
    polled,         \* every row readable at the last read of rows (history)
    batch,          \* the polled rows the pass has yet to visit
    unsettled,      \* the polled rows the poll marked unsettled
    done,           \* the polled rows found delivered
    parked,         \* the polled rows found in the dead-letter table
    cur,            \* the event being delivered
    watermark,      \* the position the pass would save
    advanced,       \* whether the pass moved it
    advancing       \* whether the passed prefix is still contiguous

tables == <<checkpoint, delivered, letter>>
local  == <<blocked, todo, openSince, polled, batch, unsettled, done, parked,
            cur, watermark, advanced, advancing>>
vars   == <<streamVars, tables, handled, faults, pc, local>>

Redelivering == {"redeliver", "rehandle", "repark", "rerecord", "reresolve"}
Draining     == {"load", "horizon", "poll", "deliveries", "letters"}
Visiting     == {"row", "handle", "park", "record"}

TablesTypeOK ==
    /\ checkpoint \in 0 .. N
    /\ delivered \subseteq Events
    /\ letter \in [Events -> {"none", "parked", "requeued"}]

PassTypeOK ==
    /\ pc \in [Workers -> {"idle", "requeued"} \cup Redelivering \cup Draining \cup Visiting]
    /\ blocked \in [Workers -> SUBSET Lanes]
    /\ todo \in [Workers -> SUBSET Events]
    /\ openSince \in [Workers -> 0 .. MaxTime]
    /\ polled \in [Workers -> SUBSET Events]
    /\ batch \in [Workers -> SUBSET Events]
    /\ unsettled \in [Workers -> SUBSET Events]
    /\ done \in [Workers -> SUBSET Events]
    /\ parked \in [Workers -> SUBSET Events]
    /\ cur \in [Workers -> 0 .. N]
    /\ watermark \in [Workers -> 0 .. N]
    /\ advanced \in [Workers -> BOOLEAN]
    /\ advancing \in [Workers -> BOOLEAN]

TypeOK ==
    /\ StreamTypeOK
    /\ TablesTypeOK
    /\ handled \in [Events -> Nat]
    /\ faults \in 0 .. MaxFaults
    /\ PassTypeOK

Init ==
    /\ StreamInit
    /\ checkpoint = 0
    /\ delivered = {}
    /\ letter = [e \in Events |-> "none"]
    /\ handled = [e \in Events |-> 0]
    /\ faults = 0
    /\ pc = [w \in Workers |-> "idle"]
    /\ blocked = [w \in Workers |-> {}]
    /\ todo = [w \in Workers |-> {}]
    /\ openSince = [w \in Workers |-> 0]
    /\ polled = [w \in Workers |-> {}]
    /\ batch = [w \in Workers |-> {}]
    /\ unsettled = [w \in Workers |-> {}]
    /\ done = [w \in Workers |-> {}]
    /\ parked = [w \in Workers |-> {}]
    /\ cur = [w \in Workers |-> 0]
    /\ watermark = [w \in Workers |-> 0]
    /\ advanced = [w \in Workers |-> FALSE]
    /\ advancing = [w \in Workers |-> FALSE]

------------------------------------------------------------------------------
Goto(w, p) == pc' = [pc EXCEPT ![w] = p]

(* The pass returns, and its local state is gone. *)
Finish(w) ==
    /\ Goto(w, "idle")
    /\ blocked' = [blocked EXCEPT ![w] = {}]
    /\ todo' = [todo EXCEPT ![w] = {}]
    /\ openSince' = [openSince EXCEPT ![w] = 0]
    /\ polled' = [polled EXCEPT ![w] = {}]
    /\ batch' = [batch EXCEPT ![w] = {}]
    /\ unsettled' = [unsettled EXCEPT ![w] = {}]
    /\ done' = [done EXCEPT ![w] = {}]
    /\ parked' = [parked EXCEPT ![w] = {}]
    /\ cur' = [cur EXCEPT ![w] = 0]
    /\ watermark' = [watermark EXCEPT ![w] = 0]
    /\ advanced' = [advanced EXCEPT ![w] = FALSE]
    /\ advancing' = [advancing EXCEPT ![w] = FALSE]

Fault == faults < MaxFaults /\ faults' = faults + 1
NoFault == UNCHANGED faults

Block(w, e) == blocked' = [blocked EXCEPT ![w] = @ \cup {LaneOf[e]}]

Unblock(w, e) == blocked' = [blocked EXCEPT ![w] = @ \ {LaneOf[e]}]

(* Mutant: no lane is ever found parked. *)
LaneParked_Never(l) == FALSE

LaneParked(l) == \E e \in Events : LaneOf[e] = l /\ letter[e] = "parked"

------------------------------------------------------------------------------
(* One subscriber's pass: the blocked lanes are read first. *)

blockedLanes(w) ==
    /\ pc[w] = "idle"
    /\ Exclusive => \A v \in Workers : pc[v] = "idle"
    /\ blocked' = [blocked EXCEPT ![w] = {l \in Lanes : LaneParked(l)}]
    /\ Goto(w, "requeued")
    /\ NoFault
    /\ UNCHANGED <<streamVars, tables, handled, todo, openSince, polled, batch,
                   unsettled, done, parked, cur, watermark, advanced, advancing>>

(* A failed read ends the redeliveries; the drain still runs. *)
requeuedDeadLetters(w) ==
    /\ pc[w] = "requeued"
    /\ \/ /\ todo' = [todo EXCEPT ![w] = {e \in Events : letter[e] = "requeued"}]
          /\ NoFault
       \/ /\ RequeuedReadFails
          /\ todo' = [todo EXCEPT ![w] = {}]
          /\ Fault
    /\ polled' = [polled EXCEPT ![w] = Committed]
    /\ Goto(w, "redeliver")
    /\ UNCHANGED <<streamVars, tables, handled, blocked, openSince, batch,
                   unsettled, done, parked, cur, watermark, advanced, advancing>>

(* The recorded check of the next requeued event fails: unknown holds the  *)
(* lane.                                                                   *)
RecheckFails(w, e) ==
    /\ pc[w] = "redeliver"
    /\ IsFirst(e, todo[w])
    /\ todo' = [todo EXCEPT ![w] = @ \ {e}]
    /\ Block(w, e)
    /\ Fault
    /\ UNCHANGED <<streamVars, tables, handled, pc, openSince, polled, batch,
                   unsettled, done, parked, cur, watermark, advanced, advancing>>

(* Mutant: every requeued event is taken for recorded. *)
AlreadyRecorded_Unread(w, e) ==
    /\ pc[w] = "redeliver"
    /\ IsFirst(e, todo[w])
    /\ todo' = [todo EXCEPT ![w] = @ \ {e}]
    /\ letter' = [letter EXCEPT ![e] = "none"]
    /\ Unblock(w, e)
    /\ NoFault
    /\ UNCHANGED <<streamVars, checkpoint, delivered, handled, pc, openSince,
                   polled, batch, unsettled, done, parked, cur, watermark,
                   advanced, advancing>>

(* It has its completion row already: only the letter is left to clear.    *)
AlreadyRecorded(w, e) ==
    /\ pc[w] = "redeliver"
    /\ IsFirst(e, todo[w])
    /\ e \in delivered
    /\ todo' = [todo EXCEPT ![w] = @ \ {e}]
    /\ \/ letter' = [letter EXCEPT ![e] = "none"] /\ NoFault
       \/ UNCHANGED letter /\ Fault
    /\ Unblock(w, e)
    /\ UNCHANGED <<streamVars, checkpoint, delivered, handled, pc, openSince,
                   polled, batch, unsettled, done, parked, cur, watermark,
                   advanced, advancing>>

NotRecorded(w, e) ==
    /\ pc[w] = "redeliver"
    /\ IsFirst(e, todo[w])
    /\ e \notin delivered
    /\ todo' = [todo EXCEPT ![w] = @ \ {e}]
    /\ cur' = [cur EXCEPT ![w] = e]
    /\ Goto(w, "rehandle")
    /\ NoFault
    /\ UNCHANGED <<streamVars, tables, handled, blocked, openSince, polled,
                   batch, unsettled, done, parked, watermark, advanced,
                   advancing>>

(* The handler accepts the event within its retry budget, or the budget is *)
(* spent and the lane holds.                                               *)
attemptDelivery(w, accepted, spent) ==
    \/ /\ handled' = [handled EXCEPT ![cur[w]] = @ + 1]
       /\ NoFault
       /\ Goto(w, accepted)
       /\ UNCHANGED blocked
    \/ /\ Fault
       /\ Block(w, cur[w])
       /\ Goto(w, spent)
       /\ UNCHANGED handled

Rehandle(w) ==
    /\ pc[w] = "rehandle"
    /\ attemptDelivery(w, "rerecord", "repark")
    /\ UNCHANGED <<streamVars, tables, todo, openSince, polled, batch, unsettled,
                   done, parked, cur, watermark, advanced, advancing>>

(* The update finds no row, or the lane's one parked row is another's:     *)
(* the letter stays as it is.                                              *)
reparkDeadLetter(w) ==
    LET e == cur[w] IN
    /\ pc[w] = "repark"
    /\ Goto(w, "redeliver")
    /\ \/ /\ letter[e] # "none"
          /\ \A f \in Events \ {e} : LaneOf[f] = LaneOf[e] => letter[f] # "parked"
          /\ letter' = [letter EXCEPT ![e] = "parked"]
          /\ NoFault
       \/ /\ \/ letter[e] = "none"
             \/ \E f \in Events \ {e} : LaneOf[f] = LaneOf[e] /\ letter[f] = "parked"
          /\ UNCHANGED letter /\ NoFault
       \/ UNCHANGED letter /\ Fault
    /\ UNCHANGED <<streamVars, checkpoint, delivered, handled, local>>

(* recordDelivery of a requeued event; its failure holds the lane. *)
Rerecord(w) ==
    /\ pc[w] = "rerecord"
    /\ \/ /\ delivered' = delivered \cup {cur[w]}
          /\ NoFault
          /\ Goto(w, "reresolve")
          /\ UNCHANGED blocked
       \/ /\ Fault
          /\ Block(w, cur[w])
          /\ Goto(w, "redeliver")
          /\ UNCHANGED delivered
    /\ UNCHANGED <<streamVars, checkpoint, letter, handled, todo, openSince, polled,
                   batch, unsettled, done, parked, cur, watermark, advanced, advancing>>

resolveDeadLetter(w) ==
    /\ pc[w] = "reresolve"
    /\ \/ letter' = [letter EXCEPT ![cur[w]] = "none"] /\ NoFault
       \/ UNCHANGED letter /\ Fault
    /\ Unblock(w, cur[w])
    /\ Goto(w, "redeliver")
    /\ UNCHANGED <<streamVars, checkpoint, delivered, handled, todo, openSince,
                   polled, batch, unsettled, done, parked, cur, watermark, advanced, advancing>>

Redelivered(w) ==
    /\ pc[w] = "redeliver"
    /\ todo[w] = {}
    /\ Goto(w, "load")
    /\ NoFault
    /\ UNCHANGED <<streamVars, tables, handled, local>>

------------------------------------------------------------------------------
(* drainStream: load the checkpoint, poll past it, read what the tables    *)
(* say of the batch.  A read that fails ends the pass: Abort.              *)

Load(w) ==
    /\ pc[w] = "load"
    /\ watermark' = [watermark EXCEPT ![w] = checkpoint]
    /\ Goto(w, "horizon")
    /\ NoFault
    /\ UNCHANGED <<streamVars, tables, handled, blocked, todo, openSince, polled,
                   batch, unsettled, done, parked, cur, advanced, advancing>>

ReadHorizon(w) ==
    /\ pc[w] = "horizon"
    /\ \E t \in 0 .. MaxTime :
          /\ oldestOpenTransaction(t)
          /\ openSince' = [openSince EXCEPT ![w] = t]
    /\ Goto(w, "poll")
    /\ NoFault
    /\ UNCHANGED <<streamVars, tables, handled, blocked, todo, polled, batch,
                   unsettled, done, parked, cur, watermark, advanced, advancing>>

pollStream(w) ==
    LET rows == PollRows(watermark[w], BatchSize) IN
    /\ pc[w] = "poll"
    /\ \/ rows = {} /\ Finish(w)
       \/ /\ rows # {}
          /\ Goto(w, "deliveries")
          /\ polled' = [polled EXCEPT ![w] = Committed]
          /\ batch' = [batch EXCEPT ![w] = rows]
          /\ unsettled' = [unsettled EXCEPT ![w] =
                             {e \in rows : ~Settled(e, openSince[w])}]
          /\ openSince' = [openSince EXCEPT ![w] = 0]
          /\ UNCHANGED <<blocked, todo, done, parked, cur, watermark, advanced,
                         advancing>>
    /\ NoFault
    /\ UNCHANGED <<streamVars, tables, handled>>

recordedDeliveries(w) ==
    /\ pc[w] = "deliveries"
    /\ done' = [done EXCEPT ![w] = batch[w] \cap delivered]
    /\ Goto(w, "letters")
    /\ NoFault
    /\ UNCHANGED <<streamVars, tables, handled, blocked, todo, openSince, polled,
                   batch, unsettled, parked, cur, watermark, advanced, advancing>>

recordedDeadLetters(w) ==
    /\ pc[w] = "letters"
    /\ parked' = [parked EXCEPT ![w] = {e \in batch[w] : letter[e] # "none"}]
    /\ advancing' = [advancing EXCEPT ![w] = TRUE]
    /\ Goto(w, "row")
    /\ NoFault
    /\ UNCHANGED <<streamVars, tables, handled, blocked, todo, openSince, polled,
                   batch, unsettled, done, cur, watermark, advanced>>

------------------------------------------------------------------------------
(* The loop over the batch. *)

Pin(w) == advancing' = [advancing EXCEPT ![w] = FALSE]

(* The watermark moves over e while the passed prefix is contiguous. *)
pass(w, e, adv) ==
    /\ watermark' = [watermark EXCEPT ![w] = IF adv THEN e ELSE @]
    /\ advanced' = [advanced EXCEPT ![w] = @ \/ adv]
    /\ advancing' = [advancing EXCEPT ![w] = adv]

(* The next row of the batch, and whether the prefix stays contiguous up   *)
(* to it: an unsettled row ends it whatever the row itself needs.          *)
NextRow(w, e) ==
    /\ pc[w] = "row"
    /\ IsFirst(e, batch[w])
    /\ batch' = [batch EXCEPT ![w] = @ \ {e}]

Contiguous(w, e) == advancing[w] /\ e \notin unsettled[w]

(* A type the subscriber does not handle, or a recorded delivery. *)
PassOver(w, e) ==
    /\ NextRow(w, e)
    /\ e \notin Handled \/ e \in done[w]
    /\ pass(w, e, Contiguous(w, e))
    /\ NoFault
    /\ UNCHANGED <<streamVars, tables, handled, pc, blocked, todo, openSince,
                   polled, unsettled, done, parked, cur>>

(* In the dead-letter table: the requeue path owns it, and its lane holds. *)
PassParked(w, e) ==
    /\ NextRow(w, e)
    /\ e \in Handled /\ e \notin done[w] /\ e \in parked[w]
    /\ Block(w, e)
    /\ pass(w, e, Contiguous(w, e))
    /\ NoFault
    /\ UNCHANGED <<streamVars, tables, handled, pc, todo, openSince, polled,
                   unsettled, done, parked, cur>>

(* Held behind its lane's parked head. *)
Hold(w, e) ==
    /\ NextRow(w, e)
    /\ e \in Handled /\ e \notin done[w] /\ e \notin parked[w]
    /\ LaneOf[e] \in blocked[w]
    /\ Pin(w)
    /\ NoFault
    /\ UNCHANGED <<streamVars, tables, handled, pc, blocked, todo, openSince,
                   polled, unsettled, done, parked, cur, watermark, advanced>>

(* The row to hand to the handler. *)
Take(w, e) ==
    /\ NextRow(w, e)
    /\ e \in Handled /\ e \notin done[w] /\ e \notin parked[w]
    /\ LaneOf[e] \notin blocked[w]
    /\ cur' = [cur EXCEPT ![w] = e]
    /\ advancing' = [advancing EXCEPT ![w] = Contiguous(w, e)]
    /\ Goto(w, "handle")
    /\ NoFault
    /\ UNCHANGED <<streamVars, tables, handled, blocked, todo, openSince,
                   polled, unsettled, done, parked, watermark, advanced>>

Handle(w) ==
    /\ pc[w] = "handle"
    /\ attemptDelivery(w, "record", "park")
    /\ UNCHANGED <<streamVars, tables, todo, openSince, polled, batch, unsettled,
                   done, parked, cur, watermark, advanced, advancing>>

(* The insert is refused for an event already in the table and for a       *)
(* second parked event on a lane; a refusal pins the checkpoint.           *)
parkDeadLetter(w) ==
    LET e == cur[w] IN
    /\ pc[w] = "park"
    /\ Goto(w, "row")
    /\ \/ /\ letter[e] = "none" /\ ~LaneParked(LaneOf[e])
          /\ letter' = [letter EXCEPT ![e] = "parked"]
          /\ pass(w, e, advancing[w])
          /\ NoFault
       \/ /\ letter[e] # "none" \/ LaneParked(LaneOf[e])
          /\ Pin(w) /\ NoFault /\ UNCHANGED <<letter, watermark, advanced>>
       \/ Pin(w) /\ Fault /\ UNCHANGED <<letter, watermark, advanced>>
    /\ UNCHANGED <<streamVars, checkpoint, delivered, handled, blocked, todo,
                   openSince, polled, batch, unsettled, done, parked, cur>>

recordDelivery(w) ==
    /\ pc[w] = "record"
    /\ Goto(w, "row")
    /\ \/ /\ delivered' = delivered \cup {cur[w]}
          /\ pass(w, cur[w], advancing[w])
          /\ NoFault
       \/ Pin(w) /\ Fault /\ UNCHANGED <<delivered, watermark, advanced>>
    /\ UNCHANGED <<streamVars, checkpoint, letter, handled, blocked, todo, openSince,
                   polled, batch, unsettled, done, parked, cur>>

(* The upsert that replaces whatever position was saved before.  A pass    *)
(* that passed nothing leaves the table alone; one whose save fails is     *)
(* Abort's.                                                                *)
Save(w) ==
    /\ pc[w] = "row"
    /\ batch[w] = {}
    /\ checkpoint' = IF advanced[w] THEN watermark[w] ELSE checkpoint
    /\ Finish(w)
    /\ NoFault
    /\ UNCHANGED <<streamVars, delivered, letter, handled>>

------------------------------------------------------------------------------
(* A crash, a cancelled context, or a failed read ends the pass where it   *)
(* stands: what the tables hold stays, what the pass remembered is gone.   *)
Abort(w) ==
    /\ pc[w] # "idle"
    /\ Fault
    /\ Finish(w)
    /\ UNCHANGED <<streamVars, tables, handled>>

(* An operator's Requeue. *)
Requeue(e) ==
    /\ letter[e] = "parked"
    /\ letter' = [letter EXCEPT ![e] = "requeued"]
    /\ UNCHANGED <<streamVars, checkpoint, delivered, handled, faults, pc, local>>

tick(w) ==
    \/ blockedLanes(w) \/ requeuedDeadLetters(w)
    \/ \E e \in Events : RecheckFails(w, e) \/ AlreadyRecorded(w, e) \/ NotRecorded(w, e)
    \/ Rehandle(w) \/ reparkDeadLetter(w)
    \/ Rerecord(w) \/ resolveDeadLetter(w) \/ Redelivered(w)
    \/ Load(w) \/ ReadHorizon(w) \/ pollStream(w)
    \/ recordedDeliveries(w) \/ recordedDeadLetters(w)
    \/ \E e \in Events :
         PassOver(w, e) \/ PassParked(w, e) \/ Hold(w, e) \/ Take(w, e)
    \/ Handle(w) \/ parkDeadLetter(w) \/ recordDelivery(w) \/ Save(w)

Next ==
    \/ Produce /\ UNCHANGED <<tables, handled, faults, pc, local>>
    \/ \E w \in Workers : tick(w) \/ Abort(w)
    \/ \E e \in Events : Requeue(e)

Spec == Init /\ [][Next]_vars

(* What the code's scheduling gives: the job is run again and again while  *)
(* faults stay finite, transactions end, the clock runs and an operator    *)
(* gets to every parked letter.                                            *)
FairSpec ==
    /\ Spec
    /\ \A w \in Workers : WF_vars(tick(w))
    /\ \A e \in Events :
         /\ WF_vars((Append(e) \/ AlreadyAppended(e) \/ Commit(e) \/ Rollback(e))
                     /\ UNCHANGED <<tables, handled, faults, pc, local>>)
         /\ WF_vars(Requeue(e))
    /\ WF_vars(AdvanceClock /\ UNCHANGED <<tables, handled, faults, pc, local>>)

------------------------------------------------------------------------------
(* Properties. *)

(* Everything at or behind the saved checkpoint is accounted for: its      *)
(* transaction is over, and if it appended an event the subscriber         *)
(* handles, the event has a completion row or a dead letter.  The          *)
(* checkpoint is durable, so an event it passed otherwise is never         *)
(* delivered at all (Registry, "No skips").                                *)
Accounted(e) ==
    \/ tx[e] = "aborted"
    \/ tx[e] = "committed" /\ (e \in Handled => e \in delivered \/ letter[e] # "none")

NoSkip ==
    \A e \in Events : tx[e] # "none" /\ ~After(e, checkpoint) => Accounted(e)

(* A completion row is written only for an event the handler accepted      *)
(* (recordDelivery comes after attemptDelivery).                           *)
RecordedWasHandled == \A e \in delivered : handled[e] > 0

(* Without a fault nothing is handled twice: the completion row turns      *)
(* every redelivery into a no-op, and each fault costs one repetition of   *)
(* one delivery at most.                                                   *)
RepeatsNeedFaults == \A e \in Events : handled[e] <= 1 + faults

(* How the head f of a lane is overtaken all the same.  Requeued, it is    *)
(* missed by a pass whose read of the requeued letters failed: a second    *)
(* fault after the one that cost it its delivery.  Or its lane has another *)
(* letter, left by an event that was delivered or missed before, and       *)
(* clearing that one lets go of the lane: a third fault.                   *)
Overtaken(f) ==
    /\ letter[f] # "none"
    /\ \/ faults > 2
       \/ RequeuedReadFails /\ faults > 1 /\ letter[f] = "requeued"

(* When a drain hands an event to the handler, every earlier event of its  *)
(* lane that the poll could read has been handled.                         *)
InOrder(w) ==
    \A f \in polled[w] \cap Handled :
        LaneOf[f] = LaneOf[cur[w]] /\ Before(f, cur[w])
            => handled[f] > 0 \/ Overtaken(f)

(* Within a lane the subscriber sees events in stream order, and each once *)
(* unless a fault cost a repetition.  A head that was not handled yet is   *)
(* overtaken only as a letter, and never by one fault, nor by two while    *)
(* the requeued letters can be read.                                       *)
LaneOrder ==
    /\ \A w \in Workers : pc[w] = "handle" => InOrder(w)
    /\ RepeatsNeedFaults

(* "A held event can never overtake its lane's parked head" (tick). *)
ParkedHeadFirst ==
    \A w \in Workers : pc[w] = "handle" => \A f \in Events :
        LaneOf[f] = LaneOf[cur[w]] /\ Before(f, cur[w]) => letter[f] # "parked"

(* A dead letter leaves the table only once its event has a completion     *)
(* row: no parked delivery is dropped (consumer rule 4).                   *)
LetterOutlivesFailure ==
    [][\A e \in Events : letter[e] # "none" /\ letter'[e] = "none"
            => e \in delivered]_vars

(* Every committed event of a handled type is delivered in the end, late   *)
(* commits, crashes and requeues included, and the checkpoint passes every *)
(* committed event: the two rules that pin it, settlement and blocked      *)
(* lanes, both let go.                                                     *)
EventuallyDelivered ==
    /\ \A e \in Handled : tx[e] = "committed" ~> e \in delivered
    /\ \A e \in Events : tx[e] = "committed" ~> ~After(e, checkpoint)
==============================================================================
