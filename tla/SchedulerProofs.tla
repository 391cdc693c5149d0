---------------------------- MODULE SchedulerProofs ----------------------------
(***************************************************************************)
(* Scheduler, for every fleet, set of jobs and pool: each job that two     *)
(* instances run at once costs a lock session, no lock outlives its run,   *)
(* and with the ledger outside the pool its callers never wedge it.        *)
(***************************************************************************)
EXTENDS Scheduler, Sums

------------------------------------------------------------------------------
(* The inductive invariant.                                                *)

(* The connections a job or handler has out, by where it is. *)
Out(a, l) ==
    CASE l = "wait" -> 0
      [] l \in {"run", "release"} -> 1
      [] l \in {"tx", "acquire"} -> IF a \in Jobs THEN 2 ELSE 1
      [] l = "post" -> (IF a \in Jobs THEN 2 ELSE 1) + LedgerConns

ConnsMatch == \A i \in Instances, a \in Actors :
    /\ conns[i][a] = Out(a, pc[i][a])
    /\ a \notin Jobs => pc[i][a] \notin {"run", "release"}

(* A job's run that lost its lock. *)
Orphan(i, j) == Running(i, j) /\ holder[j] # i

Orphaned == {j \in Jobs : \E i \in Instances : Orphan(i, j)}

Inv ==
    /\ TypeOK
    /\ CheckCapacity(size)
    /\ ConnsMatch
    /\ LockFollowsRun
    /\ Cardinality(Orphaned) <= faults

------------------------------------------------------------------------------
(* Types and connections.                                                  *)

(* What one step of actor a of instance i does to its place. *)
LEMMA GotoStep ==
    ASSUME TypeOK, ConnsMatch, NEW i \in Instances, NEW a \in Actors,
           NEW l \in {"wait", "run", "tx", "acquire", "post", "release"}, NEW n,
           Goto(i, a, l, n), n = Out(a, l), a \notin Jobs => l \notin {"run", "release"}
    PROVE  /\ pc' \in [Instances -> [Actors -> {"wait", "run", "tx", "acquire", "post", "release"}]]
           /\ conns' \in [Instances -> [Actors -> 0 .. 3]]
           /\ size' = size
           /\ ConnsMatch'
           /\ pc'[i][a] = l
           /\ \A k \in Instances, b \in Actors : <<k, b>> # <<i, a>> => pc'[k][b] = pc[k][b]
<1>1. n \in 0 .. 3
  BY SchedulerAssumption DEF Out, LedgerConns
<1>2. /\ pc' \in [Instances -> [Actors -> {"wait", "run", "tx", "acquire", "post", "release"}]]
      /\ conns' \in [Instances -> [Actors -> 0 .. 3]]
      /\ size' = size
  BY <1>1 DEF Goto, TypeOK
<1>3. pc'[i][a] = l /\ conns'[i][a] = n
  BY DEF Goto, TypeOK
<1>4. \A k \in Instances, b \in Actors :
        <<k, b>> # <<i, a>> => pc'[k][b] = pc[k][b] /\ conns'[k][b] = conns[k][b]
  BY DEF Goto, TypeOK
<1>5. ConnsMatch'
  <2> SUFFICES ASSUME NEW k \in Instances, NEW b \in Actors
               PROVE  /\ conns'[k][b] = Out(b, pc'[k][b])
                      /\ b \notin Jobs => pc'[k][b] \notin {"run", "release"}
    BY DEF ConnsMatch
  <2>1. CASE <<k, b>> = <<i, a>>
    BY <1>3, <2>1
  <2>2. CASE <<k, b>> # <<i, a>>
    BY <1>4, <2>2 DEF ConnsMatch
  <2> QED  BY <2>1, <2>2
<1> QED  BY <1>2, <1>3, <1>4, <1>5

Places == {"wait", "run", "tx", "acquire", "post", "release"}

(* a goes to l with the connections that belong there. *)
Proceeds(i, a, l) == Goto(i, a, l, Out(a, l)) /\ (a \notin Jobs => l \notin {"run", "release"})

(* Every step but the death of a session moves one actor on. *)
LEMMA StepsProceed ==
    ASSUME Inv, NEW i \in Instances
    PROVE  /\ \A j \in Jobs : TryLock(i, j) => Proceeds(i, j, "run")
           /\ \A j \in Jobs : TimesOut(i, j) => Proceeds(i, j, "release")
           /\ \A j \in Jobs : Release(i, j) => Proceeds(i, j, "wait")
           /\ \A a \in Actors : BeginTx(i, a) => Proceeds(i, a, "tx")
           /\ \A a \in Actors : Post(i, a) => Proceeds(i, a, "acquire")
           /\ \A a \in Actors : AcquireForLedger(i, a) => Proceeds(i, a, "post")
           /\ \A a \in Actors : Posted(i, a) => Proceeds(i, a, "tx")
           /\ \A a \in Actors : EndTx(i, a) =>
                IF a \in Jobs THEN \E l \in {"run", "release"} : Proceeds(i, a, l)
                ELSE Proceeds(i, a, "wait")
<1> USE DEF Inv, Proceeds, Out
<1>1. \A j \in Jobs : j \in Actors
  BY DEF Actors
<1>2. \A a \in Actors : conns[i][a] = Out(a, pc[i][a])
  BY DEF ConnsMatch
<1>3. LedgerConns \in {0, 1}
  BY DEF LedgerConns
<1>4. \A j \in Jobs : TryLock(i, j) => Proceeds(i, j, "run")
  BY DEF TryLock
<1>5. \A j \in Jobs : TimesOut(i, j) => Proceeds(i, j, "release")
  BY DEF TimesOut
<1>6. \A j \in Jobs : Release(i, j) => Proceeds(i, j, "wait")
  BY DEF Release
<1>7. ASSUME NEW a \in Actors, BeginTx(i, a) PROVE Proceeds(i, a, "tx")
  <2>1. conns[i][a] + 1 = Out(a, "tx")
    BY <1>2, <1>7 DEF BeginTx
  <2> QED  BY <1>7, <2>1 DEF BeginTx
<1>8. ASSUME NEW a \in Actors, Post(i, a) PROVE Proceeds(i, a, "acquire")
  <2>1. conns[i][a] = Out(a, "acquire")
    BY <1>2, <1>8 DEF Post
  <2> QED  BY <1>8, <2>1 DEF Post
<1>9. ASSUME NEW a \in Actors, AcquireForLedger(i, a) PROVE Proceeds(i, a, "post")
  <2>1. conns[i][a] + LedgerConns = Out(a, "post")
    BY <1>2, <1>3, <1>9 DEF AcquireForLedger
  <2> QED  BY <1>9, <2>1 DEF AcquireForLedger
<1>10. ASSUME NEW a \in Actors, Posted(i, a) PROVE Proceeds(i, a, "tx")
  <2>1. conns[i][a] - LedgerConns = Out(a, "tx")
    BY <1>2, <1>3, <1>10 DEF Posted
  <2> QED  BY <1>10, <2>1 DEF Posted
<1>11. ASSUME NEW a \in Actors, EndTx(i, a)
       PROVE  IF a \in Jobs THEN \E l \in {"run", "release"} : Proceeds(i, a, l)
              ELSE Proceeds(i, a, "wait")
  <2>1. conns[i][a] - 1 = IF a \in Jobs THEN 1 ELSE 0
    BY <1>2, <1>11 DEF EndTx
  <2>2. CASE a \in Jobs
    BY <1>11, <2>1, <2>2 DEF EndTx
  <2>3. CASE a \notin Jobs
    BY <1>11, <2>1, <2>3 DEF EndTx
  <2> QED  BY <2>2, <2>3
<1> HIDE DEF Proceeds, Out, Inv
<1> QED  BY <1>4, <1>5, <1>6, <1>7, <1>8, <1>9, <1>10, <1>11

(* Fewer or the same orphans do not outnumber the sessions that died. *)
LEMMA OrphansShrink ==
    ASSUME Inv, faults' = faults, Orphaned' \subseteq Orphaned
    PROVE  Cardinality(Orphaned') <= faults'
<1>1. IsFiniteSet(Orphaned)
  BY SchedulerAssumption, FS_Subset DEF Orphaned
<1>2. Cardinality(Orphaned') <= Cardinality(Orphaned)
  BY <1>1, FS_Subset
<1>3. Cardinality(Orphaned') \in Nat /\ Cardinality(Orphaned) \in Nat
  BY <1>1, FS_Subset, FS_CardinalityType
<1> QED  BY <1>2, <1>3 DEF Inv, TypeOK

(* An actor that is running goes on running, under the lock it has. *)
LEMMA GoesOn ==
    ASSUME Inv, NEW i \in Instances, NEW a \in Actors, NEW l \in Places,
           Proceeds(i, a, l), UNCHANGED <<holder, faults>>,
           a \in Jobs => pc[i][a] # "wait" /\ l # "wait"
    PROVE  Inv'
<1>1. /\ pc' \in [Instances -> [Actors -> Places]]
      /\ conns' \in [Instances -> [Actors -> 0 .. 3]]
      /\ size' = size /\ ConnsMatch'
      /\ \A k \in Instances, b \in Actors : <<k, b>> # <<i, a>> => pc'[k][b] = pc[k][b]
      /\ pc'[i][a] = l
  BY GotoStep DEF Inv, Proceeds, Places
<1>2. TypeOK' /\ CheckCapacity(size)'
  BY <1>1 DEF Inv, TypeOK, CheckCapacity, Places
<1>3. \A k \in Instances, j \in Jobs : Running(k, j)' <=> Running(k, j)
  BY <1>1 DEF Running, Actors
<1>4. LockFollowsRun'
  BY <1>3 DEF Inv, LockFollowsRun, TypeOK
<1>5. Orphaned' \subseteq Orphaned
  BY <1>3 DEF Orphaned, Orphan
<1> QED  BY <1>1, <1>2, <1>4, <1>5, OrphansShrink DEF Inv

(* A job that gets the lock is no orphan. *)
LEMMA LockTaken ==
    ASSUME Inv, NEW i \in Instances, NEW j \in Jobs, TryLock(i, j)
    PROVE  Inv'
<1>1. /\ pc' \in [Instances -> [Actors -> Places]]
      /\ conns' \in [Instances -> [Actors -> 0 .. 3]]
      /\ size' = size /\ ConnsMatch'
      /\ \A k \in Instances, b \in Actors : <<k, b>> # <<i, j>> => pc'[k][b] = pc[k][b]
      /\ pc'[i][j] = "run"
  <2>1. Proceeds(i, j, "run") /\ j \in Actors
    BY StepsProceed DEF Actors
  <2> QED  BY <2>1, GotoStep DEF Inv, Proceeds, Places
<1>2. /\ pc[i][j] = "wait" /\ holder[j] = NoInstance
      /\ holder' = [holder EXCEPT ![j] = i] /\ faults' = faults
  BY DEF TryLock
<1>3. TypeOK' /\ CheckCapacity(size)'
  BY <1>1, <1>2 DEF Inv, TypeOK, CheckCapacity, Places
<1>4. LockFollowsRun'
  BY <1>1, <1>2, SchedulerAssumption DEF Inv, LockFollowsRun, Running, TypeOK, Actors
<1>5. Orphaned' \subseteq Orphaned
  BY <1>1, <1>2, SchedulerAssumption DEF Inv, TypeOK, Orphaned, Orphan, Running, Actors
<1> QED  BY <1>1, <1>2, <1>3, <1>4, <1>5, OrphansShrink DEF Inv

(* A run that ends takes its lock with it. *)
LEMMA LockFreed ==
    ASSUME Inv, NEW i \in Instances, NEW j \in Jobs, Release(i, j)
    PROVE  Inv'
<1>1. /\ pc' \in [Instances -> [Actors -> Places]]
      /\ conns' \in [Instances -> [Actors -> 0 .. 3]]
      /\ size' = size /\ ConnsMatch'
      /\ \A k \in Instances, b \in Actors : <<k, b>> # <<i, j>> => pc'[k][b] = pc[k][b]
      /\ pc'[i][j] = "wait"
  <2>1. Proceeds(i, j, "wait") /\ j \in Actors
    BY StepsProceed DEF Actors
  <2> QED  BY <2>1, GotoStep DEF Inv, Proceeds, Places
<1>2. /\ holder' = [holder EXCEPT ![j] = IF @ = i THEN NoInstance ELSE @]
      /\ faults' = faults
  BY DEF Release
<1>3. TypeOK' /\ CheckCapacity(size)'
  BY <1>1, <1>2 DEF Inv, TypeOK, CheckCapacity, Places
<1>4. LockFollowsRun'
  BY <1>1, <1>2, SchedulerAssumption DEF Inv, LockFollowsRun, Running, TypeOK, Actors
<1>5. Orphaned' \subseteq Orphaned
  BY <1>1, <1>2, SchedulerAssumption DEF Inv, TypeOK, Orphaned, Orphan, Running, Actors
<1> QED  BY <1>1, <1>2, <1>3, <1>4, <1>5, OrphansShrink DEF Inv

(* A session that dies costs a fault and orphans one run. *)
LEMMA SessionLost ==
    ASSUME Inv, NEW i \in Instances, NEW j \in Jobs, SessionDies(i, j)
    PROVE  Inv'
<1>1. /\ UNCHANGED <<size, pc, conns>> /\ holder' = [holder EXCEPT ![j] = NoInstance]
      /\ faults' = faults + 1 /\ faults < MaxFaults
  BY DEF SessionDies
<1>2. TypeOK' /\ CheckCapacity(size)' /\ ConnsMatch'
  BY <1>1, SchedulerAssumption DEF Inv, TypeOK, CheckCapacity, ConnsMatch
<1>3. LockFollowsRun'
  BY <1>1, SchedulerAssumption DEF Inv, LockFollowsRun, Running, TypeOK
<1>4. Orphaned' \subseteq Orphaned \cup {j}
  BY <1>1 DEF Inv, TypeOK, Orphaned, Orphan, Running
<1>5. IsFiniteSet(Orphaned)
  BY SchedulerAssumption, FS_Subset DEF Orphaned
<1>6. /\ IsFiniteSet(Orphaned \cup {j}) /\ Cardinality(Orphaned) \in Nat
      /\ Cardinality(Orphaned \cup {j}) <= Cardinality(Orphaned) + 1
  <2>1. Cardinality(Orphaned) \in Nat
    BY <1>5, FS_CardinalityType
  <2>2. IsFiniteSet(Orphaned \cup {j})
    BY <1>5, FS_AddElement
  <2>3. \/ Cardinality(Orphaned \cup {j}) = Cardinality(Orphaned)
        \/ Cardinality(Orphaned \cup {j}) = Cardinality(Orphaned) + 1
    BY <1>5, FS_AddElement
  <2> QED  BY <2>1, <2>2, <2>3
<1>7. Cardinality(Orphaned') <= Cardinality(Orphaned \cup {j})
  BY <1>4, <1>6, FS_Subset
<1>8. Cardinality(Orphaned') \in Nat /\ Cardinality(Orphaned \cup {j}) \in Nat
  BY <1>4, <1>6, FS_Subset, FS_CardinalityType
<1>9. Cardinality(Orphaned') <= faults'
  BY <1>1, <1>6, <1>7, <1>8 DEF Inv, TypeOK
<1> QED  BY <1>2, <1>3, <1>9 DEF Inv

(* The invariant is inductive. *)
LEMMA InvStep == Inv /\ [Next]_vars => Inv'
<1> SUFFICES ASSUME Inv, [Next]_vars PROVE Inv'
  OBVIOUS
<1>1. ASSUME NEW i \in Instances, NEW j \in Jobs,
             TryLock(i, j) \/ Release(i, j) \/ SessionDies(i, j)
      PROVE  Inv'
  BY <1>1, LockTaken, LockFreed, SessionLost
<1>2. ASSUME NEW i \in Instances, NEW j \in Jobs, TimesOut(i, j) PROVE Inv'
  <2>1. Proceeds(i, j, "release") /\ UNCHANGED <<holder, faults>> /\ pc[i][j] # "wait" /\ j \in Actors
    BY <1>2, StepsProceed DEF TimesOut, Actors
  <2> QED  BY <2>1, GoesOn DEF Places
<1>3. ASSUME NEW i \in Instances, NEW a \in Actors, BeginTx(i, a) PROVE Inv'
  <2>1. Proceeds(i, a, "tx") /\ UNCHANGED <<holder, faults>> /\ (a \in Jobs => pc[i][a] # "wait")
    BY <1>3, StepsProceed DEF BeginTx
  <2> QED  BY <2>1, GoesOn DEF Places
<1>4. ASSUME NEW i \in Instances, NEW a \in Actors, Post(i, a) PROVE Inv'
  <2>1. Proceeds(i, a, "acquire") /\ UNCHANGED <<holder, faults>> /\ pc[i][a] # "wait"
    BY <1>4, StepsProceed DEF Post
  <2> QED  BY <2>1, GoesOn DEF Places
<1>5. ASSUME NEW i \in Instances, NEW a \in Actors, AcquireForLedger(i, a) PROVE Inv'
  <2>1. Proceeds(i, a, "post") /\ UNCHANGED <<holder, faults>> /\ pc[i][a] # "wait"
    BY <1>5, StepsProceed DEF AcquireForLedger
  <2> QED  BY <2>1, GoesOn DEF Places
<1>6. ASSUME NEW i \in Instances, NEW a \in Actors, Posted(i, a) PROVE Inv'
  <2>1. Proceeds(i, a, "tx") /\ UNCHANGED <<holder, faults>> /\ pc[i][a] # "wait"
    BY <1>6, StepsProceed DEF Posted
  <2> QED  BY <2>1, GoesOn DEF Places
<1>7. ASSUME NEW i \in Instances, NEW a \in Actors, EndTx(i, a) PROVE Inv'
  <2>1. UNCHANGED <<holder, faults>> /\ pc[i][a] # "wait"
    BY <1>7 DEF EndTx
  <2>2. CASE a \in Jobs
    <3>1. PICK l \in {"run", "release"} : Proceeds(i, a, l)
      BY <1>7, <2>2, StepsProceed
    <3> QED  BY <2>1, <3>1, GoesOn DEF Places
  <2>3. CASE a \notin Jobs
    <3>1. Proceeds(i, a, "wait")
      BY <1>7, <2>3, StepsProceed
    <3> QED  BY <2>1, <2>3, <3>1, GoesOn DEF Places
  <2> QED  BY <2>2, <2>3
<1>8. CASE UNCHANGED vars
  BY <1>8 DEF vars, Inv, TypeOK, CheckCapacity, ConnsMatch, LockFollowsRun, Running,
     Orphaned, Orphan
<1> QED  BY <1>1, <1>2, <1>3, <1>4, <1>5, <1>6, <1>7, <1>8 DEF Next, Step

(* Nobody runs, nobody holds a lock or a connection. *)
LEMMA InvInit == Init => Inv
<1> SUFFICES ASSUME Init PROVE Inv
  OBVIOUS
<1>1. TypeOK /\ CheckCapacity(size) /\ ConnsMatch /\ LockFollowsRun
  BY SchedulerAssumption DEF Init, TypeOK, CheckCapacity, ConnsMatch, Out, LockFollowsRun, Actors
<1>2. Orphaned = {}
  BY DEF Init, Orphaned, Orphan, Running, Actors
<1>3. Cardinality(Orphaned) <= faults
  BY <1>2, FS_EmptySet DEF Init
<1> QED  BY <1>1, <1>3 DEF Inv

(* The invariant holds in every reachable state. *)
LEMMA Invariant == Spec => []Inv
BY InvInit, InvStep, PTL DEF Spec

(* Every reachable state is well typed: no actor ever has more than three  *)
(* connections out.                                                        *)
THEOREM TypeCorrect == Spec => []TypeOK
<1>1. Inv => TypeOK
  BY DEF Inv
<1> QED  BY <1>1, Invariant, PTL

(* Two instances run one job at once only where a lock session died under  *)
(* its run, job by job, and a lock never outlives the run it guards.       *)
THEOREM OneInstanceRunsHolds == Spec => []OneInstanceRuns
<1>1. ASSUME Inv PROVE OneInstanceRuns
  <2> DEFINE Twice == {j \in Jobs : \E i, k \in Instances :
                         i # k /\ Running(i, j) /\ Running(k, j)}
  <2>1. Twice \subseteq Orphaned
    BY DEF Orphaned, Orphan
  <2>2. IsFiniteSet(Orphaned)
    BY SchedulerAssumption, FS_Subset DEF Orphaned
  <2>3. /\ Cardinality(Twice) <= Cardinality(Orphaned)
        /\ Cardinality(Twice) \in Nat /\ Cardinality(Orphaned) \in Nat
    <3> HIDE DEF Twice
    <3> QED  BY <2>1, <2>2, FS_Subset, FS_CardinalityType
  <2>4. Cardinality(Twice) <= faults
    BY <1>1, <2>3 DEF Inv, TypeOK
  <2> QED  BY <1>1, <2>4 DEF Inv, OneInstanceRuns
<1> QED  BY <1>1, Invariant, PTL

(* With a ledger that takes no connection of the pool (blnk), the capacity *)
(* check is enough: whoever waits for one more connection is a job that    *)
(* holds one, so a pool that is taken up always has a caller in it that    *)
(* can go on and give its connection back.                                 *)
THEOREM PoolIsNeverWedged ==
    ASSUME ~ LedgerOnPool
    PROVE  Spec => []PoolNotWedged
<1>1. ASSUME Inv PROVE PoolNotWedged
  <2> SUFFICES ASSUME NEW i \in Instances,
                      \A a \in Actors : conns[i][a] > 0 => Waiting(i, a)
               PROVE  Free(i)
    BY DEF PoolNotWedged
  <2>1. IsFiniteSet(Actors) /\ DOMAIN conns[i] = Actors
    <3>1. IsFiniteSet(Jobs \cup Handlers)
      BY SchedulerAssumption, FS_Union
    <3>2. conns[i] \in [Actors -> 0 .. 3]
      BY <1>1 DEF Inv, TypeOK
    <3> QED  BY <3>1, <3>2 DEF Actors
  <2>2. ASSUME NEW a \in Actors
        PROVE  conns[i][a] \in Nat /\ conns[i][a] <= IF a \in Jobs THEN 1 ELSE 0
    <3>1. conns[i][a] = Out(a, pc[i][a]) /\ conns[i][a] \in 0 .. 3
      BY <1>1 DEF Inv, ConnsMatch, TypeOK
    <3>2. CASE conns[i][a] > 0
      <4>1. pc[i][a] = "run"
        BY <3>2 DEF Waiting
      <4>2. a \in Jobs
        BY <1>1, <4>1 DEF Inv, ConnsMatch
      <4> QED  BY <3>1, <4>1, <4>2 DEF Out
    <3>3. CASE ~ (conns[i][a] > 0)
      BY <3>1, <3>3
    <3> QED  BY <3>2, <3>3
  <2>3. Sum(conns[i], Actors) <= Cardinality(Actors \cap Jobs)
    BY <2>1, <2>2, SumOnes
  <2>4. Actors \cap Jobs = Jobs
    BY DEF Actors
  <2>5. Sum(conns[i], Actors) \in Nat /\ Cardinality(Jobs) \in Nat
    BY <2>1, <2>2, SumNat, SchedulerAssumption, FS_CardinalityType
  <2>6. size \in Nat \ {0} /\ (Cardinality(Jobs) > 0 => size >= 2 * Cardinality(Jobs) + 2)
    BY <1>1, SchedulerAssumption DEF Inv, TypeOK, CheckCapacity
  <2>7. Sum(conns[i], Actors) < size
    <3>1. PICK n \in Nat, c \in Nat : n = Sum(conns[i], Actors) /\ c = Cardinality(Jobs)
      BY <2>5
    <3>2. n <= c
      BY <2>3, <2>4, <3>1
    <3>3. size \in Nat /\ size # 0
      BY <2>6
    <3>4. c > 0 => size >= 2 * c + 2
      BY <2>6, <3>1
    <3>5. n < size
      BY <3>2, <3>3, <3>4
    <3> QED  BY <3>1, <3>5
  <2> QED  BY <2>1, <2>7 DEF Free, SumFunction, Sum
<1> QED  BY <1>1, Invariant, PTL
===============================================================================
