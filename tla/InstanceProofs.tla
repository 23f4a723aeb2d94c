--------------------------- MODULE InstanceProofs ---------------------------
(***************************************************************************)
(* Theorems about the lifecycle of one instance, its limiter and its pool, *)
(* for every number of requests, slots, jobs and connections.              *)
(***************************************************************************)
EXTENDS Instance, FiniteSetTheorems, SequenceTheorems, TLAPS

-----------------------------------------------------------------------------
(* The steps of a task leave the lifecycle alone, and the reverse.         *)

LifecycleStep ==
    \/ StartDependency \/ Connect \/ StartJobs \/ StartEntrances \/ StartFails \/ Sigterm
    \/ StopEntrances \/ ServerDrained \/ ServerCloses
    \/ ConsumerDrained \/ ConsumerAborts \/ ConsumerLeft \/ EntrancesStopped
    \/ CancelJobs \/ JobsStopped \/ JobsLeft \/ SkipHook \/ ClosePool \/ PoolClosed
    \/ Exit \/ Expire

LEMMA NextForms ==
    ASSUME [Next]_vars
    PROVE  \/ UNCHANGED vars
           \/ \E t \in Tasks : \/ Arrive(t) \/ Enter(t) \/ Shed(t) \/ Acquire(t)
                               \/ Refused(t) \/ Return(t) \/ Again(t) \/ Finish(t)
           \/ LifecycleStep
BY DEF Next, TaskStep, StartStep, StopStep, TimeOut, LifecycleStep

LEMMA LifecycleFrame ==
    ASSUME LifecycleStep
    PROVE  UNCHANGED <<task, line>> /\ (UNCHANGED faults \/ Fault)
BY DEF LifecycleStep, StartDependency, Connect, StartJobs, StartEntrances, StartFails, Sigterm,
   StopEntrances, ServerDrained, ServerCloses, ConsumerDrained, ConsumerAborts, ConsumerLeft,
   EntrancesStopped, CancelJobs, JobsStopped, JobsLeft, SkipHook, ClosePool, PoolClosed, Exit, Expire

(* What a task's step does: where the task goes, and what becomes of the   *)
(* line.                                                                   *)
Joins(t) ==
    /\ \/ task[t] = "none" /\ t \notin Writes
       \/ task[t] = "queued" /\ t \in Writes /\ SlotsUsed < WriteConcurrency
       \/ task[t] = "ending"
    /\ Queue(t)

Leaves(t) ==
    \/ /\ line # << >> /\ t = Head(line) /\ line' = Tail(line)
       /\ Cardinality(Held) < PoolSize
       /\ pool = "open"
       /\ task' = [task EXCEPT ![t] = "holding"]
    \/ /\ task[t] = "waiting"
       /\ Cancelled(t) \/ pool # "open"
       /\ \E i \in 1..Len(line) :
            /\ line[i] = t
            /\ line' = SubSeq(line, 1, i - 1) \o SubSeq(line, i + 1, Len(line))
       /\ task' = [task EXCEPT ![t] = "ending"]

Goes(t) ==
    /\ UNCHANGED line
    /\ \/ task[t] = "none" /\ t \in Writes /\ task' = [task EXCEPT ![t] = "queued"]
       \/ task[t] = "queued" /\ task' = [task EXCEPT ![t] = "none"]
       \/ task[t] = "holding" /\ task' = [task EXCEPT ![t] = "ending"]
       \/ task[t] = "ending" /\ task' = [task EXCEPT ![t] = "none"]

MayArrive(t) ==
    /\ t \in Http => server = "accepting"
    /\ t \in Consumers => consumer = "receiving"
    /\ t \in Jobs => scheduler = "running"

TaskMoves(t) ==
    /\ phase # "exited"
    /\ UNCHANGED lifecycle
    /\ UNCHANGED faults \/ Fault
    /\ task[t] = "none" => MayArrive(t)
    /\ Joins(t) \/ Leaves(t) \/ Goes(t)

LEMMA TaskForms ==
    ASSUME NEW t \in Tasks,
           \/ Arrive(t) \/ Enter(t) \/ Shed(t)
           \/ Refused(t) \/ Return(t) \/ Again(t) \/ Finish(t)
    PROVE  TaskMoves(t)
<1>1. CASE Arrive(t)
  BY <1>1 DEF Arrive, TaskMoves, Joins, Goes, MayArrive
<1>2. CASE Enter(t) \/ Shed(t)
  BY <1>2 DEF Enter, Shed, TaskMoves, Joins, Goes
<1>3. CASE Refused(t)
  BY <1>3 DEF Refused, TaskMoves, Leaves
<1>4. CASE Return(t) \/ Again(t) \/ Finish(t)
  BY <1>4 DEF Return, Again, Finish, TaskMoves, Joins, Goes
<1> QED
  BY <1>1, <1>2, <1>3, <1>4

-----------------------------------------------------------------------------
(* Types and the line of the pool.                                         *)

States == {"none", "queued", "waiting", "holding", "ending"}

(* The line holds waiting tasks, each once.                                *)
LineInv ==
    /\ \A i \in 1..Len(line) : task[line[i]] = "waiting"
    /\ \A i, k \in 1..Len(line) : line[i] = line[k] => i = k

(* Positions before and after one that is taken out.                       *)
LEMMA Positions ==
    ASSUME NEW n \in Nat, NEW i \in 1..n, NEW k \in 1..(n - 1)
    PROVE  /\ k < i => k \in 1..n /\ k # i /\ k \in 1..(i - 1)
           /\ ~(k < i) => /\ k + 1 \in 1..n /\ k + 1 # i
                          /\ k - (i - 1) \in 1..(n - i) /\ ~(k <= i - 1)
                          /\ i + (k - (i - 1)) = k + 1
OBVIOUS

(* A sequence without its i-th element.                                    *)
Without(s, i) == SubSeq(s, 1, i - 1) \o SubSeq(s, i + 1, Len(s))

(* The elements before it keep their places, those after it move up.       *)
LEMMA WithoutOne ==
    ASSUME NEW S, NEW s \in Seq(S), NEW i \in 1..Len(s),
           NEW r, r = Without(s, i)
    PROVE  /\ r \in Seq(S) /\ Len(r) = Len(s) - 1
           /\ \A k \in 1..Len(r) : r[k] = IF k < i THEN s[k] ELSE s[k + 1]
<1> DEFINE a == SubSeq(s, 1, i - 1)
           b == SubSeq(s, i + 1, Len(s))
<1>0. Len(s) \in Nat /\ i \in Int /\ \A k \in 1..Len(s) : s[k] \in S
  BY LenProperties
<1>1. a \in Seq(S) /\ Len(a) = i - 1 /\ \A k \in 1..(i - 1) : a[k] = s[k]
  <2>1. \A k \in 1..(i - 1) : s[k] \in S
    BY <1>0
  <2> QED
    BY <1>0, <2>1, SubSeqProperties
<1>2. b \in Seq(S) /\ Len(b) = Len(s) - i /\ \A k \in 1..(Len(s) - i) : b[k] = s[i + k]
  <2>1. \A k \in (i + 1)..Len(s) : s[k] \in S
    BY <1>0
  <2> QED
    BY <1>0, <2>1, SubSeqProperties
<1> HIDE DEF a, b
<1>3. /\ a \o b \in Seq(S) /\ Len(a \o b) = Len(a) + Len(b)
      /\ \A k \in 1..(Len(a) + Len(b)) : (a \o b)[k] = IF k <= Len(a) THEN a[k] ELSE b[k - Len(a)]
  BY <1>1, <1>2, ConcatProperties
<1>4. r = a \o b
  BY DEF a, b, Without
<1>5. r \in Seq(S) /\ Len(r) = Len(s) - 1
  <2>1. r \in Seq(S)
    BY <1>3, <1>4
  <2>2. Len(r) = Len(a) + Len(b)
    BY <1>3, <1>4
  <2>3. Len(a) + Len(b) = Len(s) - 1
    BY <1>0, <1>1, <1>2
  <2> QED
    BY <2>1, <2>2, <2>3
<1>6. ASSUME NEW k \in 1..Len(r), k < i PROVE r[k] = s[k]
  <2>1. k \in 1..(i - 1)
    BY <1>0, <1>5, <1>6, Positions
  <2>2. k \in 1..(Len(a) + Len(b)) /\ k <= Len(a)
    <3>1. Len(a) + Len(b) = Len(r)
      BY <1>3, <1>4
    <3>2. Len(a) = i - 1
      BY <1>1
    <3> QED
      BY <1>0, <2>1, <3>1, <3>2
  <2>3. r[k] = a[k]
    BY <1>3, <1>4, <2>2
  <2> QED
    BY <1>1, <2>1, <2>3
<1>7. ASSUME NEW k \in 1..Len(r), ~(k < i) PROVE r[k] = s[k + 1]
  <2>0. k \in 1..(Len(a) + Len(b)) /\ ~(k <= Len(a)) /\ k - Len(a) = k - (i - 1)
    <3>1. Len(a) + Len(b) = Len(r)
      BY <1>3, <1>4
    <3>2. k \in 1..(Len(a) + Len(b))
      BY <3>1
    <3>3. Len(a) = i - 1
      BY <1>1
    <3>4. ~(k <= i - 1)
      BY <1>0, <1>5, <1>7, Positions
    <3> QED
      BY <3>2, <3>3, <3>4
  <2>1. r[k] = b[k - (i - 1)] /\ k - (i - 1) \in 1..(Len(s) - i)
    <3>1. r[k] = b[k - Len(a)]
      BY <1>3, <1>4, <2>0
    <3>2. k - (i - 1) \in 1..(Len(s) - i)
      BY <1>0, <1>5, <1>7, Positions
    <3> QED
      BY <2>0, <3>1, <3>2
  <2>2. b[k - (i - 1)] = s[i + (k - (i - 1))]
    BY <1>2, <2>1
  <2>3. i + (k - (i - 1)) = k + 1
    BY <1>0, <1>5, <1>7, Positions
  <2> QED
    BY <2>1, <2>2, <2>3
<1> QED
  BY <1>5, <1>6, <1>7

(* A task that leaves the line is no longer in it, and the others are.     *)
LEMMA LineWithoutOne ==
    ASSUME line \in Seq(Tasks), LineInv, NEW i \in 1..Len(line),
           line' = Without(line, i)
    PROVE  /\ line' \in Seq(Tasks)
           /\ \A k \in 1..Len(line') : \E j \in 1..Len(line) : j # i /\ line'[k] = line[j]
           /\ \A k, l \in 1..Len(line') : line'[k] = line'[l] => k = l
<1>0. Len(line) \in Nat
  BY LenProperties
<1>1. /\ line' \in Seq(Tasks) /\ Len(line') = Len(line) - 1
      /\ \A k \in 1..Len(line') : line'[k] = IF k < i THEN line[k] ELSE line[k + 1]
  BY WithoutOne
<1>2. ASSUME NEW k \in 1..Len(line') PROVE \E j \in 1..Len(line) : j # i /\ line'[k] = line[j]
  <2>1. CASE k < i
    <3>1. k \in 1..Len(line) /\ k # i
      BY <1>0, <1>1, <2>1, Positions
    <3>2. line'[k] = line[k]
      BY <1>1, <2>1
    <3> QED
      BY <3>1, <3>2
  <2>2. CASE ~(k < i)
    <3>1. k + 1 \in 1..Len(line) /\ k + 1 # i
      BY <1>0, <1>1, <2>2, Positions
    <3>2. line'[k] = line[k + 1]
      BY <1>1, <2>2
    <3> QED
      BY <3>1, <3>2
  <2> QED
    BY <2>1, <2>2
<1>3. ASSUME NEW k \in 1..Len(line'), NEW l \in 1..Len(line'), line'[k] = line'[l] PROVE k = l
  <2> DEFINE at(m) == IF m < i THEN m ELSE m + 1
  <2>0. at(k) \in 1..Len(line) /\ at(l) \in 1..Len(line)
    BY <1>0, <1>1, Positions
  <2>1. line'[k] = line[at(k)] /\ line'[l] = line[at(l)]
    BY <1>1
  <2>2. at(k) = at(l)
    <3> HIDE DEF at
    <3> QED
      BY <1>3, <2>0, <2>1 DEF LineInv
  <2> QED
    BY <1>0, <1>1, <2>2
<1> QED
  BY <1>1, <1>2, <1>3

(* A step of the line is one of these.                                     *)
LEMMA LineLeaves ==
    ASSUME line \in Seq(Tasks), LineInv, NEW t \in Tasks, Leaves(t)
    PROVE  /\ task[t] = "waiting"
           /\ \E i \in 1..Len(line) :
                /\ line[i] = t
                /\ line' = Without(line, i)
<1>1. CASE line # << >> /\ t = Head(line) /\ line' = Tail(line)
  <2>1. Len(line) \in Nat \ {0} /\ line[1] = t
    BY <1>1, EmptySeq
  <2>2. Tail(line) = SubSeq(line, 2, Len(line)) /\ SubSeq(line, 1, 0) = << >>
    BY <1>1, TailIsSubSeq, SubSeqEmpty
  <2>3. SubSeq(line, 2, Len(line)) \in Seq(Tasks)
    BY <1>1, <2>2, HeadTailProperties
  <2>4. line' = Without(line, 1)
    BY <1>1, <2>2, <2>3, ConcatEmptySeq DEF Without
  <2> QED
    <3>1. 1 \in 1..Len(line) /\ task[t] = "waiting"
      BY <2>1 DEF LineInv
    <3> QED
      BY <2>1, <2>4, <3>1
<1>2. CASE ~(line # << >> /\ t = Head(line) /\ line' = Tail(line))
  BY <1>2 DEF Leaves, Without
<1> QED
  BY <1>1, <1>2

(* Every step is one of a task or one of the lifecycle.                    *)
LEMMA StepForms ==
    ASSUME TypeOK, LineInv, [Next]_vars
    PROVE  UNCHANGED vars \/ LifecycleStep \/ \E t \in Tasks : TaskMoves(t)
<1>1. ASSUME NEW t \in Tasks, Acquire(t) PROVE TaskMoves(t)
  <2>1. Leaves(t)
    BY <1>1 DEF Acquire, Leaves
  <2>2. task[t] = "waiting"
    BY <2>1, LineLeaves DEF TypeOK
  <2> QED
    BY <1>1, <2>1, <2>2 DEF Acquire, TaskMoves
<1> QED
  BY <1>1, NextForms, TaskForms

(* Where a task goes.                                                      *)
LEMMA TaskGoes ==
    ASSUME TypeOK, LineInv, NEW t \in Tasks, TaskMoves(t)
    PROVE  /\ \A u \in Tasks : u # t => task'[u] = task[u]
           /\ task'[t] \in States
           /\ task'[t] # "none" => task[t] # "none" \/ MayArrive(t)
           /\ task'[t] = "holding" => task[t] = "waiting" /\ pool = "open"
           /\ task[t] = "holding" => task'[t] = "ending"
           /\ t \in Writes /\ task'[t] \in {"waiting", "holding", "ending"} =>
                \/ task[t] \in {"waiting", "holding", "ending"}
                \/ task[t] = "queued" /\ SlotsUsed < WriteConcurrency
<1>0. task \in [Tasks -> States] /\ line \in Seq(Tasks)
  BY DEF TypeOK, States
<1>1. CASE Joins(t)
  BY <1>0, <1>1 DEF Joins, Queue, TaskMoves, States
<1>2. CASE Leaves(t)
  <2>1. task[t] = "waiting"
    BY <1>0, <1>2, LineLeaves
  <2> QED
    BY <1>0, <1>2, <2>1 DEF Leaves, States
<1>3. CASE Goes(t)
  BY <1>0, <1>3 DEF Goes, TaskMoves, States
<1> QED
  BY <1>1, <1>2, <1>3 DEF TaskMoves

LEMMA LineStep ==
    ASSUME TypeOK, LineInv, NEW t \in Tasks, TaskMoves(t)
    PROVE  line' \in Seq(Tasks) /\ LineInv'
<1>0. task \in [Tasks -> States] /\ line \in Seq(Tasks)
  BY DEF TypeOK, States
<1>a. Len(line) \in Nat /\ \A i \in 1..Len(line) : line[i] \in Tasks
  BY <1>0, LenProperties
<1>1. CASE Joins(t)
  <2>1. line' = Append(line, t) /\ task[t] # "waiting" /\ task' = [task EXCEPT ![t] = "waiting"]
    BY <1>1 DEF Joins, Queue
  <2>2. /\ line' \in Seq(Tasks) /\ Len(line') = Len(line) + 1 /\ line'[Len(line) + 1] = t
        /\ \A i \in 1..Len(line) : line'[i] = line[i]
    BY <1>0, <2>1, AppendProperties
  <2>3. \A i \in 1..Len(line) : line[i] # t
    BY <2>1 DEF LineInv
  <2>4. \A i \in 1..Len(line') : i \in 1..Len(line) \/ i = Len(line) + 1
    BY <1>a, <2>2
  <2>5. \A i \in 1..Len(line') : task'[line'[i]] = "waiting"
    BY <1>0, <1>a, <2>1, <2>2, <2>3, <2>4 DEF LineInv
  <2>6. \A i, k \in 1..Len(line') : line'[i] = line'[k] => i = k
    BY <2>2, <2>3, <2>4 DEF LineInv
  <2> QED
    BY <2>2, <2>5, <2>6 DEF LineInv
<1>2. CASE Leaves(t)
  <2>1. task[t] = "waiting"
    BY <1>0, <1>2, LineLeaves
  <2>2. PICK i \in 1..Len(line) :
          line[i] = t /\ line' = Without(line, i)
    BY <1>0, <1>2, LineLeaves
  <2>3. /\ line' \in Seq(Tasks)
        /\ \A k \in 1..Len(line') : \E j \in 1..Len(line) : j # i /\ line'[k] = line[j]
        /\ \A k, l \in 1..Len(line') : line'[k] = line'[l] => k = l
    BY <1>0, <2>2, LineWithoutOne
  <2>4. ASSUME NEW k \in 1..Len(line') PROVE task'[line'[k]] = "waiting"
    <3>1. PICK j \in 1..Len(line) : j # i /\ line'[k] = line[j]
      BY <2>3
    <3>2. line[j] # t /\ task[line[j]] = "waiting" /\ line[j] \in Tasks
      BY <1>a, <2>2, <3>1 DEF LineInv
    <3> QED
      BY <3>1, <3>2, TaskGoes
  <2> QED
    BY <2>3, <2>4 DEF LineInv
<1>3. CASE Goes(t)
  <2>1. line' = line /\ task[t] # "waiting"
    BY <1>3 DEF Goes
  <2>2. \A i \in 1..Len(line) : task'[line[i]] = "waiting"
    BY <1>a, <2>1, TaskGoes DEF LineInv
  <2> QED
    BY <1>0, <2>1, <2>2 DEF LineInv
<1> QED
  BY <1>1, <1>2, <1>3 DEF TaskMoves

LEMMA FaultCounts ==
    ASSUME faults \in 0..MaxFaults, UNCHANGED faults \/ Fault
    PROVE  faults' \in 0..MaxFaults
BY BudgetAssumption DEF Fault

LEMMA TypeStep == TypeOK /\ LineInv /\ [Next]_vars => TypeOK' /\ LineInv'
<1> SUFFICES ASSUME TypeOK, LineInv, [Next]_vars PROVE TypeOK' /\ LineInv'
  OBVIOUS
<1>1. CASE UNCHANGED vars
  BY <1>1 DEF vars, TypeOK, LineInv
<1>2. CASE LifecycleStep
  <2>1. LineInv' /\ task' = task /\ line' = line
    BY <1>2, LifecycleFrame DEF LineInv
  <2>2. faults' \in 0..MaxFaults
    BY <1>2, LifecycleFrame, FaultCounts DEF TypeOK
  <2>3. Len(Hooks) = 5
    BY DEF Hooks
  <2>4. hooks' \in 0..5 /\ phase' \in {"starting", "running", "stopping", "exited"}
    BY <1>2, <2>3 DEF TypeOK, LifecycleStep, StartDependency, Connect, StartJobs, StartEntrances,
       StartFails, Sigterm, StopEntrances, ServerDrained, ServerCloses, ConsumerDrained, ConsumerAborts,
       ConsumerLeft, EntrancesStopped, CancelJobs, JobsStopped, JobsLeft, SkipHook, ClosePool,
       PoolClosed, Exit, Expire, Starting, Started, Stopping, Stopped
  <2>5. failed' \in BOOLEAN /\ identity' \in BOOLEAN
    BY <1>2 DEF TypeOK, LifecycleStep, StartDependency, Connect, StartJobs, StartEntrances,
       StartFails, Sigterm, StopEntrances, ServerDrained, ServerCloses, ConsumerDrained, ConsumerAborts,
       ConsumerLeft, EntrancesStopped, CancelJobs, JobsStopped, JobsLeft, SkipHook, ClosePool,
       PoolClosed, Exit, Expire
  <2>6. /\ server' \in {"off", "accepting", "draining", "stopped", "closed"}
        /\ consumer' \in {"off", "receiving", "draining", "aborted", "stopped", "left"}
        /\ scheduler' \in {"off", "running", "cancelled"}
        /\ pool' \in {"open", "closing", "closed"}
    BY <1>2 DEF TypeOK, LifecycleStep, StartDependency, Connect, StartJobs, StartEntrances,
       StartFails, Sigterm, StopEntrances, ServerDrained, ServerCloses, ConsumerDrained, ConsumerAborts,
       ConsumerLeft, EntrancesStopped, CancelJobs, JobsStopped, JobsLeft, SkipHook, ClosePool,
       PoolClosed, Exit, Expire
  <2> QED
    BY <2>1, <2>2, <2>3, <2>4, <2>5, <2>6 DEF TypeOK
<1>3. ASSUME NEW t \in Tasks, TaskMoves(t) PROVE TypeOK' /\ LineInv'
  <2>1. line' \in Seq(Tasks) /\ LineInv'
    BY <1>3, LineStep
  <2>2. faults' \in 0..MaxFaults
    BY <1>3, FaultCounts DEF TypeOK, TaskMoves
  <2>3. task' \in [Tasks -> States]
    <3>1. \E state : task' = [task EXCEPT ![t] = state]
      BY <1>3 DEF TaskMoves, Joins, Queue, Leaves, Goes
    <3>2. task'[t] \in States
      BY <1>3, TaskGoes
    <3> QED
      BY <3>1, <3>2 DEF TypeOK, States
  <2> QED
    BY <1>3, <2>1, <2>2, <2>3 DEF TypeOK, TaskMoves, lifecycle, States
<1> QED
  BY <1>1, <1>2, <1>3, StepForms

LEMMA InitTypes == Init => TypeOK /\ LineInv
<1> SUFFICES ASSUME Init PROVE TypeOK /\ LineInv
  OBVIOUS
<1>1. Len(Hooks) = 5
  BY DEF Hooks
<1>2. line \in Seq(Tasks) /\ Len(line) = 0
  BY EmptySeq DEF Init
<1>3. LineInv
  BY <1>2 DEF LineInv
<1>4. task \in [Tasks -> {"none", "queued", "waiting", "holding", "ending"}]
  BY DEF Init
<1>5. faults \in 0..MaxFaults /\ hooks \in 0..Len(Hooks)
  BY <1>1, BudgetAssumption DEF Init
<1>6. failed \in BOOLEAN /\ identity \in BOOLEAN
  BY DEF Init
<1> QED
  BY <1>2, <1>3, <1>4, <1>5, <1>6 DEF Init, TypeOK

(* The line of the pool and every other state are of their kind.           *)
THEOREM TypesHold == Spec => []TypeOK
  BY InitTypes, TypeStep, PTL DEF Spec

-----------------------------------------------------------------------------
(* The connection budget.                                                  *)

Slots == {t \in Writes : HoldsSlot(t)}

SlotsInv == Cardinality(Slots) <= WriteConcurrency

LEMMA TasksFinite ==
    /\ IsFiniteSet(Tasks) /\ IsFiniteSet(Writes) /\ IsFiniteSet(Reads)
    /\ IsFiniteSet(Consumers) /\ IsFiniteSet(Jobs) /\ IsFiniteSet(Held) /\ IsFiniteSet(Slots)
<1>1. /\ Writes \subseteq Tasks /\ Reads \subseteq Tasks /\ Consumers \subseteq Tasks
      /\ Jobs \subseteq Tasks /\ Held \subseteq Tasks /\ Slots \subseteq Tasks
  BY DEF Tasks, Http, Held, Slots
<1> QED
  BY <1>1, FS_Subset, BudgetAssumption

LEMMA UnionBound ==
    ASSUME NEW A, NEW B, IsFiniteSet(A), IsFiniteSet(B)
    PROVE  /\ IsFiniteSet(A \cup B)
           /\ Cardinality(A \cup B) <= Cardinality(A) + Cardinality(B)
<1>1. /\ IsFiniteSet(A \cup B)
      /\ Cardinality(A \cup B) = Cardinality(A) + Cardinality(B) - Cardinality(A \cap B)
  BY FS_Union
<1>2. IsFiniteSet(A \cap B)
  BY FS_Subset
<1>3. Cardinality(A) \in Nat /\ Cardinality(B) \in Nat /\ Cardinality(A \cap B) \in Nat
  BY <1>2, FS_CardinalityType
<1> QED
  BY <1>1, <1>3

(* No more writes hold a slot than there are: only Enter hands one out.    *)
LEMMA SlotsStep == TypeOK /\ LineInv /\ SlotsInv /\ [Next]_vars => SlotsInv'
<1> SUFFICES ASSUME TypeOK, LineInv, SlotsInv, [Next]_vars PROVE SlotsInv'
  OBVIOUS
<1>0. /\ IsFiniteSet(Slots) /\ Cardinality(Slots) \in Nat /\ WriteConcurrency \in Nat
      /\ Slots' = {t \in Writes : task'[t] \in {"waiting", "holding", "ending"}}
      /\ Slots = {t \in Writes : task[t] \in {"waiting", "holding", "ending"}}
  BY TasksFinite, FS_CardinalityType, BudgetAssumption DEF Slots, HoldsSlot
<1>1. CASE Slots' \subseteq Slots
  <2>1. Cardinality(Slots') \in Nat /\ Cardinality(Slots') <= Cardinality(Slots)
    BY <1>0, <1>1, FS_Subset, FS_CardinalityType
  <2> QED
    BY <1>0, <2>1 DEF SlotsInv
<1>2. CASE LifecycleStep \/ UNCHANGED vars
  <2>1. task' = task
    BY <1>2, LifecycleFrame DEF vars
  <2> QED
    BY <1>0, <1>1, <2>1
<1>3. ASSUME NEW t \in Tasks, TaskMoves(t) PROVE SlotsInv'
  <2>1. CASE t \in Writes /\ task[t] = "queued" /\ SlotsUsed < WriteConcurrency
    <3>1. Slots' \subseteq Slots \cup {t}
      BY <1>0, <1>3, TaskGoes DEF Tasks, Http
    <3>2. t \notin Slots /\ Cardinality(Slots) < WriteConcurrency
      BY <1>0, <2>1 DEF SlotsUsed, Slots
    <3>3. IsFiniteSet(Slots \cup {t}) /\ Cardinality(Slots \cup {t}) = Cardinality(Slots) + 1
      BY <1>0, <3>2, FS_AddElement
    <3>4. Cardinality(Slots') \in Nat /\ Cardinality(Slots') <= Cardinality(Slots) + 1
      BY <3>1, <3>3, FS_Subset, FS_CardinalityType
    <3> QED
      BY <1>0, <3>2, <3>4 DEF SlotsInv
  <2>2. CASE ~(t \in Writes /\ task[t] = "queued" /\ SlotsUsed < WriteConcurrency)
    <3>1. Slots' \subseteq Slots
      BY <1>0, <1>3, <2>2, TaskGoes DEF Tasks, Http
    <3> QED
      BY <1>1, <3>1
  <2> QED
    BY <2>1, <2>2
<1> QED
  BY <1>2, <1>3, StepForms

(* A task that is no read and still waits is one of the demand, and leaves *)
(* one connection of it unused.                                            *)
LEMMA BudgetFromSlots == SlotsInv => BudgetHolds
<1> SUFFICES ASSUME SlotsInv, NEW t \in Tasks \ Reads, task[t] = "waiting", Cardinality(Held) >= PoolSize
             PROVE  Cardinality(Held \cap Reads) > Reserved
  BY DEF BudgetHolds
<1> DEFINE R == Held \cap Reads
           W == Held \cap Writes
           C == Held \cap Consumers
           J == Held \cap Jobs
<1>1. /\ IsFiniteSet(R) /\ IsFiniteSet(W) /\ IsFiniteSet(C) /\ IsFiniteSet(J)
      /\ Cardinality(R) \in Nat /\ Cardinality(W) \in Nat /\ Cardinality(C) \in Nat
      /\ Cardinality(J) \in Nat /\ Cardinality(Held) \in Nat
      /\ Cardinality(Slots) \in Nat /\ Cardinality(Consumers) \in Nat /\ Cardinality(Jobs) \in Nat
  BY TasksFinite, FS_Subset, FS_CardinalityType
<1>2. Cardinality(Held) <= Cardinality(R) + Cardinality(W) + Cardinality(C) + Cardinality(J)
  <2>1. Held = ((R \cup W) \cup C) \cup J
    BY DEF Held, Tasks, Http
  <2>2. IsFiniteSet(R \cup W) /\ Cardinality(R \cup W) <= Cardinality(R) + Cardinality(W)
    BY <1>1, UnionBound
  <2>3. /\ IsFiniteSet((R \cup W) \cup C)
        /\ Cardinality((R \cup W) \cup C) <= Cardinality(R \cup W) + Cardinality(C)
    BY <1>1, <2>2, UnionBound
  <2>4. Cardinality(((R \cup W) \cup C) \cup J) <= Cardinality((R \cup W) \cup C) + Cardinality(J)
    BY <1>1, <2>3, UnionBound
  <2>5. Cardinality(R \cup W) \in Nat /\ Cardinality((R \cup W) \cup C) \in Nat
    BY <2>2, <2>3, FS_CardinalityType
  <2> HIDE DEF R, W, C, J
  <2> QED
    BY <1>1, <2>1, <2>2, <2>3, <2>4, <2>5
<1>3. /\ Cardinality(W) <= Cardinality(Slots) /\ Cardinality(C) <= Cardinality(Consumers)
      /\ Cardinality(J) <= Cardinality(Jobs)
  <2>1. W \subseteq Slots /\ C \subseteq Consumers /\ J \subseteq Jobs
    BY DEF Held, Slots, HoldsSlot
  <2> QED
    BY <2>1, TasksFinite, FS_Subset
<1>4. t \notin Held
  BY DEF Held
<1>5. \/ Cardinality(W) < Cardinality(Slots)
      \/ Cardinality(C) < Cardinality(Consumers)
      \/ Cardinality(J) < Cardinality(Jobs)
  <2>1. CASE t \in Writes
    <3>1. W \subseteq Slots /\ t \in Slots /\ W # Slots
      BY <1>4, <2>1 DEF Held, Slots, HoldsSlot
    <3>2. Cardinality(W) # Cardinality(Slots)
      BY <3>1, TasksFinite, FS_Subset
    <3> QED
      BY <1>1, <1>3, <3>2
  <2>2. CASE t \in Consumers
    <3>1. Cardinality(C) # Cardinality(Consumers)
      BY <1>4, <2>2, TasksFinite, FS_Subset
    <3> QED
      BY <1>1, <1>3, <3>1
  <2>3. CASE t \in Jobs
    <3>1. Cardinality(J) # Cardinality(Jobs)
      BY <1>4, <2>3, TasksFinite, FS_Subset
    <3> QED
      BY <1>1, <1>3, <3>1
  <2> QED
    BY <2>1, <2>2, <2>3 DEF Tasks, Http
<1>6. /\ Cardinality(Slots) <= WriteConcurrency
      /\ WriteConcurrency + Cardinality(Consumers) + Cardinality(Jobs) + Reserved <= PoolSize
      /\ WriteConcurrency \in Nat /\ Reserved \in Nat /\ PoolSize \in Nat
  BY BudgetAssumption DEF SlotsInv, Demand
<1> HIDE DEF R, W, C, J
<1>7. Cardinality(R) > Reserved
  BY <1>1, <1>2, <1>3, <1>5, <1>6
<1> QED
  BY <1>7 DEF R

(* The connection budget does what it is for (config.ConnectionBudget and  *)
(* limited in http/server.go): a write, a message or a job finds the pool  *)
(* exhausted only when reads hold more than the reserve.                   *)
THEOREM BudgetAlwaysHolds == Spec => []BudgetHolds
<1>1. Init => TypeOK /\ LineInv /\ SlotsInv
  <2>1. Init => TypeOK /\ LineInv
    BY InitTypes
  <2>2. Init => Slots = {}
    BY DEF Init, Slots, HoldsSlot, Tasks, Http
  <2>3. Cardinality({}) = 0 /\ WriteConcurrency \in Nat
    BY FS_EmptySet, BudgetAssumption
  <2>4. Init => SlotsInv
    BY <2>2, <2>3 DEF SlotsInv
  <2> QED
    BY <2>1, <2>4
<1> QED
  BY <1>1, TypeStep, SlotsStep, BudgetFromSlots, PTL DEF Spec

-----------------------------------------------------------------------------
(* Start and stop.                                                         *)

(* Where nothing is let in, nothing is at work.                            *)
ClosedIsIdle ==
    /\ server \in {"off", "stopped"} => Idle(Http)
    /\ consumer \in {"off", "stopped"} => Idle(Consumers)
    /\ scheduler = "off" => Idle(Jobs)
    /\ pool = "closed" => Held = {}

(* What is up at each hook.                                                *)
UpAtHook ==
    /\ server \in {"accepting", "draining"} \/ consumer \in {"receiving", "draining", "aborted"} =>
         hooks = 5
    /\ scheduler = "running" => hooks >= 4
    /\ hooks >= 3 \/ server # "off" => identity
    /\ pool # "open" => hooks <= 1 /\ phase \in {"stopping", "exited"}

AllOff == server = "off" /\ consumer = "off" /\ scheduler = "off"

(* What a start has begun, and what a stop has ended.                      *)
Begun ==
    /\ phase = "running" => hooks = 5
    /\ phase = "starting" =>
         server = "off" /\ consumer = "off" /\ (hooks < 4 => scheduler = "off")

Ended ==
    /\ phase \in {"stopping", "exited"} /\ hooks = 0 => pool = "closed" \/ AllOff
    /\ hooks < 4 /\ ~failed => Idle(Jobs)
    /\ consumer = "left" => failed
    /\ phase = "exited" /\ ~failed => hooks = 0

OrderInv == ClosedIsIdle /\ UpAtHook /\ Begun /\ Ended

(* The hooks by their number.                                              *)
LEMMA HookNumbers ==
    ASSUME TypeOK
    PROVE  /\ hooks \in 0..5
           /\ Starting("database") \/ Starting("messaging") => hooks \in {0, 1}
           /\ Starting("identity") => hooks = 2
           /\ Starting("jobs") => hooks = 3
           /\ Starting("entrances") => hooks = 4
           /\ Stopping("entrances") => hooks = 5
           /\ Stopping("jobs") => hooks = 4
           /\ Stopping("messaging") \/ Stopping("identity") => hooks \in {2, 3}
           /\ Stopping("database") => hooks = 1
<1>1. Len(Hooks) = 5
  BY DEF Hooks
<1>2. hooks \in 0..5
  BY <1>1 DEF TypeOK
<1>3. /\ Hooks[1] = "database" /\ Hooks[2] = "messaging" /\ Hooks[3] = "identity"
      /\ Hooks[4] = "jobs" /\ Hooks[5] = "entrances"
  BY DEF Hooks
<1>4. hooks \in {0, 1, 2, 3, 4, 5}
  BY <1>2
<1> QED
  BY <1>1, <1>2, <1>3, <1>4 DEF Starting, Stopping

(* Tasks begin only where they are let in, and get connections only from   *)
(* an open pool.                                                           *)
LEMMA OrderTask ==
    ASSUME TypeOK, LineInv, OrderInv, NEW t \in Tasks, TaskMoves(t)
    PROVE  OrderInv'
<1>1. UNCHANGED lifecycle
  BY DEF TaskMoves
<1>2. \A u \in Tasks : task'[u] # "none" => task[u] # "none" \/ MayArrive(u)
  BY TaskGoes
<1>3. \A u \in Tasks : task'[u] = "holding" => task[u] = "holding" \/ pool = "open"
  BY TaskGoes
<1>4. Http \subseteq Tasks /\ Consumers \subseteq Tasks /\ Jobs \subseteq Tasks
  BY DEF Tasks
<1>5. ClosedIsIdle'
  <2>1. server \in {"off", "stopped"} => Idle(Http)'
    BY <1>2, <1>4 DEF OrderInv, ClosedIsIdle, Idle, MayArrive
  <2>2. consumer \in {"off", "stopped"} => Idle(Consumers)'
    BY <1>2, <1>4 DEF OrderInv, ClosedIsIdle, Idle, MayArrive
  <2>3. scheduler = "off" => Idle(Jobs)'
    BY <1>2, <1>4 DEF OrderInv, ClosedIsIdle, Idle, MayArrive
  <2>4. pool = "closed" => Held' = {}
    BY <1>3 DEF OrderInv, ClosedIsIdle, Held
  <2> QED
    BY <1>1, <2>1, <2>2, <2>3, <2>4 DEF ClosedIsIdle, lifecycle
<1>6. hooks < 4 /\ ~failed => Idle(Jobs)'
  BY <1>2, <1>4, HookNumbers DEF OrderInv, Ended, UpAtHook, Idle, MayArrive
<1> QED
  BY <1>1, <1>5, <1>6 DEF OrderInv, UpAtHook, Begun, Ended, AllOff, lifecycle

(* The lifecycle, hook by hook.                                            *)
LEMMA OrderLifecycle ==
    ASSUME TypeOK, OrderInv, LifecycleStep
    PROVE  OrderInv'
<1> USE HookNumbers
<1>0. task' = task /\ \A kind : Idle(kind)' = Idle(kind)
  BY LifecycleFrame DEF Idle
<1>a. Held' = Held
  BY <1>0 DEF Held
<1> USE <1>0, <1>a DEF OrderInv, ClosedIsIdle, UpAtHook, Begun, Ended, AllOff, Started, Stopped
<1>1. CASE StartDependency
  BY <1>1 DEF StartDependency, Starting
<1>2. CASE Connect \/ StartJobs \/ StartEntrances
  BY <1>2 DEF Connect, StartJobs, StartEntrances, Starting
<1>3. CASE StartFails \/ Sigterm
  BY <1>3 DEF StartFails, Sigterm
<1>4. CASE StopEntrances \/ ServerDrained \/ ServerCloses
  BY <1>4 DEF StopEntrances, ServerDrained, ServerCloses, Stopping
<1>5. CASE ConsumerDrained \/ ConsumerAborts \/ ConsumerLeft
  BY <1>5 DEF ConsumerDrained, ConsumerAborts, ConsumerLeft
<1>6. CASE EntrancesStopped
  BY <1>6 DEF EntrancesStopped, Stopping
<1>7. CASE CancelJobs \/ JobsStopped \/ JobsLeft
  BY <1>7 DEF CancelJobs, JobsStopped, JobsLeft, Stopping
<1>8. CASE SkipHook
  BY <1>8 DEF SkipHook, Stopping
<1>9. CASE ClosePool \/ PoolClosed
  BY <1>9 DEF ClosePool, PoolClosed, Stopping
<1>10. CASE Exit \/ Expire
  BY <1>10 DEF Exit, Expire
<1> QED
  BY <1>1, <1>2, <1>3, <1>4, <1>5, <1>6, <1>7, <1>8, <1>9, <1>10 DEF LifecycleStep

LEMMA OrderStep == TypeOK /\ LineInv /\ OrderInv /\ [Next]_vars => OrderInv'
<1> SUFFICES ASSUME TypeOK, LineInv, OrderInv, [Next]_vars PROVE OrderInv'
  OBVIOUS
<1>1. CASE UNCHANGED vars
  BY <1>1 DEF vars, OrderInv, ClosedIsIdle, UpAtHook, Begun, Ended, AllOff, Idle, Held
<1> QED
  BY <1>1, OrderTask, OrderLifecycle, StepForms

LEMMA InitOrder == Init => OrderInv
<1> SUFFICES ASSUME Init PROVE OrderInv
  OBVIOUS
<1>1. Idle(Http) /\ Idle(Consumers) /\ Idle(Jobs) /\ Held = {}
  BY DEF Init, Idle, Held, Tasks
<1> QED
  BY <1>1 DEF Init, OrderInv, ClosedIsIdle, UpAtHook, Begun, Ended, AllOff

(* Whoever is at work and has not been cancelled finds the pool open and   *)
(* the verifier with its keys: the hooks start the entrances last and stop *)
(* them first (registerLifecycle).                                         *)
THEOREM AcceptedAlwaysFindsAll == Spec => []AcceptedFindsAll
<1>1. TypeOK /\ OrderInv => AcceptedFindsAll
  <2> SUFFICES ASSUME TypeOK, OrderInv, NEW t \in Tasks, task[t] # "none", ~Cancelled(t), phase # "exited"
               PROVE  pool = "open" /\ (t \in Http => identity)
    BY DEF AcceptedFindsAll
  <2>0. hooks \in 0..5 /\ pool \in {"open", "closing", "closed"}
    BY HookNumbers DEF TypeOK
  <2>1. t \in Http => server \in {"accepting", "draining"}
    BY DEF OrderInv, ClosedIsIdle, Idle, Cancelled, TypeOK
  <2>2. t \in Consumers => consumer \in {"receiving", "draining"}
    BY DEF OrderInv, ClosedIsIdle, Idle, Cancelled, TypeOK
  <2>3. t \in Jobs => scheduler = "running"
    BY DEF OrderInv, ClosedIsIdle, Idle, Cancelled, TypeOK
  <2>4. hooks >= 4
    BY <2>0, <2>1, <2>2, <2>3 DEF OrderInv, UpAtHook, Tasks
  <2> QED
    BY <2>0, <2>1, <2>4 DEF OrderInv, UpAtHook
<1> QED
  BY <1>1, InitTypes, InitOrder, TypeStep, OrderStep, PTL DEF Spec

(* An exit that reports success cuts off nothing, and one the global       *)
(* deadline did not force leaves no transaction open (Client.Close waits   *)
(* for the last connection).                                               *)
THEOREM ExitsAreClean == Spec => []CleanExit
<1>1. TypeOK /\ OrderInv => CleanExit
  <2> SUFFICES ASSUME TypeOK, OrderInv, phase = "exited"
               PROVE  /\ hooks = 0 => Held = {}
                      /\ ~failed => Idle(Consumers) /\ Idle(Jobs)
    BY DEF CleanExit
  <2>1. CASE AllOff
    <3>1. Held = {}
      BY <2>1 DEF OrderInv, ClosedIsIdle, AllOff, Idle, Held, Tasks
    <3> QED
      BY <2>1, <3>1 DEF OrderInv, ClosedIsIdle, AllOff
  <2>2. hooks = 0 => Held = {}
    BY <2>1 DEF OrderInv, ClosedIsIdle, Ended
  <2>3. ~failed => Idle(Consumers) /\ Idle(Jobs)
    <3>1. ~failed => hooks = 0 /\ consumer \in {"off", "stopped"}
      BY DEF OrderInv, UpAtHook, Ended, TypeOK
    <3> QED
      BY <3>1 DEF OrderInv, ClosedIsIdle, Ended
  <2> QED
    BY <2>2, <2>3
<1> QED
  BY <1>1, InitTypes, InitOrder, TypeStep, OrderStep, PTL DEF Spec

=============================================================================
