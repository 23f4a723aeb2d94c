------------------------------ MODULE Instance ------------------------------
(***************************************************************************)
(* One instance of the service from its start to its exit: the lifecycle   *)
(* hooks (internal/app/lifecycle.go, run by fx), the HTTP server with its  *)
(* write limiter, the queue consumer, the scheduler, and the database pool *)
(* all of them share.                                                      *)
(*                                                                         *)
(* A task is a goroutine that may use the database: a write or a read over *)
(* HTTP, a consumer slot, a job.  What it does there is Settlement's and   *)
(* Outbox's business; here it waits for a connection, holds one at a time, *)
(* and ends.  Health probes are reads.                                     *)
(***************************************************************************)
EXTENDS Integers, Sequences, FiniteSets

CONSTANTS
    Writes,            \* POST requests, which pass the write limiter
    Reads,             \* GET requests and health probes, which do not
    Consumers,         \* slots of the queue consumer; none when it is off
    Jobs,              \* enabled jobs
    WriteConcurrency,  \* HTTP_WRITE_CONCURRENCY
    Reserved,          \* DB_POOL_RESERVED
    PoolSize,          \* DB_POOL_MAX_CONNS
    MaxFaults          \* bound: further transactions of a task (a retry, a
                       \* batch), and the global deadline of a shutdown

Http == Writes \cup Reads
Tasks == Http \cup Consumers \cup Jobs

(* ConnectionBudget.Demand; the configuration is refused when it does not  *)
(* fit the pool.                                                           *)
Demand == WriteConcurrency + Cardinality(Consumers) + Cardinality(Jobs) + Reserved

ASSUME BudgetAssumption ==
    /\ IsFiniteSet(Tasks)
    /\ Cardinality(Tasks) = Cardinality(Writes) + Cardinality(Reads)
                            + Cardinality(Consumers) + Cardinality(Jobs)
    /\ WriteConcurrency \in Nat \ {0} /\ Reserved \in Nat /\ PoolSize \in Nat
    /\ MaxFaults \in Nat
    /\ Demand <= PoolSize

VARIABLES
    phase,      \* of the process
    hooks,      \* hooks started and not stopped yet, counted in their order
    failed,     \* did a hook return an error?
    identity,   \* has the verifier its keys?
    server,     \* the HTTP server
    consumer,   \* the queue consumer
    scheduler,  \* the jobs
    pool,       \* the database pool
    task,       \* what each task is doing
    line,       \* tasks that wait for a connection, in their order
    faults

lifecycle == <<phase, hooks, failed, identity, server, consumer, scheduler, pool>>
vars == <<phase, hooks, failed, identity, server, consumer, scheduler, pool,
          task, line, faults>>

(* The order of registerLifecycle.                                         *)
Hooks == <<"database", "messaging", "identity", "jobs", "entrances">>

Init ==
    /\ phase = "starting"
    /\ hooks = 0
    /\ failed = FALSE
    /\ identity = FALSE
    /\ server = "off" /\ consumer = "off" /\ scheduler = "off"
    /\ pool = "open"
    /\ task = [t \in Tasks |-> "none"]
    /\ line = << >>
    /\ faults = 0

Fault == faults < MaxFaults /\ faults' = faults + 1

-----------------------------------------------------------------------------
(* Tasks.                                                                  *)

(* Mutant of HoldsSlot: the slot is given back while the request still has *)
(* its connection.                                                         *)
HoldsSlot_UntilQueued(t) == task[t] \in {"waiting", "ending"}

(* A write holds its slot of the limiter from the moment it got it until   *)
(* its handler returns.                                                    *)
HoldsSlot(t) == task[t] \in {"waiting", "holding", "ending"}

SlotsUsed == Cardinality({t \in Writes : HoldsSlot(t)})

Held == {t \in Tasks : task[t] = "holding"}

Queue(t) == task' = [task EXCEPT ![t] = "waiting"] /\ line' = Append(line, t)

(* A write meets the limiter first; a read goes straight to the pool, and  *)
(* so do a message and a round of a job.                                   *)
Arrive(t) ==
    /\ phase # "exited"
    /\ task[t] = "none"
    /\ t \in Http => server = "accepting"
    /\ t \in Consumers => consumer = "receiving"
    /\ t \in Jobs => scheduler = "running"
    /\ IF t \in Writes THEN task' = [task EXCEPT ![t] = "queued"] /\ UNCHANGED line ELSE Queue(t)
    /\ UNCHANGED <<lifecycle, faults>>

(* limited: a slot, or an answer 503 when the wait or the request ends.    *)
Enter(t) ==
    /\ phase # "exited"
    /\ t \in Writes /\ task[t] = "queued"
    /\ SlotsUsed < WriteConcurrency
    /\ Queue(t)
    /\ UNCHANGED <<lifecycle, faults>>

(* Mutant of Shed: the wait for a slot has no timer.                       *)
Shed_NoTimer(t) ==
    /\ phase # "exited"
    /\ task[t] = "queued" /\ server = "closed"
    /\ task' = [task EXCEPT ![t] = "none"]
    /\ UNCHANGED <<lifecycle, line, faults>>

Shed(t) ==
    /\ phase # "exited"
    /\ task[t] = "queued"
    /\ task' = [task EXCEPT ![t] = "none"]
    /\ UNCHANGED <<lifecycle, line, faults>>

(* The pool serves those who wait in their order.                          *)
Acquire(t) ==
    /\ phase # "exited"
    /\ line # << >> /\ t = Head(line)
    /\ pool = "open"
    /\ Cardinality(Held) < PoolSize
    /\ line' = Tail(line)
    /\ task' = [task EXCEPT ![t] = "holding"]
    /\ UNCHANGED <<lifecycle, faults>>

(* The context of a task ends when its entrance gives up on it.            *)
Cancelled(t) ==
    \/ t \in Http /\ server = "closed"
    \/ t \in Consumers /\ consumer \in {"aborted", "left"}
    \/ t \in Jobs /\ scheduler = "cancelled"

(* BeginTx fails: the context has ended, or the pool is closed.  The task  *)
(* leaves the line.                                                        *)
Refused(t) ==
    /\ phase # "exited"
    /\ task[t] = "waiting"
    /\ Cancelled(t) \/ pool # "open"
    /\ \E i \in 1..Len(line) :
         /\ line[i] = t
         /\ line' = SubSeq(line, 1, i - 1) \o SubSeq(line, i + 1, Len(line))
    /\ task' = [task EXCEPT ![t] = "ending"]
    /\ UNCHANGED <<lifecycle, faults>>

(* Mutant of Return: the rollback runs in the context that has ended, and  *)
(* the connection never comes back.                                        *)
Return_SameContext(t) ==
    /\ phase # "exited"
    /\ task[t] = "holding" /\ ~Cancelled(t)
    /\ task' = [task EXCEPT ![t] = "ending"]
    /\ UNCHANGED <<lifecycle, line, faults>>

(* Commit or rollback; the latter in a context of its own.                 *)
Return(t) ==
    /\ phase # "exited"
    /\ task[t] = "holding"
    /\ task' = [task EXCEPT ![t] = "ending"]
    /\ UNCHANGED <<lifecycle, line, faults>>

(* A second transaction: another attempt of UnitOfWork.Do, giveUp, the     *)
(* mark after a delivery, the next item of a batch.                        *)
Again(t) ==
    /\ phase # "exited"
    /\ task[t] = "ending"
    /\ ~Cancelled(t)
    /\ Fault
    /\ Queue(t)
    /\ UNCHANGED lifecycle

Finish(t) ==
    /\ phase # "exited"
    /\ task[t] = "ending"
    /\ task' = [task EXCEPT ![t] = "none"]
    /\ UNCHANGED <<lifecycle, line, faults>>

Idle(kind) == \A t \in kind : task[t] = "none"

-----------------------------------------------------------------------------
(* Start: the hooks run in their order.                                    *)

Starting(hook) == phase = "starting" /\ hooks < Len(Hooks) /\ Hooks[hooks + 1] = hook

Started == hooks' = hooks + 1

StartDependency ==
    /\ Starting("database") \/ Starting("messaging")
    /\ Started
    /\ UNCHANGED <<phase, failed, identity, server, consumer, scheduler, pool, task, line, faults>>

Connect ==
    /\ Starting("identity")
    /\ Started
    /\ identity' = TRUE
    /\ UNCHANGED <<phase, failed, server, consumer, scheduler, pool, task, line, faults>>

StartJobs ==
    /\ Starting("jobs")
    /\ Started
    /\ scheduler' = "running"
    /\ UNCHANGED <<phase, failed, identity, server, consumer, pool, task, line, faults>>

StartEntrances ==
    /\ Starting("entrances")
    /\ Started
    /\ server' = "accepting"
    /\ consumer' = IF Consumers = {} THEN "off" ELSE "receiving"
    /\ phase' = "running"
    /\ UNCHANGED <<failed, identity, scheduler, pool, task, line, faults>>

(* A dependency does not answer or the port is taken: fx stops the hooks   *)
(* that had started, in reverse, and not the one that failed.              *)
StartFails ==
    /\ phase = "starting" /\ ~Starting("jobs")
    /\ phase' = "stopping"
    /\ failed' = TRUE
    /\ UNCHANGED <<hooks, identity, server, consumer, scheduler, pool, task, line, faults>>

Sigterm ==
    /\ phase = "running"
    /\ phase' = "stopping"
    /\ UNCHANGED <<hooks, failed, identity, server, consumer, scheduler, pool, task, line, faults>>

-----------------------------------------------------------------------------
(* Stop: the hooks run in reverse, each after the one before has returned. *)

Stopping(hook) == phase = "stopping" /\ hooks > 0 /\ Hooks[hooks] = hook

Stopped == hooks' = hooks - 1

(* StopReceiving, then Shutdown and Consumer.Stop side by side.            *)
StopEntrances ==
    /\ Stopping("entrances")
    /\ server = "accepting"
    /\ server' = "draining"
    /\ consumer' = IF consumer = "receiving" THEN "draining" ELSE consumer
    /\ UNCHANGED <<phase, hooks, failed, identity, scheduler, pool, task, line, faults>>

ServerDrained ==
    /\ server = "draining" /\ phase # "exited"
    /\ Idle(Http)
    /\ server' = "stopped"
    /\ UNCHANGED <<phase, hooks, failed, identity, consumer, scheduler, pool, task, line, faults>>

(* Mutant of ServerCloses: the deadline of Shutdown leaves the requests    *)
(* running with their contexts.                                            *)
ServerCloses_Shutdown ==
    /\ server = "draining" /\ phase # "exited"
    /\ server' = "stopped"
    /\ UNCHANGED <<phase, hooks, failed, identity, consumer, scheduler, pool, task, line, faults>>

(* Shutdown ran out of time: Close ends the contexts of the requests still *)
(* being served, does not wait for them, and returns no error.             *)
ServerCloses ==
    /\ server = "draining" /\ phase # "exited"
    /\ server' = "closed"
    /\ UNCHANGED <<phase, hooks, failed, identity, consumer, scheduler, pool, task, line, faults>>

(* Consumer.Stop: every handler returned, before or after it was aborted.  *)
ConsumerDrained ==
    /\ consumer \in {"draining", "aborted"} /\ phase # "exited"
    /\ Idle(Consumers)
    /\ consumer' = "stopped"
    /\ UNCHANGED <<phase, hooks, failed, identity, server, scheduler, pool, task, line, faults>>

ConsumerAborts ==
    /\ consumer = "draining" /\ phase # "exited"
    /\ consumer' = "aborted"
    /\ UNCHANGED <<phase, hooks, failed, identity, server, scheduler, pool, task, line, faults>>

(* The rest of the deadline passed as well: Stop returns an error and      *)
(* leaves the handlers behind.                                             *)
ConsumerLeft ==
    /\ consumer = "aborted" /\ phase # "exited"
    /\ consumer' = "left"
    /\ failed' = TRUE
    /\ UNCHANGED <<phase, hooks, identity, server, scheduler, pool, task, line, faults>>

(* The hook of the entrances returns when both have stopped.               *)
EntrancesStopped ==
    /\ Stopping("entrances")
    /\ server \in {"stopped", "closed"}
    /\ consumer \in {"off", "stopped", "left"}
    /\ Stopped
    /\ UNCHANGED <<phase, failed, identity, server, consumer, scheduler, pool, task, line, faults>>

CancelJobs ==
    /\ Stopping("jobs")
    /\ scheduler = "running"
    /\ scheduler' = "cancelled"
    /\ UNCHANGED <<phase, hooks, failed, identity, server, consumer, pool, task, line, faults>>

(* Mutant of JobsStopped: Stop does not wait for the rounds to end.        *)
JobsStopped_Unwaited ==
    /\ Stopping("jobs")
    /\ scheduler = "cancelled"
    /\ Stopped
    /\ UNCHANGED <<phase, failed, identity, server, consumer, scheduler, pool, task, line, faults>>

(* A tick that races the cancellation starts a round whose context has     *)
(* already ended, which does nothing and is not modelled.                  *)
JobsStopped ==
    /\ Stopping("jobs")
    /\ scheduler = "cancelled"
    /\ Idle(Jobs)
    /\ Stopped
    /\ UNCHANGED <<phase, failed, identity, server, consumer, scheduler, pool, task, line, faults>>

JobsLeft ==
    /\ Stopping("jobs")
    /\ scheduler = "cancelled"
    /\ ~Idle(Jobs)
    /\ Stopped
    /\ failed' = TRUE
    /\ UNCHANGED <<phase, identity, server, consumer, scheduler, pool, task, line, faults>>

(* Messaging and identity have nothing to stop.                            *)
SkipHook ==
    /\ Stopping("messaging") \/ Stopping("identity")
    /\ Stopped
    /\ UNCHANGED <<phase, failed, identity, server, consumer, scheduler, pool, task, line, faults>>

(* Client.Close: nobody gets a connection any more, and it returns when    *)
(* the last one has come back.                                             *)
ClosePool ==
    /\ Stopping("database")
    /\ pool = "open"
    /\ pool' = "closing"
    /\ UNCHANGED <<phase, hooks, failed, identity, server, consumer, scheduler, task, line, faults>>

PoolClosed ==
    /\ Stopping("database")
    /\ pool = "closing"
    /\ Held = {}
    /\ pool' = "closed"
    /\ Stopped
    /\ UNCHANGED <<phase, failed, identity, server, consumer, scheduler, task, line, faults>>

Exit ==
    /\ phase = "stopping"
    /\ hooks = 0
    /\ phase' = "exited"
    /\ UNCHANGED <<hooks, failed, identity, server, consumer, scheduler, pool, task, line, faults>>

(* lifecycleTimeout: fx stops waiting, whatever hook is running.           *)
Expire ==
    /\ phase = "stopping"
    /\ hooks > 0
    /\ Fault
    /\ phase' = "exited"
    /\ failed' = TRUE
    /\ UNCHANGED <<hooks, identity, server, consumer, scheduler, pool, task, line>>

-----------------------------------------------------------------------------
TaskStep(t) == Enter(t) \/ Shed(t) \/ Refused(t) \/ Return(t) \/ Finish(t)

StartStep == StartDependency \/ Connect \/ StartJobs \/ StartEntrances

StopStep ==
    \/ StopEntrances \/ ServerDrained \/ ConsumerDrained \/ EntrancesStopped
    \/ CancelJobs \/ JobsStopped \/ SkipHook \/ ClosePool \/ PoolClosed \/ Exit

(* Deadlines of the hooks.                                                 *)
TimeOut == ServerCloses \/ ConsumerAborts \/ ConsumerLeft \/ JobsLeft \/ Expire

Next ==
    \/ \E t \in Tasks : Arrive(t) \/ TaskStep(t) \/ Acquire(t) \/ Again(t)
    \/ StartStep \/ StartFails \/ Sigterm
    \/ StopStep \/ TimeOut

Spec == Init /\ [][Next]_vars

(* Tasks go on: every statement has a timeout and the pool serves its line *)
(* in order.  The hooks of the lifecycle run.  No request, no signal and   *)
(* no deadline is forced.                                                  *)
Fairness ==
    /\ \A t \in Tasks : WF_vars(TaskStep(t))
    /\ WF_vars(\E t \in Tasks : Acquire(t))
    /\ WF_vars(StartStep)
    /\ WF_vars(StopStep)

FairSpec == Spec /\ Fairness

-----------------------------------------------------------------------------
TypeOK ==
    /\ phase \in {"starting", "running", "stopping", "exited"}
    /\ hooks \in 0..Len(Hooks)
    /\ failed \in BOOLEAN /\ identity \in BOOLEAN
    /\ server \in {"off", "accepting", "draining", "stopped", "closed"}
    /\ consumer \in {"off", "receiving", "draining", "aborted", "stopped", "left"}
    /\ scheduler \in {"off", "running", "cancelled"}
    /\ pool \in {"open", "closing", "closed"}
    /\ task \in [Tasks -> {"none", "queued", "waiting", "holding", "ending"}]
    /\ line \in Seq(Tasks)
    /\ faults \in 0..MaxFaults

(* The connection budget does what it is for: a write, a message or a job  *)
(* finds the pool exhausted only when reads, which nothing limits, hold    *)
(* more than the connections reserved for them.                            *)
BudgetHolds ==
    \A t \in Tasks \ Reads :
        task[t] = "waiting" /\ Cardinality(Held) >= PoolSize =>
            Cardinality(Held \cap Reads) > Reserved

(* Start and stop order: whoever is at work and has not been cancelled     *)
(* finds the pool open, and the requests a verifier with keys, through a   *)
(* failed start, a drain that runs out of time and every order in which    *)
(* the entrances stop.                                                     *)
AcceptedFindsAll ==
    phase # "exited" =>
        \A t \in Tasks : task[t] # "none" /\ ~Cancelled(t) =>
            pool = "open" /\ (t \in Http => identity)

(* An exit that reports success cuts off nothing: no transaction is open,  *)
(* and no message and no round of a job is unfinished.  An exit that the   *)
(* global deadline did not force leaves no transaction open either.        *)
CleanExit ==
    phase = "exited" =>
        /\ hooks = 0 => Held = {}
        /\ ~failed => Idle(Consumers) /\ Idle(Jobs)

(* A stop ends by itself, without the global deadline.                     *)
EveryStopEnds == (phase = "stopping") ~> (phase = "exited")

(* Every request, message and round ends, or the process does: nobody      *)
(* waits for ever behind the limiter or the pool, however many reads       *)
(* crowd it.                                                               *)
EveryTaskEnds ==
    \A t \in Tasks : (task[t] # "none") ~> (task[t] = "none" \/ phase = "exited")

=============================================================================
