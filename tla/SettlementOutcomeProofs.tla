---------------------- MODULE SettlementOutcomeProofs ----------------------
(***************************************************************************)
(* Theorems about what becomes of an operation: who may change its row,    *)
(* that what was decided still stands when it commits, and what the rows,  *)
(* the events and the answers say afterwards.                              *)
(***************************************************************************)
EXTENDS SettlementProofs, SettlementInvariants, SequenceTheorems

-----------------------------------------------------------------------------
(* The forms of a step.  Apart from the commits that write operations, a   *)
(* step changes only what one process remembers.                           *)

HeldLabels == SettlingLabels \cup {"commitGiveUp"}

(* The operations stay, and only p goes on.                                *)
Only(p) ==
    /\ UNCHANGED txs
    /\ \A q \in Processes \ {p} : pc'[q] = pc[q] /\ job'[q] = job[q]

(* What p remembers of the time is the clock, or what it remembered.       *)
KnowsTheTime(p) ==
    \/ pc'[p] \in {"idle", "giveUp"}
    \/ job'[p].now = clock
    \/ pc[p] \notin {"idle", "giveUp", "commitGiveUp"} /\ job'[p].now = job[p].now

(* What p saw due is stored.                                               *)
SawStored(p) == \A r \in Requests : job'[p].seen[r] > 0 => Stored(r)

(* p ends up holding neither keys nor rows.                                *)
HoldsNothing(p) ==
    /\ Only(p)
    /\ pc'[p] \in PCs \ HeldLabels
    /\ job'[p].woken = {} /\ job'[p].kept = {} /\ SawStored(p)
    /\ KnowsTheTime(p)
    /\ pc'[p] = "giveUp" => PermanentFaults

(* A handler's insert takes its keys.                                      *)
TakesKeys(h) ==
    /\ Only(h)
    /\ pc[h] = "insert" /\ pc'[h] = "lock" /\ job'[h] = job[h]
    /\ job[h].woken = {} /\ job[h].kept = {}
    /\ ~\E q \in Handlers \ {h} : \E o \in Requests :
          HoldsRequest(q, o) /\ Conflicts(job[h].op, o)
    /\ \A o \in Requests : Stored(o) => ~Conflicts(job[h].op, o)

(* A worker claims a row, or finds it still waiting before giving it up.   *)
TakesRow(k) ==
    /\ Only(k)
    /\ pc[k] = "claim" /\ pc'[k] = "lock"
    /\ job'[k].op \in Due(k) /\ ~rowLocked(k, job'[k].op)
    /\ \A r \in job'[k].kept : Stored(r) /\ ~rowLocked(k, r)
    /\ job'[k].now = job[k].now /\ job'[k].woken = {} /\ job'[k].seen = nothingSeen

TakesRowBack(k) ==
    /\ Only(k)
    /\ pc[k] = "giveUp" /\ pc'[k] = "commitGiveUp" /\ job'[k] = job[k]
    /\ job[k].woken = {} /\ job[k].kept = {}
    /\ txs[job[k].op].status = "PENDING_REFERENCE"
    /\ ~rowLocked(k, job[k].op)

(* Who is part of a deadlock waits and holds a lock others wait for.       *)
LEMMA DeadlockedLocks ==
    ASSUME WokenRowsWait, KeptRowsStored, NEW p \in Processes, Deadlocked(p)
    PROVE  pc[p] \in {"insert", "replay", "lock", "wake"}
<1>1. PICK x \in Processes : WaitsFor(x, p)
  BY DEF Deadlocked, Waiters
<1>2. \A r : HoldsRow(p, r) => pc[p] \in {"lock", "settle", "wake", "commit", "commitGiveUp"}
  BY DEF HoldsRow, WokenRowsWait, KeptRowsStored, SettlingLabels
<1>3. pc[p] \notin {"inbox", "giveUp"}
  BY <1>1, <1>2
     DEF WaitsFor, HoldsMessage, HoldsRequest, HoldsWallet, SharesRow, Replays
<1> QED
  BY <1>3, DeadlockedLabel

(* Every step has one of these forms.                                      *)
LEMMA StepForms ==
    ASSUME Shape, WokenRowsWait, KeptRowsStored, [Next]_vars
    PROVE  \/ UNCHANGED <<txs, pc, job>>
           \/ \E p \in Processes : HoldsNothing(p)
           \/ \E h \in Handlers : TakesKeys(h)
           \/ \E k \in Workers : TakesRow(k) \/ TakesRowBack(k) \/ CommitGiveUp(k)
           \/ \E p \in Processes : \/ LockWallet(p) \/ Settle(p) \/ WakeUp(p)
                                   \/ CommitSettlement(p)
<1> DEFINE Goal == \/ UNCHANGED <<txs, pc, job>>
                   \/ \E p \in Processes : HoldsNothing(p)
                   \/ \E h \in Handlers : TakesKeys(h)
                   \/ \E k \in Workers : TakesRow(k) \/ TakesRowBack(k) \/ CommitGiveUp(k)
                   \/ \E p \in Processes : \/ LockWallet(p) \/ Settle(p) \/ WakeUp(p)
                                           \/ CommitSettlement(p)
<1>0. /\ pc \in [Processes -> PCs] /\ job \in [Processes -> Jobs]
      /\ Handlers \subseteq Processes /\ Workers \subseteq Processes
      /\ noJob.woken = {} /\ noJob.kept = {} /\ \A r \in Requests : noJob.seen[r] = 0
      /\ nothingSeen \in [Requests -> Nat]
      /\ \A p \in Processes : pc[p] # "commit" => job[p].woken = {}
      /\ \A p \in Processes : pc[p] \notin SettlingLabels => job[p].kept = {}
      /\ \A p \in Processes : \A r \in Requests : job[p].seen[r] > 0 => Stored(r)
  BY DEF Shape, TypeOK, Processes, noJob, nothingSeen, WokenRowsWait, KeptRowsStored, Jobs
<1>1. ASSUME NEW p \in Processes, UNCHANGED txs, Finish(p) PROVE HoldsNothing(p)
  BY <1>0, <1>1
     DEF Finish, Goto, HoldsNothing, SawStored, Only, KnowsTheTime, HeldLabels, SettlingLabels, PCs
<1>2. ASSUME NEW p \in Processes, NEW label \in PCs \ HeldLabels, UNCHANGED txs, Goto(p, label),
             \A q \in Processes \ {p} : job'[q] = job[q],
             job'[p].woken = {}, job'[p].kept = {},
             job'[p].seen = job[p].seen \/ job'[p].seen = noJob.seen \/ SawStored(p),
             KnowsTheTime(p), label = "giveUp" => PermanentFaults
      PROVE  HoldsNothing(p)
  BY <1>0, <1>2 DEF Goto, HoldsNothing, SawStored, Only
<1>3. /\ {"idle", "inbox", "insert", "replay", "commitReplay", "create", "commitOpening",
          "scan", "claim", "giveUp"} \subseteq PCs \ HeldLabels
      /\ \A p \in Processes :
           pc[p] \in {"inbox", "insert", "replay", "create", "idle", "scan", "claim", "giveUp"} =>
             pc[p] \notin SettlingLabels
      /\ \A p \in Processes : job[p] \in Jobs
      /\ UNCHANGED db => UNCHANGED txs
  BY <1>0 DEF PCs, HeldLabels, SettlingLabels, db
<1>4. ASSUME NEW h \in Handlers, Arrival(h) PROVE HoldsNothing(h)
  <2>1. /\ UNCHANGED txs
        /\ \A q \in Processes \ {h} : job'[q] = job[q]
        /\ job'[h].woken = {} /\ job'[h].kept = {} /\ job'[h].seen = noJob.seen
        /\ job'[h].now = clock
        /\ Goto(h, "insert") \/ Goto(h, "inbox") \/ Goto(h, "create")
    <3>1. ASSUME NEW d \in Deliveries, Begin(h, d)
          PROVE  /\ job'[h].woken = {} /\ job'[h].kept = {} /\ job'[h].seen = noJob.seen
                 /\ job'[h].now = clock
                 /\ Goto(h, "insert") \/ Goto(h, "inbox")
      BY <1>0, <3>1 DEF Begin, FirstStatement, Arrive, noJob
    <3>2. ASSUME NEW w \in Wallets, NEW b \in OpeningBalances, BeginOpening(h, w, b)
          PROVE  /\ job'[h].woken = {} /\ job'[h].kept = {} /\ job'[h].seen = noJob.seen
                 /\ job'[h].now = clock /\ Goto(h, "create")
      BY <1>0, <3>2 DEF BeginOpening, Arrive, noJob
    <3>3. UNCHANGED txs /\ \A q \in Processes \ {h} : job'[q] = job[q]
      BY <1>0, <1>3, <1>4 DEF Arrival, Begin, BeginOpening, Arrive
    <3> QED
      BY <1>4, <3>1, <3>2, <3>3 DEF Arrival
  <2> QED
    BY <1>0, <1>2, <1>3, <2>1 DEF KnowsTheTime
<1>5. ASSUME NEW h \in Handlers, HandlerStep(h) PROVE Goal
  <2>0. h \in Processes /\ job[h] \in Jobs
    BY <1>0, <1>3
  <2>1. CASE RegisterInbox(h)
    <3>1. UNCHANGED txs
      BY <1>3, <2>1 DEF RegisterInbox, Proceed, Refuse
    <3>2. CASE Finish(h)
      BY <1>1, <2>0, <3>1, <3>2
    <3>3. CASE Goto(h, "insert") /\ UNCHANGED job
      BY <1>0, <1>2, <1>3, <2>0, <2>1, <3>1, <3>3 DEF RegisterInbox, KnowsTheTime
    <3> QED
      BY <2>1, <3>2, <3>3 DEF RegisterInbox, Proceed, Refuse
  <2>2. CASE Insert(h)
    <3>1. UNCHANGED txs /\ pc[h] = "insert" /\ job[h].woken = {} /\ job[h].kept = {}
      BY <1>0, <1>3, <2>0, <2>2 DEF Insert, Proceed, Refuse
    <3>2. CASE Finish(h)
      BY <1>1, <2>0, <3>1, <3>2
    <3>3. CASE Goto(h, "replay") /\ UNCHANGED job
      BY <1>0, <1>2, <1>3, <2>0, <3>1, <3>3 DEF KnowsTheTime
    <3>4. CASE Goto(h, "lock") /\ UNCHANGED job /\ \A o \in Requests : Stored(o) => ~Conflicts(job[h].op, o)
      BY <1>0, <2>0, <2>2, <3>1, <3>4 DEF TakesKeys, Only, Goto, Insert
    <3> QED
      BY <2>2, <3>2, <3>3, <3>4 DEF Insert, Proceed, Refuse
  <2>3. CASE Replay(h)
    <3>1. UNCHANGED txs /\ pc[h] = "replay" /\ job[h].woken = {} /\ job[h].kept = {}
      BY <1>0, <1>3, <2>0, <2>3 DEF Replay, Proceed, Refuse
    <3>2. CASE Finish(h)
      BY <1>1, <2>0, <3>1, <3>2
    <3>3. ASSUME NEW o \in Requests, Goto(h, "commitReplay"),
                 job' = [job EXCEPT ![h].op = o, ![h].answer = txs[o].status]
          PROVE  HoldsNothing(h)
      <4>1. /\ job'[h].woken = {} /\ job'[h].kept = {} /\ job'[h].seen = job[h].seen
            /\ job'[h].now = job[h].now
            /\ \A q \in Processes \ {h} : job'[q] = job[q]
        BY <1>0, <2>0, <3>1, <3>3 DEF Jobs
      <4> QED
        BY <1>2, <1>3, <2>0, <3>1, <3>3, <4>1 DEF KnowsTheTime
    <3> QED
      BY <2>0, <2>3, <3>2, <3>3 DEF Replay, Proceed, Refuse
  <2>4. CASE LockWallet(h) \/ Settle(h) \/ WakeUp(h)
    BY <2>0, <2>4
  <2>5. ASSUME NEW heard \in BOOLEAN, CommitReplay(h, heard) \/ CommitRequest(h, heard) PROVE Goal
    BY <1>1, <2>0, <2>5 DEF CommitReplay, CommitRequest
  <2>6. CASE CreateWallet(h)
    <3>1. UNCHANGED txs /\ pc[h] = "create" /\ job[h].woken = {} /\ job[h].kept = {}
      BY <1>0, <1>3, <2>0, <2>6 DEF CreateWallet, Proceed
    <3>2. CASE Finish(h)
      BY <1>1, <2>0, <3>1, <3>2
    <3>3. CASE Goto(h, "commitOpening") /\ UNCHANGED job
      BY <1>0, <1>2, <1>3, <2>0, <3>1, <3>3 DEF KnowsTheTime
    <3> QED
      BY <2>0, <2>6, <3>2, <3>3 DEF CreateWallet, Proceed
  <2>7. CASE CommitOpening(h)
    BY <1>1, <2>0, <2>7 DEF CommitOpening
  <2> HIDE DEF Goal
  <2> QED
    BY <1>5, <2>1, <2>2, <2>3, <2>4, <2>5, <2>6, <2>7 DEF HandlerStep
<1>6. ASSUME NEW k \in Workers, WorkerStep(k) PROVE Goal
  <2>0. k \in Processes /\ job[k] \in Jobs
    BY <1>0, <1>3
  <2>1. CASE BeginAttempt(k)
    <3>1. UNCHANGED txs /\ Goto(k, "scan") /\ job[k].woken = {} /\ job[k].kept = {}
      BY <1>0, <1>3, <2>0, <2>1 DEF BeginAttempt, Proceed
    <3>2. /\ job'[k].woken = {} /\ job'[k].kept = {} /\ job'[k].seen = job[k].seen
          /\ job'[k].now = clock
          /\ \A q \in Processes \ {k} : job'[q] = job[q]
      BY <1>0, <2>0, <2>1, <3>1 DEF BeginAttempt, Jobs
    <3> QED
      BY <1>2, <1>3, <2>0, <3>1, <3>2 DEF KnowsTheTime
  <2>2. CASE ClaimDuePending(k)
    <3>1. UNCHANGED txs /\ pc[k] = "claim" /\ job[k].woken = {}
      BY <1>0, <1>3, <2>0, <2>2 DEF ClaimDuePending, Proceed
    <3>2. CASE Finish(k)
      BY <1>1, <2>0, <3>1, <3>2
    <3>3. ASSUME NEW r \in StillDue(k), NEW kept \in SUBSET NotDueAnyMore(k),
                 job' = [job EXCEPT ![k].op = r, ![k].kept = kept, ![k].seen = nothingSeen],
                 Goto(k, "lock")
          PROVE  TakesRow(k)
      <4>1. r \in Due(k) /\ ~rowLocked(k, r)
        BY DEF StillDue, FreeRows
      <4>2. \A o \in kept : Stored(o) /\ ~rowLocked(k, o)
        BY <1>0, <2>0 DEF NotDueAnyMore, FreeRows
      <4>3. /\ job'[k].op = r /\ job'[k].kept = kept /\ job'[k].seen = nothingSeen
            /\ job'[k].now = job[k].now /\ job'[k].woken = job[k].woken
            /\ pc'[k] = "lock"
            /\ \A q \in Processes \ {k} : pc'[q] = pc[q] /\ job'[q] = job[q]
        BY <1>0, <2>0, <3>3 DEF Goto, Jobs
      <4> QED
        BY <3>1, <4>1, <4>2, <4>3 DEF TakesRow, Only
    <3> QED
      BY <2>0, <2>2, <3>2, <3>3 DEF ClaimDuePending, Proceed
  <2>3. CASE LockWallet(k) \/ Settle(k) \/ WakeUp(k)
    BY <2>0, <2>3
  <2>4. CASE CommitRetry(k)
    BY <2>0, <2>4 DEF CommitRetry
  <2>5. CASE GiveUp(k)
    <3>1. UNCHANGED txs /\ pc[k] = "giveUp" /\ job[k].woken = {} /\ job[k].kept = {}
      BY <1>0, <1>3, <2>0, <2>5 DEF GiveUp, Proceed
    <3>2. CASE Finish(k)
      BY <1>1, <2>0, <3>1, <3>2
    <3>3. CASE Goto(k, "commitGiveUp") /\ UNCHANGED job /\ txs[job[k].op].status = "PENDING_REFERENCE"
      BY <1>0, <2>0, <2>5, <3>1, <3>3 DEF TakesRowBack, Only, Goto, GiveUp
    <3> QED
      BY <2>0, <2>5, <3>2, <3>3 DEF GiveUp, Proceed
  <2>6. CASE CommitGiveUp(k)
    BY <2>6
  <2>7. CASE ScanPending(k)
    <3>1. UNCHANGED txs /\ pc[k] = "scan" /\ job[k].woken = {} /\ job[k].kept = {}
      BY <1>0, <1>3, <2>0, <2>7 DEF ScanPending, Proceed
    <3>2. CASE Finish(k)
      BY <1>1, <2>0, <3>1, <3>2
    <3>3. CASE Due(k) # {} /\ Goto(k, "claim")
      <4> DEFINE seen == [r \in Requests |-> IF r \in Due(k) THEN txs[r].nextAt ELSE 0]
      <4>1. \A r \in Requests : seen[r] > 0 => Stored(r)
        BY DEF Due, Stored
      <4>2. job' = [job EXCEPT ![k].seen = seen]
        BY <2>7, <3>3 DEF ScanPending
      <4> HIDE DEF seen
      <4>3. /\ job'[k].woken = {} /\ job'[k].kept = {} /\ job'[k].seen = seen
            /\ job'[k].now = job[k].now
            /\ \A q \in Processes \ {k} : job'[q] = job[q]
        BY <1>0, <2>0, <3>1, <4>2 DEF Jobs
      <4> QED
        BY <1>2, <1>3, <2>0, <3>1, <3>3, <4>1, <4>3 DEF KnowsTheTime, SawStored
    <3> QED
      BY <2>0, <2>7, <3>2, <3>3 DEF ScanPending, Proceed
  <2> HIDE DEF Goal
  <2> QED
    BY <1>6, <2>1, <2>2, <2>3, <2>4, <2>5, <2>6, <2>7 DEF WorkerStep
<1>7. ASSUME NEW p \in Processes, UNCHANGED txs, RunAgain(p),
              p \in Workers => pc[p] \notin {"idle", "giveUp", "commitGiveUp"}
       PROVE  HoldsNothing(p)
  <2>1. /\ job'[p].woken = {} /\ job'[p].kept = {} /\ job'[p].seen = noJob.seen
        /\ \A q \in Processes \ {p} : job'[q] = job[q]
        /\ Goto(p, "scan") \/ Goto(p, "insert") \/ Goto(p, "inbox")
        /\ job'[p].now = clock \/ (p \in Workers /\ job'[p].now = job[p].now)
    <3>1. CASE /\ p \in Workers /\ Goto(p, "scan")
               /\ job' = [job EXCEPT ![p] = [noJob EXCEPT !.now = job[p].now]]
      BY <1>0, <3>1 DEF noJob
    <3>2. CASE /\ Goto(p, FirstStatement(job[p].message))
               /\ job' = [job EXCEPT ![p] = [noJob EXCEPT !.op = job[p].op,
                                             !.message = job[p].message,
                                             !.body = job[p].body, !.now = clock]]
      BY <1>0, <3>2 DEF FirstStatement, noJob
    <3> QED
      BY <1>7, <3>1, <3>2 DEF RunAgain
  <2> QED
    BY <1>2, <1>3, <1>7, <2>1 DEF KnowsTheTime
<1>8. ASSUME NEW p \in Processes, DeadlockVictim(p) PROVE HoldsNothing(p)
  <2>1. UNCHANGED txs
    BY <1>3, <1>8 DEF DeadlockVictim
  <2>2. CASE Finish(p)
    BY <1>1, <2>1, <2>2
  <2>3. CASE RunAgain(p)
    BY <1>7, <1>8, <2>1, <2>3, DeadlockedLocks DEF DeadlockVictim
  <2> QED
    BY <1>8, <2>2, <2>3 DEF DeadlockVictim
<1>9. ASSUME Failure PROVE Goal
  <2>1. ASSUME NEW p \in Processes, Abort(p) PROVE HoldsNothing(p)
    BY <1>1, <1>3, <2>1 DEF Abort
  <2>2. ASSUME NEW k \in Workers, RetryAttempt(k) PROVE HoldsNothing(k)
    BY <1>0, <1>3, <1>7, <2>2 DEF RetryAttempt
  <2>3. ASSUME NEW k \in Workers, PermanentError(k) PROVE HoldsNothing(k)
    <3>1. /\ Goto(k, "giveUp") /\ PermanentFaults /\ UNCHANGED txs
          /\ pc'[k] = "giveUp" /\ job'[k].woken = {} /\ job'[k].kept = {}
          /\ job'[k].seen = noJob.seen
          /\ \A q \in Processes \ {k} : job'[q] = job[q]
      BY <1>0, <1>3, <2>3 DEF PermanentError, Goto, noJob
    <3> QED
      BY <1>0, <1>2, <1>3, <3>1 DEF KnowsTheTime
  <2> QED
    BY <1>0, <1>9, <2>1, <2>2, <2>3 DEF Failure
<1>10. Tick \/ UNCHANGED vars => Goal
  BY DEF Tick, vars, db
<1>11. (\E p \in Processes : DeadlockVictim(p)) => Goal
  BY <1>8
<1> HIDE DEF Goal
<1>12. \A h \in Handlers : Arrival(h) => Goal
  BY <1>0, <1>4 DEF Goal
<1>13. Goal
  BY <1>5, <1>6, <1>9, <1>10, <1>11, <1>12 DEF Next
<1> QED
  BY <1>13 DEF Goal

-----------------------------------------------------------------------------
(* Ownership.                                                              *)

(* What p works on between two of its statements is an operation.          *)
LEMMA HeldOperation ==
    ASSUME Shape, NEW p \in Processes, pc[p] \in HeldLabels
    PROVE  job[p].op \in Requests /\ job[p] \in Jobs
BY DEF Shape, TypeOK, JobsFit, JobFits, RequestPCs, HeldLabels, SettlingLabels

(* No process holds anything at the start.                                 *)
LEMMA OwnershipInit == Init => Ownership
BY DEF Init, Ownership, ClaimedRowsWait, KeysAreFree, KeysHeldOnce, RowsHeldOnce,
       WokenRowsWait, KeptRowsStored, RowsAreUnique, Stored, absentRow, HoldsRow, noJob,
       nothingSeen, SettlingLabels, Processes

(* A step that writes no operation keeps the ownership if what p holds     *)
(* afterwards is free, waits, and is held by nobody else.                  *)
LEMMA OwnershipOnly ==
    ASSUME Shape, Ownership, NEW p \in Processes, Only(p),
           p \in Workers /\ pc'[p] \in HeldLabels =>
               txs[job'[p].op].status = "PENDING_REFERENCE",
           p \in Handlers /\ pc'[p] \in SettlingLabels =>
               \A o \in Requests : Stored(o) => ~Conflicts(job'[p].op, o),
           p \in Handlers /\ pc'[p] \in SettlingLabels =>
               \A g \in Handlers \ {p} : pc[g] \in SettlingLabels =>
                   ~Conflicts(job'[p].op, job[g].op),
           \A r \in Requests : HoldsRow(p, r)' => ~lockedForUpdate(p, r),
           \A r \in job'[p].woken : pc'[p] = "commit" /\ WaitsForOperation(r, job'[p].op),
           \A r \in job'[p].kept : p \in Workers /\ pc'[p] \in SettlingLabels /\ Stored(r),
           SawStored(p)
    PROVE  Ownership'
<1> USE DEF Ownership, Only
<1>0. /\ Handlers \subseteq Processes /\ Workers \subseteq Processes
      /\ \A r \in Requests : Stored(r)' <=> Stored(r)
  BY DEF Processes, Stored
<1>1. ClaimedRowsWait'
  BY <1>0 DEF ClaimedRowsWait, HeldLabels
<1>2. KeysAreFree'
  BY <1>0 DEF KeysAreFree
<1>3. KeysHeldOnce'
  <2>1. \A h, g \in Handlers : Conflicts(job'[h].op, job'[g].op) => Conflicts(job'[g].op, job'[h].op)
    BY DEF Conflicts, SameKey, SameExternalID
  <2> QED
    BY <1>0, <2>1 DEF KeysHeldOnce
<1>4. RowsHeldOnce'
  <2>1. \A q \in Processes \ {p} : \A r \in Requests : HoldsRow(q, r)' <=> HoldsRow(q, r)
    BY DEF HoldsRow
  <2> QED
    BY <2>1 DEF RowsHeldOnce, lockedForUpdate
<1>5. WokenRowsWait'
  BY DEF WokenRowsWait, WaitsForOperation
<1>6. RowsAreUnique'
  BY <1>0 DEF RowsAreUnique
<1>7. KeptRowsStored'
  BY <1>0 DEF KeptRowsStored, SawStored, Stored
<1> QED
  BY <1>1, <1>2, <1>3, <1>4, <1>5, <1>6, <1>7

(* A process that ends up holding nothing disturbs nobody.                 *)
LEMMA OwnershipHoldsNothing ==
    ASSUME Shape, Ownership, NEW p \in Processes, HoldsNothing(p)
    PROVE  Ownership'
<1>1. \A r \in Requests : ~HoldsRow(p, r)'
  BY DEF HoldsNothing, HoldsRow, HeldLabels, SettlingLabels
<1> QED
  BY <1>1, OwnershipOnly DEF HoldsNothing, HeldLabels

(* The keys a handler takes are free, and so is the row a worker takes.    *)
LEMMA OwnershipTakes ==
    ASSUME Shape, Ownership,
           \/ \E h \in Handlers : TakesKeys(h)
           \/ \E k \in Workers : TakesRow(k) \/ TakesRowBack(k)
    PROVE  Ownership'
<1>0. /\ Handlers \subseteq Processes /\ Workers \subseteq Processes
      /\ \A p \in Processes : p \in Handlers => p \notin Workers
      /\ \A p \in Processes, r \in Requests : ~rowLocked(p, r) => ~lockedForUpdate(p, r)
      /\ \A p \in Processes : job'[p] = job[p] \/ job'[p].seen = nothingSeen => SawStored(p)
  BY ProcessAssumption
     DEF Processes, rowLocked, lockedForUpdate, SawStored, nothingSeen, Ownership, KeptRowsStored
<1>1. ASSUME NEW h \in Handlers, TakesKeys(h) PROVE Ownership'
  <2>1. \A g \in Handlers \ {h} : pc[g] \in SettlingLabels => ~Conflicts(job[h].op, job[g].op)
    BY <1>0, <1>1, HeldOperation DEF TakesKeys, HoldsRequest, SettlingLabels, HeldLabels
  <2>2. \A r \in Requests : ~HoldsRow(h, r)'
    BY <1>0, <1>1 DEF TakesKeys, HoldsRow
  <2> QED
    BY <1>0, <1>1, <2>1, <2>2, OwnershipOnly DEF TakesKeys
<1>2. ASSUME NEW k \in Workers, TakesRow(k) PROVE Ownership'
  <2>1. \A r \in Requests : HoldsRow(k, r)' => r = job'[k].op \/ r \in job'[k].kept
    BY <1>2 DEF TakesRow, HoldsRow
  <2>2. txs[job'[k].op].status = "PENDING_REFERENCE" /\ ~rowLocked(k, job'[k].op)
    BY <1>2 DEF TakesRow, Due
  <2>3. pc'[k] \in SettlingLabels
    BY <1>2 DEF TakesRow, SettlingLabels
  <2> QED
    BY <1>0, <1>2, <2>1, <2>2, <2>3, OwnershipOnly DEF TakesRow
<1>3. ASSUME NEW k \in Workers, TakesRowBack(k) PROVE Ownership'
  <2>1. \A r \in Requests : HoldsRow(k, r)' => r = job[k].op
    BY <1>3 DEF TakesRowBack, HoldsRow
  <2> QED
    BY <1>0, <1>3, <2>1, OwnershipOnly DEF TakesRowBack
<1> QED
  BY <1>1, <1>2, <1>3

(* How the statements under the wallet lock change what p remembers.       *)
LEMMA UnderLockForm ==
    ASSUME Shape, NEW p \in Processes, LockWallet(p) \/ Settle(p) \/ WakeUp(p)
    PROVE  /\ Only(p)
           /\ pc[p] \in SettlingLabels /\ pc'[p] \in SettlingLabels
           /\ job'[p].op = job[p].op /\ job'[p].now = job[p].now
           /\ job'[p].kept = job[p].kept /\ job'[p].seen = job[p].seen
           /\ LockWallet(p) => pc[p] = "lock" /\ pc'[p] = "settle"
           /\ Settle(p) => pc[p] = "settle" /\ pc'[p] \in {"wake", "commit"}
           /\ Settle(p) => (pc'[p] = "commit" <=> job'[p].decision.outcome = "wait")
           /\ WakeUp(p) => /\ pc[p] = "wake" /\ pc'[p] = "commit"
                           /\ job'[p].woken = Waiting(p) /\ job'[p].missed = MetLocked(p)
                           /\ job'[p].decision = job[p].decision
                           /\ job'[p].balance = job[p].balance
           /\ ~WakeUp(p) => job'[p].woken = job[p].woken
<1>0. job[p] \in Jobs /\ pc \in [Processes -> PCs] /\ job \in [Processes -> Jobs]
  BY DEF Shape, TypeOK
<1>1. CASE LockWallet(p)
  BY <1>0, <1>1 DEF LockWallet, Proceed, Goto, db, Jobs, Only, Settle, WakeUp, SettlingLabels
<1>2. CASE Settle(p)
  <2> DEFINE d == Decide(job[p].balance, job[p].op, resolveReference(p), deadlineReached(p))
  <2>1. /\ job' = [job EXCEPT ![p].decision = d] /\ pc[p] = "settle"
        /\ Proceed(p, IF d.outcome = "wait" THEN "commit" ELSE "wake")
    BY <1>2 DEF Settle
  <2> HIDE DEF d
  <2> QED
    BY <1>0, <2>1 DEF Proceed, Goto, db, Jobs, Only, LockWallet, WakeUp, SettlingLabels
<1>3. CASE WakeUp(p)
  BY <1>0, <1>3 DEF WakeUp, Proceed, Goto, db, Jobs, Only, LockWallet, Settle, SettlingLabels
<1> QED
  BY <1>1, <1>2, <1>3

(* Under the wallet lock a process keeps its keys and its row, and what it *)
(* wakes up is held by nobody else.                                        *)
LEMMA OwnershipUnderLock ==
    ASSUME Shape, Ownership, NEW p \in Processes, LockWallet(p) \/ Settle(p) \/ WakeUp(p)
    PROVE  Ownership'
<1>0. /\ Only(p)
      /\ pc[p] \in SettlingLabels /\ pc'[p] \in SettlingLabels
      /\ job'[p].op = job[p].op
      /\ job'[p].kept = job[p].kept /\ job'[p].seen = job[p].seen
  BY UnderLockForm
<1>1. /\ \A r \in job'[p].woken : /\ pc'[p] = "commit" /\ WaitsForOperation(r, job[p].op)
                                  /\ ~lockedForUpdate(p, r)
  <2>1. CASE WakeUp(p)
    BY <2>1, UnderLockForm DEF Waiting, Sleeping, WaitsForOperation, rowLocked, lockedForUpdate
  <2>2. CASE ~WakeUp(p)
    <3>1. job'[p].woken = job[p].woken /\ pc[p] # "commit"
      BY <2>2, UnderLockForm
    <3> QED
      BY <3>1 DEF Ownership, WokenRowsWait
  <2> QED
    BY <2>1, <2>2
<1>2. \A r \in Requests : HoldsRow(p, r)' => ~lockedForUpdate(p, r)
  <2>1. ASSUME NEW r \in Requests, (p \in Workers /\ job[p].op = r) \/ r \in job[p].kept
        PROVE  ~lockedForUpdate(p, r)
    <3>1. HoldsRow(p, r)
      BY <1>0, <2>1 DEF HoldsRow, SettlingLabels
    <3> QED
      BY <3>1 DEF Ownership, RowsHeldOnce, lockedForUpdate
  <2> QED
    BY <1>0, <1>1, <2>1 DEF HoldsRow
<1>3. /\ p \in Workers => txs[job[p].op].status = "PENDING_REFERENCE"
      /\ p \in Handlers => \A o \in Requests : Stored(o) => ~Conflicts(job[p].op, o)
      /\ p \in Handlers => \A g \in Handlers \ {p} : pc[g] \in SettlingLabels =>
            ~Conflicts(job[p].op, job[g].op)
  BY <1>0 DEF Ownership, ClaimedRowsWait, KeysAreFree, KeysHeldOnce
<1>4. SawStored(p) /\ \A r \in job'[p].kept : p \in Workers /\ Stored(r)
  BY <1>0 DEF Ownership, KeptRowsStored, SawStored
<1> QED
  BY <1>0, <1>1, <1>2, <1>3, <1>4, OwnershipOnly

(* What the commit of a settlement leaves of the operations.               *)
LEMMA CommitForm ==
    ASSUME Shape, NEW p \in Processes, CommitSettlement(p)
    PROVE  /\ pc[p] = "commit" /\ job[p].op \in Requests /\ job[p] \in Jobs
           /\ \A q \in Processes \ {p} : pc'[q] = pc[q] /\ job'[q] = job[q]
           /\ pc'[p] = "idle" /\ job'[p] = noJob
           /\ txs'[job[p].op] = SettledRow(p)
           /\ \A r \in Requests \ {job[p].op} :
                txs'[r] = IF r \in job[p].woken THEN [txs[r] EXCEPT !.nextAt = job[p].now]
                          ELSE txs[r]
           /\ \A r \in Requests \ {job[p].op} : txs'[r].status = txs[r].status
<1>1. pc[p] = "commit" /\ job[p].op \in Requests /\ job[p] \in Jobs
  BY HeldOperation DEF CommitSettlement, HeldLabels, SettlingLabels
<1>2. /\ \A q \in Processes \ {p} : pc'[q] = pc[q] /\ job'[q] = job[q]
      /\ pc'[p] = "idle" /\ job'[p] = noJob
  BY DEF CommitSettlement, Finish, Goto, Shape, TypeOK
<1>3. /\ txs'[job[p].op] = SettledRow(p)
      /\ \A r \in Requests \ {job[p].op} :
           txs'[r] = IF r \in job[p].woken THEN [txs[r] EXCEPT !.nextAt = job[p].now]
                     ELSE txs[r]
  BY <1>1 DEF CommitSettlement
<1>4. \A r \in Requests : [txs[r] EXCEPT !.nextAt = job[p].now].status = txs[r].status
  BY DEF Shape, TypeOK, Rows
<1> QED
  BY <1>1, <1>2, <1>3, <1>4

(* What a commit of p writes is not what another process holds.            *)
LEMMA OthersKeepTheirRows ==
    ASSUME Shape, Ownership, NEW p \in Processes, NEW q \in Processes, q # p,
           \/ pc[p] = "commit"
           \/ p \in Workers /\ pc[p] = "commitGiveUp",
           NEW r \in Requests, HoldsRow(q, r)
    PROVE  r # job[p].op
<1>1. Stored(r)
  BY DEF Ownership, ClaimedRowsWait, WokenRowsWait, KeptRowsStored, HoldsRow, Stored,
         SettlingLabels, WaitsForOperation
<1>2. CASE p \in Workers
  BY <1>2 DEF Ownership, RowsHeldOnce, HoldsRow
<1>3. CASE p \in Handlers /\ pc[p] = "commit"
  <2>1. Conflicts(job[p].op, job[p].op)
    BY DEF Conflicts, SameKey
  <2>2. ~Stored(job[p].op)
    BY <1>3, <2>1, HeldOperation DEF Ownership, KeysAreFree, SettlingLabels, HeldLabels
  <2> QED
    BY <1>1, <2>2
<1> QED
  BY <1>2, <1>3 DEF Processes

(* A commit of p that changes the status of no operation but its own keeps *)
(* the ownership: nobody else held its row or keys that conflict with it.  *)
LEMMA OwnershipCommit ==
    ASSUME Shape, Ownership, NEW p \in Processes,
           \/ pc[p] = "commit"
           \/ p \in Workers /\ pc[p] = "commitGiveUp",
           \A q \in Processes \ {p} : pc'[q] = pc[q] /\ job'[q] = job[q],
           pc'[p] = "idle", job'[p] = noJob,
           \A r \in Requests \ {job[p].op} : txs'[r].status = txs[r].status,
           txs'[job[p].op].status # "ABSENT"
    PROVE  Ownership'
<1> USE DEF Ownership
<1>0. /\ Handlers \subseteq Processes /\ Workers \subseteq Processes
      /\ job[p].op \in Requests
      /\ \A r \in Requests : Stored(r)' => Stored(r) \/ r = job[p].op
      /\ \A r \in Requests : ~HoldsRow(p, r)'
      /\ \A q \in Processes \ {p} : \A r \in Requests : HoldsRow(q, r)' <=> HoldsRow(q, r)
      /\ "idle" \notin HeldLabels
      /\ \A r \in Requests : Stored(r) => Stored(r)'
  BY HeldOperation DEF Processes, Stored, HoldsRow, noJob, HeldLabels, SettlingLabels
<1>1. \A o \in Requests : Conflicts(job[p].op, o) => Conflicts(o, job[p].op)
  BY DEF Conflicts, SameKey, SameExternalID
<1>2. ClaimedRowsWait'
  <2> SUFFICES ASSUME NEW k \in Workers, pc'[k] \in HeldLabels
               PROVE  txs'[job'[k].op].status = "PENDING_REFERENCE"
    BY DEF ClaimedRowsWait, HeldLabels
  <2>1. k # p /\ pc[k] \in HeldLabels /\ job'[k] = job[k] /\ job[k].op \in Requests
    BY <1>0, HeldOperation
  <2>2. HoldsRow(k, job[k].op)
    BY <2>1 DEF HoldsRow, HeldLabels, SettlingLabels
  <2>3. job[k].op # job[p].op
    BY <1>0, <2>1, <2>2, OthersKeepTheirRows
  <2> QED
    BY <2>1, <2>3 DEF ClaimedRowsWait, HeldLabels
<1>3. KeysAreFree'
  <2> SUFFICES ASSUME NEW h \in Handlers, pc'[h] \in SettlingLabels, NEW o \in Requests, Stored(o)'
               PROVE  ~Conflicts(job'[h].op, o)
    BY DEF KeysAreFree, Conflicts, SameKey, SameExternalID
  <2>1. h # p /\ pc[h] \in SettlingLabels /\ job'[h] = job[h]
    BY <1>0 DEF HeldLabels
  <2>2. CASE Stored(o)
    BY <2>1, <2>2 DEF KeysAreFree
  <2>3. CASE ~Stored(o)
    <3>1. o = job[p].op
      BY <1>0, <2>3
    <3>2. p \in Handlers /\ pc[p] = "commit"
      BY <2>3, <3>1 DEF ClaimedRowsWait, Stored, Processes, SettlingLabels
    <3> QED
      BY <2>1, <3>1, <3>2 DEF KeysHeldOnce, SettlingLabels
  <2> QED
    BY <2>2, <2>3
<1>4. KeysHeldOnce'
  BY <1>0 DEF KeysHeldOnce, HeldLabels, Conflicts, SameKey, SameExternalID
<1>5. RowsHeldOnce'
  BY <1>0 DEF RowsHeldOnce
<1>6. WokenRowsWait'
  <2> SUFFICES ASSUME NEW q \in Processes, NEW r \in job'[q].woken
               PROVE  /\ pc'[q] = "commit"
                      /\ txs'[r].status = "PENDING_REFERENCE"
                      /\ Request[job'[q].op].provider = Request[r].provider
                      /\ Request[job'[q].op].ext = Request[r].refExt
    BY DEF WokenRowsWait, WaitsForOperation
  <2>1. q # p /\ job'[q] = job[q] /\ pc'[q] = pc[q]
    BY DEF noJob
  <2>2. r \in Requests /\ r # job[p].op
    BY <2>1, OthersKeepTheirRows DEF HoldsRow, Shape, TypeOK, Jobs
  <2> QED
    BY <2>1, <2>2 DEF WokenRowsWait, WaitsForOperation
<1>7. RowsAreUnique'
  <2>1. CASE p \in Handlers /\ pc[p] = "commit"
    BY <1>0, <1>1, <2>1
       DEF RowsAreUnique, KeysAreFree, SettlingLabels, Conflicts, SameKey, SameExternalID
  <2>2. CASE p \in Workers
    <3>1. Stored(job[p].op)
      BY <2>2 DEF ClaimedRowsWait, SettlingLabels, Stored
    <3> QED
      BY <1>0, <3>1 DEF RowsAreUnique, Conflicts, SameKey, SameExternalID
  <2> QED
    BY <2>1, <2>2 DEF Processes
<1>8. KeptRowsStored'
  <2>1. \A q \in Processes : \A r \in job[q].kept : r \in Requests
    BY DEF Shape, TypeOK, Jobs
  <2> QED
    BY <1>0, <2>1 DEF KeptRowsStored, noJob, nothingSeen
<1> QED
  BY <1>2, <1>3, <1>4, <1>5, <1>6, <1>7, <1>8

(* Every step keeps the ownership.                                         *)
LEMMA OwnershipStep == Shape /\ Ownership /\ [Next]_vars => Ownership'
<1> SUFFICES ASSUME Shape, Ownership, [Next]_vars PROVE Ownership'
  OBVIOUS
<1>1. CASE UNCHANGED <<txs, pc, job>>
  BY <1>1
     DEF Ownership, ClaimedRowsWait, KeysAreFree, KeysHeldOnce, RowsHeldOnce, WokenRowsWait,
         KeptRowsStored, RowsAreUnique, HoldsRow, WaitsForOperation, Stored
<1>2. ASSUME NEW p \in Processes, CommitSettlement(p) PROVE Ownership'
  <2>1. SettledRow(p).status # "ABSENT"
    BY <1>2, CommitForm, SettledRowType
       DEF Ownership, ClaimedRowsWait, SettlingLabels
  <2> QED
    BY <1>2, <2>1, CommitForm, OwnershipCommit
<1>3. ASSUME NEW k \in Workers, CommitGiveUp(k) PROVE Ownership'
  <2>1. /\ k \in Processes /\ pc[k] = "commitGiveUp"
        /\ \A q \in Processes \ {k} : pc'[q] = pc[q] /\ job'[q] = job[q]
        /\ pc'[k] = "idle" /\ job'[k] = noJob
        /\ \A r \in Requests \ {job[k].op} : txs'[r].status = txs[r].status
        /\ txs'[job[k].op].status # "ABSENT"
    BY <1>3, HeldOperation
       DEF CommitGiveUp, FailedRow, Finish, Goto, Shape, TypeOK, Processes, HeldLabels, Rows
  <2> QED
    BY <2>1, OwnershipCommit
<1> QED
  BY <1>1, <1>2, <1>3, StepForms, OwnershipHoldsNothing, OwnershipTakes, OwnershipUnderLock
     DEF Ownership

(* The inductive invariant, with ownership.                                *)
OwnedInv == SafeInv /\ Ownership

(* It holds of every behaviour.                                            *)
LEMMA OwnedAlways == Spec => []OwnedInv
<1>1. Init => OwnedInv
  BY ShapeInit, LocksInit, ChainInit, OwnershipInit DEF OwnedInv, SafeInv
<1>2. OwnedInv /\ [Next]_vars => OwnedInv'
  BY SafeStep, OwnershipStep DEF OwnedInv, SafeInv
<1> QED
  BY <1>1, <1>2, PTL DEF Spec

(* What is decided about an operation is never changed: a row is written   *)
(* only by the process that holds it or its keys, and then it still waits  *)
(* or does not exist yet.                                                  *)
LEMMA TerminalRowsStay ==
    ASSUME Shape, Ownership, [Next]_vars, NEW r \in Requests, Terminal(txs[r].status)
    PROVE  txs'[r] = txs[r]
<1>0. txs[r].status # "PENDING_REFERENCE" /\ Stored(r) /\ Conflicts(r, r)
  BY DEF Terminal, Stored, Conflicts, SameKey
<1>1. ASSUME NEW p \in Processes, CommitSettlement(p) PROVE txs'[r] = txs[r]
  <2>1. r # job[p].op
    BY <1>0, <1>1, CommitForm
       DEF Ownership, ClaimedRowsWait, KeysAreFree, SettlingLabels, Processes
  <2>2. r \notin job[p].woken
    BY <1>0 DEF Ownership, WokenRowsWait, WaitsForOperation
  <2> QED
    BY <1>1, <2>1, <2>2, CommitForm
<1>2. ASSUME NEW k \in Workers, CommitGiveUp(k) PROVE txs'[r] = txs[r]
  <2>1. r # job[k].op
    BY <1>0, <1>2 DEF CommitGiveUp, Ownership, ClaimedRowsWait
  <2> QED
    BY <1>2, <2>1 DEF CommitGiveUp, Shape, TypeOK
<1>3. CASE UNCHANGED txs
  BY <1>3
<1> QED
  BY <1>1, <1>2, <1>3, StepForms, UnderLockForm
     DEF Ownership, HoldsNothing, TakesKeys, TakesRow, TakesRowBack, Only

(* The tables change only when a transaction commits.                      *)
LEMMA TablesForm ==
    ASSUME [Next]_vars
    PROVE  \/ UNCHANGED db
           \/ \E h \in Handlers : \/ \E heard \in BOOLEAN :
                                       CommitReplay(h, heard) \/ CommitRequest(h, heard)
                                  \/ CommitOpening(h)
           \/ \E k \in Workers : CommitRetry(k) \/ CommitGiveUp(k)
<1>1. ASSUME NEW h \in Handlers, Arrival(h) \/ HandlerStep(h)
      PROVE  \/ UNCHANGED db
             \/ \E heard \in BOOLEAN : CommitReplay(h, heard) \/ CommitRequest(h, heard)
             \/ CommitOpening(h)
  BY <1>1 DEF Arrival, Begin, BeginOpening, Arrive, HandlerStep, RegisterInbox, Insert, Replay,
              LockWallet, Settle, WakeUp, CreateWallet, Refuse, Proceed
<1>2. ASSUME NEW k \in Workers, WorkerStep(k)
      PROVE  UNCHANGED db \/ CommitRetry(k) \/ CommitGiveUp(k)
  BY <1>2 DEF WorkerStep, BeginAttempt, ScanPending, ClaimDuePending, LockWallet, Settle, WakeUp,
              GiveUp, Proceed
<1>3. (\E p \in Processes : DeadlockVictim(p)) \/ Failure \/ Tick \/ UNCHANGED vars => UNCHANGED db
  BY DEF DeadlockVictim, Failure, Abort, RetryAttempt, PermanentError, Tick, vars, db
<1> QED
  BY <1>1, <1>2, <1>3 DEF Next

(* No step rewrites or removes a ledger entry.                             *)
LEMMA EntriesStay ==
    ASSUME Shape, [Next]_vars, NEW w \in Wallets
    PROVE  ledger[w] \subseteq ledger'[w]
<1>1. ASSUME NEW p \in Processes, CommitSettlement(p) PROVE ledger[w] \subseteq ledger'[w]
  BY <1>1 DEF CommitSettlement, Shape, TypeOK
<1>2. ASSUME NEW h \in Processes, CommitOpening(h) PROVE ledger[w] \subseteq ledger'[w]
  BY <1>2 DEF CommitOpening, Shape, TypeOK
<1>3. CASE UNCHANGED ledger
  BY <1>3
<1> QED
  BY <1>1, <1>2, <1>3, TablesForm
     DEF db, Processes, CommitReplay, CommitRequest, CommitRetry, CommitGiveUp

(* A terminal operation and a ledger entry stay as they are for ever.      *)
THEOREM HistoryStays == Spec => HistoryIsImmutable
<1> DEFINE Immutable == /\ \A r \in Requests : Terminal(txs[r].status) => txs'[r] = txs[r]
                        /\ \A w \in Wallets : ledger[w] \subseteq ledger'[w]
<1>1. OwnedInv /\ [Next]_vars => [Immutable]_vars
  BY TerminalRowsStay, EntriesStay DEF OwnedInv, SafeInv
<1> QED
  BY <1>1, OwnedAlways, PTL DEF Spec, HistoryIsImmutable

-----------------------------------------------------------------------------
(* Time.                                                                   *)

(* The clock only goes forward.                                            *)
LEMMA ClockForward ==
    ASSUME [Next]_vars
    PROVE  clock' = clock \/ clock' = clock + 1
<1>1. ASSUME NEW h \in Handlers, Arrival(h) \/ HandlerStep(h) PROVE clock' = clock
  BY <1>1 DEF Arrival, Begin, BeginOpening, Arrive, HandlerStep, RegisterInbox, Insert, Replay,
              LockWallet, Settle, WakeUp, CommitReplay, CommitRequest, CommitSettlement,
              CreateWallet, CommitOpening, Refuse, Proceed
<1>2. ASSUME NEW k \in Workers, WorkerStep(k) PROVE clock' = clock
  BY <1>2 DEF WorkerStep, BeginAttempt, ScanPending, ClaimDuePending, LockWallet, Settle, WakeUp,
              CommitRetry, CommitSettlement, GiveUp, CommitGiveUp, Proceed
<1>3. (\E p \in Processes : DeadlockVictim(p)) \/ Failure \/ Tick \/ UNCHANGED vars =>
         clock' = clock \/ clock' = clock + 1
  BY DEF DeadlockVictim, Failure, Abort, RetryAttempt, PermanentError, Tick, vars
<1> QED
  BY <1>1, <1>2, <1>3 DEF Next

(* Nobody has read the clock at the start.                                 *)
LEMMA TimingInit == Init => Timing /\ GivesUpOnFaults
BY DEF Init, Timing, ReadTheClock, ClaimedRowsAreDue, GivesUpOnFaults, SettlingLabels, Processes

(* The instant a process works with stays in the past, and the row that    *)
(* was due when a worker claimed it is not touched by others.              *)
LEMMA TimingStep ==
    ASSUME Shape, Ownership, Timing, GivesUpOnFaults, [Next]_vars
    PROVE  Timing' /\ GivesUpOnFaults'
<1> USE DEF Timing, ReadTheClock, ClaimedRowsAreDue, GivesUpOnFaults
<1>0. /\ clock \in Nat /\ clock >= 1 /\ \A n \in 1..clock : n \in 1..clock'
      /\ clock \in 1..clock'
      /\ Handlers \subseteq Processes /\ Workers \subseteq Processes
      /\ WokenRowsWait /\ KeptRowsStored
  BY ClockForward, ClockNat DEF Shape, TypeOK, Processes, Ownership
<1>1. CASE UNCHANGED <<txs, pc, job>>
  BY <1>0, <1>1
<1>2. ASSUME NEW p \in Processes, HoldsNothing(p) PROVE Timing' /\ GivesUpOnFaults'
  <2>1. pc'[p] \notin SettlingLabels /\ pc'[p] # "commitGiveUp"
    BY <1>2 DEF HoldsNothing, HeldLabels
  <2> QED
    BY <1>0, <1>2, <2>1 DEF HoldsNothing, Only, KnowsTheTime
<1>3. ASSUME NEW h \in Handlers, TakesKeys(h) PROVE Timing' /\ GivesUpOnFaults'
  <2>1. h \notin Workers
    BY ProcessAssumption
  <2> QED
    BY <1>0, <1>3, <2>1 DEF TakesKeys, Only
<1>4. ASSUME NEW k \in Workers, TakesRow(k) \/ TakesRowBack(k) PROVE Timing' /\ GivesUpOnFaults'
  BY <1>0, <1>4 DEF TakesRow, TakesRowBack, Only, Due, SettlingLabels
<1>5. ASSUME NEW p \in Processes, LockWallet(p) \/ Settle(p) \/ WakeUp(p)
      PROVE  Timing' /\ GivesUpOnFaults'
  BY <1>0, <1>5, UnderLockForm DEF Only, SettlingLabels
<1>6. ASSUME NEW p \in Processes, pc'[p] = "idle",
             \A q \in Processes \ {p} : pc'[q] = pc[q] /\ job'[q] = job[q],
             \A k \in Workers \ {p} : pc[k] \in SettlingLabels => txs'[job[k].op] = txs[job[k].op]
      PROVE  Timing' /\ GivesUpOnFaults'
  BY <1>0, <1>6 DEF SettlingLabels
<1>7. ASSUME NEW k \in Workers, pc[k] \in SettlingLabels
      PROVE  HoldsRow(k, job[k].op) /\ job[k].op \in Requests
  BY <1>0, <1>7, HeldOperation DEF HoldsRow, SettlingLabels, HeldLabels
<1>8. ASSUME NEW p \in Processes, CommitSettlement(p) PROVE Timing' /\ GivesUpOnFaults'
  <2> SUFFICES ASSUME NEW k \in Workers \ {p}, pc[k] \in SettlingLabels
               PROVE  txs'[job[k].op] = txs[job[k].op]
    BY <1>6, <1>8, CommitForm
  <2>1. job[k].op # job[p].op
    BY <1>0, <1>7, <1>8, CommitForm, OthersKeepTheirRows
  <2>2. job[k].op \notin job[p].woken
    BY <1>0, <1>7 DEF Ownership, RowsHeldOnce, HoldsRow
  <2> QED
    BY <1>7, <1>8, <2>1, <2>2, CommitForm
<1>9. ASSUME NEW p \in Workers, CommitGiveUp(p) PROVE Timing' /\ GivesUpOnFaults'
  <2>1. /\ pc'[p] = "idle" /\ pc[p] = "commitGiveUp"
        /\ \A q \in Processes \ {p} : pc'[q] = pc[q] /\ job'[q] = job[q]
        /\ \A r \in Requests \ {job[p].op} : txs'[r] = txs[r]
    BY <1>0, <1>9 DEF CommitGiveUp, Finish, Goto, Shape, TypeOK
  <2>2. ASSUME NEW k \in Workers \ {p}, pc[k] \in SettlingLabels
        PROVE  job[k].op # job[p].op
    BY <1>0, <1>7, <2>1, <2>2, OthersKeepTheirRows
  <2> QED
    BY <1>0, <1>6, <1>7, <2>1, <2>2
<1> QED
  BY <1>0, <1>1, <1>2, <1>3, <1>4, <1>5, <1>8, <1>9, StepForms

-----------------------------------------------------------------------------
(* Decisions.                                                              *)

(* The operation a settlement names as its reference, if it sees one, is   *)
(* the only one: its external identifier is unique.                        *)
LEMMA OneReference ==
    ASSUME Shape, Ownership, NEW p \in Processes, pc[p] \in SettlingLabels,
           NEW ref, ref = resolveReference(p)
    PROVE  /\ ref \in References
           /\ ref.id = NoTx => /\ ref = noReference
                               /\ \A o \in Requests :
                                    Names(job[p].op, o) => StatusSeen(p, o) = "ABSENT"
           /\ ref.id # NoTx =>
                /\ ref.id \in Requests /\ Names(job[p].op, ref.id)
                /\ ref.status = StatusSeen(p, ref.id) /\ ref.status # "ABSENT"
                /\ ref.reversed = (Reversal(Request[job[p].op].kind) /\ HasSuccessfulReversal(ref.id))
                /\ \A o \in Requests :
                     Names(job[p].op, o) /\ StatusSeen(p, o) # "ABSENT" => o = ref.id
<1> DEFINE r == job[p].op
           found == {o \in Requests : /\ Request[r].refExt # NoExt
                                      /\ Request[o].ext = Request[r].refExt
                                      /\ Request[o].provider = Request[r].provider
                                      /\ StatusSeen(p, o) # "ABSENT"}
           o == CHOOSE x \in found : TRUE
<1>0. r \in Requests /\ NoTx \notin Requests /\ ref \in References
  BY HeldOperation, ReferenceType, ConstantsAssumption DEF HeldLabels, Shape
<1>1. \A x \in Requests : Names(r, x) /\ StatusSeen(p, x) # "ABSENT" <=> x \in found
  <2>1. \A x \in Requests : Names(r, x) => Request[r].refExt # NoExt
    BY RequestAssumption, ConstantsAssumption DEF Names, ValidRequest
  <2> QED
    BY <2>1 DEF Names
<1>2. \A x, y \in found : x = y
  <2> SUFFICES ASSUME NEW x \in found, NEW y \in found PROVE x = y
    OBVIOUS
  <2>1. x \in Requests /\ y \in Requests /\ Conflicts(x, y) /\ Conflicts(y, x)
    BY DEF Conflicts, SameExternalID
  <2>2. \A z \in found : Stored(z) \/ (p \in Handlers /\ z = r)
    BY DEF StatusSeen, Stored
  <2>3. p \in Handlers => \A z \in Requests : Stored(z) => ~Conflicts(r, z)
    BY DEF Ownership, KeysAreFree
  <2> QED
    BY <2>1, <2>2, <2>3 DEF Ownership, RowsAreUnique
<1>3. CASE found = {}
  <2>1. ref = noReference
    BY <1>3 DEF resolveReference
  <2> QED
    BY <1>0, <1>1, <1>3, <2>1 DEF noReference
<1>4. CASE found # {}
  <2>1. o \in found
    BY <1>4
  <2> DEFINE undone == Reversal(Request[r].kind) /\ HasSuccessfulReversal(o)
  <2>2. ref = [id |-> o, status |-> StatusSeen(p, o), reversed |-> undone]
    BY <1>4 DEF resolveReference
  <2> HIDE DEF o, undone
  <2>3. ref.id = o /\ ref.status = StatusSeen(p, o) /\ ref.reversed = undone
    BY <2>2
  <2>4. ref.reversed = (Reversal(Request[r].kind) /\ HasSuccessfulReversal(ref.id))
    BY <2>3 DEF undone
  <2> QED
    BY <1>0, <1>1, <1>2, <2>1, <2>3, <2>4
<1> QED
  BY <1>3, <1>4

(* How Decide comes to its outcome, by kind.                               *)
LEMMA DecideWinForm ==
    ASSUME NEW balance \in 0..MaxBalance, NEW r \in Requests, NEW ref \in References,
           NEW d, d = decideWin(balance, r, ref)
    PROVE  LET o == ref.id
               resolved == Request[r].refExt # NoExt /\ o # NoTx
               misnamed == resolved /\ (Request[o].kind # "BET" \/ ~sameRound(r, o))
               fits == applyDirection(balance, "CREDIT", Request[r].amount) \in 0..MaxBalance
           IN  \/ /\ d \in {reject("REFERENCE_KIND_NOT_ALLOWED"), reject("REFERENCE_MISMATCH")}
                  /\ misnamed
               \/ d = reject("BALANCE_LIMIT_EXCEEDED") /\ ~fits
               \/ ~misnamed /\ d = process("CREDIT", IF resolved THEN o ELSE NoTx)
<1>1. Request[r].amount \in 0..MaxBalance /\ MaxBalance \in Nat
  BY RequestAssumption, ConstantsAssumption DEF ValidRequest
<1> QED
  BY <1>1 DEF decideWin, applyDirection, overflows

(* The same for a reversal: it waits or is rejected for want of a          *)
(* reference, is rejected because the reference does not allow it or the   *)
(* wallet cannot hold the movement, or is processed.                       *)
LEMMA DecideReversalForm ==
    ASSUME NEW balance \in 0..MaxBalance, NEW r \in Requests, NEW ref \in References,
           NEW expired \in BOOLEAN,
           NEW d, d = decideReversal(balance, r, ref, expired)
    PROVE  LET o == ref.id
               open == o = NoTx \/ ref.status \in {"PENDING", "PENDING_REFERENCE"}
               direction == reversalDirection(Request[r].kind, Request[o].kind)
               allowed == /\ ~open /\ ref.status \notin {"REJECTED", "FAILED"}
                          /\ reversible(Request[r].kind, Request[o].kind)
                          /\ sameRound(r, o) /\ Request[r].amount = Request[o].amount
                          /\ ~ref.reversed
               fits == applyDirection(balance, direction, Request[r].amount) \in 0..MaxBalance
           IN  \/ open /\ ~expired /\ d = waitReference
               \/ o = NoTx /\ expired /\ d = reject("REFERENCE_NOT_FOUND")
               \/ open /\ o # NoTx /\ expired /\ d = reject("REFERENCE_NOT_PROCESSED")
               \/ /\ ~open /\ ref.status \in {"REJECTED", "FAILED"}
                  /\ d = reject("REFERENCE_NOT_PROCESSED")
               \/ /\ ~open /\ ref.status \notin {"REJECTED", "FAILED"} /\ ~allowed
                  /\ d \in {reject("REFERENCE_KIND_NOT_ALLOWED"), reject("REFERENCE_MISMATCH"),
                            reject("ALREADY_REVERSED")}
               \/ /\ allowed /\ ~fits
                  /\ d \in {reject("REVERSAL_INSUFFICIENT_FUNDS"), reject("BALANCE_LIMIT_EXCEEDED")}
               \/ allowed /\ fits /\ d = process(direction, o)
<1>1. Request[r].amount \in 0..MaxBalance /\ MaxBalance \in Nat
  BY RequestAssumption, ConstantsAssumption DEF ValidRequest
<1>2. reversalDirection(Request[r].kind, Request[ref.id].kind) \in {"CREDIT", "DEBIT"}
  BY DEF reversalDirection
<1> QED
  BY <1>1, <1>2 DEF decideReversal, applyDirection, overflows

(* What a settlement sees is what is stored, and its own row.              *)
LEMMA SeenIsStored ==
    ASSUME Shape, Ownership, NEW p \in Processes, pc[p] \in SettlingLabels
    PROVE  LET r == job[p].op IN
           /\ \A o \in Requests : Terminal(txs[o].status) => StatusSeen(p, o) = txs[o].status
           /\ \A o \in Requests : Terminal(StatusSeen(p, o)) => StatusSeen(p, o) = txs[o].status
           /\ p \in Handlers => StatusSeen(p, r) # "ABSENT" /\ ~Stored(r)
           /\ p \notin Handlers => p \in Workers /\ txs[r].status = "PENDING_REFERENCE"
           /\ \A o \in Requests :
                Stored(o) \/ (p \in Handlers /\ o = r) <=> StatusSeen(p, o) # "ABSENT"
<1> DEFINE r == job[p].op
<1>0. r \in Requests
  BY HeldOperation DEF HeldLabels
<1>1. Conflicts(r, r)
  BY DEF Conflicts, SameKey
<1>2. p \in Handlers => ~Stored(r)
  BY <1>0, <1>1 DEF Ownership, KeysAreFree
<1>3. p \notin Handlers => p \in Workers /\ txs[r].status = "PENDING_REFERENCE"
  BY DEF Ownership, ClaimedRowsWait, Processes
<1> QED
  BY <1>2, <1>3 DEF StatusSeen, Stored, Terminal

(* What a reversal sees of its reference allows it exactly when the        *)
(* reference may be reversed.                                              *)
LEMMA AllowedIsRight ==
    ASSUME Shape, Ownership, NEW p \in Processes, pc[p] \in SettlingLabels,
           Reversal(Request[job[p].op].kind), NEW ref, ref = resolveReference(p)
    PROVE  LET r == job[p].op
               o == ref.id
               open == o = NoTx \/ ref.status \in {"PENDING", "PENDING_REFERENCE"}
               allowed == /\ ~open /\ ref.status \notin {"REJECTED", "FAILED"}
                          /\ reversible(Request[r].kind, Request[o].kind)
                          /\ sameRound(r, o) /\ Request[r].amount = Request[o].amount
                          /\ ~ref.reversed
           IN  /\ \A x \in Requests : Names(r, x) /\ Terminal(txs[x].status) =>
                     o # NoTx /\ x = o /\ ref.status = txs[o].status
               /\ ~open => /\ o \in Requests /\ Names(r, o)
                           /\ Terminal(ref.status) /\ ref.status = txs[o].status
               /\ \A x \in Requests : MayReverse(r, x) => x = o /\ allowed
               /\ allowed => o \in Requests /\ MayReverse(r, o)
<1> DEFINE r == job[p].op
           o == ref.id
           open == o = NoTx \/ ref.status \in {"PENDING", "PENDING_REFERENCE"}
           allowed == /\ ~open /\ ref.status \notin {"REJECTED", "FAILED"}
                      /\ reversible(Request[r].kind, Request[o].kind)
                      /\ sameRound(r, o) /\ Request[r].amount = Request[o].amount
                      /\ ~ref.reversed
<1>0. /\ ref \in References /\ NoTx \notin Requests
      /\ o = NoTx => \A x \in Requests : Names(r, x) => StatusSeen(p, x) = "ABSENT"
      /\ o # NoTx =>
           /\ o \in Requests /\ Names(r, o)
           /\ ref.status = StatusSeen(p, o) /\ ref.status # "ABSENT"
           /\ ref.reversed = (Reversal(Request[r].kind) /\ HasSuccessfulReversal(o))
           /\ \A x \in Requests : Names(r, x) /\ StatusSeen(p, x) # "ABSENT" => x = o
  BY OneReference, ConstantsAssumption
<1>1. \A x \in Requests : Names(r, x) /\ Terminal(txs[x].status) =>
        o # NoTx /\ x = o /\ ref.status = txs[o].status
  BY <1>0, SeenIsStored DEF Terminal
<1>2. ~open => o \in Requests /\ Names(r, o) /\ Terminal(ref.status) /\ ref.status = txs[o].status
  <2>1. ~open => Terminal(ref.status)
    BY <1>0 DEF References, Statuses, Terminal
  <2> QED
    BY <1>0, <2>1, SeenIsStored
<1>3. \A x \in Requests : MayReverse(r, x) => x = o /\ allowed
  <2> SUFFICES ASSUME NEW x \in Requests, MayReverse(r, x) PROVE x = o /\ allowed
    OBVIOUS
  <2>1. x = o /\ o # NoTx /\ ref.status = "PROCESSED"
    BY <1>1 DEF MayReverse, Terminal
  <2>2. ~ref.reversed
    BY <1>0, <2>1 DEF MayReverse
  <2> QED
    BY <2>1, <2>2 DEF MayReverse
<1>4. allowed => o \in Requests /\ MayReverse(r, o)
  <2>1. allowed => ref.status = "PROCESSED"
    BY <1>2 DEF Terminal
  <2>2. allowed => ~HasSuccessfulReversal(o)
    BY <1>0, <1>2
  <2> QED
    BY <1>2, <2>1, <2>2 DEF MayReverse
<1> QED
  BY <1>1, <1>2, <1>3, <1>4

(* Decide is right when it is taken: what settle decides is justified by   *)
(* what the transaction sees.                                              *)
LEMMA SettleStands ==
    ASSUME Shape, Ownership, NEW p \in Processes, Settle(p)
    PROVE  DecisionStands(p)'
<1> DEFINE r == job[p].op
           balance == job[p].balance
           ref == resolveReference(p)
           expired == deadlineReached(p)
           d == Decide(balance, r, ref, expired)
<1>0. /\ pc[p] = "settle" /\ r \in Requests /\ balance \in 0..MaxBalance
      /\ expired \in BOOLEAN /\ ref \in References /\ ValidRequest(r)
      /\ NoExt \notin Exts /\ NoTx \notin Requests
  BY HeldOperation, OneReference, RequestAssumption, ConstantsAssumption
     DEF Settle, HeldLabels, SettlingLabels, Jobs, deadlineReached
<1>1. /\ txs' = txs /\ job'[p].op = r /\ job'[p].balance = balance /\ job'[p].decision = d
      /\ job'[p].now = job[p].now
  <2>1. job' = [job EXCEPT ![p].decision = d] /\ txs' = txs
    BY DEF Settle, Proceed, db
  <2>2. job[p] \in Jobs /\ job \in [Processes -> Jobs]
    BY DEF Shape, TypeOK
  <2> HIDE DEF d
  <2> QED
    BY <2>1, <2>2 DEF Jobs
<1>2. /\ ref.id = NoTx => \A o \in Requests : Names(r, o) => StatusSeen(p, o) = "ABSENT"
      /\ ref.id # NoTx =>
           /\ ref.id \in Requests /\ Names(r, ref.id)
           /\ ref.status = StatusSeen(p, ref.id) /\ ref.status # "ABSENT"
           /\ ref.reversed = (Reversal(Request[r].kind) /\ HasSuccessfulReversal(ref.id))
           /\ \A o \in Requests : Names(r, o) /\ StatusSeen(p, o) # "ABSENT" => o = ref.id
  BY <1>0, OneReference DEF SettlingLabels
<1>3. /\ p \in Handlers => StatusSeen(p, r) # "ABSENT" /\ ~Stored(r)
      /\ p \notin Handlers => p \in Workers /\ txs[r].status = "PENDING_REFERENCE"
      /\ \A o \in Requests : Stored(o) \/ (p \in Handlers /\ o = r) <=> StatusSeen(p, o) # "ABSENT"
  BY <1>0, SeenIsStored DEF SettlingLabels
<1> HIDE DEF d, ref, expired, balance, r
<1> DEFINE Stands == DecisionStands(p)'
<1>4. ASSUME NEW code \in FailureCodes \ {"PERMANENT_FAILURE", "REFERENCE_NOT_FOUND",
                                          "REFERENCE_NOT_PROCESSED"},
             d = reject(code),
             \/ ~OwnWallet(r)
             \/ Request[r].kind = "BET" /\ ~CanHold(p, "DEBIT")
             \/ /\ Request[r].kind = "WIN"
                /\ ~CanHold(p, "CREDIT") \/ \E o \in Requests : Misnames(r, o)
             \/ /\ Reversal(Request[r].kind)
                /\ \A o \in Requests : MayReverse(r, o) =>
                     ~CanHold(p, reversalDirection(Request[r].kind, Request[o].kind))
                /\ \E o \in Requests : Names(r, o) /\ Terminal(txs[o].status)
      PROVE  Stands
  <2>1. /\ d.outcome = "reject" /\ d.code = code /\ d.direction = "NONE" /\ d.ref = NoTx
    BY <1>4 DEF reject
  <2>2. RejectStands(p)'
    BY <1>0, <1>1, <1>4, <2>1
       DEF RejectStands, CanHold, Misnames, MayReverse, HasSuccessfulReversal, Stored,
           balance, r
  <2> QED
    BY <1>1, <2>1, <2>2 DEF DecisionStands
(* The other decisions.                                                    *)
<1>5. ASSUME d = reject("REFERENCE_NOT_FOUND") \/ d = reject("REFERENCE_NOT_PROCESSED"),
             Reversal(Request[r].kind),
             d = reject("REFERENCE_NOT_FOUND") => expired,
             expired \/ \E o \in Requests : Names(r, o) /\ Terminal(txs[o].status),
             \A o \in Requests : Names(r, o) => txs[o].status # "PROCESSED"
      PROVE  Stands
  <2>1. /\ d.outcome = "reject" /\ d.direction = "NONE" /\ d.ref = NoTx
        /\ d.code \in {"REFERENCE_NOT_FOUND", "REFERENCE_NOT_PROCESSED"}
        /\ d.code = "REFERENCE_NOT_FOUND" => expired
        /\ d.code \in FailureCodes \ {"PERMANENT_FAILURE"}
    BY <1>5 DEF reject, FailureCodes
  <2>2. deadlineReached(p)' <=> expired
    BY <1>1, <1>0 DEF expired, deadlineReached, r
  <2>3. RejectStands(p)'
    BY <1>0, <1>1, <1>5, <2>1, <2>2
       DEF RejectStands, Names, MayReverse, SameWallet
  <2> QED
    BY <1>1, <2>1, <2>3 DEF DecisionStands
<1>6. ASSUME d = waitReference, OwnWallet(r), Reversal(Request[r].kind),
             \A o \in Requests : Names(r, o) => txs[o].status \notin {"PROCESSED", "REJECTED"}
      PROVE  Stands
  <2>1. d.outcome = "wait"
    BY <1>6 DEF waitReference
  <2>2. WaitStands(p)'
    BY <1>0, <1>1, <1>6 DEF WaitStands, Names, SameWallet, OwnWallet
  <2> QED
    BY <1>1, <2>1, <2>2 DEF DecisionStands
<1>7. ASSUME NEW direction, NEW o, d = process(direction, o), OwnWallet(r),
             Request[r].kind = "BET" => direction = "DEBIT" /\ o = NoTx,
             Request[r].kind = "LOSS" => direction = "NONE" /\ o = NoTx,
             Request[r].kind = "WIN" =>
               /\ direction = "CREDIT"
               /\ o # NoTx => Names(r, o) /\ Request[o].kind = "BET"
               /\ \A x \in Requests : ~Misnames(r, x),
             Reversal(Request[r].kind) =>
               /\ o \in Requests /\ MayReverse(r, o)
               /\ direction = reversalDirection(Request[r].kind, Request[o].kind)
      PROVE  Stands
  <2>1. d.outcome = "process" /\ d.code = NoCode /\ d.direction = direction /\ d.ref = o
    BY <1>7 DEF process
  <2>2. ProcessStands(p)'
    BY <1>0, <1>1, <1>7, <2>1
       DEF ProcessStands, Names, OwnWallet, Misnames, MayReverse, HasSuccessfulReversal, Stored
  <2> QED
    BY <1>1, <2>1, <2>2 DEF DecisionStands
<1> HIDE DEF Stands
<1> SUFFICES Stands
  BY DEF Stands
<1> USE <1>0 DEF FailureCodes
<1>8. CASE ~OwnWallet(r)
  <2>1. d = reject("WALLET_PLAYER_MISMATCH") \/ d = reject("CURRENCY_MISMATCH")
    BY <1>8 DEF d, Decide, OwnWallet
  <2> QED
    BY <1>4, <1>8, <2>1
<1>9. CASE OwnWallet(r) /\ Request[r].kind = "BET"
  <2>1. d = decideBet(balance, r)
    BY <1>9 DEF d, Decide, OwnWallet
  <2>2. CASE balance < Request[r].amount
    <3>1. ~CanHold(p, "DEBIT")
      BY <2>2, ConstantsAssumption DEF CanHold, applyDirection, balance, r, ValidRequest
    <3> QED
      BY <1>4, <1>9, <2>1, <2>2, <3>1 DEF decideBet
  <2>3. CASE ~(balance < Request[r].amount)
    BY <1>7, <1>9, <2>1, <2>3 DEF decideBet, Reversal
  <2> QED
    BY <2>2, <2>3
<1>10. CASE OwnWallet(r) /\ Request[r].kind = "LOSS"
  <2>1. d = process("NONE", NoTx)
    BY <1>10 DEF d, Decide, OwnWallet
  <2> QED
    BY <1>7, <1>10, <2>1 DEF Reversal
<1>11. CASE OwnWallet(r) /\ Request[r].kind = "WIN"
  <2> DEFINE o == ref.id
             resolved == Request[r].refExt # NoExt /\ o # NoTx
             misnamed == resolved /\ (Request[o].kind # "BET" \/ ~sameRound(r, o))
             fits == applyDirection(balance, "CREDIT", Request[r].amount) \in 0..MaxBalance
  <2>1. d = decideWin(balance, r, ref)
    BY <1>11 DEF d, Decide, OwnWallet
  <2>2. \/ /\ d \in {reject("REFERENCE_KIND_NOT_ALLOWED"), reject("REFERENCE_MISMATCH")}
           /\ misnamed
        \/ d = reject("BALANCE_LIMIT_EXCEEDED") /\ ~fits
        \/ ~misnamed /\ d = process("CREDIT", IF resolved THEN o ELSE NoTx)
    BY <2>1, DecideWinForm
  <2>3. fits <=> CanHold(p, "CREDIT")
    BY DEF CanHold, balance, r
  <2>4. \A x \in Requests : Names(r, x) => Request[r].refExt # NoExt
    BY RequestAssumption DEF Names, ValidRequest
  <2>5. misnamed <=> \E x \in Requests : Misnames(r, x)
    <3>1. \A x \in Requests : Names(r, x) /\ (Stored(x) \/ x = r) => StatusSeen(p, x) # "ABSENT"
      BY <1>3, <1>11 DEF Stored
    <3>2. ASSUME NEW x \in Requests, Misnames(r, x) PROVE misnamed
      BY <1>2, <2>4, <3>1, <3>2 DEF Misnames
    <3>3. ASSUME misnamed PROVE Misnames(r, o)
      BY <1>2, <1>3, <3>3 DEF Misnames
    <3> QED
      BY <1>2, <3>2, <3>3
  <2> HIDE DEF fits, misnamed
  <2>6. CASE ~misnamed /\ d = process("CREDIT", IF resolved THEN o ELSE NoTx)
    <3>1. resolved => Request[o].kind = "BET" /\ Names(r, o)
      BY <1>2, <2>6 DEF misnamed
    <3> QED
      BY <1>7, <1>11, <2>5, <2>6, <3>1 DEF Reversal
  <2> QED
    BY <1>4, <1>11, <2>2, <2>3, <2>5, <2>6
<1>12. CASE OwnWallet(r) /\ Reversal(Request[r].kind)
  <2> DEFINE o == ref.id
             open == o = NoTx \/ ref.status \in {"PENDING", "PENDING_REFERENCE"}
             direction == reversalDirection(Request[r].kind, Request[o].kind)
             allowed == /\ ~open /\ ref.status \notin {"REJECTED", "FAILED"}
                        /\ reversible(Request[r].kind, Request[o].kind)
                        /\ sameRound(r, o) /\ Request[r].amount = Request[o].amount
                        /\ ~ref.reversed
             fits == applyDirection(balance, direction, Request[r].amount) \in 0..MaxBalance
  <2>1. d = decideReversal(balance, r, ref, expired)
    BY <1>12 DEF d, Decide, OwnWallet, Reversal
  <2>2. \/ open /\ ~expired /\ d = waitReference
        \/ o = NoTx /\ expired /\ d = reject("REFERENCE_NOT_FOUND")
        \/ open /\ o # NoTx /\ expired /\ d = reject("REFERENCE_NOT_PROCESSED")
        \/ /\ ~open /\ ref.status \in {"REJECTED", "FAILED"}
           /\ d = reject("REFERENCE_NOT_PROCESSED")
        \/ /\ ~open /\ ref.status \notin {"REJECTED", "FAILED"} /\ ~allowed
           /\ d \in {reject("REFERENCE_KIND_NOT_ALLOWED"), reject("REFERENCE_MISMATCH"),
                     reject("ALREADY_REVERSED")}
        \/ /\ allowed /\ ~fits
           /\ d \in {reject("REVERSAL_INSUFFICIENT_FUNDS"), reject("BALANCE_LIMIT_EXCEEDED")}
        \/ allowed /\ fits /\ d = process(direction, o)
    BY <2>1, DecideReversalForm
  (* Nobody but ref.id can be reversed, and it can if it is allowed.       *)
  <2>3. /\ \A x \in Requests : Names(r, x) /\ Terminal(txs[x].status) =>
             o # NoTx /\ x = o /\ ref.status = txs[o].status
        /\ ~open => /\ o \in Requests /\ Names(r, o)
                    /\ Terminal(ref.status) /\ ref.status = txs[o].status
        /\ \A x \in Requests : MayReverse(r, x) => x = o /\ allowed
        /\ allowed => o \in Requests /\ MayReverse(r, o)
    BY <1>0, <1>12, AllowedIsRight DEF SettlingLabels, ref, r
  <2>8. fits <=> CanHold(p, direction)
    BY DEF CanHold, balance, r
  <2>9. open => \A x \in Requests : Names(r, x) => ~Terminal(txs[x].status)
    BY <2>3 DEF Terminal
  <2> HIDE DEF open, allowed, fits, direction
  <2>10. CASE open /\ ~expired /\ d = waitReference
    BY <1>6, <1>12, <2>9, <2>10 DEF Terminal
  <2>11. CASE open /\ expired /\ d \in {reject("REFERENCE_NOT_FOUND"), reject("REFERENCE_NOT_PROCESSED")}
    BY <1>5, <1>12, <2>9, <2>11 DEF Terminal
  <2>12. CASE ~open /\ ref.status \in {"REJECTED", "FAILED"} /\ d = reject("REFERENCE_NOT_PROCESSED")
    <3>1. reject("REFERENCE_NOT_PROCESSED") # reject("REFERENCE_NOT_FOUND")
      BY DEF reject
    <3>2. \A x \in Requests : Names(r, x) => txs[x].status # "PROCESSED"
      BY <2>3, <2>12 DEF Terminal
    <3>3. \E x \in Requests : Names(r, x) /\ Terminal(txs[x].status)
      BY <2>3, <2>12
    <3> QED
      BY <1>5, <1>12, <2>12, <3>1, <3>2, <3>3
  <2>13. CASE ~open /\ ~allowed /\
              d \in {reject("REFERENCE_KIND_NOT_ALLOWED"), reject("REFERENCE_MISMATCH"),
                     reject("ALREADY_REVERSED")}
    <3>1. \E x \in Requests : Names(r, x) /\ Terminal(txs[x].status)
      BY <2>3, <2>13
    <3>2. \A x \in Requests : ~MayReverse(r, x)
      BY <2>3, <2>13
    <3> QED
      BY <1>4, <1>12, <2>13, <3>1, <3>2
  <2>14. CASE allowed /\ ~fits /\
              d \in {reject("REVERSAL_INSUFFICIENT_FUNDS"), reject("BALANCE_LIMIT_EXCEEDED")}
    <3>1. \E x \in Requests : Names(r, x) /\ Terminal(txs[x].status)
      BY <2>3, <2>14 DEF MayReverse, Terminal
    <3>2. \A x \in Requests : MayReverse(r, x) =>
            ~CanHold(p, reversalDirection(Request[r].kind, Request[x].kind))
      BY <2>3, <2>8, <2>14 DEF direction
    <3> QED
      BY <1>4, <1>12, <2>14, <3>1, <3>2
  <2>15. CASE allowed /\ d = process(direction, o)
    BY <1>7, <1>12, <2>3, <2>15 DEF direction, Reversal
  <2>16. o = NoTx => open
    BY DEF open
  <2> QED
    BY <2>2, <2>10, <2>11, <2>12, <2>13, <2>14, <2>15, <2>16
<1> QED
  BY <1>8, <1>9, <1>10, <1>11, <1>12 DEF ValidRequest, Kinds, Reversal


(* What a step leaves alone of what the decision of p rests on: nothing    *)
(* terminal changes, no operation of its wallet is recorded, settled or    *)
(* reversed, and its own deadline stays.                                   *)
Undisturbed(p) ==
    LET r == job[p].op IN
    /\ \A o \in Requests :
         /\ Stored(o) => txs'[o].status # "ABSENT"
         /\ Terminal(txs[o].status) => txs'[o] = txs[o]
         /\ SameWallet(r, o) =>
              /\ txs'[o].status # "ABSENT" => Stored(o)
              /\ txs'[o].status \in {"PROCESSED", "REJECTED"} => txs'[o] = txs[o]
         /\ Reversal(Request[o].kind) /\ txs'[o].status = "PROCESSED" =>
              \A b \in Requests : txs'[o].ref = b /\ SameWallet(r, b) => txs'[o] = txs[o]
    /\ p \in Workers => txs'[r].deadline = txs[r].deadline

(* A decision stands as long as the step leaves its grounds alone.         *)
LEMMA DecisionFrame ==
    ASSUME NEW p \in Processes, job[p].op \in Requests, Undisturbed(p), DecisionStands(p),
           job[p].decision.outcome \in {"process", "reject", "wait"},
           job'[p].op = job[p].op, job'[p].decision = job[p].decision,
           job'[p].balance = job[p].balance, job'[p].now = job[p].now
    PROVE  DecisionStands(p)'
<1> DEFINE r == job[p].op
<1> USE DEF Undisturbed
<1>1. ASSUME NEW o \in Requests, SameWallet(r, o)
      PROVE  (txs'[o].status = "PROCESSED") <=> (txs[o].status = "PROCESSED")
  BY <1>1 DEF Terminal
<1>2. ASSUME NEW o \in Requests, SameWallet(r, o)
      PROVE  HasSuccessfulReversal(o)' <=> HasSuccessfulReversal(o)
  <2>1. HasSuccessfulReversal(o) => HasSuccessfulReversal(o)'
    BY DEF HasSuccessfulReversal, Terminal
  <2>2. HasSuccessfulReversal(o)' => HasSuccessfulReversal(o)
    BY <1>2 DEF HasSuccessfulReversal
  <2> QED
    BY <2>1, <2>2
<1>3. ASSUME NEW o \in Requests
      PROVE  (Names(r, o) /\ txs'[o].status = "PROCESSED"
              /\ reversible(Request[r].kind, Request[o].kind)
              /\ sameRound(r, o) /\ Request[r].amount = Request[o].amount
              /\ ~HasSuccessfulReversal(o)') <=> MayReverse(r, o)
  <2>1. sameRound(r, o) => SameWallet(r, o)
    BY DEF sameRound, SameWallet
  <2> QED
    BY <1>1, <1>2, <2>1 DEF MayReverse
<1>4. ASSUME NEW o \in Requests
      PROVE  /\ Misnames(r, o) => Misnames(r, o)'
             /\ SameWallet(r, o) /\ ~Misnames(r, o) => ~Misnames(r, o)'
  BY DEF Misnames, Stored, Names
<1>5. deadlineReached(p)' <=> deadlineReached(p)
  BY DEF deadlineReached
<1>6. \A direction : CanHold(p, direction)' <=> CanHold(p, direction)
  BY DEF CanHold
<1>7. CASE job[p].decision.outcome = "process"
  <2>1. ProcessStands(p)
    BY <1>7 DEF DecisionStands
  <2>2. ProcessStands(p)'
    BY <1>3, <1>4, <2>1 DEF ProcessStands, Names, OwnWallet, SameWallet, MayReverse
  <2> QED
    BY <1>7, <2>2 DEF DecisionStands
<1>8. CASE job[p].decision.outcome = "reject"
  <2>1. RejectStands(p)
    BY <1>8 DEF DecisionStands
  <2> DEFINE d == job[p].decision
             MayReverseNext(o) ==
               /\ Names(r, o) /\ txs'[o].status = "PROCESSED"
               /\ reversible(Request[r].kind, Request[o].kind)
               /\ sameRound(r, o) /\ Request[r].amount = Request[o].amount
               /\ ~HasSuccessfulReversal(o)'
  <2>2. \/ ~OwnWallet(r)
        \/ Request[r].kind = "BET" /\ ~CanHold(p, "DEBIT")'
        \/ /\ Request[r].kind = "WIN"
           /\ ~CanHold(p, "CREDIT")' \/ \E o \in Requests : Misnames(r, o)'
        \/ /\ Reversal(Request[r].kind)
           /\ \A o \in Requests : MayReverseNext(o) =>
                ~CanHold(p, reversalDirection(Request[r].kind, Request[o].kind))'
           /\ deadlineReached(p)' \/ \E o \in Requests : Names(r, o) /\ Terminal(txs'[o].status)
    <3>1. CASE ~OwnWallet(r)
      BY <3>1
    <3>2. CASE Request[r].kind = "BET" /\ ~CanHold(p, "DEBIT")
      BY <1>6, <3>2
    <3>3. CASE /\ Request[r].kind = "WIN"
               /\ ~CanHold(p, "CREDIT") \/ \E o \in Requests : Misnames(r, o)
      BY <1>4, <1>6, <3>3
    <3>4. CASE /\ Reversal(Request[r].kind)
               /\ \A o \in Requests : MayReverse(r, o) =>
                    ~CanHold(p, reversalDirection(Request[r].kind, Request[o].kind))
               /\ \/ deadlineReached(p)
                  \/ \E o \in Requests : Names(r, o) /\ Terminal(txs[o].status)
      BY <1>3, <1>5, <1>6, <3>4
    <3> QED
      BY <2>1, <3>1, <3>2, <3>3, <3>4 DEF RejectStands
  <2>3. /\ d.code \in FailureCodes \ {"PERMANENT_FAILURE"}
        /\ d.direction = "NONE" /\ d.ref = NoTx
        /\ d.code \in {"REFERENCE_NOT_FOUND", "REFERENCE_NOT_PROCESSED"} =>
             \A o \in Requests : Names(r, o) /\ SameWallet(r, o) => txs'[o].status # "PROCESSED"
        /\ d.code = "REFERENCE_NOT_FOUND" => deadlineReached(p)'
    BY <1>1, <1>5, <2>1 DEF RejectStands
  <2>4. RejectStands(p)'
    BY <2>2, <2>3
       DEF RejectStands, Names, OwnWallet, SameWallet, MayReverse, CanHold, Misnames, Stored
  <2> QED
    BY <1>8, <2>4 DEF DecisionStands
<1>9. CASE job[p].decision.outcome = "wait"
  <2>1. WaitStands(p)'
    BY <1>9 DEF DecisionStands, WaitStands, Names, OwnWallet, SameWallet
  <2> QED
    BY <1>9, <2>1 DEF DecisionStands
<1> QED
  BY <1>7, <1>8, <1>9

(* A commit of another process leaves the grounds of p's decision alone:   *)
(* it settles an operation of another wallet, or gives one up.             *)
LEMMA OthersUndisturbing ==
    ASSUME Shape, Locks, Ownership, DecisionsStand, [Next]_vars,
           NEW p \in Processes, pc[p] \in {"wake", "commit"},
           NEW q \in Processes, q # p,
           CommitSettlement(q) \/ (q \in Workers /\ CommitGiveUp(q))
    PROVE  Undisturbed(p)
<1> DEFINE r == job[p].op
           o == job[q].op
<1>0. /\ r \in Requests /\ o \in Requests /\ job[q] \in Jobs
      /\ pc[q] \in HeldLabels
  BY HeldOperation DEF HeldLabels, SettlingLabels, CommitSettlement, CommitGiveUp
<1>1. \A x \in Requests : Terminal(txs[x].status) => txs'[x] = txs[x]
  BY TerminalRowsStay
(* Whatever else q writes is a new time at which a waiting row is due.     *)
<1>2. \A x \in Requests \ {o} : /\ txs'[x].status = txs[x].status
                                /\ txs'[x].ref = txs[x].ref
                                /\ txs[x].status # "PENDING_REFERENCE" => txs'[x] = txs[x]
  <2>1. CASE CommitSettlement(q)
    <3> SUFFICES ASSUME NEW x \in Requests \ {o}
                 PROVE  /\ txs'[x].status = txs[x].status
                        /\ txs'[x].ref = txs[x].ref
                        /\ txs[x].status # "PENDING_REFERENCE" => txs'[x] = txs[x]
      OBVIOUS
    <3>1. /\ txs'[x].status = txs[x].status
          /\ txs'[x] = IF x \in job[q].woken THEN [txs[x] EXCEPT !.nextAt = job[q].now]
                       ELSE txs[x]
      BY <2>1, CommitForm
    <3>2. [txs[x] EXCEPT !.nextAt = job[q].now].ref = txs[x].ref
      BY DEF Shape, TypeOK, Rows
    <3>3. x \in job[q].woken => txs[x].status = "PENDING_REFERENCE"
      BY DEF Ownership, WokenRowsWait, WaitsForOperation
    <3> QED
      BY <3>1, <3>2, <3>3
  <2>2. CASE CommitGiveUp(q)
    BY <2>2 DEF CommitGiveUp, Shape, TypeOK
  <2> QED
    BY <2>1, <2>2
<1>3. \A x \in Requests : Stored(x) => txs'[x].status # "ABSENT"
  <2>1. txs'[o].status # "ABSENT"
    <3>1. CASE CommitSettlement(q)
      <4>1. /\ SettledRow(q).status \in {"PROCESSED", "REJECTED", "PENDING_REFERENCE"} \/
               (SettledRow(q).status = txs[o].status /\ q \in Workers)
            /\ pc[q] = "commit"
        BY <3>1, SettledRowType, CommitForm
      <4>2. q \in Workers => txs[o].status = "PENDING_REFERENCE"
        BY <4>1 DEF Ownership, ClaimedRowsWait, SettlingLabels
      <4> QED
        BY <3>1, <4>1, <4>2, CommitForm
    <3>2. CASE CommitGiveUp(q)
      BY <1>0, <3>2, FailedType DEF CommitGiveUp, FailedRow, Shape, TypeOK
    <3> QED
      BY <3>1, <3>2
  <2> QED
    BY <1>2, <2>1 DEF Stored
<1>4. CASE CommitSettlement(q)
  <2>1. ~SameWallet(r, o)
    BY <1>4 DEF CommitSettlement, Locks, OneSettlementPerWallet, UnderWalletLock, walletOf, SameWallet
  <2>2. ASSUME Reversal(Request[o].kind), txs'[o].status = "PROCESSED",
               NEW b \in Requests, txs'[o].ref = b
        PROVE  ~SameWallet(r, b)
    <3>1. txs'[o] = SettledRow(q) /\ pc[q] = "commit"
      BY <1>4, CommitForm
    <3>2. job[q].decision.outcome = "process" /\ b = job[q].decision.ref
      <4>1. CASE job[q].decision.outcome # "wait"
        BY <2>2, <3>1, <4>1 DEF SettledRow, TerminalRow
      <4>2. CASE job[q].decision.outcome = "wait" /\ q \in Workers
        <5>1. txs[o].status = "PENDING_REFERENCE" /\ txs[o] \in Rows
          BY <1>0, <3>1, <4>2 DEF Ownership, ClaimedRowsWait, SettlingLabels, Shape, TypeOK
        <5> QED
          BY <2>2, <3>1, <4>2, <5>1, ProcessAssumption DEF SettledRow, RescheduledRow, Rows
      <4>3. CASE job[q].decision.outcome = "wait" /\ q \notin Workers
        BY <2>2, <3>1, <4>3 DEF SettledRow, ParkedRow, absentRow, Processes
      <4> QED
        BY <4>1, <4>2, <4>3
    <3>3. ProcessStands(q)
      BY <3>1, <3>2 DEF DecisionsStand, DecisionStands
    <3>4. sameRound(o, b)
      BY <2>2, <3>2, <3>3 DEF ProcessStands, MayReverse
    <3> QED
      BY <2>1, <3>4 DEF sameRound, SameWallet
  <2>3. p \in Workers => txs'[r].deadline = txs[r].deadline
    <3> SUFFICES ASSUME p \in Workers PROVE txs'[r].deadline = txs[r].deadline
      OBVIOUS
    <3>1. HoldsRow(p, r) /\ pc[q] = "commit"
      BY <1>4 DEF HoldsRow, CommitSettlement
    <3>2. r # o /\ r \notin job[q].woken
      BY <1>0, <3>1, OthersKeepTheirRows DEF Ownership, RowsHeldOnce, HoldsRow
    <3> QED
      BY <1>0, <1>4, <3>2, CommitForm
  <2> QED
    BY <1>1, <1>2, <1>3, <2>1, <2>2, <2>3 DEF Undisturbed, Stored
<1>5. CASE q \in Workers /\ CommitGiveUp(q)
  <2>1. txs'[o] = FailedRow(o) /\ txs'[o].status = "FAILED" /\ txs[o].status = "PENDING_REFERENCE"
    BY <1>0, <1>5, FailedType
       DEF CommitGiveUp, FailedRow, Shape, TypeOK, Ownership, ClaimedRowsWait
  <2>2. r # o \/ p \notin Workers
    <3>1. p \in Workers => HoldsRow(p, r)
      BY DEF HoldsRow
    <3> QED
      BY <1>0, <1>5, <3>1, OthersKeepTheirRows DEF CommitGiveUp
  <2>3. r # o => txs'[r] = txs[r]
    BY <1>0, <1>5 DEF CommitGiveUp, Shape, TypeOK
  <2>4. \A x \in Requests \ {o} : txs'[x] = txs[x]
    BY <1>5 DEF CommitGiveUp, Shape, TypeOK
  <2> QED
    BY <1>1, <1>3, <2>1, <2>2, <2>3, <2>4 DEF Undisturbed, Stored
<1> QED
  BY <1>4, <1>5


(* A step in which the operations do not change disturbs no decision.      *)
LEMMA UnchangedUndisturbing ==
    ASSUME Shape, NEW p \in Processes, UNCHANGED txs
    PROVE  Undisturbed(p)
BY DEF Undisturbed, Stored

(* Every decision stands until it commits.                                 *)
LEMMA DecisionsStandStep ==
    ASSUME Shape, Locks, Ownership, DecisionsStand, [Next]_vars
    PROVE  DecisionsStand'
<1> SUFFICES ASSUME NEW p \in Processes, pc'[p] \in {"wake", "commit"}
             PROVE  DecisionStands(p)'
  BY DEF DecisionsStand
<1>0. /\ Handlers \subseteq Processes /\ Workers \subseteq Processes
      /\ WokenRowsWait /\ KeptRowsStored /\ {"wake", "commit"} \subseteq HeldLabels /\ "lock" \notin {"wake", "commit"}
  BY DEF Processes, Ownership, HeldLabels, SettlingLabels
<1>1. ASSUME Undisturbed(p), pc[p] \in {"wake", "commit"},
             job'[p].op = job[p].op, job'[p].decision = job[p].decision,
             job'[p].balance = job[p].balance, job'[p].now = job[p].now
      PROVE  DecisionStands(p)'
  <2>1. /\ job[p].op \in Requests /\ DecisionStands(p)
        /\ job[p].decision.outcome \in {"process", "reject", "wait"}
    BY <1>0, <1>1, HeldOperation DEF DecisionsStand, Jobs, Decisions
  <2> QED
    BY <1>1, <2>1, DecisionFrame
<1>2. ASSUME NEW q \in Processes \ {p}, Only(q) PROVE DecisionStands(p)'
  BY <1>1, <1>2, UnchangedUndisturbing DEF Only
<1>3. CASE UNCHANGED <<txs, pc, job>>
  BY <1>1, <1>3, UnchangedUndisturbing
<1>4. ASSUME NEW q \in Processes, HoldsNothing(q) PROVE DecisionStands(p)'
  BY <1>0, <1>2, <1>4 DEF HoldsNothing
<1>5. ASSUME NEW q \in Processes, TakesKeys(q) \/ TakesRow(q) \/ TakesRowBack(q)
      PROVE  DecisionStands(p)'
  BY <1>2, <1>5 DEF TakesKeys, TakesRow, TakesRowBack
<1>6. ASSUME NEW q \in Processes, LockWallet(q) \/ Settle(q) \/ WakeUp(q)
      PROVE  DecisionStands(p)'
  <2>1. CASE q # p
    BY <1>2, <1>6, <2>1, UnderLockForm
  <2>2. CASE q = p /\ Settle(p)
    BY <2>2, SettleStands
  <2>3. CASE q = p /\ WakeUp(p)
    BY <1>1, <2>3, UnderLockForm, UnchangedUndisturbing DEF Only
  <2>4. CASE q = p /\ LockWallet(p)
    BY <2>4, UnderLockForm
  <2> QED
    BY <1>6, <2>1, <2>2, <2>3, <2>4
<1>7. ASSUME NEW q \in Processes, CommitSettlement(q) \/ (q \in Workers /\ CommitGiveUp(q))
      PROVE  DecisionStands(p)'
  <2>1. pc'[q] = "idle" /\ \A x \in Processes \ {q} : pc'[x] = pc[x] /\ job'[x] = job[x]
    BY <1>7 DEF CommitSettlement, CommitGiveUp, Finish, Goto, Shape, TypeOK
  <2>2. q # p /\ pc[p] \in {"wake", "commit"}
    BY <2>1
  <2> QED
    BY <1>1, <1>7, <2>1, <2>2, OthersUndisturbing
<1> QED
  BY <1>0, <1>3, <1>4, <1>5, <1>6, <1>7, StepForms

(* The inductive invariant of the decisions.                               *)
DecidedInv == OwnedInv /\ DecisionsStand

(* It holds of every behaviour.                                            *)
LEMMA DecidedAlways == Spec => []DecidedInv
<1>1. Init => DecisionsStand
  BY DEF Init, DecisionsStand
<1>2. DecidedInv /\ [Next]_vars => DecisionsStand'
  BY DecisionsStandStep DEF DecidedInv, OwnedInv, SafeInv
<1> QED
  BY <1>1, <1>2, OwnedAlways, PTL DEF Spec, DecidedInv


-----------------------------------------------------------------------------
(* Rows.                                                                   *)

(* What the next step may make of the row of r.                            *)
LEMMA RowForms ==
    ASSUME Shape, Ownership, Timing, GivesUpOnFaults, [Next]_vars, NEW r \in Requests
    PROVE  \/ txs'[r] = txs[r]
           \/ \E t \in Nat \ {0} : /\ txs[r].status = "PENDING_REFERENCE"
                                   /\ txs'[r] = [txs[r] EXCEPT !.nextAt = t]
           \/ \E p \in Processes : CommitSettlement(p) /\ r = job[p].op /\ txs'[r] = SettledRow(p)
           \/ /\ txs[r].status = "PENDING_REFERENCE" /\ PermanentFaults
              /\ txs'[r] = FailedRow(r)
<1>1. ASSUME NEW p \in Processes, CommitSettlement(p), r # job[p].op
      PROVE  \/ txs'[r] = txs[r]
             \/ \E t \in Nat \ {0} : /\ txs[r].status = "PENDING_REFERENCE"
                                     /\ txs'[r] = [txs[r] EXCEPT !.nextAt = t]
  <2>1. job[p].now \in Nat \ {0}
    BY <1>1, CommitForm, ClockNat DEF Timing, ReadTheClock, Shape
  <2>2. r \in job[p].woken => txs[r].status = "PENDING_REFERENCE"
    BY DEF Ownership, WokenRowsWait, WaitsForOperation
  <2> QED
    BY <1>1, <2>1, <2>2, CommitForm
<1>2. ASSUME NEW k \in Workers, CommitGiveUp(k)
      PROVE  \/ txs'[r] = txs[r]
             \/ /\ txs[r].status = "PENDING_REFERENCE" /\ PermanentFaults
                /\ txs'[r] = FailedRow(r)
  <2>1. pc[k] = "commitGiveUp" /\ txs' = [txs EXCEPT ![job[k].op] = FailedRow(job[k].op)]
    BY <1>2 DEF CommitGiveUp
  <2>2. PermanentFaults
    BY <2>1 DEF GivesUpOnFaults, Processes
  <2>3. txs[job[k].op].status = "PENDING_REFERENCE"
    BY <2>1 DEF Ownership, ClaimedRowsWait
  <2> QED
    BY <2>1, <2>2, <2>3 DEF Shape, TypeOK
<1>3. ASSUME NEW p \in Processes, CommitSettlement(p), r = job[p].op
      PROVE  txs'[r] = SettledRow(p)
  BY <1>3, CommitForm
<1>4. ASSUME UNCHANGED txs PROVE txs'[r] = txs[r]
  BY <1>4
<1>5. \/ UNCHANGED txs
      \/ \E k \in Workers : CommitGiveUp(k)
      \/ \E p \in Processes : CommitSettlement(p)
  BY StepForms, UnderLockForm
     DEF Ownership, Only, HoldsNothing, TakesKeys, TakesRow, TakesRowBack, Processes
<1> QED
  BY <1>1, <1>2, <1>3, <1>4, <1>5

(* One settlement commits at a time.                                       *)
LEMMA OneCommit ==
    ASSUME Shape, NEW p \in Processes, NEW q \in Processes,
           CommitSettlement(p), CommitSettlement(q)
    PROVE  p = q
BY CommitForm

(* The row a settlement leaves, by its decision.                           *)
LEMMA SettledRowForm ==
    ASSUME Shape, Ownership, Timing, DecisionsStand, RowsAgree, RowsRehydrate,
           NEW p \in Processes, pc[p] = "commit",
           NEW row, row = SettledRow(p), NEW d, d = job[p].decision
    PROVE  \/ /\ d.outcome = "process" /\ ProcessStands(p)
              /\ row.status = "PROCESSED" /\ row.code = NoCode /\ row.ref = d.ref
              /\ row.result \in 0..MaxBalance /\ row.nextAt = 0 /\ row.deadline = 0
           \/ /\ d.outcome = "reject" /\ RejectStands(p)
              /\ row.status = "REJECTED" /\ row.code = d.code /\ row.ref = NoTx
              /\ row.result \in 0..MaxBalance /\ row.nextAt = 0 /\ row.deadline = 0
           \/ /\ d.outcome = "wait" /\ WaitStands(p)
              /\ row.status = "PENDING_REFERENCE" /\ row.code = NoCode /\ row.ref = NoTx
              /\ row.result = NoBalance /\ row.nextAt # 0 /\ row.deadline # 0
<1> DEFINE r == job[p].op
<1>0. /\ r \in Requests /\ job[p] \in Jobs /\ d.outcome \in {"process", "reject", "wait"}
      /\ txs[r] \in Rows /\ job[p].now \in Nat \ {0}
  <2>1. r \in Requests /\ job[p] \in Jobs
    BY HeldOperation DEF HeldLabels, SettlingLabels
  <2>2. d.outcome \in {"process", "reject", "wait"}
    BY <2>1 DEF Jobs, Decisions
  <2>3. job[p].now \in Nat \ {0}
    BY ClockNat DEF Shape, Timing, ReadTheClock
  <2> QED
    BY <2>1, <2>2, <2>3 DEF Shape, TypeOK
<1>1. DecisionStands(p)
  BY DEF DecisionsStand
<1>2. CASE d.outcome # "wait"
  <2>1. row = TerminalRow(p)
    BY <1>2 DEF SettledRow
  <2>2. row.result \in 0..MaxBalance
    <3>1. Moves(p) => MovedBalance(p) \in 0..MaxBalance
      BY DEF Shape, JobsFit, JobFits
    <3> QED
      BY <1>0, <2>1, <3>1 DEF TerminalRow, Jobs
  <2>3. CASE d.outcome = "process"
    BY <1>1, <2>1, <2>2, <2>3 DEF TerminalRow, DecisionStands, ProcessStands
  <2>4. CASE d.outcome = "reject"
    BY <1>1, <2>1, <2>2, <2>4 DEF TerminalRow, DecisionStands, RejectStands
  <2> QED
    BY <1>0, <1>2, <2>3, <2>4
<1>3. CASE d.outcome = "wait"
  <2>0. WaitStands(p)
    BY <1>1, <1>3 DEF DecisionStands
  <2>1. CASE p \in Handlers
    <3>1. row = ParkedRow(p)
      BY <1>3, <2>1 DEF SettledRow
    <3>2. job[p].now + BackoffBase # 0 /\ job[p].now + ReferenceTTL # 0
      BY <1>0, TimeAssumption
    <3> QED
      BY <1>3, <2>0, <3>1, <3>2 DEF ParkedRow, absentRow
  <2>2. CASE p \in Workers
    <3> DEFINE old == txs[r]
    <3>1. row = RescheduledRow(p)
      BY <1>3, <2>2, ProcessAssumption DEF SettledRow
    <3>2. old.status = "PENDING_REFERENCE" /\ ValidSnapshot(r)
      BY <1>0, <2>2 DEF Ownership, ClaimedRowsWait, SettlingLabels, RowsRehydrate, Stored
    <3>3. old.code = NoCode /\ old.ref = NoTx /\ old.result = NoBalance /\ old.deadline # 0
      BY <3>2 DEF ValidSnapshot
    <3>4. job[p].now + Backoff(old.attempts + 1) # 0
      <4>1. old.attempts + 1 \in 0..AttemptsCap + 1
        BY <1>0, TimeAssumption DEF Rows
      <4>2. Backoff(old.attempts + 1) \in 1..BackoffMax
        BY <4>1, TimeAssumption
      <4> QED
        BY <1>0, <4>2, TimeAssumption
    <3> HIDE DEF old
    <3>5. row = [old EXCEPT !.attempts = IF @ < AttemptsCap THEN @ + 1 ELSE @,
                            !.nextAt = job[p].now + Backoff(old.attempts + 1)]
      BY <3>1 DEF RescheduledRow, old
    <3>6. old \in Rows
      BY <1>0 DEF old
    <3> QED
      BY <1>3, <2>0, <3>2, <3>3, <3>4, <3>5, <3>6 DEF Rows, old
  <2> QED
    BY <2>1, <2>2 DEF Processes
<1> QED
  BY <1>0, <1>2, <1>3


(* What is decided about an operation names it rightly: a reference is     *)
(* never the operation itself, and it was asked for.                       *)
LEMMA ReferenceFits ==
    ASSUME NEW p \in Processes, job[p] \in Jobs, job[p].op \in Requests, ProcessStands(p)
    PROVE  LET r == job[p].op
               ref == job[p].decision.ref
           IN  /\ ref # r
               /\ ref # NoTx => Request[r].refExt # NoExt
               /\ Reversal(Request[r].kind) => ref # NoTx
<1> DEFINE r == job[p].op
           ref == job[p].decision.ref
<1>0. /\ ValidRequest(r) /\ NoTx \notin Requests /\ NoExt \notin Exts
      /\ ref # NoTx => ref \in Requests /\ Request[ref].ext \in Exts
  BY RequestAssumption, ConstantsAssumption DEF ValidRequest, Jobs, Decisions
<1>1. CASE Request[r].kind \in {"BET", "LOSS"}
  BY <1>0, <1>1 DEF ProcessStands, Reversal
<1>2. CASE Request[r].kind = "WIN"
  BY <1>0, <1>2 DEF ProcessStands, Reversal, Names, ValidRequest
<1>3. CASE Reversal(Request[r].kind)
  <2>1. ref \in Requests /\ reversible(Request[r].kind, Request[ref].kind)
    BY <1>3 DEF ProcessStands, MayReverse
  <2>2. Request[ref].kind # Request[r].kind
    BY <2>1 DEF reversible
  <2> QED
    BY <1>0, <1>3, <2>1, <2>2 DEF ValidRequest
<1> QED
  BY <1>0, <1>1, <1>2, <1>3 DEF ValidRequest, Kinds, Reversal

(* A row that is read back stays readable, whatever the step.              *)
LEMMA RowsStep ==
    ASSUME Shape, Ownership, Timing, GivesUpOnFaults, DecisionsStand, RowsAgree, RowsRehydrate,
           [Next]_vars
    PROVE  RowsAgree' /\ RowsRehydrate'
<1> DEFINE Agrees(r, row) ==
             /\ row.status = "ABSENT" => row = absentRow
             /\ row.ref # NoTx => row.status = "PROCESSED"
             /\ row.status = "FAILED" => PermanentFaults
           Readable(r, row) ==
             LET reversal == Reversal(Request[r].kind)
                 currency == Wallet[Request[r].wallet].currency
             IN  /\ row.ref # r
                 /\ row.ref # NoTx => Request[r].refExt # NoExt
                 /\ IF row.status = "PENDING_REFERENCE"
                      THEN reversal /\ row.nextAt # 0 /\ row.deadline # 0
                      ELSE row.nextAt = 0 /\ row.deadline = 0
                 /\ CASE row.status = "PROCESSED" -> /\ row.result >= 0 /\ row.code = NoCode
                                                     /\ currency = Request[r].currency
                                                     /\ reversal => row.ref # NoTx
                      [] row.status = "REJECTED"  -> /\ row.result >= 0
                                                     /\ row.code \in FailureCodes \ {"PERMANENT_FAILURE"}
                      [] row.status = "FAILED"    -> /\ reversal /\ row.result = NoBalance
                                                     /\ row.code = "PERMANENT_FAILURE"
                      [] OTHER -> row.code = NoCode /\ row.result = NoBalance /\ row.ref = NoTx
           Good(r, row) == Agrees(r, row) /\ (row.status # "ABSENT" => Readable(r, row))
<1>1. \A r \in Requests : Good(r, txs[r])
  BY DEF RowsAgree, RowsRehydrate, Stored, ValidSnapshot
<1>2. SUFFICES ASSUME NEW r \in Requests PROVE Good(r, txs'[r])
  BY DEF RowsAgree, RowsRehydrate, Stored, ValidSnapshot
<1>3. txs[r] \in Rows /\ NoTx \notin Requests
  BY ConstantsAssumption DEF Shape, TypeOK
<1>4. CASE txs'[r] = txs[r]
  BY <1>1, <1>4
<1>5. ASSUME NEW t \in Nat \ {0}, txs[r].status = "PENDING_REFERENCE",
             txs'[r] = [txs[r] EXCEPT !.nextAt = t]
      PROVE  Good(r, txs'[r])
  <2> DEFINE row == [txs[r] EXCEPT !.nextAt = t]
  <2>1. /\ row.status = "PENDING_REFERENCE" /\ row.nextAt # 0
        /\ row.deadline = txs[r].deadline /\ row.ref = txs[r].ref
        /\ row.code = txs[r].code /\ row.result = txs[r].result
    BY <1>3, <1>5 DEF Rows
  <2> HIDE DEF row
  <2>2. Good(r, row)
    BY <1>1, <1>5, <2>1
  <2> QED
    BY <1>5, <2>2 DEF row
<1>6. ASSUME txs[r].status = "PENDING_REFERENCE", PermanentFaults, txs'[r] = FailedRow(r)
      PROVE  Good(r, txs'[r])
  <2> DEFINE row == FailedRow(r)
  <2>1. /\ row.status = "FAILED" /\ row.code = "PERMANENT_FAILURE"
        /\ row.nextAt = 0 /\ row.deadline = 0
        /\ row.ref = txs[r].ref /\ row.result = txs[r].result
    BY <1>3 DEF FailedRow, Rows
  <2>2. txs[r].ref = NoTx /\ txs[r].result = NoBalance /\ Reversal(Request[r].kind)
    BY <1>1, <1>6
  <2> HIDE DEF row
  <2>3. Good(r, row)
    BY <1>3, <1>6, <2>1, <2>2
  <2> QED
    BY <1>6, <2>3 DEF row
<1>7. ASSUME NEW p \in Processes, CommitSettlement(p), r = job[p].op, txs'[r] = SettledRow(p)
      PROVE  Good(r, txs'[r])
  <2> DEFINE row == SettledRow(p)
             d == job[p].decision
  <2>0. pc[p] = "commit" /\ MaxBalance \in Nat
    BY <1>7, ConstantsAssumption DEF CommitSettlement
  <2>1. \/ /\ d.outcome = "process" /\ ProcessStands(p)
           /\ row.status = "PROCESSED" /\ row.code = NoCode /\ row.ref = d.ref
           /\ row.result \in 0..MaxBalance /\ row.nextAt = 0 /\ row.deadline = 0
        \/ /\ d.outcome = "reject" /\ RejectStands(p)
           /\ row.status = "REJECTED" /\ row.code = d.code /\ row.ref = NoTx
           /\ row.result \in 0..MaxBalance /\ row.nextAt = 0 /\ row.deadline = 0
        \/ /\ d.outcome = "wait" /\ WaitStands(p)
           /\ row.status = "PENDING_REFERENCE" /\ row.code = NoCode /\ row.ref = NoTx
           /\ row.result = NoBalance /\ row.nextAt # 0 /\ row.deadline # 0
    BY <2>0, SettledRowForm
  <2> SUFFICES Good(r, row)
    BY <1>7
  <2> HIDE DEF row
  <2>2. CASE ProcessStands(p) /\ row.status = "PROCESSED"
    <3>1. /\ row.ref # r
          /\ row.ref # NoTx => Request[r].refExt # NoExt
          /\ Reversal(Request[r].kind) => row.ref # NoTx
      BY <1>7, <2>1, <2>2, CommitForm, ReferenceFits
    <3>2. Wallet[Request[r].wallet].currency = Request[r].currency
      BY <1>7, <2>2 DEF ProcessStands, OwnWallet
    <3> QED
      BY <2>0, <2>1, <2>2, <3>1, <3>2
  <2>3. CASE RejectStands(p) /\ row.status = "REJECTED"
    BY <1>3, <2>0, <2>1, <2>3 DEF RejectStands
  <2>4. CASE WaitStands(p) /\ row.status = "PENDING_REFERENCE"
    BY <1>3, <1>7, <2>1, <2>4 DEF WaitStands
  <2> QED
    BY <2>1, <2>2, <2>3, <2>4
<1> HIDE DEF Good
<1> QED
  BY <1>4, <1>5, <1>6, <1>7, RowForms


(* Nothing is stored at the start.                                         *)
LEMMA RowsInit == Init => RowsAgree /\ RowsRehydrate /\ ReversedOnce
<1> SUFFICES ASSUME Init PROVE RowsAgree /\ RowsRehydrate /\ ReversedOnce
  OBVIOUS
<1>1. \A r \in Requests : txs[r] = absentRow /\ txs[r].status = "ABSENT" /\ txs[r].ref = NoTx
  BY DEF Init, absentRow
<1> QED
  BY <1>1 DEF RowsAgree, RowsRehydrate, ReversedOnce, Stored

(* What a settlement makes of an operation that becomes PROCESSED.         *)
LEMMA NewlyProcessed ==
    ASSUME Shape, Ownership, Timing, GivesUpOnFaults, DecisionsStand, RowsAgree, RowsRehydrate,
           [Next]_vars, NEW r \in Requests, txs'[r].status = "PROCESSED",
           txs[r].status # "PROCESSED"
    PROVE  \E p \in Processes : /\ CommitSettlement(p) /\ r = job[p].op
                                /\ ProcessStands(p) /\ txs'[r].ref = job[p].decision.ref
<1>0. txs[r] \in Rows
  BY DEF Shape, TypeOK
<1>1. ~\E t \in Nat \ {0} : /\ txs[r].status = "PENDING_REFERENCE"
                            /\ txs'[r] = [txs[r] EXCEPT !.nextAt = t]
  BY <1>0 DEF Rows
<1>2. txs'[r] # FailedRow(r)
  BY <1>0 DEF Rows, FailedRow
<1>3. PICK p \in Processes : CommitSettlement(p) /\ r = job[p].op /\ txs'[r] = SettledRow(p)
  BY <1>1, <1>2, RowForms
<1>4. pc[p] = "commit"
  BY <1>3, CommitForm
<1>5. ProcessStands(p) /\ txs'[r].ref = job[p].decision.ref
  <2> DEFINE row == SettledRow(p)
             d == job[p].decision
  <2>1. \/ d.outcome = "process" /\ ProcessStands(p) /\ row.ref = d.ref
        \/ row.status = "REJECTED"
        \/ row.status = "PENDING_REFERENCE"
    BY <1>4, SettledRowForm
  <2> HIDE DEF row, d
  <2>2. txs'[r] = row
    BY <1>3 DEF row
  <2> QED
    BY <2>1, <2>2 DEF d
<1> QED
  BY <1>3, <1>5

(* A reversal is processed only if nothing has reversed its reference, and *)
(* what it reverses stays processed.                                       *)
LEMMA ReversedOnceStep ==
    ASSUME Shape, Ownership, Timing, GivesUpOnFaults, DecisionsStand, RowsAgree, RowsRehydrate,
           ReversedOnce, [Next]_vars
    PROVE  ReversedOnce'
<1>1. \A r \in Requests : Terminal(txs[r].status) => txs'[r] = txs[r]
  BY TerminalRowsStay
<1> DEFINE Undone(r) == Reversal(Request[r].kind) /\ txs[r].status = "PROCESSED"
           UndoneNext(r) == Reversal(Request[r].kind) /\ txs'[r].status = "PROCESSED"
           Undoes(r, o) == Undone(r) /\ txs[r].ref = o
(* Between a reversal that was processed before and one that is now.       *)
<1>2. ASSUME NEW r \in Requests, UndoneNext(r)
      PROVE  \/ Undone(r) /\ txs'[r] = txs[r]
             \/ \E p \in Processes : /\ CommitSettlement(p) /\ r = job[p].op
                                     /\ txs'[r].ref \in Requests
                                     /\ MayReverse(r, txs'[r].ref)
  <2>1. CASE txs[r].status = "PROCESSED"
    BY <1>1, <1>2, <2>1 DEF Terminal
  <2>2. CASE txs[r].status # "PROCESSED"
    BY <1>2, <2>2, NewlyProcessed DEF ProcessStands
  <2> QED
    BY <2>1, <2>2
<1>3. SUFFICES ASSUME NEW r \in Requests, UndoneNext(r), NEW o, o = txs'[r].ref
               PROVE  /\ o \in Requests
                      /\ txs'[o].status = "PROCESSED"
                      /\ Request[o].wallet = Request[r].wallet
                      /\ Request[o].amount = Request[r].amount
                      /\ \A s \in Requests : UndoneNext(s) /\ txs'[s].ref = o => s = r
  BY DEF ReversedOnce
<1>4. CASE Undone(r) /\ txs'[r] = txs[r]
  <2>1. /\ o \in Requests /\ txs[o].status = "PROCESSED" /\ Undoes(r, o)
        /\ Request[o].wallet = Request[r].wallet
        /\ Request[o].amount = Request[r].amount
        /\ \A s \in Requests : Undoes(s, o) => s = r
    BY <1>3, <1>4 DEF ReversedOnce
  <2>2. txs'[o].status = "PROCESSED"
    BY <1>1, <2>1 DEF Terminal
  <2>3. ASSUME NEW s \in Requests, UndoneNext(s), txs'[s].ref = o PROVE Undoes(s, o)
    <3>1. HasSuccessfulReversal(o)
      BY <2>1 DEF HasSuccessfulReversal
    <3>2. ~MayReverse(s, o)
      BY <3>1 DEF MayReverse
    <3> QED
      BY <1>2, <2>3, <3>2
  <2> QED
    BY <2>1, <2>2, <2>3
<1>5. ASSUME NEW p \in Processes, CommitSettlement(p), r = job[p].op,
             o \in Requests, MayReverse(r, o)
      PROVE  /\ o \in Requests
             /\ txs'[o].status = "PROCESSED"
             /\ Request[o].wallet = Request[r].wallet
             /\ Request[o].amount = Request[r].amount
             /\ \A s \in Requests : UndoneNext(s) /\ txs'[s].ref = o => s = r
  <2>1. /\ txs'[o].status = "PROCESSED"
        /\ Request[o].wallet = Request[r].wallet /\ Request[o].amount = Request[r].amount
    BY <1>1, <1>5 DEF MayReverse, sameRound, Terminal
  <2>2. ASSUME NEW s \in Requests, UndoneNext(s), txs'[s].ref = o PROVE s = r
    <3>1. ~Undoes(s, o)
      BY <1>5 DEF MayReverse, HasSuccessfulReversal
    <3>2. PICK q \in Processes : CommitSettlement(q) /\ s = job[q].op
      BY <1>2, <2>2, <3>1
    <3>3. p = q
      BY <1>5, <3>2, OneCommit
    <3> QED
      BY <1>5, <3>2, <3>3
  <2> QED
    BY <1>5, <2>1, <2>2
<1> HIDE DEF UndoneNext, Undone
<1> QED
  BY <1>2, <1>3, <1>4, <1>5

(* The inductive invariant of the rows.                                    *)
RowsInv == DecidedInv /\ Timing /\ GivesUpOnFaults /\ RowsAgree /\ RowsRehydrate /\ ReversedOnce

(* It holds of every behaviour.                                            *)
LEMMA RowsAlways == Spec => []RowsInv
<1> DEFINE Rest == Timing /\ GivesUpOnFaults /\ RowsAgree /\ RowsRehydrate /\ ReversedOnce
<1>1. Init => Rest
  BY TimingInit, RowsInit
<1>2. DecidedInv /\ Rest /\ [Next]_vars => Rest'
  BY TimingStep, RowsStep, ReversedOnceStep DEF DecidedInv, OwnedInv, SafeInv
<1>3. RowsInv <=> DecidedInv /\ Rest
  BY DEF RowsInv
<1> HIDE DEF Rest
<1> QED
  BY <1>1, <1>2, <1>3, DecidedAlways, PTL DEF Spec

(* No operation is ever reversed twice.                                    *)
THEOREM NeverReversedTwice == Spec => []ReversedOnce
<1>1. RowsInv => ReversedOnce
  BY DEF RowsInv
<1> QED
  BY <1>1, RowsAlways, PTL

(* Every row can always be read back.                                      *)
THEOREM RowsStayReadable == Spec => []RowsRehydrate
<1>1. RowsInv => RowsRehydrate
  BY DEF RowsInv
<1> QED
  BY <1>1, RowsAlways, PTL

-----------------------------------------------------------------------------
(* Deadlocks.                                                              *)

(* How far in the order of the locks a process has come: message, unique   *)
(* keys, row, wallet, reference.  The locks that its next statement may    *)
(* wait for are held by processes that have come further, but for a row    *)
(* that a worker keeps.                                                    *)
Progress(p) ==
    CASE pc[p] = "inbox" -> 1
      [] pc[p] = "insert" -> 2
      [] pc[p] \in {"replay", "giveUp", "create"} -> 3
      [] pc[p] = "lock" -> 4
      [] pc[p] = "wake" -> 5
      [] OTHER -> 6

(* Progress is one of six ranks.                                           *)
LEMMA ProgressRank == \A p : Progress(p) \in {1, 2, 3, 4, 5, 6}
BY DEF Progress

(* The settlement of p needs a row that worker k keeps.                    *)
NeedsKeptRow(p, k) ==
    /\ k \in Workers
    /\ pc[p] = "wake"
    /\ job[p].decision.ref \in job[k].kept

(* The reference of a settlement does not wait for its own reference.      *)
LEMMA ReferenceDoesNotWait ==
    ASSUME RowsInv, NEW p \in Processes, pc[p] \in {"wake", "commit"},
           job[p].decision.ref \in Requests
    PROVE  txs[job[p].decision.ref].status # "PENDING_REFERENCE"
<1> DEFINE r == job[p].op
           o == job[p].decision.ref
<1>0. /\ DecisionStands(p) /\ job[p].decision \in Decisions /\ r \in Requests
      /\ NoTx \notin Requests
  BY HeldOperation, ConstantsAssumption
     DEF RowsInv, DecidedInv, DecisionsStand, OwnedInv, SafeInv, HeldLabels, SettlingLabels, Jobs
<1>1. CASE job[p].decision.outcome = "process"
  <2>1. ProcessStands(p)
    BY <1>0, <1>1 DEF DecisionStands
  <2>2. CASE Reversal(Request[r].kind)
    BY <2>1, <2>2 DEF ProcessStands, MayReverse
  <2>3. CASE Request[r].kind = "WIN"
    <3>1. Request[o].kind = "BET"
      BY <1>0, <2>1, <2>3 DEF ProcessStands
    <3> QED
      BY <3>1 DEF RowsInv, RowsRehydrate, ValidSnapshot, Stored, Reversal
  <2>4. Request[r].kind \in Kinds
    BY <1>0, RequestAssumption DEF ValidRequest
  <2> QED
    BY <1>0, <2>1, <2>2, <2>3, <2>4 DEF ProcessStands, Kinds, Reversal
<1>2. CASE job[p].decision.outcome = "reject"
  BY <1>0, <1>2 DEF DecisionStands, RejectStands
<1>3. CASE job[p].decision.outcome = "wait"
  BY <1>0, <1>3 DEF DecisionStands, WaitStands, waitReference
<1> QED
  BY <1>0, <1>1, <1>2, <1>3 DEF Decisions

(* So only a worker that keeps it can have it locked.                      *)
LEMMA OnlyKeptReferences ==
    ASSUME RowsInv, NEW p \in Processes, pc[p] = "wake",
           NEW q \in Processes, HoldsRow(q, job[p].decision.ref)
    PROVE  NeedsKeptRow(p, q)
<1> DEFINE o == job[p].decision.ref
<1>0. Shape /\ Ownership
  BY DEF RowsInv, DecidedInv, OwnedInv, SafeInv
<1>1. o \in Requests
  BY <1>0, HeldOperation
     DEF HoldsRow, Shape, TypeOK, Jobs, HeldLabels, SettlingLabels
<1>2. txs[o].status # "PENDING_REFERENCE"
  BY <1>1, ReferenceDoesNotWait
<1>3. o \in job[q].kept
  BY <1>0, <1>2
     DEF HoldsRow, Ownership, ClaimedRowsWait, WokenRowsWait, WaitsForOperation, SettlingLabels
<1> QED
  BY <1>0, <1>3 DEF NeedsKeptRow, Ownership, KeptRowsStored

(* Whoever waits for a lock has come less far than who holds it.           *)
LEMMA WaitsForFurther ==
    ASSUME RowsInv, NEW p \in Processes, NEW q \in Processes, WaitsFor(p, q),
           ~NeedsKeptRow(p, q)
    PROVE  Progress(p) < Progress(q)
<1>0. WokenRowsWait /\ KeptRowsStored
  BY DEF RowsInv, DecidedInv, OwnedInv, Ownership
<1>1. \A r : HoldsRow(q, r) => pc[q] \in {"lock", "settle", "wake", "commit", "commitGiveUp"}
  BY <1>0 DEF HoldsRow, WokenRowsWait, KeptRowsStored, SettlingLabels
<1>2. CASE pc[p] = "inbox" /\ HoldsMessage(q, job[p].message)
  BY <1>2 DEF HoldsMessage, Progress
<1>3. CASE pc[p] = "insert" /\ \E o \in Requests : HoldsRequest(q, o)
  BY <1>3 DEF HoldsRequest, Progress
<1>4. CASE pc[p] \in {"replay", "giveUp"} /\ HoldsRow(q, job[p].op)
  BY <1>1, <1>4 DEF Progress
<1>5. CASE pc[p] = "giveUp" /\ SharesRow(q, job[p].op)
  BY <1>5 DEF SharesRow, Replays, Progress
<1>6. CASE pc[p] = "lock" /\ HoldsWallet(q, walletOf(p))
  BY <1>6 DEF HoldsWallet, Progress
<1>7. CASE pc[p] = "create" /\ pc[q] = "commitOpening"
  BY <1>7 DEF Progress
<1>8. ~(pc[p] = "wake" /\ HoldsRow(q, job[p].decision.ref))
  BY OnlyKeptReferences
<1> QED
  BY <1>2, <1>3, <1>4, <1>5, <1>6, <1>7, <1>8 DEF WaitsFor

(* In every group of processes someone waits for nobody in it, one that    *)
(* has come furthest, unless someone needs a row that a worker keeps.      *)
LEMMA SomeoneGoesOn == RowsInv => OnlyKeptRowsDeadlock
<1> SUFFICES ASSUME RowsInv, NEW group \in (SUBSET Processes) \ {{}},
                    ~\E p \in group, k \in group \cap Workers : NeedsKeptRow(p, k)
             PROVE  \E p \in group : \A q \in group : ~WaitsFor(p, q)
  BY DEF OnlyKeptRowsDeadlock, NeedsKeptRow
<1>1. \E p \in group : \A q \in group : Progress(q) <= Progress(p)
  <2> DEFINE Below(n) == \A q \in group : Progress(q) <= n
  <2>1. Below(6) /\ ~Below(0)
    <3>1. PICK p : p \in group
      OBVIOUS
    <3> QED
      BY <3>1, ProgressRank
  <2>2. PICK n \in {1, 2, 3, 4, 5, 6} : Below(n) /\ ~Below(n - 1)
    BY <2>1
  <2>3. PICK p \in group : ~(Progress(p) <= n - 1)
    BY <2>2
  <2>4. Progress(p) = n
    BY <2>2, <2>3, ProgressRank
  <2> QED
    BY <2>2, <2>4
<1>2. PICK p \in group : \A q \in group : Progress(q) <= Progress(p)
  BY <1>1
<1>3. ASSUME NEW q \in group, WaitsFor(p, q) PROVE FALSE
  <2>1. ~NeedsKeptRow(p, q)
    BY DEF NeedsKeptRow
  <2> QED
    BY <1>2, <1>3, <2>1, WaitsForFurther, ProgressRank
<1> QED
  BY <1>3

(* The locks of the database wait for each other in a circle only where a  *)
(* settlement needs, as its reference, a row that a worker locked, found   *)
(* settled and keeps.                                                      *)
THEOREM DeadlocksNeedKeptRows == Spec => []OnlyKeptRowsDeadlock
<1> QED
  BY SomeoneGoesOn, RowsAlways, PTL

-----------------------------------------------------------------------------
(* Want of a reference.                                                    *)

(* The row of an operation without a final outcome carries no failure code.*)
LEMMA OpenRowsHaveNoCode ==
    ASSUME Shape, RowsAgree, RowsRehydrate, NEW r \in Requests, ~Terminal(txs[r].status)
    PROVE  txs[r].code = NoCode
<1>1. txs[r].status \in {"ABSENT", "PENDING_REFERENCE"}
  BY DEF Shape, TypeOK, Rows, Statuses, RowsFit, Terminal
<1>2. CASE txs[r].status = "ABSENT"
  BY <1>2 DEF RowsAgree, absentRow
<1>3. CASE txs[r].status = "PENDING_REFERENCE"
  BY <1>3 DEF RowsRehydrate, Stored, ValidSnapshot
<1> QED
  BY <1>1, <1>2, <1>3

(* A reference that stands processed is not overlooked, and none is given  *)
(* up before its deadline.                                                 *)
LEMMA WantOfReferenceStep ==
    ASSUME RowsInv, [Next]_vars, NEW r \in Requests, RejectedForWantOfReference(r)
    PROVE  /\ \A o \in Requests :
                Names(r, o) /\ Request[o].wallet = Request[r].wallet => txs[o].status # "PROCESSED"
           /\ txs'[r].code = "REFERENCE_NOT_FOUND" =>
                txs[r].status = "PENDING_REFERENCE" /\ clock >= txs[r].deadline
<1> USE DEF RowsInv, DecidedInv, OwnedInv, SafeInv, RejectedForWantOfReference
<1>0. /\ txs[r] \in Rows /\ txs[r].code = NoCode
      /\ NoCode \notin {"REFERENCE_NOT_FOUND", "REFERENCE_NOT_PROCESSED"}
  BY OpenRowsHaveNoCode DEF Shape, TypeOK, NoCode
<1>1. ~\E t \in Nat \ {0} : txs'[r] = [txs[r] EXCEPT !.nextAt = t]
  BY <1>0 DEF Rows
<1>2. txs'[r] # txs[r] /\ txs'[r] # FailedRow(r)
  BY <1>0 DEF Rows, FailedRow
<1>3. PICK p \in Processes : CommitSettlement(p) /\ r = job[p].op /\ txs'[r] = SettledRow(p)
  BY <1>1, <1>2, RowForms
<1>4. pc[p] = "commit" /\ RejectStands(p) /\ txs'[r].code = job[p].decision.code
  <2> DEFINE row == SettledRow(p)
             d == job[p].decision
  <2>1. pc[p] = "commit"
    BY <1>3, CommitForm
  <2>2. \/ d.outcome = "process" /\ row.code = NoCode
        \/ d.outcome = "reject" /\ RejectStands(p) /\ row.code = d.code
        \/ d.outcome = "wait" /\ row.code = NoCode
    BY <2>1, SettledRowForm
  <2> HIDE DEF row, d
  <2>3. txs'[r] = row
    BY <1>3 DEF row
  <2> QED
    BY <1>0, <2>1, <2>2, <2>3 DEF d
<1>5. \A o \in Requests :
        Names(r, o) /\ Request[o].wallet = Request[r].wallet => txs[o].status # "PROCESSED"
  BY <1>3, <1>4 DEF RejectStands, SameWallet
<1>6. ASSUME txs'[r].code = "REFERENCE_NOT_FOUND"
      PROVE  txs[r].status = "PENDING_REFERENCE" /\ clock >= txs[r].deadline
  <2>1. p \in Workers /\ job[p].now >= txs[r].deadline
    BY <1>3, <1>4, <1>6 DEF RejectStands, deadlineReached
  <2>2. txs[r].status = "PENDING_REFERENCE"
    BY <1>3, <1>4, <2>1 DEF Ownership, ClaimedRowsWait, SettlingLabels
  <2>3. job[p].now \in 1..clock /\ clock \in Nat /\ txs[r].deadline \in Nat
    BY <1>0, <1>4, ClockNat DEF Timing, ReadTheClock, Rows, Shape
  <2> QED
    BY <2>1, <2>2, <2>3
<1> QED
  BY <1>5, <1>6

(* No operation is rejected for want of a reference that is there, or      *)
(* before its deadline.                                                    *)
THEOREM ReferenceNeverIgnored == Spec => ReferenceNotIgnored
<1> DEFINE Heeded ==
             \A r \in Requests : RejectedForWantOfReference(r) =>
               /\ \A o \in Requests :
                    /\ Request[o].provider = Request[r].provider
                    /\ Request[o].ext = Request[r].refExt
                    /\ Request[o].wallet = Request[r].wallet
                    => txs[o].status # "PROCESSED"
               /\ txs'[r].code = "REFERENCE_NOT_FOUND" =>
                    txs[r].status = "PENDING_REFERENCE" /\ clock >= txs[r].deadline
<1>1. RowsInv /\ [Next]_vars => [Heeded]_vars
  BY WantOfReferenceStep DEF Names
<1> QED
  BY <1>1, RowsAlways, PTL DEF Spec, ReferenceNotIgnored

(* Taken again at the commit, the decision about a reversal is the same:   *)
(* what justified it still stands.                                         *)
LEMMA DecidedAgain ==
    ASSUME DecidedInv, NEW p \in Processes, pc[p] \in {"wake", "commit"},
           Reversal(Request[job[p].op].kind),
           NEW again, again = Decide(wallets[walletOf(p)].balance, job[p].op,
                                     resolveReference(p), deadlineReached(p))
    PROVE  IF job[p].decision.outcome = "wait" THEN again.outcome # "process"
           ELSE again.outcome = job[p].decision.outcome
<1> DEFINE r == job[p].op
           balance == job[p].balance
           ref == resolveReference(p)
           expired == deadlineReached(p)
           d == job[p].decision
           o == ref.id
           open == o = NoTx \/ ref.status \in {"PENDING", "PENDING_REFERENCE"}
           direction == reversalDirection(Request[r].kind, Request[o].kind)
           allowed == /\ ~open /\ ref.status \notin {"REJECTED", "FAILED"}
                      /\ reversible(Request[r].kind, Request[o].kind)
                      /\ sameRound(r, o) /\ Request[r].amount = Request[o].amount
                      /\ ~ref.reversed
           fits == applyDirection(balance, direction, Request[r].amount) \in 0..MaxBalance
<1> USE DEF DecidedInv, OwnedInv, SafeInv
<1>0. /\ r \in Requests /\ job[p] \in Jobs /\ pc[p] \in SettlingLabels
      /\ balance \in 0..MaxBalance /\ d.outcome \in {"process", "reject", "wait"}
      /\ DecisionStands(p)
  BY HeldOperation DEF HeldLabels, SettlingLabels, Jobs, Decisions, DecisionsStand
<1>1. ref \in References /\ expired \in BOOLEAN
  BY <1>0, OneReference DEF deadlineReached
<1>2. again = Decide(balance, r, ref, expired)
  BY DEF Locks, ReadUnderLockIsCurrent, UnderWalletLock
<1>3. /\ \A x \in Requests : Names(r, x) /\ Terminal(txs[x].status) =>
           o # NoTx /\ x = o /\ ref.status = txs[o].status
      /\ ~open => /\ o \in Requests /\ Names(r, o)
                  /\ Terminal(ref.status) /\ ref.status = txs[o].status
      /\ \A x \in Requests : MayReverse(r, x) => x = o /\ allowed
      /\ allowed => o \in Requests /\ MayReverse(r, o)
  BY <1>0, AllowedIsRight
<1>4. fits <=> CanHold(p, direction)
  BY DEF CanHold
<1>5. CASE ~OwnWallet(r)
  <2>1. d.outcome = "reject"
    BY <1>0, <1>5 DEF DecisionStands, ProcessStands, WaitStands
  <2>2. again = reject("WALLET_PLAYER_MISMATCH") \/ again = reject("CURRENCY_MISMATCH")
    BY <1>2, <1>5 DEF Decide, OwnWallet
  <2> QED
    BY <2>1, <2>2 DEF reject
<1>6. CASE OwnWallet(r)
  <2>1. again = decideReversal(balance, r, ref, expired)
    BY <1>2, <1>6 DEF Decide, OwnWallet, Reversal
  <2>2. \/ open /\ ~expired /\ again = waitReference
        \/ open /\ expired /\ again \in {reject("REFERENCE_NOT_FOUND"), reject("REFERENCE_NOT_PROCESSED")}
        \/ /\ ~open /\ ~allowed
           /\ again \in {reject("REFERENCE_NOT_PROCESSED"), reject("REFERENCE_KIND_NOT_ALLOWED"),
                         reject("REFERENCE_MISMATCH"), reject("ALREADY_REVERSED")}
        \/ /\ allowed /\ ~fits
           /\ again \in {reject("REVERSAL_INSUFFICIENT_FUNDS"), reject("BALANCE_LIMIT_EXCEEDED")}
        \/ allowed /\ fits /\ again = process(direction, o)
    BY <1>0, <1>1, <2>1, DecideReversalForm
  <2>3. \/ open /\ ~expired /\ again.outcome = "wait"
        \/ ~(allowed /\ fits) /\ again.outcome = "reject" /\ (open => expired)
        \/ allowed /\ fits /\ again.outcome = "process"
    <3> HIDE DEF open, allowed, fits, direction, expired
    <3>1. allowed => ~open
      BY DEF allowed
    <3> QED
      BY <2>2, <3>1 DEF reject, process, waitReference
  <2>4. CASE d.outcome = "wait"
    <3>1. ~allowed
      BY <1>0, <1>3, <2>4 DEF DecisionStands, WaitStands, MayReverse, sameRound, SameWallet
    <3> QED
      BY <2>3, <2>4, <3>1
  <2>5. CASE d.outcome = "process"
    <3>1. ProcessStands(p)
      BY <1>0, <2>5 DEF DecisionStands
    <3>2. d.ref = o /\ allowed /\ d.direction = direction
      BY <1>3, <3>1 DEF ProcessStands
    <3>3. fits
      <4>1. direction # "NONE"
        BY DEF reversalDirection
      <4>2. MovedBalance(p) \in 0..MaxBalance
        BY <2>5, <3>2, <4>1 DEF Moves, Shape, JobsFit, JobFits
      <4> QED
        BY <3>2, <4>2 DEF MovedBalance
    <3>4. ~open
      BY <3>2
    <3> QED
      BY <2>3, <2>5, <3>2, <3>3, <3>4
  <2>6. CASE d.outcome = "reject"
    <3>1. RejectStands(p)
      BY <1>0, <2>6 DEF DecisionStands
    <3>2. /\ \A x \in Requests : MayReverse(r, x) =>
               ~CanHold(p, reversalDirection(Request[r].kind, Request[x].kind))
          /\ expired \/ \E x \in Requests : Names(r, x) /\ Terminal(txs[x].status)
      BY <1>6, <3>1 DEF RejectStands, Reversal
    <3>3. ~(allowed /\ fits)
      BY <1>3, <1>4, <3>2
    <3>4. ~(open /\ ~expired)
      BY <1>3, <3>2 DEF Terminal
    <3> QED
      BY <2>3, <2>6, <3>3, <3>4
  <2> QED
    BY <1>0, <2>4, <2>5, <2>6
<1> QED
  BY <1>5, <1>6

(* No decision about a reversal is overtaken before it commits.            *)
THEOREM DecisionsNeverOvertaken == Spec => []DecisionStillStands
<1>1. DecidedInv => DecisionStillStands
  BY DecidedAgain DEF DecisionStillStands
<1> QED
  BY <1>1, DecidedAlways, PTL


-----------------------------------------------------------------------------
(* Events.                                                                 *)

(* An operation announces something only when its settlement commits.      *)
LEMMA OutboxForms ==
    ASSUME Shape, [Next]_vars, NEW r \in Requests
    PROVE  \/ \E p \in Processes : /\ CommitSettlement(p) /\ r = job[p].op
                                   /\ outbox'[r] = outbox[r] \o SettlementEvents(p)
           \/ /\ outbox'[r] = outbox[r]
              /\ ~\E p \in Processes : CommitSettlement(p) /\ r = job[p].op
<1>0. outbox \in [Operations -> Seq(EventTypes)] /\ r \in Operations /\ r \notin Wallets
  BY ConstantsAssumption DEF Shape, TypeOK, Operations
<1>1. ASSUME NEW p \in Processes, CommitSettlement(p)
      PROVE  outbox'[r] = IF r = job[p].op THEN outbox[r] \o SettlementEvents(p) ELSE outbox[r]
  BY <1>0, <1>1 DEF CommitSettlement
<1>2. ASSUME NEW h \in Handlers, CommitOpening(h) PROVE outbox'[r] = outbox[r]
  <2>1. job[h].op \in Wallets
    BY <1>2 DEF CommitOpening, Shape, JobsFit, JobFits, Processes
  <2> QED
    BY <1>0, <1>2, <2>1 DEF CommitOpening
<1>3. UNCHANGED outbox \/ \E p \in Processes : CommitSettlement(p) \/ (p \in Handlers /\ CommitOpening(p))
  BY TablesForm DEF db, Processes, CommitReplay, CommitRequest, CommitRetry, CommitGiveUp
<1>4. CASE \E p \in Processes : CommitSettlement(p) /\ r = job[p].op
  BY <1>1, <1>4
<1>5. CASE ~\E p \in Processes : CommitSettlement(p) /\ r = job[p].op
  BY <1>1, <1>2, <1>3, <1>5
<1> QED
  BY <1>4, <1>5

(* A process moves money exactly when it processes something but a loss.   *)
LEMMA MovesForm ==
    ASSUME NEW p \in Processes, job[p].op \in Requests, ProcessStands(p),
           job[p].decision.outcome = "process"
    PROVE  Moves(p) <=> Request[job[p].op].kind # "LOSS"
<1>1. Request[job[p].op].kind \in Kinds
  BY RequestAssumption DEF ValidRequest
<1>2. \A a, b : reversalDirection(a, b) # "NONE"
  BY DEF reversalDirection
<1> QED
  BY <1>1, <1>2 DEF Moves, ProcessStands, Kinds, Reversal

(* Of the events of a parked operation, the parking comes first.           *)
LEMMA ParkedEvents ==
    ASSUME NEW s \in Seq(EventTypes), s # << >>, s[1] = "PendingReference", Tail(s) = << >>
    PROVE  s = <<"PendingReference">>
<1>1. Len(s) \in Nat /\ Len(s) # 0 /\ Len(Tail(s)) = Len(s) - 1
  OBVIOUS
<1>2. Len(s) = 1
  <2>1. Len(Tail(s)) = 0
    BY EmptySeq, Zenon
  <2> QED
    BY <1>1, <2>1
<1> QED
  BY <1>2

(* The story of an operation, parked before or not.                        *)
LEMMA Story ==
    ASSUME NEW s \in {<< >>, <<"PendingReference">>}, NEW events \in Seq(EventTypes),
           events # << >>, events[1] # "PendingReference"
    PROVE  LET t == s \o events IN
           (IF t # << >> /\ t[1] = "PendingReference" THEN Tail(t) ELSE t) = events
<1>1. << >> \o events = events
  BY ConcatEmptySeq
<1>2. LET t == <<"PendingReference">> \o events
      IN  t # << >> /\ t[1] = "PendingReference" /\ Tail(t) = events
  BY DEF EventTypes
<1> QED
  BY <1>1, <1>2

(* The events of an operation that is settled continue its story.          *)
LEMMA EventsStep ==
    ASSUME RowsInv, EventsTellTheOutcome, [Next]_vars
    PROVE  EventsTellTheOutcome'
<1> DEFINE Told(r, status, s) ==
             LET parked == s # << >> /\ s[1] = "PendingReference"
                 story == IF parked THEN Tail(s) ELSE s
             IN  CASE status = "ABSENT" -> s = << >>
                   [] status = "PENDING_REFERENCE" -> parked /\ story = << >>
                   [] status = "FAILED" -> parked /\ story = << >>
                   [] status = "REJECTED" -> story = <<"Rejected">>
                   [] status = "PROCESSED" ->
                        story = IF Request[r].kind = "LOSS" THEN <<"Processed">>
                                ELSE <<"Processed", "BalanceChanged">>
                   [] OTHER -> FALSE
<1> USE DEF RowsInv, DecidedInv, OwnedInv, SafeInv
<1>1. \A r \in Requests : Told(r, txs[r].status, outbox[r])
  BY DEF EventsTellTheOutcome
<1>2. SUFFICES ASSUME NEW r \in Requests PROVE Told(r, txs'[r].status, outbox'[r])
  BY DEF EventsTellTheOutcome
<1>3. txs[r] \in Rows /\ outbox[r] \in Seq(EventTypes)
  BY DEF Shape, TypeOK, Operations
<1>4. CASE txs'[r].status = txs[r].status /\ outbox'[r] = outbox[r]
  BY <1>1, <1>4
<1>5. CASE txs[r].status = "PENDING_REFERENCE" /\ txs'[r].status = "FAILED" /\ outbox'[r] = outbox[r]
  BY <1>1, <1>5
<1>6. ASSUME NEW p \in Processes, CommitSettlement(p), r = job[p].op,
             txs'[r] = SettledRow(p), outbox'[r] = outbox[r] \o SettlementEvents(p)
      PROVE  Told(r, txs'[r].status, outbox'[r])
  <2> DEFINE row == SettledRow(p)
             d == job[p].decision
             done == IF Request[r].kind = "LOSS" THEN <<"Processed">>
                     ELSE <<"Processed", "BalanceChanged">>
  <2>0. pc[p] = "commit" /\ r \in Requests
    BY <1>6, CommitForm
  <2>1. \/ d.outcome = "process" /\ ProcessStands(p) /\ row.status = "PROCESSED"
        \/ d.outcome = "reject" /\ row.status = "REJECTED"
        \/ d.outcome = "wait" /\ row.status = "PENDING_REFERENCE"
    BY <2>0, SettledRowForm
  <2> HIDE DEF row
  <2>2. txs'[r].status = row.status
    BY <1>6 DEF row
  <2>3. \/ p \in Handlers /\ outbox[r] = << >>
        \/ p \in Workers /\ p \notin Handlers /\ outbox[r] = <<"PendingReference">>
    <3>1. CASE p \in Handlers
      <4>1. txs[r].status = "ABSENT"
        BY <1>6, <2>0, <3>1, SeenIsStored DEF SettlingLabels, Stored
      <4> QED
        BY <1>1, <3>1, <4>1
    <3>2. CASE p \in Workers
      <4>1. txs[r].status = "PENDING_REFERENCE"
        BY <1>6, <2>0, <3>2 DEF Ownership, ClaimedRowsWait, SettlingLabels
      <4>2. outbox[r] # << >> /\ outbox[r][1] = "PendingReference" /\ Tail(outbox[r]) = << >>
        BY <1>1, <4>1
      <4> QED
        BY <1>3, <3>2, <4>2, ParkedEvents, ProcessAssumption
    <3> QED
      BY <3>1, <3>2 DEF Processes
  <2>4. CASE d.outcome = "process"
    <3>1. SettlementEvents(p) = done
      BY <1>6, <2>0, <2>1, <2>4, MovesForm DEF SettlementEvents
    <3>2. /\ done \in Seq(EventTypes) /\ done # << >>
          /\ done[1] # "PendingReference"
      BY DEF EventTypes
    <3>3. \A s \in {<< >>, <<"PendingReference">>} : Told(r, "PROCESSED", s \o done)
      BY <3>2, Story
    <3> HIDE DEF Told, done
    <3> QED
      BY <1>6, <2>1, <2>2, <2>3, <2>4, <3>1, <3>3
  <2>5. CASE d.outcome = "reject"
    <3>1. SettlementEvents(p) = <<"Rejected">>
      BY <2>5 DEF SettlementEvents
    <3> DEFINE refused == <<"Rejected">>
    <3>2. \A s \in {<< >>, <<"PendingReference">>} : Told(r, "REJECTED", s \o refused)
      <4>1. refused \in Seq(EventTypes) /\ refused # << >> /\ refused[1] # "PendingReference"
        BY DEF EventTypes
      <4>2. refused = <<"Rejected">>
        OBVIOUS
      <4> HIDE DEF refused
      <4> QED
        BY <4>1, <4>2, Story
    <3> HIDE DEF Told
    <3> QED
      BY <1>6, <2>1, <2>2, <2>3, <2>5, <3>1, <3>2
  <2>6. CASE d.outcome = "wait"
    <3>1. SettlementEvents(p) = IF p \in Handlers THEN <<"PendingReference">> ELSE << >>
      BY <2>6 DEF SettlementEvents, Moves
    <3>2. /\ << >> \o <<"PendingReference">> = <<"PendingReference">>
          /\ <<"PendingReference">> \o << >> = <<"PendingReference">>
          /\ <<"PendingReference">> \in Seq(EventTypes)
      BY ConcatEmptySeq DEF EventTypes
    <3>3. Told(r, "PENDING_REFERENCE", <<"PendingReference">>)
      OBVIOUS
    <3> HIDE DEF Told
    <3> QED
      BY <1>6, <2>1, <2>2, <2>3, <2>6, <3>1, <3>2, <3>3
  <2> QED
    BY <2>1, <2>4, <2>5, <2>6
<1>7. ASSUME outbox'[r] = outbox[r], ~\E p \in Processes : CommitSettlement(p) /\ r = job[p].op
      PROVE  Told(r, txs'[r].status, outbox'[r])
  <2>1. \A t \in Nat \ {0} : [txs[r] EXCEPT !.nextAt = t].status = txs[r].status
    BY <1>3 DEF Rows
  <2>2. FailedRow(r).status = "FAILED"
    BY <1>3 DEF FailedRow, Rows
  <2>3. \/ txs'[r].status = txs[r].status
        \/ txs[r].status = "PENDING_REFERENCE" /\ txs'[r].status = "FAILED"
    BY <1>7, <2>1, <2>2, RowForms
  <2> QED
    BY <1>4, <1>5, <1>7, <2>3
<1> HIDE DEF Told
<1>8. \A p \in Processes : CommitSettlement(p) /\ r = job[p].op => txs'[r] = SettledRow(p)
  BY CommitForm
<1> QED
  BY <1>6, <1>7, <1>8, OutboxForms

(* The events of every operation tell its outcome, once.                   *)
THEOREM EventsAlwaysTellTheOutcome == Spec => []EventsTellTheOutcome
<1>1. Init => EventsTellTheOutcome
  <2> SUFFICES ASSUME Init, NEW r \in Requests
               PROVE  txs[r].status = "ABSENT" /\ outbox[r] = << >>
    BY DEF EventsTellTheOutcome
  <2> QED
    BY DEF Init, absentRow, Operations
<1>2. RowsInv /\ EventsTellTheOutcome /\ [Next]_vars => EventsTellTheOutcome'
  BY EventsStep
<1> QED
  BY <1>1, <1>2, RowsAlways, PTL DEF Spec

=============================================================================
