-------------------------- MODULE SettlementProofs --------------------------
(***************************************************************************)
(* Theorems about the settlement of provider operations, for every set of  *)
(* operations, wallets and processes and every bound.                      *)
(***************************************************************************)
EXTENDS SettlementProperties, TLAPS

-----------------------------------------------------------------------------
(* The decision.                                                           *)

(* What Decide returns is one of the decisions settle knows how to write.  *)
LEMMA DecideType ==
    ASSUME NEW balance \in 0..MaxBalance, NEW r \in Requests,
           NEW reference \in References, NEW expired \in BOOLEAN
    PROVE  Decide(balance, r, reference, expired) \in Decisions
<1> USE RequestAssumption, ConstantsAssumption
    DEF ValidRequest, Decisions, Directions, FailureCodes, NoCode, process, reject,
        waitReference, References, Statuses
<1>1. decideBet(balance, r) \in Decisions
  BY DEF decideBet
<1>2. decideWin(balance, r, reference) \in Decisions
  BY DEF decideWin
<1>3. decideReversal(balance, r, reference, expired) \in Decisions
  <2>1. reversalDirection(Request[r].kind, Request[reference.id].kind) \in Directions
    BY DEF reversalDirection
  <2> QED
    BY <2>1 DEF decideReversal
<1>4. process("NONE", NoTx) \in Decisions
  OBVIOUS
<1>5. \A code \in FailureCodes : reject(code) \in Decisions
  OBVIOUS
<1> QED
  BY <1>1, <1>2, <1>3, <1>4, <1>5 DEF Decide, Kinds, Reversal

(* A movement that Decide accepts leaves a balance between zero and the    *)
(* largest one: a debit is covered and a credit does not overflow.         *)
LEMMA DecideFits ==
    ASSUME NEW balance \in 0..MaxBalance, NEW r \in Requests,
           NEW reference \in References, NEW expired \in BOOLEAN,
           NEW d, d = Decide(balance, r, reference, expired),
           d.outcome = "process", d.direction # "NONE"
    PROVE  applyDirection(balance, d.direction, Request[r].amount) \in 0..MaxBalance
<1> USE RequestAssumption, ConstantsAssumption
    DEF ValidRequest, process, reject, waitReference, applyDirection, overflows
<1>0. Request[r].amount \in 0..MaxBalance /\ MaxBalance \in Nat
  OBVIOUS
<1>1. CASE d = decideBet(balance, r)
  BY <1>0, <1>1 DEF decideBet
<1>2. CASE d = decideWin(balance, r, reference)
  BY <1>0, <1>2 DEF decideWin
<1>3. CASE d = decideReversal(balance, r, reference, expired)
  <2>1. reversalDirection(Request[r].kind, Request[reference.id].kind) \in {"DEBIT", "CREDIT"}
    BY DEF reversalDirection
  <2> QED
    BY <1>0, <1>3, <2>1 DEF decideReversal
<1> QED
  BY <1>1, <1>2, <1>3 DEF Decide, Kinds, Reversal

-----------------------------------------------------------------------------
(* Types.                                                                  *)

Shape == TypeOK /\ JobsFit /\ RowsFit

(* What resolveReference hands to Decide.                                  *)
LEMMA ReferenceType ==
    ASSUME TypeOK, NEW p \in Processes, job[p].op \in Requests
    PROVE  resolveReference(p) \in References
<1> DEFINE r == job[p].op
           found == {o \in Requests : /\ Request[r].refExt # NoExt
                                      /\ Request[o].ext = Request[r].refExt
                                      /\ Request[o].provider = Request[r].provider
                                      /\ StatusSeen(p, o) # "ABSENT"}
           o == CHOOSE x \in found : TRUE
<1>1. CASE found = {}
  BY <1>1 DEF resolveReference, noReference, References, Statuses
<1>2. CASE found # {}
  <2>1. o \in found
    BY <1>2
  <2>2. StatusSeen(p, o) \in Statuses
    BY <2>1 DEF StatusSeen, TypeOK, Rows, Statuses
  <2>3. (Reversal(Request[r].kind) /\ HasSuccessfulReversal(o)) \in BOOLEAN
    BY DEF Reversal, HasSuccessfulReversal
  <2> QED
    BY <1>2, <2>1, <2>2, <2>3 DEF resolveReference, References
<1> QED
  BY <1>1, <1>2

(* The initial state is well typed.                                        *)
LEMMA ShapeInit == Init => Shape
<1> SUFFICES ASSUME Init PROVE Shape
  OBVIOUS
<1> USE ConstantsAssumption, TimeAssumption, ProcessAssumption DEF Init
<1>1. TypeOK
  <2>1. noJob \in Jobs
    BY DEF noJob, nothingSeen, Jobs, waitReference, Decisions, Directions, Statuses, NoCode
  <2>2. absentRow \in Rows
    BY DEF absentRow, Rows, Statuses, NoBalance
  <2>3. noInboxRow \in InboxRows
    BY DEF noInboxRow, InboxRows, Outcomes
  <2> QED
    BY <2>1, <2>2, <2>3 DEF TypeOK, WalletRows, PCs
<1>2. JobsFit
  BY DEF JobsFit, JobFits, RequestPCs
<1>3. RowsFit
  BY DEF RowsFit, absentRow
<1> QED
  BY <1>1, <1>2, <1>3 DEF Shape

(* A step of p does not disturb what the others remember, as long as no    *)
(* stored operation disappears.                                            *)
LEMMA JobsFitFrame ==
    ASSUME JobsFit, NEW p \in Processes, JobFits(p)',
           \A q \in Processes \ {p} : pc'[q] = pc[q] /\ job'[q] = job[q],
           \A r \in Requests : Stored(r) => Stored(r)'
    PROVE  JobsFit'
<1> SUFFICES ASSUME NEW q \in Processes, q # p PROVE JobFits(q)'
  BY DEF JobsFit
<1> QED
  BY DEF JobsFit, JobFits, RequestPCs, Moves, MovedBalance, Stored, applyDirection

(* The job of a process that is not in a transaction.                      *)
LEMMA NoJobType == noJob \in Jobs
BY ConstantsAssumption
   DEF noJob, nothingSeen, Jobs, waitReference, Decisions, Directions, Statuses, NoCode,
       Operations

(* A step of p that leaves the tables alone keeps the shape if what p will *)
(* remember has its type and fits its next statement.                      *)
LEMMA ShapePrivate ==
    ASSUME Shape, NEW p \in Processes, NEW label \in PCs, NEW j \in Jobs,
           UNCHANGED <<clock, db>>,
           pc' = [pc EXCEPT ![p] = label], job' = [job EXCEPT ![p] = j],
           told' \in [Requests -> SUBSET Answers],
           arrivals' \in 0..MaxArrivals, faults' \in 0..MaxFaults,
           JobFits(p)'
    PROVE  Shape'
<1>1. TypeOK'
  BY DEF Shape, TypeOK, db
<1>2. JobsFit'
  BY JobsFitFrame DEF Shape, TypeOK, Stored, db
<1>3. RowsFit'
  BY DEF Shape, RowsFit, Stored, db
<1> QED
  BY <1>1, <1>2, <1>3 DEF Shape

(* The end of a transaction that changed nothing.                          *)
LEMMA ShapeFinish ==
    ASSUME Shape, NEW p \in Processes, Finish(p), UNCHANGED <<clock, db>>,
           told' \in [Requests -> SUBSET Answers],
           arrivals' \in 0..MaxArrivals, faults' \in 0..MaxFaults
    PROVE  Shape'
<1>1. JobFits(p)'
  BY DEF Finish, Goto, Shape, TypeOK, JobFits, RequestPCs
<1> QED
  BY <1>1, ShapePrivate, NoJobType DEF Finish, Goto, PCs

(* An answer without a change.                                             *)
LEMMA ShapeRefuse ==
    ASSUME Shape, NEW p \in Processes, NEW answer \in Answers,
           job[p].op \in Requests, Refuse(p, answer)
    PROVE  Shape'
<1>1. told' \in [Requests -> SUBSET Answers]
  BY DEF Shape, TypeOK, Refuse, Answer
<1> QED
  BY <1>1, ShapeFinish DEF Shape, TypeOK, Refuse

(* A statement that only moves on.                                         *)
LEMMA ShapeProceed ==
    ASSUME Shape, NEW p \in Processes, NEW label \in PCs, NEW j \in Jobs,
           job' = [job EXCEPT ![p] = j], Proceed(p, label), JobFits(p)'
    PROVE  Shape'
BY ShapePrivate DEF Shape, TypeOK, Proceed, Goto

(* Instants are natural numbers.                                           *)
LEMMA ClockNat == TypeOK => clock \in Nat
BY TimeAssumption DEF TypeOK

(* Arrivals.                                                               *)
LEMMA ShapeArrival ==
    ASSUME Shape, NEW h \in Handlers, Arrival(h)
    PROVE  Shape'
<1>0. /\ h \in Processes /\ clock \in Nat
      /\ arrivals < MaxArrivals /\ arrivals' = arrivals + 1 => arrivals' \in 0..MaxArrivals
  BY ClockNat, TimeAssumption DEF Processes, Shape, TypeOK
<1>1. ASSUME NEW d \in Deliveries, Begin(h, d) PROVE Shape'
  <2> DEFINE j == [noJob EXCEPT !.op = d.request, !.message = d.message, !.body = d.body,
                                !.now = clock]
             label == FirstStatement(d.message)
  <2>0. /\ d.request \in Requests /\ d.message \in Messages \cup {NoMessage}
        /\ d.body \in Bodies
    BY ProcessAssumption
  <2>1. j \in Jobs
    BY <1>0, <2>0, NoJobType DEF Jobs, Operations
  <2>2. JobFits(h)'
    BY <1>0, <1>1, <2>0
       DEF Begin, FirstStatement, Arrive, Goto, JobFits, RequestPCs, Shape, TypeOK, noJob
  <2>3. /\ job' = [job EXCEPT ![h] = j] /\ pc' = [pc EXCEPT ![h] = label]
        /\ UNCHANGED <<clock, db, told, faults>> /\ arrivals' \in 0..MaxArrivals
    BY <1>0, <1>1 DEF Begin, Arrive, Goto
  <2>4. label \in PCs
    BY DEF FirstStatement, PCs
  <2> HIDE DEF j, label
  <2> QED
    BY <1>0, <2>1, <2>2, <2>3, <2>4, ShapePrivate DEF Shape, TypeOK
<1>2. ASSUME NEW w \in Wallets, NEW b \in OpeningBalances, BeginOpening(h, w, b) PROVE Shape'
  <2> DEFINE j == [noJob EXCEPT !.op = w, !.now = clock, !.balance = b]
  <2>0. b \in 0..MaxBalance
    BY ProcessAssumption
  <2>1. j \in Jobs
    BY <1>0, <2>0, NoJobType DEF Jobs, Operations
  <2>2. JobFits(h)'
    BY <1>0, <1>2 DEF BeginOpening, Arrive, Goto, JobFits, RequestPCs, Shape, TypeOK, noJob
  <2>3. /\ job' = [job EXCEPT ![h] = j] /\ pc' = [pc EXCEPT ![h] = "create"]
        /\ UNCHANGED <<clock, db, told, faults>> /\ arrivals' \in 0..MaxArrivals
    BY <1>0, <1>2 DEF BeginOpening, Arrive, Goto
  <2> HIDE DEF j
  <2> QED
    BY <1>0, <2>1, <2>2, <2>3, ShapePrivate DEF Shape, TypeOK, PCs
<1> QED
  BY <1>1, <1>2 DEF Arrival

(* The outcome of a stored operation can be answered.                      *)
LEMMA StoredAnswer ==
    ASSUME Shape, NEW r \in Requests, Stored(r)
    PROVE  txs[r].status \in Answers /\ txs[r].status \notin {"ABSENT", "PENDING"}
BY DEF Shape, RowsFit, TypeOK, Rows, Statuses, Answers, Stored

(* The statements of a handler before it has the wallet lock.              *)
LEMMA ShapeAdmission ==
    ASSUME Shape, NEW h \in Handlers, RegisterInbox(h) \/ Insert(h) \/ Replay(h)
    PROVE  Shape'
<1>0. /\ h \in Processes /\ job[h] \in Jobs
      /\ pc[h] \in {"inbox", "insert", "replay"} => job[h].op \in Requests
      /\ pc[h] = "inbox" => job[h].message \in Messages
      /\ UNCHANGED job => job' = [job EXCEPT ![h] = job[h]]
  BY DEF Processes, Shape, TypeOK, JobsFit, JobFits, RequestPCs
<1>1. ASSUME UNCHANGED job, job[h].op \in Requests, NEW label \in {"insert", "lock", "replay"},
             Proceed(h, label)
      PROVE  Shape'
  <2>1. JobFits(h)'
    BY <1>0, <1>1 DEF JobFits, RequestPCs, Proceed, Goto, Shape, TypeOK
  <2> QED
    BY <1>0, <1>1, <2>1, ShapeProceed DEF PCs
<1>2. CASE RegisterInbox(h)
  <2>1. \A m \in Messages : inbox[m] # noInboxRow => txs[inbox[m].tx].status \in Answers
    BY StoredAnswer DEF Shape, RowsFit
  <2> QED
    BY <1>0, <1>1, <1>2, <2>1, ShapeRefuse DEF RegisterInbox, Answers
<1>3. CASE Insert(h)
  BY <1>0, <1>1, <1>3, ShapeRefuse DEF Insert, Answers
<1>4. CASE Replay(h)
  <2>1. ASSUME NEW o \in Requests, Stored(o), job[h].message # NoMessage,
               job' = [job EXCEPT ![h].op = o, ![h].answer = txs[o].status],
               Proceed(h, "commitReplay")
        PROVE  Shape'
    <3> DEFINE j == [job[h] EXCEPT !.op = o, !.answer = txs[o].status]
    <3>1. j \in Jobs /\ job' = [job EXCEPT ![h] = j]
      BY <1>0, <2>1 DEF Jobs, Operations, Shape, TypeOK, Rows
    <3>2. JobFits(h)'
      BY <1>0, <2>1, StoredAnswer
         DEF JobFits, RequestPCs, Proceed, Goto, Shape, TypeOK, Jobs, Stored, db
    <3> HIDE DEF j
    <3> QED
      BY <1>0, <2>1, <3>1, <3>2, ShapeProceed DEF PCs
  <2> QED
    BY <1>0, <1>4, <2>1, ShapeRefuse, StoredAnswer DEF Replay, Answers
<1> QED
  BY <1>2, <1>3, <1>4

(* The statements under the wallet lock, before the commit.                *)
LEMMA ShapeUnderLock ==
    ASSUME Shape, NEW p \in Processes, LockWallet(p) \/ Settle(p) \/ WakeUp(p)
    PROVE  Shape'
<1>0. /\ job[p] \in Jobs /\ job[p].op \in Requests /\ walletOf(p) \in Wallets
      /\ pc[p] = "wake" /\ Moves(p) => MovedBalance(p) \in 0..MaxBalance
  BY RequestAssumption
     DEF LockWallet, Settle, WakeUp, Shape, TypeOK, JobsFit, JobFits, RequestPCs,
         walletOf, ValidRequest
<1>1. CASE LockWallet(p)
  <2> DEFINE j == [job[p] EXCEPT !.balance = wallets[walletOf(p)].balance,
                                 !.version = wallets[walletOf(p)].version]
  <2>1. j \in Jobs /\ job' = [job EXCEPT ![p] = j]
    BY <1>0, <1>1 DEF LockWallet, Jobs, Shape, TypeOK, WalletRows
  <2>2. JobFits(p)'
    BY <1>0, <1>1 DEF LockWallet, JobFits, RequestPCs, Proceed, Goto, Shape, TypeOK
  <2> HIDE DEF j
  <2> QED
    BY <1>1, <2>1, <2>2, ShapeProceed DEF LockWallet, PCs
<1>2. CASE Settle(p)
  <2> DEFINE d == Decide(job[p].balance, job[p].op, resolveReference(p), deadlineReached(p))
             j == [job[p] EXCEPT !.decision = d]
             label == IF d.outcome = "wait" THEN "commit" ELSE "wake"
  <2>0. /\ job[p].balance \in 0..MaxBalance /\ resolveReference(p) \in References
        /\ deadlineReached(p) \in BOOLEAN
    BY <1>0, ReferenceType DEF Shape, Jobs, deadlineReached
  <2>1. d \in Decisions
    BY <1>0, <2>0, DecideType
  <2>2. d.outcome = "process" /\ d.direction # "NONE" =>
          applyDirection(job[p].balance, d.direction, Request[job[p].op].amount) \in 0..MaxBalance
    BY <1>0, <2>0, DecideFits
  <2>3. job' = [job EXCEPT ![p].decision = d] /\ Proceed(p, label)
    BY <1>2 DEF Settle
  <2> HIDE DEF d
  <2>4. j \in Jobs /\ job' = [job EXCEPT ![p] = j]
    BY <1>0, <2>1, <2>3 DEF Jobs, Shape, TypeOK
  <2>5. label \in {"commit", "wake"} /\ pc' = [pc EXCEPT ![p] = label]
    BY <2>3 DEF Proceed, Goto
  <2>6. JobFits(p)'
    BY <1>0, <2>2, <2>4, <2>5
       DEF JobFits, RequestPCs, Shape, TypeOK, Jobs, Moves, MovedBalance
  <2> HIDE DEF j, label
  <2> QED
    <3>1. label \in PCs
      BY <2>5 DEF PCs
    <3> QED
      BY <2>3, <2>4, <2>6, <3>1, ShapeProceed
<1>3. CASE WakeUp(p)
  <2> DEFINE j == [job[p] EXCEPT !.woken = Waiting(p), !.missed = MetLocked(p)]
  <2>1. j \in Jobs /\ job' = [job EXCEPT ![p] = j]
    <3>1. Waiting(p) \subseteq Requests /\ MetLocked(p) \subseteq Requests
      BY DEF Waiting, MetLocked, Sleeping
    <3> QED
      BY <1>0, <1>3, <3>1 DEF WakeUp, Jobs, Shape, TypeOK
  <2>2. JobFits(p)'
    BY <1>0, <1>3
       DEF WakeUp, JobFits, RequestPCs, Proceed, Goto, Shape, TypeOK, Jobs, Moves, MovedBalance
  <2> HIDE DEF j
  <2> QED
    BY <1>3, <2>1, <2>2, ShapeProceed DEF WakeUp, PCs
<1> QED
  BY <1>1, <1>2, <1>3

(* The statements that create a wallet, claim a row or give it up, before  *)
(* their commits.                                                          *)
LEMMA ShapeOther ==
    ASSUME Shape, NEW p \in Processes,
           \/ CreateWallet(p) \/ BeginAttempt(p) \/ ScanPending(p)
           \/ ClaimDuePending(p) \/ GiveUp(p)
    PROVE  Shape'
<1>0. /\ job[p] \in Jobs
      /\ UNCHANGED job => job' = [job EXCEPT ![p] = job[p]]
      /\ UNCHANGED <<told, arrivals, faults>> =>
           /\ told' \in [Requests -> SUBSET Answers]
           /\ arrivals' \in 0..MaxArrivals /\ faults' \in 0..MaxFaults
  BY DEF Shape, TypeOK
<1>1. CASE CreateWallet(p)
  <2>1. CASE Proceed(p, "commitOpening") /\ UNCHANGED job
    <3>1. JobFits(p)'
      BY <1>1, <2>1 DEF CreateWallet, JobsFit, JobFits, RequestPCs, Proceed, Goto, Shape, TypeOK
    <3> QED
      BY <1>0, <2>1, <3>1, ShapeProceed DEF PCs
  <2> QED
    BY <1>0, <1>1, <2>1, ShapeFinish DEF CreateWallet
<1>2. CASE BeginAttempt(p)
  <2> DEFINE j == [job[p] EXCEPT !.now = clock]
  <2>1. j \in Jobs /\ job' = [job EXCEPT ![p] = j]
    BY <1>0, <1>2, ClockNat DEF BeginAttempt, Jobs, Shape, TypeOK
  <2>2. JobFits(p)'
    BY <1>2 DEF BeginAttempt, JobFits, RequestPCs, Proceed, Goto, Shape, TypeOK
  <2> HIDE DEF j
  <2> QED
    BY <1>2, <2>1, <2>2, ShapeProceed DEF BeginAttempt, PCs
<1>3. CASE ClaimDuePending(p)
  <2>1. ASSUME NEW r \in Requests, NEW kept \in SUBSET Requests,
               job' = [job EXCEPT ![p].op = r, ![p].kept = kept, ![p].seen = nothingSeen],
               Proceed(p, "lock")
        PROVE  Shape'
    <3> DEFINE j == [job[p] EXCEPT !.op = r, !.kept = kept, !.seen = nothingSeen]
    <3>1. j \in Jobs /\ job' = [job EXCEPT ![p] = j]
      BY <1>0, <2>1 DEF Jobs, Operations, nothingSeen, Shape, TypeOK
    <3>2. JobFits(p)'
      BY <1>0, <2>1 DEF JobFits, RequestPCs, Proceed, Goto, Shape, TypeOK, Jobs
    <3> HIDE DEF j
    <3> QED
      BY <2>1, <3>1, <3>2, ShapeProceed DEF PCs
  <2>2. StillDue(p) \subseteq Requests /\ NotDueAnyMore(p) \subseteq Requests
    BY DEF StillDue, NotDueAnyMore, FreeRows
  <2> QED
    BY <1>0, <1>3, <2>1, <2>2, ShapeFinish DEF ClaimDuePending
<1>4. CASE GiveUp(p)
  <2>1. CASE Proceed(p, "commitGiveUp") /\ UNCHANGED job
    <3>1. JobFits(p)'
      BY <1>4, <2>1 DEF GiveUp, JobsFit, JobFits, RequestPCs, Proceed, Goto, Shape, TypeOK
    <3> QED
      BY <1>0, <2>1, <3>1, ShapeProceed DEF PCs
  <2> QED
    BY <1>0, <1>4, <2>1, ShapeFinish DEF GiveUp
<1>5. CASE ScanPending(p)
  <2>1. CASE Due(p) # {}
    <3> DEFINE seen == [r \in Requests |-> IF r \in Due(p) THEN txs[r].nextAt ELSE 0]
               j == [job[p] EXCEPT !.seen = seen]
    <3>1. seen \in [Requests -> Nat]
      BY DEF Shape, TypeOK, Rows
    <3>2. job' = [job EXCEPT ![p].seen = seen] /\ Proceed(p, "claim")
      BY <1>5, <2>1 DEF ScanPending
    <3> HIDE DEF seen
    <3>3. j \in Jobs /\ job' = [job EXCEPT ![p] = j]
      BY <1>0, <3>1, <3>2 DEF Jobs, Shape, TypeOK
    <3>4. JobFits(p)'
      BY <3>2 DEF JobFits, RequestPCs, Proceed, Goto, Shape, TypeOK
    <3> HIDE DEF j
    <3> QED
      BY <3>2, <3>3, <3>4, ShapeProceed DEF PCs
  <2> QED
    BY <1>0, <1>5, <2>1, ShapeFinish DEF ScanPending
<1> QED
  BY <1>1, <1>2, <1>3, <1>4, <1>5

(* Who is part of a deadlock waits, and not for the creation of a wallet.  *)
LEMMA DeadlockedLabel ==
    ASSUME NEW p \in Processes, Deadlocked(p)
    PROVE  pc[p] \in {"inbox", "insert", "replay", "lock", "wake", "giveUp"}
<1>1. PICK x \in Waiters : WaitsFor(p, x)
  BY DEF Deadlocked
<1>2. pc[x] # "commitOpening"
  BY DEF Waiters, WaitsFor
<1> QED
  BY <1>1, <1>2 DEF WaitsFor

(* A function that runs again works on the same operation.                 *)
LEMMA ShapeRunAgain ==
    ASSUME Shape, NEW p \in Processes, RunAgain(p),
           p \in Handlers => job[p].op \in Requests,
           UNCHANGED <<clock, db, told, arrivals>>, faults' \in 0..MaxFaults
    PROVE  Shape'
<1>0. /\ job[p] \in Jobs /\ clock \in Nat
      /\ told' \in [Requests -> SUBSET Answers] /\ arrivals' \in 0..MaxArrivals
  BY ClockNat DEF Shape, TypeOK
<1>1. CASE p \in Workers
  <2> DEFINE j == [noJob EXCEPT !.now = job[p].now]
  <2>1. j \in Jobs
    BY <1>0, NoJobType DEF Jobs
  <2>2. job' = [job EXCEPT ![p] = j] /\ pc' = [pc EXCEPT ![p] = "scan"]
    BY <1>1, ProcessAssumption DEF RunAgain, Goto
  <2>3. JobFits(p)'
    BY <2>2 DEF JobFits, RequestPCs, Shape, TypeOK
  <2> HIDE DEF j
  <2> QED
    BY <1>0, <2>1, <2>2, <2>3, ShapePrivate DEF PCs
<1>2. CASE p \in Handlers
  <2> DEFINE j == [noJob EXCEPT !.op = job[p].op, !.message = job[p].message,
                                !.body = job[p].body, !.now = clock]
             label == FirstStatement(job[p].message)
  <2>1. j \in Jobs
    BY <1>0, NoJobType DEF Jobs
  <2>2. job' = [job EXCEPT ![p] = j] /\ pc' = [pc EXCEPT ![p] = label]
    BY <1>2, ProcessAssumption DEF RunAgain, Goto
  <2>3. JobFits(p)'
    BY <1>0, <1>2, <2>2
       DEF FirstStatement, JobFits, RequestPCs, Shape, TypeOK, Jobs, noJob
  <2>4. label \in PCs
    BY DEF FirstStatement, PCs
  <2> HIDE DEF j, label
  <2> QED
    BY <1>0, <2>1, <2>2, <2>3, <2>4, ShapePrivate
<1> QED
  BY <1>1, <1>2 DEF Processes

(* The victim of a deadlock.                                               *)
LEMMA ShapeDeadlock ==
    ASSUME Shape, NEW p \in Processes, DeadlockVictim(p)
    PROVE  Shape'
<1>1. job[p].op \in Requests
  BY DeadlockedLabel DEF DeadlockVictim, Shape, JobsFit, JobFits, RequestPCs
<1>2. /\ UNCHANGED <<clock, db, told, arrivals, faults>>
      /\ told' \in [Requests -> SUBSET Answers]
      /\ arrivals' \in 0..MaxArrivals /\ faults' \in 0..MaxFaults
  BY DEF DeadlockVictim, Shape, TypeOK
<1> QED
  BY <1>1, <1>2, ShapeRunAgain, ShapeFinish DEF DeadlockVictim

(* Failures.                                                               *)
LEMMA ShapeFailure ==
    ASSUME Shape, Failure
    PROVE  Shape'
<1>0. /\ faults < MaxFaults /\ faults' = faults + 1 => faults' \in 0..MaxFaults
      /\ UNCHANGED <<told, arrivals>> =>
           told' \in [Requests -> SUBSET Answers] /\ arrivals' \in 0..MaxArrivals
  BY TimeAssumption DEF Shape, TypeOK
<1>1. ASSUME NEW p \in Processes, Abort(p) PROVE Shape'
  BY <1>0, <1>1, ShapeFinish DEF Abort
<1>2. ASSUME NEW k \in Workers, RetryAttempt(k) PROVE Shape'
  BY <1>0, <1>2, ProcessAssumption, ShapeRunAgain DEF RetryAttempt, Processes
<1>3. ASSUME NEW k \in Workers, PermanentError(k) PROVE Shape'
  <2> DEFINE j == [noJob EXCEPT !.op = job[k].op]
  <2>0. k \in Processes /\ job[k].op \in Requests
    BY <1>3 DEF Processes, PermanentError, Shape, JobsFit, JobFits, RequestPCs
  <2>1. j \in Jobs /\ job' = [job EXCEPT ![k] = j] /\ j.op = job[k].op
    BY <1>3, <2>0, NoJobType DEF PermanentError, Jobs, Operations, Shape, TypeOK
  <2>2. JobFits(k)'
    BY <1>3, <2>0, <2>1 DEF PermanentError, JobFits, RequestPCs, Goto, Shape, TypeOK
  <2> HIDE DEF j
  <2> QED
    BY <1>0, <1>3, <2>0, <2>1, <2>2, ShapePrivate DEF PermanentError, Goto, PCs
<1> QED
  BY <1>1, <1>2, <1>3 DEF Failure

(* What a finished process remembers fits, whatever it committed.          *)
LEMMA FinishFits ==
    ASSUME Shape, NEW p \in Processes, Finish(p),
           \A r \in Requests : Stored(r) => Stored(r)'
    PROVE  /\ JobsFit'
           /\ pc' \in [Processes -> PCs] /\ job' \in [Processes -> Jobs]
<1>1. JobFits(p)'
  BY DEF Finish, Goto, Shape, TypeOK, JobFits, RequestPCs
<1>2. \A q \in Processes \ {p} : pc'[q] = pc[q] /\ job'[q] = job[q]
  BY DEF Finish, Goto, Shape, TypeOK
<1>3. JobsFit'
  BY <1>1, <1>2, JobsFitFrame DEF Shape
<1> QED
  BY <1>3, NoJobType DEF Finish, Goto, PCs, Shape, TypeOK

(* A report of a commit, heard or not.                                     *)
LEMMA ReportType ==
    ASSUME TypeOK, NEW r \in Requests, NEW answer \in Answers, NEW heard \in BOOLEAN,
           Report(r, answer, heard)
    PROVE  told' \in [Requests -> SUBSET Answers] /\ faults' \in 0..MaxFaults
BY TimeAssumption DEF TypeOK, Report, Answer

(* The commit of a replay.                                                 *)
LEMMA ShapeCommitReplay ==
    ASSUME Shape, NEW h \in Handlers, NEW heard \in BOOLEAN, CommitReplay(h, heard)
    PROVE  Shape'
<1>0. /\ h \in Processes /\ job[h] \in Jobs /\ job[h].op \in Requests
      /\ job[h].message \in Messages /\ Stored(job[h].op) /\ job[h].answer \in Answers
  BY DEF Processes, CommitReplay, Shape, TypeOK, JobsFit, JobFits, RequestPCs, Jobs,
         Statuses, Answers
<1>1. told' \in [Requests -> SUBSET Answers] /\ faults' \in 0..MaxFaults
  BY <1>0, ReportType DEF CommitReplay, Shape
<1>2. inbox' \in [Messages -> InboxRows]
  BY <1>0 DEF CommitReplay, Shape, TypeOK, InboxRows, Outcomes, Jobs
<1>3. /\ JobsFit' /\ pc' \in [Processes -> PCs] /\ job' \in [Processes -> Jobs]
  BY <1>0, FinishFits DEF CommitReplay, Stored
<1>4. TypeOK'
  BY <1>1, <1>2, <1>3 DEF CommitReplay, Shape, TypeOK
<1>5. RowsFit'
  BY <1>0 DEF CommitReplay, Shape, TypeOK, RowsFit, Stored
<1> QED
  BY <1>3, <1>4, <1>5 DEF Shape

(* Rows that WakeUpWaitingFor and MarkFailed change stay rows.             *)
LEMMA RescheduledType ==
    ASSUME NEW row \in Rows, NEW t \in Nat
    PROVE  [row EXCEPT !.nextAt = t] \in Rows /\ [row EXCEPT !.nextAt = t].status = row.status
BY DEF Rows

(* The row MarkFailed writes is a row.                                     *)
LEMMA FailedType ==
    ASSUME NEW row \in Rows
    PROVE  LET failed == [row EXCEPT !.status = "FAILED", !.code = "PERMANENT_FAILURE",
                                     !.nextAt = 0, !.deadline = 0]
           IN  failed \in Rows /\ failed.status = "FAILED"
BY DEF Rows, Statuses, FailureCodes

(* The row a settlement writes.                                            *)
LEMMA SettledRowType ==
    ASSUME Shape, NEW p \in Processes, pc[p] = "commit"
    PROVE  /\ SettledRow(p) \in Rows
           /\ SettledRow(p).status \in {"PROCESSED", "REJECTED", "PENDING_REFERENCE"} \/
              /\ SettledRow(p).status = txs[job[p].op].status
              /\ p \in Workers /\ job[p].decision.outcome = "wait"
<1>0. /\ job[p] \in Jobs /\ job[p].op \in Requests /\ txs[job[p].op] \in Rows
      /\ Moves(p) => MovedBalance(p) \in 0..MaxBalance
      /\ job[p].now \in Nat /\ job[p].balance \in 0..MaxBalance /\ job[p].decision \in Decisions
  BY DEF Shape, TypeOK, JobsFit, JobFits, RequestPCs, Jobs
<1>1. /\ TerminalRow(p) \in Rows
      /\ TerminalRow(p).status \in {"PROCESSED", "REJECTED"}
  BY <1>0 DEF TerminalRow, Rows, Decisions, Statuses
<1>2. ParkedRow(p) \in Rows /\ ParkedRow(p).status = "PENDING_REFERENCE"
  <2>1. BackoffBase \in Nat /\ ReferenceTTL \in Nat /\ 0 \in 0..AttemptsCap
    BY TimeAssumption
  <2>2. job[p].now + BackoffBase \in Nat /\ job[p].now + ReferenceTTL \in Nat
    BY <1>0, <2>1
  <2> QED
    BY <2>1, <2>2, ConstantsAssumption DEF ParkedRow, absentRow, Rows, Statuses, NoBalance
<1>3. RescheduledRow(p) \in Rows /\ RescheduledRow(p).status = txs[job[p].op].status
  <2>1. txs[job[p].op].attempts + 1 \in 0..AttemptsCap + 1
    BY <1>0, TimeAssumption DEF Rows
  <2>2. Backoff(txs[job[p].op].attempts + 1) \in Nat
    BY <2>1, TimeAssumption
  <2> DEFINE row == txs[job[p].op]
             n == IF row.attempts < AttemptsCap THEN row.attempts + 1 ELSE row.attempts
             t == job[p].now + Backoff(row.attempts + 1)
  <2>3. n \in 0..AttemptsCap /\ t \in Nat
    BY <1>0, <2>2, TimeAssumption DEF Rows
  <2>4. RescheduledRow(p) = [row EXCEPT !.attempts = n, !.nextAt = t]
    BY DEF RescheduledRow
  <2> HIDE DEF n, t
  <2> QED
    BY <1>0, <2>3, <2>4 DEF Rows
<1> QED
  BY <1>1, <1>2, <1>3 DEF SettledRow, Processes

(* A settlement announces a sequence of events.                            *)
LEMMA EventsType ==
    ASSUME NEW p
    PROVE  SettlementEvents(p) \in Seq(EventTypes)
<1>1. /\ <<"Rejected">> \in Seq(EventTypes) /\ <<"Processed">> \in Seq(EventTypes)
      /\ <<"PendingReference">> \in Seq(EventTypes) /\ << >> \in Seq(EventTypes)
      /\ <<"Processed", "BalanceChanged">> \in Seq(EventTypes)
  BY DEF EventTypes
<1> QED
  BY <1>1, Zenon DEF SettlementEvents

(* The commit of a settlement: every table keeps its type, stored rows     *)
(* stay stored, and no row is left PENDING.                                *)
LEMMA ShapeCommitSettlement ==
    ASSUME Shape, NEW p \in Processes, CommitSettlement(p),
           told' \in [Requests -> SUBSET Answers], faults' \in 0..MaxFaults
    PROVE  Shape'
<1>0. /\ job[p] \in Jobs /\ job[p].op \in Requests /\ walletOf(p) \in Wallets
      /\ Moves(p) => MovedBalance(p) \in 0..MaxBalance
      /\ job[p].now \in Nat /\ job[p].balance \in 0..MaxBalance /\ job[p].decision \in Decisions
      /\ job[p].version \in Nat /\ job[p].woken \subseteq Requests /\ job[p].missed \subseteq Requests
      /\ job[p].message \in Messages \cup {NoMessage} /\ job[p].body \in Bodies \cup {NoMessage}
      /\ Request[job[p].op].amount \in Nat /\ pc[p] = "commit"
  <2>1. pc[p] = "commit" /\ job[p] \in Jobs
    BY DEF CommitSettlement, Shape, TypeOK
  <2>2. /\ job[p].op \in Requests
        /\ Moves(p) => MovedBalance(p) \in 0..MaxBalance
    BY <2>1 DEF Shape, JobsFit, JobFits, RequestPCs
  <2>3. walletOf(p) \in Wallets /\ Request[job[p].op].amount \in Nat
    BY <2>2, RequestAssumption, ConstantsAssumption DEF ValidRequest, walletOf
  <2> QED
    BY <2>1, <2>2, <2>3 DEF Jobs
<1>1. wallets' \in [Wallets -> WalletRows]
  <2>1. Moves(p) => MovedWallet(p) \in WalletRows
    BY <1>0 DEF MovedWallet, WalletRows
  <2>2. wallets \in [Wallets -> WalletRows]
    BY DEF Shape, TypeOK
  <2>3. wallets' = IF Moves(p) THEN [wallets EXCEPT ![walletOf(p)] = MovedWallet(p)] ELSE wallets
    BY DEF CommitSettlement
  <2> QED
    BY <2>1, <2>2, <2>3
<1>2. ledger' \in [Wallets -> SUBSET Entries]
  <2>1. Moves(p) => NewEntry(p) \in Entries
    BY <1>0 DEF Moves, NewEntry, Entries, Operations, Decisions, Directions
  <2> QED
    BY <1>0, <2>1 DEF CommitSettlement, Shape, TypeOK
<1>3. \/ SettledRow(p) \in Rows /\ SettledRow(p).status \notin {"PENDING", "ABSENT"}
      \/ /\ SettledRow(p) \in Rows
         /\ SettledRow(p).status = txs[job[p].op].status
         /\ p \in Workers /\ job[p].decision.outcome = "wait"
  BY <1>0, SettledRowType
<1>4. /\ txs' \in [Requests -> Rows]
      /\ \A r \in Requests : txs'[r].status = IF r = job[p].op THEN SettledRow(p).status
                                               ELSE txs[r].status
  <2>1. txs' = [r \in Requests |->
                  IF r = job[p].op THEN SettledRow(p)
                  ELSE IF r \in job[p].woken THEN [txs[r] EXCEPT !.nextAt = job[p].now]
                  ELSE txs[r]]
    BY DEF CommitSettlement
  <2>2. \A r \in Requests : /\ [txs[r] EXCEPT !.nextAt = job[p].now] \in Rows
                            /\ [txs[r] EXCEPT !.nextAt = job[p].now].status = txs[r].status
    BY <1>0, RescheduledType DEF Shape, TypeOK
  <2> QED
    BY <1>3, <2>1, <2>2 DEF Shape, TypeOK
<1>5. outbox' \in [Operations -> Seq(EventTypes)]
  <2>1. outbox[job[p].op] \o SettlementEvents(p) \in Seq(EventTypes)
    BY <1>0, EventsType DEF Shape, TypeOK, Operations
  <2> QED
    BY <2>1 DEF CommitSettlement, Shape, TypeOK
<1>6. \A r \in Requests : /\ Stored(r) => Stored(r)'
                          /\ txs'[r].status # "PENDING"
  BY <1>3, <1>4 DEF Stored, Shape, RowsFit
<1>7. /\ JobsFit' /\ pc' \in [Processes -> PCs] /\ job' \in [Processes -> Jobs]
  BY <1>6, FinishFits DEF CommitSettlement
<1>8. p \in Handlers => /\ SettledRow(p).status \in {"PROCESSED", "REJECTED", "PENDING_REFERENCE"}
                        /\ txs'[job[p].op].status # "ABSENT"
  <2>1. p \in Handlers => p \notin Workers
    BY ProcessAssumption
  <2> QED
    BY <1>0, <1>4, <2>1, SettledRowType
<1>9. inbox' \in [Messages -> InboxRows]
  BY <1>0, <1>8 DEF CommitSettlement, Shape, TypeOK, InboxRows, Outcomes
<1>10. TypeOK'
  <2>1. overslept' \in SUBSET Requests
    BY <1>0 DEF CommitSettlement, Shape, TypeOK
  <2> QED
    BY <1>1, <1>2, <1>4, <1>5, <1>7, <1>9, <2>1 DEF CommitSettlement, Shape, TypeOK
<1>11. RowsFit'
  <2>1. ASSUME NEW m \in Messages, inbox'[m] # noInboxRow
        PROVE  inbox'[m].tx \in Requests /\ txs'[inbox'[m].tx].status # "ABSENT"
    <3>1. CASE inbox'[m] = inbox[m]
      <4>1. inbox[m].tx \in Requests /\ Stored(inbox[m].tx)
        BY <2>1, <3>1 DEF Shape, RowsFit
      <4> QED
        BY <3>1, <4>1, <1>6 DEF Stored
    <3>2. CASE inbox'[m] # inbox[m]
      <4>1. p \in Handlers /\ inbox'[m].tx = job[p].op
        BY <3>2 DEF CommitSettlement, Shape, TypeOK
      <4> QED
        BY <1>0, <1>8, <4>1
    <3> QED
      BY <3>1, <3>2
  <2> QED
    BY <1>6, <2>1 DEF RowsFit, Stored
<1> QED
  BY <1>7, <1>10, <1>11 DEF Shape

(* The commits of OpenWallet and giveUp.                                   *)
LEMMA ShapeCommitOpening ==
    ASSUME Shape, NEW h \in Processes, CommitOpening(h)
    PROVE  Shape'
<1>0. job[h].op \in Wallets /\ job[h].balance \in 0..MaxBalance
  BY DEF CommitOpening, Shape, TypeOK, JobsFit, JobFits, Jobs
<1>1. wallets' \in [Wallets -> WalletRows]
  BY <1>0 DEF CommitOpening, Shape, TypeOK, WalletRows
<1>2. ledger' \in [Wallets -> SUBSET Entries]
  <2>1. OpeningEntry(job[h].op, job[h].balance) \in Entries
    BY <1>0, ConstantsAssumption DEF OpeningEntry, Entries, Operations
  <2> QED
    BY <1>0, <2>1 DEF CommitOpening, Shape, TypeOK
<1>3. outbox' \in [Operations -> Seq(EventTypes)]
  <2>1. outbox[job[h].op] \o <<"Processed", "BalanceChanged">> \in Seq(EventTypes)
    <3>1. <<"Processed", "BalanceChanged">> \in Seq(EventTypes)
      BY DEF EventTypes
    <3> QED
      BY <1>0, <3>1 DEF Shape, TypeOK, Operations
  <2> QED
    BY <2>1 DEF CommitOpening, Shape, TypeOK
<1>4. JobsFit' /\ pc' \in [Processes -> PCs] /\ job' \in [Processes -> Jobs]
  BY FinishFits DEF CommitOpening, Stored
<1>5. TypeOK'
  BY <1>1, <1>2, <1>3, <1>4 DEF CommitOpening, Shape, TypeOK
<1>6. RowsFit'
  BY DEF CommitOpening, Shape, RowsFit, Stored
<1> QED
  BY <1>4, <1>5, <1>6 DEF Shape

(* The commit of giveUp keeps the shape: only the one row changes.         *)
LEMMA ShapeCommitGiveUp ==
    ASSUME Shape, NEW k \in Processes, CommitGiveUp(k)
    PROVE  Shape'
<1>0. job[k].op \in Requests
  BY DEF CommitGiveUp, Shape, JobsFit, JobFits, RequestPCs
<1>1. /\ txs' \in [Requests -> Rows]
      /\ \A r \in Requests : txs'[r].status = IF r = job[k].op THEN "FAILED" ELSE txs[r].status
  <2>1. FailedRow(job[k].op) \in Rows /\ FailedRow(job[k].op).status = "FAILED"
    BY <1>0, FailedType DEF FailedRow, Shape, TypeOK
  <2> QED
    BY <1>0, <2>1 DEF CommitGiveUp, Shape, TypeOK
<1>2. \A r \in Requests : Stored(r) => Stored(r)'
  BY <1>1 DEF Stored
<1>3. JobsFit' /\ pc' \in [Processes -> PCs] /\ job' \in [Processes -> Jobs]
  BY <1>2, FinishFits DEF CommitGiveUp
<1>4. TypeOK'
  BY <1>1, <1>3 DEF CommitGiveUp, Shape, TypeOK
<1>5. RowsFit'
  BY <1>1, <1>2 DEF CommitGiveUp, Shape, RowsFit, Stored
<1> QED
  BY <1>3, <1>4, <1>5 DEF Shape

(* Every step keeps the shape.                                             *)
LEMMA ShapeStep == Shape /\ [Next]_vars => Shape'
<1> SUFFICES ASSUME Shape, [Next]_vars PROVE Shape'
  OBVIOUS
<1>1. ASSUME NEW h \in Handlers, Arrival(h) PROVE Shape'
  BY <1>1, ShapeArrival
<1>2. ASSUME NEW h \in Handlers, HandlerStep(h) PROVE Shape'
  <2>0. h \in Processes /\ h \notin Workers
    BY ProcessAssumption DEF Processes
  <2>1. CASE RegisterInbox(h) \/ Insert(h) \/ Replay(h)
    BY <2>1, ShapeAdmission
  <2>2. CASE LockWallet(h) \/ Settle(h) \/ WakeUp(h)
    BY <2>0, <2>2, ShapeUnderLock
  <2>3. ASSUME NEW heard \in BOOLEAN, CommitReplay(h, heard) PROVE Shape'
    BY <2>3, ShapeCommitReplay
  <2>4. ASSUME NEW heard \in BOOLEAN, CommitRequest(h, heard) PROVE Shape'
    <3>1. pc[h] = "commit" /\ job[h].op \in Requests
      BY <2>0, <2>4 DEF CommitRequest, CommitSettlement, Shape, JobsFit, JobFits, RequestPCs
    <3>2. SettledRow(h).status \in Answers
      BY <2>0, <3>1, SettledRowType DEF Answers
    <3>3. told' \in [Requests -> SUBSET Answers] /\ faults' \in 0..MaxFaults
      BY <2>4, <3>1, <3>2, ReportType DEF CommitRequest, Shape
    <3> QED
      BY <2>0, <2>4, <3>3, ShapeCommitSettlement DEF CommitRequest
  <2>5. CASE CreateWallet(h)
    BY <2>0, <2>5, ShapeOther
  <2>6. CASE CommitOpening(h)
    BY <2>0, <2>6, ShapeCommitOpening
  <2> QED
    BY <1>2, <2>1, <2>2, <2>3, <2>4, <2>5, <2>6 DEF HandlerStep
<1>3. ASSUME NEW k \in Workers, WorkerStep(k) PROVE Shape'
  <2>0. k \in Processes
    BY DEF Processes
  <2>1. CASE BeginAttempt(k) \/ ScanPending(k) \/ ClaimDuePending(k) \/ GiveUp(k)
    BY <2>0, <2>1, ShapeOther
  <2>2. CASE LockWallet(k) \/ Settle(k) \/ WakeUp(k)
    BY <2>0, <2>2, ShapeUnderLock
  <2>3. CASE CommitRetry(k)
    BY <2>0, <2>3, ShapeCommitSettlement DEF CommitRetry, Shape, TypeOK
  <2>4. CASE CommitGiveUp(k)
    BY <2>0, <2>4, ShapeCommitGiveUp
  <2> QED
    BY <1>3, <2>1, <2>2, <2>3, <2>4 DEF WorkerStep
<1>4. CASE Failure
  BY <1>4, ShapeFailure
<1>5. CASE Tick
  <2>1. TypeOK'
    BY <1>5, TimeAssumption DEF Tick, Shape, TypeOK, db
  <2>2. JobsFit' /\ RowsFit'
    BY <1>5 DEF Tick, db, Shape, JobsFit, JobFits, RowsFit, Stored, Moves, MovedBalance
  <2> QED
    BY <2>1, <2>2 DEF Shape
<1>6. CASE UNCHANGED vars
  BY <1>6 DEF vars, Shape, TypeOK, JobsFit, JobFits, RowsFit, Stored, Moves, MovedBalance
<1>7. ASSUME NEW p \in Processes, DeadlockVictim(p) PROVE Shape'
  BY <1>7, ShapeDeadlock
<1> QED
  BY <1>1, <1>2, <1>3, <1>4, <1>5, <1>6, <1>7 DEF Next

(* Every table, every job and every counter keeps its type in every state  *)
(* of every instance: in particular no balance, result or ledger entry     *)
(* ever leaves 0..MaxBalance.                                              *)
THEOREM TypeCorrect == Spec => []TypeOK
<1>1. Spec => []Shape
  BY ShapeInit, ShapeStep, PTL DEF Spec
<1>2. Shape => TypeOK
  BY DEF Shape
<1> QED
  BY <1>1, <1>2, PTL

-----------------------------------------------------------------------------
(* The wallet lock.                                                        *)

Locks == OneSettlementPerWallet /\ ReadUnderLockIsCurrent /\ OpenedOnce

SettlingPCs == {"lock", "settle", "wake", "commit", "giveUp", "commitGiveUp"}

(* No process is in a transaction at the start.                            *)
LEMMA LocksInit == Init => Locks
BY DEF Init, Locks, OneSettlementPerWallet, ReadUnderLockIsCurrent, UnderWalletLock,
       OpenedOnce, Stored, absentRow

(* A step of p that leaves the wallets alone and stores nothing new, after *)
(* which p is neither under the wallet lock nor opening a wallet.          *)
LEMMA LocksPrivate ==
    ASSUME Locks, NEW p \in Processes,
           pc'[p] \notin {"settle", "wake", "commit", "commitOpening"},
           pc'[p] \in SettlingPCs => wallets[Request[job'[p].op].wallet].version > 0,
           \A q \in Processes \ {p} : pc'[q] = pc[q] /\ job'[q] = job[q],
           wallets' = wallets, \A r \in Requests : Stored(r)' => Stored(r)
    PROVE  Locks'
<1>1. OneSettlementPerWallet'
  BY DEF Locks, OneSettlementPerWallet, UnderWalletLock, walletOf
<1>2. ReadUnderLockIsCurrent'
  BY DEF Locks, ReadUnderLockIsCurrent, UnderWalletLock, walletOf
<1>3. OpenedOnce'
  BY DEF Locks, OpenedOnce, SettlingPCs, walletOf
<1> QED
  BY <1>1, <1>2, <1>3 DEF Locks

(* The end of a transaction that changed no wallet and stored nothing new. *)
LEMMA LocksFinish ==
    ASSUME Shape, Locks, NEW p \in Processes, Finish(p),
           wallets' = wallets, \A r \in Requests : Stored(r)' => Stored(r)
    PROVE  Locks'
BY LocksPrivate DEF Finish, Goto, Shape, TypeOK, SettlingPCs

(* The same for a statement that only moves on.                            *)
LEMMA LocksProceed ==
    ASSUME Shape, Locks, NEW p \in Processes,
           NEW label, label \notin {"settle", "wake", "commit", "commitOpening"},
           label \in SettlingPCs => wallets[Request[job'[p].op].wallet].version > 0,
           Goto(p, label), \A q \in Processes \ {p} : job'[q] = job[q],
           UNCHANGED <<wallets, txs>>
    PROVE  Locks'
BY LocksPrivate DEF Goto, Shape, TypeOK, Stored

(* Steps that take or keep the wallet lock.                                *)
LEMMA LocksUnderLock ==
    ASSUME Shape, Locks, NEW p \in Processes, LockWallet(p) \/ Settle(p) \/ WakeUp(p)
    PROVE  Locks'
<1>0. /\ job[p] \in Jobs /\ UNCHANGED <<wallets, txs>>
      /\ pc' \in [Processes -> PCs] /\ job' \in [Processes -> Jobs]
      /\ \A q \in Processes \ {p} : pc'[q] = pc[q] /\ job'[q] = job[q]
      /\ pc'[p] \in {"settle", "wake", "commit"} /\ job'[p].op = job[p].op
      /\ pc[p] \in {"lock", "settle", "wake"}
  <2>1. Shape'
    BY ShapeUnderLock
  <2>2. /\ job[p] \in Jobs /\ pc \in [Processes -> PCs] /\ job \in [Processes -> Jobs]
        /\ pc' \in [Processes -> PCs] /\ job' \in [Processes -> Jobs]
    BY <2>1 DEF Shape, TypeOK
  <2>3. CASE LockWallet(p)
    BY <2>2, <2>3 DEF LockWallet, Proceed, Goto, db, Jobs
  <2>4. CASE Settle(p)
    BY <2>2, <2>4 DEF Settle, Proceed, Goto, db, Jobs
  <2>5. CASE WakeUp(p)
    BY <2>2, <2>5 DEF WakeUp, Proceed, Goto, db, Jobs
  <2> QED
    BY <2>3, <2>4, <2>5
<1>1. CASE LockWallet(p)
  <2>1. /\ job'[p].version = wallets[walletOf(p)].version
        /\ job'[p].balance = wallets[walletOf(p)].balance
    BY <1>0, <1>1 DEF LockWallet, Jobs, Shape, TypeOK
  <2>2. \A q \in Processes \ {p} : UnderWalletLock(q) => walletOf(q) # walletOf(p)
    BY <1>1 DEF LockWallet, HoldsWallet, UnderWalletLock
  <2>3. OneSettlementPerWallet'
    BY <1>0, <2>2 DEF Locks, OneSettlementPerWallet, UnderWalletLock, walletOf
  <2>4. ReadUnderLockIsCurrent'
    BY <1>0, <2>1 DEF Locks, ReadUnderLockIsCurrent, UnderWalletLock, walletOf
  <2>5. OpenedOnce'
    BY <1>0 DEF Locks, OpenedOnce, walletOf, Stored
  <2> QED
    BY <2>3, <2>4, <2>5 DEF Locks
<1>2. CASE Settle(p) \/ WakeUp(p)
  <2>1. /\ job'[p].version = job[p].version /\ job'[p].balance = job[p].balance
        /\ pc[p] \in {"settle", "wake"}
    BY <1>0, <1>2 DEF Settle, WakeUp, Jobs, Shape, TypeOK
  <2>2. OneSettlementPerWallet'
    BY <1>0, <2>1 DEF Locks, OneSettlementPerWallet, UnderWalletLock, walletOf
  <2>3. ReadUnderLockIsCurrent'
    BY <1>0, <2>1 DEF Locks, ReadUnderLockIsCurrent, UnderWalletLock, walletOf
  <2>4. OpenedOnce'
    BY <1>0 DEF Locks, OpenedOnce, walletOf, Stored
  <2> QED
    BY <2>2, <2>3, <2>4 DEF Locks
<1> QED
  BY <1>1, <1>2

(* The commit of a settlement writes a wallet nobody else holds.           *)
LEMMA LocksCommitSettlement ==
    ASSUME Shape, Locks, NEW p \in Processes, CommitSettlement(p)
    PROVE  Locks'
<1>0. /\ job[p] \in Jobs /\ job[p].op \in Requests /\ walletOf(p) \in Wallets
      /\ UnderWalletLock(p) /\ pc[p] = "commit" /\ job[p].version \in Nat
  BY RequestAssumption
     DEF CommitSettlement, UnderWalletLock, Shape, TypeOK, JobsFit, JobFits, RequestPCs, Jobs,
         walletOf, ValidRequest
<1>1. /\ \A q \in Processes \ {p} : pc'[q] = pc[q] /\ job'[q] = job[q]
      /\ pc'[p] = "idle"
  BY DEF CommitSettlement, Finish, Goto, Shape, TypeOK
<1>2. /\ \A w \in Wallets : w # walletOf(p) => wallets'[w] = wallets[w]
      /\ wallets[walletOf(p)].version > 0 /\ wallets'[walletOf(p)].version > 0
  <2>1. wallets[walletOf(p)].version > 0
    BY <1>0 DEF Locks, OpenedOnce
  <2> QED
    BY <1>0, <2>1 DEF CommitSettlement, MovedWallet, Shape, TypeOK
<1>3. \A r \in Requests : Stored(r)' => Stored(r) \/ r = job[p].op
  <2>1. \A r \in Requests \ {job[p].op} : txs'[r].status = txs[r].status
    BY DEF CommitSettlement, Shape, TypeOK, Rows
  <2> QED
    BY <2>1 DEF Stored
<1>4. \A r \in Requests : Request[r].wallet \in Wallets
  BY RequestAssumption DEF ValidRequest
<1>5. \A q \in Processes : pc[q] \in SettlingPCs => job[q].op \in Requests
  BY DEF Shape, JobsFit, JobFits, RequestPCs, SettlingPCs
<1>6. OneSettlementPerWallet'
  BY <1>1 DEF Locks, OneSettlementPerWallet, UnderWalletLock, walletOf
<1>7. ReadUnderLockIsCurrent'
  <2> SUFFICES ASSUME NEW q \in Processes, UnderWalletLock(q)'
               PROVE  /\ job'[q].version = wallets'[Request[job'[q].op].wallet].version
                      /\ job'[q].balance = wallets'[Request[job'[q].op].wallet].balance
    BY DEF ReadUnderLockIsCurrent, walletOf
  <2>1. q # p /\ UnderWalletLock(q) /\ job'[q] = job[q]
    BY <1>1 DEF UnderWalletLock
  <2>2. walletOf(q) # walletOf(p) /\ walletOf(q) \in Wallets
    BY <1>0, <1>4, <1>5, <2>1 DEF Locks, OneSettlementPerWallet, UnderWalletLock, walletOf, SettlingPCs
  <2> QED
    BY <1>2, <2>1, <2>2 DEF Locks, ReadUnderLockIsCurrent, walletOf
<1>8. OpenedOnce'
  <2>1. \A w \in Wallets : wallets[w].version > 0 => wallets'[w].version > 0
    BY <1>2
  <2>2. \A r \in Requests : Stored(r)' => wallets'[Request[r].wallet].version > 0
    BY <1>0, <1>2, <1>3, <1>4, <2>1 DEF Locks, OpenedOnce, walletOf
  <2>3. \A q \in Processes : pc'[q] \in SettlingPCs =>
          wallets'[Request[job'[q].op].wallet].version > 0
    BY <1>1, <1>4, <1>5, <2>1 DEF Locks, OpenedOnce, walletOf, SettlingPCs
  <2>4. \A q \in Processes : pc'[q] = "commitOpening" => wallets'[job'[q].op].version = 0
    <3>1. \A q \in Processes : pc[q] = "commitOpening" => job[q].op \in Wallets
      BY DEF Shape, JobsFit, JobFits
    <3> QED
      BY <1>1, <1>2, <3>1 DEF Locks, OpenedOnce
  <2> QED
    BY <1>1, <2>2, <2>3, <2>4 DEF Locks, OpenedOnce, walletOf, SettlingPCs
<1> QED
  BY <1>6, <1>7, <1>8 DEF Locks

(* The commit of an opening writes a wallet nobody could have locked.      *)
LEMMA LocksCommitOpening ==
    ASSUME Shape, Locks, NEW h \in Processes, CommitOpening(h)
    PROVE  Locks'
<1>0. job[h].op \in Wallets /\ pc[h] = "commitOpening" /\ wallets[job[h].op].version = 0
  BY DEF CommitOpening, Shape, JobsFit, JobFits, Locks, OpenedOnce
<1>1. /\ \A q \in Processes \ {h} : pc'[q] = pc[q] /\ job'[q] = job[q]
      /\ pc'[h] = "idle" /\ txs' = txs
  BY DEF CommitOpening, Finish, Goto, Shape, TypeOK
<1>2. /\ \A w \in Wallets : w # job[h].op => wallets'[w] = wallets[w]
      /\ wallets'[job[h].op].version > 0
  BY <1>0 DEF CommitOpening, Shape, TypeOK
<1>3. \A q \in Processes : pc[q] \in SettlingPCs => walletOf(q) \in Wallets /\ walletOf(q) # job[h].op
  <2>1. \A q \in Processes : pc[q] \in SettlingPCs => job[q].op \in Requests
    BY DEF Shape, JobsFit, JobFits, RequestPCs, SettlingPCs
  <2>2. \A q \in Processes : pc[q] \in SettlingPCs => wallets[walletOf(q)].version > 0
    BY DEF Locks, OpenedOnce, SettlingPCs
  <2> QED
    BY <1>0, <2>1, <2>2, RequestAssumption DEF ValidRequest, walletOf
<1>4. OneSettlementPerWallet'
  BY <1>1 DEF Locks, OneSettlementPerWallet, UnderWalletLock, walletOf
<1>5. ReadUnderLockIsCurrent'
  BY <1>1, <1>2, <1>3 DEF Locks, ReadUnderLockIsCurrent, UnderWalletLock, walletOf, SettlingPCs
<1>6. OpenedOnce'
  <2>1. \A r \in Requests : Stored(r)' => wallets'[Request[r].wallet].version > 0
    BY <1>1, <1>2, RequestAssumption DEF Locks, OpenedOnce, Stored, ValidRequest
  <2>2. \A q \in Processes : pc'[q] \in SettlingPCs =>
          wallets'[Request[job'[q].op].wallet].version > 0
    BY <1>1, <1>2, <1>3 DEF Locks, OpenedOnce, walletOf, SettlingPCs
  <2>3. \A q \in Processes : pc'[q] = "commitOpening" => wallets'[job'[q].op].version = 0
    <3>1. \A q \in Processes \ {h} :
            pc[q] = "commitOpening" => job[q].op \in Wallets /\ job[q].op # job[h].op
      BY <1>0 DEF Shape, JobsFit, JobFits, Locks, OpenedOnce
    <3> QED
      BY <1>1, <1>2, <3>1 DEF Locks, OpenedOnce
  <2> QED
    BY <1>1, <2>1, <2>2, <2>3 DEF Locks, OpenedOnce, walletOf, SettlingPCs
<1> QED
  BY <1>4, <1>5, <1>6 DEF Locks

-----------------------------------------------------------------------------
(* The ledger.                                                             *)

(* No wallet is open and no ledger has an entry at the start.              *)
LEMMA ChainInit == Init => LedgerChain
BY DEF Init, LedgerChain, WalletChain, EntriesAt

(* A movement read under the lock extends the chain of its wallet by one.  *)
LEMMA ChainCommitSettlement ==
    ASSUME Shape, Locks, LedgerChain, NEW p \in Processes, CommitSettlement(p)
    PROVE  LedgerChain'
<1>1. CASE ~Moves(p)
  BY <1>1 DEF CommitSettlement, LedgerChain, WalletChain, EntriesAt
<1>2. CASE Moves(p)
  <2>w. PICK w \in Wallets : w = walletOf(p)
    BY RequestAssumption
       DEF CommitSettlement, Shape, JobsFit, JobFits, RequestPCs, ValidRequest, walletOf
  <2> DEFINE n == NewEntry(p)
             v == wallets[w].version
  <2>0. /\ w \in Wallets /\ v \in Nat /\ v > 0 /\ pc[p] = "commit"
        /\ job[p].version = v /\ job[p].balance = wallets[w].balance
        /\ ledger[w] \subseteq Entries /\ n.version = v + 1
        /\ n.before = wallets[w].balance /\ n.after = MovedBalance(p)
        /\ n.after = applyDirection(n.before, n.direction, n.amount)
    <3>1. job[p].op \in Requests /\ pc[p] = "commit"
      BY DEF CommitSettlement, Shape, JobsFit, JobFits, RequestPCs
    <3>2. v > 0 /\ job[p].version = v /\ job[p].balance = wallets[w].balance
      BY <2>w, <3>1 DEF Locks, OpenedOnce, ReadUnderLockIsCurrent, UnderWalletLock
    <3> QED
      BY <3>1, <3>2 DEF Shape, TypeOK, WalletRows, NewEntry, MovedBalance
  <2>1. /\ ledger'[w] = ledger[w] \cup {n}
        /\ wallets'[w].version = v + 1 /\ wallets'[w].balance = n.after
        /\ \A u \in Wallets \ {w} : ledger'[u] = ledger[u] /\ wallets'[u] = wallets[u]
    BY <1>2, <2>w, <2>0 DEF CommitSettlement, MovedWallet, Shape, TypeOK
  <2>2. \A e \in ledger[w] : e.version \in 1..v
    BY <2>0 DEF LedgerChain, WalletChain
  <2>3. \A u \in Wallets \ {w} : WalletChain(u)'
    BY <2>1 DEF LedgerChain, WalletChain, EntriesAt
  <2>4. WalletChain(w)
    BY <2>0 DEF LedgerChain
  <2> HIDE DEF n, v
  <2>5. \A e \in ledger'[w] : /\ e.version \in 1..v + 1
                              /\ e.after = applyDirection(e.before, e.direction, e.amount)
    BY <2>0, <2>1, <2>2, <2>4 DEF WalletChain
  <2>6. \A e, f \in ledger'[w] : e.version = f.version => e = f
    BY <2>0, <2>1, <2>2, <2>4 DEF WalletChain
  <2>7. \A e \in ledger'[w] : e.version = 1 => e.before = 0
    BY <2>0, <2>1, <2>2, <2>4 DEF WalletChain
  <2>8. \A u \in 2..v + 1 : \E e \in ledger'[w] : e.version = u
    BY <2>0, <2>1, <2>4, v = wallets[w].version DEF WalletChain, v
  <2>9. \A e \in ledger'[w] : e.version = v + 1 => e.after = wallets'[w].balance
    BY <2>0, <2>1, <2>2
  <2>10. \A e, f \in ledger'[w] : f.version = e.version + 1 => f.before = e.after
    BY <2>0, <2>1, <2>2, <2>4, v = wallets[w].version DEF WalletChain, v
  <2>11. \A e \in ledger'[w] : e.version = 2 /\ EntriesAt(w, 1)' = {} => e.before = 0
    BY <2>0, <2>1, <2>2, <2>4, v = wallets[w].version DEF WalletChain, EntriesAt, v
  <2>12. WalletChain(w)'
    BY <2>0, <2>1, <2>5, <2>6, <2>7, <2>8, <2>9, <2>10, <2>11 DEF WalletChain
  <2> QED
    BY <2>3, <2>12 DEF LedgerChain
<1> QED
  BY <1>1, <1>2

(* An opening starts the chain of its wallet, which was empty.             *)
LEMMA ChainCommitOpening ==
    ASSUME Shape, Locks, LedgerChain, NEW h \in Processes, CommitOpening(h)
    PROVE  LedgerChain'
<1>w. PICK w \in Wallets : w = job[h].op
  BY DEF CommitOpening, Shape, JobsFit, JobFits
<1> DEFINE b == job[h].balance
<1>0. wallets[w].version = 0 /\ b \in Nat
  BY <1>w, ConstantsAssumption DEF CommitOpening, Shape, TypeOK, Jobs, Locks, OpenedOnce
<1>1. ledger[w] = {}
  BY <1>0 DEF LedgerChain, WalletChain
<1>2. /\ b = 0 => ledger'[w] = {}
      /\ b # 0 => ledger'[w] = {OpeningEntry(w, b)}
      /\ wallets'[w].version = 1 /\ wallets'[w].balance = b
      /\ \A u \in Wallets \ {w} : ledger'[u] = ledger[u] /\ wallets'[u] = wallets[u]
  <2>1. CASE b = 0
    BY <1>w, <1>1, <2>1 DEF CommitOpening, Shape, TypeOK
  <2>2. CASE b # 0
    BY <1>w, <1>1, <2>2 DEF CommitOpening, Shape, TypeOK
  <2> QED
    BY <2>1, <2>2
<1>3. \A u \in Wallets \ {w} : WalletChain(u)'
  BY <1>2 DEF LedgerChain, WalletChain, EntriesAt
<1>4. WalletChain(w)'
  <2>1. CASE b = 0
    BY <1>2, <2>1 DEF WalletChain
  <2>2. CASE b # 0
    <3> DEFINE e == OpeningEntry(w, b)
    <3>1. /\ e.version = 1 /\ e.before = 0 /\ e.after = b
          /\ e.after = applyDirection(e.before, e.direction, e.amount)
      BY <1>0 DEF OpeningEntry, applyDirection
    <3> HIDE DEF e
    <3> QED
      BY <1>0, <1>2, <2>2, <3>1 DEF WalletChain, e
  <2> QED
    BY <2>1, <2>2
<1> QED
  BY <1>3, <1>4 DEF LedgerChain

-----------------------------------------------------------------------------
(* Steps, all together.                                                    *)

SafeInv == Shape /\ Locks /\ LedgerChain

(* A step that writes neither a wallet nor its ledger keeps the chain.     *)
LEMMA ChainFrame == LedgerChain /\ UNCHANGED <<wallets, ledger>> => LedgerChain'
BY DEF LedgerChain, WalletChain, EntriesAt

(* Every statement of a handler keeps the inductive invariant.             *)
LEMMA HandlerStepSafe ==
    ASSUME SafeInv, NEW h \in Handlers, Arrival(h) \/ HandlerStep(h)
    PROVE  Locks' /\ LedgerChain'
<1>0. h \in Processes /\ Shape /\ Locks /\ LedgerChain
  BY DEF Processes, SafeInv
<1>1. ASSUME UNCHANGED <<wallets, txs, ledger>>, Finish(h) PROVE Locks' /\ LedgerChain'
  BY <1>0, <1>1, LocksFinish, ChainFrame DEF Stored
<1>2. ASSUME UNCHANGED <<wallets, txs, ledger>>, \A q \in Processes \ {h} : job'[q] = job[q],
             NEW label, label \notin {"commitOpening"} \cup SettlingPCs, Goto(h, label)
      PROVE  Locks' /\ LedgerChain'
  BY <1>0, <1>2, LocksProceed, ChainFrame DEF SettlingPCs
<1>3. CASE Arrival(h)
  <2>1. /\ UNCHANGED <<wallets, txs, ledger>>
        /\ \A q \in Processes \ {h} : job'[q] = job[q]
        /\ Goto(h, "insert") \/ Goto(h, "inbox") \/ Goto(h, "create")
    BY <1>0, <1>3 DEF Arrival, Begin, BeginOpening, FirstStatement, Arrive, db, Shape, TypeOK
  <2> QED
    BY <1>2, <2>1 DEF SettlingPCs
<1>4. CASE RegisterInbox(h) \/ Replay(h)
  <2>1. /\ UNCHANGED <<wallets, txs, ledger>>
        /\ \/ Finish(h)
           \/ /\ \A q \in Processes \ {h} : job'[q] = job[q]
              /\ Goto(h, "insert") \/ Goto(h, "commitReplay")
    BY <1>0, <1>4 DEF RegisterInbox, Replay, Refuse, Proceed, db, Shape, TypeOK
  <2> QED
    BY <1>1, <1>2, <2>1 DEF SettlingPCs
<1>5. CASE Insert(h)
  <2>0. UNCHANGED <<wallets, txs, ledger>>
    BY <1>5 DEF Insert, Refuse, Proceed, db
  <2>1. CASE Finish(h)
    BY <1>1, <2>0, <2>1
  <2>2. CASE UNCHANGED job /\ Goto(h, "replay")
    BY <1>2, <2>0, <2>2 DEF SettlingPCs
  <2>3. CASE UNCHANGED job /\ Goto(h, "lock") /\ wallets[Request[job[h].op].wallet].version > 0
    BY <1>0, <2>0, <2>3, LocksProceed, ChainFrame
  <2> QED
    BY <1>5, <2>1, <2>2, <2>3 DEF Insert, Refuse, Proceed
<1>6. CASE LockWallet(h) \/ Settle(h) \/ WakeUp(h)
  <2>1. UNCHANGED <<wallets, ledger>>
    BY <1>6 DEF LockWallet, Settle, WakeUp, Proceed, db
  <2> QED
    BY <1>0, <1>6, <2>1, LocksUnderLock, ChainFrame
<1>7. ASSUME NEW heard \in BOOLEAN, CommitReplay(h, heard) PROVE Locks' /\ LedgerChain'
  BY <1>1, <1>7 DEF CommitReplay
<1>8. ASSUME NEW heard \in BOOLEAN, CommitRequest(h, heard) PROVE Locks' /\ LedgerChain'
  BY <1>0, <1>8, LocksCommitSettlement, ChainCommitSettlement DEF CommitRequest
<1>9. CASE CreateWallet(h)
  <2>0. UNCHANGED <<wallets, txs, ledger>>
    BY <1>9 DEF CreateWallet, Proceed, db
  <2>1. CASE Finish(h)
    BY <1>1, <2>0, <2>1
  <2>2. CASE UNCHANGED job /\ Goto(h, "commitOpening") /\ wallets[job[h].op].version = 0
    <3>1. /\ \A q \in Processes \ {h} : pc'[q] = pc[q]
          /\ pc'[h] = "commitOpening" /\ pc[h] = "create"
      BY <1>0, <1>9, <2>2 DEF CreateWallet, Goto, Shape, TypeOK
    <3>2. \A q \in Processes \ {h} : ~(pc[q] = "commitOpening" /\ job[q].op = job[h].op)
      <4>1. \A q \in Workers : pc[q] # "commitOpening"
        BY <1>0, ProcessAssumption DEF Processes, Shape, JobsFit, JobFits
      <4> QED
        BY <1>9, <4>1 DEF CreateWallet, Processes
    <3>3. OneSettlementPerWallet'
      BY <1>0, <2>2, <3>1 DEF Locks, OneSettlementPerWallet, UnderWalletLock, walletOf
    <3>4. ReadUnderLockIsCurrent'
      BY <1>0, <2>0, <2>2, <3>1 DEF Locks, ReadUnderLockIsCurrent, UnderWalletLock, walletOf
    <3>5. OpenedOnce'
      BY <1>0, <2>0, <2>2, <3>1, <3>2 DEF Locks, OpenedOnce, walletOf, Stored
    <3> QED
      BY <1>0, <2>0, <3>3, <3>4, <3>5, ChainFrame DEF Locks
  <2> QED
    BY <1>9, <2>1, <2>2 DEF CreateWallet, Proceed
<1>10. CASE CommitOpening(h)
  BY <1>0, <1>10, LocksCommitOpening, ChainCommitOpening
<1> QED
  BY <1>3, <1>4, <1>5, <1>6, <1>7, <1>8, <1>9, <1>10 DEF HandlerStep

(* Every statement of a reference worker keeps the inductive invariant.    *)
LEMMA WorkerStepSafe ==
    ASSUME SafeInv, NEW k \in Workers, WorkerStep(k)
    PROVE  Locks' /\ LedgerChain'
<1>0. k \in Processes /\ Shape /\ Locks /\ LedgerChain
  BY DEF Processes, SafeInv
<1>1. ASSUME UNCHANGED <<wallets, txs, ledger>>, Finish(k) PROVE Locks' /\ LedgerChain'
  BY <1>0, <1>1, LocksFinish, ChainFrame DEF Stored
<1>2. CASE BeginAttempt(k) \/ ScanPending(k)
  <2>1. /\ UNCHANGED <<wallets, txs, ledger>>
        /\ \/ Finish(k)
           \/ /\ Goto(k, "scan") \/ Goto(k, "claim")
              /\ \A q \in Processes \ {k} : job'[q] = job[q]
    BY <1>0, <1>2 DEF BeginAttempt, ScanPending, Proceed, db, Shape, TypeOK
  <2> QED
    BY <1>0, <1>1, <2>1, LocksProceed, ChainFrame DEF SettlingPCs
<1>3. CASE ClaimDuePending(k)
  <2>1. ASSUME NEW r \in StillDue(k), NEW kept \in SUBSET NotDueAnyMore(k),
               job' = [job EXCEPT ![k].op = r, ![k].kept = kept, ![k].seen = nothingSeen],
               Proceed(k, "lock")
        PROVE  Locks' /\ LedgerChain'
    <3>1. r \in Requests /\ wallets[Request[r].wallet].version > 0
      BY <1>0 DEF StillDue, Due, Locks, OpenedOnce, Stored
    <3>2. /\ UNCHANGED <<wallets, txs, ledger>> /\ Goto(k, "lock") /\ job'[k].op = r
          /\ \A q \in Processes \ {k} : job'[q] = job[q]
      BY <1>0, <2>1 DEF Proceed, db, Shape, TypeOK, Jobs
    <3> QED
      BY <1>0, <3>1, <3>2, LocksProceed, ChainFrame
  <2>2. CASE Finish(k) /\ UNCHANGED db
    BY <1>1, <2>2 DEF db
  <2> QED
    BY <1>3, <2>1, <2>2 DEF ClaimDuePending
<1>4. CASE LockWallet(k) \/ Settle(k) \/ WakeUp(k)
  <2>1. UNCHANGED <<wallets, ledger>>
    BY <1>4 DEF LockWallet, Settle, WakeUp, Proceed, db
  <2> QED
    BY <1>0, <1>4, <2>1, LocksUnderLock, ChainFrame
<1>5. CASE CommitRetry(k)
  BY <1>0, <1>5, LocksCommitSettlement, ChainCommitSettlement DEF CommitRetry
<1>6. CASE GiveUp(k)
  <2>1. UNCHANGED <<wallets, txs, ledger>>
    BY <1>6 DEF GiveUp, Proceed, db
  <2>2. CASE UNCHANGED job /\ Goto(k, "commitGiveUp")
    <3>1. wallets[Request[job[k].op].wallet].version > 0
      BY <1>0, <1>6 DEF GiveUp, Locks, OpenedOnce, walletOf
    <3> QED
      BY <1>0, <2>1, <2>2, <3>1, LocksProceed, ChainFrame
  <2> QED
    BY <1>1, <1>6, <2>1, <2>2 DEF GiveUp, Proceed
<1>7. CASE CommitGiveUp(k)
  <2>1. /\ job[k].op \in Requests /\ pc[k] = "commitGiveUp"
        /\ wallets[Request[job[k].op].wallet].version > 0
    BY <1>0, <1>7
       DEF CommitGiveUp, Shape, JobsFit, JobFits, RequestPCs, Locks, OpenedOnce, walletOf
  <2>2. /\ \A q \in Processes \ {k} : pc'[q] = pc[q] /\ job'[q] = job[q]
        /\ pc'[k] = "idle" /\ UNCHANGED <<wallets, ledger>>
    BY <1>0, <1>7 DEF CommitGiveUp, Finish, Goto, Shape, TypeOK
  <2>3. \A r \in Requests : Stored(r)' => Stored(r) \/ r = job[k].op
    BY <1>0, <1>7 DEF CommitGiveUp, Stored, Shape, TypeOK
  <2>4. OneSettlementPerWallet' /\ ReadUnderLockIsCurrent'
    BY <1>0, <2>2
       DEF Locks, OneSettlementPerWallet, ReadUnderLockIsCurrent, UnderWalletLock, walletOf
  <2>5. OpenedOnce'
    BY <1>0, <2>1, <2>2, <2>3 DEF Locks, OpenedOnce, walletOf
  <2> QED
    BY <1>0, <2>2, <2>4, <2>5, ChainFrame DEF Locks
<1> QED
  BY <1>2, <1>3, <1>4, <1>5, <1>6, <1>7 DEF WorkerStep

(* A function that runs again starts without locks.                        *)
LEMMA RunAgainSafe ==
    ASSUME Shape, Locks, LedgerChain, NEW p \in Processes, RunAgain(p),
           UNCHANGED <<wallets, txs, ledger>>
    PROVE  Locks' /\ LedgerChain'
<1>1. /\ Goto(p, "scan") \/ Goto(p, "insert") \/ Goto(p, "inbox")
      /\ \A q \in Processes \ {p} : job'[q] = job[q]
  BY DEF RunAgain, FirstStatement, Shape, TypeOK
<1> QED
  BY <1>1, LocksProceed, ChainFrame DEF SettlingPCs

(* So does every failure: a rollback changes no table and frees its locks. *)
LEMMA FailureSafe ==
    ASSUME SafeInv, Failure
    PROVE  Locks' /\ LedgerChain'
<1>0. Shape /\ Locks /\ LedgerChain
  BY DEF SafeInv
<1>1. ASSUME NEW p \in Processes, Abort(p) PROVE Locks' /\ LedgerChain'
  BY <1>0, <1>1, LocksFinish, ChainFrame DEF Abort, db, Stored
<1>2. ASSUME NEW k \in Workers, RetryAttempt(k) PROVE Locks' /\ LedgerChain'
  BY <1>0, <1>2, RunAgainSafe DEF RetryAttempt, db, Processes
<1>3. ASSUME NEW k \in Workers, PermanentError(k) PROVE Locks' /\ LedgerChain'
  <2>1. /\ k \in Processes /\ UNCHANGED <<wallets, txs, ledger>> /\ Goto(k, "giveUp")
        /\ \A q \in Processes \ {k} : job'[q] = job[q]
        /\ job'[k].op = job[k].op /\ pc[k] \in {"lock", "settle", "wake", "commit"}
    BY <1>0, <1>3 DEF PermanentError, db, Shape, TypeOK, Processes, noJob
  <2>2. wallets[Request[job'[k].op].wallet].version > 0
    BY <1>0, <2>1 DEF Locks, OpenedOnce, walletOf
  <2> QED
    BY <1>0, <2>1, <2>2, LocksProceed, ChainFrame
<1> QED
  BY <1>1, <1>2, <1>3 DEF Failure

(* The inductive invariant.                                                *)
LEMMA SafeStep == SafeInv /\ [Next]_vars => SafeInv'
<1> SUFFICES ASSUME SafeInv, [Next]_vars PROVE Locks' /\ LedgerChain'
  BY ShapeStep DEF SafeInv
<1>1. CASE Tick \/ UNCHANGED vars
  BY <1>1, ChainFrame
     DEF Tick, db, vars, SafeInv, Locks, OneSettlementPerWallet, ReadUnderLockIsCurrent,
         UnderWalletLock, OpenedOnce, walletOf, Stored
<1>2. ASSUME NEW p \in Processes, DeadlockVictim(p) PROVE Locks' /\ LedgerChain'
  BY <1>2, RunAgainSafe, LocksFinish, ChainFrame
     DEF DeadlockVictim, SafeInv, db, Stored
<1> QED
  BY <1>1, <1>2, HandlerStepSafe, WorkerStepSafe, FailureSafe DEF Next

(* The inductive invariant holds of every behaviour of the service.        *)
LEMMA SafeAlways == Spec => []SafeInv
<1>1. Init => SafeInv
  BY ShapeInit, LocksInit, ChainInit DEF SafeInv
<1> QED
  BY <1>1, SafeStep, PTL DEF Spec

(* FindForUpdate serialises the settlements of a wallet, whatever the      *)
(* processes, the operations and the failures.                             *)
THEOREM MutualExclusion == Spec => []OneSettlementPerWallet
<1>1. SafeInv => OneSettlementPerWallet
  BY DEF SafeInv, Locks
<1> QED
  BY <1>1, SafeAlways, PTL

(* What was read under the wallet lock is what the commit finds: the       *)
(* version check of the wallet update can never fail, and no update is     *)
(* lost.                                                                   *)
THEOREM NoLostUpdate == Spec => []ReadUnderLockIsCurrent
<1>1. SafeInv => ReadUnderLockIsCurrent
  BY DEF SafeInv, Locks
<1> QED
  BY <1>1, SafeAlways, PTL

(* The ledger of every wallet is an unbroken chain of movements that ends  *)
(* at the balance the wallet holds.                                        *)
THEOREM LedgerAlwaysChained == Spec => []LedgerChain
<1>1. SafeInv => LedgerChain
  BY DEF SafeInv
<1> QED
  BY <1>1, SafeAlways, PTL

=============================================================================
