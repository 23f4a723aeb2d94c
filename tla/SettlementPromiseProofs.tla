---------------------- MODULE SettlementPromiseProofs ----------------------
(***************************************************************************)
(* Theorems about what the settlement promises to those outside: the       *)
(* answers providers get, the inbox, the wake-ups of waiting operations,   *)
(* the book of WalletBook that the settlement implements, the conservation *)
(* of money, and the constraints and triggers of the database, which       *)
(* accept what it writes.                                                  *)
(***************************************************************************)
EXTENDS SettlementOutcomeProofs, SettlementBook, Sums

-----------------------------------------------------------------------------
(* Answers.                                                                *)

(* Two operations with the same key and the same payload are the same.     *)
LEMMA SamePayloadIsSame ==
    ASSUME NEW r \in Requests, NEW o \in Requests
    PROVE  /\ SameKey(r, o) /\ SamePayload(r, o) => r = o
           /\ SameKey(r, r) /\ SamePayload(r, r)
<1>1. ASSUME NEW s \in Requests, NEW key, key = Request[s].key
      PROVE  [Request[s] EXCEPT !.key = key] = Request[s]
  <2> DEFINE row == Request[s]
  <2>1. row = [column \in DOMAIN row |-> row[column]]
    BY RecordAssumption
  <2> HIDE DEF row
  <2>2. [row EXCEPT !.key = key] = [column \in DOMAIN row |-> IF column = "key" THEN key ELSE row[column]]
    BY <2>1
  <2>3. row["key"] = key
    BY <1>1 DEF row
  <2> QED
    BY <2>1, <2>2, <2>3 DEF row
<1>2. SameKey(r, o) => Request[r].key = Request[o].key
  BY DEF SameKey
<1> QED
  BY <1>1, <1>2, ProcessAssumption DEF SameKey, SamePayload


(* What a handler works on comes from a delivery, and stays.               *)
SameDelivery(h) ==
    /\ job'[h].op = job[h].op
    /\ job'[h].message = job[h].message
    /\ job'[h].body = job[h].body

FromDelivery(h, d) ==
    /\ job'[h].op = d.request
    /\ job'[h].message = d.message
    /\ job'[h].body = d.body

(* A replay turns to the operation that is stored.                         *)
TurnsTo(h, o) ==
    /\ pc[h] = "replay" /\ pc'[h] = "commitReplay"
    /\ UNCHANGED txs
    /\ SameKey(job[h].op, o) /\ SamePayload(job[h].op, o)
    /\ job'[h] = [job[h] EXCEPT !.op = o, !.answer = txs[o].status]

(* How a handler comes to what it works on after a step.                   *)
LEMMA HandlerForms ==
    ASSUME Shape, [Next]_vars, NEW h \in Handlers, pc'[h] \in RequestPCs
    PROVE  \/ /\ pc[h] \in RequestPCs /\ SameDelivery(h)
              /\ pc'[h] = "commitReplay" => pc[h] = "commitReplay" /\ job'[h].answer = job[h].answer
           \/ /\ \E d \in Deliveries : FromDelivery(h, d)
              /\ pc'[h] \in {"insert", "inbox"}
           \/ \E o \in Requests : TurnsTo(h, o)
<1> DEFINE Goes == /\ pc[h] \in RequestPCs /\ SameDelivery(h)
                   /\ pc'[h] = "commitReplay" =>
                        pc[h] = "commitReplay" /\ job'[h].answer = job[h].answer
           Goal == \/ Goes
                   \/ /\ \E d \in Deliveries : FromDelivery(h, d)
                      /\ pc'[h] \in {"insert", "inbox"}
                   \/ \E o \in Requests : TurnsTo(h, o)
<1>0. /\ pc \in [Processes -> PCs] /\ job \in [Processes -> Jobs] /\ h \in Processes
      /\ h \notin Workers
  BY ProcessAssumption DEF Shape, TypeOK, Processes
<1>1. ASSUME pc'[h] = pc[h], job'[h] = job[h] PROVE Goes
  BY <1>1 DEF SameDelivery
<1>2. ASSUME NEW q \in Processes, Goto(q, "idle"), \A p \in Processes \ {q} : job'[p] = job[p]
      PROVE  Goes
  <2>1. q # h
    BY <1>0, <1>2 DEF Goto, RequestPCs
  <2> QED
    BY <1>0, <1>1, <1>2, <2>1 DEF Goto
<1>3. ASSUME NEW q \in Processes, Finish(q) PROVE Goes
  BY <1>0, <1>2, <1>3 DEF Finish
<1>4. ASSUME NEW q \in Processes, q # h, NEW label, Goto(q, label), \A p \in Processes \ {q} : job'[p] = job[p]
      PROVE  Goes
  BY <1>0, <1>1, <1>4 DEF Goto
<1>5. ASSUME NEW label \in RequestPCs \ {"commitReplay"}, pc[h] \in RequestPCs, Goto(h, label), UNCHANGED job
      PROVE  Goes
  BY <1>0, <1>5 DEF Goto, SameDelivery
<1>6. ASSUME NEW g \in Handlers, Arrival(g) PROVE Goal
  <2>1. CASE g = h
    <3>1. ASSUME NEW d \in Deliveries, Begin(h, d) PROVE Goal
      BY <1>0, <3>1 DEF Begin, Arrive, Goto, FromDelivery, FirstStatement, noJob
    <3>2. ASSUME NEW w \in Wallets, NEW b \in OpeningBalances, BeginOpening(h, w, b) PROVE Goal
      BY <1>0, <3>2 DEF BeginOpening, Arrive, Goto, RequestPCs
    <3> HIDE DEF Goal
    <3> QED
      BY <1>6, <2>1, <3>1, <3>2 DEF Arrival
  <2>2. CASE g # h
    <3>1. /\ g \in Processes /\ \A p \in Processes \ {g} : job'[p] = job[p]
          /\ \E label \in {"inbox", "insert", "create"} : Goto(g, label)
      BY <1>0, <1>6 DEF Arrival, Begin, BeginOpening, Arrive, FirstStatement, Processes
    <3> QED
      BY <1>4, <2>2, <3>1
  <2> QED
    BY <2>1, <2>2
<1>7. ASSUME NEW g \in Handlers, RegisterInbox(g) \/ Insert(g) \/ CreateWallet(g) PROVE Goes
  <2>0. g \in Processes
    BY DEF Processes
  <2>1. CASE Finish(g)
    BY <1>3, <2>0, <2>1
  <2>2. ASSUME NEW label \in {"insert", "replay", "lock", "commitOpening"}, Goto(g, label), UNCHANGED job
        PROVE  Goes
    <3>1. CASE g # h
      BY <1>4, <2>0, <2>2, <3>1
    <3>2. CASE g = h
      <4>1. label # "commitOpening"
        BY <1>0, <2>2, <3>2 DEF Goto, RequestPCs
      <4>2. pc[h] \in RequestPCs \/ CreateWallet(h)
        BY <1>7, <3>2 DEF RegisterInbox, Insert, RequestPCs
      <4>3. ~CreateWallet(h)
        BY <1>0, <2>2, <3>2, <4>1 DEF CreateWallet, Proceed, Finish, Goto, RequestPCs
      <4> QED
        BY <1>5, <2>2, <3>2, <4>1, <4>2, <4>3 DEF RequestPCs
    <3> QED
      BY <3>1, <3>2
  <2> QED
    BY <1>7, <2>1, <2>2 DEF RegisterInbox, Insert, CreateWallet, Proceed, Refuse
<1>8. ASSUME NEW g \in Handlers, Replay(g) PROVE Goal
  <2>0. g \in Processes /\ pc[g] = "replay"
    BY <1>8 DEF Processes, Replay
  <2>1. CASE Finish(g)
    BY <1>3, <2>0, <2>1
  <2>2. ASSUME NEW o \in Requests, SameKey(job[g].op, o), SamePayload(job[g].op, o),
               Proceed(g, "commitReplay"),
               job' = [job EXCEPT ![g].op = o, ![g].answer = txs[o].status]
        PROVE  Goal
    <3>1. CASE g # h
      BY <1>0, <1>4, <2>0, <2>2, <3>1 DEF Proceed
    <3>2. CASE g = h
      BY <1>0, <2>0, <2>2, <3>2 DEF TurnsTo, Proceed, Goto, db
    <3> QED
      BY <3>1, <3>2
  <2> QED
    BY <1>8, <2>1, <2>2 DEF Replay, Refuse
<1>9. ASSUME NEW p \in Processes, LockWallet(p) \/ Settle(p) \/ WakeUp(p) PROVE Goes
  <2> DEFINE d == Decide(job[p].balance, job[p].op, resolveReference(p), deadlineReached(p))
  <2>1. CASE p # h
    BY <1>0, <1>1, <1>9, <2>1, UnderLockForm DEF Only
  <2>2. CASE p = h
    <3>1. pc[h] \in SettlingLabels /\ pc'[h] \in SettlingLabels
      BY <1>9, <2>2, UnderLockForm
    <3>2. SameDelivery(h)
      <4> HIDE DEF d
      <4>1. \/ job' = [job EXCEPT ![h].decision = d]
            \/ job' = [job EXCEPT ![h].woken = Waiting(h), ![h].missed = MetLocked(h)]
            \/ job' = [job EXCEPT ![h].balance = wallets[walletOf(h)].balance,
                                  ![h].version = wallets[walletOf(h)].version]
        BY <1>9, <2>2 DEF LockWallet, Settle, WakeUp, d
      <4> QED
        BY <1>0, <4>1 DEF SameDelivery, Jobs
    <3> QED
      BY <3>1, <3>2 DEF RequestPCs, SettlingLabels
  <2> QED
    BY <2>1, <2>2
<1>10. ASSUME NEW g \in Handlers, HandlerStep(g) PROVE Goal
  <2>1. g \in Processes
    BY DEF Processes
  <2>2. ASSUME NEW heard \in BOOLEAN, CommitReplay(g, heard) \/ CommitRequest(g, heard) PROVE Finish(g)
    BY <2>2 DEF CommitReplay, CommitRequest, CommitSettlement
  <2>3. CommitOpening(g) => Finish(g)
    BY DEF CommitOpening
  <2> HIDE DEF Goes
  <2>4. Goes => Goal
    OBVIOUS
  <2> HIDE DEF Goal
  <2> QED
    BY <1>3, <1>7, <1>8, <1>9, <1>10, <2>1, <2>2, <2>3, <2>4 DEF HandlerStep
<1>11. ASSUME NEW k \in Workers, WorkerStep(k) \/ RetryAttempt(k) \/ PermanentError(k) PROVE Goes
  <2>0. k \in Processes /\ k # h
    BY <1>0 DEF Processes
  <2>1. ASSUME CommitRetry(k) \/ CommitGiveUp(k) PROVE Finish(k)
    BY <2>1 DEF CommitRetry, CommitSettlement, CommitGiveUp
  <2>2. ASSUME \/ BeginAttempt(k) \/ ScanPending(k) \/ ClaimDuePending(k) \/ GiveUp(k)
               \/ RetryAttempt(k) \/ PermanentError(k)
        PROVE  /\ \E label \in PCs : Goto(k, label)
               /\ \A p \in Processes \ {k} : job'[p] = job[p]
    <3>1. k \notin Handlers
      BY ProcessAssumption
    <3> QED
      BY <1>0, <2>0, <2>2, <3>1
         DEF BeginAttempt, ScanPending, ClaimDuePending, GiveUp, RetryAttempt, RunAgain,
             PermanentError, Proceed, Finish, PCs
  <2> HIDE DEF Goes
  <2> QED
    BY <1>3, <1>4, <1>9, <1>11, <2>0, <2>1, <2>2 DEF WorkerStep
<1>12. ASSUME NEW p \in Processes, Abort(p) PROVE Goes
  BY <1>3, <1>12 DEF Abort
<1>13. ASSUME Tick \/ UNCHANGED vars PROVE Goes
  BY <1>1, <1>13 DEF Tick, vars
<1>14. ASSUME NEW p \in Processes, DeadlockVictim(p) PROVE Goes
  <2>1. CASE p # h
    <3>1. /\ \A q \in Processes \ {p} : job'[q] = job[q]
          /\ \E label : Goto(p, label)
      BY <1>0, <1>14 DEF DeadlockVictim, RunAgain, Finish
    <3> QED
      BY <1>4, <2>1, <3>1
  <2>2. CASE p = h
    <3>1. RunAgain(h)
      BY <1>3, <1>14, <2>2 DEF DeadlockVictim, Finish, Goto, RequestPCs, Shape, TypeOK
    <3>2. pc[h] \in RequestPCs
      BY <1>14, <2>2, DeadlockedLabel DEF DeadlockVictim, RequestPCs
    <3>3. /\ pc'[h] = FirstStatement(job[h].message)
          /\ job'[h] = [noJob EXCEPT !.op = job[h].op, !.message = job[h].message,
                                     !.body = job[h].body, !.now = clock]
      BY <1>0, <3>1 DEF RunAgain, Goto
    <3>4. SameDelivery(h) /\ pc'[h] \in {"insert", "inbox"}
      BY <3>3 DEF FirstStatement, SameDelivery, noJob
    <3> QED
      BY <3>2, <3>4
  <2> QED
    BY <2>1, <2>2
<1> HIDE DEF Goes
<1>15. Goes => Goal
  OBVIOUS
<1> HIDE DEF Goal
<1>16. Goal
  BY <1>6, <1>10, <1>11, <1>12, <1>13, <1>14, <1>15 DEF Next, Failure
<1> QED
  BY <1>16 DEF Goal, Goes


(* How an operation comes to a new answer.                                 *)
NewAnswer(h, r, a) ==
    \/ a \in {"PAYLOAD_MISMATCH", "WALLET_NOT_FOUND"}
    \/ /\ UNCHANGED txs
       /\ \/ LET i == inbox[job[h].message] IN
             /\ pc[h] = "inbox"
             /\ i # noInboxRow /\ i.body = job[h].body /\ a = txs[i.tx].status
          \/ /\ pc[h] = "replay"
             /\ \E o \in Requests : /\ Stored(o) /\ SameKey(r, o) /\ SamePayload(r, o)
                                    /\ a = txs[o].status
          \/ /\ a = "IDEMPOTENCY_KEY"
             /\ \E o \in Requests : Stored(o) /\ SameKey(r, o) /\ ~SamePayload(r, o)
          \/ /\ a = "EXTERNAL_ID"
             /\ ~\E o \in Requests : Stored(o) /\ SameKey(r, o)
             /\ \E o \in Requests : Stored(o) /\ SameExternalID(r, o)
          \/ pc[h] = "commitReplay" /\ a = job[h].answer
    \/ CommitSettlement(h) /\ a = SettledRow(h).status

(* Every answer is given by a handler, about what it works on.             *)
LEMMA AnswerForms ==
    ASSUME Shape, [Next]_vars, NEW r \in Requests, NEW a \in told'[r], a \notin told[r]
    PROVE  \E h \in Handlers : r = job[h].op /\ NewAnswer(h, r, a)
<1>0. told \in [Requests -> SUBSET Answers] /\ told'[r] # told[r]
  BY DEF Shape, TypeOK
<1>1. ASSUME NEW s, NEW b, Answer(s, b) PROVE s = r /\ a = b
  BY <1>0, <1>1 DEF Answer
<1>2. ASSUME NEW h \in Handlers, NEW b, Refuse(h, b) PROVE r = job[h].op /\ a = b /\ UNCHANGED txs
  BY <1>1, <1>2 DEF Refuse, db
<1>3. ASSUME UNCHANGED told PROVE FALSE
  BY <1>0, <1>3
<1>4. ASSUME NEW h \in Handlers, HandlerStep(h)
      PROVE  r = job[h].op /\ NewAnswer(h, r, a)
  <2>1. CASE RegisterInbox(h)
    <3>1. ~Proceed(h, "insert")
      BY <1>3 DEF Proceed
    <3> QED
      BY <1>2, <2>1, <3>1 DEF RegisterInbox, NewAnswer
  <2>2. CASE Insert(h)
    <3>1. ~Proceed(h, "replay") /\ ~Proceed(h, "lock")
      BY <1>3 DEF Proceed
    <3> QED
      BY <1>2, <2>2, <3>1 DEF Insert, NewAnswer
  <2>3. CASE Replay(h)
    <3>1. ~Proceed(h, "commitReplay")
      BY <1>3 DEF Proceed
    <3>2. CASE \E o \in Requests : /\ Stored(o) /\ SameKey(job[h].op, o) /\ SamePayload(job[h].op, o)
                                   /\ Refuse(h, txs[o].status)
      BY <1>2, <2>3, <3>2 DEF Replay, NewAnswer
    <3>3. CASE /\ \E o \in Requests : Stored(o) /\ SameKey(job[h].op, o) /\ ~SamePayload(job[h].op, o)
               /\ Refuse(h, "IDEMPOTENCY_KEY")
      BY <1>2, <3>3 DEF NewAnswer
    <3>4. CASE /\ ~\E o \in Requests : Stored(o) /\ SameKey(job[h].op, o)
               /\ \E o \in Requests : Stored(o) /\ SameExternalID(job[h].op, o)
               /\ Refuse(h, "EXTERNAL_ID")
      BY <1>2, <3>4 DEF NewAnswer
    <3> QED
      BY <2>3, <3>1, <3>2, <3>3, <3>4 DEF Replay
  <2>4. ASSUME NEW heard \in BOOLEAN, CommitReplay(h, heard)
        PROVE  r = job[h].op /\ NewAnswer(h, r, a)
    BY <1>1, <1>3, <2>4 DEF CommitReplay, Report, NewAnswer
  <2>5. ASSUME NEW heard \in BOOLEAN, CommitRequest(h, heard)
        PROVE  r = job[h].op /\ NewAnswer(h, r, a)
    BY <1>1, <1>3, <2>5 DEF CommitRequest, Report, NewAnswer
  <2>6. CASE LockWallet(h) \/ Settle(h) \/ WakeUp(h) \/ CreateWallet(h) \/ CommitOpening(h)
    BY <1>3, <2>6 DEF LockWallet, Settle, WakeUp, CreateWallet, CommitOpening, Proceed
  <2> QED
    BY <1>4, <2>1, <2>2, <2>3, <2>4, <2>5, <2>6 DEF HandlerStep
<1>5. ASSUME NEW h \in Handlers, Arrival(h) PROVE FALSE
  BY <1>3, <1>5 DEF Arrival, Begin, BeginOpening, Arrive
<1>6. ASSUME NEW k \in Workers, WorkerStep(k) PROVE FALSE
  BY <1>3, <1>6 DEF WorkerStep, BeginAttempt, ScanPending, ClaimDuePending, LockWallet,
                    Settle, WakeUp, CommitRetry, GiveUp, CommitGiveUp, Proceed
<1>7. ~(\/ \E p \in Processes : DeadlockVictim(p)
        \/ Failure \/ Tick \/ UNCHANGED vars)
  BY <1>3 DEF DeadlockVictim, Failure, Abort, RetryAttempt, PermanentError, Tick, vars
<1> QED
  BY <1>4, <1>5, <1>6, <1>7 DEF Next

(* A message is stored by the transaction of the handler that has it.      *)
LEMMA InboxForms ==
    ASSUME Shape, [Next]_vars, NEW m \in Messages, inbox'[m] # inbox[m]
    PROVE  \E h \in Handlers :
             LET j == job[h] IN
             /\ m = j.message
             /\ \/ /\ pc[h] = "commitReplay" /\ UNCHANGED <<txs, outbox>>
                   /\ inbox'[m] = [body |-> j.body, tx |-> j.op, outcome |-> "REPLAY"]
                \/ /\ CommitSettlement(h)
                   /\ inbox'[m] = [body |-> j.body, tx |-> j.op,
                                   outcome |-> SettledRow(h).status]
<1>0. inbox \in [Messages -> InboxRows]
  BY DEF Shape, TypeOK
<1>1. ASSUME NEW h \in Handlers, NEW heard \in BOOLEAN, CommitReplay(h, heard)
      PROVE  LET j == job[h] IN
             /\ m = j.message /\ pc[h] = "commitReplay" /\ UNCHANGED <<txs, outbox>>
             /\ inbox'[m] = [body |-> j.body, tx |-> j.op, outcome |-> "REPLAY"]
  BY <1>0, <1>1 DEF CommitReplay
<1>2. ASSUME NEW h \in Handlers, NEW heard \in BOOLEAN, CommitRequest(h, heard)
      PROVE  LET j == job[h] IN
             /\ m = j.message /\ CommitSettlement(h)
             /\ inbox'[m] = [body |-> j.body, tx |-> j.op, outcome |-> SettledRow(h).status]
  BY <1>0, <1>2 DEF CommitRequest, CommitSettlement
<1>3. ASSUME \/ UNCHANGED db
             \/ \E h \in Handlers : CommitOpening(h)
             \/ \E k \in Workers : CommitRetry(k) \/ CommitGiveUp(k)
      PROVE  FALSE
  BY <1>3, ProcessAssumption DEF db, CommitOpening, CommitRetry, CommitSettlement, CommitGiveUp
<1> QED
  BY <1>1, <1>2, <1>3, TablesForm

(* What is stored stays stored.                                            *)
LEMMA StoredStays ==
    ASSUME RowsInv, [Next]_vars, NEW r \in Requests, Stored(r)
    PROVE  Stored(r)'
<1> USE DEF RowsInv, DecidedInv, OwnedInv, SafeInv
<1>0. txs[r] \in Rows
  BY DEF Shape, TypeOK
<1>1. \A t \in Nat \ {0} : [txs[r] EXCEPT !.nextAt = t].status = txs[r].status
  BY <1>0 DEF Rows
<1>2. FailedRow(r).status = "FAILED"
  BY <1>0 DEF FailedRow, Rows
<1>3. ASSUME NEW p \in Processes, CommitSettlement(p) PROVE SettledRow(p).status # "ABSENT"
  <2>1. pc[p] = "commit"
    BY <1>3, CommitForm
  <2> QED
    BY <2>1, SettledRowForm
<1> QED
  BY <1>1, <1>2, <1>3, RowForms DEF Stored


(* The first event of an operation stays the first.                        *)
LEMMA FirstEventStays ==
    ASSUME Shape, [Next]_vars, NEW r \in Requests, outbox[r] # << >>
    PROVE  outbox'[r] # << >> /\ outbox'[r][1] = outbox[r][1]
<1>1. outbox[r] \in Seq(EventTypes)
  BY DEF Shape, TypeOK, Operations
<1>2. ASSUME NEW s \in Seq(EventTypes), NEW t \in Seq(EventTypes), s # << >>
      PROVE  s \o t # << >> /\ (s \o t)[1] = s[1]
  <2>1. Len(s) \in Nat \ {0} /\ Len(t) \in Nat
    BY <1>2, EmptySeq
  <2>2. Len(s \o t) = Len(s) + Len(t) /\ (s \o t)[1] = s[1] /\ s \o t \in Seq(EventTypes)
    BY <2>1, ConcatProperties
  <2> QED
    BY <2>1, <2>2, EmptySeq
<1> QED
  BY <1>1, <1>2, EventsType, OutboxForms

(* What the inbox, the answers given and the answers under way say of the  *)
(* operations.                                                             *)
AnswersInv ==
    /\ JobsAreDeliveries /\ ReplaysAgree /\ ConflictsStand
    /\ InboxAgrees /\ AnswersNeverContradict

(* The inductive invariant that it completes.                              *)
ToldInv == RowsInv /\ EventsTellTheOutcome

(* Nothing is told or under way at the start.                              *)
LEMMA AnswersInit == Init => AnswersInv
BY DEF Init, AnswersInv, JobsAreDeliveries, ReplaysAgree, ConflictsStand, InboxAgrees,
       AnswersNeverContradict, Processes, RequestPCs

(* What a handler works on, or is going to report, is right.               *)
LEMMA JobsAnswerStep ==
    ASSUME ToldInv, JobsAreDeliveries, ReplaysAgree, [Next]_vars
    PROVE  JobsAreDeliveries' /\ ReplaysAgree'
<1> USE DEF ToldInv, RowsInv, DecidedInv, OwnedInv, SafeInv
<1>0. /\ Handlers \subseteq Processes
      /\ \A r \in Requests : Terminal(txs[r].status) => txs'[r] = txs[r]
  BY TerminalRowsStay DEF Processes
<1>1. ASSUME NEW h \in Handlers, NEW o \in Requests, TurnsTo(h, o)
      PROVE  /\ pc[h] = "replay" /\ SameDelivery(h)
             /\ txs' = txs /\ job'[h].answer = txs[job'[h].op].status
  <2>1. job[h] \in Jobs /\ job[h].op \in Requests /\ pc[h] = "replay"
    BY <1>0, <1>1 DEF TurnsTo, Shape, TypeOK, JobsFit, JobFits, RequestPCs
  <2>2. job'[h].op = o /\ job'[h].answer = txs[o].status
        /\ job'[h].message = job[h].message /\ job'[h].body = job[h].body
    BY <1>1, <2>1 DEF TurnsTo, Jobs
  <2>3. job[h].op = o
    BY <1>1, <2>1, SamePayloadIsSame DEF TurnsTo
  <2> QED
    BY <1>1, <2>1, <2>2, <2>3 DEF TurnsTo, SameDelivery
<1>2. ASSUME NEW h \in Handlers, pc'[h] \in RequestPCs
      PROVE  \E d \in Deliveries : FromDelivery(h, d)
  <2>1. ASSUME pc[h] \in RequestPCs, SameDelivery(h) PROVE \E d \in Deliveries : FromDelivery(h, d)
    BY <2>1 DEF JobsAreDeliveries, SameDelivery, FromDelivery
  <2> QED
    BY <1>1, <1>2, <2>1, HandlerForms DEF RequestPCs
<1>3. ASSUME NEW h \in Handlers, pc'[h] = "commitReplay",
             job'[h].answer \in {"PROCESSED", "REJECTED", "FAILED"}
      PROVE  txs'[job'[h].op].status = job'[h].answer
  <2>1. ASSUME pc[h] = "commitReplay", SameDelivery(h), job'[h].answer = job[h].answer
        PROVE  txs'[job'[h].op].status = job'[h].answer
    <3>1. job[h].op \in Requests
      BY <1>0, <2>1 DEF Shape, JobsFit, JobFits, RequestPCs
    <3>2. txs[job[h].op].status = job[h].answer
      BY <1>3, <2>1 DEF ReplaysAgree
    <3>3. txs'[job[h].op] = txs[job[h].op]
      BY <1>0, <1>3, <2>1, <3>1, <3>2 DEF Terminal
    <3> QED
      BY <2>1, <3>2, <3>3 DEF SameDelivery
  <2> QED
    BY <1>1, <1>3, <2>1, HandlerForms DEF RequestPCs
<1> QED
  BY <1>2, <1>3 DEF JobsAreDeliveries, ReplaysAgree, FromDelivery

(* A message that is stored asked for the operation its row names.         *)
LEMMA StoredMessage ==
    ASSUME ToldInv, AnswersInv, NEW h \in Handlers, pc[h] = "inbox",
           inbox[job[h].message] # noInboxRow, inbox[job[h].message].body = job[h].body
    PROVE  inbox[job[h].message].tx = job[h].op
<1>1. h \in Processes /\ job[h].message \in Messages
  BY DEF Processes, ToldInv, RowsInv, DecidedInv, OwnedInv, SafeInv, Shape, JobsFit, JobFits
<1>2. PICK d \in Deliveries : d.request = job[h].op /\ d.body = job[h].body
  BY DEF AnswersInv, JobsAreDeliveries, RequestPCs
<1>3. PICK e \in Deliveries : e.request = inbox[job[h].message].tx /\ e.body = inbox[job[h].message].body
  BY <1>1 DEF AnswersInv, InboxAgrees
<1> QED
  BY <1>2, <1>3, ProcessAssumption

(* What a new answer says about an operation is true after the step.       *)
LEMMA NewAnswerTrue ==
    ASSUME ToldInv, AnswersInv, [Next]_vars,
           NEW h \in Handlers, NEW r \in Requests, r = job[h].op, NEW a, NewAnswer(h, r, a)
    PROVE  /\ a \in {"PROCESSED", "REJECTED", "FAILED"} => txs'[r].status = a
           /\ a = "PENDING_REFERENCE" => txs'[r].status # "ABSENT"
           /\ a \in {"IDEMPOTENCY_KEY", "EXTERNAL_ID"} =>
                \E o \in Requests : o # r /\ Stored(o) /\ Conflicts(r, o)
<1> USE DEF ToldInv, RowsInv, DecidedInv, OwnedInv, SafeInv
<1>0. /\ h \in Processes /\ job[h] \in Jobs
      /\ \A o \in Requests : txs[o].status \in Statuses
      /\ SameKey(r, r) /\ SamePayload(r, r)
      /\ {"IDEMPOTENCY_KEY", "EXTERNAL_ID"} \cap Statuses = {}
      /\ job[h].answer \in Statuses
  BY SamePayloadIsSame DEF Processes, Shape, TypeOK, Rows, Jobs, Statuses
<1>1. CASE a \in {"PAYLOAD_MISMATCH", "WALLET_NOT_FOUND"}
  BY <1>1
<1>2. CASE CommitSettlement(h) /\ a = SettledRow(h).status
  <2>1. pc[h] = "commit" /\ txs'[r] = SettledRow(h)
    BY <1>0, <1>2, CommitForm
  <2> DEFINE row == SettledRow(h)
  <2>2. row = SettledRow(h)
    OBVIOUS
  <2> HIDE DEF row
  <2>3. row.status \in {"PROCESSED", "REJECTED", "PENDING_REFERENCE"}
    BY <1>0, <2>1, <2>2, SettledRowForm
  <2> QED
    BY <1>2, <2>1, <2>2, <2>3
<1>3. CASE UNCHANGED txs /\ a = txs[r].status
  BY <1>0, <1>3
<1>4. CASE UNCHANGED txs /\ pc[h] = "commitReplay" /\ a = job[h].answer
  <2>1. Stored(r)
    BY <1>0, <1>4 DEF Shape, JobsFit, JobFits
  <2>2. a \in {"PROCESSED", "REJECTED", "FAILED"} => txs[r].status = a
    BY <1>4 DEF AnswersInv, ReplaysAgree
  <2> QED
    BY <1>0, <1>4, <2>1, <2>2 DEF Stored
<1>5. CASE a = "IDEMPOTENCY_KEY" /\ \E o \in Requests : Stored(o) /\ SameKey(r, o) /\ ~SamePayload(r, o)
  BY <1>0, <1>5 DEF Conflicts
<1>6. CASE /\ a = "EXTERNAL_ID"
           /\ ~\E o \in Requests : Stored(o) /\ SameKey(r, o)
           /\ \E o \in Requests : Stored(o) /\ SameExternalID(r, o)
  BY <1>0, <1>6 DEF Conflicts
<1> QED
  BY <1>1, <1>2, <1>3, <1>4, <1>5, <1>6, StoredMessage, SamePayloadIsSame DEF NewAnswer

(* Every answer given stays true.                                          *)
LEMMA AnswersStep ==
    ASSUME ToldInv, AnswersInv, [Next]_vars
    PROVE  ConflictsStand' /\ AnswersNeverContradict'
<1> USE DEF ToldInv, RowsInv, DecidedInv, OwnedInv, SafeInv
<1>0. /\ \A r \in Requests : Terminal(txs[r].status) => txs'[r] = txs[r]
      /\ \A r \in Requests : Stored(r) => txs'[r].status # "ABSENT"
  BY TerminalRowsStay, StoredStays DEF Stored
<1>1. ASSUME NEW r \in Requests, NEW a \in told'[r], a \notin told[r]
      PROVE  /\ a \in {"PROCESSED", "REJECTED", "FAILED"} => txs'[r].status = a
             /\ a = "PENDING_REFERENCE" => txs'[r].status # "ABSENT"
             /\ a \in {"IDEMPOTENCY_KEY", "EXTERNAL_ID"} =>
                  \E o \in Requests : o # r /\ Stored(o) /\ Conflicts(r, o)
  BY <1>1, AnswerForms, NewAnswerTrue
<1>2. ConflictsStand'
  <2> SUFFICES ASSUME NEW r \in Requests, NEW a \in {"IDEMPOTENCY_KEY", "EXTERNAL_ID"}, a \in told'[r]
               PROVE  \E o \in Requests : o # r /\ txs'[o].status # "ABSENT" /\ Conflicts(r, o)
    BY DEF ConflictsStand, Stored, Conflicts, SameKey, SameExternalID
  <2>1. \E o \in Requests : o # r /\ Stored(o) /\ Conflicts(r, o)
    BY <1>1 DEF AnswersInv, ConflictsStand
  <2> QED
    BY <1>0, <2>1
<1>3. AnswersNeverContradict'
  <2> SUFFICES ASSUME NEW r \in Requests
               PROVE  /\ \A s \in {"PROCESSED", "REJECTED", "FAILED"} :
                           s \in told'[r] => txs'[r].status = s
                      /\ "PENDING_REFERENCE" \in told'[r] => txs'[r].status # "ABSENT"
                      /\ {"IDEMPOTENCY_KEY", "EXTERNAL_ID"} \cap told'[r] # {} =>
                           txs'[r].status = "ABSENT"
    BY DEF AnswersNeverContradict, Stored
  <2>1. ASSUME NEW s \in {"PROCESSED", "REJECTED", "FAILED"}, s \in told'[r]
        PROVE  txs'[r].status = s
    <3>1. CASE s \in told[r]
      <4>1. txs[r].status = s
        BY <3>1 DEF AnswersInv, AnswersNeverContradict
      <4> QED
        BY <1>0, <4>1 DEF Terminal
    <3> QED
      BY <1>1, <2>1, <3>1
  <2>2. "PENDING_REFERENCE" \in told'[r] => txs'[r].status # "ABSENT"
    <3>1. "PENDING_REFERENCE" \in told[r] => Stored(r)
      BY DEF AnswersInv, AnswersNeverContradict
    <3> QED
      BY <1>0, <1>1, <3>1
  <2>3. ASSUME {"IDEMPOTENCY_KEY", "EXTERNAL_ID"} \cap told'[r] # {}
        PROVE  txs'[r].status = "ABSENT"
    <3>1. PICK o \in Requests : o # r /\ txs'[o].status # "ABSENT" /\ Conflicts(r, o)
      BY <1>2, <2>3 DEF ConflictsStand, Stored, Conflicts, SameKey, SameExternalID
    <3>2. Ownership'
      BY OwnershipStep
    <3> QED
      BY <3>1, <3>2 DEF Ownership, RowsAreUnique, Stored, Conflicts, SameKey, SameExternalID
  <2> QED
    BY <2>1, <2>2, <2>3
<1> QED
  BY <1>2, <1>3


(* The row that a handler stores for its message is right.                 *)
LEMMA NewMessageAgrees ==
    ASSUME ToldInv, AnswersInv, [Next]_vars, EventsTellTheOutcome',
           NEW m \in Messages, inbox'[m] # inbox[m], NEW i, i = inbox'[m]
    PROVE  /\ i.tx \in Requests /\ txs'[i.tx].status # "ABSENT"
           /\ \E d \in Deliveries : d.message = m /\ d.body = i.body /\ d.request = i.tx
           /\ i.outcome \in {"PROCESSED", "REJECTED"} => txs'[i.tx].status = i.outcome
           /\ i.outcome = "PENDING_REFERENCE" =>
                outbox'[i.tx] # << >> /\ outbox'[i.tx][1] = "PendingReference"
<1> USE DEF ToldInv, RowsInv, DecidedInv, OwnedInv, SafeInv
<1>1. PICK h \in Handlers :
        LET j == job[h] IN
        /\ m = j.message
        /\ \/ /\ pc[h] = "commitReplay" /\ UNCHANGED <<txs, outbox>>
              /\ inbox'[m] = [body |-> j.body, tx |-> j.op, outcome |-> "REPLAY"]
           \/ /\ CommitSettlement(h)
              /\ inbox'[m] = [body |-> j.body, tx |-> j.op, outcome |-> SettledRow(h).status]
  BY InboxForms
<1>2. pc[h] \in {"commitReplay", "commit"} /\ h \in Processes
  BY <1>1 DEF CommitSettlement, Processes
<1>3. i.tx = job[h].op /\ i.body = job[h].body /\ job[h].op \in Requests
  BY <1>1, <1>2 DEF Shape, JobsFit, JobFits, RequestPCs
<1>4. \E d \in Deliveries : d.message = m /\ d.body = i.body /\ d.request = i.tx
  BY <1>1, <1>2, <1>3 DEF AnswersInv, JobsAreDeliveries, RequestPCs
<1>5. CASE pc[h] = "commitReplay" /\ UNCHANGED <<txs, outbox>> /\ i.outcome = "REPLAY"
  BY <1>2, <1>3, <1>4, <1>5 DEF Shape, JobsFit, JobFits, Stored
<1>6. CASE CommitSettlement(h) /\ i.outcome = SettledRow(h).status
  <2>1. pc[h] = "commit" /\ txs'[job[h].op] = SettledRow(h)
    BY <1>2, <1>6, CommitForm
  <2> DEFINE row == SettledRow(h)
  <2>2. row = SettledRow(h)
    OBVIOUS
  <2> HIDE DEF row
  <2>3. row.status \in {"PROCESSED", "REJECTED", "PENDING_REFERENCE"}
    BY <1>2, <2>1, <2>2, SettledRowForm
  <2>4. txs'[i.tx].status = i.outcome /\ i.outcome \in {"PROCESSED", "REJECTED", "PENDING_REFERENCE"}
    BY <1>3, <1>6, <2>1, <2>2, <2>3
  <2>5. i.outcome = "PENDING_REFERENCE" =>
          outbox'[i.tx] # << >> /\ outbox'[i.tx][1] = "PendingReference"
    BY <1>3, <2>4 DEF EventsTellTheOutcome
  <2> QED
    BY <1>3, <1>4, <2>4, <2>5
<1>7. \/ pc[h] = "commitReplay" /\ UNCHANGED <<txs, outbox>> /\ i.outcome = "REPLAY"
      \/ CommitSettlement(h) /\ i.outcome = SettledRow(h).status
  BY <1>1
<1> QED
  BY <1>5, <1>6, <1>7, Zenon

(* What the inbox says of its messages stays true.                         *)
LEMMA InboxStep ==
    ASSUME ToldInv, AnswersInv, [Next]_vars, EventsTellTheOutcome'
    PROVE  InboxAgrees'
<1> USE DEF ToldInv, RowsInv, DecidedInv, OwnedInv, SafeInv
<1> DEFINE Agrees(m, i) ==
             /\ i.tx \in Requests /\ txs'[i.tx].status # "ABSENT"
             /\ \E d \in Deliveries : d.message = m /\ d.body = i.body /\ d.request = i.tx
             /\ i.outcome \in {"PROCESSED", "REJECTED"} => txs'[i.tx].status = i.outcome
             /\ i.outcome = "PENDING_REFERENCE" =>
                  outbox'[i.tx] # << >> /\ outbox'[i.tx][1] = "PendingReference"
<1>1. SUFFICES ASSUME NEW m \in Messages, inbox'[m] # noInboxRow PROVE Agrees(m, inbox'[m])
  BY DEF InboxAgrees, Stored
<1>2. CASE inbox'[m] # inbox[m]
  BY <1>2, NewMessageAgrees
<1>3. CASE inbox'[m] = inbox[m]
  <2> DEFINE i == inbox[m]
  <2>1. /\ i.tx \in Requests /\ Stored(i.tx)
        /\ \E d \in Deliveries : d.message = m /\ d.body = i.body /\ d.request = i.tx
        /\ i.outcome \in {"PROCESSED", "REJECTED"} => txs[i.tx].status = i.outcome
        /\ i.outcome = "PENDING_REFERENCE" => outbox[i.tx] # << >> /\ outbox[i.tx][1] = "PendingReference"
    BY <1>1, <1>3 DEF AnswersInv, InboxAgrees
  <2> HIDE DEF i
  <2>2. i.tx \in Requests /\ txs'[i.tx].status # "ABSENT"
    BY <2>1, StoredStays DEF Stored
  <2>3. i.outcome \in {"PROCESSED", "REJECTED"} => txs'[i.tx].status = i.outcome
    BY <2>1, TerminalRowsStay DEF Terminal
  <2>4. i.outcome = "PENDING_REFERENCE" => outbox'[i.tx] # << >> /\ outbox'[i.tx][1] = "PendingReference"
    BY <2>1, FirstEventStays
  <2> QED
    BY <1>3, <2>1, <2>2, <2>3, <2>4 DEF i
<1> QED
  BY <1>2, <1>3

(* The answers, the inbox and the answers under way hold together in every *)
(* behaviour.                                                              *)
LEMMA AnswersAlways == Spec => [](ToldInv /\ AnswersInv)
<1>1. ToldInv /\ ToldInv' /\ AnswersInv /\ [Next]_vars => AnswersInv'
  BY JobsAnswerStep, AnswersStep, InboxStep DEF AnswersInv, ToldInv
<1> QED
  BY <1>1, AnswersInit, RowsAlways, EventsAlwaysTellTheOutcome, PTL DEF Spec, ToldInv

(* A final answer is the stored outcome whatever was retried, redelivered  *)
(* or lost since, an accepted operation is stored, and a duplicate that    *)
(* was refused never takes effect.                                         *)
THEOREM AnswersAreKept == Spec => []AnswersNeverContradict
BY AnswersAlways, PTL DEF AnswersInv

(* A stored message names the operation its body asked for, and the        *)
(* outcome that operation had when the message was handled.                *)
THEOREM InboxAlwaysAgrees == Spec => []InboxAgrees
BY AnswersAlways, PTL DEF AnswersInv


-----------------------------------------------------------------------------
(* Wake-ups.                                                               *)

(* How an operation comes to wait, or goes on waiting.                     *)
LEMMA WaitingForms ==
    ASSUME RowsInv, [Next]_vars, NEW r \in Requests, txs'[r].status = "PENDING_REFERENCE"
    PROVE  \/ txs'[r] = txs[r]
           \/ txs[r].status = "PENDING_REFERENCE" /\ txs'[r].nextAt <= clock
           \/ \E p \in Processes : CommitSettlement(p) /\ r = job[p].op /\ WaitStands(p)
<1> USE DEF RowsInv, DecidedInv, OwnedInv, SafeInv
<1>0. txs[r] \in Rows /\ clock \in Nat /\ WokenRowsWait /\ KeptRowsStored
  BY ClockNat DEF Shape, TypeOK, Ownership
<1>1. ASSUME NEW p \in Processes, CommitSettlement(p), r # job[p].op
      PROVE  \/ txs'[r] = txs[r]
             \/ txs[r].status = "PENDING_REFERENCE" /\ txs'[r].nextAt <= clock
  <2>1. job[p].now \in 1..clock /\ pc[p] = "commit"
    BY <1>1, CommitForm DEF Timing, ReadTheClock
  <2>2. CASE r \in job[p].woken
    <3>1. txs'[r] = [txs[r] EXCEPT !.nextAt = job[p].now]
      BY <1>1, <2>2, CommitForm
    <3> QED
      BY <1>0, <2>1, <2>2, <3>1 DEF WokenRowsWait, WaitsForOperation, Rows
  <2>3. CASE r \notin job[p].woken
    BY <1>1, <2>3, CommitForm
  <2> QED
    BY <2>2, <2>3
<1>2. ASSUME NEW p \in Processes, CommitSettlement(p), r = job[p].op PROVE WaitStands(p)
  <2>1. pc[p] = "commit" /\ txs'[r] = SettledRow(p)
    BY <1>2, CommitForm
  <2> DEFINE row == SettledRow(p)
  <2>2. row = SettledRow(p)
    OBVIOUS
  <2> HIDE DEF row
  <2> QED
    BY <2>1, <2>2, SettledRowForm
<1>3. ASSUME NEW k \in Workers, CommitGiveUp(k) PROVE txs'[r] = txs[r]
  <2>1. FailedRow(r).status = "FAILED"
    BY <1>0 DEF FailedRow, Rows
  <2> QED
    BY <1>3, <2>1 DEF CommitGiveUp, Shape, TypeOK
<1>4. CASE \E p \in Processes : CommitSettlement(p)
  BY <1>1, <1>2, <1>4
<1>5. CASE UNCHANGED txs
  BY <1>5
<1> QED
  BY <1>0, <1>3, <1>4, <1>5, StepForms, UnderLockForm
     DEF HoldsNothing, TakesKeys, TakesRow, TakesRowBack, Only

(* Without permanent errors, whoever waits for the operation that is being *)
(* settled is in its list, was found locked, or is due: the others that    *)
(* WakeUpWaitingFor skips are held by the worker that is going to settle   *)
(* them, which found them due.                                             *)
LEMMA WakeUpReachesAll ==
    ASSUME RowsInv, ~PermanentFaults, NEW p \in Processes, pc[p] = "wake",
           NEW r \in Requests, WaitsForOperation(r, job[p].op)
    PROVE  r \in Waiting(p) \/ r \in MetLocked(p) \/ txs[r].nextAt <= clock
<1> USE DEF RowsInv, DecidedInv, OwnedInv, SafeInv
<1>0. /\ txs[r] \in Rows /\ clock \in Nat /\ job[p].now \in 1..clock
      /\ job[p].op \in Requests
  BY ClockNat, HeldOperation
     DEF Shape, TypeOK, Timing, ReadTheClock, HeldLabels, SettlingLabels
<1>1. CASE txs[r].nextAt <= job[p].now
  BY <1>0, <1>1 DEF Rows
<1>2. CASE txs[r].nextAt > job[p].now /\ ~rowLocked(p, r)
  BY <1>2 DEF Waiting, Sleeping, WaitsForOperation
<1>3. ASSUME NEW q \in Processes \ {p}, HoldsRow(q, r), r \notin job[q].kept
      PROVE  txs[r].nextAt <= clock
  <2>1. CASE r \in job[q].woken
    <3>1. pc[q] = "commit" /\ WaitsForOperation(r, job[q].op) /\ job[q].op \in Requests
      BY <2>1, HeldOperation DEF Ownership, WokenRowsWait, HeldLabels, SettlingLabels
    <3>2. Conflicts(job[p].op, job[q].op) /\ Conflicts(job[q].op, job[p].op)
      BY <3>1 DEF WaitsForOperation, Conflicts, SameExternalID
    <3>3. CASE p \in Handlers
      <4>1. q \in Handlers \/ Stored(job[q].op)
        BY <3>1 DEF Ownership, ClaimedRowsWait, Processes, SettlingLabels, Stored
      <4> QED
        BY <3>1, <3>2, <3>3, <4>1 DEF Ownership, KeysHeldOnce, KeysAreFree, SettlingLabels
    <3>4. CASE p \in Workers
      <4>1. Stored(job[p].op)
        BY <3>4 DEF Ownership, ClaimedRowsWait, SettlingLabels, Stored
      <4>2. q \in Workers /\ Stored(job[q].op)
        BY <1>0, <3>1, <3>2, <4>1
           DEF Ownership, KeysAreFree, ClaimedRowsWait, Processes, SettlingLabels, Stored
      <4>3. job[p].op = job[q].op
        BY <1>0, <3>1, <3>2, <4>1, <4>2 DEF Ownership, RowsAreUnique
      <4>4. HoldsRow(p, job[p].op) /\ HoldsRow(q, job[p].op)
        BY <3>1, <3>4, <4>2, <4>3 DEF HoldsRow
      <4> QED
        BY <1>0, <4>4 DEF Ownership, RowsHeldOnce
    <3> QED
      BY <3>3, <3>4 DEF Processes
  <2>2. CASE q \in Workers /\ job[q].op = r /\ pc[q] \in {"lock", "settle", "wake", "commit", "commitGiveUp"}
    <3>1. pc[q] \in SettlingLabels
      BY <2>2 DEF GivesUpOnFaults, SettlingLabels
    <3>2. txs[r].nextAt <= job[q].now /\ job[q].now \in 1..clock
      BY <2>2, <3>1 DEF Timing, ClaimedRowsAreDue, ReadTheClock, SettlingLabels
    <3> QED
      BY <1>0, <3>2 DEF Rows
  <2> QED
    BY <1>3, <2>1, <2>2 DEF HoldsRow
<1>4. ASSUME NEW q \in Processes, SharesRow(q, r) PROVE Replays(q, r)
  BY <1>4, ReferenceDoesNotWait DEF SharesRow, WaitsForOperation
<1>5. ASSUME NEW q \in Processes \ {p}, r \in job[q].kept \/ Replays(q, r),
             txs[r].nextAt > job[p].now
      PROVE  r \in MetLocked(p)
  BY <1>5 DEF MetLocked, Sleeping, WaitsForOperation
<1>6. CASE txs[r].nextAt > job[p].now /\ rowLocked(p, r)
  BY <1>3, <1>4, <1>5, <1>6 DEF rowLocked
<1> QED
  BY <1>0, <1>1, <1>2, <1>6 DEF Rows


(* A settlement in the wallet that p has locked is that of p.              *)
LEMMA OneSettlementThere ==
    ASSUME RowsInv, NEW p \in Processes, pc[p] = "commit",
           NEW q \in Processes, CommitSettlement(q), SameWallet(job[q].op, job[p].op)
    PROVE  q = p
<1>1. pc[q] = "commit"
  BY CommitForm DEF RowsInv, DecidedInv, OwnedInv, SafeInv
<1> QED
  BY <1>1 DEF RowsInv, DecidedInv, OwnedInv, SafeInv, Locks, OneSettlementPerWallet,
              UnderWalletLock, walletOf, SameWallet

(* Until p commits, whoever waits for its operation is in its list, was    *)
(* found locked, or is due.                                                *)
LEMMA WaitersStep ==
    ASSUME RowsInv, ~PermanentFaults, WaitersAreDue, [Next]_vars
    PROVE  WaitersAreDue'
<1> USE DEF RowsInv, DecidedInv, OwnedInv, SafeInv
<1> DEFINE Reached(p, r) ==
             r \in job'[p].woken \/ r \in job'[p].missed \/ txs'[r].nextAt <= clock'
<1> DEFINE Awaits(r, o) == /\ txs'[r].status = "PENDING_REFERENCE"
                           /\ Request[o].provider = Request[r].provider
                           /\ Request[o].ext = Request[r].refExt
<1>1. SUFFICES ASSUME NEW p \in Processes, pc'[p] = "commit",
                      job'[p].decision.outcome # "wait",
                      NEW r \in Requests, Awaits(r, job'[p].op), SameWallet(r, job'[p].op)
               PROVE  Reached(p, r)
  BY DEF WaitersAreDue, WaitsForOperation, SameWallet
<1>2. /\ clock \in Nat /\ (clock' = clock \/ clock' = clock + 1)
      /\ txs \in [Requests -> Rows] /\ WokenRowsWait /\ KeptRowsStored
      /\ Handlers \subseteq Processes
      /\ Workers \subseteq Processes
      /\ "commit" \in HeldLabels
  BY ClockForward, ClockNat DEF Shape, TypeOK, Ownership, Processes, HeldLabels, SettlingLabels
<1>3. ASSUME pc[p] = "commit", job'[p] = job[p] PROVE Reached(p, r)
  <2>1. job[p].op \in Requests
    BY <1>2, <1>3, HeldOperation
  <2>2. CASE txs'[r] = txs[r]
    <3>1. WaitsForOperation(r, job[p].op)
      BY <1>1, <1>3, <2>2 DEF WaitsForOperation
    <3>2. r \in job[p].woken \/ r \in job[p].missed \/ txs[r].nextAt <= clock
      BY <1>1, <1>3, <3>1 DEF WaitersAreDue
    <3>3. txs[r].nextAt \in Nat
      BY <1>2 DEF Rows
    <3> QED
      BY <1>2, <1>3, <2>2, <3>2, <3>3
  <2>3. CASE txs[r].status = "PENDING_REFERENCE" /\ txs'[r].nextAt <= clock
    <3>1. txs'[r].nextAt \in Nat
      BY ShapeStep DEF Shape, TypeOK, Rows
    <3> QED
      BY <1>2, <2>3, <3>1
  <2>4. ASSUME NEW q \in Processes, CommitSettlement(q), r = job[q].op PROVE FALSE
    <3>1. q = p
      BY <1>1, <1>3, <2>4, OneSettlementThere
    <3> QED
      BY <1>1, <2>4, <3>1, CommitForm
  <2> QED
    BY <1>1, <2>2, <2>3, <2>4, WaitingForms
<1>4. ASSUME NEW q \in Processes, LockWallet(q) \/ Settle(q) \/ WakeUp(q)
      PROVE  Reached(p, r)
  <2>1. CASE q # p
    BY <1>1, <1>3, <1>4, <2>1, UnderLockForm DEF Only
  <2>2. CASE q = p
    <3>1. WakeUp(p)
      BY <1>1, <1>4, <2>2, UnderLockForm
    <3>2. /\ pc[p] = "wake" /\ job'[p].op = job[p].op /\ UNCHANGED txs
          /\ job'[p].woken = Waiting(p) /\ job'[p].missed = MetLocked(p)
      BY <3>1, UnderLockForm DEF Only
    <3>3. WaitsForOperation(r, job[p].op)
      BY <1>1, <3>2 DEF WaitsForOperation
    <3>4. txs[r].nextAt \in Nat
      BY <1>2 DEF Rows
    <3> QED
      BY <1>2, <3>2, <3>3, <3>4, WakeUpReachesAll
  <2> QED
    BY <2>1, <2>2
<1>5. ASSUME UNCHANGED <<txs, pc, job>> PROVE Reached(p, r)
  BY <1>1, <1>3, <1>5
<1>6. ASSUME NEW q \in Processes, HoldsNothing(q) PROVE Reached(p, r)
  BY <1>1, <1>2, <1>3, <1>6 DEF HoldsNothing, Only
<1>7. ASSUME NEW q \in Processes, Only(q), pc'[q] \in {"lock", "commitGiveUp"}
      PROVE  Reached(p, r)
  BY <1>1, <1>3, <1>7 DEF Only
<1>8. ASSUME NEW q \in Processes, CommitSettlement(q) PROVE Reached(p, r)
  BY <1>1, <1>3, <1>8, CommitForm
<1>9. ASSUME NEW k \in Workers, CommitGiveUp(k) PROVE Reached(p, r)
  <2>1. /\ pc'[k] = "idle"
        /\ \A q \in Processes \ {k} : pc'[q] = pc[q] /\ job'[q] = job[q]
    BY <1>2, <1>9 DEF CommitGiveUp, Finish, Goto, Shape, TypeOK
  <2> QED
    BY <1>1, <1>3, <2>1
<1> QED
  BY <1>2, <1>4, <1>5, <1>6, <1>7, <1>8, <1>9, StepForms DEF TakesKeys, TakesRow, TakesRowBack

(* The mark of an operation that slept on is only taken away by a commit   *)
(* that settles or wakes it.                                               *)
LEMMA OversleptForms ==
    ASSUME RowsInv, [Next]_vars, NEW r \in overslept
    PROVE  \/ r \in overslept'
           \/ \E p \in Processes : CommitSettlement(p) /\ r \in job[p].woken \cup {job[p].op}
<1>1. ASSUME NEW p \in Processes, CommitSettlement(p), r \notin job[p].woken \cup {job[p].op}
      PROVE  r \in overslept'
  BY <1>1 DEF CommitSettlement
<1>2. ASSUME \/ UNCHANGED db
             \/ \E h \in Handlers : CommitOpening(h)
             \/ \E h \in Handlers, heard \in BOOLEAN : CommitReplay(h, heard)
             \/ \E k \in Workers : CommitGiveUp(k)
      PROVE  r \in overslept'
  BY <1>2 DEF db, CommitOpening, CommitReplay, CommitGiveUp
<1>3. ASSUME NEW h \in Handlers, NEW heard \in BOOLEAN, CommitRequest(h, heard)
      PROVE  CommitSettlement(h) /\ h \in Processes
  BY <1>3 DEF CommitRequest, Processes
<1>4. ASSUME NEW k \in Workers, CommitRetry(k)
      PROVE  CommitSettlement(k) /\ k \in Processes
  BY <1>4 DEF CommitRetry, Processes
<1> QED
  BY <1>1, <1>2, <1>3, <1>4, TablesForm

(* An operation that sleeps through the news was locked at the wake-up.    *)
LEMMA WakeUpStep ==
    ASSUME RowsInv, RowsAgree', ~PermanentFaults, WaitersAreDue, OnlyLockedRowsSleep, [Next]_vars
    PROVE  OnlyLockedRowsSleep'
<1> USE DEF RowsInv, DecidedInv, OwnedInv, SafeInv
<1>1. SUFFICES ASSUME NEW r \in Requests, NEW o \in Requests,
                      txs'[r].status = "PENDING_REFERENCE",
                      Request[o].provider = Request[r].provider,
                      Request[o].ext = Request[r].refExt,
                      Terminal(txs'[o].status), SameWallet(r, o),
                      txs'[r].nextAt > clock'
               PROVE  r \in overslept'
  BY DEF OnlyLockedRowsSleep, SleepsThrough, WaitsForOperation, SameWallet
<1>2. /\ clock \in Nat /\ (clock' = clock \/ clock' = clock + 1)
      /\ txs[r] \in Rows /\ txs'[r] \in Rows /\ txs[r].nextAt \in Nat /\ txs'[r].nextAt \in Nat
      /\ Names(r, o) /\ txs'[o].status # "FAILED" /\ txs[o].status # "FAILED"
      /\ r # o
  <2>1. Shape'
    BY ShapeStep
  <2>2. txs[r] \in Rows /\ txs'[r] \in Rows
    BY <2>1 DEF Shape, TypeOK
  <2>3. txs[r].nextAt \in Nat /\ txs'[r].nextAt \in Nat
    BY <2>2 DEF Rows
  <2>4. r # o
    BY <1>1 DEF Terminal
  <2> QED
    BY <1>1, <2>2, <2>3, <2>4, ClockForward, ClockNat DEF Shape, RowsAgree, Names
<1>3. ~(txs[r].status = "PENDING_REFERENCE" /\ txs'[r].nextAt <= clock)
  BY <1>1, <1>2
<1>4. ASSUME NEW p \in Processes, CommitSettlement(p), r = job[p].op PROVE FALSE
  <2>1. txs'[r] = SettledRow(p) /\ pc[p] = "commit"
    BY <1>4, CommitForm
  <2> DEFINE row == SettledRow(p)
  <2>2. row = SettledRow(p)
    OBVIOUS
  <2> HIDE DEF row
  <2>3. WaitStands(p)
    BY <1>1, <1>4, <2>1, <2>2, SettledRowForm
  <2>4. txs[o].status \notin {"PROCESSED", "REJECTED"}
    BY <1>1, <1>2, <1>4, <2>3 DEF WaitStands, SameWallet
  <2>5. ~Terminal(txs[o].status)
    BY <1>2, <2>4 DEF Terminal
  <2> QED
    BY <1>1, <1>2, <1>4, <2>5, CommitForm
<1>5. txs'[r] = txs[r]
  BY <1>1, <1>3, <1>4, WaitingForms
<1>6. ASSUME NEW p \in Processes, CommitSettlement(p) PROVE r \notin job[p].woken \cup {job[p].op}
  <2>1. r # job[p].op
    BY <1>4, <1>6
  <2>2. ASSUME r \in job[p].woken PROVE FALSE
    <3>1. txs'[r] = [txs[r] EXCEPT !.nextAt = job[p].now] /\ pc[p] = "commit"
      BY <1>6, <2>1, <2>2, CommitForm
    <3>2. job[p].now \in 1..clock
      BY <3>1 DEF Timing, ReadTheClock
    <3> QED
      BY <1>1, <1>2, <3>1, <3>2 DEF Rows
  <2> QED
    BY <2>1, <2>2
<1>7. CASE Terminal(txs[o].status)
  <2>1. txs[r].nextAt > clock
    BY <1>1, <1>2, <1>5
  <2>2. r \in overslept
    BY <1>1, <1>5, <1>7, <2>1 DEF OnlyLockedRowsSleep, SleepsThrough, WaitsForOperation, SameWallet
  <2> QED
    BY <1>6, <2>2, OversleptForms
<1>8. CASE ~Terminal(txs[o].status)
  <2>1. PICK p \in Processes : CommitSettlement(p) /\ o = job[p].op
    <3>1. txs'[o] # txs[o]
      BY <1>1, <1>8
    <3>2. ASSUME NEW t, txs[o].status = "PENDING_REFERENCE", txs'[o] = [txs[o] EXCEPT !.nextAt = t]
          PROVE  FALSE
      <4>1. txs'[o].status = txs[o].status
        BY <3>2 DEF Shape, TypeOK, Rows
      <4> QED
        BY <1>1, <1>8, <4>1
    <3> QED
      BY <1>2, <3>1, <3>2, RowForms
  <2>2. pc[p] = "commit" /\ txs'[o] = SettledRow(p)
    BY <2>1, CommitForm
  <2> DEFINE row == SettledRow(p)
  <2>3. row = SettledRow(p)
    OBVIOUS
  <2> HIDE DEF row
  <2>4. job[p].decision.outcome # "wait"
    BY <1>1, <2>2, <2>3, SettledRowForm DEF Terminal
  <2>5. r \in job[p].missed
    BY <1>1, <1>2, <1>5, <1>6, <2>1, <2>2, <2>4 DEF WaitersAreDue, WaitsForOperation
  <2> QED
    BY <2>1, <2>5 DEF CommitSettlement
<1> QED
  BY <1>7, <1>8

(* As long as no error is taken for a permanent one, an operation that     *)
(* waits for one of its own wallet only sleeps through the news that it    *)
(* became terminal when, at the moment of the wake-up, a replay of it from *)
(* the queue held its row, or a worker that had found it not due any more. *)
(* No other interleaving of parking, claiming, skipping locked rows and    *)
(* settling loses a wake-up.                                               *)
THEOREM WakeUpsArrive ==
    ASSUME ~PermanentFaults
    PROVE  Spec => []OnlyLockedRowsSleep
<1> DEFINE Inv == WaitersAreDue /\ OnlyLockedRowsSleep
<1>1. Init => Inv
  BY DEF Init, WaitersAreDue, OnlyLockedRowsSleep, SleepsThrough, WaitsForOperation, absentRow, Processes
<1>2. RowsInv /\ RowsInv' /\ Inv /\ [Next]_vars => Inv'
  <2> SUFFICES ASSUME RowsInv, RowsInv', Inv, [Next]_vars PROVE Inv'
    OBVIOUS
  <2>1. RowsAgree'
    BY DEF RowsInv
  <2> QED
    BY <2>1, WaitersStep, WakeUpStep
<1>3. Inv => OnlyLockedRowsSleep
  OBVIOUS
<1> HIDE DEF Inv
<1> QED
  BY <1>1, <1>2, <1>3, RowsAlways, PTL DEF Spec


-----------------------------------------------------------------------------
(* The book.                                                               *)

(* What stands for the variables of the book that are not tables.          *)
outcomes == [r \in Requests |-> txs[r].status]

undoings == [r \in Requests |-> IF Reversal(Request[r].kind) THEN txs[r].ref ELSE NoTx]

(* The words of the book, in those of the settlement.                      *)
LEMMA BookWords ==
    ASSUME RowsInv, NEW r \in Requests
    PROVE  LET balance == wallets[Request[r].wallet].balance IN
           /\ Book!Fresh(r) <=> /\ wallets[Request[r].wallet].version > 0
                                /\ \A o \in Requests : Stored(o) => ~Conflicts(r, o)
           /\ Book!OwnWallet(r) <=> OwnWallet(r)
           /\ \A direction : Book!Fits(r, direction) <=>
                applyDirection(balance, direction, Request[r].amount) \in 0..MaxBalance
           /\ \A o \in Requests : Book!Misnamed(r, o) <=> Misnames(r, o)
           /\ \A o \in Requests : Book!MayUndo(r, o) <=> MayReverse(r, o)
<1>1. Book!OwnWallet(r) <=> OwnWallet(r)
  BY DEF Book!OwnWallet, OwnWallet
<1>2. Book!Fresh(r) <=> /\ wallets[Request[r].wallet].version > 0
                        /\ \A o \in Requests : Stored(o) => ~Conflicts(r, o)
  BY DEF Book!Fresh, Book!Recorded, Book!SameIdentity, Stored, Conflicts, SameKey, SameExternalID
<1>3. \A direction : Book!Fits(r, direction) <=>
        applyDirection(wallets[Request[r].wallet].balance, direction, Request[r].amount) \in 0..MaxBalance
  BY DEF Book!Fits, Book!applyDirection, applyDirection
<1>4. \A o \in Requests : Book!Names(r, o) <=> Names(r, o)
  BY DEF Book!Names, Names
<1>5. \A o \in Requests : Book!Misnamed(r, o) <=> Misnames(r, o)
  BY <1>4 DEF Book!Misnamed, Misnames, Book!Recorded, Stored, Book!sameRound, sameRound
<1>6. ASSUME NEW o \in Requests
      PROVE  (\E s \in Requests : (IF Reversal(Request[s].kind) THEN txs[s].ref ELSE NoTx) = o)
                <=> HasSuccessfulReversal(o)
  BY ConstantsAssumption DEF RowsInv, RowsAgree, HasSuccessfulReversal
<1>7. \A o \in Requests : Book!MayUndo(r, o) <=> MayReverse(r, o)
  BY <1>4, <1>6 DEF Book!MayUndo, MayReverse, Book!reversible, reversible, Book!sameRound, sameRound,
                    Book!Reversal, Reversal
<1> QED
  BY <1>1, <1>2, <1>3, <1>5, <1>7


(* The balance a wallet is opened with is the one the request asked for.   *)
LEMMA OpeningsStep ==
    ASSUME Shape, OpeningsAreAsked, [Next]_vars
    PROVE  OpeningsAreAsked'
<1> SUFFICES ASSUME NEW h \in Handlers, pc'[h] \in {"create", "commitOpening"}
             PROVE  job'[h].balance \in OpeningBalances
  BY DEF OpeningsAreAsked
<1>0. /\ pc \in [Processes -> PCs] /\ job \in [Processes -> Jobs] /\ h \in Processes
      /\ h \notin Workers
  BY ProcessAssumption DEF Shape, TypeOK, Processes
<1>1. ASSUME pc[h] \in {"create", "commitOpening"}, job'[h] = job[h]
      PROVE  job'[h].balance \in OpeningBalances
  BY <1>1 DEF OpeningsAreAsked
<1>2. ASSUME NEW q \in Processes, NEW label, Goto(q, label),
             q # h \/ label \notin {"create", "commitOpening"},
             \A p \in Processes \ {q} : job'[p] = job[p]
      PROVE  job'[h].balance \in OpeningBalances
  BY <1>0, <1>1, <1>2 DEF Goto
<1>3. ASSUME NEW q \in Processes, Finish(q) PROVE job'[h].balance \in OpeningBalances
  BY <1>0, <1>2, <1>3 DEF Finish
<1>4. ASSUME NEW g \in Handlers, Arrival(g) PROVE job'[h].balance \in OpeningBalances
  <2>0. g \in Processes
    BY DEF Processes
  <2>1. ASSUME NEW d \in Deliveries, Begin(g, d) PROVE job'[h].balance \in OpeningBalances
    BY <1>0, <1>2, <2>0, <2>1 DEF Begin, Arrive, FirstStatement
  <2>2. ASSUME NEW w \in Wallets, NEW b \in OpeningBalances, BeginOpening(g, w, b)
        PROVE  job'[h].balance \in OpeningBalances
    <3>1. CASE g # h
      BY <1>0, <1>2, <2>0, <2>2, <3>1 DEF BeginOpening, Arrive
    <3>2. CASE g = h
      BY <1>0, <2>2, <3>2 DEF BeginOpening, noJob
    <3> QED
      BY <3>1, <3>2
  <2> QED
    BY <1>4, <2>1, <2>2 DEF Arrival
<1>5. ASSUME NEW g \in Handlers, CreateWallet(g) PROVE job'[h].balance \in OpeningBalances
  <2>0. g \in Processes
    BY DEF Processes
  <2>1. CASE Finish(g)
    BY <1>3, <2>0, <2>1
  <2>2. CASE pc[g] = "create" /\ Goto(g, "commitOpening") /\ UNCHANGED job
    BY <1>0, <1>1, <2>0, <2>2 DEF Goto
  <2> QED
    BY <1>5, <2>1, <2>2 DEF CreateWallet, Proceed
<1>6. ASSUME NEW g \in Handlers, RegisterInbox(g) \/ Insert(g) \/ Replay(g)
      PROVE  job'[h].balance \in OpeningBalances
  <2>0. g \in Processes
    BY DEF Processes
  <2>1. CASE Finish(g)
    BY <1>3, <2>0, <2>1
  <2>2. ASSUME NEW label \in {"insert", "replay", "lock", "commitReplay"}, Goto(g, label),
               \A p \in Processes \ {g} : job'[p] = job[p]
        PROVE  job'[h].balance \in OpeningBalances
    BY <1>2, <2>0, <2>2
  <2> QED
    BY <1>0, <1>6, <2>0, <2>1, <2>2 DEF RegisterInbox, Insert, Replay, Refuse, Proceed
<1>7. ASSUME NEW p \in Processes, LockWallet(p) \/ Settle(p) \/ WakeUp(p)
      PROVE  job'[h].balance \in OpeningBalances
  <2>1. Only(p) /\ pc'[p] \in SettlingLabels
    BY <1>7, UnderLockForm
  <2>2. p # h
    BY <2>1 DEF SettlingLabels
  <2>3. pc'[h] = pc[h] /\ job'[h] = job[h]
    BY <1>0, <2>1, <2>2 DEF Only
  <2> QED
    BY <1>1, <2>3
<1>8. ASSUME NEW g \in Handlers, HandlerStep(g) PROVE job'[h].balance \in OpeningBalances
  <2>1. g \in Processes
    BY DEF Processes
  <2>2. ASSUME NEW heard \in BOOLEAN, CommitReplay(g, heard) \/ CommitRequest(g, heard) PROVE Finish(g)
    BY <2>2 DEF CommitReplay, CommitRequest, CommitSettlement
  <2>3. CommitOpening(g) => Finish(g)
    BY DEF CommitOpening
  <2> QED
    BY <1>3, <1>5, <1>6, <1>7, <1>8, <2>1, <2>2, <2>3 DEF HandlerStep
<1>9. ASSUME NEW k \in Workers, WorkerStep(k) \/ RetryAttempt(k) \/ PermanentError(k)
      PROVE  job'[h].balance \in OpeningBalances
  <2>0. k \in Processes /\ k # h
    BY <1>0 DEF Processes
  <2>1. ASSUME CommitRetry(k) \/ CommitGiveUp(k) PROVE Finish(k)
    BY <2>1 DEF CommitRetry, CommitSettlement, CommitGiveUp
  <2>2. ASSUME \/ BeginAttempt(k) \/ ScanPending(k) \/ ClaimDuePending(k) \/ GiveUp(k)
               \/ RetryAttempt(k) \/ PermanentError(k)
        PROVE  /\ \E label \in PCs : Goto(k, label)
               /\ \A p \in Processes \ {k} : job'[p] = job[p]
    <3>1. k \notin Handlers
      BY ProcessAssumption
    <3> QED
      BY <1>0, <2>0, <2>2, <3>1
         DEF BeginAttempt, ScanPending, ClaimDuePending, GiveUp, RetryAttempt, RunAgain,
             PermanentError, Proceed, Finish, PCs
  <2> QED
    BY <1>2, <1>3, <1>7, <1>9, <2>0, <2>1, <2>2 DEF WorkerStep
<1>10. ASSUME NEW p \in Processes, Abort(p) PROVE job'[h].balance \in OpeningBalances
  BY <1>3, <1>10 DEF Abort
<1>11. ASSUME Tick \/ UNCHANGED vars PROVE job'[h].balance \in OpeningBalances
  BY <1>1, <1>11 DEF Tick, vars
<1>12. ASSUME NEW p \in Processes, DeadlockVictim(p) PROVE job'[h].balance \in OpeningBalances
  <2>1. CASE RunAgain(p)
    <3>1. \E label \in {"scan", "insert", "inbox"} : Goto(p, label)
      BY <2>1 DEF RunAgain, FirstStatement
    <3>2. \A q \in Processes \ {p} : job'[q] = job[q]
      BY <1>0, <2>1 DEF RunAgain
    <3> QED
      BY <1>2, <3>1, <3>2
  <2> QED
    BY <1>3, <1>12, <2>1 DEF DeadlockVictim
<1> QED
  BY <1>4, <1>8, <1>9, <1>10, <1>11, <1>12 DEF Next, Failure


(* The book at the start, and a step that writes no table.                 *)
LEMMA BookInitial == Init => Book!BookInit
BY DEF Init, Book!BookInit, absentRow

(* One operation changes in the book what its status and reference say.    *)
LEMMA BookRow ==
    ASSUME Shape, NEW r \in Requests, NEW row, txs'[r] = row,
           \A s \in Requests \ {r} : txs'[s].status = txs[s].status /\ txs'[s].ref = txs[s].ref,
           NEW ref, ref = IF Reversal(Request[r].kind) THEN row.ref ELSE NoTx
    PROVE  /\ outcomes' = [outcomes EXCEPT ![r] = row.status]
           /\ undoings' = [undoings EXCEPT ![r] = ref]
BY DEF outcomes, undoings

(* The wallet and the entry that an opening writes.                        *)
LEMMA BookOpening ==
    ASSUME RowsInv, OpeningsAreAsked, NEW h \in Handlers, CommitOpening(h)
    PROVE  \E w \in Wallets, balance \in OpeningBalances : Book!Open(w, balance)
<1> DEFINE w == job[h].op
           balance == job[h].balance
<1> USE DEF RowsInv, DecidedInv, OwnedInv, SafeInv
<1>1. w \in Wallets /\ balance \in OpeningBalances /\ h \in Processes /\ wallets[w].version = 0
  BY DEF CommitOpening, OpeningsAreAsked, Shape, JobsFit, JobFits, Processes, Locks, OpenedOnce
<1>2. ledger[w] = {}
  <2>1. \A e \in ledger[w] : e.version \in 1..0
    BY <1>1 DEF LedgerChain, WalletChain
  <2> QED
    BY <2>1
<1>3. ledger' = IF balance = 0 THEN ledger
                ELSE [ledger EXCEPT ![w] = {OpeningEntry(w, balance)}]
  BY <1>1, <1>2 DEF CommitOpening, Shape, TypeOK
<1>4. wallets' = [wallets EXCEPT ![w] = [balance |-> balance, version |-> 1]] /\ UNCHANGED txs
  BY DEF CommitOpening
<1>5. Book!Open(w, balance)
  BY <1>1, <1>3, <1>4 DEF Book!Open, OpeningEntry
<1> QED
  BY <1>1, <1>5

(* Giving an operation up.                                                 *)
LEMMA BookGiveUp ==
    ASSUME RowsInv, NEW k \in Workers, CommitGiveUp(k)
    PROVE  \E r \in Requests : Book!Fail(r)
<1> USE DEF RowsInv, DecidedInv, OwnedInv, SafeInv
<1>0. PICK r \in Requests : r = job[k].op
  BY HeldOperation DEF CommitGiveUp, Processes, HeldLabels
<1> DEFINE row == FailedRow(r)
<1>1. txs[r].status = "PENDING_REFERENCE" /\ k \in Processes
  BY <1>0 DEF CommitGiveUp, Processes, Ownership, ClaimedRowsWait
<1>2. txs'[r] = row /\ \A s \in Requests \ {r} : txs'[s] = txs[s]
  BY <1>0 DEF CommitGiveUp, Shape, TypeOK
<1>3. row.status = "FAILED" /\ row.ref = txs[r].ref
  BY <1>1 DEF FailedRow, Shape, TypeOK, Rows
<1>4. txs[r].ref = NoTx
  BY <1>1 DEF RowsAgree
<1> HIDE DEF row
<1>5. outcomes' = [outcomes EXCEPT ![r] = "FAILED"] /\ undoings' = undoings
  BY <1>1, <1>2, <1>3, <1>4 DEF outcomes, undoings
<1>6. UNCHANGED <<wallets, ledger>>
  BY DEF CommitGiveUp
<1>7. Book!Fail(r)
  BY <1>1, <1>5, <1>6 DEF Book!Fail, Book!Conclude, outcomes, undoings
<1> QED
  BY <1>1, <1>7

(* Between its statements, an operation may still be settled in the book.  *)
LEMMA BookUnsettled ==
    ASSUME RowsInv, NEW p \in Processes, pc[p] = "commit"
    PROVE  /\ Book!Unsettled(job[p].op)
           /\ p \in Handlers => Book!Fresh(job[p].op)
           /\ p \notin Handlers => txs[job[p].op].status = "PENDING_REFERENCE"
           /\ txs[job[p].op].ref = NoTx
<1> DEFINE r == job[p].op
<1> USE DEF RowsInv, DecidedInv, OwnedInv, SafeInv
<1>1. r \in Requests /\ wallets[Request[r].wallet].version > 0
  BY HeldOperation DEF HeldLabels, SettlingLabels, Locks, OpenedOnce, walletOf
<1>2. CASE p \in Handlers
  <2>1. \A o \in Requests : Stored(o) => ~Conflicts(r, o)
    BY <1>2 DEF Ownership, KeysAreFree, SettlingLabels
  <2>2. Book!Fresh(r)
    BY <1>1, <2>1, BookWords
  <2>3. Conflicts(r, r)
    BY DEF Conflicts, SameKey
  <2>4. txs[r].status = "ABSENT"
    BY <1>1, <2>1, <2>3 DEF Stored
  <2> QED
    BY <1>1, <1>2, <2>2, <2>4 DEF Book!Unsettled, RowsAgree
<1>3. CASE p \notin Handlers
  <2>1. txs[r].status = "PENDING_REFERENCE"
    BY <1>3 DEF Ownership, ClaimedRowsWait, SettlingLabels, Processes
  <2> QED
    BY <1>1, <1>3, <2>1 DEF Book!Unsettled, RowsAgree
<1> QED
  BY <1>2, <1>3


(* What a settlement writes, in the words of the book.                     *)
LEMMA BookCommit ==
    ASSUME RowsInv, NEW p \in Processes, CommitSettlement(p),
           NEW r \in Requests, r = job[p].op, NEW row, row = SettledRow(p),
           NEW ref, ref = IF Reversal(Request[r].kind) THEN row.ref ELSE NoTx
    PROVE  /\ outcomes' = [outcomes EXCEPT ![r] = row.status]
           /\ undoings' = [undoings EXCEPT ![r] = ref]
           /\ ref = NoTx => undoings' = undoings
<1> USE DEF RowsInv, DecidedInv, OwnedInv, SafeInv
<1>1. txs'[r] = row /\ pc[p] = "commit" /\ Shape
  BY CommitForm
<1>2. ASSUME NEW s \in Requests \ {r} PROVE txs'[s].status = txs[s].status /\ txs'[s].ref = txs[s].ref
  <2>1. txs'[s] = txs[s] \/ txs'[s] = [txs[s] EXCEPT !.nextAt = job[p].now]
    BY CommitForm
  <2> QED
    BY <2>1 DEF Shape, TypeOK, Rows
<1>3. txs[r].ref = NoTx
  BY <1>1, BookUnsettled
<1>4. outcomes' = [outcomes EXCEPT ![r] = row.status] /\ undoings' = [undoings EXCEPT ![r] = ref]
  BY <1>1, <1>2, BookRow
<1>5. undoings[r] = NoTx
  BY <1>3 DEF undoings
<1>6. [undoings EXCEPT ![r] = undoings[r]] = undoings
  BY DEF undoings
<1> QED
  BY <1>4, <1>5, <1>6

(* An operation that waits is parked, or goes on waiting.                  *)
LEMMA BookWait ==
    ASSUME RowsInv, NEW p \in Processes, CommitSettlement(p),
           NEW r \in Requests, r = job[p].op, NEW row, row = SettledRow(p),
           row.status = "PENDING_REFERENCE", row.ref = NoTx, WaitStands(p)
    PROVE  Book!Park(r) \/ UNCHANGED Book!bookVars
<1>1. pc[p] = "commit"
  BY CommitForm DEF RowsInv, DecidedInv, OwnedInv, SafeInv
<1>2. UNCHANGED <<wallets, ledger>>
  BY DEF CommitSettlement, WaitStands, waitReference, Moves
<1>3. outcomes' = [outcomes EXCEPT ![r] = "PENDING_REFERENCE"] /\ undoings' = undoings
  BY BookCommit
<1>4. CASE p \in Handlers
  <2>1. Book!Fresh(r) /\ Reversal(Request[r].kind)
    BY <1>1, <1>4, BookUnsettled DEF WaitStands
  <2>2. Book!Park(r)
    BY <1>2, <1>3, <2>1 DEF Book!Park, Book!Conclude, Book!Reversal, Reversal, outcomes, undoings
  <2> QED
    BY <2>2
<1>5. CASE p \notin Handlers
  <2>1. txs[r].status = "PENDING_REFERENCE"
    BY <1>1, <1>5, BookUnsettled
  <2>2. outcomes' = outcomes
    BY <1>3, <2>1 DEF outcomes
  <2>3. UNCHANGED Book!bookVars
    BY <1>2, <1>3, <2>2 DEF Book!bookVars, outcomes, undoings
  <2> QED
    BY <2>3
<1> QED
  BY <1>4, <1>5

(* The movements that the book allows an operation.                        *)
LEMMA BookMovements ==
    ASSUME RowsInv, NEW r \in Requests
    PROVE  /\ Request[r].kind = "BET" => Book!Movements(r) = {<<"DEBIT", NoTx>>}
           /\ Request[r].kind = "WIN" => Book!Movements(r) = {<<"CREDIT", NoTx>>}
           /\ Reversal(Request[r].kind) =>
                Book!Movements(r) = {<<reversalDirection(Request[r].kind, Request[o].kind), o>> :
                                       o \in {o \in Requests : MayReverse(r, o)}}
<1>1. CASE ~Reversal(Request[r].kind)
  BY <1>1 DEF Book!Movements, Reversal
<1>2. CASE Reversal(Request[r].kind)
  <2>1. \A o \in Requests : Book!MayUndo(r, o) <=> MayReverse(r, o)
    BY BookWords
  <2>2. Book!Movements(r) = {<<Book!reversalDirection(Request[r].kind, Request[o].kind), o>> :
                               o \in {o \in Requests : Book!MayUndo(r, o)}}
    BY <1>2 DEF Book!Movements, Reversal
  <2>3. \A a, b : Book!reversalDirection(a, b) = reversalDirection(a, b)
    BY DEF Book!reversalDirection, reversalDirection
  <2> QED
    BY <1>2, <2>1, <2>2, <2>3 DEF Reversal
<1> QED
  BY <1>1, <1>2


(* An operation is rejected only while something bars it, or excuses it.   *)
LEMMA BookReject ==
    ASSUME RowsInv, NEW p \in Processes, CommitSettlement(p),
           NEW r \in Requests, r = job[p].op, NEW row, row = SettledRow(p),
           row.status = "REJECTED", row.ref = NoTx, RejectStands(p)
    PROVE  Book!Reject(r)
<1>1. pc[p] = "commit"
  BY CommitForm DEF RowsInv, DecidedInv, OwnedInv, SafeInv
<1>2. UNCHANGED <<wallets, ledger>>
  BY DEF CommitSettlement, RejectStands, Moves
<1>3. outcomes' = [outcomes EXCEPT ![r] = "REJECTED"] /\ undoings' = undoings
  BY BookCommit
<1>4. job[p].balance = wallets[Request[r].wallet].balance
  BY <1>1 DEF RowsInv, DecidedInv, OwnedInv, SafeInv, Locks, ReadUnderLockIsCurrent, UnderWalletLock, walletOf
<1>5. \A direction : Book!Fits(r, direction) <=> CanHold(p, direction)
  BY <1>4, BookWords DEF CanHold
<1>6. Book!Barred(r) \/ Book!Excused(r)
  <2>1. CASE ~OwnWallet(r)
    BY <2>1, BookWords DEF Book!Barred
  <2>2. CASE Request[r].kind = "BET" /\ ~CanHold(p, "DEBIT")
    <3>1. Book!Movements(r) = {<<"DEBIT", NoTx>>}
      BY <2>2, BookMovements
    <3> QED
      BY <1>5, <2>2, <3>1 DEF Book!Barred
  <2>3. CASE Request[r].kind = "WIN" /\ ~CanHold(p, "CREDIT")
    <3>1. Book!Movements(r) = {<<"CREDIT", NoTx>>}
      BY <2>3, BookMovements
    <3> QED
      BY <1>5, <2>3, <3>1 DEF Book!Barred
  <2>4. CASE Request[r].kind = "WIN" /\ \E o \in Requests : Misnames(r, o)
    BY <2>4, BookWords DEF Book!Excused
  <2>5. CASE /\ Reversal(Request[r].kind)
             /\ \A o \in Requests : MayReverse(r, o) =>
                  ~CanHold(p, reversalDirection(Request[r].kind, Request[o].kind))
    <3>1. \A m \in Book!Movements(r) : ~CanHold(p, m[1])
      BY <2>5, BookMovements
    <3> QED
      BY <1>5, <2>5, <3>1 DEF Book!Barred, Reversal
  <2> QED
    BY <2>1, <2>2, <2>3, <2>4, <2>5 DEF RejectStands
<1>7. Book!Unsettled(r)
  BY <1>1, BookUnsettled
<1> QED
  BY <1>2, <1>3, <1>6, <1>7 DEF Book!Reject, Book!Conclude, outcomes, undoings

(* The movement that a settlement decided on is one the book allows, it    *)
(* fits, and nothing bars the operation.                                   *)
LEMMA BookProcess ==
    ASSUME RowsInv, NEW p \in Processes, pc[p] = "commit",
           NEW r \in Requests, r = job[p].op, NEW d, d = job[p].decision,
           d.outcome = "process", ProcessStands(p)
    PROVE  /\ ~Book!Barred(r)
           /\ Moves(p) <=> Request[r].kind # "LOSS"
           /\ Moves(p) => /\ <<d.direction, IF Reversal(Request[r].kind) THEN d.ref ELSE NoTx>>
                               \in Book!Movements(r)
                          /\ Book!Fits(r, d.direction)
<1> DEFINE move == <<d.direction, IF Reversal(Request[r].kind) THEN d.ref ELSE NoTx>>
<1>0. Request[r].kind \in Kinds
  BY RequestAssumption DEF ValidRequest
<1>1. Moves(p) <=> Request[r].kind # "LOSS"
  BY MovesForm
<1>2. Moves(p) => Book!Fits(r, d.direction)
  <2>1. Moves(p) => MovedBalance(p) \in 0..MaxBalance
    BY DEF RowsInv, DecidedInv, OwnedInv, SafeInv, Shape, JobsFit, JobFits
  <2>2. job[p].balance = wallets[Request[r].wallet].balance
    BY DEF RowsInv, DecidedInv, OwnedInv, SafeInv, Locks, ReadUnderLockIsCurrent,
           UnderWalletLock, walletOf
  <2> QED
    BY <2>1, <2>2, BookWords DEF MovedBalance
<1>3. Moves(p) => move \in Book!Movements(r)
  <2>1. CASE Request[r].kind = "BET"
    BY <2>1, BookMovements DEF ProcessStands, Reversal
  <2>2. CASE Request[r].kind = "WIN"
    BY <2>2, BookMovements DEF ProcessStands, Reversal
  <2>3. CASE Reversal(Request[r].kind)
    <3>1. /\ d.ref \in Requests /\ MayReverse(r, d.ref)
          /\ d.direction = reversalDirection(Request[r].kind, Request[d.ref].kind)
      BY <2>3 DEF ProcessStands
    <3> QED
      BY <2>3, <3>1, BookMovements
  <2> QED
    BY <1>0, <1>1, <2>1, <2>2, <2>3 DEF Kinds, Reversal
<1>4. Book!OwnWallet(r)
  BY BookWords DEF ProcessStands
<1>5. Request[r].kind = "WIN" =>
        \A o \in Requests : Request[o].wallet = Request[r].wallet => ~Book!Misnamed(r, o)
  BY BookWords DEF ProcessStands, SameWallet
<1>6. move[1] = d.direction
  OBVIOUS
<1> HIDE DEF move
<1>7. ~Book!Barred(r)
  BY <1>1, <1>2, <1>3, <1>4, <1>5, <1>6 DEF Book!Barred
<1> QED
  BY <1>1, <1>2, <1>3, <1>7 DEF move

(* A settlement that processes its operation is a loss or a movement.      *)
LEMMA BookMove ==
    ASSUME RowsInv, NEW p \in Processes, CommitSettlement(p),
           NEW r \in Requests, r = job[p].op, NEW row, row = SettledRow(p),
           row.status = "PROCESSED", row.ref = job[p].decision.ref,
           job[p].decision.outcome = "process", ProcessStands(p)
    PROVE  Book!Lose(r) \/ Book!Move(r)
<1>1. pc[p] = "commit"
  BY CommitForm DEF RowsInv, DecidedInv, OwnedInv, SafeInv
<1>2. PICK d : d = job[p].decision
  OBVIOUS
<1>3. PICK ref : ref = IF Reversal(Request[r].kind) THEN row.ref ELSE NoTx
  OBVIOUS
<1>4. /\ outcomes' = [outcomes EXCEPT ![r] = "PROCESSED"]
      /\ undoings' = [undoings EXCEPT ![r] = ref]
      /\ ref = NoTx => undoings' = undoings
  BY <1>3, BookCommit
<1>5. Book!Unsettled(r)
  BY <1>1, BookUnsettled
<1>6. /\ ~Book!Barred(r)
      /\ Moves(p) <=> Request[r].kind # "LOSS"
      /\ Moves(p) => <<d.direction, ref>> \in Book!Movements(r) /\ Book!Fits(r, d.direction)
  BY <1>1, <1>2, <1>3, BookProcess
<1>7. CASE ~Moves(p)
  <2>1. UNCHANGED <<wallets, ledger>>
    BY <1>7 DEF CommitSettlement
  <2>2. ref = NoTx
    BY <1>3, <1>6, <1>7 DEF Reversal
  <2>3. Book!Lose(r)
    BY <1>4, <1>5, <1>6, <1>7, <2>1, <2>2 DEF Book!Lose, Book!Conclude, outcomes, undoings
  <2> QED
    BY <2>3
<1>8. CASE Moves(p)
  <2> DEFINE w == Request[r].wallet
             old == wallets[w]
             after == applyDirection(old.balance, d.direction, Request[r].amount)
  <2>1. job[p].balance = old.balance /\ job[p].version = old.version /\ w \in Wallets
    BY <1>1, RequestAssumption
       DEF RowsInv, DecidedInv, OwnedInv, SafeInv, Locks, ReadUnderLockIsCurrent,
           UnderWalletLock, walletOf, ValidRequest
  <2>2. MovedBalance(p) = after
    BY <1>2, <2>1 DEF MovedBalance
  <2>3. wallets' = [wallets EXCEPT ![w] = [balance |-> after, version |-> old.version + 1]]
    BY <1>8, <2>1, <2>2 DEF CommitSettlement, MovedWallet, walletOf
  <2>4. ledger' = [ledger EXCEPT ![w] = @ \cup
                     {[version |-> old.version + 1, op |-> r, direction |-> d.direction,
                       amount |-> Request[r].amount, before |-> old.balance, after |-> after]}]
    BY <1>2, <1>8, <2>1, <2>2 DEF CommitSettlement, NewEntry, walletOf
  <2>5. Book!applyDirection(old.balance, d.direction, Request[r].amount) = after
    BY DEF Book!applyDirection, applyDirection
  <2>6. PICK m : m = <<d.direction, ref>>
    OBVIOUS
  <2>7. m \in Book!Movements(r) /\ Book!Fits(r, m[1]) /\ m[1] = d.direction /\ m[2] = ref
    BY <1>6, <1>8, <2>6
  <2>8. Book!Move(r)
    BY <1>4, <1>5, <1>6, <2>3, <2>4, <2>5, <2>7 DEF Book!Move, Book!Conclude, outcomes, undoings
  <2> QED
    BY <2>8
<1> QED
  BY <1>7, <1>8

(* Whatever a transaction commits is one step of the book, or none.        *)
LEMMA BookSettlement ==
    ASSUME RowsInv, NEW p \in Processes, CommitSettlement(p)
    PROVE  [Book!BookNext]_(Book!bookVars)
<1>1. pc[p] = "commit"
  BY CommitForm DEF RowsInv, DecidedInv, OwnedInv, SafeInv
<1>2. PICK r \in Requests : r = job[p].op
  BY <1>1, HeldOperation DEF RowsInv, DecidedInv, OwnedInv, SafeInv, HeldLabels, SettlingLabels
<1>3. PICK row : row = SettledRow(p)
  OBVIOUS
<1>4. \/ /\ job[p].decision.outcome = "process" /\ ProcessStands(p)
         /\ row.status = "PROCESSED" /\ row.ref = job[p].decision.ref
      \/ RejectStands(p) /\ row.status = "REJECTED" /\ row.ref = NoTx
      \/ WaitStands(p) /\ row.status = "PENDING_REFERENCE" /\ row.ref = NoTx
  BY <1>1, <1>3, SettledRowForm DEF RowsInv, DecidedInv, OwnedInv, SafeInv
<1>5. \/ Book!Lose(r) \/ Book!Move(r) \/ Book!Reject(r) \/ Book!Park(r)
      \/ UNCHANGED Book!bookVars
  BY <1>2, <1>3, <1>4, BookMove, BookReject, BookWait
<1> QED
  BY <1>5 DEF Book!BookNext

(* Every step is one step of the book, or none.                            *)
LEMMA BookStep ==
    ASSUME RowsInv, OpeningsAreAsked, [Next]_vars
    PROVE  [Book!BookNext]_(Book!bookVars)
<1>1. ASSUME NEW h \in Handlers, CommitOpening(h) PROVE [Book!BookNext]_(Book!bookVars)
  BY <1>1, BookOpening DEF Book!BookNext
<1>2. ASSUME NEW k \in Workers, CommitGiveUp(k) PROVE [Book!BookNext]_(Book!bookVars)
  BY <1>2, BookGiveUp DEF Book!BookNext
<1>3. ASSUME UNCHANGED <<wallets, txs, ledger>> PROVE [Book!BookNext]_(Book!bookVars)
  BY <1>3 DEF Book!bookVars
<1>4. ASSUME NEW h \in Handlers, NEW heard \in BOOLEAN, CommitReplay(h, heard)
      PROVE  UNCHANGED <<wallets, txs, ledger>>
  BY <1>4 DEF CommitReplay
<1> QED
  BY <1>1, <1>2, <1>3, <1>4, BookSettlement, TablesForm
     DEF db, Processes, CommitRequest, CommitRetry

(* The settlement implements the book: for every number of handlers and    *)
(* workers and every set of requests, what they interleave, retry, roll    *)
(* back or lose shows in the tables as steps of WalletBook, each taken     *)
(* only while the book allows it.                                          *)
THEOREM SettlementImplementsBook == Spec => ImplementsBook
<1>1. Init => OpeningsAreAsked
  BY DEF Init, OpeningsAreAsked, Processes
<1>2. RowsInv /\ OpeningsAreAsked /\ [Next]_vars => OpeningsAreAsked'
  BY OpeningsStep DEF RowsInv, DecidedInv, OwnedInv, SafeInv
<1>3. RowsInv /\ OpeningsAreAsked /\ [Next]_vars => [Book!BookNext]_(Book!bookVars)
  BY BookStep
<1> QED
  BY <1>1, <1>2, <1>3, BookInitial, RowsAlways, PTL DEF Spec, ImplementsBook, Book!BookSpec

-----------------------------------------------------------------------------
(* The database.                                                           *)

(* Entry e is added to the ledger of wallet w.                             *)
Adds(w, e) == ledger' = [ledger EXCEPT ![w] = @ \cup {e}]

(* What a settlement that moves its wallet writes.                         *)
LEMMA MovementForm ==
    ASSUME RowsInv, NEW p \in Processes, CommitSettlement(p), Moves(p),
           NEW r, r = job[p].op, NEW w, w = walletOf(p), NEW e, e = NewEntry(p)
    PROVE  /\ r \in Requests /\ w \in Wallets /\ r \notin Wallets /\ w = Request[r].wallet
           /\ wallets[w].version \in Nat \ {0}
           /\ wallets' = [wallets EXCEPT ![w] = [balance |-> e.after, version |-> e.version]]
           /\ Adds(w, e)
           /\ e.version = wallets[w].version + 1 /\ e.op = r
           /\ e.before = wallets[w].balance /\ e.before \in 0..MaxBalance
           /\ e.amount = Request[r].amount /\ e.amount \in Nat \ {0}
           /\ e.direction \in {"DEBIT", "CREDIT"} /\ e.direction = job[p].decision.direction
           /\ e.after = applyDirection(e.before, e.direction, e.amount) /\ e.after \in 0..MaxBalance
           /\ ProcessStands(p) /\ Request[r].kind # "LOSS"
           /\ txs[r].status # "PROCESSED"
           /\ txs'[r].status = "PROCESSED" /\ txs'[r].ref = job[p].decision.ref
<1> USE DEF RowsInv, DecidedInv, OwnedInv, SafeInv
<1> DEFINE d == job[p].decision
<1>1. pc[p] = "commit" /\ r \in Requests /\ job[p] \in Jobs /\ txs'[r] = SettledRow(p)
  BY CommitForm
<1>2. /\ w \in Wallets /\ r \notin Wallets /\ w = Request[r].wallet
      /\ Request[r].amount \in Nat /\ (Request[r].kind = "LOSS" <=> Request[r].amount = 0)
  BY <1>1, RequestAssumption, ConstantsAssumption DEF ValidRequest, walletOf
<1>3. d.outcome = "process" /\ ProcessStands(p) /\ txs'[r].status = "PROCESSED" /\ txs'[r].ref = d.ref
  BY <1>1, SettledRowForm DEF Moves
<1>4. Request[r].kind # "LOSS"
  BY <1>1, <1>3, MovesForm
<1>5. wallets[w].balance = job[p].balance /\ wallets[w].version = job[p].version
  BY <1>1 DEF Locks, ReadUnderLockIsCurrent, UnderWalletLock
<1>6. wallets[w].version \in Nat \ {0} /\ wallets[w].balance \in 0..MaxBalance
  <2>1. wallets[w] \in WalletRows
    BY <1>2 DEF Shape, TypeOK
  <2>2. wallets[w].version > 0
    BY <1>1 DEF Locks, OpenedOnce
  <2> QED
    BY <2>1, <2>2 DEF WalletRows
<1>7. d.direction \in {"DEBIT", "CREDIT"}
  BY <1>1 DEF Moves, Jobs, Decisions, Directions
<1>8. MovedBalance(p) \in 0..MaxBalance
  BY <1>1 DEF Shape, JobsFit, JobFits
<1>9. txs[r].status # "PROCESSED"
  <2>1. CASE p \in Handlers
    BY <1>1, <2>1, BookUnsettled, BookWords DEF Stored, Conflicts, SameKey
  <2>2. CASE p \notin Handlers
    BY <1>1, <2>2, BookUnsettled
  <2> QED
    BY <2>1, <2>2
<1>10. wallets' = [wallets EXCEPT ![w] = MovedWallet(p)] /\ Adds(w, e)
  BY DEF CommitSettlement, Adds, NewEntry
<1> QED
  BY <1>1, <1>2, <1>3, <1>4, <1>5, <1>6, <1>7, <1>8, <1>9, <1>10
     DEF NewEntry, MovedWallet, MovedBalance

(* What an opening writes.                                                 *)
LEMMA OpeningForm ==
    ASSUME RowsInv, NEW h \in Handlers, CommitOpening(h),
           NEW w, w = job[h].op, NEW balance, balance = job[h].balance,
           NEW e, e = OpeningEntry(w, balance)
    PROVE  /\ w \in Wallets /\ w \notin Requests /\ balance \in 0..MaxBalance
           /\ wallets[w].version = 0 /\ ledger[w] = {}
           /\ wallets' = [wallets EXCEPT ![w] = [balance |-> balance, version |-> 1]]
           /\ IF balance = 0 THEN ledger' = ledger ELSE Adds(w, e)
           /\ UNCHANGED txs
<1> USE DEF RowsInv, DecidedInv, OwnedInv, SafeInv
<1>1. w \in Wallets /\ balance \in 0..MaxBalance /\ wallets[w].version = 0
  BY DEF CommitOpening, Shape, TypeOK, Jobs, JobsFit, JobFits, Processes, Locks, OpenedOnce
<1>2. \A e1 \in ledger[w] : e1.version \in 1..0
  BY <1>1 DEF LedgerChain, WalletChain
<1> QED
  BY <1>1, <1>2, ConstantsAssumption DEF CommitOpening, Adds

(* Nothing else writes a wallet or the ledger.                             *)
LEMMA LedgerForms ==
    ASSUME [Next]_vars
    PROVE  \/ UNCHANGED <<wallets, ledger>>
           \/ \E p \in Processes : CommitSettlement(p) /\ Moves(p)
           \/ \E h \in Handlers : CommitOpening(h)
<1>1. ASSUME NEW p \in Processes, CommitSettlement(p)
      PROVE  Moves(p) \/ UNCHANGED <<wallets, ledger>>
  BY <1>1 DEF CommitSettlement
<1> QED
  BY <1>1, TablesForm DEF db, Processes, CommitReplay, CommitRequest, CommitRetry, CommitGiveUp

(* An entry stays the one it is.                                           *)
LEMMA EntryStays ==
    ASSUME RowsInv, EntriesBelong, [Next]_vars, NEW w \in Wallets, NEW e \in ledger[w]
    PROVE  EntryBelongs(w, e)'
<1>1. EntryBelongs(w, e)
  BY DEF EntriesBelong
<1>2. e.op \in Requests => txs'[e.op] = txs[e.op]
  BY <1>1, TerminalRowsStay DEF EntryBelongs, Terminal, RowsInv, DecidedInv, OwnedInv, SafeInv
<1> QED
  BY <1>1, <1>2 DEF EntryBelongs, MovementOf

(* A movement is recorded by an entry of its own.                          *)
LEMMA NewEntryBelongs ==
    ASSUME RowsInv, EntriesBelong, NEW p \in Processes, CommitSettlement(p), Moves(p),
           NEW r, r = job[p].op, NEW w, w = walletOf(p), NEW e, e = NewEntry(p)
    PROVE  EntryBelongs(w, e)' /\ \A f \in ledger[w] : f.op # e.op
<1>1. /\ r \in Requests /\ w \in Wallets /\ r \notin Wallets /\ w = Request[r].wallet
      /\ wallets[w].version \in Nat \ {0}
      /\ e.version = wallets[w].version + 1 /\ e.op = r
      /\ e.amount = Request[r].amount /\ e.amount \in Nat \ {0}
      /\ e.direction = job[p].decision.direction
      /\ ProcessStands(p) /\ Request[r].kind # "LOSS"
      /\ txs[r].status # "PROCESSED"
      /\ txs'[r].status = "PROCESSED" /\ txs'[r].ref = job[p].decision.ref
  BY MovementForm
<1>2. Request[r].kind \in {"BET", "WIN", "REFUND", "ROLLBACK"}
  BY <1>1, RequestAssumption DEF ValidRequest, Kinds
<1>3. e.direction = MovementOf(r)'
  <2>1. Reversal(Request[r].kind) =>
          e.direction = reversalDirection(Request[r].kind, Request[txs'[r].ref].kind)
    BY <1>1 DEF ProcessStands
  <2>2. CASE Request[r].kind = "BET"
    BY <1>1, <2>2 DEF ProcessStands, MovementOf
  <2>3. CASE Request[r].kind = "WIN"
    BY <1>1, <2>3 DEF ProcessStands, MovementOf
  <2>4. CASE Request[r].kind = "REFUND"
    BY <2>1, <2>4 DEF Reversal, MovementOf, reversalDirection
  <2>5. CASE Request[r].kind = "ROLLBACK"
    BY <2>1, <2>5 DEF Reversal, MovementOf
  <2> QED
    BY <1>2, <2>2, <2>3, <2>4, <2>5
<1>4. EntryBelongs(w, e)'
  BY <1>1, <1>3 DEF EntryBelongs
<1>5. \A f \in ledger[w] : f.op # e.op
  BY <1>1 DEF EntriesBelong, EntryBelongs
<1> QED
  BY <1>4, <1>5

(* Entries belong after every step as well.                                *)
LEMMA EntriesBelongStep ==
    ASSUME RowsInv, EntriesBelong, [Next]_vars
    PROVE  EntriesBelong'
<1>1. ASSUME NEW w \in Wallets, NEW e, Adds(w, e), EntryBelongs(w, e)',
             \A f \in ledger[w] : f.op # e.op
      PROVE  EntriesBelong'
  <2>1. ledger' = [v \in Wallets |-> IF v = w THEN ledger[v] \cup {e} ELSE ledger[v]]
    BY <1>1 DEF Adds, RowsInv, DecidedInv, OwnedInv, SafeInv, Shape, TypeOK
  <2>2. \A v \in Wallets : \A f \in ledger'[v] : f \in ledger[v] \/ (v = w /\ f = e)
    BY <2>1
  <2>3. \A v \in Wallets : \A f \in ledger'[v] : EntryBelongs(v, f)'
    BY <1>1, <2>2, EntryStays
  <2>4. \A v \in Wallets : \A f, g \in ledger'[v] : f.op = g.op => f = g
    BY <1>1, <2>2 DEF EntriesBelong
  <2> QED
    BY <2>3, <2>4 DEF EntriesBelong
<1>2. ASSUME NEW p \in Processes, CommitSettlement(p), Moves(p) PROVE EntriesBelong'
  BY <1>1, <1>2, MovementForm, NewEntryBelongs
<1>3. ASSUME UNCHANGED ledger PROVE EntriesBelong'
  <2>1. \A w \in Wallets : \A e \in ledger'[w] : EntryBelongs(w, e)'
    BY <1>3, EntryStays
  <2> QED
    BY <1>3, <2>1 DEF EntriesBelong
<1>4. ASSUME NEW h \in Handlers, CommitOpening(h),
             NEW w, w = job[h].op, NEW balance, balance = job[h].balance,
             NEW e, e = OpeningEntry(w, balance)
      PROVE  EntriesBelong'
  <2>1. /\ w \in Wallets /\ w \notin Requests /\ balance \in 0..MaxBalance /\ ledger[w] = {}
        /\ IF balance = 0 THEN ledger' = ledger ELSE Adds(w, e)
    BY <1>4, OpeningForm
  <2>2. CASE balance = 0
    BY <1>3, <2>1, <2>2
  <2>3. CASE balance # 0
    <3>1. e.version = 1 /\ e.op = w /\ e.amount = balance /\ balance > 0
           /\ e.direction = "CREDIT"
      BY <1>4, <2>1, <2>3, ConstantsAssumption DEF OpeningEntry
    <3>2. EntryBelongs(w, e)'
      BY <2>1, <3>1 DEF EntryBelongs
    <3>3. Adds(w, e) /\ \A f \in ledger[w] : f.op # e.op
      BY <2>1, <2>3
    <3> QED
      BY <1>1, <2>1, <3>2, <3>3
  <2> QED
    BY <2>2, <2>3
<1> QED
  BY <1>2, <1>3, <1>4, LedgerForms

(* Every operation that moved money has its entry.                         *)
LEMMA MovementsStep ==
    ASSUME RowsInv, MovementsRecorded, [Next]_vars
    PROVE  MovementsRecorded'
<1> SUFFICES ASSUME NEW r \in Requests, txs'[r].status = "PROCESSED"
             PROVE  /\ Request[r].kind # "LOSS" => \E e \in ledger'[Request[r].wallet] : e.op = r
                    /\ Request[r].kind = "ROLLBACK" =>
                         /\ txs'[r].ref \in Requests
                         /\ reversible("ROLLBACK", Request[txs'[r].ref].kind)
  BY DEF MovementsRecorded
<1> USE DEF RowsInv, DecidedInv, OwnedInv, SafeInv
<1>1. Request[r].wallet \in Wallets
  BY RequestAssumption DEF ValidRequest
<1>2. CASE txs[r].status = "PROCESSED"
  <2>1. txs'[r] = txs[r]
    BY <1>2, TerminalRowsStay DEF Terminal
  <2>2. ledger[Request[r].wallet] \subseteq ledger'[Request[r].wallet]
    BY <1>1, EntriesStay
  <2> QED
    BY <1>2, <2>1, <2>2 DEF MovementsRecorded
<1>3. CASE txs[r].status # "PROCESSED"
  <2>1. PICK p \in Processes : /\ CommitSettlement(p) /\ r = job[p].op
                               /\ ProcessStands(p) /\ txs'[r].ref = job[p].decision.ref
    BY <1>3, NewlyProcessed
  <2>2. Request[r].kind = "ROLLBACK" =>
          /\ txs'[r].ref \in Requests
          /\ reversible("ROLLBACK", Request[txs'[r].ref].kind)
    BY <2>1 DEF ProcessStands, Reversal, MayReverse
  <2>3. job[p].decision.outcome = "process"
    BY <2>1, CommitForm, SettledRowForm
  <2>4. Request[r].kind # "LOSS" => Moves(p)
    BY <2>1, <2>3, MovesForm
  <2>5. Request[r].kind # "LOSS" => \E e \in ledger'[Request[r].wallet] : e.op = r
    <3>1. Moves(p) => /\ Adds(Request[r].wallet, NewEntry(p)) /\ NewEntry(p).op = r
      BY <2>1, MovementForm
    <3> QED
      BY <1>1, <2>4, <3>1 DEF Adds, Shape, TypeOK
  <2> QED
    BY <2>2, <2>5
<1> QED
  BY <1>2, <1>3

-----------------------------------------------------------------------------
(* What every reachable state satisfies, and the states a commit joins.    *)
TablesInv == RowsInv /\ EntriesBelong /\ MovementsRecorded

(* Every reachable state satisfies it.                                     *)
LEMMA TablesAlways == Spec => []TablesInv
<1>1. Init => EntriesBelong /\ MovementsRecorded
  BY DEF Init, EntriesBelong, MovementsRecorded, absentRow
<1> QED
  BY <1>1, EntriesBelongStep, MovementsStep, RowsAlways, PTL DEF Spec, TablesInv

-----------------------------------------------------------------------------
(* Money.                                                                  *)

(* Only finitely many operations have been processed at any time, so that  *)
(* their effects have a sum.                                               *)
MoneyInv ==
    /\ MoneyIsConserved
    /\ \A w \in Wallets : IsFiniteSet(ProcessedIn(w))

(* An operation is worth a number of money units.                          *)
LEMMA EffectType == \A r \in Requests : Effect(r) \in Int /\ Effect(r)' \in Int
<1> SUFFICES ASSUME NEW r \in Requests PROVE Effect(r) \in Int /\ Effect(r)' \in Int
  OBVIOUS
<1>1. Request[r].amount \in Nat /\ Request[r].kind \in Kinds
  BY RequestAssumption, ConstantsAssumption DEF ValidRequest
<1>2. 0 - Request[r].amount \in Int /\ Request[r].amount \in Int /\ 0 \in Int
  BY <1>1
<1> QED
  BY <1>1, <1>2 DEF Kinds, Effect

(* A settlement that ends in PROCESSED is worth what it moves.             *)
LEMMA EffectOfMovement ==
    ASSUME TablesInv, NEW p \in Processes, CommitSettlement(p), Moves(p),
           NEW r, r = job[p].op, NEW w, w = walletOf(p), NEW e, e = NewEntry(p)
    PROVE  e.after = wallets[w].balance + Effect(r)'
<1>1. /\ r \in Requests /\ e.before = wallets[w].balance /\ e.before \in 0..MaxBalance
      /\ e.amount = Request[r].amount /\ e.amount \in Nat \ {0} /\ e.op = r
      /\ e.after = applyDirection(e.before, e.direction, e.amount)
      /\ Request[r].kind # "LOSS"
  BY MovementForm DEF TablesInv
<1>2. e.direction = MovementOf(r)'
  <2>1. EntryBelongs(w, e)'
    BY NewEntryBelongs DEF TablesInv
  <2> QED
    BY <1>1, <2>1 DEF EntryBelongs
<1>3. Request[r].kind \in {"BET", "WIN", "REFUND", "ROLLBACK"}
  BY <1>1, RequestAssumption DEF ValidRequest, Kinds
<1>4. CASE Request[r].kind = "BET"
  BY <1>1, <1>2, <1>4, ConstantsAssumption DEF MovementOf, Effect, applyDirection
<1>5. CASE Request[r].kind \in {"WIN", "REFUND"}
  BY <1>1, <1>2, <1>5, ConstantsAssumption DEF MovementOf, Effect, applyDirection
<1>6. CASE Request[r].kind = "ROLLBACK"
  BY <1>1, <1>2, <1>6, ConstantsAssumption DEF MovementOf, Effect, applyDirection, reversalDirection
<1> QED
  BY <1>3, <1>4, <1>5, <1>6

(* What the processed operations of a wallet are worth changes only with   *)
(* one more of them.                                                       *)
LEMMA SettledStays ==
    ASSUME RowsInv, [Next]_vars, NEW w \in Wallets,
           ProcessedIn(w)' = ProcessedIn(w)
    PROVE  Settled(w)' = Settled(w)
<1>1. \A r \in ProcessedIn(w) : txs'[r] = txs[r]
  BY TerminalRowsStay DEF RowsInv, DecidedInv, OwnedInv, SafeInv, ProcessedIn, Terminal
<1>2. \A r \in ProcessedIn(w) : Effect(r)' = Effect(r)
  BY <1>1 DEF Effect
<1>3. [r \in ProcessedIn(w) |-> Effect(r)]' = [r \in ProcessedIn(w) |-> Effect(r)]
  BY <1>2
<1> QED
  BY <1>3 DEF Settled

(* One more of them adds its effect.                                       *)
LEMMA SettledGrows ==
    ASSUME RowsInv, [Next]_vars, NEW w \in Wallets, IsFiniteSet(ProcessedIn(w)),
           NEW r \in Requests, r \notin ProcessedIn(w),
           ProcessedIn(w)' = ProcessedIn(w) \cup {r}
    PROVE  Settled(w)' = Settled(w) + Effect(r)'
<1> DEFINE u == [s \in ProcessedIn(w) |-> Effect(s)]
           v == [s \in ProcessedIn(w)' |-> Effect(s)']
<1>1. \A s \in ProcessedIn(w) : txs'[s] = txs[s]
  BY TerminalRowsStay DEF RowsInv, DecidedInv, OwnedInv, SafeInv, ProcessedIn, Terminal
<1>2. \A s \in ProcessedIn(w) : Effect(s)' = Effect(s) /\ Effect(s) \in Int
  <2>1. \A s \in ProcessedIn(w) : s \in Requests
    BY DEF ProcessedIn
  <2>2. \A s \in ProcessedIn(w) : Effect(s)' = Effect(s)
    BY <1>1 DEF Effect
  <2> QED
    BY <2>1, <2>2, EffectType
<1>3. /\ IsFiniteSet(DOMAIN u) /\ r \notin DOMAIN u /\ DOMAIN v = DOMAIN u \cup {r}
      /\ v[r] = Effect(r)' /\ v[r] \in Int
      /\ \A s \in DOMAIN u : v[s] = u[s] /\ u[s] \in Int
  BY <1>2, EffectType
<1>4. Settled(w)' = SumFunction(v) /\ Settled(w) = SumFunction(u)
  BY DEF Settled
<1> HIDE DEF u, v
<1> QED
  BY <1>3, <1>4, SumOfMore

(* So does what a wallet was opened with.                                  *)
LEMMA OpenedStays ==
    ASSUME NEW w \in Wallets, OpeningsOf(w)' = OpeningsOf(w)
    PROVE  Opened(w)' = Opened(w)
BY DEF Opened

(* Both sums are numbers of money units.                                   *)
LEMMA SumsAreInts ==
    ASSUME TablesInv, MoneyInv, NEW w \in Wallets
    PROVE  Settled(w) \in Int /\ Opened(w) \in Int
<1>1. Settled(w) \in Int
  <2> DEFINE u == [s \in ProcessedIn(w) |-> Effect(s)]
  <2>1. IsFiniteSet(DOMAIN u) /\ \A s \in DOMAIN u : u[s] \in Int
    BY EffectType DEF MoneyInv, ProcessedIn
  <2>2. Settled(w) = SumFunction(u)
    BY DEF Settled
  <2> HIDE DEF u
  <2> QED
    BY <2>1, <2>2, SumType
<1>2. Opened(w) \in Int
  <2> DEFINE u == [e \in OpeningsOf(w) |-> e.amount]
  <2>1. OpeningsOf(w) = {} \/ \E e \in ledger[w] : OpeningsOf(w) = {e}
    BY DEF OpeningsOf, TablesInv, EntriesBelong
  <2>2. IsFiniteSet(DOMAIN u)
    BY <2>1, FS_EmptySet, FS_Singleton
  <2>3. \A e \in DOMAIN u : u[e] \in Int
    BY DEF OpeningsOf, TablesInv, RowsInv, DecidedInv, OwnedInv, SafeInv, Shape, TypeOK, Entries
  <2>4. Opened(w) = SumFunction(u)
    BY DEF Opened
  <2> HIDE DEF u
  <2> QED
    BY <2>2, <2>3, <2>4, SumType
<1> QED
  BY <1>1, <1>2

(* How the processed operations of a wallet change.                        *)
LEMMA ProcessedForms ==
    ASSUME RowsInv, [Next]_vars, NEW w \in Wallets
    PROVE  \/ ProcessedIn(w)' = ProcessedIn(w)
           \/ \E p \in Processes :
                /\ CommitSettlement(p) /\ job[p].op \in Requests /\ Request[job[p].op].wallet = w
                /\ job[p].op \notin ProcessedIn(w)
                /\ ProcessedIn(w)' = ProcessedIn(w) \cup {job[p].op}
                /\ job[p].decision.outcome = "process" /\ ProcessStands(p)
<1> USE DEF RowsInv, DecidedInv, OwnedInv, SafeInv
<1>1. ProcessedIn(w) \subseteq ProcessedIn(w)'
  BY TerminalRowsStay DEF ProcessedIn, Terminal
<1>2. ASSUME NEW r \in ProcessedIn(w)', r \notin ProcessedIn(w)
      PROVE  \E p \in Processes :
                /\ CommitSettlement(p) /\ job[p].op \in Requests /\ Request[job[p].op].wallet = w
                /\ job[p].op \notin ProcessedIn(w)
                /\ ProcessedIn(w)' = ProcessedIn(w) \cup {job[p].op}
                /\ job[p].decision.outcome = "process" /\ ProcessStands(p)
  <2>1. /\ r \in Requests /\ Request[r].wallet = w /\ txs'[r].status = "PROCESSED"
        /\ txs[r].status # "PROCESSED"
    BY <1>2 DEF ProcessedIn
  <2>2. PICK p \in Processes : CommitSettlement(p) /\ r = job[p].op /\ ProcessStands(p)
    BY <2>1, NewlyProcessed
  <2>3. \A s \in Requests \ {r} : txs'[s].status = txs[s].status
    BY <2>2, CommitForm
  <2>4. ProcessedIn(w)' = ProcessedIn(w) \cup {r}
    BY <1>1, <1>2, <2>3 DEF ProcessedIn
  <2>5. job[p].decision.outcome = "process"
    BY <2>1, <2>2, CommitForm, SettledRowForm
  <2> QED
    BY <1>2, <2>1, <2>2, <2>4, <2>5
<1> QED
  BY <1>1, <1>2

(* A settlement is worth to its wallet what it moves, whether or not it    *)
(* moves anything.                                                         *)
LEMMA MoneySettled ==
    ASSUME TablesInv, MoneyInv, [Next]_vars, NEW w \in Wallets, NEW p \in Processes,
           CommitSettlement(p), NEW r, r = job[p].op, r \in Requests, Request[r].wallet = w,
           r \notin ProcessedIn(w), ProcessedIn(w)' = ProcessedIn(w) \cup {r},
           job[p].decision.outcome = "process", ProcessStands(p)
    PROVE  wallets'[w].balance = Opened(w)' + Settled(w)'
<1>0. RowsInv /\ IsFiniteSet(ProcessedIn(w)) /\ wallets[w].balance = Opened(w) + Settled(w)
  BY DEF TablesInv, MoneyInv, MoneyIsConserved
<1>1. Settled(w)' = Settled(w) + Effect(r)'
  BY <1>0, SettledGrows
<1>2. Settled(w) \in Int /\ Opened(w) \in Int /\ Effect(r)' \in Int
  BY SumsAreInts, EffectType
<1>3. CASE Request[r].kind = "LOSS"
  <2>1. ~Moves(p)
    BY <1>3, MovesForm
  <2>2. UNCHANGED <<wallets, ledger>>
    BY <2>1 DEF CommitSettlement
  <2>3. Opened(w)' = Opened(w)
    BY <2>2, OpenedStays DEF OpeningsOf
  <2>4. Effect(r)' = 0
    BY <1>3 DEF Effect
  <2> QED
    BY <1>0, <1>1, <1>2, <2>2, <2>3, <2>4
<1>4. CASE Request[r].kind # "LOSS"
  <2> DEFINE e == NewEntry(p)
  <2>1. Moves(p) /\ w = walletOf(p)
    BY <1>4, MovesForm DEF walletOf
  <2>2. /\ wallets' = [wallets EXCEPT ![w] = [balance |-> e.after, version |-> e.version]]
        /\ Adds(w, e) /\ e.op = r /\ r \notin Wallets
    BY <1>0, <2>1, MovementForm
  <2>3. e.after = wallets[w].balance + Effect(r)'
    BY <2>1, EffectOfMovement
  <2> HIDE DEF e
  <2>4. /\ wallets'[w].balance = e.after
        /\ ledger'[w] = ledger[w] \cup {e}
    BY <1>0, <2>2 DEF Adds, RowsInv, DecidedInv, OwnedInv, SafeInv, Shape, TypeOK
  <2>5. OpeningsOf(w)' = OpeningsOf(w)
    BY <2>2, <2>4 DEF OpeningsOf
  <2>6. Opened(w)' = Opened(w)
    BY <2>5, OpenedStays
  <2> QED
    BY <1>0, <1>1, <1>2, <2>3, <2>4, <2>6
<1> QED
  BY <1>3, <1>4

(* An opening is worth what the wallet is opened with.                     *)
LEMMA MoneyOpened ==
    ASSUME TablesInv, MoneyInv, [Next]_vars, NEW h \in Handlers, CommitOpening(h),
           NEW w, w = job[h].op, NEW balance, balance = job[h].balance
    PROVE  wallets'[w].balance = Opened(w)' + Settled(w)'
<1> DEFINE e == OpeningEntry(w, balance)
<1>0. RowsInv
  BY DEF TablesInv
<1>1. /\ w \in Wallets /\ balance \in 0..MaxBalance
      /\ wallets[w].version = 0 /\ ledger[w] = {}
      /\ wallets' = [wallets EXCEPT ![w] = [balance |-> balance, version |-> 1]]
      /\ IF balance = 0 THEN ledger' = ledger ELSE Adds(w, e)
      /\ UNCHANGED txs
  BY <1>0, OpeningForm
<1>2. e.op = w /\ e.amount = balance /\ balance \in Int
  BY <1>1, ConstantsAssumption DEF OpeningEntry
<1> HIDE DEF e
<1>3. /\ wallets \in [Wallets -> WalletRows] /\ ledger \in [Wallets -> SUBSET Entries]
  BY <1>0 DEF RowsInv, DecidedInv, OwnedInv, SafeInv, Shape, TypeOK
<1>4. wallets'[w].balance = balance
  BY <1>1, <1>3
<1>5. Settled(w)' = Settled(w) /\ Settled(w) = 0
  <2>1. Settled(w)' = Settled(w)
    BY <1>0, <1>1, SettledStays DEF ProcessedIn
  <2>2. wallets[w].balance = 0
    BY <1>0, <1>1 DEF RowsInv, DecidedInv, OwnedInv, SafeInv, LedgerChain, WalletChain
  <2>3. Opened(w) = 0
    <3> DEFINE u == [f \in OpeningsOf(w) |-> f.amount]
    <3>1. DOMAIN u = {}
      BY <1>1 DEF OpeningsOf
    <3>2. IsFiniteSet(DOMAIN u) /\ \A f \in DOMAIN u : u[f] \in Int
      BY <3>1, FS_EmptySet
    <3>3. Opened(w) = SumFunction(u)
      BY DEF Opened
    <3> HIDE DEF u
    <3> QED
      BY <3>1, <3>2, <3>3, SumType
  <2>4. wallets[w].balance = Opened(w) + Settled(w) /\ Settled(w) \in Int
    BY <1>1, SumsAreInts DEF MoneyInv, MoneyIsConserved
  <2> QED
    BY <2>1, <2>2, <2>3, <2>4
<1>6. Opened(w)' = balance
  <2> DEFINE u == [f \in OpeningsOf(w)' |-> f.amount]
  <2>1. Opened(w)' = SumFunction(u)
    BY DEF Opened
  <2>2. CASE balance = 0
    <3>1. DOMAIN u = {}
      BY <1>1, <2>2 DEF OpeningsOf
    <3>2. IsFiniteSet(DOMAIN u) /\ \A f \in DOMAIN u : u[f] \in Int
      BY <3>1, FS_EmptySet
    <3> HIDE DEF u
    <3> QED
      BY <2>1, <2>2, <3>1, <3>2, SumType
  <2>3. CASE balance # 0
    <3>1. ledger'[w] = {e}
      BY <1>1, <1>3, <2>3 DEF Adds
    <3>2. DOMAIN u = {e} /\ u[e] = balance
      BY <1>2, <3>1 DEF OpeningsOf
    <3> HIDE DEF u
    <3> QED
      BY <1>2, <2>1, <3>2, SumOfOne
  <2> QED
    BY <2>2, <2>3
<1> QED
  BY <1>2, <1>4, <1>5, <1>6

(* Money is conserved by every step.                                       *)
LEMMA MoneyStep ==
    ASSUME TablesInv, MoneyInv, [Next]_vars
    PROVE  MoneyInv'
<1>0. RowsInv
  BY DEF TablesInv
<1>1. ASSUME NEW w \in Wallets PROVE IsFiniteSet(ProcessedIn(w)')
  <2>1. IsFiniteSet(ProcessedIn(w))
    BY DEF MoneyInv
  <2>2. \/ ProcessedIn(w)' = ProcessedIn(w)
        \/ \E r : ProcessedIn(w)' = ProcessedIn(w) \cup {r}
    BY <1>0, ProcessedForms
  <2> QED
    BY <2>1, <2>2, FS_AddElement
<1>2. ASSUME NEW w \in Wallets PROVE wallets'[w].balance = Opened(w)' + Settled(w)'
  <2>1. CASE \E p \in Processes :
               /\ CommitSettlement(p) /\ job[p].op \in Requests /\ Request[job[p].op].wallet = w
               /\ job[p].op \notin ProcessedIn(w)
               /\ ProcessedIn(w)' = ProcessedIn(w) \cup {job[p].op}
               /\ job[p].decision.outcome = "process" /\ ProcessStands(p)
    BY <2>1, MoneySettled
  <2>2. CASE ProcessedIn(w)' = ProcessedIn(w)
    <3>1. Settled(w)' = Settled(w)
      BY <1>0, <2>2, SettledStays
    <3>2. CASE wallets'[w] = wallets[w] /\ OpeningsOf(w)' = OpeningsOf(w)
      BY <3>1, <3>2, OpenedStays DEF MoneyInv, MoneyIsConserved
    <3>3. CASE UNCHANGED <<wallets, ledger>>
      BY <3>2, <3>3 DEF OpeningsOf
    <3>4. ASSUME NEW p \in Processes, CommitSettlement(p), Moves(p),
                 NEW r, r = job[p].op, NEW v, v = walletOf(p), NEW e, e = NewEntry(p)
          PROVE  wallets'[w] = wallets[w] /\ OpeningsOf(w)' = OpeningsOf(w)
      <4>1. /\ r \in Requests /\ v = Request[r].wallet /\ Adds(v, e)
            /\ wallets' = [wallets EXCEPT ![v] = [balance |-> e.after, version |-> e.version]]
            /\ txs[r].status # "PROCESSED" /\ txs'[r].status = "PROCESSED"
        BY <1>0, <3>4, MovementForm
      <4>2. w # v
        BY <2>2, <4>1 DEF ProcessedIn
      <4> QED
        BY <1>0, <4>1, <4>2 DEF Adds, OpeningsOf, RowsInv, DecidedInv, OwnedInv, SafeInv, Shape, TypeOK
    <3>5. ASSUME NEW h \in Handlers, CommitOpening(h),
                 NEW v, v = job[h].op, NEW balance, balance = job[h].balance,
                 NEW e, e = OpeningEntry(v, balance)
          PROVE  v = w \/ (wallets'[w] = wallets[w] /\ OpeningsOf(w)' = OpeningsOf(w))
      <4>1. /\ wallets' = [wallets EXCEPT ![v] = [balance |-> balance, version |-> 1]]
            /\ ledger' = ledger \/ Adds(v, e)
        BY <1>0, <3>5, OpeningForm
      <4> QED
        BY <1>0, <4>1 DEF Adds, OpeningsOf, RowsInv, DecidedInv, OwnedInv, SafeInv, Shape, TypeOK
    <3>6. CASE \E h \in Handlers : CommitOpening(h) /\ job[h].op = w
      BY <3>6, MoneyOpened
    <3> QED
      BY <3>2, <3>3, <3>4, <3>5, <3>6, LedgerForms
  <2> QED
    BY <1>0, <2>1, <2>2, ProcessedForms
<1> QED
  BY <1>1, <1>2 DEF MoneyInv, MoneyIsConserved

(* Before anything happened the wallets are empty.                         *)
LEMMA MoneyInit == Init => MoneyInv
<1> SUFFICES ASSUME Init, NEW w \in Wallets
             PROVE  IsFiniteSet(ProcessedIn(w)) /\ wallets[w].balance = Opened(w) + Settled(w)
  BY DEF MoneyInv, MoneyIsConserved
<1> DEFINE u == [r \in ProcessedIn(w) |-> Effect(r)]
           v == [e \in OpeningsOf(w) |-> e.amount]
<1>1. DOMAIN u = {} /\ DOMAIN v = {} /\ ProcessedIn(w) = {} /\ wallets[w].balance = 0
  BY DEF Init, absentRow, ProcessedIn, OpeningsOf
<1>2. /\ IsFiniteSet(DOMAIN u) /\ \A r \in DOMAIN u : u[r] \in Int
      /\ IsFiniteSet(DOMAIN v) /\ \A e \in DOMAIN v : v[e] \in Int
  BY <1>1, FS_EmptySet
<1>3. Opened(w) = SumFunction(v) /\ Settled(w) = SumFunction(u)
  BY DEF Opened, Settled
<1> HIDE DEF u, v
<1>4. SumFunction(v) = 0 /\ SumFunction(u) = 0
  BY <1>1, <1>2, SumType
<1> QED
  BY <1>1, <1>2, <1>3, <1>4, FS_EmptySet

(* Money is neither created nor lost: the balance of a wallet is what it   *)
(* was opened with and the effects of its processed operations, each       *)
(* counted once, in every reachable state.                                 *)
THEOREM MoneyAlwaysConserved == Spec => []MoneyIsConserved
<1>1. MoneyInv => MoneyIsConserved
  BY DEF MoneyInv
<1> QED
  BY <1>1, MoneyInit, MoneyStep, TablesAlways, PTL DEF Spec

-----------------------------------------------------------------------------
(* What is committed.                                                      *)

(* Guard and trigger of the wallets.                                       *)
LEMMA WalletAccepted ==
    ASSUME TablesInv, [Next]_vars, NEW w \in Wallets, wallets'[w] # wallets[w]
    PROVE  WalletsGuard(w) /\ WalletsBalanceChangeCheck(w)
<1> USE DEF TablesInv
<1>0. wallets \in [Wallets -> WalletRows] /\ ledger \in [Wallets -> SUBSET Entries]
  BY DEF RowsInv, DecidedInv, OwnedInv, SafeInv, Shape, TypeOK
<1>1. ASSUME NEW p \in Processes, CommitSettlement(p), Moves(p)
      PROVE  WalletsGuard(w) /\ WalletsBalanceChangeCheck(w)
  <2> DEFINE e == NewEntry(p)
  <2>1. /\ walletOf(p) \in Wallets /\ wallets[walletOf(p)].version \in Nat \ {0}
        /\ wallets' = [wallets EXCEPT ![walletOf(p)] = [balance |-> e.after, version |-> e.version]]
        /\ Adds(walletOf(p), e)
        /\ e.version = wallets[walletOf(p)].version + 1
        /\ e.before = wallets[walletOf(p)].balance /\ e.before \in 0..MaxBalance
        /\ e.amount \in Nat \ {0} /\ e.direction \in {"DEBIT", "CREDIT"}
        /\ e.after = applyDirection(e.before, e.direction, e.amount) /\ e.after \in 0..MaxBalance
    BY <1>1, MovementForm
  <2> HIDE DEF e
  <2>2. w = walletOf(p)
    BY <1>0, <2>1
  <2>3. wallets'[w].balance = e.after /\ wallets'[w].version = e.version /\ e \in ledger'[w]
    BY <1>0, <2>1, <2>2 DEF Adds
  <2>4. e.after # e.before
    BY <2>1, ConstantsAssumption DEF applyDirection
  <2>5. WalletsGuard(w)
    BY <2>1, <2>2, <2>3, <2>4, ConstantsAssumption DEF WalletsGuard
  <2>6. WalletsBalanceChangeCheck(w)
    BY <2>1, <2>2, <2>3 DEF WalletsBalanceChangeCheck
  <2> QED
    BY <2>5, <2>6
<1>2. ASSUME NEW h \in Handlers, CommitOpening(h)
      PROVE  WalletsGuard(w) /\ WalletsBalanceChangeCheck(w)
  <2> DEFINE balance == job[h].balance
             e == OpeningEntry(job[h].op, balance)
  <2>1. /\ job[h].op \in Wallets /\ balance \in 0..MaxBalance
        /\ wallets[job[h].op].version = 0 /\ ledger[job[h].op] = {}
        /\ wallets' = [wallets EXCEPT ![job[h].op] = [balance |-> balance, version |-> 1]]
        /\ IF balance = 0 THEN ledger' = ledger ELSE Adds(job[h].op, e)
    BY <1>2, OpeningForm
  <2> HIDE DEF balance
  <2>2. w = job[h].op
    BY <1>0, <2>1
  <2>3. wallets'[w].balance = balance /\ wallets'[w].version = 1
    BY <1>0, <2>1, <2>2
  <2>4. WalletsGuard(w)
    BY <2>1, <2>2, <2>3, ConstantsAssumption DEF WalletsGuard
  <2>5. IF balance = 0 THEN ledger'[w] = {} ELSE e \in ledger'[w]
    BY <1>0, <2>1, <2>2 DEF Adds
  <2>6. WalletsBalanceChangeCheck(w)
    <3>1. e.version = 1 /\ e.direction = "CREDIT" /\ e.before = 0 /\ e.after = balance
      BY DEF OpeningEntry
    <3> HIDE DEF e
    <3> QED
      BY <2>1, <2>2, <2>3, <2>5, <3>1 DEF WalletsBalanceChangeCheck
  <2> QED
    BY <2>4, <2>6
<1> QED
  BY <1>1, <1>2, LedgerForms

(* What the ledger of a wallet looks like after a step.                    *)
LEMMA LedgerFacts ==
    ASSUME TablesInv'
    PROVE  /\ ledger' \in [Wallets -> SUBSET Entries] /\ wallets' \in [Wallets -> WalletRows]
           /\ \A w \in Wallets : \A e \in ledger'[w] : EntryBelongs(w, e)'
           /\ \A w \in Wallets : WalletChain(w)'
           /\ \A w \in Wallets : \A e, f \in ledger'[w] : e.op = f.op => e = f
BY DEF TablesInv, RowsInv, DecidedInv, OwnedInv, SafeInv, Shape, TypeOK, EntriesBelong, LedgerChain

(* The entry of a processed operation has the direction of its kind.       *)
LEMMA OwnEntry ==
    ASSUME TablesInv', NEW w \in Wallets, NEW e \in ledger'[w], NEW r, r = e.op, r \in Requests
    PROVE  /\ txs'[r].status = "PROCESSED" /\ Request[r].wallet = w
           /\ Request[r].amount = e.amount /\ Request[r].kind # "LOSS"
           /\ Request[r].kind = "BET" => e.direction = "DEBIT"
           /\ Request[r].kind \in {"WIN", "REFUND"} => e.direction = "CREDIT"
           /\ Request[r].kind = "ROLLBACK" =>
                e.direction = reversalDirection("ROLLBACK", Request[txs'[r].ref].kind)
<1>1. EntryBelongs(w, e)' /\ Request[r].kind \in Kinds
  BY LedgerFacts, RequestAssumption DEF ValidRequest
<1>2. /\ txs'[r].status = "PROCESSED" /\ Request[r].wallet = w
      /\ Request[r].amount = e.amount /\ e.amount > 0 /\ e.direction = MovementOf(r)'
  BY <1>1 DEF EntryBelongs
<1>3. Request[r].kind # "LOSS"
  BY <1>2, RequestAssumption DEF ValidRequest
<1> QED
  BY <1>2, <1>3 DEF MovementOf

(* The direction the trigger expects.                                      *)
LEMMA DirectionAccepted ==
    ASSUME TablesInv', NEW w \in Wallets, NEW e \in ledger'[w]
    PROVE  e.direction \in ExpectedDirection(w, e)
<1>1. CASE e.op \in Wallets
  BY <1>1, LedgerFacts DEF EntryBelongs, ExpectedDirection
<1>2. CASE e.op \notin Wallets
  <2> DEFINE r == e.op
  <2>1. r \in Requests
    BY <1>2, LedgerFacts DEF Entries, Operations
  <2>2. /\ txs'[r].status = "PROCESSED" /\ Request[r].wallet = w
        /\ Request[r].kind # "LOSS" /\ Request[r].kind \in Kinds
        /\ Request[r].kind = "BET" => e.direction = "DEBIT"
        /\ Request[r].kind \in {"WIN", "REFUND"} => e.direction = "CREDIT"
        /\ Request[r].kind = "ROLLBACK" =>
             e.direction = reversalDirection("ROLLBACK", Request[txs'[r].ref].kind)
    BY <2>1, OwnEntry, RequestAssumption DEF ValidRequest
  <2>3. CASE Request[r].kind # "ROLLBACK"
    BY <1>2, <2>2, <2>3 DEF ExpectedDirection, Kinds
  <2>4. CASE Request[r].kind = "ROLLBACK"
    <3> DEFINE o == txs'[r].ref
    <3>1. /\ o \in Requests /\ txs'[o].status = "PROCESSED" /\ Request[o].wallet = w
          /\ Request[o].kind \in {"BET", "WIN", "REFUND"}
      BY <2>1, <2>2, <2>4 DEF TablesInv, RowsInv, ReversedOnce, MovementsRecorded, Reversal, reversible
    <3>2. PICK f \in ledger'[w] : f.op = o
      BY <3>1 DEF TablesInv, MovementsRecorded
    <3>3. /\ Request[o].kind = "BET" => f.direction = "DEBIT"
          /\ Request[o].kind \in {"WIN", "REFUND"} => f.direction = "CREDIT"
      BY <3>1, <3>2, OwnEntry
    <3>4. e.direction = IF f.direction = "CREDIT" THEN "DEBIT" ELSE "CREDIT"
      BY <2>2, <2>4, <3>1, <3>3 DEF reversalDirection
    <3>5. f \in {g \in ledger'[w] : /\ g.op = o
                                    /\ txs'[o].status = "PROCESSED"
                                    /\ Request[o].wallet = w}
      BY <3>1, <3>2
    <3> QED
      BY <1>2, <2>4, <3>4, <3>5 DEF ExpectedDirection
  <2> QED
    BY <2>3, <2>4
<1> QED
  BY <1>1, <1>2

(* Trigger, unique keys and checks of the ledger.                          *)
LEMMA EntryAccepted ==
    ASSUME TablesInv', NEW w \in Wallets, NEW e \in ledger'[w]
    PROVE  LedgerChainCheck(w, e)
<1> DEFINE at(v) == {f \in ledger'[w] : f.version = v}
           wallet == wallets'[w]
<1>1. /\ e \in Entries /\ wallet \in WalletRows
      /\ EntryBelongs(w, e)' /\ WalletChain(w)'
  BY LedgerFacts
<1>2. e.version \in 1..wallet.version /\ e.after = applyDirection(e.before, e.direction, e.amount)
  BY <1>1 DEF WalletChain
<1>3. e.amount > 0 /\ e.before >= 0 /\ e.after >= 0 /\ ((e.version = 1) <=> (e.op = w))
  BY <1>1, ConstantsAssumption DEF EntryBelongs, Entries
<1>4. at(e.version) = {e}
  BY <1>1 DEF WalletChain
<1>5. \A v \in Wallets : \A f \in ledger'[v] : f.op = e.op => v = w /\ f = e
  <2> SUFFICES ASSUME NEW v \in Wallets, NEW f \in ledger'[v], f.op = e.op
               PROVE  v = w /\ f = e
    OBVIOUS
  <2>1. EntryBelongs(v, f)' /\ e.op \in Operations
    BY <1>1, LedgerFacts DEF Entries
  <2>2. v = w
    BY <1>1, <2>1 DEF EntryBelongs, Operations
  <2> QED
    BY <2>2, LedgerFacts
<1>6. e.op \in Requests => /\ txs'[e.op].status = "PROCESSED"
                           /\ Request[e.op].amount = e.amount
                           /\ Request[e.op].wallet = w
  BY OwnEntry
<1>7. e.direction \in ExpectedDirection(w, e)
  BY DirectionAccepted
<1>8. IF e.version = 1 THEN e.before = 0
      ELSE IF at(e.version - 1) # {} THEN \A f \in at(e.version - 1) : f.after = e.before
      ELSE e.version = 2 /\ e.before = 0
  <2>1. CASE e.version = 1
    BY <1>1, <2>1 DEF WalletChain
  <2>2. CASE e.version # 1 /\ at(e.version - 1) # {}
    <3>1. ASSUME NEW f \in at(e.version - 1) PROVE f.after = e.before
      <4>1. f \in ledger'[w] /\ e.version = f.version + 1
        BY <1>2, <3>1
      <4> QED
        BY <1>1, <4>1 DEF WalletChain
    <3> QED
      BY <2>2, <3>1
  <2>3. CASE e.version # 1 /\ at(e.version - 1) = {}
    <3>1. e.version = 2
      <4>1. e.version - 1 \notin 2..wallet.version
        BY <1>1, <2>3 DEF WalletChain
      <4> QED
        BY <1>1, <1>2, <2>3, <4>1 DEF WalletRows
    <3>2. {f \in ledger'[w] : f.version = 1} = {}
      BY <2>3, <3>1
    <3>3. e.before = 0
      BY <1>1, <3>1, <3>2 DEF WalletChain, EntriesAt
    <3> QED
      BY <2>3, <3>1, <3>3
  <2> QED
    BY <2>1, <2>2, <2>3
<1>9. IF e.version = wallet.version THEN e.after = wallet.balance
      ELSE at(e.version + 1) # {} /\ \A f \in at(e.version + 1) : f.before = e.after
  <2>1. CASE e.version = wallet.version
    BY <1>1, <2>1 DEF WalletChain
  <2>2. CASE e.version # wallet.version
    <3>1. e.version + 1 \in 2..wallet.version
      BY <1>1, <1>2, <2>2 DEF WalletRows
    <3>2. PICK f \in ledger'[w] : f.version = e.version + 1
      BY <1>1, <3>1 DEF WalletChain
    <3>3. \A g \in ledger'[w] : g.version = e.version + 1 => g.before = e.after
      BY <1>1 DEF WalletChain
    <3> QED
      BY <2>2, <3>2, <3>3
  <2> QED
    BY <2>1, <2>2
<1> HIDE DEF at
<1> QED
  BY <1>2, <1>3, <1>4, <1>5, <1>6, <1>7, <1>8, <1>9, Zenon DEF LedgerChainCheck, at

(* Guard, checks and unique keys of the operations.                        *)
LEMMA RowAccepted ==
    ASSUME TablesInv, TablesInv', [Next]_vars, NEW r \in Requests, txs'[r] # txs[r]
    PROVE  TransactionsGuard(r) /\ TransactionsConstraints(r)
<1> USE DEF TablesInv, RowsInv, DecidedInv, OwnedInv, SafeInv
<1>1. /\ ~Terminal(txs[r].status) /\ txs[r].status # "PENDING"
      /\ txs[r] \in Rows
  BY TerminalRowsStay DEF Shape, RowsFit, TypeOK
<1>2. \/ /\ txs[r].status = "PENDING_REFERENCE"
         /\ txs'[r].status \in {"PENDING_REFERENCE", "FAILED"}
      \/ txs'[r].status \in {"PROCESSED", "REJECTED", "PENDING_REFERENCE"}
  <2>1. ASSUME NEW p \in Processes, CommitSettlement(p), r = job[p].op
        PROVE  txs'[r].status \in {"PROCESSED", "REJECTED", "PENDING_REFERENCE"}
    BY <2>1, CommitForm, SettledRowForm
  <2>2. ASSUME NEW t \in Nat, txs'[r] = [txs[r] EXCEPT !.nextAt = t]
        PROVE  txs'[r].status = txs[r].status
    BY <1>1, <2>2, RescheduledType
  <2>3. FailedRow(r).status = "FAILED"
    BY <1>1, FailedType DEF FailedRow
  <2> QED
    BY <2>1, <2>2, <2>3, RowForms
<1>3. TransactionsGuard(r)
  BY <1>1, <1>2 DEF TransactionsGuard, Statuses, Terminal
<1>4. Stored(r)' /\ ValidSnapshot(r)' /\ txs'[r] \in Rows /\ txs'[r].status # "PENDING"
  BY <1>2 DEF Stored, RowsRehydrate, Shape, TypeOK, RowsFit
<1>5. TransactionsConstraints(r)
  <2> DEFINE row == txs'[r]
             reversal == Reversal(Request[r].kind)
  <2>1. row.ref # r /\ ((row.code # NoCode) <=> row.status \in {"REJECTED", "FAILED"})
    BY <1>2, <1>4 DEF ValidSnapshot, FailureCodes, NoCode
  <2>2. (row.result # NoBalance) <=> row.status \in {"PROCESSED", "REJECTED"}
    BY <1>2, <1>4 DEF ValidSnapshot, NoBalance
  <2>3. /\ row.status = "PROCESSED" /\ reversal => row.ref # NoTx
        /\ row.status = "PENDING_REFERENCE" => row.nextAt # 0 /\ row.deadline # 0
    BY <1>2, <1>4 DEF ValidSnapshot
  <2>4. \A o \in Requests : txs'[o].status # "ABSENT" /\ Conflicts(r, o) => o = r
    BY <1>4 DEF Ownership, RowsAreUnique, Stored, Conflicts, SameKey, SameExternalID
  <2>5. row.status = "PROCESSED" /\ reversal =>
             ~\E o \in Requests \ {r} : /\ txs'[o].status = "PROCESSED"
                                        /\ Reversal(Request[o].kind)
                                        /\ txs'[o].ref = row.ref
    BY DEF ReversedOnce
  <2> QED
    BY <2>1, <2>2, <2>3, <2>4, <2>5 DEF TransactionsConstraints
<1> QED
  BY <1>3, <1>5

(* The trigger that looks for the entry of a settled operation.            *)
LEMMA SettlementAccepted ==
    ASSUME TablesInv', NEW r \in Requests
    PROVE  SettlementCheck(r)
<1> DEFINE entries == {e \in UNION {ledger'[w] : w \in Wallets} : e.op = r}
<1>1. txs'[r].status # "PENDING"
  BY DEF TablesInv, RowsInv, DecidedInv, OwnedInv, SafeInv, Shape, RowsFit
<1>2. \A e \in entries : /\ e \in ledger'[Request[r].wallet]
                         /\ txs'[r].status = "PROCESSED" /\ Request[r].kind # "LOSS"
  BY OwnEntry
<1>3. CASE txs'[r].status = "PROCESSED" /\ Request[r].kind # "LOSS"
  <2>1. PICK e \in ledger'[Request[r].wallet] : e.op = r
    BY <1>3 DEF TablesInv, MovementsRecorded
  <2>2. Request[r].wallet \in Wallets
    BY RequestAssumption DEF ValidRequest
  <2>3. entries = {e}
    BY <1>2, <2>1, <2>2, LedgerFacts
  <2>4. Cardinality(entries) = 1
    BY <2>3, FS_Singleton
  <2> HIDE DEF entries
  <2> QED
    BY <1>1, <1>3, <2>4 DEF SettlementCheck, entries
<1>4. CASE ~(txs'[r].status = "PROCESSED" /\ Request[r].kind # "LOSS")
  <2>1. entries = {}
    BY <1>2, <1>4
  <2>2. Cardinality(entries) = 0
    BY <2>1, FS_EmptySet
  <2> HIDE DEF entries
  <2> QED
    BY <1>1, <1>4, <2>2 DEF SettlementCheck, entries
<1> QED
  BY <1>3, <1>4

(* Nothing that was appended to the outbox goes.                           *)
LEMMA Prefix ==
    ASSUME NEW S, NEW s \in Seq(S), NEW t \in Seq(S)
    PROVE  Len(s \o t) >= Len(s) /\ SubSeq(s \o t, 1, Len(s)) = s
<1>1. Len(s) \in Nat /\ Len(t) \in Nat /\ Len(s \o t) = Len(s) + Len(t)
  BY LenProperties, ConcatProperties
<1>2. CASE Len(s) = 0
  BY <1>1, <1>2, EmptySeq, SubSeqEmpty
<1>3. CASE Len(s) # 0
  <2>1. SubSeq(s \o t, 1, Len(s)) = SubSeq(s, 1, Len(s))
    BY <1>1, <1>3, SubSeqOfConcat1
  <2> QED
    BY <1>1, <2>1, SubSeqFull
<1> QED
  BY <1>2, <1>3

(* The guard of the outbox: its rows of an operation only grow.            *)
LEMMA EventsAccepted ==
    ASSUME TablesInv, [Next]_vars, NEW o \in Operations
    PROVE  OutboxGuard(o)
<1>1. outbox[o] \in Seq(EventTypes)
  BY DEF TablesInv, RowsInv, DecidedInv, OwnedInv, SafeInv, Shape, TypeOK
<1>2. ASSUME NEW events \in Seq(EventTypes), outbox'[o] = outbox[o] \o events
      PROVE  OutboxGuard(o)
  BY <1>1, <1>2, Prefix DEF OutboxGuard
<1>3. ASSUME outbox'[o] = outbox[o]
      PROVE  OutboxGuard(o)
  <2>1. << >> \in Seq(EventTypes) /\ outbox[o] \o << >> = outbox[o]
    BY <1>1, ConcatEmptySeq, EmptySeq
  <2> QED
    BY <1>2, <1>3, <2>1
<1>4. ASSUME NEW p \in Processes, CommitSettlement(p) PROVE OutboxGuard(o)
  <2>1. outbox'[o] = outbox[o] \o SettlementEvents(p) \/ outbox'[o] = outbox[o]
    BY <1>4 DEF CommitSettlement, TablesInv, RowsInv, DecidedInv, OwnedInv, SafeInv, Shape, TypeOK
  <2> QED
    BY <1>2, <1>3, <2>1, EventsType
<1>5. ASSUME NEW h \in Handlers, CommitOpening(h) PROVE OutboxGuard(o)
  <2> DEFINE events == <<"Processed", "BalanceChanged">>
  <2>1. events \in Seq(EventTypes)
    BY DEF EventTypes
  <2>2. outbox'[o] = outbox[o] \o events \/ outbox'[o] = outbox[o]
    BY <1>5 DEF CommitOpening, TablesInv, RowsInv, DecidedInv, OwnedInv, SafeInv, Shape, TypeOK
  <2> QED
    BY <1>2, <1>3, <2>1, <2>2
<1> QED
  BY <1>3, <1>4, <1>5, TablesForm
     DEF db, Processes, CommitReplay, CommitRequest, CommitRetry, CommitGiveUp

(* No commit is refused: the checks, the unique indexes, the guards and    *)
(* the deferred triggers of migrations/000001_init.up.sql accept every     *)
(* transaction the settlement commits, whatever ran in between, so that    *)
(* the backstop of the database never turns an accepted operation into an  *)
(* internal error.                                                         *)
THEOREM CommitsAreAccepted == Spec => DatabaseAccepts
<1> DEFINE Accepted ==
      /\ \A w \in Wallets : wallets'[w] # wallets[w] =>
            WalletsGuard(w) /\ WalletsBalanceChangeCheck(w)
      /\ \A w \in Wallets : \A e \in ledger'[w] \ ledger[w] : LedgerChainCheck(w, e)
      /\ \A r \in Requests : txs'[r] # txs[r] =>
            TransactionsGuard(r) /\ TransactionsConstraints(r) /\ SettlementCheck(r)
      /\ \A o \in Operations : OutboxGuard(o)
<1>1. TablesInv /\ TablesInv' /\ [Next]_vars => [Accepted]_vars
  BY WalletAccepted, EntryAccepted, RowAccepted, SettlementAccepted, EventsAccepted
<1> QED
  BY <1>1, TablesAlways, PTL DEF Spec, DatabaseAccepts

=============================================================================
