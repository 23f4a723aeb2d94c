----------------------------- MODULE Settlement -----------------------------
(***************************************************************************)
(* How the service settles provider operations: the request handlers (HTTP *)
(* and queue) that run ProcessWagerTransaction and OpenWallet, and the     *)
(* reference workers that run RetryPendingReference, all of them against   *)
(* one PostgreSQL database at READ COMMITTED.                              *)
(*                                                                         *)
(* wallets, txs, ledger, inbox and outbox are the committed tables.  What  *)
(* a transaction has written and not committed is private to its process   *)
(* (pc and job), and becomes visible in one step when it commits.  Locks   *)
(* are not variables of their own: who holds what follows from how far     *)
(* each process has got and what its statements locked, as it does in the  *)
(* database.                                                               *)
(***************************************************************************)
EXTENDS Wagering, Sequences, FiniteSets

CONSTANTS
    Handlers,         \* goroutines serving HTTP requests and queue messages
    Workers,          \* reference workers, one per service instance
    Messages,         \* queue message identifiers
    NoMessage,        \* the empty MessageID of an HTTP request
    Bodies,           \* raw bodies a message may carry
    Deliveries,       \* [request, message, body] a handler may be given
    OpeningBalances,  \* initial balances OpenWallet may be asked for
    ReferenceTTL,     \* how long an operation may wait for its reference
    BackoffBase,      \* first delay between two attempts
    BackoffMax,       \* the longest delay
    AttemptsCap,      \* bound: attempts beyond it no longer change the delay
    MaxClock,         \* bound: the last instant of the model
    MaxArrivals,      \* bound: requests and messages handled in one behaviour
    MaxFaults,        \* bound: transactions that fail in one behaviour
    PermanentFaults   \* may a failure be one the worker calls permanent?

VARIABLES
    clock,     \* the time the processes read
    wallets,   \* committed wallets; version 0 is a wallet not opened yet
    txs,       \* committed wager_transactions, by operation
    ledger,    \* committed wallet_ledger_entries, by wallet
    inbox,     \* committed inbox_messages, by message
    outbox,    \* committed outbox_events, by operation, in insertion order
    overslept, \* history: rows a wake-up met locked, and not written since
    pc,        \* the next statement of each process
    job,       \* what each process remembers between statements
    told,      \* history: the answers given so far about each operation
    arrivals,  \* how many requests and messages have arrived
    faults     \* how many transactions have failed

db == <<wallets, txs, ledger, inbox, outbox, overslept>>
vars == <<clock, wallets, txs, ledger, inbox, outbox, overslept, pc, job, told, arrivals, faults>>

Processes == Handlers \cup Workers

(* backoff(base, maximum, exponent)                                        *)
Backoff(n) ==
    IF BackoffBase * 2^n >= BackoffMax THEN BackoffMax ELSE BackoffBase * 2^n

ASSUME ProcessAssumption ==
    /\ Handlers \cap Workers = {}
    /\ NoMessage \notin Messages
    /\ Deliveries \subseteq [request : Requests, message : Messages \cup {NoMessage},
                             body : Bodies]
    /\ OpeningBalances \subseteq 0..MaxBalance
    /\ NoTx \notin Wallets
    /\ \A r, o \in Requests : Request[r] = Request[o] => r = o
    /\ \A d, e \in Deliveries : d.body = e.body => d.request = e.request

(* A request is a record: two that agree on every column are the same.     *)
ASSUME RecordAssumption ==
    \A r \in Requests : Request[r] = [column \in DOMAIN Request[r] |-> Request[r][column]]

ASSUME TimeAssumption ==
    /\ ReferenceTTL \in Nat /\ BackoffBase \in Nat \ {0} /\ BackoffMax \in Nat
    /\ AttemptsCap \in Nat /\ MaxClock \in Nat \ {0}
    /\ MaxArrivals \in Nat /\ MaxFaults \in Nat
    /\ PermanentFaults \in BOOLEAN
    /\ BackoffBase < ReferenceTTL /\ BackoffBase <= BackoffMax
    /\ \A n \in 0..AttemptsCap + 1 : Backoff(n) \in 1..BackoffMax
    /\ Backoff(AttemptsCap) = BackoffMax

-----------------------------------------------------------------------------
(* The tables.  A wallet stands for the OPENING operation that funded it.  *)

Operations == Requests \cup Wallets

NoBalance == -1   \* a null result_balance_minor

WalletRows == [balance : 0..MaxBalance, version : Nat]

Rows == [status   : Statuses,
         code     : FailureCodes \cup {NoCode},
         result   : 0..MaxBalance \cup {NoBalance},
         ref      : Requests \cup {NoTx},
         attempts : 0..AttemptsCap,
         nextAt   : Nat,
         deadline : Nat]

absentRow == [status |-> "ABSENT", code |-> NoCode, result |-> NoBalance,
              ref |-> NoTx, attempts |-> 0, nextAt |-> 0, deadline |-> 0]

Entries == [version : Nat, op : Operations, direction : {"DEBIT", "CREDIT"},
            amount : Nat, before : 0..MaxBalance, after : 0..MaxBalance]

Outcomes == {"NONE", "PROCESSED", "REJECTED", "PENDING_REFERENCE", "REPLAY"}

InboxRows == [body : Bodies \cup {NoMessage}, tx : Requests \cup {NoTx},
              outcome : Outcomes]

noInboxRow == [body |-> NoMessage, tx |-> NoTx, outcome |-> "NONE"]

EventTypes == {"Processed", "BalanceChanged", "Rejected", "PendingReference"}

Answers == {"PROCESSED", "REJECTED", "PENDING_REFERENCE", "FAILED",
            "IDEMPOTENCY_KEY", "EXTERNAL_ID", "PAYLOAD_MISMATCH",
            "WALLET_NOT_FOUND"}

-----------------------------------------------------------------------------
(* The processes.                                                          *)

PCs == {"idle", "inbox", "insert", "replay", "commitReplay", "lock", "settle",
        "wake", "commit", "create", "commitOpening", "scan", "claim",
        "giveUp", "commitGiveUp"}

Jobs == [op       : Operations \cup {NoTx},
         message  : Messages \cup {NoMessage},
         body     : Bodies \cup {NoMessage},
         now      : Nat,             \* the instant read before the transaction
         balance  : 0..MaxBalance,   \* the wallet as read under its lock
         version  : Nat,
         decision : Decisions,
         seen     : [Requests -> Nat], \* next_attempt_at of the rows that
                                       \* ClaimDuePending found due, else 0
         kept     : SUBSET Requests, \* rows it locked and did not return
         woken    : SUBSET Requests, \* rows WakeUpWaitingFor updated
         missed   : SUBSET Requests, \* history: rows it met locked
         answer   : Statuses]        \* the stored outcome a replay will report

nothingSeen == [r \in Requests |-> 0]

noJob == [op |-> NoTx, message |-> NoMessage, body |-> NoMessage, now |-> 0,
          balance |-> 0, version |-> 0, decision |-> waitReference,
          seen |-> nothingSeen, kept |-> {}, woken |-> {}, missed |-> {},
          answer |-> "ABSENT"]

walletOf(p) == Request[job[p].op].wallet

(* Mutant of HoldsRequest: the unique keys are taken at the commit and not *)
(* by the insert.                                                          *)
HoldsRequest_FromCommit(p, r) ==
    /\ p \in Handlers
    /\ job[p].op = r
    /\ pc[p] = "commit"

(* Mutant of HoldsWallet: the lock that the foreign key of the insert      *)
(* takes conflicts with the one FindForUpdate takes.                       *)
HoldsWallet_SinceInsert(p, w) ==
    /\ pc[p] \in {"lock", "settle", "wake", "commit"}
    /\ walletOf(p) = w

(* Mutant of HoldsWallet: the lock goes before the commit.                 *)
HoldsWallet_UntilDecided(p, w) ==
    /\ pc[p] = "settle"
    /\ walletOf(p) = w

(* The statements between which a handler's uncommitted rows reserve its   *)
(* message identifier and its unique keys, and a settlement holds its      *)
(* wallet FOR NO KEY UPDATE.                                               *)
HoldsMessage(p, m) ==
    /\ p \in Handlers
    /\ job[p].message = m
    /\ pc[p] \in {"insert", "replay", "commitReplay", "lock", "settle", "wake", "commit"}

HoldsRequest(p, r) ==
    /\ p \in Handlers
    /\ job[p].op = r
    /\ pc[p] \in {"lock", "settle", "wake", "commit"}

HoldsWallet(p, w) ==
    /\ pc[p] \in {"settle", "wake", "commit"}
    /\ walletOf(p) = w

(* Row r of wager_transactions is locked FOR UPDATE: WakeUpWaitingFor woke *)
(* it up, or ClaimDuePending or giveUp took it, or ClaimDuePending locked  *)
(* it, saw that it is no longer due and went on to another row, which      *)
(* keeps the lock until the transaction ends.                              *)
HoldsRow(p, r) ==
    \/ r \in job[p].woken \cup job[p].kept
    \/ /\ p \in Workers
       /\ job[p].op = r
       /\ pc[p] \in {"lock", "settle", "wake", "commit", "commitGiveUp"}

(* Row r is locked FOR KEY SHARE by a foreign key to it: the inbox row of  *)
(* a replay (transaction_id), or a settled operation that names it as its  *)
(* reference (reference_transaction_id).  These locks do not conflict with *)
(* one another, and FOR UPDATE conflicts with both kinds.                  *)
Replays(p, r) == pc[p] = "commitReplay" /\ job[p].op = r

SharesRow(p, r) ==
    \/ Replays(p, r)
    \/ pc[p] = "commit" /\ job[p].decision.ref = r

lockedForUpdate(p, r) == \E q \in Processes \ {p} : HoldsRow(q, r)

rowLocked(p, r) == \E q \in Processes \ {p} : HoldsRow(q, r) \/ SharesRow(q, r)

SameKey(r, o) == /\ Request[r].provider = Request[o].provider
                 /\ Request[r].key = Request[o].key

SameExternalID(r, o) == /\ Request[r].provider = Request[o].provider
                        /\ Request[r].ext = Request[o].ext

Conflicts(r, o) == SameKey(r, o) \/ SameExternalID(r, o)

(* Mutant of SamePayload: the stored hash is not compared.                 *)
SamePayload_Unchecked(r, o) == TRUE

(* The payload hash covers every field but the idempotency key.            *)
SamePayload(r, o) == [Request[r] EXCEPT !.key = Request[o].key] = Request[o]

Stored(r) == txs[r].status # "ABSENT"

-----------------------------------------------------------------------------
Init ==
    /\ clock = 1
    /\ wallets = [w \in Wallets |-> [balance |-> 0, version |-> 0]]
    /\ txs = [r \in Requests |-> absentRow]
    /\ ledger = [w \in Wallets |-> {}]
    /\ inbox = [m \in Messages |-> noInboxRow]
    /\ outbox = [o \in Operations |-> << >>]
    /\ overslept = {}
    /\ pc = [p \in Processes |-> "idle"]
    /\ job = [p \in Processes |-> noJob]
    /\ told = [r \in Requests |-> {}]
    /\ arrivals = 0
    /\ faults = 0

Goto(p, label) == pc' = [pc EXCEPT ![p] = label]

(* The process is done with its transaction: its locks go with it.         *)
Finish(p) ==
    /\ Goto(p, "idle")
    /\ job' = [job EXCEPT ![p] = noJob]

Answer(r, answer) == told' = [told EXCEPT ![r] = @ \cup {answer}]

(* An answer that ends the transaction without any change: a read-only     *)
(* replay, or an error whose rollback discards what was written.           *)
Refuse(p, answer) ==
    /\ Answer(job[p].op, answer)
    /\ Finish(p)
    /\ UNCHANGED <<clock, db, arrivals, faults>>

(* A statement that changes nothing but what the process remembers.        *)
Proceed(p, label) ==
    /\ Goto(p, label)
    /\ UNCHANGED <<clock, db, told, arrivals, faults>>

-----------------------------------------------------------------------------
(* One more request or message reaches a handler.                          *)
Arrive(h, label) ==
    /\ pc[h] = "idle"
    /\ arrivals < MaxArrivals
    /\ arrivals' = arrivals + 1
    /\ Goto(h, label)
    /\ UNCHANGED <<clock, db, told, faults>>

(* ProcessWagerTransaction, in a handler.                                  *)

(* Requests stop early enough for every deadline they may set to pass      *)
(* before the last instant of the model.                                   *)
InTime == clock + ReferenceTTL + BackoffMax <= MaxClock

FirstStatement(message) == IF message = NoMessage THEN "insert" ELSE "inbox"

(* Execute: the handler takes a delivery, reads the clock and opens a      *)
(* transaction.                                                            *)
Begin(h, d) ==
    /\ InTime
    /\ job' = [job EXCEPT ![h] = [noJob EXCEPT !.op = d.request,
                                  !.message = d.message, !.body = d.body,
                                  !.now = clock]]
    /\ Arrive(h, FirstStatement(d.message))

(* registerInbox: the insert waits for a transaction that holds the same   *)
(* message.  A message already stored is answered from its row, whose      *)
(* transaction was completed in the commit that stored it.                 *)
RegisterInbox(h) ==
    LET m == job[h].message IN
    /\ pc[h] = "inbox"
    /\ ~\E q \in Processes \ {h} : HoldsMessage(q, m)
    /\ \/ /\ inbox[m] = noInboxRow
          /\ Proceed(h, "insert")
          /\ UNCHANGED job
       \/ /\ inbox[m] # noInboxRow
          /\ inbox[m].body # job[h].body
          /\ Refuse(h, "PAYLOAD_MISMATCH")
       \/ /\ inbox[m] # noInboxRow
          /\ inbox[m].body = job[h].body
          /\ Refuse(h, txs[inbox[m].tx].status)

(* Insert ... ON CONFLICT DO NOTHING: waits for every uncommitted row with *)
(* one of its unique keys, then either finds a conflict, or fails on the   *)
(* foreign key to a wallet that was never opened, or holds the keys.       *)
Insert(h) ==
    LET r == job[h].op IN
    /\ pc[h] = "insert"
    /\ ~\E q \in Handlers \ {h} : \E o \in Requests : HoldsRequest(q, o) /\ Conflicts(r, o)
    /\ \/ /\ \E o \in Requests : Stored(o) /\ Conflicts(r, o)
          /\ Proceed(h, "replay")
          /\ UNCHANGED job
       \/ /\ \A o \in Requests : Stored(o) => ~Conflicts(r, o)
          /\ wallets[Request[r].wallet].version = 0
          /\ Refuse(h, "WALLET_NOT_FOUND")
       \/ /\ \A o \in Requests : Stored(o) => ~Conflicts(r, o)
          /\ wallets[Request[r].wallet].version > 0
          /\ Proceed(h, "lock")
          /\ UNCHANGED job

(* replay: the stored operation answers.  A different payload under the    *)
(* same key, or another key with the same external identifier, is a        *)
(* conflict.  On the queue the message is completed first; its foreign key *)
(* to the operation waits for whoever holds that row FOR UPDATE.           *)
Replay(h) ==
    LET r == job[h].op IN
    /\ pc[h] = "replay"
    /\ \/ \E o \in Requests :
            /\ Stored(o) /\ SameKey(r, o) /\ SamePayload(r, o)
            /\ IF job[h].message = NoMessage
                 THEN Refuse(h, txs[o].status)
                 ELSE /\ ~lockedForUpdate(h, o)
                      /\ job' = [job EXCEPT ![h].op = o, ![h].answer = txs[o].status]
                      /\ Proceed(h, "commitReplay")
       \/ /\ \E o \in Requests : Stored(o) /\ SameKey(r, o) /\ ~SamePayload(r, o)
          /\ Refuse(h, "IDEMPOTENCY_KEY")
       \/ /\ ~\E o \in Requests : Stored(o) /\ SameKey(r, o)
          /\ \E o \in Requests : Stored(o) /\ SameExternalID(r, o)
          /\ Refuse(h, "EXTERNAL_ID")

(* The server committed.  Either its reply reached the process, which      *)
(* answers, or it was lost: ClassifyCommit then calls the outcome unknown  *)
(* and nobody is told.                                                     *)
Report(r, answer, heard) ==
    IF heard THEN Answer(r, answer) /\ UNCHANGED faults
    ELSE /\ faults < MaxFaults
         /\ faults' = faults + 1
         /\ UNCHANGED told

(* COMMIT of a replay that came from the queue.                            *)
CommitReplay(h, heard) ==
    LET j == job[h] IN
    /\ pc[h] = "commitReplay"
    /\ inbox' = [inbox EXCEPT ![j.message] =
                   [body |-> j.body, tx |-> j.op, outcome |-> "REPLAY"]]
    /\ Report(j.op, j.answer, heard)
    /\ Finish(h)
    /\ UNCHANGED <<clock, wallets, txs, ledger, outbox, overslept, arrivals>>

-----------------------------------------------------------------------------
(* Settlement under the wallet lock, in a handler or in a worker.          *)

(* FindForUpdate: waits for the lock and reads the wallet as last          *)
(* committed.                                                              *)
LockWallet(p) ==
    LET w == walletOf(p) IN
    /\ pc[p] = "lock"
    /\ ~\E q \in Processes \ {p} : HoldsWallet(q, w)
    /\ job' = [job EXCEPT ![p].balance = wallets[w].balance,
                          ![p].version = wallets[w].version]
    /\ Proceed(p, "settle")

(* FindByExternalID sees committed rows and the row the handler inserted.  *)
StatusSeen(p, o) ==
    IF p \in Handlers /\ o = job[p].op THEN "PENDING" ELSE txs[o].status

(* Mutant of HasSuccessfulReversal: nobody looks for one.                  *)
HasSuccessfulReversal_Never(o) == FALSE

HasSuccessfulReversal(o) ==
    \E r \in Requests : /\ txs[r].ref = o
                        /\ Reversal(Request[r].kind)
                        /\ txs[r].status = "PROCESSED"

resolveReference(p) ==
    LET r == job[p].op
        found == {o \in Requests : /\ Request[r].refExt # NoExt
                                   /\ Request[o].ext = Request[r].refExt
                                   /\ Request[o].provider = Request[r].provider
                                   /\ StatusSeen(p, o) # "ABSENT"}
        o == CHOOSE o \in found : TRUE
    IN  IF found = {} THEN noReference
        ELSE [id |-> o, status |-> StatusSeen(p, o),
              reversed |-> Reversal(Request[r].kind) /\ HasSuccessfulReversal(o)]

(* Mutants of deadlineReached: a row without a deadline counts as expired, *)
(* and no row ever expires.                                                *)
deadlineReached_ZeroTime(p) == job[p].now >= txs[job[p].op].deadline

deadlineReached_Never(p) == FALSE

(* deadlineReached: only a row already parked has a deadline, and it is    *)
(* compared with the instant read before the transaction began.            *)
deadlineReached(p) == p \in Workers /\ job[p].now >= txs[job[p].op].deadline

(* Decide, then the writes of settle.  They stay private until the commit; *)
(* a terminal outcome goes on to wake up whoever waits for it.             *)
Settle(p) ==
    LET d == Decide(job[p].balance, job[p].op, resolveReference(p), deadlineReached(p))
    IN  /\ pc[p] = "settle"
        /\ job' = [job EXCEPT ![p].decision = d]
        /\ Proceed(p, IF d.outcome = "wait" THEN "commit" ELSE "wake")

(* The rows of the same provider that wait for this external identifier    *)
(* and are not due yet.                                                    *)
Sleeping(p) ==
    {r \in Requests : /\ txs[r].status = "PENDING_REFERENCE"
                      /\ Request[r].provider = Request[job[p].op].provider
                      /\ Request[r].refExt = Request[job[p].op].ext
                      /\ txs[r].nextAt > job[p].now}

(* Mutant of Waiting: nobody is woken up.                                  *)
Waiting_Nobody(p) == {}

(* WakeUpWaitingFor skips the rows someone holds.                          *)
Waiting(p) == {r \in Sleeping(p) : ~rowLocked(p, r)}

(* The rows it skipped although no worker is about to settle them: a       *)
(* replay held them, or a claim that went on to another row.               *)
MetLocked(p) ==
    {r \in Sleeping(p) : \E q \in Processes \ {p} : Replays(q, r) \/ r \in job[q].kept}

(* Update of a terminal operation, whose foreign key to its reference      *)
(* waits for whoever holds that row FOR UPDATE, then WakeUpWaitingFor.     *)
WakeUp(p) ==
    /\ pc[p] = "wake"
    /\ ~lockedForUpdate(p, job[p].decision.ref)
    /\ job' = [job EXCEPT ![p].woken = Waiting(p), ![p].missed = MetLocked(p)]
    /\ Proceed(p, "commit")

Moves(p) == job[p].decision.outcome = "process" /\ job[p].decision.direction # "NONE"

(* move: the balance after the movement, one version further.              *)
MovedBalance(p) ==
    applyDirection(job[p].balance, job[p].decision.direction, Request[job[p].op].amount)

(* Mutant of MovedWallet: the version stays.                               *)
MovedWallet_SameVersion(p) == [balance |-> MovedBalance(p), version |-> job[p].version]

MovedWallet(p) == [balance |-> MovedBalance(p), version |-> job[p].version + 1]

(* Mutant of NewEntry: the entry carries the version before the movement.  *)
NewEntry_OldVersion(p) == [version   |-> job[p].version,
                           op        |-> job[p].op,
                           direction |-> job[p].decision.direction,
                           amount    |-> Request[job[p].op].amount,
                           before    |-> job[p].balance,
                           after     |-> MovedBalance(p)]

NewEntry(p) == [version   |-> job[p].version + 1,
                op        |-> job[p].op,
                direction |-> job[p].decision.direction,
                amount    |-> Request[job[p].op].amount,
                before    |-> job[p].balance,
                after     |-> MovedBalance(p)]

(* MarkPendingReference *)
ParkedRow(p) ==
    [absentRow EXCEPT !.status = "PENDING_REFERENCE",
                      !.nextAt = job[p].now + BackoffBase,
                      !.deadline = job[p].now + ReferenceTTL]

(* Reschedule: the attempts beyond AttemptsCap all wait BackoffMax.        *)
RescheduledRow(p) ==
    LET row == txs[job[p].op] IN
    [row EXCEPT !.attempts = IF @ < AttemptsCap THEN @ + 1 ELSE @,
                !.nextAt = job[p].now + Backoff(row.attempts + 1)]

(* MarkProcessed and MarkRejected, which clear the schedule.               *)
TerminalRow(p) ==
    LET d == job[p].decision IN
    [status   |-> IF d.outcome = "process" THEN "PROCESSED" ELSE "REJECTED",
     code     |-> d.code,
     result   |-> IF Moves(p) THEN MovedBalance(p) ELSE job[p].balance,
     ref      |-> d.ref,
     attempts |-> txs[job[p].op].attempts,
     nextAt   |-> 0,
     deadline |-> 0]

SettledRow(p) ==
    IF job[p].decision.outcome # "wait" THEN TerminalRow(p)
    ELSE IF p \in Handlers THEN ParkedRow(p)
    ELSE RescheduledRow(p)

(* Mutant of SettlementEvents: a reschedule announces the wait again.      *)
SettlementEvents_Rescheduled(p) ==
    IF job[p].decision.outcome = "reject" THEN <<"Rejected">>
    ELSE IF Moves(p) THEN <<"Processed", "BalanceChanged">>
    ELSE IF job[p].decision.outcome = "process" THEN <<"Processed">>
    ELSE <<"PendingReference">>

(* appendSettlementEvents: a rescheduled operation announces nothing.      *)
SettlementEvents(p) ==
    IF job[p].decision.outcome = "reject" THEN <<"Rejected">>
    ELSE IF Moves(p) THEN <<"Processed", "BalanceChanged">>
    ELSE IF job[p].decision.outcome = "process" THEN <<"Processed">>
    ELSE IF p \in Handlers THEN <<"PendingReference">>
    ELSE << >>

(* COMMIT: everything the transaction wrote appears at once.  The wallet   *)
(* update required the version read under the lock.                        *)
CommitSettlement(p) ==
    LET j == job[p]
        w == walletOf(p)
    IN  /\ pc[p] = "commit"
        /\ Moves(p) => wallets[w].version = j.version
        /\ wallets' = IF Moves(p) THEN [wallets EXCEPT ![w] = MovedWallet(p)] ELSE wallets
        /\ ledger' = IF Moves(p) THEN [ledger EXCEPT ![w] = @ \cup {NewEntry(p)}] ELSE ledger
        /\ txs' = [r \in Requests |->
                     IF r = j.op THEN SettledRow(p)
                     ELSE IF r \in j.woken THEN [txs[r] EXCEPT !.nextAt = j.now]
                     ELSE txs[r]]
        /\ overslept' = (overslept \ (j.woken \cup {j.op})) \cup j.missed
        /\ outbox' = [outbox EXCEPT ![j.op] = @ \o SettlementEvents(p)]
        /\ inbox' = IF p \in Handlers /\ j.message # NoMessage
                      THEN [inbox EXCEPT ![j.message] =
                              [body |-> j.body, tx |-> j.op, outcome |-> SettledRow(p).status]]
                      ELSE inbox
        /\ Finish(p)
        /\ UNCHANGED <<clock, arrivals>>

CommitRequest(h, heard) ==
    /\ CommitSettlement(h)
    /\ Report(job[h].op, SettledRow(h).status, heard)

CommitRetry(k) == CommitSettlement(k) /\ UNCHANGED <<told, faults>>

-----------------------------------------------------------------------------
(* OpenWallet, in a handler.                                               *)

BeginOpening(h, w, balance) ==
    /\ job' = [job EXCEPT ![h] = [noJob EXCEPT !.op = w, !.now = clock, !.balance = balance]]
    /\ Arrive(h, "create")

(* Create waits for an uncommitted wallet of the same player and currency, *)
(* and fails with ErrAlreadyExists on a committed one.                     *)
CreateWallet(h) ==
    LET w == job[h].op IN
    /\ pc[h] = "create"
    /\ ~\E q \in Handlers \ {h} : pc[q] = "commitOpening" /\ job[q].op = w
    /\ \/ /\ wallets[w].version = 0
          /\ Proceed(h, "commitOpening")
          /\ UNCHANGED job
       \/ /\ wallets[w].version > 0
          /\ Finish(h)
          /\ UNCHANGED <<clock, db, told, arrivals, faults>>

OpeningEntry(w, balance) ==
    [version |-> 1, op |-> w, direction |-> "CREDIT", amount |-> balance,
     before |-> 0, after |-> balance]

(* A wallet opened with zero has neither an OPENING operation nor events.  *)
CommitOpening(h) ==
    LET w == job[h].op
        balance == job[h].balance
    IN  /\ pc[h] = "commitOpening"
        /\ wallets' = [wallets EXCEPT ![w] = [balance |-> balance, version |-> 1]]
        /\ IF balance = 0 THEN UNCHANGED <<ledger, outbox>>
           ELSE /\ ledger' = [ledger EXCEPT ![w] = @ \cup {OpeningEntry(w, balance)}]
                /\ outbox' = [outbox EXCEPT ![w] = @ \o <<"Processed", "BalanceChanged">>]
        /\ Finish(h)
        /\ UNCHANGED <<clock, txs, inbox, overslept, told, arrivals, faults>>

-----------------------------------------------------------------------------
(* RetryPendingReference, in a worker.                                     *)

(* attempt reads the clock before the transaction starts.                  *)
BeginAttempt(k) ==
    /\ pc[k] = "idle"
    /\ job' = [job EXCEPT ![k].now = clock]
    /\ Proceed(k, "scan")

Due(k) == {r \in Requests : /\ txs[r].status = "PENDING_REFERENCE"
                            /\ txs[r].nextAt <= job[k].now}

(* ClaimDuePending looks for due rows in the snapshot of its statement,    *)
(* the ones that have been due the longest first; errNoPendingWork when    *)
(* there is none.                                                          *)
ScanPending(k) ==
    /\ pc[k] = "scan"
    /\ \/ /\ Due(k) # {}
          /\ job' = [job EXCEPT ![k].seen =
                        [r \in Requests |-> IF r \in Due(k) THEN txs[r].nextAt ELSE 0]]
          /\ Proceed(k, "claim")
       \/ /\ Due(k) = {}
          /\ Finish(k)
          /\ UNCHANGED <<clock, db, told, arrivals, faults>>

(* The rows of the snapshot that nobody holds: the ones that are still due *)
(* in their newest version, and the ones that are not.                     *)
FreeRows(k) == {r \in Requests : job[k].seen[r] > 0 /\ ~rowLocked(k, r)}

StillDue(k) == FreeRows(k) \cap Due(k)

NotDueAnyMore(k) == FreeRows(k) \ Due(k)

(* Then it locks one row after the other, skipping the ones someone holds, *)
(* until one is still due.  It takes that row, and keeps the lock of the   *)
(* rows before it.  Rows due at the same instant come in either order.     *)
ClaimDuePending(k) ==
    LET seen == job[k].seen IN
    /\ pc[k] = "claim"
    /\ \/ \E r \in StillDue(k), kept \in SUBSET NotDueAnyMore(k) :
            /\ \A o \in StillDue(k) : seen[r] <= seen[o]
            /\ \A o \in kept : seen[o] <= seen[r]
            /\ \A o \in NotDueAnyMore(k) : seen[o] < seen[r] => o \in kept
            /\ job' = [job EXCEPT ![k].op = r, ![k].kept = kept, ![k].seen = nothingSeen]
            /\ Proceed(k, "lock")
       \/ /\ StillDue(k) = {}
          /\ Finish(k)
          /\ UNCHANGED <<clock, db, told, arrivals, faults>>

(* Mutant of GiveUp: the row is not looked at again.                       *)
GiveUp_Blind(k) ==
    /\ pc[k] = "giveUp"
    /\ ~rowLocked(k, job[k].op)
    /\ Proceed(k, "commitGiveUp")
    /\ UNCHANGED job

(* giveUp opens a transaction of its own, which takes the row lock and not *)
(* the wallet lock, and looks at the row again.                            *)
GiveUp(k) ==
    LET r == job[k].op IN
    /\ pc[k] = "giveUp"
    /\ ~rowLocked(k, r)
    /\ \/ /\ txs[r].status = "PENDING_REFERENCE"
          /\ Proceed(k, "commitGiveUp")
          /\ UNCHANGED job
       \/ /\ txs[r].status # "PENDING_REFERENCE"
          /\ Finish(k)
          /\ UNCHANGED <<clock, db, told, arrivals, faults>>

(* Mutant of FailedRow: the schedule is not cleared.                       *)
FailedRow_Scheduled(r) ==
    [txs[r] EXCEPT !.status = "FAILED", !.code = "PERMANENT_FAILURE"]

(* MarkFailed *)
FailedRow(r) ==
    [txs[r] EXCEPT !.status = "FAILED", !.code = "PERMANENT_FAILURE",
                   !.nextAt = 0, !.deadline = 0]

CommitGiveUp(k) ==
    LET r == job[k].op IN
    /\ pc[k] = "commitGiveUp"
    /\ txs' = [txs EXCEPT ![r] = FailedRow(r)]
    /\ Finish(k)
    /\ UNCHANGED <<clock, wallets, ledger, inbox, outbox, overslept, told, arrivals, faults>>

-----------------------------------------------------------------------------
(* Deadlocks.                                                              *)

(* One step of the wait-for graph of the database: p's next statement      *)
(* waits for a lock that q holds.                                          *)
WaitsFor(p, q) ==
    /\ p # q
    /\ \/ pc[p] = "inbox" /\ HoldsMessage(q, job[p].message)
       \/ pc[p] = "insert" /\ \E o \in Requests : HoldsRequest(q, o) /\ Conflicts(job[p].op, o)
       \/ pc[p] = "replay" /\ job[p].message # NoMessage /\ HoldsRow(q, job[p].op)
       \/ pc[p] = "lock" /\ HoldsWallet(q, walletOf(p))
       \/ pc[p] = "wake" /\ HoldsRow(q, job[p].decision.ref)
       \/ pc[p] = "giveUp" /\ (HoldsRow(q, job[p].op) \/ SharesRow(q, job[p].op))
       \/ pc[p] = "create" /\ pc[q] = "commitOpening" /\ job[q].op = job[p].op

Waiters == {p \in Processes : \E q \in Processes : WaitsFor(p, q)}

(* p belongs to a group in which everyone waits for another of the group   *)
(* and keeps another of it waiting.                                        *)
Deadlocked(p) ==
    \E group \in SUBSET Waiters :
        /\ p \in group
        /\ \A q \in group : /\ \E x \in group : WaitsFor(q, x)
                            /\ \E x \in group : WaitsFor(x, q)

(* UnitOfWork.Do rolls back and runs its function again.  A worker keeps   *)
(* the instant it read before, a handler reads the clock again.            *)
RunAgain(p) ==
    \/ /\ p \in Workers
       /\ Goto(p, "scan")
       /\ job' = [job EXCEPT ![p] = [noJob EXCEPT !.now = job[p].now]]
    \/ /\ p \in Handlers
       /\ InTime
       /\ Goto(p, FirstStatement(job[p].message))
       /\ job' = [job EXCEPT ![p] = [noJob EXCEPT !.op = job[p].op,
                                     !.message = job[p].message,
                                     !.body = job[p].body, !.now = clock]]

(* The database makes one process of a deadlock the victim (40P01), which  *)
(* runs again as long as it has attempts left.                             *)
DeadlockVictim(p) ==
    /\ Deadlocked(p)
    /\ RunAgain(p) \/ Finish(p)
    /\ UNCHANGED <<clock, db, told, arrivals, faults>>

-----------------------------------------------------------------------------
(* Failures and time.                                                      *)

InTransaction(p) == pc[p] # "idle"

(* The transaction is rolled back: the process dies, its context ends, the *)
(* lock times out, the connection breaks before or during COMMIT without   *)
(* the server committing.  The caller gets an error and is told nothing.   *)
Abort(p) ==
    /\ InTransaction(p)
    /\ faults < MaxFaults
    /\ faults' = faults + 1
    /\ Finish(p)
    /\ UNCHANGED <<clock, db, told, arrivals>>

(* A serialization failure, or a deadlock with a session that is not part  *)
(* of the service: the worker's function runs again.  In a handler it is   *)
(* an Abort followed by a Begin.                                           *)
RetryAttempt(k) ==
    /\ pc[k] \in {"scan", "claim", "lock", "settle", "wake", "commit"}
    /\ faults < MaxFaults
    /\ faults' = faults + 1
    /\ RunAgain(k)
    /\ UNCHANGED <<clock, db, told, arrivals>>

(* An error that recoverable does not recognise, after a row was claimed:  *)
(* a recovered panic, or a constraint the server reports.                  *)
PermanentError(k) ==
    /\ PermanentFaults
    /\ pc[k] \in {"lock", "settle", "wake", "commit"}
    /\ faults < MaxFaults
    /\ faults' = faults + 1
    /\ Goto(k, "giveUp")
    /\ job' = [job EXCEPT ![k] = [noJob EXCEPT !.op = job[k].op]]
    /\ UNCHANGED <<clock, db, told, arrivals>>

Tick ==
    /\ clock < MaxClock
    /\ clock' = clock + 1
    /\ UNCHANGED <<db, pc, job, told, arrivals, faults>>

-----------------------------------------------------------------------------
HandlerStep(h) ==
    \/ RegisterInbox(h) \/ Insert(h) \/ Replay(h)
    \/ LockWallet(h) \/ Settle(h) \/ WakeUp(h)
    \/ \E heard \in BOOLEAN : CommitReplay(h, heard) \/ CommitRequest(h, heard)
    \/ CreateWallet(h) \/ CommitOpening(h)

WorkerStep(k) ==
    \/ BeginAttempt(k) \/ ScanPending(k) \/ ClaimDuePending(k)
    \/ LockWallet(k) \/ Settle(k) \/ WakeUp(k) \/ CommitRetry(k)
    \/ GiveUp(k) \/ CommitGiveUp(k)

Arrival(h) ==
    \/ \E d \in Deliveries : Begin(h, d)
    \/ \E w \in Wallets, b \in OpeningBalances : BeginOpening(h, w, b)

Failure ==
    \/ \E p \in Processes : Abort(p)
    \/ \E k \in Workers : RetryAttempt(k) \/ PermanentError(k)

Next ==
    \/ \E h \in Handlers : Arrival(h) \/ HandlerStep(h)
    \/ \E k \in Workers : WorkerStep(k)
    \/ \E p \in Processes : DeadlockVictim(p)
    \/ Failure
    \/ Tick

Spec == Init /\ [][Next]_vars

(* A process that can take its next step takes it, the database resolves a *)
(* deadlock, and time passes.  Arrivals and failures are never forced.     *)
Fairness ==
    /\ \A h \in Handlers : WF_vars(HandlerStep(h))
    /\ \A k \in Workers : WF_vars(WorkerStep(k))
    /\ WF_vars(\E p \in Processes : DeadlockVictim(p))
    /\ WF_vars(Tick)

FairSpec == Spec /\ Fairness

=============================================================================
