------------------------ MODULE SettlementProperties ------------------------
(***************************************************************************)
(* What must hold of the settlement of provider operations.                *)
(***************************************************************************)
EXTENDS Settlement, Functions

(* Every variable stays within the tables and the vocabulary of the code.  *)
TypeOK ==
    /\ clock \in 1..MaxClock
    /\ wallets \in [Wallets -> WalletRows]
    /\ txs \in [Requests -> Rows]
    /\ ledger \in [Wallets -> SUBSET Entries]
    /\ inbox \in [Messages -> InboxRows]
    /\ outbox \in [Operations -> Seq(EventTypes)]
    /\ overslept \in SUBSET Requests
    /\ pc \in [Processes -> PCs]
    /\ job \in [Processes -> Jobs]
    /\ told \in [Requests -> SUBSET Answers]
    /\ arrivals \in 0..MaxArrivals
    /\ faults \in 0..MaxFaults

-----------------------------------------------------------------------------
(* Locks and what is read under them.                                      *)

UnderWalletLock(p) == pc[p] \in {"settle", "wake", "commit"}

(* SELECT ... FOR NO KEY UPDATE admits one settlement per wallet at a time *)
(* (FindForUpdate).                                                        *)
OneSettlementPerWallet ==
    \A p, q \in Processes :
        UnderWalletLock(p) /\ UnderWalletLock(q) /\ walletOf(p) = walletOf(q) => p = q

(* The balance and the version a process read when it got the wallet lock  *)
(* are still the committed ones when it commits, so the optimistic version *)
(* check of the wallet update never finds another version.                 *)
ReadUnderLockIsCurrent ==
    \A p \in Processes : UnderWalletLock(p) =>
        /\ job[p].version = wallets[walletOf(p)].version
        /\ job[p].balance = wallets[walletOf(p)].balance

(* A reversal that was processed or rejected would still be, if the        *)
(* decision were taken again at commit: nothing it was based on (its       *)
(* reference, the reversals of it, the balance) can move in between.  A    *)
(* reversal that waits would not be processed either.                      *)
DecisionStillStands ==
    \A p \in Processes :
        pc[p] \in {"wake", "commit"} /\ Reversal(Request[job[p].op].kind) =>
            LET again == Decide(wallets[walletOf(p)].balance, job[p].op,
                                resolveReference(p), deadlineReached(p))
            IN  IF job[p].decision.outcome = "wait" THEN again.outcome # "process"
                ELSE again.outcome = job[p].decision.outcome

(* Message, unique keys, row and wallet are taken in an order that leaves  *)
(* someone able to go on, with one exception: a settlement that holds its  *)
(* wallet may need its reference while a worker still holds that row,      *)
(* which it locked and found settled, and waits for a wallet in turn.      *)
(* Every deadlock goes through such a row (ClaimDuePending, Update).       *)
OnlyKeptRowsDeadlock ==
    \A group \in (SUBSET Processes) \ {{}} :
        \/ \E p \in group : \A q \in group : ~WaitsFor(p, q)
        \/ \E p \in group, k \in group \cap Workers :
              pc[p] = "wake" /\ job[p].decision.ref \in job[k].kept

-----------------------------------------------------------------------------
(* Money.                                                                  *)

EntriesAt(w, v) == {e \in ledger[w] : e.version = v}

WalletChain(w) ==
    /\ \A e \in ledger[w] : /\ e.version \in 1..wallets[w].version
                            /\ e.after = applyDirection(e.before, e.direction, e.amount)
    /\ \A e, f \in ledger[w] : e.version = f.version => e = f
    /\ \A e \in ledger[w] : e.version = 1 => e.before = 0
    /\ \A v \in 2..wallets[w].version : \E e \in ledger[w] : e.version = v
    /\ \A e \in ledger[w] : e.version = wallets[w].version => e.after = wallets[w].balance
    /\ \A e, f \in ledger[w] : f.version = e.version + 1 => f.before = e.after
    /\ \A e \in ledger[w] : e.version = 2 /\ EntriesAt(w, 1) = {} => e.before = 0
    /\ wallets[w].version <= 1 /\ ledger[w] = {} => wallets[w].balance = 0

(* Every version of a wallet beyond the first was written by one ledger    *)
(* entry, which starts where the version before it ended, and the wallet   *)
(* holds what the newest entry left (version 1 of a wallet opened with     *)
(* zero has no entry).  This is what the deferred triggers re-check.       *)
LedgerChain == \A w \in Wallets : WalletChain(w)

(* What a processed operation is worth to its wallet.                      *)
Effect(r) ==
    LET kind == Request[r].kind
        amount == Request[r].amount
    IN  CASE kind = "LOSS" -> 0
          [] kind = "BET" -> 0 - amount
          [] kind \in {"WIN", "REFUND"} -> amount
          [] kind = "ROLLBACK" -> IF Request[txs[r].ref].kind = "BET" THEN amount ELSE 0 - amount

ProcessedIn(w) == {r \in Requests : Request[r].wallet = w /\ txs[r].status = "PROCESSED"}
Settled(w) == SumFunction([r \in ProcessedIn(w) |-> Effect(r)])

OpeningsOf(w) == {e \in ledger[w] : e.op = w}
Opened(w) == SumFunction([e \in OpeningsOf(w) |-> e.amount])

(* Money is neither created nor lost: a wallet holds what it was opened    *)
(* with and the effect of each of its processed operations, once, whatever *)
(* was retried, redelivered, rolled back or left with an unknown commit.   *)
MoneyIsConserved ==
    \A w \in Wallets : wallets[w].balance = Opened(w) + Settled(w)

(* No operation is successfully reversed twice, whichever kinds of         *)
(* reversal compete and whichever process settles them, and what is        *)
(* reversed was processed in the same wallet for the same amount: the      *)
(* unique index on successful reversals never has to refuse a commit.      *)
ReversedOnce ==
    \A r \in Requests :
        Reversal(Request[r].kind) /\ txs[r].status = "PROCESSED" =>
            LET o == txs[r].ref IN
            /\ o \in Requests
            /\ txs[o].status = "PROCESSED"
            /\ Request[o].wallet = Request[r].wallet
            /\ Request[o].amount = Request[r].amount
            /\ \A s \in Requests :
                 Reversal(Request[s].kind) /\ txs[s].status = "PROCESSED" /\ txs[s].ref = o => s = r

-----------------------------------------------------------------------------
(* Idempotency.                                                            *)

(* Whoever was told an outcome can rely on it: a final answer is the       *)
(* stored one whatever was retried, redelivered or lost since, an accepted *)
(* operation is stored, and a refused duplicate never takes effect.        *)
AnswersNeverContradict ==
    \A r \in Requests :
        /\ \A s \in {"PROCESSED", "REJECTED", "FAILED"} : s \in told[r] => txs[r].status = s
        /\ "PENDING_REFERENCE" \in told[r] => Stored(r)
        /\ {"IDEMPOTENCY_KEY", "EXTERNAL_ID"} \cap told[r] # {} => ~Stored(r)

(* A message in the inbox is complete: it names a stored operation, the    *)
(* one its body asked for, and the outcome that operation really had when  *)
(* the message was handled.                                                *)
InboxAgrees ==
    \A m \in Messages : inbox[m] # noInboxRow =>
        LET i == inbox[m] IN
        /\ i.tx \in Requests /\ Stored(i.tx)
        /\ \E d \in Deliveries : d.message = m /\ d.body = i.body /\ d.request = i.tx
        /\ i.outcome \in {"PROCESSED", "REJECTED"} => txs[i.tx].status = i.outcome
        /\ i.outcome = "PENDING_REFERENCE" => outbox[i.tx] # << >> /\ outbox[i.tx][1] = "PendingReference"

(* The events of an operation tell its story exactly once: parked at most  *)
(* once and first, then its outcome, with a balance change exactly when    *)
(* the ledger moved.  An operation given up announces nothing more.        *)
EventsTellTheOutcome ==
    \A r \in Requests :
        LET parked == outbox[r] # << >> /\ outbox[r][1] = "PendingReference"
            story == IF parked THEN Tail(outbox[r]) ELSE outbox[r]
        IN  CASE txs[r].status = "ABSENT" -> outbox[r] = << >>
              [] txs[r].status = "PENDING_REFERENCE" -> parked /\ story = << >>
              [] txs[r].status = "FAILED" -> parked /\ story = << >>
              [] txs[r].status = "REJECTED" -> story = <<"Rejected">>
              [] txs[r].status = "PROCESSED" ->
                   story = IF Request[r].kind = "LOSS" THEN <<"Processed">>
                           ELSE <<"Processed", "BalanceChanged">>
              [] OTHER -> FALSE

-----------------------------------------------------------------------------
(* Pending references.                                                     *)

WaitsForOperation(r, o) ==
    /\ txs[r].status = "PENDING_REFERENCE"
    /\ Request[o].provider = Request[r].provider
    /\ Request[o].ext = Request[r].refExt

(* r sleeps although what it waits for, in its own wallet, is terminal.    *)
SleepsThrough(r, o) ==
    /\ WaitsForOperation(r, o)
    /\ Terminal(txs[o].status)
    /\ Request[o].wallet = Request[r].wallet
    /\ txs[r].nextAt > clock

(* ARCHITECTURE.md: every operation that reaches a terminal state wakes up *)
(* the pending operations that reference it (WakeUpWaitingFor).            *)
WakeUpNotLost == \A r, o \in Requests : ~SleepsThrough(r, o)

(* Whatever the interleaving of parking, claiming, skipping locked rows    *)
(* and settling, an operation sleeps through the news for one reason only: *)
(* at the moment of the wake-up its row was locked, by the replay of the   *)
(* same operation from the queue or by a worker that had found it not due  *)
(* any more.  A worker that is going to settle it never makes it sleep.    *)
OnlyLockedRowsSleep ==
    \A r, o \in Requests : SleepsThrough(r, o) => r \in overslept

(* An operation that waits for its reference does not wait for ever, even  *)
(* if the reference never comes, is the operation itself, or waits for it  *)
(* in turn: it is settled, expires or is given up.                         *)
EveryPendingSettles ==
    \A r \in Requests :
        (txs[r].status = "PENDING_REFERENCE") ~> Terminal(txs[r].status)

(* No request is left hanging behind the locks and unique keys of others.  *)
EveryRequestEnds == \A h \in Handlers : (pc[h] # "idle") ~> (pc[h] = "idle")

-----------------------------------------------------------------------------
(* What no step may do.                                                    *)

(* A terminal operation never changes again, not even its result balance,  *)
(* and no ledger entry is ever rewritten or removed (Decide, giveUp and    *)
(* WakeUpWaitingFor all act on rows they read before).                     *)
HistoryIsImmutable ==
    [][/\ \A r \in Requests : Terminal(txs[r].status) => txs'[r] = txs[r]
       /\ \A w \in Wallets : ledger[w] \subseteq ledger'[w]]_vars

(* An operation is only rejected for want of its reference after its       *)
(* deadline, and never while the operation it waits for stands processed   *)
(* in the same wallet.                                                     *)
RejectedForWantOfReference(r) ==
    /\ ~Terminal(txs[r].status)
    /\ txs'[r].code \in {"REFERENCE_NOT_FOUND", "REFERENCE_NOT_PROCESSED"}

ReferenceNotIgnored ==
    [][\A r \in Requests : RejectedForWantOfReference(r) =>
         /\ \A o \in Requests :
              /\ Request[o].provider = Request[r].provider
              /\ Request[o].ext = Request[r].refExt
              /\ Request[o].wallet = Request[r].wallet
              => txs[o].status # "PROCESSED"
         /\ txs'[r].code = "REFERENCE_NOT_FOUND" =>
              txs[r].status = "PENDING_REFERENCE" /\ clock >= txs[r].deadline]_vars

-----------------------------------------------------------------------------
(* The strengthening that makes the invariants above inductive: what a     *)
(* process carries from one statement to the next, and what the rows it    *)
(* will write depend on.                                                   *)

RequestPCs == {"inbox", "insert", "replay", "commitReplay", "lock", "settle",
               "wake", "commit", "giveUp", "commitGiveUp"}

(* A process works on the kind of operation its transaction is for, and a  *)
(* movement it decided on leaves a balance the wallet can hold.            *)
JobFits(p) ==
    /\ pc[p] \in RequestPCs => job[p].op \in Requests
    /\ pc[p] \in {"create", "commitOpening"} => p \in Handlers /\ job[p].op \in Wallets
    /\ pc[p] \in {"inbox", "commitReplay"} => job[p].message \in Messages
    /\ pc[p] = "commitReplay" =>
          Stored(job[p].op) /\ job[p].answer \notin {"ABSENT", "PENDING"}
    /\ pc[p] \in {"wake", "commit"} /\ Moves(p) => MovedBalance(p) \in 0..MaxBalance

JobsFit == \A p \in Processes : JobFits(p)

(* PENDING is never committed, and a message is stored with its operation. *)
RowsFit ==
    /\ \A r \in Requests : txs[r].status # "PENDING"
    /\ \A m \in Messages : inbox[m] # noInboxRow =>
          inbox[m].tx \in Requests /\ Stored(inbox[m].tx)

(* An operation is stored, or about to be settled, only in an opened       *)
(* wallet, and a wallet is opened once.                                    *)
OpenedOnce ==
    /\ \A r \in Requests : Stored(r) => wallets[Request[r].wallet].version > 0
    /\ \A p \in Processes :
          pc[p] \in {"lock", "settle", "wake", "commit", "giveUp", "commitGiveUp"} =>
              wallets[walletOf(p)].version > 0
    /\ \A p \in Processes : pc[p] = "commitOpening" => wallets[job[p].op].version = 0
    /\ \A p, q \in Processes :
          pc[p] = "commitOpening" /\ pc[q] = "commitOpening" /\ job[p].op = job[q].op => p = q

=============================================================================
