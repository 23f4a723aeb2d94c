------------------------ MODULE SettlementInvariants ------------------------
(***************************************************************************)
(* Why the properties of the settlement hold: what the locks, the unique   *)
(* keys and the decision of a transaction that is still under way          *)
(* guarantee until it commits.  Each part is preserved by every step; the  *)
(* properties of SettlementProperties and DatabaseGuards follow.           *)
(***************************************************************************)
EXTENDS DatabaseGuards

-----------------------------------------------------------------------------
(* Ownership.                                                              *)

SettlingLabels == {"lock", "settle", "wake", "commit"}

(* Between the statements of a transaction, a worker's row still waits, a  *)
(* handler's keys are still free, no two processes hold the same row or    *)
(* conflicting keys, and what WakeUpWaitingFor updated still waits for the *)
(* operation that is being settled.                                        *)
ClaimedRowsWait ==
    \A k \in Workers : pc[k] \in SettlingLabels \cup {"commitGiveUp"} =>
        txs[job[k].op].status = "PENDING_REFERENCE"

KeysAreFree ==
    \A h \in Handlers : pc[h] \in SettlingLabels =>
        \A o \in Requests : Stored(o) => ~Conflicts(job[h].op, o)

KeysHeldOnce ==
    \A h, g \in Handlers :
        /\ pc[h] \in SettlingLabels /\ pc[g] \in SettlingLabels
        /\ Conflicts(job[h].op, job[g].op)
        => h = g

RowsHeldOnce ==
    \A p, q \in Processes, r \in Requests : HoldsRow(p, r) /\ HoldsRow(q, r) => p = q

WokenRowsWait ==
    \A p \in Processes : \A r \in job[p].woken :
        /\ pc[p] = "commit"
        /\ WaitsForOperation(r, job[p].op)

(* Only a worker keeps rows, and what it keeps or saw due is stored.       *)
KeptRowsStored ==
    /\ \A p \in Processes : \A r \in job[p].kept :
          p \in Workers /\ pc[p] \in SettlingLabels /\ Stored(r)
    /\ \A p \in Processes : \A r \in Requests : job[p].seen[r] > 0 => Stored(r)

RowsAreUnique ==
    \A r, o \in Requests : Stored(r) /\ Stored(o) /\ Conflicts(r, o) => r = o

Ownership ==
    /\ ClaimedRowsWait /\ KeysAreFree /\ KeysHeldOnce
    /\ RowsHeldOnce /\ WokenRowsWait /\ KeptRowsStored /\ RowsAreUnique

-----------------------------------------------------------------------------
(* Time.                                                                   *)

(* The instant a transaction works with was read from the clock before,    *)
(* and a worker's row was due by then.                                     *)
ReadTheClock ==
    \A p \in Processes : pc[p] \notin {"idle", "giveUp", "commitGiveUp"} =>
        job[p].now \in 1..clock

ClaimedRowsAreDue ==
    \A k \in Workers : pc[k] \in SettlingLabels => txs[job[k].op].nextAt <= job[k].now

Timing == ReadTheClock /\ ClaimedRowsAreDue

-----------------------------------------------------------------------------
(* Rows.                                                                   *)

(* A row that is not stored is blank, only a processed row names what it   *)
(* reverses or follows, and only a permanent error leaves a row FAILED.    *)
RowsAgree ==
    \A r \in Requests :
        /\ txs[r].status = "ABSENT" => txs[r] = absentRow
        /\ txs[r].ref # NoTx => txs[r].status = "PROCESSED"
        /\ txs[r].status = "FAILED" => PermanentFaults

GivesUpOnFaults ==
    \A p \in Processes : pc[p] \in {"giveUp", "commitGiveUp"} => PermanentFaults

-----------------------------------------------------------------------------
(* Decisions.                                                              *)

(* Operation r names o as its reference, and o is one of its own wallet.   *)
Names(r, o) ==
    /\ Request[o].provider = Request[r].provider
    /\ Request[o].ext = Request[r].refExt

SameWallet(r, o) == Request[o].wallet = Request[r].wallet

OwnWallet(r) ==
    /\ Request[r].player = Wallet[Request[r].wallet].player
    /\ Request[r].currency = Wallet[Request[r].wallet].currency

(* The wallet, as p read it, can hold what the movement leaves.            *)
CanHold(p, direction) ==
    applyDirection(job[p].balance, direction, Request[job[p].op].amount) \in 0..MaxBalance

(* A win that names something else than a bet of its own round.            *)
Misnames(r, o) ==
    /\ Names(r, o)
    /\ Stored(o) \/ o = r
    /\ Request[o].kind # "BET" \/ ~sameRound(r, o)

(* Reversal r may undo o now.                                              *)
MayReverse(r, o) ==
    /\ Names(r, o)
    /\ txs[o].status = "PROCESSED"
    /\ reversible(Request[r].kind, Request[o].kind)
    /\ sameRound(r, o) /\ Request[r].amount = Request[o].amount
    /\ ~HasSuccessfulReversal(o)

(* What justified the decision of p, and still does.                       *)
ProcessStands(p) ==
    LET r == job[p].op
        d == job[p].decision
    IN  /\ d.code = NoCode
        /\ OwnWallet(r)
        /\ Request[r].kind = "BET" => d.direction = "DEBIT" /\ d.ref = NoTx
        /\ Request[r].kind = "LOSS" => d.direction = "NONE" /\ d.ref = NoTx
        /\ Request[r].kind = "WIN" =>
             /\ d.direction = "CREDIT"
             /\ d.ref # NoTx => Names(r, d.ref) /\ Request[d.ref].kind = "BET"
             /\ \A o \in Requests : SameWallet(r, o) => ~Misnames(r, o)
        /\ Reversal(Request[r].kind) =>
             /\ d.ref \in Requests
             /\ MayReverse(r, d.ref)
             /\ d.direction = reversalDirection(Request[r].kind, Request[d.ref].kind)

RejectStands(p) ==
    LET r == job[p].op
        d == job[p].decision
    IN  /\ d.code \in FailureCodes \ {"PERMANENT_FAILURE"}
        /\ d.direction = "NONE" /\ d.ref = NoTx
        /\ \/ ~OwnWallet(r)
           \/ Request[r].kind = "BET" /\ ~CanHold(p, "DEBIT")
           \/ /\ Request[r].kind = "WIN"
              /\ ~CanHold(p, "CREDIT") \/ \E o \in Requests : Misnames(r, o)
           \/ /\ Reversal(Request[r].kind)
              /\ \A o \in Requests : MayReverse(r, o) =>
                   ~CanHold(p, reversalDirection(Request[r].kind, Request[o].kind))
              /\ \/ deadlineReached(p)
                 \/ \E o \in Requests : Names(r, o) /\ Terminal(txs[o].status)
        /\ d.code \in {"REFERENCE_NOT_FOUND", "REFERENCE_NOT_PROCESSED"} =>
             \A o \in Requests :
               Names(r, o) /\ SameWallet(r, o) => txs[o].status # "PROCESSED"
        /\ d.code = "REFERENCE_NOT_FOUND" => deadlineReached(p)

WaitStands(p) ==
    LET r == job[p].op IN
    /\ job[p].decision = waitReference
    /\ OwnWallet(r) /\ Reversal(Request[r].kind)
    /\ \A o \in Requests : Names(r, o) /\ SameWallet(r, o) =>
         txs[o].status \notin {"PROCESSED", "REJECTED"}

DecisionStands(p) ==
    CASE job[p].decision.outcome = "process" -> ProcessStands(p)
      [] job[p].decision.outcome = "reject" -> RejectStands(p)
      [] job[p].decision.outcome = "wait" -> WaitStands(p)

DecisionsStand ==
    \A p \in Processes : pc[p] \in {"wake", "commit"} => DecisionStands(p)

-----------------------------------------------------------------------------
(* Wake-ups.                                                               *)

(* Once WakeUpWaitingFor has run, whoever waits for the operation in its   *)
(* own wallet has been woken up, was found locked, or is due anyway.       *)
WaitersAreDue ==
    \A p \in Processes :
        pc[p] = "commit" /\ job[p].decision.outcome # "wait" =>
            \A r \in Requests :
                WaitsForOperation(r, job[p].op) /\ SameWallet(r, job[p].op) =>
                    \/ r \in job[p].woken
                    \/ r \in job[p].missed
                    \/ txs[r].nextAt <= clock

-----------------------------------------------------------------------------
(* Deliveries and answers.                                                 *)

(* What a handler works on is what a delivery asked for, and the outcome a *)
(* replay is going to report is still the stored one.                      *)
JobsAreDeliveries ==
    \A h \in Handlers : pc[h] \in RequestPCs =>
        \E d \in Deliveries : /\ d.request = job[h].op
                              /\ d.message = job[h].message
                              /\ d.body = job[h].body

ReplaysAgree ==
    \A h \in Handlers : pc[h] = "commitReplay" =>
        /\ job[h].answer \in {"PROCESSED", "REJECTED", "FAILED"} =>
             txs[job[h].op].status = job[h].answer

(* A refused duplicate lost its keys to another stored operation.          *)
ConflictsStand ==
    \A r \in Requests : {"IDEMPOTENCY_KEY", "EXTERNAL_ID"} \cap told[r] # {} =>
        \E o \in Requests : o # r /\ Stored(o) /\ Conflicts(r, o)

-----------------------------------------------------------------------------
(* Entries.                                                                *)

(* The direction in which processed operation r moves its wallet.          *)
MovementOf(r) ==
    CASE Request[r].kind = "BET" -> "DEBIT"
      [] Request[r].kind \in {"WIN", "REFUND"} -> "CREDIT"
      [] Request[r].kind = "ROLLBACK" ->
           reversalDirection("ROLLBACK", Request[txs[r].ref].kind)

(* An entry was written by the opening of its wallet, which is version 1,  *)
(* or by a processed operation of its wallet; and every operation that     *)
(* moved money wrote exactly one.                                          *)
EntryBelongs(w, e) ==
    /\ e.version = 1 <=> e.op = w
    /\ e.amount > 0
    /\ e.op \in Wallets => e.op = w /\ e.direction = "CREDIT"
    /\ e.op \in Requests => /\ txs[e.op].status = "PROCESSED"
                            /\ Request[e.op].wallet = w
                            /\ Request[e.op].amount = e.amount
                            /\ e.direction = MovementOf(e.op)

EntriesBelong ==
    /\ \A w \in Wallets : \A e \in ledger[w] : EntryBelongs(w, e)
    /\ \A w \in Wallets : \A e, f \in ledger[w] : e.op = f.op => e = f

MovementsRecorded ==
    \A r \in Requests : txs[r].status = "PROCESSED" =>
        /\ Request[r].kind # "LOSS" => \E e \in ledger[Request[r].wallet] : e.op = r
        /\ Request[r].kind = "ROLLBACK" =>
             txs[r].ref \in Requests /\ reversible("ROLLBACK", Request[txs[r].ref].kind)

-----------------------------------------------------------------------------
(* Openings.                                                               *)

(* A wallet is opened with a balance that somebody asked for.              *)
OpeningsAreAsked ==
    \A h \in Handlers : pc[h] \in {"create", "commitOpening"} =>
        job[h].balance \in OpeningBalances

=============================================================================
