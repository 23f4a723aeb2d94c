------------------------------- MODULE Outbox -------------------------------
(***************************************************************************)
(* Publication of the outbox: PublishOutbox on several service instances,  *)
(* the outbox_events table they share, and the outbound queue.             *)
(*                                                                         *)
(* Time is abstracted to what it decides: a lease may run out at any       *)
(* moment, a backoff ends at some moment, and next_attempt_at is the       *)
(* position of an event in due.  A settlement reads that instant before it *)
(* waits for the wallet, so it need not follow the order of the commits.   *)
(* With SkewedClocks, an instance whose clock is ahead may take an         *)
(* unexpired lease for an expired one, and one whose clock is behind an    *)
(* expired lease for a valid one.                                          *)
(***************************************************************************)
EXTENDS Integers, Sequences, FiniteSets, Functions

CONSTANTS
    Publishers,     \* service instances, each with its owner name
    Wallets,        \* partition keys
    Stream,         \* Stream[w]: the events of wallet w, in commit order
    BatchSize,      \* events one claim may take
    InstantsFollow, \* do the instants settlements read follow the commits?
    SkewedClocks,   \* may the instances' clocks disagree about a lease?
    MaxFaults,      \* bound: crashes, lost replies, failed and slow sends,
                    \* and times a skewed clock misjudges a lease
    NoOwner         \* a null locked_by


Events == UNION {Range(Stream[w]) : w \in Wallets}

ASSUME OutboxAssumption ==
    /\ \A w \in Wallets : Stream[w] \in Seq(Events)
    /\ \A v, w \in Wallets : v # w => Range(Stream[v]) \cap Range(Stream[w]) = {}
    /\ \A w \in Wallets : \A i, k \in 1..Len(Stream[w]) : Stream[w][i] = Stream[w][k] => i = k
    /\ BatchSize \in Nat \ {0} /\ MaxFaults \in Nat
    /\ SkewedClocks \in BOOLEAN /\ InstantsFollow \in BOOLEAN
    /\ NoOwner \notin Publishers

VARIABLES
    appended,  \* how many events of each wallet settlement has committed
    rows,      \* the lease, generation and publication of each stored event
    due,       \* stored events whose next_attempt_at has come, in its order
    pc,        \* what each publisher is doing
    batch,     \* receipts of the claim it has not delivered yet
    current,   \* the receipt it is delivering
    inflight,  \* sends that left a publisher and the queue has not decided
    queue,     \* events in the order in which the queue first took them
    faults

vars == <<appended, rows, due, pc, batch, current, inflight, queue, faults>>

Receipts == [event : Events, generation : Nat \ {0}]

RowType == [owner : Publishers \cup {NoOwner}, leased : BOOLEAN,
            attempts : Nat, published : BOOLEAN]

newRow == [owner |-> NoOwner, leased |-> FALSE, attempts |-> 0, published |-> FALSE]

Init ==
    /\ appended = [w \in Wallets |-> 0]
    /\ rows = [e \in Events |-> newRow]
    /\ due = << >>
    /\ pc = [p \in Publishers |-> "idle"]
    /\ batch = [p \in Publishers |-> {}]
    /\ current = [p \in Publishers |-> {}]
    /\ inflight = {}
    /\ queue = << >>
    /\ faults = 0

Fault == faults < MaxFaults /\ faults' = faults + 1

(* e becomes due before, between or after what is due already.             *)
EntersDue(e) == \E i \in 0..Len(due) : due' = SubSeq(due, 1, i) \o <<e>> \o SubSeq(due, i + 1, Len(due))

(* Append, in the commit of a settlement.                                  *)
Append1(w) ==
    LET e == Stream[w][appended[w] + 1] IN
    /\ appended[w] < Len(Stream[w])
    /\ appended' = [appended EXCEPT ![w] = @ + 1]
    /\ IF InstantsFollow THEN due' = Append(due, e) ELSE EntersDue(e)
    /\ UNCHANGED <<rows, pc, batch, current, inflight, queue, faults>>

-----------------------------------------------------------------------------
(* Claim: the oldest due events that are unpublished and not leased.       *)

(* Mutants of Free: the lease is not looked at, and a lease once taken is  *)
(* never taken over.                                                       *)
Free_AnyLease(e) == ~rows[e].published

Free_Unowned(e) == ~rows[e].published /\ rows[e].owner = NoOwner

Free(e) == ~rows[e].published /\ (rows[e].owner = NoOwner \/ ~rows[e].leased)

Unpublished(e) == ~rows[e].published

(* An instance whose clock is ahead takes every lease for an expired one.  *)
Claimed(ahead) ==
    LET free == {i \in 1..Len(due) : IF ahead THEN Unpublished(due[i]) ELSE Free(due[i])}
    IN  {due[i] : i \in {i \in free : Cardinality({k \in free : k < i}) < BatchSize}}

(* Receipt: the generation of a claim is the attempts it left in the row.  *)
Receipt(e) == [event |-> e, generation |-> rows[e].attempts + 1]

(* The transaction of the claim.  If its reply is lost the leases are      *)
(* taken and nobody works on them.                                         *)
Claim(p, ahead, heard) ==
    LET claimed == Claimed(ahead) IN
    /\ ahead => SkewedClocks
    /\ pc[p] = "idle"
    /\ claimed # {}
    /\ rows' = [e \in Events |->
                  IF e \in claimed
                    THEN [rows[e] EXCEPT !.owner = p, !.leased = TRUE, !.attempts = @ + 1]
                    ELSE rows[e]]
    /\ IF heard
         THEN /\ pc' = [pc EXCEPT ![p] = "deliver"]
              /\ batch' = [batch EXCEPT ![p] =
                             {Receipt(e) : e \in claimed}]
         ELSE UNCHANGED <<pc, batch>>
    /\ IF heard /\ ~ahead THEN UNCHANGED faults ELSE Fault
    /\ UNCHANGED <<appended, due, current, inflight, queue>>

(* Mutant of Matches: the row is found by the event alone.                 *)
Matches_EventOnly(p, receipt) == ~rows[receipt.event].published

(* The receipt names the row's present claim.                              *)
Matches(p, receipt) ==
    LET row == rows[receipt.event] IN
    /\ row.owner = p
    /\ row.attempts = receipt.generation
    /\ ~row.published

(* Both statements that end a publication apply only to the claim the      *)
(* receipt names and only while its lease lasts on the database's clock.   *)
Applies(p, receipt) == Matches(p, receipt) /\ rows[receipt.event].leased

(* What LeaseValid may say: it compares the receipt with the clock of the  *)
(* instance, which a skewed clock may place on either side.                *)
LeaseValid(p, receipt) == IF SkewedClocks THEN BOOLEAN ELSE {Applies(p, receipt)}

(* deliver: UPDATE ... RETURNING promises no order, so any event of the    *)
(* batch may be next.  A receipt whose lease ran out is dropped.           *)
Deliver(p, receipt) ==
    /\ pc[p] = "deliver"
    /\ batch' = [batch EXCEPT ![p] = @ \ {receipt}]
    /\ \/ /\ TRUE \in LeaseValid(p, receipt)
          /\ pc' = [pc EXCEPT ![p] = "sending"]
          /\ current' = [current EXCEPT ![p] = {receipt}]
          /\ inflight' = inflight \cup {<<p, receipt.event>>}
          /\ UNCHANGED faults
       \/ /\ FALSE \in LeaseValid(p, receipt)
          /\ IF Applies(p, receipt) THEN Fault ELSE UNCHANGED faults
          /\ UNCHANGED <<pc, current, inflight>>
    /\ UNCHANGED <<appended, rows, due, queue>>

FinishBatch(p) ==
    /\ pc[p] = "deliver"
    /\ batch[p] = {}
    /\ pc' = [pc EXCEPT ![p] = "idle"]
    /\ UNCHANGED <<appended, rows, due, batch, current, inflight, queue, faults>>

-----------------------------------------------------------------------------
(* The outbound FIFO queue, which collapses what carries the identifier of *)
(* an event it already took.                                               *)

QueueTakes(p, e) ==
    /\ <<p, e>> \in inflight
    /\ inflight' = inflight \ {<<p, e>>}
    /\ queue' = IF e \in Range(queue) THEN queue ELSE Append(queue, e)
    /\ UNCHANGED <<appended, rows, due, pc, batch, current, faults>>

QueueLoses(p, e) ==
    /\ <<p, e>> \in inflight
    /\ inflight' = inflight \ {<<p, e>>}
    /\ Fault
    /\ UNCHANGED <<appended, rows, due, pc, batch, current, queue>>

(* Mutant of SendSucceeds: an unanswered send passes for a success.        *)
SendSucceeds_Unconfirmed(p) ==
    /\ pc[p] = "sending"
    /\ pc' = [pc EXCEPT ![p] = "mark"]
    /\ UNCHANGED <<appended, rows, due, batch, current, inflight, queue, faults>>

(* Send returned without error: the queue has the event.                   *)
SendSucceeds(p) ==
    /\ pc[p] = "sending"
    /\ \A receipt \in current[p] : /\ <<p, receipt.event>> \notin inflight
                                   /\ receipt.event \in Range(queue)
    /\ pc' = [pc EXCEPT ![p] = "mark"]
    /\ UNCHANGED <<appended, rows, due, batch, current, inflight, queue, faults>>

(* Send returned an error, or its context ended with the lease; the event  *)
(* may have been taken all the same, or may be later.                      *)
SendFails(p) ==
    /\ pc[p] = "sending"
    /\ pc' = [pc EXCEPT ![p] = "reschedule"]
    /\ \/ Fault
       \/ /\ \A receipt \in current[p] : \/ ~Applies(p, receipt)
                                         \/ /\ <<p, receipt.event>> \notin inflight
                                            /\ receipt.event \notin Range(queue)
          /\ UNCHANGED faults
    /\ UNCHANGED <<appended, rows, due, batch, current, inflight, queue>>

-----------------------------------------------------------------------------
Done(p) ==
    /\ pc' = [pc EXCEPT ![p] = "deliver"]
    /\ current' = [current EXCEPT ![p] = {}]

MarkPublished(p) ==
    /\ pc[p] = "mark"
    /\ \E receipt \in current[p] :
         rows' = IF Applies(p, receipt)
                   THEN [rows EXCEPT ![receipt.event].published = TRUE,
                                     ![receipt.event].owner = NoOwner,
                                     ![receipt.event].leased = FALSE]
                   ELSE rows
    /\ Done(p)
    /\ UNCHANGED <<appended, due, batch, inflight, queue, faults>>

(* An event leaves due when its next attempt is put off.                   *)
PutOff(e) ==
    due' = LET i == CHOOSE i \in 1..Len(due) : due[i] = e
           IN  IF e \in Range(due) THEN SubSeq(due, 1, i - 1) \o SubSeq(due, i + 1, Len(due))
               ELSE due

MarkFailed(p) ==
    /\ pc[p] = "reschedule"
    /\ \E receipt \in current[p] :
         IF Applies(p, receipt)
           THEN /\ rows' = [rows EXCEPT ![receipt.event].owner = NoOwner,
                                        ![receipt.event].leased = FALSE]
                /\ PutOff(receipt.event)
           ELSE UNCHANGED <<rows, due>>
    /\ Done(p)
    /\ UNCHANGED <<appended, batch, inflight, queue, faults>>

(* The transaction that would have ended the publication failed: the error *)
(* is logged and the lease is left to run out.                             *)
EndFails(p) ==
    /\ pc[p] \in {"mark", "reschedule"}
    /\ Fault
    /\ Done(p)
    /\ UNCHANGED <<appended, rows, due, batch, inflight, queue>>

-----------------------------------------------------------------------------
(* The instance stops, or the run of the job reaches its time limit.       *)
Crash(p) ==
    /\ pc[p] # "idle"
    /\ Fault
    /\ pc' = [pc EXCEPT ![p] = "idle"]
    /\ batch' = [batch EXCEPT ![p] = {}]
    /\ current' = [current EXCEPT ![p] = {}]
    /\ UNCHANGED <<appended, rows, due, inflight, queue>>

(* Somebody still works under the row's present claim.                     *)
WorkedOn(e) ==
    \E p \in Publishers : \E receipt \in batch[p] \cup current[p] :
        receipt.event = e /\ Matches(p, receipt)

(* locked_until passes: at any time, but a publisher that is too slow for  *)
(* its own lease counts as a fault.                                        *)
LeaseExpires(e) ==
    /\ rows[e].leased
    /\ rows' = [rows EXCEPT ![e].leased = FALSE]
    /\ IF WorkedOn(e) THEN Fault ELSE UNCHANGED faults
    /\ UNCHANGED <<appended, due, pc, batch, current, inflight, queue>>

Appended(e) ==
    \E w \in Wallets : \E i \in 1..appended[w] : Stream[w][i] = e

(* next_attempt_at of a rescheduled event comes; the instant was set by    *)
(* the clock of the instance that put it off.                              *)
BackoffEnds(e) ==
    /\ Appended(e)
    /\ e \notin Range(due)
    /\ EntersDue(e)
    /\ UNCHANGED <<appended, rows, pc, batch, current, inflight, queue, faults>>

-----------------------------------------------------------------------------
PublisherStep(p) ==
    \/ Claim(p, FALSE, TRUE)
    \/ \E receipt \in batch[p] : Deliver(p, receipt)
    \/ FinishBatch(p)
    \/ SendSucceeds(p) \/ SendFails(p)
    \/ MarkPublished(p) \/ MarkFailed(p)

Next ==
    \/ \E w \in Wallets : Append1(w)
    \/ \E p \in Publishers : PublisherStep(p) \/ EndFails(p) \/ Crash(p)
    \/ \E p \in Publishers : Claim(p, FALSE, FALSE) \/ Claim(p, TRUE, TRUE)
    \/ \E p \in Publishers, e \in Events : QueueTakes(p, e) \/ QueueLoses(p, e)
    \/ \E e \in Events : LeaseExpires(e) \/ BackoffEnds(e)

Spec == Init /\ [][Next]_vars

(* The scheduler keeps running the job, the queue decides every send it    *)
(* receives, and time passes for leases nobody works under and backoffs.   *)
Fairness ==
    /\ \A p \in Publishers : WF_vars(PublisherStep(p))
    /\ \A p \in Publishers, e \in Events : WF_vars(QueueTakes(p, e))
    /\ \A e \in Events : WF_vars(LeaseExpires(e) /\ ~WorkedOn(e)) /\ WF_vars(BackoffEnds(e))

FairSpec == Spec /\ Fairness

-----------------------------------------------------------------------------
TypeOK ==
    /\ appended \in [Wallets -> Nat]
    /\ rows \in [Events -> RowType]
    /\ due \in Seq(Events)
    /\ pc \in [Publishers -> {"idle", "deliver", "sending", "mark", "reschedule"}]
    /\ batch \in [Publishers -> SUBSET Receipts]
    /\ current \in [Publishers -> SUBSET Receipts]
    /\ inflight \subseteq Publishers \X Events
    /\ queue \in Seq(Events)
    /\ faults \in 0..MaxFaults

(* An event is marked published only if the queue really took it, however  *)
(* claims, failed sends, crashes and late marks interleave.                *)
PublishedWasSent == \A e \in Events : rows[e].published => e \in Range(queue)

(* While no publisher fails or outlives its lease, every receipt in hand   *)
(* names the present claim of its row: no two instances work on the same   *)
(* event, and none on one already published.                               *)
ReceiptsCurrentWithoutFault ==
    faults = 0 =>
        \A p \in Publishers : \A receipt \in batch[p] \cup current[p] : Applies(p, receipt)

(* Who holds a valid lease keeps it until they end the publication         *)
(* themselves, it expires, or an instance whose clock is ahead claims the  *)
(* event: a late mark or reschedule of an earlier claim does not touch the *)
(* row.                                                                    *)
LeaseUndisturbed ==
    [][\A e \in Events, p \in Publishers :
         /\ rows[e].leased /\ rows[e].owner = p
         /\ rows'[e] # rows[e]
         => \/ rows'[e] = [rows[e] EXCEPT !.leased = FALSE]
            \/ faults' > faults /\ rows'[e].attempts = rows[e].attempts + 1
            \/ \E r \in current[p] : r.event = e /\ r.generation = rows[e].attempts]_vars

(* A committed event is published sooner or later.                         *)
EveryEventPublished == \A e \in Events : Appended(e) ~> rows[e].published

(* sqs/publisher/wallet_event_notifier_sqs.go: everything about one wallet *)
(* stays in order.  The queue takes the events of a wallet in the order of *)
(* their commits.                                                          *)
WalletEventsInOrder ==
    \A w \in Wallets : \A i, k \in 1..Len(Stream[w]) :
        i < k /\ Stream[w][k] \in Range(queue) => Stream[w][i] \in Range(queue)

=============================================================================
