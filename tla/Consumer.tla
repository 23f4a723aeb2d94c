------------------------------ MODULE Consumer ------------------------------
(***************************************************************************)
(* The queue door: Consumer on several service instances, its listener,    *)
(* and the inbound FIFO queue they share, up to the shutdown that returns  *)
(* unfinished messages.                                                    *)
(*                                                                         *)
(* What Handle does is reduced to what the consumer must be able to rely   *)
(* on: a message is refused for good, or its operation is durable from     *)
(* some moment on (durable), after which handling it again is harmless.    *)
(* Time is abstracted to what it decides: a visibility timeout may run out *)
(* at any moment, a drain may take too long.                               *)
(***************************************************************************)
EXTENDS Integers, Sequences, FiniteSets

CONSTANTS
    Instances,     \* service instances
    Stoppable,     \* the ones that may be asked to stop
    Wallets,       \* message groups
    Stream,        \* Stream[w]: the messages of group w, in queue order
    Invalid,       \* messages the listener rejects
    Slots,         \* SQS_CONSUMER_WORKERS
    MaxReceives,   \* maxReceiveCount of the redrive policy
    MaxFaults,     \* bound: failed calls, lost replies, crashes, slow handlers
    NoOne          \* nobody answers for the current receive of a message

Messages == UNION {{Stream[w][i] : i \in 1..Len(Stream[w])} : w \in Wallets}

WalletOf(m) == CHOOSE w \in Wallets : \E i \in 1..Len(Stream[w]) : Stream[w][i] = m

ASSUME ConsumerAssumption ==
    /\ Stoppable \subseteq Instances /\ NoOne \notin Instances
    /\ Invalid \subseteq Messages
    /\ \A w \in Wallets : Stream[w] \in Seq(Messages)
    /\ \A v, w \in Wallets : \A i \in 1..Len(Stream[v]), k \in 1..Len(Stream[w]) :
         Stream[v][i] = Stream[w][k] => v = w /\ i = k
    /\ Slots \in Nat \ {0} /\ MaxReceives \in Nat \ {0} /\ MaxFaults \in Nat

VARIABLES
    box,       \* what the queue knows of each message
    dead,      \* messages the consumer sent to the dead letter queue
    durable,   \* messages whose operation has been committed
    phase,     \* how far each instance is between its start and its end
    work,      \* the deliveries the goroutines of an instance are busy with
    inFlight,  \* the map of the same name
    unfinished,\* what Stop found in it and has not released yet
    faults

vars == <<box, dead, durable, phase, work, inFlight, unfinished, faults>>

(* by: the instance that answers for the current receive.                  *)
BoxType == [state : {"visible", "hidden", "deleted", "redriven"},
            receives : 0..MaxReceives, by : Instances \cup {NoOne}]

(* A receipt handle belongs to one receive of a message.                   *)
Handles == [message : Messages, receipt : 1..MaxReceives]

Stages == {"dispatch", "handle", "committed", "delete", "deadLetter", "retry"}

(* failed: Run has returned with an error, and nothing starts it again.    *)
Phases == {"starting", "running", "failed", "draining", "releasing", "aborted", "stopped"}

newMessage == [state |-> "visible", receives |-> 0, by |-> NoOne]

Init ==
    /\ box = [m \in Messages |-> newMessage]
    /\ dead = {}
    /\ durable = {}
    /\ phase = [c \in Instances |-> "starting"]
    /\ work = [c \in Instances |-> {}]
    /\ inFlight = [c \in Instances |-> {}]
    /\ unfinished = [c \in Instances |-> {}]
    /\ faults = 0

Fault == faults < MaxFaults /\ faults' = faults + 1

handle(d) == [message |-> d.message, receipt |-> d.receipt]

at(c, d, stage) ==
    work' = [work EXCEPT ![c] = (@ \ {d}) \cup {[d EXCEPT !.stage = stage]}]

-----------------------------------------------------------------------------
(* The inbound queue.                                                      *)

Gone(m) == box[m].state \in {"deleted", "redriven"}

(* The first message of its group that is still in the queue.  While it is *)
(* hidden the group gives out nothing else.                                *)
First(m) ==
    /\ ~Gone(m)
    /\ LET s == Stream[WalletOf(m)] IN
       \A i, k \in 1..Len(s) : s[k] = m /\ i < k => Gone(s[i])

(* The handle is that of the newest receive, and the queue still holds it. *)
Newest(h) == box[h.message].receives = h.receipt /\ ~Gone(h.message)

Held(h) == Newest(h) /\ box[h.message].state = "hidden"

(* DeleteMessage: an old handle deletes nothing; the newest one may or may *)
(* not once its visibility timeout has run out.                            *)
Deletes(h) ==
    \/ Newest(h) /\ box' = [box EXCEPT ![h.message].state = "deleted", ![h.message].by = NoOne]
    \/ ~Held(h) /\ UNCHANGED box

(* ChangeMessageVisibility(0) *)
MakesVisible(h) ==
    IF Held(h)
      THEN box' = [box EXCEPT ![h.message].state = "visible", ![h.message].by = NoOne]
      ELSE UNCHANGED box

(* Whoever gives the message up leaves it to its visibility timeout.       *)
Leaves(h) ==
    IF Held(h) THEN box' = [box EXCEPT ![h.message].by = NoOne] ELSE UNCHANGED box

(* The visibility timeout, or the backoff that replaced it, runs out.  The *)
(* configuration keeps the deadline of a handler below it: a handler that  *)
(* is too slow all the same counts as a fault.                             *)
VisibilityExpires(m) ==
    /\ box[m].state = "hidden"
    /\ box' = [box EXCEPT ![m].state = "visible", ![m].by = NoOne]
    /\ IF box[m].by = NoOne THEN UNCHANGED faults ELSE Fault
    /\ UNCHANGED <<dead, durable, phase, work, inFlight, unfinished>>

(* The redrive policy of the queue.                                        *)
Redrive(m) ==
    /\ First(m)
    /\ box[m].state = "visible"
    /\ box[m].receives = MaxReceives
    /\ box' = [box EXCEPT ![m].state = "redriven"]
    /\ UNCHANGED <<dead, durable, phase, work, inFlight, unfinished, faults>>

-----------------------------------------------------------------------------
(* Start.  Run asks for the name of the queue before it watches it; if     *)
(* that fails it returns, and the instance goes on without its consumer.   *)
Run(c) ==
    /\ phase[c] = "starting"
    /\ \/ phase' = [phase EXCEPT ![c] = "running"] /\ UNCHANGED faults
       \/ phase' = [phase EXCEPT ![c] = "failed"] /\ Fault
    /\ UNCHANGED <<box, dead, durable, work, inFlight, unfinished>>

(* The queue may answer a receive of instance c with message m.            *)
Receivable(c, m) ==
    /\ phase[c] = "running"
    /\ Cardinality(work[c]) < Slots
    /\ First(m)
    /\ box[m].state = "visible"
    /\ box[m].receives < MaxReceives

Hides(m, by) ==
    box' = [box EXCEPT ![m] = [state |-> "hidden", receives |-> @.receives + 1, by |-> by]]

(* watch: one message per receive, as long as a slot is free.              *)
Receive(c, m) ==
    /\ Receivable(c, m)
    /\ Hides(m, c)
    /\ work' = [work EXCEPT ![c] = @ \cup
                  {[message |-> m, receipt |-> box[m].receives + 1, stage |-> "dispatch"]}]
    /\ UNCHANGED <<dead, durable, phase, inFlight, unfinished, faults>>

(* The reply is lost: the queue hides a message nobody has.                *)
ReceiveFails(c, m) ==
    /\ Receivable(c, m)
    /\ Fault
    /\ Hides(m, NoOne)
    /\ UNCHANGED <<dead, durable, phase, work, inFlight, unfinished>>

Releasing(c) == phase[c] \in {"releasing", "aborted"}

(* Mutant of Finish: the slot is not given back.                           *)
Finish_KeepsSlot(c, d) ==
    /\ UNCHANGED work
    /\ inFlight' = IF phase[c] = "aborted" THEN inFlight
                   ELSE [inFlight EXCEPT ![c] = @ \ {handle(d)}]

(* The deferred calls of a goroutine: it gives its slot back, and forgets  *)
(* the message unless the processing context was cancelled.                *)
Finish(c, d) ==
    /\ work' = [work EXCEPT ![c] = @ \ {d}]
    /\ inFlight' = IF phase[c] = "aborted" THEN inFlight
                   ELSE [inFlight EXCEPT ![c] = @ \ {handle(d)}]

(* Mutant of Dispatch: the releasing flag is not looked at.                *)
Dispatch_Unaware(c, d) ==
    /\ d.stage = "dispatch"
    /\ inFlight' = [inFlight EXCEPT ![c] = @ \cup {handle(d)}]
    /\ at(c, d, "handle")
    /\ UNCHANGED <<box, dead, durable, phase, unfinished, faults>>

(* dispatch, under the mutex: a message that comes after Stop has looked   *)
(* at the map is released at once.                                         *)
Dispatch(c, d) ==
    /\ d.stage = "dispatch"
    /\ \/ /\ ~Releasing(c)
          /\ inFlight' = [inFlight EXCEPT ![c] = @ \cup {handle(d)}]
          /\ at(c, d, "handle")
          /\ UNCHANGED <<box, faults>>
       \/ /\ Releasing(c)
          /\ \/ MakesVisible(handle(d)) /\ UNCHANGED faults
             \/ Leaves(handle(d)) /\ Fault
          /\ work' = [work EXCEPT ![c] = @ \ {d}]
          /\ UNCHANGED inFlight
    /\ UNCHANGED <<dead, durable, phase, unfinished>>

-----------------------------------------------------------------------------
(* Handle.  Its commit may land at any moment, also after the context was  *)
(* cancelled.                                                              *)
Commit(c, d) ==
    /\ d.stage = "handle"
    /\ d.message \notin Invalid \cup durable
    /\ durable' = durable \cup {d.message}
    /\ at(c, d, "committed")
    /\ UNCHANGED <<box, dead, phase, inFlight, unfinished, faults>>

(* It returns nil, for an operation it committed or found in the inbox, or *)
(* a Rejection.                                                            *)
HandleReturns(c, d) ==
    /\ phase[c] # "aborted"
    /\ \/ /\ d.stage \in {"handle", "committed"} /\ d.message \in durable
          /\ at(c, d, "delete")
       \/ /\ d.stage = "handle" /\ d.message \in Invalid
          /\ at(c, d, "deadLetter")
    /\ UNCHANGED <<box, dead, durable, phase, inFlight, unfinished, faults>>

(* Any other error is taken for a transient one.                           *)
HandleFails(c, d) ==
    /\ phase[c] # "aborted"
    /\ d.stage = "handle"
    /\ Fault
    /\ at(c, d, "retry")
    /\ UNCHANGED <<box, dead, durable, phase, inFlight, unfinished>>

(* Mutant of HandleUnknown: the message is acknowledged.                   *)
HandleUnknown_Acknowledged(c, d) ==
    /\ phase[c] # "aborted"
    /\ d.stage \in {"handle", "committed"} /\ d.message \notin Invalid
    /\ Fault
    /\ at(c, d, "delete")
    /\ UNCHANGED <<box, dead, durable, phase, inFlight, unfinished>>

(* ErrUnknownOutcome: the message stays as it is.                          *)
HandleUnknown(c, d) ==
    /\ phase[c] # "aborted"
    /\ d.stage \in {"handle", "committed"} /\ d.message \notin Invalid
    /\ Fault
    /\ Leaves(handle(d))
    /\ Finish(c, d)
    /\ UNCHANGED <<dead, durable, phase, unfinished>>

(* The processing context was cancelled: nothing more is said to the queue *)
(* here, the release is Stop's.                                            *)
HandleCancelled(c, d) ==
    /\ phase[c] = "aborted"
    /\ d.stage \in {"handle", "committed"}
    /\ Finish(c, d)
    /\ UNCHANGED <<box, dead, durable, phase, unfinished, faults>>

-----------------------------------------------------------------------------
(* What the consumer tells the queue.  A call fails on its own or because  *)
(* the processing context was cancelled, and may have taken effect.        *)
CallFails(c) == IF phase[c] = "aborted" THEN UNCHANGED faults ELSE Fault

Remove(c, d) ==
    /\ d.stage = "delete"
    /\ \/ Deletes(handle(d)) /\ (UNCHANGED faults \/ CallFails(c))
       \/ Leaves(handle(d)) /\ CallFails(c)
    /\ Finish(c, d)
    /\ UNCHANGED <<dead, durable, phase, unfinished>>

(* Mutant of DeadLetter: the original is deleted even if the send failed.  *)
DeadLetter_Unconfirmed(c, d) ==
    /\ d.stage = "deadLetter"
    /\ at(c, d, "delete")
    /\ \/ dead' = dead \cup {d.message} /\ UNCHANGED faults
       \/ CallFails(c) /\ UNCHANGED dead
    /\ UNCHANGED <<box, durable, phase, inFlight, unfinished>>

(* deadLetter: the original is deleted only once the copy is confirmed.    *)
(* The copy carries an identity that makes a second one collapse.          *)
DeadLetter(c, d) ==
    /\ d.stage = "deadLetter"
    /\ \/ /\ dead' = dead \cup {d.message}
          /\ at(c, d, "delete")
          /\ UNCHANGED <<box, inFlight, faults>>
       \/ /\ dead' \in {dead, dead \cup {d.message}}
          /\ CallFails(c)
          /\ Leaves(handle(d))
          /\ Finish(c, d)
    /\ UNCHANGED <<durable, phase, unfinished>>

(* retryLater: the backoff replaces the visibility timeout; if the call    *)
(* fails the timeout stays.                                                *)
RetryLater(c, d) ==
    /\ d.stage = "retry"
    /\ Leaves(handle(d))
    /\ Finish(c, d)
    /\ UNCHANGED <<dead, durable, phase, unfinished, faults>>

-----------------------------------------------------------------------------
(* Shutdown.                                                               *)

(* The receive in progress is cut off, perhaps after the queue answered.   *)
StopReceiving(c) ==
    /\ phase[c] \in {"starting", "running", "failed"}
    /\ phase' = [phase EXCEPT ![c] = "draining"]
    /\ \/ UNCHANGED box
       \/ \E m \in Messages : Receivable(c, m) /\ Hides(m, NoOne)
    /\ UNCHANGED <<dead, durable, work, inFlight, unfinished, faults>>

(* Everything drained in time.                                             *)
Drained(c) ==
    /\ phase[c] = "draining"
    /\ work[c] = {}
    /\ phase' = [phase EXCEPT ![c] = "stopped"]
    /\ UNCHANGED <<box, dead, durable, work, inFlight, unfinished, faults>>

(* It did not: under the mutex, Stop sets releasing and copies the map.    *)
DrainEnds(c) ==
    /\ phase[c] = "draining"
    /\ work[c] # {}
    /\ phase' = [phase EXCEPT ![c] = "releasing"]
    /\ unfinished' = [unfinished EXCEPT ![c] = inFlight[c]]
    /\ UNCHANGED <<box, dead, durable, work, inFlight, faults>>

(* abort: the processing context is cancelled.                             *)
Abort(c) ==
    /\ phase[c] = "releasing"
    /\ phase' = [phase EXCEPT ![c] = "aborted"]
    /\ UNCHANGED <<box, dead, durable, work, inFlight, unfinished, faults>>

(* Mutant of Cancelled: messages are released before their handlers are    *)
(* cancelled.                                                              *)
Cancelled_Early(c) == Releasing(c)

Cancelled(c) == phase[c] = "aborted"

Release(c, h) ==
    /\ Cancelled(c)
    /\ unfinished' = [unfinished EXCEPT ![c] = @ \ {h}]
    /\ \/ MakesVisible(h) /\ UNCHANGED faults
       \/ Leaves(h) /\ Fault
    /\ UNCHANGED <<dead, durable, phase, work, inFlight>>

Stopped(c) ==
    /\ phase[c] = "aborted"
    /\ unfinished[c] = {} /\ work[c] = {}
    /\ phase' = [phase EXCEPT ![c] = "stopped"]
    /\ inFlight' = [inFlight EXCEPT ![c] = {}]
    /\ UNCHANGED <<box, dead, durable, work, unfinished, faults>>

(* The process dies, or Stop runs out of time; a new one takes its place.  *)
Crash(c) ==
    /\ phase[c] # "stopped"
    /\ Fault
    /\ phase' = [phase EXCEPT ![c] = "starting"]
    /\ work' = [work EXCEPT ![c] = {}]
    /\ inFlight' = [inFlight EXCEPT ![c] = {}]
    /\ unfinished' = [unfinished EXCEPT ![c] = {}]
    /\ box' = [m \in Messages |-> IF box[m].by = c THEN [box[m] EXCEPT !.by = NoOne] ELSE box[m]]
    /\ UNCHANGED <<dead, durable>>

(* The next process of a stopped instance, with a Consumer of its own.     *)
Start(c) ==
    /\ phase[c] = "stopped"
    /\ phase' = [phase EXCEPT ![c] = "starting"]
    /\ UNCHANGED <<box, dead, durable, work, inFlight, unfinished, faults>>

-----------------------------------------------------------------------------
(* What a goroutine of instance c does next with delivery d when no call   *)
(* fails.                                                                  *)
DeliveryStep(c, d) ==
    \/ Dispatch(c, d) \/ Commit(c, d) \/ HandleReturns(c, d) \/ HandleCancelled(c, d)
    \/ Remove(c, d) \/ DeadLetter(c, d) \/ RetryLater(c, d)

StopStep(c) ==
    \/ Drained(c) \/ DrainEnds(c) \/ Abort(c) \/ Stopped(c)
    \/ \E h \in unfinished[c] : Release(c, h)

QueueStep(m) == VisibilityExpires(m) \/ Redrive(m)

Next ==
    \/ \E c \in Instances, m \in Messages : Receive(c, m) \/ ReceiveFails(c, m)
    \/ \E c \in Instances : \E d \in work[c] :
         DeliveryStep(c, d) \/ HandleFails(c, d) \/ HandleUnknown(c, d)
    \/ \E c \in Stoppable : StopReceiving(c) \/ Start(c)
    \/ \E c \in Instances : Run(c) \/ StopStep(c) \/ Crash(c)
    \/ \E m \in Messages : QueueStep(m)

Spec == Init /\ [][Next]_vars

(* Instances that run keep receiving, a handler ends by its deadline at    *)
(* the latest, and timeouts nobody renews run out.  Nothing makes an       *)
(* instance stop, and nothing starts one whose Run failed.                 *)
Fairness ==
    /\ \A c \in Instances, m \in Messages : WF_vars(Receive(c, m))
    /\ \A c \in Instances : WF_vars(Run(c))
    /\ \A c \in Instances : WF_vars(\E d \in work[c] : DeliveryStep(c, d))
    /\ \A c \in Instances : WF_vars(StopStep(c))
    /\ \A m \in Messages : WF_vars(QueueStep(m) /\ box[m].by = NoOne)

FairSpec == Spec /\ Fairness

-----------------------------------------------------------------------------
TypeOK ==
    /\ box \in [Messages -> BoxType]
    /\ dead \subseteq Messages /\ durable \subseteq Messages
    /\ phase \in [Instances -> Phases]
    /\ \A c \in Instances :
         /\ \A d \in work[c] : handle(d) \in Handles /\ d.stage \in Stages
         /\ inFlight[c] \subseteq Handles /\ unfinished[c] \subseteq Handles
         /\ Cardinality(work[c]) <= Slots
    /\ faults \in 0..MaxFaults

(* A message leaves the queue for good only when what it asked for is      *)
(* durable, or its copy is in the dead letter queue, whatever crashes,     *)
(* times out or is released in between (dispatch, remove, deadLetter).     *)
NothingLost ==
    \A m \in Messages : box[m].state = "deleted" =>
        IF m \in Invalid THEN m \in dead ELSE m \in durable

(* The operations of a wallet take effect in the order of its messages:    *)
(* when one is durable or dead-lettered, so is every earlier one, unless   *)
(* the redrive policy of the queue set it aside.                           *)
SettledInOrder ==
    \A w \in Wallets : \A i, k \in 1..Len(Stream[w]) :
        i < k /\ Stream[w][k] \in durable \cup dead =>
            Stream[w][i] \in durable \cup dead \/ box[Stream[w][i]].state = "redriven"

Handling(c, w) ==
    {d \in work[c] : d.stage \in {"handle", "committed"} /\ WalletOf(d.message) = w}

(* documentation/api/messaging-contracts.md: at most one message per       *)
(* wallet is being processed in the whole cluster.                         *)
OneMessagePerWallet ==
    \A w \in Wallets : \A c, b \in Instances :
        \A d \in Handling(c, w), e \in Handling(b, w) : d.message = e.message

(* While nothing fails, two handlers of one wallet overlap only if the     *)
(* shutdown of an instance has cancelled one of them: Stop cancels before  *)
(* it releases.                                                            *)
OverlapOnlyCancelled ==
    faults = 0 =>
        \A w \in Wallets : \A c, b \in Instances :
            phase[c] # "aborted" /\ phase[b] # "aborted" =>
                \A d \in Handling(c, w), e \in Handling(b, w) : c = b /\ d = e

(* An instance that stopped without a failure answers for no message: each *)
(* one it received was settled, left to a timeout on purpose, or released, *)
(* even if it was received while Stop was already releasing.               *)
StoppedHoldsNothing ==
    \A c \in Instances : phase[c] = "stopped" =>
        \A m \in Messages : box[m].by # c

(* If one instance is left running for good, every message is deleted or   *)
(* set aside by the redrive policy in the end: no slot, hidden message or  *)
(* unsent dead letter keeps a group waiting for ever.  (If the only one    *)
(* left is an instance whose Run failed, nothing is received any more.)    *)
EveryMessageEnds ==
    (\E c \in Instances : <>[](phase[c] = "running")) => \A m \in Messages : <>Gone(m)

(* An instance asked to stop stops, or dies trying.                        *)
EveryStopEnds ==
    \A c \in Instances : (phase[c] = "draining") ~> (phase[c] \in {"stopped", "starting"})

=============================================================================
