--------------------------- MODULE ConsumerProofs ---------------------------
(***************************************************************************)
(* Theorems about the queue door, for every number of instances, slots,    *)
(* messages, receives and faults.                                          *)
(***************************************************************************)
EXTENDS Consumer, SequenceTheorems, TLAPS

-----------------------------------------------------------------------------
(* Invariants.                                                             *)

Deliveries == [message : Messages, receipt : 1..MaxReceives, stage : Stages]

(* The state each part is made of.                                         *)
ShapeInv ==
    /\ box \in [Messages -> BoxType]
    /\ dead \subseteq Messages /\ durable \subseteq Messages
    /\ phase \in [Instances -> Phases]
    /\ work \in [Instances -> SUBSET Deliveries]
    /\ inFlight \in [Instances -> SUBSET Handles]
    /\ unfinished \in [Instances -> SUBSET Handles]
    /\ faults \in 0..MaxFaults

(* What may be taken out of the queue: Remove comes after the commit, or   *)
(* after the copy for the dead letter queue.                               *)
Settled(m) == IF m \in Invalid THEN m \in dead ELSE m \in durable

StagesInv ==
    /\ durable \cap Invalid = {}
    /\ \A c \in Instances : \A d \in work[c] :
         /\ d.stage = "delete" => Settled(d.message)
         /\ d.stage = "deadLetter" => d.message \in Invalid
    /\ NothingLost

(* The handles an instance knows.  A receive makes a new one, so no two    *)
(* instances know the same one, and no two goroutines work on it.          *)
Knows(c) == {handle(d) : d \in work[c]} \cup inFlight[c] \cup unfinished[c]

HandlesInv ==
    /\ \A c \in Instances : \A h \in Knows(c) : h.receipt <= box[h.message].receives
    /\ \A c, b \in Instances : c # b => Knows(c) \cap Knows(b) = {}
    /\ \A c \in Instances : \A d, e \in work[c] : handle(d) = handle(e) => d = e

(* A group gives a message out only when those before it have gone.        *)
GroupsInv ==
    /\ \A w \in Wallets : \A i, k \in 1..Len(Stream[w]) :
         i < k /\ box[Stream[w][k]].receives > 0 => Gone(Stream[w][i])
    /\ \A m \in durable \cup dead : box[m].receives > 0

(* Whoever answers for a message still works on it, or will release it.    *)
Answers(c, h) == box[h.message].by = c /\ box[h.message].receives = h.receipt

Newer(m) == [message |-> m, receipt |-> box[m].receives]

AnswersInv ==
    /\ \A m \in Messages : box[m].by # NoOne => box[m].state = "hidden"
    /\ \A c \in Instances, m \in Messages : box[m].by = c =>
         \/ \E d \in work[c] : handle(d) = Newer(m)
         \/ Releasing(c) /\ Newer(m) \in unfinished[c]
    /\ \A c \in Instances : \A d \in work[c] : d.stage # "dispatch" =>
         IF Releasing(c) THEN Answers(c, handle(d)) => handle(d) \in unfinished[c]
         ELSE handle(d) \in inFlight[c]
    /\ \A c \in Instances : phase[c] = "stopped" => work[c] = {}

(* Without a failure, who works on a message and was not cancelled has it. *)
WorkersInv ==
    faults = 0 =>
        \A c \in Instances : phase[c] # "aborted" =>
            \A d \in work[c] : Answers(c, handle(d))

-----------------------------------------------------------------------------
(* What a step does to a message of the queue.                             *)

Same(m) == box'[m] = box[m]

Taken(m, by) ==
    /\ box[m].state = "visible" /\ First(m) /\ box[m].receives < MaxReceives
    /\ box'[m] = [state |-> "hidden", receives |-> box[m].receives + 1, by |-> by]

Freed(m) ==
    /\ box[m].state = "hidden"
    /\ box'[m] \in BoxType
    /\ box'[m].state \in {"hidden", "visible"} /\ box'[m].by = NoOne
    /\ box'[m].receives = box[m].receives

Deleted(m) ==
    /\ box'[m] \in BoxType
    /\ box'[m].state = "deleted" /\ box'[m].by = NoOne
    /\ box'[m].receives = box[m].receives

SetAside(m) ==
    /\ box[m].state = "visible" /\ First(m)
    /\ box'[m] \in BoxType
    /\ box'[m].state = "redriven" /\ box'[m].by = box[m].by
    /\ box'[m].receives = box[m].receives

Others(m) == \A n \in Messages : n # m => Same(n)

(* A call with handle h: it changes the message of h only if h is still    *)
(* the newest handle.                                                      *)
GivesUp(h) ==
    /\ box' \in [Messages -> BoxType] /\ Others(h.message)
    /\ \/ Same(h.message)
       \/ Held(h) /\ Freed(h.message)

TakesOut(h) ==
    /\ box' \in [Messages -> BoxType] /\ Others(h.message)
    /\ Newest(h) /\ Deleted(h.message)

(* Nobody answers for the handle any more.                                 *)
LetsGo(h) == box'[h.message].by = NoOne \/ (~Held(h) /\ Same(h.message))

LEMMA BoxParts ==
    ASSUME NEW b \in BoxType
    PROVE  /\ [b EXCEPT !.by = NoOne] \in BoxType
           /\ [b EXCEPT !.state = "visible", !.by = NoOne] \in BoxType
           /\ [b EXCEPT !.state = "deleted", !.by = NoOne] \in BoxType
           /\ [b EXCEPT !.state = "redriven"] \in BoxType
BY DEF BoxType

LEMMA CallForms ==
    ASSUME ShapeInv, NEW h \in Handles
    PROVE  /\ MakesVisible(h) => GivesUp(h) /\ LetsGo(h)
           /\ Leaves(h) => GivesUp(h) /\ LetsGo(h)
           /\ Deletes(h) => (GivesUp(h) \/ TakesOut(h)) /\ LetsGo(h)
<1> DEFINE m == h.message
<1>0. m \in Messages /\ box \in [Messages -> BoxType] /\ box[m] \in BoxType
  BY DEF ShapeInv, Handles
<1>1. ASSUME UNCHANGED box PROVE box' \in [Messages -> BoxType] /\ Others(m) /\ Same(m)
  BY <1>0, <1>1 DEF Others, Same
<1>2. ASSUME box' = [box EXCEPT ![m].by = NoOne]
      PROVE  /\ box' \in [Messages -> BoxType] /\ Others(m)
             /\ box'[m] \in BoxType /\ box'[m].by = NoOne
             /\ box'[m].state = box[m].state /\ box'[m].receives = box[m].receives
  <2>1. box' = [box EXCEPT ![m] = [box[m] EXCEPT !.by = NoOne]]
    BY <1>2
  <2>2. [box[m] EXCEPT !.by = NoOne] \in BoxType
    BY <1>0, BoxParts
  <2>3. box' \in [Messages -> BoxType] /\ Others(m) /\ box'[m] = [box[m] EXCEPT !.by = NoOne]
    BY <1>0, <2>1, <2>2 DEF Others, Same
  <2> QED
    BY <1>0, <2>2, <2>3 DEF BoxType
<1>3. ASSUME box' = [box EXCEPT ![m].state = "visible", ![m].by = NoOne]
      PROVE  /\ box' \in [Messages -> BoxType] /\ Others(m)
             /\ box'[m] \in BoxType /\ box'[m].by = NoOne
             /\ box'[m].state = "visible" /\ box'[m].receives = box[m].receives
  <2>1. box' = [box EXCEPT ![m] = [box[m] EXCEPT !.state = "visible", !.by = NoOne]]
    BY <1>0, <1>3
  <2>2. [box[m] EXCEPT !.state = "visible", !.by = NoOne] \in BoxType
    BY <1>0, BoxParts
  <2>3. box' \in [Messages -> BoxType] /\ Others(m) /\ box'[m] = [box[m] EXCEPT !.state = "visible", !.by = NoOne]
    BY <1>0, <2>1, <2>2 DEF Others, Same
  <2> QED
    BY <1>0, <2>2, <2>3 DEF BoxType
<1>4. ASSUME box' = [box EXCEPT ![m].state = "deleted", ![m].by = NoOne]
      PROVE  /\ box' \in [Messages -> BoxType] /\ Others(m)
             /\ box'[m] \in BoxType /\ box'[m].by = NoOne
             /\ box'[m].state = "deleted" /\ box'[m].receives = box[m].receives
  <2>1. box' = [box EXCEPT ![m] = [box[m] EXCEPT !.state = "deleted", !.by = NoOne]]
    BY <1>0, <1>4
  <2>2. [box[m] EXCEPT !.state = "deleted", !.by = NoOne] \in BoxType
    BY <1>0, BoxParts
  <2>3. box' \in [Messages -> BoxType] /\ Others(m) /\ box'[m] = [box[m] EXCEPT !.state = "deleted", !.by = NoOne]
    BY <1>0, <2>1, <2>2 DEF Others, Same
  <2> QED
    BY <1>0, <2>2, <2>3 DEF BoxType
<1>5. MakesVisible(h) => GivesUp(h) /\ LetsGo(h)
  <2>1. CASE Held(h)
    <3> SUFFICES ASSUME MakesVisible(h) PROVE GivesUp(h) /\ LetsGo(h)
      OBVIOUS
    <3>1. box' = [box EXCEPT ![m].state = "visible", ![m].by = NoOne]
      BY <2>1 DEF MakesVisible
    <3>2. Freed(m)
      BY <1>3, <2>1, <3>1 DEF Freed, Held
    <3> QED
      <4>1. box' \in [Messages -> BoxType] /\ Others(m) /\ box'[m].by = NoOne
        BY <1>3, <3>1
      <4>2. GivesUp(h)
        BY <2>1, <3>2, <4>1, Zenon DEF GivesUp
      <4>3. LetsGo(h)
        BY <4>1 DEF LetsGo
      <4> QED
        BY <4>2, <4>3
  <2>2. CASE ~Held(h)
    BY <1>1, <2>2 DEF MakesVisible, GivesUp, LetsGo
  <2> QED
    BY <2>1, <2>2
<1>6. Leaves(h) => GivesUp(h) /\ LetsGo(h)
  <2>1. CASE Held(h)
    <3> SUFFICES ASSUME Leaves(h) PROVE GivesUp(h) /\ LetsGo(h)
      OBVIOUS
    <3>1. box' = [box EXCEPT ![m].by = NoOne]
      BY <2>1 DEF Leaves
    <3>2. Freed(m)
      BY <1>2, <2>1, <3>1 DEF Freed, Held
    <3> QED
      <4>1. box' \in [Messages -> BoxType] /\ Others(m) /\ box'[m].by = NoOne
        BY <1>2, <3>1
      <4>2. GivesUp(h)
        BY <2>1, <3>2, <4>1, Zenon DEF GivesUp
      <4>3. LetsGo(h)
        BY <4>1 DEF LetsGo
      <4> QED
        BY <4>2, <4>3
  <2>2. CASE ~Held(h)
    BY <1>1, <2>2 DEF Leaves, GivesUp, LetsGo
  <2> QED
    BY <2>1, <2>2
<1>7. Deletes(h) => (GivesUp(h) \/ TakesOut(h)) /\ LetsGo(h)
  <2>1. CASE Newest(h) /\ box' = [box EXCEPT ![m].state = "deleted", ![m].by = NoOne]
    <3>1. Deleted(m)
      BY <1>4, <2>1 DEF Deleted
    <3> QED
      <4>1. box' \in [Messages -> BoxType] /\ Others(m) /\ box'[m].by = NoOne
        BY <1>4, <2>1
      <4>2. TakesOut(h)
        BY <2>1, <3>1, <4>1, Zenon DEF TakesOut
      <4>3. LetsGo(h)
        BY <4>1 DEF LetsGo
      <4> QED
        BY <4>2, <4>3
  <2>2. CASE ~Held(h) /\ UNCHANGED box
    BY <1>1, <2>2 DEF GivesUp, LetsGo
  <2> QED
    BY <2>1, <2>2 DEF Deletes
<1> QED
  BY <1>5, <1>6, <1>7

-----------------------------------------------------------------------------
(* What a step does to the instances.                                      *)

(* A message is given out, to an instance or to nobody.                    *)
Receives(c, m) ==
    /\ box' \in [Messages -> BoxType] /\ Taken(m, c) /\ Others(m)
    /\ phase[c] = "running" /\ Cardinality(work[c]) < Slots
    /\ work' = [work EXCEPT ![c] = @ \cup
                  {[message |-> m, receipt |-> box[m].receives + 1, stage |-> "dispatch"]}]
    /\ UNCHANGED <<dead, durable, phase, inFlight, unfinished, faults>>

Hidden(m) ==
    /\ box' \in [Messages -> BoxType] /\ Taken(m, NoOne) /\ Others(m)
    /\ UNCHANGED <<dead, durable, work, inFlight, unfinished>>
    /\ UNCHANGED faults \/ Fault
    /\ \/ UNCHANGED phase
       \/ \E c \in Instances : /\ phase[c] \in {"starting", "running", "failed"}
                               /\ phase' = [phase EXCEPT ![c] = "draining"]

(* A goroutine goes on with its delivery.                                  *)
Progresses(c, d, stage) ==
    /\ at(c, d, stage)
    /\ UNCHANGED <<box, phase, unfinished>> /\ (UNCHANGED faults \/ Fault)
    /\ \/ /\ d.stage = "dispatch" /\ stage = "handle" /\ ~Releasing(c)
          /\ inFlight' = [inFlight EXCEPT ![c] = @ \cup {handle(d)}]
       \/ d.stage # "dispatch" /\ stage # "dispatch" /\ UNCHANGED inFlight
    /\ dead' \in {dead, dead \cup {d.message}}
    /\ \/ UNCHANGED durable
       \/ d.message \notin Invalid /\ durable' = durable \cup {d.message}
    /\ stage = "deadLetter" => d.message \in Invalid
    /\ stage = "delete" => \/ d.message \in durable
                           \/ d.stage = "deadLetter" /\ d.message \in dead'

(* It is through with it: somebody was told, or Stop will tell.            *)
Concludes(c, d) ==
    /\ work' = [work EXCEPT ![c] = @ \ {d}]
    /\ inFlight' \in {inFlight, [inFlight EXCEPT ![c] = @ \ {handle(d)}]}
    /\ UNCHANGED <<durable, phase, unfinished>> /\ (UNCHANGED faults \/ Fault)
    /\ dead' \in {dead, dead \cup {d.message}}
    /\ GivesUp(handle(d)) \/ (d.stage = "delete" /\ TakesOut(handle(d)))
    /\ \/ LetsGo(handle(d))
       \/ UNCHANGED box /\ phase[c] = "aborted" /\ d.stage # "dispatch"

PhaseMoves(c) ==
    /\ UNCHANGED <<box, dead, durable, work>> /\ (UNCHANGED faults \/ Fault)
    /\ \/ /\ phase[c] \in {"starting", "stopped", "running", "failed"}
          /\ phase' \in {[phase EXCEPT ![c] = "starting"], [phase EXCEPT ![c] = "running"],
                         [phase EXCEPT ![c] = "failed"], [phase EXCEPT ![c] = "draining"]}
          /\ UNCHANGED <<inFlight, unfinished>>
       \/ /\ phase[c] = "draining" /\ work[c] = {}
          /\ phase' = [phase EXCEPT ![c] = "stopped"]
          /\ UNCHANGED <<inFlight, unfinished>>
       \/ /\ phase[c] = "draining"
          /\ phase' = [phase EXCEPT ![c] = "releasing"]
          /\ unfinished' = [unfinished EXCEPT ![c] = inFlight[c]]
          /\ UNCHANGED inFlight
       \/ /\ phase[c] = "releasing"
          /\ phase' = [phase EXCEPT ![c] = "aborted"]
          /\ UNCHANGED <<inFlight, unfinished>>
       \/ /\ phase[c] = "aborted" /\ unfinished[c] = {} /\ work[c] = {}
          /\ phase' = [phase EXCEPT ![c] = "stopped"]
          /\ inFlight' = [inFlight EXCEPT ![c] = {}]
          /\ UNCHANGED unfinished

Releases(c, h) ==
    /\ phase[c] = "aborted"
    /\ unfinished' = [unfinished EXCEPT ![c] = @ \ {h}]
    /\ GivesUp(h) /\ LetsGo(h)
    /\ UNCHANGED <<dead, durable, phase, work, inFlight>> /\ (UNCHANGED faults \/ Fault)

QueueMoves(m) ==
    /\ box' \in [Messages -> BoxType] /\ Others(m)
    /\ \/ Freed(m) /\ (box[m].by = NoOne \/ Fault)
       \/ SetAside(m)
    /\ UNCHANGED <<dead, durable, phase, work, inFlight, unfinished>> /\ (UNCHANGED faults \/ Fault)

LEMMA HandleOf ==
    ASSUME ShapeInv, NEW c \in Instances, NEW d \in work[c]
    PROVE  d \in Deliveries /\ handle(d) \in Handles /\ handle(d).message = d.message
BY DEF ShapeInv, Deliveries, Handles, handle

LEMMA TakenForm ==
    ASSUME ShapeInv, NEW m \in Messages, NEW c \in Instances, NEW by \in Instances \cup {NoOne},
           Receivable(c, m), Hides(m, by)
    PROVE  box' \in [Messages -> BoxType] /\ Taken(m, by) /\ Others(m)
<1>0. box \in [Messages -> BoxType] /\ box[m] \in BoxType /\ MaxReceives \in Nat
  BY ConsumerAssumption DEF ShapeInv
<1>1. box[m].receives + 1 \in 0..MaxReceives
  BY <1>0 DEF Receivable, BoxType
<1>2. [state |-> "hidden", receives |-> box[m].receives + 1, by |-> by] \in BoxType
  BY <1>1 DEF BoxType
<1>3. box' = [box EXCEPT ![m] = [state |-> "hidden", receives |-> box[m].receives + 1, by |-> by]]
  BY <1>0 DEF Hides
<1>4. box' \in [Messages -> BoxType] /\ Others(m)
      /\ box'[m] = [state |-> "hidden", receives |-> box[m].receives + 1, by |-> by]
  BY <1>0, <1>2, <1>3 DEF Others, Same
<1> QED
  BY <1>4 DEF Taken, Receivable

LEMMA QueueForms ==
    ASSUME ShapeInv, NEW m \in Messages, QueueStep(m)
    PROVE  QueueMoves(m)
<1>0. box \in [Messages -> BoxType] /\ box[m] \in BoxType
  BY DEF ShapeInv
<1>1. CASE VisibilityExpires(m)
  <2>1. box' = [box EXCEPT ![m] = [box[m] EXCEPT !.state = "visible", !.by = NoOne]]
    BY <1>0, <1>1 DEF VisibilityExpires
  <2>2. [box[m] EXCEPT !.state = "visible", !.by = NoOne] \in BoxType
    BY <1>0, BoxParts
  <2>3. /\ box' \in [Messages -> BoxType] /\ Others(m)
        /\ box'[m] = [box[m] EXCEPT !.state = "visible", !.by = NoOne]
    BY <1>0, <2>1, <2>2 DEF Others, Same
  <2>4. /\ box'[m].state = "visible" /\ box'[m].by = NoOne /\ box'[m].receives = box[m].receives
        /\ box'[m] \in BoxType
    BY <1>0, <2>2, <2>3 DEF BoxType
  <2>5. Freed(m)
    BY <1>1, <2>4 DEF Freed, VisibilityExpires
  <2>6. box[m].by = NoOne \/ Fault
    BY <1>1 DEF VisibilityExpires
  <2>7. UNCHANGED <<dead, durable, phase, work, inFlight, unfinished>> /\ (UNCHANGED faults \/ Fault)
    BY <1>1 DEF VisibilityExpires
  <2> QED
    BY <2>3, <2>5, <2>6, <2>7, Zenon DEF QueueMoves
<1>2. CASE Redrive(m)
  <2>1. box' = [box EXCEPT ![m] = [box[m] EXCEPT !.state = "redriven"]]
    BY <1>0, <1>2 DEF Redrive
  <2>2. [box[m] EXCEPT !.state = "redriven"] \in BoxType
    BY <1>0, BoxParts
  <2>3. /\ box' \in [Messages -> BoxType] /\ Others(m)
        /\ box'[m] = [box[m] EXCEPT !.state = "redriven"]
    BY <1>0, <2>1, <2>2 DEF Others, Same
  <2>4. /\ box'[m].state = "redriven" /\ box'[m].by = box[m].by /\ box'[m].receives = box[m].receives
        /\ box'[m] \in BoxType
    BY <1>0, <2>2, <2>3 DEF BoxType
  <2>5. SetAside(m)
    BY <1>2, <2>4 DEF SetAside, Redrive
  <2>7. UNCHANGED <<dead, durable, phase, work, inFlight, unfinished>> /\ (UNCHANGED faults \/ Fault)
    BY <1>2 DEF Redrive
  <2> QED
    BY <2>3, <2>5, <2>7, Zenon DEF QueueMoves
<1> QED
  BY <1>1, <1>2 DEF QueueStep

LEMMA DeliveryForms ==
    ASSUME ShapeInv, NEW c \in Instances, NEW d \in work[c],
           DeliveryStep(c, d) \/ HandleFails(c, d) \/ HandleUnknown(c, d)
    PROVE  Concludes(c, d) \/ \E stage \in Stages : Progresses(c, d, stage)
<1>0. handle(d) \in Handles /\ d.stage \in Stages
  BY HandleOf DEF Deliveries
<1>1. CASE Dispatch(c, d)
  <2>1. CASE ~Releasing(c)
    <3>1. Progresses(c, d, "handle")
      BY <1>1, <2>1 DEF Dispatch, Progresses
    <3> QED
      BY <3>1 DEF Stages
  <2>2. CASE Releasing(c)
    <3>1. MakesVisible(handle(d)) \/ Leaves(handle(d))
      BY <1>1, <2>2 DEF Dispatch
    <3>2. GivesUp(handle(d)) /\ LetsGo(handle(d))
      BY <1>0, <3>1, CallForms
    <3> QED
      BY <1>1, <2>2, <3>2 DEF Dispatch, Concludes
  <2> QED
    BY <2>1, <2>2
<1>2. CASE Commit(c, d)
  <2>1. Progresses(c, d, "committed")
    BY <1>2 DEF Commit, Progresses
  <2> QED
    BY <2>1 DEF Stages
<1>3. CASE HandleReturns(c, d)
  <2>1. Progresses(c, d, "delete") \/ Progresses(c, d, "deadLetter")
    BY <1>3 DEF HandleReturns, Progresses
  <2> QED
    BY <2>1 DEF Stages
<1>4. CASE HandleFails(c, d)
  <2>1. Progresses(c, d, "retry")
    BY <1>4 DEF HandleFails, Progresses
  <2> QED
    BY <2>1 DEF Stages
<1>5. CASE HandleUnknown(c, d) \/ RetryLater(c, d)
  <2>1. GivesUp(handle(d)) /\ LetsGo(handle(d))
    BY <1>0, <1>5, CallForms DEF HandleUnknown, RetryLater
  <2> QED
    BY <1>5, <2>1 DEF HandleUnknown, RetryLater, Finish, Concludes
<1>6. CASE HandleCancelled(c, d)
  <2>1. GivesUp(handle(d))
    BY <1>0, <1>6 DEF HandleCancelled, GivesUp, Others, Same, ShapeInv
  <2> QED
    BY <1>6, <2>1 DEF HandleCancelled, Finish, Concludes
<1>7. CASE Remove(c, d)
  <2>1. (GivesUp(handle(d)) \/ TakesOut(handle(d))) /\ LetsGo(handle(d))
    BY <1>0, <1>7, CallForms DEF Remove
  <2> QED
    BY <1>7, <2>1 DEF Remove, Finish, Concludes, CallFails
<1>8. CASE DeadLetter(c, d)
  <2>1. CASE /\ dead' = dead \cup {d.message} /\ at(c, d, "delete")
             /\ UNCHANGED <<box, inFlight, faults>>
    <3>1. Progresses(c, d, "delete")
      BY <1>8, <2>1 DEF DeadLetter, Progresses
    <3> QED
      BY <3>1 DEF Stages
  <2>2. CASE /\ dead' \in {dead, dead \cup {d.message}}
             /\ CallFails(c) /\ Leaves(handle(d)) /\ Finish(c, d)
    <3>1. GivesUp(handle(d)) /\ LetsGo(handle(d))
      BY <1>0, <2>2, CallForms
    <3> QED
      BY <1>8, <2>2, <3>1 DEF DeadLetter, Finish, Concludes, CallFails
  <2> QED
    BY <1>8, <2>1, <2>2 DEF DeadLetter
<1> QED
  BY <1>1, <1>2, <1>3, <1>4, <1>5, <1>6, <1>7, <1>8 DEF DeliveryStep

(* Every step has one of these forms.                                      *)
LEMMA NextForms ==
    ASSUME ShapeInv, [Next]_vars
    PROVE  \/ UNCHANGED vars
           \/ \E c \in Instances, m \in Messages : Receives(c, m)
           \/ \E m \in Messages : Hidden(m)
           \/ \E c \in Instances : \E d \in work[c] : \E stage \in Stages : Progresses(c, d, stage)
           \/ \E c \in Instances : \E d \in work[c] : Concludes(c, d)
           \/ \E c \in Instances : PhaseMoves(c)
           \/ \E c \in Instances : \E h \in unfinished[c] : Releases(c, h)
           \/ \E c \in Instances : Crash(c)
           \/ \E m \in Messages : QueueMoves(m)
<1>0. Stoppable \subseteq Instances
  BY ConsumerAssumption
<1>1. ASSUME NEW c \in Instances, NEW m \in Messages, Receive(c, m) PROVE Receives(c, m)
  <2>1. box' \in [Messages -> BoxType] /\ Taken(m, c) /\ Others(m)
    BY <1>1, TakenForm DEF Receive
  <2> QED
    BY <1>1, <2>1 DEF Receive, Receives, Receivable
<1>2. ASSUME NEW c \in Instances, NEW m \in Messages, ReceiveFails(c, m) PROVE Hidden(m)
  <2>1. box' \in [Messages -> BoxType] /\ Taken(m, NoOne) /\ Others(m)
    BY <1>2, TakenForm DEF ReceiveFails
  <2> QED
    BY <1>2, <2>1 DEF ReceiveFails, Hidden
<1>3. ASSUME NEW c \in Stoppable, StopReceiving(c)
      PROVE  PhaseMoves(c) \/ \E m \in Messages : Hidden(m)
  <2>1. CASE UNCHANGED box
    BY <1>3, <2>1 DEF StopReceiving, PhaseMoves
  <2>2. ASSUME NEW m \in Messages, Receivable(c, m), Hides(m, NoOne) PROVE Hidden(m)
    <3>1. box' \in [Messages -> BoxType] /\ Taken(m, NoOne) /\ Others(m)
      BY <1>0, <2>2, TakenForm
    <3> QED
      BY <1>0, <1>3, <3>1 DEF StopReceiving, Hidden
  <2> QED
    BY <1>3, <2>1, <2>2 DEF StopReceiving
<1>4. ASSUME NEW c \in Instances,
             Start(c) \/ Run(c) \/ Drained(c) \/ DrainEnds(c) \/ Abort(c) \/ Stopped(c)
      PROVE  PhaseMoves(c)
  BY <1>4 DEF Start, Run, Drained, DrainEnds, Abort, Stopped, PhaseMoves
<1>5. ASSUME NEW c \in Instances, NEW h \in unfinished[c], Release(c, h) PROVE Releases(c, h)
  <2>1. h \in Handles
    BY DEF ShapeInv
  <2>2. GivesUp(h) /\ LetsGo(h)
    BY <1>5, <2>1, CallForms DEF Release
  <2> QED
    BY <1>5, <2>2 DEF Release, Releases, Cancelled
<1> QED
  BY <1>0, <1>1, <1>2, <1>3, <1>4, <1>5, DeliveryForms, QueueForms DEF Next, StopStep

(* What a crash leaves of the receives of its instance.                    *)
LEMMA CrashForm ==
    ASSUME ShapeInv, NEW c \in Instances, Crash(c)
    PROVE  /\ box' \in [Messages -> BoxType]
           /\ \A m \in Messages : Same(m) \/ (box[m].by = c /\ box'[m].by = NoOne)
           /\ \A m \in Messages : /\ box'[m].state = box[m].state /\ box'[m].by # c
                                  /\ box'[m].receives = box[m].receives
<1>0. c # NoOne
  BY ConsumerAssumption
<1>1. ASSUME NEW m \in Messages
      PROVE  /\ box'[m] \in BoxType
             /\ Same(m) \/ (box[m].by = c /\ box'[m].by = NoOne)
             /\ box'[m].state = box[m].state /\ box'[m].by # c /\ box'[m].receives = box[m].receives
  <2>0. box[m] \in BoxType
    BY DEF ShapeInv
  <2>1. CASE box[m].by = c
    <3>1. box'[m] = [box[m] EXCEPT !.by = NoOne] /\ [box[m] EXCEPT !.by = NoOne] \in BoxType
      BY <2>0, <2>1, BoxParts DEF Crash
    <3> QED
      BY <1>0, <2>0, <2>1, <3>1 DEF BoxType
  <2>2. CASE box[m].by # c
    <3>1. box'[m] = box[m]
      BY <2>2 DEF Crash
    <3> QED
      BY <2>0, <2>2, <3>1 DEF Same
  <2> QED
    BY <2>1, <2>2
<1>2. box' = [m \in Messages |-> box'[m]]
  BY DEF Crash
<1> QED
  BY <1>1, <1>2

(* A delivery that goes on keeps its handle.                               *)
LEMMA WorkOn ==
    ASSUME ShapeInv, NEW c \in Instances, NEW d \in work[c], NEW stage \in Stages, at(c, d, stage)
    PROVE  /\ work' \in [Instances -> SUBSET Deliveries]
           /\ \A b \in Instances : b # c => work'[b] = work[b]
           /\ \A e \in work'[c] : \/ e \in work[c] /\ e # d
                                  \/ /\ e.message = d.message /\ handle(e) = handle(d)
                                     /\ e.stage = stage
           /\ \E e \in work'[c] : handle(e) = handle(d)
           /\ \A e \in work[c] : e # d => e \in work'[c]
<1>0. work \in [Instances -> SUBSET Deliveries] /\ d \in Deliveries
  BY DEF ShapeInv
<1> DEFINE new == [d EXCEPT !.stage = stage]
<1>1. /\ new \in Deliveries /\ new.message = d.message /\ new.receipt = d.receipt
      /\ new.stage = stage
  BY <1>0 DEF Deliveries
<1>2. handle(new) = handle(d)
  BY <1>1 DEF handle
<1>3. work' = [work EXCEPT ![c] = (work[c] \ {d}) \cup {new}]
  BY DEF at
<1> HIDE DEF new
<1> QED
  BY <1>0, <1>1, <1>2, <1>3

LEMMA ShapeStep == ShapeInv /\ [Next]_vars => ShapeInv'
<1> SUFFICES ASSUME ShapeInv, [Next]_vars PROVE ShapeInv'
  OBVIOUS
<1>0. MaxFaults \in Nat /\ MaxReceives \in Nat
  BY ConsumerAssumption
<1>a. (UNCHANGED faults \/ Fault) => faults' \in 0..MaxFaults
  BY <1>0 DEF Fault, ShapeInv
<1>1. CASE UNCHANGED vars
  BY <1>1 DEF vars, ShapeInv
<1>2. ASSUME NEW c \in Instances, NEW m \in Messages, Receives(c, m) PROVE ShapeInv'
  <2>1. box[m].receives + 1 \in 1..MaxReceives
    BY <1>0, <1>2 DEF Receives, Taken, ShapeInv, BoxType
  <2>2. [message |-> m, receipt |-> box[m].receives + 1, stage |-> "dispatch"] \in Deliveries
    BY <2>1 DEF Deliveries, Stages
  <2> QED
    BY <1>2, <2>2 DEF Receives, ShapeInv
<1>3. ASSUME NEW m \in Messages, Hidden(m) PROVE ShapeInv'
  BY <1>3, <1>a DEF Hidden, ShapeInv, Phases
<1>4. ASSUME NEW c \in Instances, NEW d \in work[c], NEW stage \in Stages, Progresses(c, d, stage)
      PROVE  ShapeInv'
  <2>1. d \in Deliveries /\ handle(d) \in Handles /\ d.message \in Messages
    BY HandleOf DEF Deliveries
  <2>2. work' \in [Instances -> SUBSET Deliveries]
    BY <1>4, WorkOn DEF Progresses
  <2>3. inFlight' \in [Instances -> SUBSET Handles]
    BY <1>4, <2>1 DEF Progresses, ShapeInv
  <2> QED
    BY <1>4, <1>a, <2>1, <2>2, <2>3 DEF Progresses, ShapeInv
<1>5. ASSUME NEW c \in Instances, NEW d \in work[c], Concludes(c, d) PROVE ShapeInv'
  <2>1. d.message \in Messages
    BY HandleOf DEF Deliveries
  <2>2. box' \in [Messages -> BoxType]
    BY <1>5 DEF Concludes, GivesUp, TakesOut
  <2> QED
    BY <1>5, <1>a, <2>1, <2>2 DEF Concludes, ShapeInv
<1>6. ASSUME NEW c \in Instances, PhaseMoves(c) PROVE ShapeInv'
  BY <1>6, <1>a DEF PhaseMoves, ShapeInv, Phases
<1>7. ASSUME NEW c \in Instances, NEW h \in unfinished[c], Releases(c, h) PROVE ShapeInv'
  <2>1. box' \in [Messages -> BoxType]
    BY <1>7 DEF Releases, GivesUp
  <2> QED
    BY <1>7, <1>a, <2>1 DEF Releases, ShapeInv
<1>8. ASSUME NEW c \in Instances, Crash(c) PROVE ShapeInv'
  <2>1. box' \in [Messages -> BoxType]
    BY <1>8, CrashForm
  <2> QED
    BY <1>8, <1>a, <2>1 DEF Crash, ShapeInv, Phases
<1>9. ASSUME NEW m \in Messages, QueueMoves(m) PROVE ShapeInv'
  BY <1>9, <1>a DEF QueueMoves, ShapeInv
<1> QED
  BY <1>1, <1>2, <1>3, <1>4, <1>5, <1>6, <1>7, <1>8, <1>9, NextForms

-----------------------------------------------------------------------------
(* Nothing is taken out of the queue before it is settled.                 *)

(* A message is deleted only by Remove.                                    *)
LEMMA BoxForms ==
    ASSUME ShapeInv, [Next]_vars, NEW m \in Messages
    PROVE  /\ box'[m].receives \in Nat /\ box[m].receives \in Nat
           /\ box'[m].receives >= box[m].receives
           /\ Gone(m) => Gone(m)'
           /\ box'[m].receives > box[m].receives => First(m)
           /\ box'[m].state = "deleted" =>
                \/ box[m].state = "deleted"
                \/ \E c \in Instances : \E d \in work[c] : d.message = m /\ d.stage = "delete"
<1>0. box \in [Messages -> BoxType] /\ box' \in [Messages -> BoxType] /\ MaxReceives \in Nat
  BY ShapeStep, ConsumerAssumption DEF ShapeInv
<1>a. box[m].receives \in Nat /\ box'[m].receives \in Nat
  BY <1>0 DEF BoxType
<1>1. CASE Same(m)
  BY <1>a, <1>1 DEF Same, Gone
<1>2. ASSUME NEW by, Taken(m, by) PROVE
        /\ box'[m].receives >= box[m].receives /\ First(m)
        /\ ~Gone(m) /\ box'[m].state # "deleted"
  BY <1>a, <1>2 DEF Taken, Gone
<1>3. CASE Freed(m) \/ SetAside(m)
  BY <1>a, <1>3 DEF Freed, SetAside, Gone
<1>4. CASE /\ Deleted(m)
           /\ \E c \in Instances : \E d \in work[c] : d.message = m /\ d.stage = "delete"
  BY <1>a, <1>4 DEF Deleted, Gone
<1>5. ASSUME NEW c \in Instances, Crash(c)
      PROVE  box'[m].receives = box[m].receives /\ box'[m].state = box[m].state
  BY <1>5, CrashForm
<1>6. ASSUME NEW c \in Instances, NEW d \in work[c], Concludes(c, d)
      PROVE  Same(m) \/ Freed(m) \/ (Deleted(m) /\ d.message = m /\ d.stage = "delete")
  <2>1. handle(d).message = d.message
    BY HandleOf
  <2> QED
    BY <1>6, <2>1 DEF Concludes, GivesUp, TakesOut, Others
<1>7. ASSUME NEW c \in Instances, NEW h \in unfinished[c], Releases(c, h) PROVE Same(m) \/ Freed(m)
  BY <1>7 DEF Releases, GivesUp, Others
<1>8. ASSUME NEW n \in Messages, QueueMoves(n) PROVE Same(m) \/ Freed(m) \/ SetAside(m)
  BY <1>8 DEF QueueMoves, Others
<1>9. ASSUME NEW n \in Messages, NEW by, Taken(n, by) /\ Others(n) PROVE Same(m) \/ Taken(m, by)
  BY <1>9 DEF Others
<1>10. \/ Same(m) \/ Freed(m) \/ SetAside(m) \/ (\E by : Taken(m, by))
       \/ (\E c \in Instances : Crash(c))
       \/ (\E c \in Instances : \E d \in work[c] : Deleted(m) /\ d.message = m /\ d.stage = "delete")
  BY <1>6, <1>7, <1>8, <1>9, NextForms
     DEF vars, Receives, Hidden, Progresses, PhaseMoves, Same
<1> QED
  BY <1>a, <1>1, <1>2, <1>3, <1>4, <1>5, <1>10 DEF Gone

(* The work of an instance: what was there, or a new delivery.             *)
LEMMA WorkForms ==
    ASSUME ShapeInv, [Next]_vars, NEW c \in Instances, NEW e \in work'[c]
    PROVE  \/ e \in work[c]
           \/ e.stage = "dispatch"
           \/ \E d \in work[c] : Progresses(c, d, e.stage) /\ e.message = d.message
<1>0. work \in [Instances -> SUBSET Deliveries]
  BY DEF ShapeInv
<1>1. ASSUME NEW b \in Instances, NEW m \in Messages, Receives(b, m)
      PROVE  e \in work[c] \/ e.stage = "dispatch"
  BY <1>0, <1>1 DEF Receives
<1>2. ASSUME NEW b \in Instances, NEW d \in work[b], NEW stage \in Stages, Progresses(b, d, stage)
      PROVE  \/ e \in work[c]
             \/ \E f \in work[c] : Progresses(c, f, e.stage) /\ e.message = f.message
  <2>1. CASE b # c
    BY <1>2, <2>1, WorkOn DEF Progresses
  <2>2. CASE b = c
    BY <1>2, <2>2, WorkOn DEF Progresses
  <2> QED
    BY <2>1, <2>2
<1>3. ASSUME NEW b \in Instances, NEW d \in work[b], Concludes(b, d) PROVE e \in work[c]
  BY <1>0, <1>3 DEF Concludes
<1>4. ASSUME NEW b \in Instances, Crash(b) PROVE e \in work[c]
  BY <1>0, <1>4 DEF Crash
<1>5. UNCHANGED work => e \in work[c]
  OBVIOUS
<1> QED
  BY <1>1, <1>2, <1>3, <1>4, <1>5, NextForms DEF vars, Hidden, PhaseMoves, Releases, QueueMoves

(* What is durable or in the dead letter queue stays so.                   *)
LEMMA SettledForms ==
    ASSUME ShapeInv, [Next]_vars
    PROVE  /\ durable \subseteq durable' /\ dead \subseteq dead'
           /\ \A m \in durable' : \/ m \in durable
                                  \/ /\ m \notin Invalid
                                     /\ \E c \in Instances : \E d \in work[c] : d.message = m
           /\ \A m \in dead' : m \in dead \/ \E c \in Instances : \E d \in work[c] : d.message = m
<1>1. ASSUME NEW c \in Instances, NEW d \in work[c], NEW stage \in Stages, Progresses(c, d, stage)
      PROVE  /\ durable \subseteq durable' /\ dead \subseteq dead'
             /\ \A m \in durable' : m \in durable \/ (m \notin Invalid /\ d.message = m)
             /\ \A m \in dead' : m \in dead \/ d.message = m
  BY <1>1 DEF Progresses
<1>2. ASSUME NEW c \in Instances, NEW d \in work[c], Concludes(c, d)
      PROVE  /\ UNCHANGED durable /\ dead \subseteq dead'
             /\ \A m \in dead' : m \in dead \/ d.message = m
  BY <1>2 DEF Concludes
<1>3. \/ UNCHANGED <<durable, dead>>
      \/ \E c \in Instances : \E d \in work[c] : \E stage \in Stages : Progresses(c, d, stage)
      \/ \E c \in Instances : \E d \in work[c] : Concludes(c, d)
  BY NextForms DEF vars, Receives, Hidden, PhaseMoves, Releases, QueueMoves, Crash
<1> QED
  BY <1>1, <1>2, <1>3

LEMMA StagesStep == ShapeInv /\ StagesInv /\ [Next]_vars => StagesInv'
<1> SUFFICES ASSUME ShapeInv, StagesInv, [Next]_vars PROVE StagesInv'
  OBVIOUS
<1>0. \A m \in Messages : Settled(m) => Settled(m)'
  BY SettledForms DEF Settled
<1>1. (durable \cap Invalid = {})'
  BY SettledForms DEF StagesInv
<1>2. ASSUME NEW c \in Instances, NEW e \in work'[c]
      PROVE  /\ e.stage = "delete" => Settled(e.message)'
             /\ e.stage = "deadLetter" => e.message \in Invalid
  <2>1. CASE e \in work[c]
    <3>1. e.message \in Messages
      BY <2>1, HandleOf DEF Deliveries
    <3> QED
      BY <1>0, <2>1, <3>1 DEF StagesInv
  <2>2. CASE e.stage = "dispatch"
    BY <2>2
  <2>3. ASSUME NEW d \in work[c], Progresses(c, d, e.stage), e.message = d.message
        PROVE  /\ e.stage = "delete" => Settled(e.message)'
               /\ e.stage = "deadLetter" => e.message \in Invalid
    <3>1. d.message \in Messages
      BY HandleOf DEF Deliveries
    <3>2. d.message \in durable => Settled(d.message)
      BY DEF StagesInv, Settled
    <3>3. d.stage = "deadLetter" => d.message \in Invalid
      BY DEF StagesInv
    <3> QED
      BY <1>0, <2>3, <3>1, <3>2, <3>3 DEF Progresses, Settled
  <2> QED
    BY <2>1, <2>2, <2>3, WorkForms
<1>3. NothingLost'
  <2> SUFFICES ASSUME NEW m \in Messages, box'[m].state = "deleted" PROVE Settled(m)'
    BY DEF NothingLost, Settled
  <2>1. Settled(m)
    BY BoxForms DEF StagesInv, NothingLost, Settled
  <2> QED
    BY <1>0, <2>1
<1> QED
  BY <1>1, <1>2, <1>3 DEF StagesInv

LEMMA InitShape == Init => ShapeInv
<1> SUFFICES ASSUME Init PROVE ShapeInv
  OBVIOUS
<1>0. MaxFaults \in Nat /\ MaxReceives \in Nat
  BY ConsumerAssumption
<1>1. newMessage \in BoxType
  BY <1>0 DEF newMessage, BoxType
<1> QED
  BY <1>0, <1>1 DEF Init, ShapeInv, Phases

(* A message leaves the queue for good only when what it asked for is      *)
(* durable, or its copy is in the dead letter queue (dispatch, remove and  *)
(* deadLetter of consumer.go).                                             *)
THEOREM NothingIsLost == Spec => []NothingLost
<1>1. Init => StagesInv
  BY DEF Init, StagesInv, NothingLost, newMessage
<1>2. StagesInv => NothingLost
  BY DEF StagesInv
<1> QED
  BY <1>1, <1>2, InitShape, ShapeStep, StagesStep, PTL DEF Spec

-----------------------------------------------------------------------------
(* Handles.                                                                *)

(* No step makes a handle known that was not, except the receive that      *)
(* made it.                                                                *)
LEMMA KnowsForms ==
    ASSUME ShapeInv, [Next]_vars, NEW c \in Instances, NEW h \in Knows(c)'
    PROVE  \/ h \in Knows(c)
           \/ \E m \in Messages : /\ Receives(c, m)
                                  /\ h = [message |-> m, receipt |-> box[m].receives + 1]
<1>0. /\ work \in [Instances -> SUBSET Deliveries]
      /\ inFlight \in [Instances -> SUBSET Handles] /\ unfinished \in [Instances -> SUBSET Handles]
      /\ Knows(c)' = {handle(d) : d \in work'[c]} \cup inFlight'[c] \cup unfinished'[c]
  BY DEF ShapeInv, Knows, handle
<1>1. ASSUME NEW b \in Instances, NEW m \in Messages, Receives(b, m)
      PROVE  \/ h \in Knows(c)
             \/ Receives(c, m) /\ h = [message |-> m, receipt |-> box[m].receives + 1]
  <2> DEFINE new == [message |-> m, receipt |-> box[m].receives + 1, stage |-> "dispatch"]
  <2>1. inFlight' = inFlight /\ unfinished' = unfinished /\ work' = [work EXCEPT ![b] = @ \cup {new}]
    BY <1>1 DEF Receives
  <2>2. handle(new) = [message |-> m, receipt |-> box[m].receives + 1]
    BY DEF handle
  <2> HIDE DEF new
  <2>3. \A d \in work'[c] : d \in work[c] \/ (b = c /\ d = new)
    BY <1>0, <2>1
  <2> QED
    BY <1>0, <1>1, <2>1, <2>2, <2>3 DEF Knows
<1>2. ASSUME NEW b \in Instances, NEW d \in work[b], NEW stage \in Stages, Progresses(b, d, stage)
      PROVE  h \in Knows(c)
  <2>1. \A e \in work'[c] : \E f \in work[c] : handle(e) = handle(f)
    BY <1>2, WorkOn DEF Progresses
  <2>2. \A g \in inFlight'[c] : g \in inFlight[c] \/ (b = c /\ g = handle(d))
    BY <1>0, <1>2 DEF Progresses
  <2>3. unfinished' = unfinished
    BY <1>2 DEF Progresses
  <2> QED
    BY <1>0, <2>1, <2>2, <2>3 DEF Knows
<1>3. ASSUME NEW b \in Instances, NEW d \in work[b], Concludes(b, d) PROVE h \in Knows(c)
  <2>1. work'[c] \subseteq work[c] /\ inFlight'[c] \subseteq inFlight[c] /\ unfinished' = unfinished
    BY <1>0, <1>3 DEF Concludes
  <2> QED
    BY <1>0, <2>1 DEF Knows
<1>4. ASSUME NEW b \in Instances, PhaseMoves(b) PROVE h \in Knows(c)
  <2>1. /\ work' = work /\ inFlight'[c] \subseteq inFlight[c]
        /\ unfinished'[c] \subseteq unfinished[c] \cup inFlight[c]
    BY <1>0, <1>4 DEF PhaseMoves
  <2> QED
    BY <1>0, <2>1 DEF Knows
<1>5. ASSUME NEW b \in Instances, NEW g \in unfinished[b], Releases(b, g) PROVE h \in Knows(c)
  <2>1. work' = work /\ inFlight' = inFlight /\ unfinished'[c] \subseteq unfinished[c]
    BY <1>0, <1>5 DEF Releases
  <2> QED
    BY <1>0, <2>1 DEF Knows
<1>6. ASSUME NEW b \in Instances, Crash(b) PROVE h \in Knows(c)
  <2>1. work'[c] \subseteq work[c] /\ inFlight'[c] \subseteq inFlight[c] /\ unfinished'[c] \subseteq unfinished[c]
    BY <1>0, <1>6 DEF Crash
  <2> QED
    BY <1>0, <2>1 DEF Knows
<1>7. UNCHANGED <<work, inFlight, unfinished>> => h \in Knows(c)
  BY <1>0 DEF Knows
<1> QED
  BY <1>1, <1>2, <1>3, <1>4, <1>5, <1>6, <1>7, NextForms DEF vars, Hidden, QueueMoves

LEMMA KnowsHandles ==
    ASSUME ShapeInv, NEW c \in Instances, NEW h \in Knows(c)
    PROVE  h \in Handles
BY HandleOf DEF Knows, ShapeInv

(* A receive makes its handle: nobody knew it.                             *)
LEMMA FreshHandle ==
    ASSUME ShapeInv, HandlesInv, NEW m \in Messages, NEW c \in Instances,
           NEW h \in Knows(c), h = [message |-> m, receipt |-> box[m].receives + 1]
    PROVE  FALSE
<1>1. h.receipt <= box[h.message].receives /\ h.message = m /\ h.receipt = box[m].receives + 1
  BY DEF HandlesInv
<1>2. box[m].receives \in Nat
  BY DEF ShapeInv, BoxType
<1> QED
  BY <1>1, <1>2

LEMMA HandlesStep == ShapeInv /\ HandlesInv /\ [Next]_vars => HandlesInv'
<1> SUFFICES ASSUME ShapeInv, HandlesInv, [Next]_vars PROVE HandlesInv'
  OBVIOUS
<1>1. ASSUME NEW c \in Instances, NEW h \in Knows(c)' PROVE h.receipt <= box'[h.message].receives
  <2>1. CASE h \in Knows(c)
    <3>1. h \in Handles /\ h.message \in Messages /\ h.receipt \in Nat
      BY <2>1, KnowsHandles DEF Handles
    <3>2. h.receipt <= box[h.message].receives
      BY <2>1 DEF HandlesInv
    <3> QED
      BY <3>1, <3>2, BoxForms
  <2>2. ASSUME NEW m \in Messages, Receives(c, m),
               h = [message |-> m, receipt |-> box[m].receives + 1]
        PROVE  h.receipt <= box'[h.message].receives
    <3>1. box'[m].receives = box[m].receives + 1 /\ box[m].receives \in Nat
      BY <2>2, BoxForms DEF Receives, Taken
    <3> QED
      BY <2>2, <3>1
  <2> QED
    BY <2>1, <2>2, KnowsForms
<1>2. ASSUME NEW c \in Instances, NEW b \in Instances, c # b,
             NEW h \in Knows(c)', h \in Knows(b)'
      PROVE  FALSE
  <2>1. ASSUME NEW a \in Instances, NEW e \in Instances, NEW m \in Messages,
               Receives(a, m), h \in Knows(e), h = [message |-> m, receipt |-> box[m].receives + 1]
        PROVE  FALSE
    BY <2>1, FreshHandle
  <2>2. ASSUME NEW m \in Messages, NEW n \in Messages, Receives(c, m), Receives(b, n) PROVE FALSE
    <3>1. work' = [work EXCEPT ![c] = @ \cup
                     {[message |-> m, receipt |-> box[m].receives + 1, stage |-> "dispatch"]}]
      BY <2>2 DEF Receives
    <3>2. work' = [work EXCEPT ![b] = @ \cup
                     {[message |-> n, receipt |-> box[n].receives + 1, stage |-> "dispatch"]}]
      BY <2>2 DEF Receives
    <3>3. [message |-> m, receipt |-> box[m].receives + 1, stage |-> "dispatch"] \in work[c]
      BY <1>2, <3>1, <3>2 DEF ShapeInv
    <3>4. handle([message |-> m, receipt |-> box[m].receives + 1, stage |-> "dispatch"])
            = [message |-> m, receipt |-> box[m].receives + 1]
      BY DEF handle
    <3>5. [message |-> m, receipt |-> box[m].receives + 1] \in Knows(c)
      BY <3>3, <3>4 DEF Knows
    <3> QED
      BY <3>5, FreshHandle
  <2>3. h \in Knows(c) /\ h \in Knows(b) => FALSE
    BY <1>2 DEF HandlesInv
  <2> QED
    BY <1>2, <2>1, <2>2, <2>3, KnowsForms
<1>3. ASSUME NEW c \in Instances, NEW d \in work'[c], NEW e \in work'[c], handle(d) = handle(e)
      PROVE  d = e
  <2>0. work \in [Instances -> SUBSET Deliveries]
    BY DEF ShapeInv
  <2>1. ASSUME NEW b \in Instances, NEW m \in Messages, Receives(b, m) PROVE d = e
    <3> DEFINE new == [message |-> m, receipt |-> box[m].receives + 1, stage |-> "dispatch"]
    <3>1. work' = [work EXCEPT ![b] = @ \cup {new}]
      BY <2>1 DEF Receives
    <3>2. handle(new) = [message |-> m, receipt |-> box[m].receives + 1]
      BY DEF handle
    <3> HIDE DEF new
    <3>3. \A f \in work'[c] : f \in work[c] \/ (b = c /\ f = new)
      BY <2>0, <3>1
    <3>4. \A f \in work[c] : handle(f) # handle(new)
      BY <3>2, FreshHandle DEF Knows
    <3> QED
      BY <1>3, <3>3, <3>4 DEF HandlesInv
  <2>2. ASSUME NEW b \in Instances, NEW f \in work[b], NEW stage \in Stages, Progresses(b, f, stage)
        PROVE  d = e
    <3>0. at(b, f, stage)
      BY <2>2 DEF Progresses
    <3>1. CASE b # c
      BY <1>3, <3>0, <3>1, WorkOn DEF HandlesInv
    <3>2. CASE b = c
      <4>1. work' = [work EXCEPT ![c] = (work[c] \ {f}) \cup {[f EXCEPT !.stage = stage]}]
        BY <3>0, <3>2 DEF at
      <4>2. handle([f EXCEPT !.stage = stage]) = handle(f)
        BY <2>0, <2>2 DEF handle, Deliveries
      <4> DEFINE new == [f EXCEPT !.stage = stage]
      <4>3. handle(new) = handle(f) /\ \A g \in work'[c] : (g \in work[c] /\ g # f) \/ g = new
        BY <2>0, <4>1, <4>2
      <4> HIDE DEF new
      <4> QED
        BY <1>3, <2>2, <3>2, <4>3 DEF HandlesInv
    <3> QED
      BY <3>1, <3>2
  <2>3. work'[c] \subseteq work[c] => d = e
    BY <1>3 DEF HandlesInv
  <2>4. ASSUME NEW b \in Instances, NEW f \in work[b], Concludes(b, f) PROVE work'[c] \subseteq work[c]
    BY <2>0, <2>4 DEF Concludes
  <2>5. ASSUME NEW b \in Instances, Crash(b) PROVE work'[c] \subseteq work[c]
    BY <2>0, <2>5 DEF Crash
  <2> QED
    BY <2>1, <2>2, <2>3, <2>4, <2>5, NextForms
       DEF vars, Hidden, PhaseMoves, Releases, QueueMoves
<1>4. /\ \A c \in Instances : \A h \in Knows(c)' : h.receipt <= box'[h.message].receives
      /\ \A c, b \in Instances : c # b => Knows(c)' \cap Knows(b)' = {}
      /\ \A c \in Instances : \A d, e \in work'[c] : handle(d) = handle(e) => d = e
  BY <1>1, <1>2, <1>3
<1> QED
  BY <1>4 DEF HandlesInv, handle

-----------------------------------------------------------------------------
(* Groups.                                                                 *)

(* A message belongs to one group, at one place.                           *)
LEMMA GroupOf ==
    ASSUME NEW w \in Wallets, NEW i \in 1..Len(Stream[w])
    PROVE  WalletOf(Stream[w][i]) = w /\ Stream[w][i] \in Messages
<1>1. \E v \in Wallets : \E k \in 1..Len(Stream[v]) : Stream[v][k] = Stream[w][i]
  OBVIOUS
<1>2. /\ WalletOf(Stream[w][i]) \in Wallets
      /\ \E k \in 1..Len(Stream[WalletOf(Stream[w][i])]) :
           Stream[WalletOf(Stream[w][i])][k] = Stream[w][i]
  BY <1>1 DEF WalletOf
<1>3. WalletOf(Stream[w][i]) = w
  BY <1>2, ConsumerAssumption
<1>4. Stream[w][i] \in Messages
  BY DEF Messages
<1> QED
  BY <1>3, <1>4

LEMMA GroupsStep == ShapeInv /\ HandlesInv /\ GroupsInv /\ [Next]_vars => GroupsInv'
<1> SUFFICES ASSUME ShapeInv, HandlesInv, GroupsInv, [Next]_vars PROVE GroupsInv'
  OBVIOUS
<1>1. ASSUME NEW w \in Wallets, NEW i \in 1..Len(Stream[w]), NEW k \in 1..Len(Stream[w]),
             i < k, box'[Stream[w][k]].receives > 0
      PROVE  Gone(Stream[w][i])'
  <2>1. /\ Stream[w][i] \in Messages /\ Stream[w][k] \in Messages
        /\ WalletOf(Stream[w][k]) = w
    BY GroupOf
  <2>2. CASE box[Stream[w][k]].receives > 0
    BY <1>1, <2>1, <2>2, BoxForms DEF GroupsInv
  <2>3. CASE ~(box[Stream[w][k]].receives > 0)
    <3>1. First(Stream[w][k])
      BY <1>1, <2>1, <2>3, BoxForms
    <3>2. Gone(Stream[w][i])
      BY <1>1, <2>1, <3>1 DEF First
    <3> QED
      BY <2>1, <3>2, BoxForms
  <2> QED
    BY <2>2, <2>3
<1>2. ASSUME NEW m \in durable' \cup dead' PROVE box'[m].receives > 0
  <2>1. CASE m \in durable \cup dead
    <3>1. m \in Messages /\ box[m].receives > 0
      BY <2>1 DEF GroupsInv, ShapeInv
    <3> QED
      BY <3>1, BoxForms
  <2>2. ASSUME NEW c \in Instances, NEW d \in work[c], d.message = m PROVE box'[m].receives > 0
    <3>1. handle(d) \in Knows(c) /\ handle(d) \in Handles /\ handle(d).message = m
      BY <2>2, HandleOf DEF Knows
    <3>2. handle(d).receipt <= box[m].receives
      BY <3>1 DEF HandlesInv
    <3>3. m \in Messages /\ handle(d).receipt \in Nat /\ handle(d).receipt >= 1
      BY <3>1 DEF Handles
    <3> QED
      BY <3>2, <3>3, BoxForms
  <2> QED
    BY <2>1, <2>2, SettledForms
<1> QED
  BY <1>1, <1>2 DEF GroupsInv

LEMMA InitHandles == Init => HandlesInv /\ GroupsInv
<1> SUFFICES ASSUME Init PROVE HandlesInv /\ GroupsInv
  OBVIOUS
<1>1. \A c \in Instances : Knows(c) = {} /\ work[c] = {}
  BY DEF Init, Knows
<1>2. \A m \in Messages : box[m].receives = 0
  BY DEF Init, newMessage
<1>3. HandlesInv
  BY <1>1 DEF HandlesInv
<1>4. GroupsInv
  BY <1>2, GroupOf DEF GroupsInv, Init
<1> QED
  BY <1>3, <1>4

(* The operations of a wallet take effect in the order of its messages     *)
(* (the group of the FIFO queue, Handle and remove of consumer.go), unless *)
(* the redrive policy of the queue sets one aside.                         *)
THEOREM WalletsSettleInOrder == Spec => []SettledInOrder
<1>1. Init => StagesInv
  BY DEF Init, StagesInv, NothingLost, newMessage
<1>2. StagesInv /\ GroupsInv => SettledInOrder
  <2> SUFFICES ASSUME StagesInv, GroupsInv,
                      NEW w \in Wallets, NEW i \in 1..Len(Stream[w]), NEW k \in 1..Len(Stream[w]),
                      i < k, Stream[w][k] \in durable \cup dead
               PROVE  \/ Stream[w][i] \in durable \cup dead
                      \/ box[Stream[w][i]].state = "redriven"
    BY DEF SettledInOrder
  <2>1. Gone(Stream[w][i])
    BY DEF GroupsInv
  <2>2. Stream[w][i] \in Messages
    BY GroupOf
  <2> QED
    BY <2>1, <2>2 DEF Gone, StagesInv, NothingLost
<1> QED
  BY <1>1, <1>2, InitShape, InitHandles, ShapeStep, StagesStep, HandlesStep, GroupsStep, PTL DEF Spec

-----------------------------------------------------------------------------
(* Who answers for a message.                                              *)

(* Who answers for the handle of a delivery, and lets go of it, answers    *)
(* for nothing of it afterwards.                                           *)
LEMMA LetsGoOf ==
    ASSUME ShapeInv, AnswersInv, NEW c \in Instances, NEW h \in Handles, LetsGo(h)
    PROVE  ~Answers(c, h)'
<1>0. c # NoOne /\ h.message \in Messages
  BY ConsumerAssumption DEF Handles
<1>1. CASE box'[h.message].by = NoOne
  BY <1>0, <1>1 DEF Answers
<1>2. CASE ~Held(h) /\ Same(h.message)
  <2>1. SUFFICES ASSUME box[h.message].by = c, box[h.message].receives = h.receipt PROVE FALSE
    BY <1>2 DEF Answers, Same
  <2>2. box[h.message].state = "hidden"
    BY <1>0, <2>1 DEF AnswersInv
  <2> QED
    BY <1>2, <2>1, <2>2 DEF Held, Newest, Gone
<1> QED
  BY <1>1, <1>2 DEF LetsGo

(* An instance comes to answer for a message only by receiving it.         *)
LEMMA AnswersForms ==
    ASSUME ShapeInv, [Next]_vars, NEW c \in Instances, NEW m \in Messages, box'[m].by = c
    PROVE  Same(m) \/ SetAside(m) \/ Receives(c, m)
<1>0. c # NoOne
  BY ConsumerAssumption
<1>1. ~Freed(m) /\ ~Deleted(m) /\ ~Taken(m, NoOne)
  BY <1>0 DEF Freed, Deleted, Taken
<1>2. ASSUME NEW b \in Instances, NEW n \in Messages, Receives(b, n) PROVE Same(m) \/ Receives(c, m)
  <2>1. CASE n # m
    BY <1>2, <2>1 DEF Receives, Others
  <2>2. CASE n = m
    <3>1. box'[m].by = b
      BY <1>2, <2>2 DEF Receives, Taken
    <3> QED
      BY <1>2, <2>2, <3>1
  <2> QED
    BY <2>1, <2>2
<1>3. ASSUME NEW n \in Messages, Hidden(n) PROVE Same(m)
  BY <1>1, <1>3 DEF Hidden, Others
<1>4. ASSUME NEW b \in Instances, NEW d \in work[b], Concludes(b, d) PROVE Same(m)
  <2>1. handle(d).message \in Messages
    BY HandleOf DEF Handles
  <2> QED
    BY <1>1, <1>4, <2>1 DEF Concludes, GivesUp, TakesOut, Others
<1>5. ASSUME NEW b \in Instances, NEW h \in unfinished[b], Releases(b, h) PROVE Same(m)
  BY <1>1, <1>5 DEF Releases, GivesUp, Others
<1>6. ASSUME NEW b \in Instances, Crash(b) PROVE Same(m)
  BY <1>0, <1>6, CrashForm
<1>7. ASSUME NEW n \in Messages, QueueMoves(n) PROVE Same(m) \/ SetAside(m)
  BY <1>1, <1>7 DEF QueueMoves, Others
<1>8. UNCHANGED box => Same(m)
  BY DEF Same
<1> QED
  BY <1>2, <1>3, <1>4, <1>5, <1>6, <1>7, <1>8, NextForms DEF vars, Progresses, PhaseMoves

(* Nobody comes to answer for an old handle.                               *)
LEMMA AnsweredBefore ==
    ASSUME ShapeInv, AnswersInv, [Next]_vars, NEW c \in Instances, NEW h \in Handles, Answers(c, h)'
    PROVE  Answers(c, h) \/ Receives(c, h.message)
<1>0. h.message \in Messages /\ box'[h.message].by = c /\ box'[h.message].receives = h.receipt
      /\ c # NoOne
  BY ConsumerAssumption DEF Handles, Answers
<1>1. CASE Same(h.message)
  BY <1>0, <1>1 DEF Same, Answers
<1>2. CASE SetAside(h.message)
  <2>1. box[h.message].by = c /\ box[h.message].state = "visible"
    BY <1>0, <1>2 DEF SetAside
  <2> QED
    BY <1>0, <2>1 DEF AnswersInv
<1> QED
  BY <1>0, <1>1, <1>2, AnswersForms

(* Who answers for a message is at work on it, or Stop has it on its list. *)
LEMMA AnswersPart2 ==
    ASSUME ShapeInv, HandlesInv, AnswersInv, [Next]_vars,
           NEW c \in Instances, NEW m \in Messages, box'[m].by = c, NEW h, h = Newer(m)'
    PROVE  \/ \E d \in work'[c] : handle(d) = h
           \/ Releasing(c)' /\ h \in unfinished'[c]
<1>0. /\ work \in [Instances -> SUBSET Deliveries] /\ phase \in [Instances -> Phases]
      /\ unfinished \in [Instances -> SUBSET Handles]
      /\ h = [message |-> m, receipt |-> box'[m].receives]
      /\ h.message = m /\ Answers(c, h)'
  BY DEF ShapeInv, Newer, Answers
<1>1. CASE Receives(c, m)
  <2> DEFINE new == [message |-> m, receipt |-> box[m].receives + 1, stage |-> "dispatch"]
  <2>1. new \in work'[c]
    BY <1>0, <1>1 DEF Receives
  <2>2. handle(new) = h
    BY <1>0, <1>1 DEF handle, Receives, Taken
  <2> QED
    BY <2>1, <2>2
<1>2. CASE ~Receives(c, m)
  <2>1. Same(m)
    <3>1. SetAside(m) => FALSE
      <4>1. c # NoOne
        BY ConsumerAssumption
      <4> QED
        BY <4>1 DEF SetAside, AnswersInv
    <3> QED
      BY <1>2, <3>1, AnswersForms
  <2>2. h = Newer(m) /\ box[m].by = c /\ Answers(c, h)
    BY <1>0, <2>1 DEF Same, Newer, Answers
  <2>3. (\E d \in work[c] : handle(d) = h) \/ (Releasing(c) /\ h \in unfinished[c])
    BY <2>2 DEF AnswersInv
  <2>4. ASSUME NEW b \in Instances, Crash(b)
        PROVE  b # c /\ work'[c] = work[c] /\ phase'[c] = phase[c] /\ unfinished'[c] = unfinished[c]
    <3>1. b # c
      BY <2>4, CrashForm
    <3> QED
      BY <1>0, <2>4, <3>1 DEF Crash
  <2>5. ASSUME NEW d \in work[c], handle(d) = h
        PROVE  \/ \E e \in work'[c] : handle(e) = h
               \/ Releasing(c)' /\ h \in unfinished'[c]
    <3>1. ASSUME NEW b \in Instances, NEW f \in work[b], NEW stage \in Stages, Progresses(b, f, stage)
          PROVE  \E e \in work'[c] : handle(e) = h
      BY <2>5, <3>1, WorkOn DEF Progresses
    <3>2. ASSUME NEW b \in Instances, NEW f \in work[b], Concludes(b, f)
          PROVE  d \in work'[c] \/ (Releasing(c)' /\ h \in unfinished'[c])
      <4>1. CASE b = c /\ f = d
        <5>1. h \in Handles
          BY <2>5, HandleOf
        <5>2. ~LetsGo(h)
          BY <1>0, <5>1, LetsGoOf
        <5>3. UNCHANGED <<box, phase, unfinished>> /\ phase[c] = "aborted" /\ d.stage # "dispatch"
          BY <2>5, <3>2, <4>1, <5>2 DEF Concludes
        <5>4. Releasing(c) /\ Releasing(c)'
          BY <5>3 DEF Releasing
        <5>5. h \in unfinished[c]
          BY <2>2, <2>5, <5>3, <5>4 DEF AnswersInv
        <5> QED
          BY <5>3, <5>4, <5>5
      <4>2. CASE ~(b = c /\ f = d)
        BY <1>0, <3>2, <4>2 DEF Concludes
      <4> QED
        BY <4>1, <4>2
    <3>3. ASSUME NEW b \in Instances, NEW n \in Messages, Receives(b, n) PROVE d \in work'[c]
      BY <1>0, <3>3 DEF Receives
    <3>4. UNCHANGED work => d \in work'[c]
      OBVIOUS
    <3> QED
      BY <2>4, <2>5, <3>1, <3>2, <3>3, <3>4, NextForms
         DEF vars, Hidden, PhaseMoves, Releases, QueueMoves
  <2>6. ASSUME Releasing(c), h \in unfinished[c]
        PROVE  Releasing(c)' /\ h \in unfinished'[c]
    <3>0. phase[c] \in {"releasing", "aborted"}
      BY <2>6 DEF Releasing
    <3>1. ASSUME NEW b \in Instances, PhaseMoves(b) PROVE Releasing(c)' /\ h \in unfinished'[c]
      BY <1>0, <2>6, <3>0, <3>1 DEF PhaseMoves, Releasing
    <3>2. ASSUME NEW b \in Instances, NEW g \in unfinished[b], Releases(b, g)
          PROVE  Releasing(c)' /\ h \in unfinished'[c]
      <4>1. phase' = phase /\ g \in Handles /\ LetsGo(g) /\ unfinished' = [unfinished EXCEPT ![b] = @ \ {g}]
        BY <1>0, <3>2 DEF Releases
      <4>2. ~(b = c /\ g = h)
        BY <1>0, <4>1, LetsGoOf
      <4> QED
        BY <1>0, <2>6, <4>1, <4>2 DEF Releasing
    <3>3. ASSUME NEW n \in Messages, Hidden(n) PROVE Releasing(c)' /\ h \in unfinished'[c]
      BY <1>0, <2>6, <3>0, <3>3 DEF Hidden, Releasing
    <3>4. phase'[c] = phase[c] /\ unfinished'[c] = unfinished[c] => Releasing(c)' /\ h \in unfinished'[c]
      BY <2>6 DEF Releasing
    <3> QED
      BY <2>4, <3>1, <3>2, <3>3, <3>4, NextForms
         DEF vars, Receives, Progresses, Concludes, QueueMoves
  <2> QED
    BY <2>3, <2>5, <2>6
<1> QED
  BY <1>1, <1>2

(* A goroutine past dispatch is in the map, or was when Stop copied it.    *)
Listed(c, h) ==
    IF Releasing(c) THEN Answers(c, h) => h \in unfinished[c] ELSE h \in inFlight[c]

LEMMA AnswersPart3 ==
    ASSUME ShapeInv, HandlesInv, AnswersInv, [Next]_vars,
           NEW c \in Instances, NEW d \in work'[c], d.stage # "dispatch", NEW h, h = handle(d)
    PROVE  Listed(c, h)'
<1>0. /\ work \in [Instances -> SUBSET Deliveries] /\ phase \in [Instances -> Phases]
      /\ unfinished \in [Instances -> SUBSET Handles] /\ inFlight \in [Instances -> SUBSET Handles]
  BY DEF ShapeInv
<1>1. \A e \in work[c] : e.stage # "dispatch" => Listed(c, handle(e))
  BY DEF AnswersInv, Listed
<1>2. ASSUME Answers(c, h)', ~Receives(c, h.message), h \in Handles PROVE Answers(c, h)
  BY <1>2, AnsweredBefore
<1>3. ASSUME h \in Handles, UNCHANGED <<phase, inFlight, unfinished>>, Listed(c, h),
             ~Releasing(c) \/ ~Receives(c, h.message)
      PROVE  Listed(c, h)'
  <2>1. CASE Releasing(c)
    <3>1. Answers(c, h)' => Answers(c, h)
      BY <1>2, <1>3, <2>1
    <3> QED
      BY <1>3, <2>1, <3>1 DEF Listed, Releasing
  <2>2. CASE ~Releasing(c)
    BY <1>3, <2>2 DEF Listed, Releasing
  <2> QED
    BY <2>1, <2>2
<1>4. ASSUME NEW b \in Instances, NEW m \in Messages, Receives(b, m) PROVE Listed(c, h)'
  <2>1. d \in work[c]
    BY <1>0, <1>4 DEF Receives
  <2>2. h \in Handles /\ Listed(c, h)
    BY <1>1, <2>1, HandleOf
  <2>3. Receives(c, h.message) => ~Releasing(c)
    BY DEF Receives, Releasing
  <2> QED
    BY <1>3, <1>4, <2>2, <2>3 DEF Receives
<1>5. ASSUME NEW b \in Instances, NEW f \in work[b], NEW stage \in Stages, Progresses(b, f, stage)
      PROVE  Listed(c, h)'
  <2>0. /\ box' = box /\ phase' = phase /\ unfinished' = unfinished
        /\ inFlight' = inFlight \/ inFlight' = [inFlight EXCEPT ![b] = @ \cup {handle(f)}]
    BY <1>5 DEF Progresses
  <2>1. Answers(c, h)' => Answers(c, h)
    BY <2>0 DEF Answers
  <2>2. ASSUME Listed(c, h) PROVE Listed(c, h)'
    BY <1>0, <2>0, <2>1, <2>2 DEF Listed, Releasing
  <2>3. CASE d \in work[c]
    BY <1>1, <2>2, <2>3
  <2>4. CASE d \notin work[c]
    <3>1. b = c /\ h = handle(f)
      BY <1>5, <2>4, WorkOn DEF Progresses
    <3>2. CASE f.stage = "dispatch"
      <4>1. ~Releasing(c) /\ h \in inFlight'[c]
        BY <1>0, <1>5, <3>1, <3>2 DEF Progresses
      <4> QED
        BY <2>0, <4>1 DEF Listed, Releasing
    <3>3. CASE f.stage # "dispatch"
      BY <1>1, <2>2, <3>1, <3>3
    <3> QED
      BY <3>2, <3>3
  <2> QED
    BY <2>3, <2>4
<1>6. ASSUME NEW b \in Instances, NEW f \in work[b], Concludes(b, f) PROVE Listed(c, h)'
  <2>0. phase' = phase /\ unfinished' = unfinished /\ work' = [work EXCEPT ![b] = @ \ {f}]
    BY <1>6 DEF Concludes
  <2>1. d \in work[c] /\ ~(b = c /\ d = f)
    BY <1>0, <2>0
  <2>2. h \in Handles /\ Listed(c, h)
    BY <1>1, <2>1, HandleOf
  <2>3. CASE Releasing(c)
    <3>1. ~Receives(c, h.message)
      BY <2>3 DEF Receives, Releasing
    <3>2. Answers(c, h)' => Answers(c, h)
      BY <1>2, <2>2, <3>1
    <3> QED
      BY <2>0, <2>2, <2>3, <3>2 DEF Listed, Releasing
  <2>4. CASE ~Releasing(c)
    <3>1. b = c => h # handle(f)
      BY <1>6, <2>1 DEF HandlesInv
    <3>2. h \in inFlight'[c]
      BY <1>0, <1>6, <2>2, <2>4, <3>1 DEF Listed, Concludes
    <3> QED
      BY <2>0, <2>4, <3>2 DEF Listed, Releasing
  <2> QED
    BY <2>3, <2>4
<1>7. ASSUME NEW b \in Instances, PhaseMoves(b) PROVE Listed(c, h)'
  <2>0. d \in work[c] /\ work' = work /\ box' = box
    BY <1>7 DEF PhaseMoves
  <2>1. Listed(c, h) /\ (Answers(c, h)' => Answers(c, h))
    BY <1>1, <2>0 DEF Answers
  <2>2. CASE b # c
    <3>1. phase'[c] = phase[c] /\ inFlight'[c] = inFlight[c] /\ unfinished'[c] = unfinished[c]
      BY <1>0, <1>7, <2>2 DEF PhaseMoves
    <3> QED
      BY <2>1, <3>1 DEF Listed, Releasing
  <2>3. CASE b = c
    <3>1. \/ /\ phase[c] \in {"starting", "stopped", "running", "failed"}
             /\ phase'[c] \notin {"releasing", "aborted"} /\ inFlight'[c] = inFlight[c]
          \/ phase[c] = "draining" /\ phase'[c] = "releasing" /\ unfinished'[c] = inFlight[c]
          \/ phase[c] = "releasing" /\ phase'[c] = "aborted" /\ unfinished'[c] = unfinished[c]
      BY <1>0, <1>7, <2>0, <2>3 DEF PhaseMoves
    <3> QED
      BY <2>1, <3>1 DEF Listed, Releasing
  <2> QED
    BY <2>2, <2>3
<1>8. ASSUME NEW b \in Instances, NEW g \in unfinished[b], Releases(b, g) PROVE Listed(c, h)'
  <2>0. /\ d \in work[c] /\ phase' = phase /\ inFlight' = inFlight /\ LetsGo(g) /\ g \in Handles
        /\ unfinished' = [unfinished EXCEPT ![b] = @ \ {g}] /\ phase[b] = "aborted"
    BY <1>0, <1>8 DEF Releases
  <2>1. h \in Handles /\ Listed(c, h)
    BY <1>1, <2>0, HandleOf
  <2>2. CASE Releasing(c)
    <3>1. ~Receives(c, h.message)
      BY <2>2 DEF Receives, Releasing
    <3>2. Answers(c, h)' => Answers(c, h) /\ h # g
      BY <1>2, <2>0, <2>1, <3>1, LetsGoOf
    <3> QED
      BY <1>0, <2>0, <2>1, <2>2, <3>2 DEF Listed, Releasing
  <2>3. CASE ~Releasing(c)
    BY <2>0, <2>1, <2>3 DEF Listed, Releasing
  <2> QED
    BY <2>2, <2>3
<1>9. ASSUME NEW b \in Instances, Crash(b) PROVE Listed(c, h)'
  <2>1. b # c
    BY <1>0, <1>9 DEF Crash
  <2>2. /\ d \in work[c] /\ phase'[c] = phase[c] /\ inFlight'[c] = inFlight[c]
        /\ unfinished'[c] = unfinished[c]
    BY <1>0, <1>9, <2>1 DEF Crash
  <2>3. h \in Handles /\ Listed(c, h)
    BY <1>1, <2>2, HandleOf
  <2>4. CASE Releasing(c)
    <3>1. ~Receives(c, h.message)
      BY <2>4 DEF Receives, Releasing
    <3>2. Answers(c, h)' => Answers(c, h)
      BY <1>2, <2>3, <3>1
    <3> QED
      BY <2>2, <2>3, <2>4, <3>2 DEF Listed, Releasing
  <2>5. CASE ~Releasing(c)
    BY <2>2, <2>3, <2>5 DEF Listed, Releasing
  <2> QED
    BY <2>4, <2>5
<1>10. ASSUME NEW m \in Messages, Hidden(m) PROVE Listed(c, h)'
  <2>0. /\ d \in work[c] /\ inFlight' = inFlight /\ unfinished' = unfinished
        /\ Releasing(c)' = Releasing(c)
    BY <1>0, <1>10 DEF Hidden, Releasing
  <2>1. h \in Handles /\ Listed(c, h)
    BY <1>1, <2>0, HandleOf
  <2>2. ~Receives(c, h.message) \/ ~Releasing(c)
    BY DEF Receives, Releasing
  <2>3. Releasing(c) => (Answers(c, h)' => Answers(c, h))
    BY <1>2, <2>1, <2>2
  <2> QED
    BY <2>0, <2>1, <2>3 DEF Listed
<1>11. ASSUME UNCHANGED <<phase, inFlight, unfinished, work>> PROVE Listed(c, h)'
  <2>1. h \in Handles /\ Listed(c, h)
    BY <1>1, <1>11, HandleOf
  <2>2. Receives(c, h.message) => ~Releasing(c)
    BY DEF Receives, Releasing
  <2> QED
    BY <1>3, <1>11, <2>1, <2>2
<1> QED
  BY <1>4, <1>5, <1>6, <1>7, <1>8, <1>9, <1>10, <1>11, NextForms DEF vars, QueueMoves

LEMMA AnswersStep == ShapeInv /\ HandlesInv /\ AnswersInv /\ [Next]_vars => AnswersInv'
<1> SUFFICES ASSUME ShapeInv, HandlesInv, AnswersInv, [Next]_vars PROVE AnswersInv'
  OBVIOUS
<1>0. /\ work \in [Instances -> SUBSET Deliveries] /\ phase \in [Instances -> Phases]
      /\ box' \in [Messages -> BoxType]
  BY ShapeStep DEF ShapeInv
<1>1. ASSUME NEW m \in Messages, box'[m].by # NoOne PROVE box'[m].state = "hidden"
  <2>1. box'[m].by \in Instances
    BY <1>0, <1>1 DEF BoxType
  <2>2. CASE Same(m) \/ SetAside(m)
    BY <1>1, <2>2 DEF Same, SetAside, AnswersInv
  <2>3. ASSUME NEW c \in Instances, Receives(c, m) PROVE box'[m].state = "hidden"
    BY <2>3 DEF Receives, Taken
  <2> QED
    BY <2>1, <2>2, <2>3, AnswersForms
<1>2. ASSUME NEW c \in Instances, NEW m \in Messages, box'[m].by = c
      PROVE  (\E d \in work[c] : handle(d) = Newer(m))' \/ (Releasing(c) /\ Newer(m) \in unfinished[c])'
  BY <1>2, AnswersPart2 DEF handle
<1>3. ASSUME NEW c \in Instances, NEW d \in work'[c], d.stage # "dispatch"
      PROVE  Listed(c, handle(d))'
  BY <1>3, AnswersPart3 DEF handle
<1>4. ASSUME NEW c \in Instances, phase'[c] = "stopped" PROVE work'[c] = {}
  <2>1. \A b \in Instances : phase[b] = "stopped" => work[b] = {}
    BY DEF AnswersInv
  <2>2. ASSUME NEW b \in Instances, PhaseMoves(b) PROVE work'[c] = {}
    BY <1>0, <1>4, <2>1, <2>2 DEF PhaseMoves
  <2>3. ASSUME NEW b \in Instances, NEW m \in Messages, Receives(b, m) PROVE work'[c] = {}
    BY <1>0, <1>4, <2>1, <2>3 DEF Receives
  <2>4. ASSUME NEW b \in Instances, NEW d \in work[b], NEW stage \in Stages, Progresses(b, d, stage)
        PROVE  work'[c] = {}
    <3>1. phase' = phase /\ b # c
      BY <1>4, <2>1, <2>4 DEF Progresses
    <3> QED
      BY <1>0, <1>4, <2>1, <2>4, <3>1, WorkOn DEF Progresses
  <2>5. ASSUME NEW b \in Instances, NEW d \in work[b], Concludes(b, d) PROVE work'[c] = {}
    BY <1>0, <1>4, <2>1, <2>5 DEF Concludes
  <2>6. ASSUME NEW b \in Instances, Crash(b) PROVE work'[c] = {}
    BY <1>0, <1>4, <2>1, <2>6 DEF Crash
  <2>7. ASSUME NEW m \in Messages, Hidden(m) PROVE work'[c] = {}
    BY <1>0, <1>4, <2>1, <2>7 DEF Hidden
  <2>8. UNCHANGED <<phase, work>> => work'[c] = {}
    BY <1>4, <2>1
  <2> QED
    BY <2>2, <2>3, <2>4, <2>5, <2>6, <2>7, <2>8, NextForms DEF vars, Releases, QueueMoves
<1> QED
  BY <1>1, <1>2, <1>3, <1>4 DEF AnswersInv, Listed


(* An instance that stopped without a failure answers for no message (Stop *)
(* and releaseUnfinished of consumer.go, and the release of dispatch).     *)
THEOREM StoppedInstancesHoldNothing == Spec => []StoppedHoldsNothing
<1>1. Init => AnswersInv
  <2> SUFFICES ASSUME Init PROVE AnswersInv
    OBVIOUS
  <2>1. \A m \in Messages : box[m].by = NoOne
    BY DEF Init, newMessage
  <2>2. NoOne \notin Instances
    BY ConsumerAssumption
  <2>3. \A c \in Instances : work[c] = {} /\ phase[c] = "starting"
    BY DEF Init
  <2> QED
    BY <2>1, <2>2, <2>3 DEF AnswersInv
<1>2. AnswersInv => StoppedHoldsNothing
  BY DEF AnswersInv, StoppedHoldsNothing, Releasing
<1> QED
  BY <1>1, <1>2, InitShape, InitHandles, ShapeStep, HandlesStep, AnswersStep, PTL DEF Spec

-----------------------------------------------------------------------------
(* Who works on a message.                                                 *)

LEMMA WithoutFault ==
    ASSUME ShapeInv, [Next]_vars, faults' = 0
    PROVE  faults = 0 /\ ~Fault
<1>0. faults \in Nat
  BY ConsumerAssumption DEF ShapeInv
<1>1. Fault => faults' # 0
  BY <1>0 DEF Fault
<1>2. UNCHANGED faults \/ Fault
  BY NextForms
     DEF vars, Receives, Hidden, Progresses, Concludes, PhaseMoves, Releases, Crash, QueueMoves
<1> QED
  BY <1>1, <1>2

(* While nothing fails, a message somebody works on changes only by what   *)
(* its own goroutine does to it.                                           *)
LEMMA WorkedOn ==
    ASSUME ShapeInv, HandlesInv, AnswersInv, WorkersInv, [Next]_vars, faults' = 0,
           NEW c \in Instances, phase[c] # "aborted", NEW d \in work[c]
    PROVE  \/ Same(d.message)
           \/ Concludes(c, d)
<1> DEFINE h == handle(d)
           m == d.message
<1>0. m \in Messages /\ h \in Handles /\ h.message = m /\ c # NoOne
  BY HandleOf, ConsumerAssumption DEF Deliveries
<1>1. Answers(c, h) /\ faults = 0 /\ ~Fault
  BY WithoutFault DEF WorkersInv
<1>2. box[m].by = c /\ box[m].state = "hidden"
  BY <1>0, <1>1 DEF Answers, AnswersInv
<1>3. ASSUME NEW g \in Handles, Held(g) \/ Newest(g), g.message = m PROVE g = h
  BY <1>0, <1>1, <1>3 DEF Held, Newest, Answers, Handles
<1>4. ASSUME NEW n \in Messages, NEW by, Taken(n, by), Others(n) PROVE Same(m)
  BY <1>0, <1>2, <1>4 DEF Taken, Others
<1>5. ASSUME NEW b \in Instances, NEW f \in work[b], Concludes(b, f)
      PROVE  Same(m) \/ Concludes(c, d)
  <2>0. handle(f) \in Handles /\ handle(f).message \in Messages
    BY HandleOf DEF Handles
  <2>1. \/ Same(m)
        \/ handle(f).message = m /\ (Held(handle(f)) \/ Newest(handle(f)))
    BY <1>0, <1>5, <2>0 DEF Concludes, GivesUp, TakesOut, Others
  <2>2. ASSUME handle(f) = h PROVE Concludes(c, d)
    <3>1. h \in Knows(b) /\ h \in Knows(c)
      BY <2>2 DEF Knows
    <3>2. b = c
      BY <3>1 DEF HandlesInv
    <3>3. f = d
      BY <2>2, <3>2 DEF HandlesInv
    <3> QED
      BY <1>5, <3>2, <3>3
  <2> QED
    BY <1>3, <2>0, <2>1, <2>2
<1>6. ASSUME NEW b \in Instances, NEW g \in unfinished[b], Releases(b, g) PROVE Same(m)
  <2>0. g \in Handles /\ g.message \in Messages /\ phase[b] = "aborted"
    BY <1>6 DEF ShapeInv, Releases, Handles
  <2>1. Same(m) \/ (g.message = m /\ Held(g))
    BY <1>0, <1>6, <2>0 DEF Releases, GivesUp, Others
  <2>2. g = h => FALSE
    <3>1. g \in Knows(b) /\ h \in Knows(c) /\ b # c
      BY <2>0 DEF Knows
    <3> QED
      BY <3>1 DEF HandlesInv
  <2> QED
    BY <1>3, <2>0, <2>1, <2>2
<1>7. ASSUME NEW n \in Messages, QueueMoves(n) PROVE Same(m)
  <2>1. CASE n # m
    BY <1>0, <1>7, <2>1 DEF QueueMoves, Others
  <2>2. CASE n = m
    BY <1>0, <1>1, <1>2, <1>7, <2>2 DEF QueueMoves, SetAside
  <2> QED
    BY <2>1, <2>2
<1>8. UNCHANGED box => Same(m)
  BY DEF Same
<1>9. ASSUME NEW b \in Instances, Crash(b) PROVE FALSE
  BY <1>1, <1>9 DEF Crash
<1> QED
  BY <1>4, <1>5, <1>6, <1>7, <1>8, <1>9, NextForms
     DEF vars, Receives, Hidden, Progresses, PhaseMoves


LEMMA WorkersStep ==
    ShapeInv /\ HandlesInv /\ AnswersInv /\ WorkersInv /\ [Next]_vars => WorkersInv'
<1> SUFFICES ASSUME ShapeInv, HandlesInv, AnswersInv, WorkersInv, [Next]_vars, faults' = 0,
                    NEW c \in Instances, phase'[c] # "aborted", NEW e \in work'[c]
             PROVE  box'[e.message].by = c /\ box'[e.message].receives = e.receipt
  BY DEF WorkersInv, Answers, handle
<1>0. work \in [Instances -> SUBSET Deliveries] /\ phase \in [Instances -> Phases] /\ ~Fault
  BY WithoutFault DEF ShapeInv
<1>1. ASSUME NEW d \in work[c], phase[c] # "aborted", Same(d.message), handle(e) = handle(d)
      PROVE  box'[e.message].by = c /\ box'[e.message].receives = e.receipt
  <2>1. Answers(c, handle(d))
    BY <1>1, WithoutFault DEF WorkersInv
  <2>2. e.message = d.message /\ e.receipt = d.receipt
    BY <1>1 DEF handle
  <2> QED
    BY <1>1, <2>1, <2>2 DEF Answers, handle, Same
<1>2. ASSUME e \in work[c], phase[c] # "aborted", ~Concludes(c, e)
      PROVE  box'[e.message].by = c /\ box'[e.message].receives = e.receipt
  BY <1>1, <1>2, WorkedOn
<1>3. ASSUME NEW b \in Instances, NEW n \in Messages, Receives(b, n)
      PROVE  box'[e.message].by = c /\ box'[e.message].receives = e.receipt
  <2> DEFINE new == [message |-> n, receipt |-> box[n].receives + 1, stage |-> "dispatch"]
  <2>0. phase' = phase /\ work' = [work EXCEPT ![b] = @ \cup {new}] /\ Taken(n, b)
    BY <1>3 DEF Receives
  <2>1. CASE e \in work[c]
    <3>1. Same(e.message) \/ Concludes(c, e)
      BY <1>0, <2>0, <2>1, WorkedOn
    <3>2. ~Concludes(c, e)
      <4>1. SUFFICES ASSUME Concludes(c, e) PROVE FALSE
        OBVIOUS
      <4>2. e \notin work'[c]
        BY <1>0, <4>1 DEF Concludes
      <4> QED
        BY <4>2
    <3> QED
      BY <1>2, <2>0, <2>1, <3>2
  <2>2. CASE e \notin work[c]
    <3>1. b = c /\ e = new
      BY <1>0, <2>0, <2>2
    <3>2. e.message = n /\ e.receipt = box[n].receives + 1
      BY <3>1
    <3> QED
      BY <2>0, <3>1, <3>2 DEF Taken
  <2> QED
    BY <2>1, <2>2
<1>4. Concludes(c, e) => FALSE
  BY <1>0 DEF Concludes
<1>5. e \in work[c] /\ phase[c] # "aborted"
        => box'[e.message].by = c /\ box'[e.message].receives = e.receipt
  BY <1>2, <1>4
<1>6. ASSUME NEW b \in Instances, NEW f \in work[b], NEW stage \in Stages, Progresses(b, f, stage)
      PROVE  box'[e.message].by = c /\ box'[e.message].receives = e.receipt
  <2>0. phase' = phase /\ box' = box /\ at(b, f, stage)
    BY <1>6 DEF Progresses
  <2>1. CASE e \in work[c]
    BY <1>5, <2>0, <2>1
  <2>2. CASE e \notin work[c]
    <3>1. b = c /\ handle(e) = handle(f)
      BY <2>0, <2>2, WorkOn
    <3>2. Same(f.message)
      BY <2>0 DEF Same
    <3> QED
      BY <1>1, <2>0, <3>1, <3>2
  <2> QED
    BY <2>1, <2>2
<1>7. ASSUME NEW b \in Instances, NEW f \in work[b], Concludes(b, f)
      PROVE  e \in work[c] /\ phase[c] # "aborted"
  BY <1>0, <1>7 DEF Concludes
<1>8. ASSUME NEW b \in Instances, PhaseMoves(b) PROVE e \in work[c] /\ phase[c] # "aborted"
  BY <1>0, <1>8 DEF PhaseMoves
<1>9. ASSUME NEW n \in Messages, Hidden(n) PROVE e \in work[c] /\ phase[c] # "aborted"
  BY <1>0, <1>9 DEF Hidden
<1>10. ASSUME NEW b \in Instances, Crash(b) PROVE FALSE
  BY <1>0, <1>10 DEF Crash
<1>11. UNCHANGED <<work, phase>> => e \in work[c] /\ phase[c] # "aborted"
  OBVIOUS
<1> QED
  BY <1>3, <1>5, <1>6, <1>7, <1>8, <1>9, <1>10, <1>11, NextForms DEF vars, Releases, QueueMoves

(* While nothing fails, two handlers of one wallet overlap only if the     *)
(* shutdown of an instance has cancelled one of them (the order of abort   *)
(* and releaseUnfinished in Stop of consumer.go).                          *)
THEOREM OverlapsOnlyWhenCancelled == Spec => []OverlapOnlyCancelled
<1>1. Init => AnswersInv /\ WorkersInv
  <2> SUFFICES ASSUME Init PROVE AnswersInv /\ WorkersInv
    OBVIOUS
  <2>1. \A m \in Messages : box[m].by = NoOne
    BY DEF Init, newMessage
  <2>2. NoOne \notin Instances
    BY ConsumerAssumption
  <2>3. \A c \in Instances : work[c] = {} /\ phase[c] = "starting"
    BY DEF Init
  <2> QED
    BY <2>1, <2>2, <2>3 DEF AnswersInv, WorkersInv
<1>2. ASSUME ShapeInv, HandlesInv, AnswersInv, GroupsInv, WorkersInv PROVE OverlapOnlyCancelled
  <2> SUFFICES ASSUME faults = 0, NEW w \in Wallets, NEW c \in Instances, NEW b \in Instances,
                      phase[c] # "aborted", phase[b] # "aborted",
                      NEW d \in Handling(c, w), NEW e \in Handling(b, w)
               PROVE  c = b /\ d = e
    BY DEF OverlapOnlyCancelled
  <2>1. ASSUME NEW a \in Instances, phase[a] # "aborted", NEW f \in Handling(a, w)
        PROVE  /\ f \in work[a] /\ Answers(a, handle(f))
               /\ \E i \in 1..Len(Stream[w]) :
                    /\ Stream[w][i] = f.message
                    /\ box[f.message].receives > 0 /\ ~Gone(f.message)
    <3>0. f \in work[a] /\ WalletOf(f.message) = w
      BY <2>1 DEF Handling
    <3>1. Answers(a, handle(f))
      BY <1>2, <2>1, <3>0 DEF WorkersInv
    <3>2. f.message \in Messages /\ f.receipt \in Nat /\ f.receipt >= 1
      BY <1>2, <3>0, HandleOf DEF Deliveries
    <3>3. box[f.message].receives > 0 /\ box[f.message].state = "hidden"
      <4>1. a # NoOne
        BY ConsumerAssumption
      <4> QED
        BY <1>2, <3>1, <3>2, <4>1 DEF Answers, handle, AnswersInv
    <3>4. PICK v \in Wallets : \E i \in 1..Len(Stream[v]) : Stream[v][i] = f.message
      BY <3>2 DEF Messages
    <3>5. v = w
      BY <3>0, <3>4, GroupOf
    <3> QED
      BY <3>0, <3>1, <3>3, <3>4, <3>5 DEF Gone
  <2>2. PICK i \in 1..Len(Stream[w]) : /\ Stream[w][i] = d.message
                                       /\ box[d.message].receives > 0 /\ ~Gone(d.message)
    BY <2>1
  <2>3. PICK k \in 1..Len(Stream[w]) : /\ Stream[w][k] = e.message
                                       /\ box[e.message].receives > 0 /\ ~Gone(e.message)
    BY <2>1
  <2>4. ~(i < k) /\ ~(k < i)
    BY <1>2, <2>2, <2>3 DEF GroupsInv
  <2>5. d.message = e.message
    BY <2>2, <2>3, <2>4
  <2>6. Answers(c, handle(d)) /\ Answers(b, handle(e)) /\ d \in work[c] /\ e \in work[b]
    BY <2>1
  <2>7. c = b /\ handle(d) = handle(e)
    BY <2>5, <2>6 DEF Answers, handle
  <2> QED
    BY <1>2, <2>6, <2>7 DEF HandlesInv
<1> QED
  BY <1>1, <1>2, InitShape, InitHandles, ShapeStep, HandlesStep, AnswersStep, GroupsStep,
     WorkersStep, PTL DEF Spec

=============================================================================
