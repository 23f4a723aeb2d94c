---------------------------- MODULE OutboxProofs ----------------------------
(***************************************************************************)
(* Theorems about the publication of the outbox, for every number of       *)
(* publishers, wallets, events and faults.                                 *)
(***************************************************************************)
EXTENDS Outbox, SequenceTheorems, TLAPS

-----------------------------------------------------------------------------
(* Types.                                                                  *)

PCs == {"idle", "deliver", "sending", "mark", "reschedule"}

(* The events of a wallet are events.                                      *)
LEMMA StreamEvents ==
    ASSUME NEW w \in Wallets, NEW i \in 1..Len(Stream[w])
    PROVE  Stream[w][i] \in Events
BY OutboxAssumption DEF Events, Range

(* A sequence without one of its elements is one of the same kind.         *)
LEMMA WithoutOne ==
    ASSUME NEW S, NEW s \in Seq(S), NEW i \in 1..Len(s)
    PROVE  SubSeq(s, 1, i - 1) \o SubSeq(s, i + 1, Len(s)) \in Seq(S)
<1>1. SubSeq(s, 1, i - 1) \in Seq(S) /\ SubSeq(s, i + 1, Len(s)) \in Seq(S)
  BY SubSeqProperties
<1> QED
  BY <1>1, ConcatProperties

(* What is put off leaves due, which stays a sequence of events.           *)
LEMMA PutOffType ==
    ASSUME due \in Seq(Events), NEW e, PutOff(e)
    PROVE  due' \in Seq(Events)
<1>1. CASE e \in Range(due)
  <2> DEFINE i == CHOOSE i \in 1..Len(due) : due[i] = e
  <2>1. i \in 1..Len(due)
    BY <1>1, ElementOfSeq DEF Range
  <2> HIDE DEF i
  <2>2. due' = SubSeq(due, 1, i - 1) \o SubSeq(due, i + 1, Len(due))
    BY <1>1, Zenon DEF PutOff, i
  <2> QED
    BY <2>1, <2>2, WithoutOne
<1>2. CASE e \notin Range(due)
  BY <1>2 DEF PutOff
<1> QED
  BY <1>1, <1>2

(* One element more, anywhere, leaves a sequence of the same kind.         *)
LEMMA WithOneMore ==
    ASSUME NEW S, NEW s \in Seq(S), NEW e \in S, NEW i \in 0..Len(s)
    PROVE  SubSeq(s, 1, i) \o <<e>> \o SubSeq(s, i + 1, Len(s)) \in Seq(S)
<1>1. SubSeq(s, 1, i) \in Seq(S) /\ SubSeq(s, i + 1, Len(s)) \in Seq(S) /\ <<e>> \in Seq(S)
  BY SubSeqProperties
<1>2. SubSeq(s, 1, i) \o <<e>> \in Seq(S)
  BY <1>1, ConcatProperties
<1> QED
  BY <1>1, <1>2, ConcatProperties

(* What becomes due leaves due a sequence of events.                       *)
LEMMA EntersDueType ==
    ASSUME due \in Seq(Events), NEW e \in Events, EntersDue(e)
    PROVE  due' \in Seq(Events)
<1>1. PICK i \in 0..Len(due) : due' = SubSeq(due, 1, i) \o <<e>> \o SubSeq(due, i + 1, Len(due))
  BY DEF EntersDue
<1> QED
  BY <1>1, WithOneMore

(* A claim takes events that are due, and free unless the clock is ahead.  *)
LEMMA ClaimedEvents ==
    ASSUME due \in Seq(Events), NEW ahead \in BOOLEAN, NEW e \in Claimed(ahead)
    PROVE  e \in Events /\ Unpublished(e) /\ (~ahead => Free(e))
<1>1. PICK i \in 1..Len(due) : e = due[i] /\ IF ahead THEN Unpublished(due[i]) ELSE Free(due[i])
  BY DEF Claimed
<1> QED
  BY <1>1 DEF Free, Unpublished

(* A row that is claimed is still one.                                     *)
LEMMA ClaimedRow ==
    ASSUME NEW row \in RowType, NEW p \in Publishers
    PROVE  [row EXCEPT !.owner = p, !.leased = TRUE, !.attempts = @ + 1] \in RowType
<1>1. row.attempts + 1 \in Nat
  BY DEF RowType
<1>2. ASSUME NEW n \in Nat PROVE [row EXCEPT !.owner = p, !.leased = TRUE, !.attempts = n] \in RowType
  BY DEF RowType
<1> QED
  BY <1>1, <1>2

(* So is one whose lease ran out, was handed back, or that was published.  *)
LEMMA RowParts ==
    ASSUME NEW row \in RowType, NEW leased \in BOOLEAN, NEW published \in BOOLEAN
    PROVE  /\ [row EXCEPT !.leased = leased] \in RowType
           /\ [row EXCEPT !.owner = NoOwner, !.leased = leased] \in RowType
           /\ [row EXCEPT !.published = published, !.owner = NoOwner, !.leased = leased] \in RowType
BY DEF RowType

LEMMA RowsParts ==
    ASSUME NEW table \in [Events -> RowType], NEW e,
           NEW leased \in BOOLEAN, NEW published \in BOOLEAN
    PROVE  /\ [table EXCEPT ![e].leased = leased] \in [Events -> RowType]
           /\ [table EXCEPT ![e].owner = NoOwner, ![e].leased = leased] \in [Events -> RowType]
           /\ [table EXCEPT ![e].published = published, ![e].owner = NoOwner, ![e].leased = leased]
                \in [Events -> RowType]
<1>1. CASE e \in Events
  <2>1. /\ [table[e] EXCEPT !.leased = leased] \in RowType
        /\ [table[e] EXCEPT !.owner = NoOwner, !.leased = leased] \in RowType
        /\ [table[e] EXCEPT !.published = published, !.owner = NoOwner, !.leased = leased] \in RowType
    BY <1>1, RowParts
  <2>2. /\ [table EXCEPT ![e] = [table[e] EXCEPT !.leased = leased]] \in [Events -> RowType]
        /\ [table EXCEPT ![e] = [table[e] EXCEPT !.owner = NoOwner, !.leased = leased]] \in [Events -> RowType]
        /\ [table EXCEPT ![e] = [table[e] EXCEPT !.published = published, !.owner = NoOwner, !.leased = leased]]
              \in [Events -> RowType]
    BY <2>1
  <2> QED
    BY <1>1, <2>2
<1>2. CASE e \notin Events
  BY <1>2
<1> QED
  BY <1>1, <1>2

(* A fault is counted.                                                     *)
LEMMA FaultCounts ==
    ASSUME faults \in 0..MaxFaults, Fault
    PROVE  faults' \in 0..MaxFaults /\ faults' = faults + 1 /\ faults' # 0
BY OutboxAssumption DEF Fault

(* Every step has one of these forms.                                      *)
LEMMA NextForms ==
    ASSUME [Next]_vars
    PROVE  \/ UNCHANGED vars
           \/ \E w \in Wallets : Append1(w)
           \/ \E p \in Publishers, ahead \in BOOLEAN, heard \in BOOLEAN : Claim(p, ahead, heard)
           \/ \E p \in Publishers : \E receipt \in batch[p] : Deliver(p, receipt)
           \/ \E p \in Publishers : \/ FinishBatch(p) \/ SendSucceeds(p) \/ SendFails(p)
                                    \/ EndFails(p) \/ Crash(p)
           \/ \E p \in Publishers : MarkPublished(p) \/ MarkFailed(p)
           \/ \E p \in Publishers, e \in Events : QueueTakes(p, e) \/ QueueLoses(p, e)
           \/ \E e \in Events : LeaseExpires(e) \/ BackoffEnds(e)
BY DEF Next, PublisherStep

(* The tables, the receipts and the queue stay of their kind.              *)
LEMMA TypeStep == TypeOK /\ [Next]_vars => TypeOK'
<1> SUFFICES ASSUME TypeOK, [Next]_vars PROVE TypeOK'
  OBVIOUS
<1> USE DEF TypeOK
<1>0. NoOwner \notin Publishers /\ MaxFaults \in Nat
  BY OutboxAssumption
<1>1. CASE UNCHANGED vars
  BY <1>1 DEF vars
<1>2. ASSUME NEW w \in Wallets, Append1(w) PROVE TypeOK'
  <2>1. appended[w] + 1 \in 1..Len(Stream[w])
    BY <1>2, OutboxAssumption DEF Append1
  <2>2. Stream[w][appended[w] + 1] \in Events
    BY <2>1, StreamEvents
  <2>3. due' \in Seq(Events)
    <3>1. PICK e \in Events : e = Stream[w][appended[w] + 1]
      BY <2>2
    <3>2. CASE due' = Append(due, e)
      BY <3>2, AppendProperties
    <3>3. CASE EntersDue(e)
      BY <3>3, EntersDueType
    <3>4. due' = Append(due, e) \/ EntersDue(e)
      BY <1>2, <3>1 DEF Append1, EntersDue
    <3> QED
      BY <3>2, <3>3, <3>4
  <2> QED
    BY <1>2, <2>3 DEF Append1
<1>3. ASSUME NEW p \in Publishers, NEW ahead \in BOOLEAN, NEW heard \in BOOLEAN, Claim(p, ahead, heard)
      PROVE  TypeOK'
  <2>2. rows' \in [Events -> RowType]
    <3> SUFFICES ASSUME NEW e \in Events PROVE rows'[e] \in RowType
      BY <1>3 DEF Claim
    <3>1. CASE e \in Claimed(ahead)
      <4>1. rows'[e] = [rows[e] EXCEPT !.owner = p, !.leased = TRUE, !.attempts = @ + 1]
        BY <1>3, <3>1 DEF Claim
      <4>2. rows[e] \in RowType
        BY DEF TypeOK
      <4>3. [rows[e] EXCEPT !.owner = p, !.leased = TRUE, !.attempts = @ + 1] \in RowType
        BY <4>2, ClaimedRow
      <4> QED
        BY <4>1, <4>3
    <3>2. CASE e \notin Claimed(ahead)
      BY <1>3, <3>2 DEF Claim
    <3> QED
      BY <3>1, <3>2
  <2>3. {Receipt(e) : e \in Claimed(ahead)} \subseteq Receipts
    <3>1. \A e \in Events : Receipt(e) \in Receipts
      BY DEF Receipt, Receipts, RowType
    <3> QED
      BY <3>1, ClaimedEvents
  <2>4. pc' \in [Publishers -> PCs] /\ batch' \in [Publishers -> SUBSET Receipts]
    BY <1>3, <2>3 DEF Claim, PCs
  <2>5. faults' \in 0..MaxFaults
    BY <1>3, FaultCounts DEF Claim
  <2> QED
    BY <1>3, <2>2, <2>4, <2>5 DEF Claim, PCs
<1>4. ASSUME NEW p \in Publishers, NEW receipt \in batch[p], Deliver(p, receipt) PROVE TypeOK'
  <2>1. receipt \in Receipts /\ receipt.event \in Events
    BY DEF Receipts
  <2>2. faults' \in 0..MaxFaults
    BY <1>4, FaultCounts DEF Deliver
  <2>3. batch' \in [Publishers -> SUBSET Receipts]
    BY <1>4 DEF Deliver
  <2>4. \/ UNCHANGED <<pc, current, inflight>>
        \/ /\ pc' = [pc EXCEPT ![p] = "sending"]
           /\ current' = [current EXCEPT ![p] = {receipt}]
           /\ inflight' = inflight \cup {<<p, receipt.event>>}
    BY <1>4 DEF Deliver
  <2>5. /\ pc' \in [Publishers -> PCs] /\ current' \in [Publishers -> SUBSET Receipts]
        /\ inflight' \subseteq Publishers \X Events
    <3>1. CASE UNCHANGED <<pc, current, inflight>>
      BY <3>1 DEF PCs
    <3>2. CASE /\ pc' = [pc EXCEPT ![p] = "sending"]
               /\ current' = [current EXCEPT ![p] = {receipt}]
               /\ inflight' = inflight \cup {<<p, receipt.event>>}
      <4>1. pc' \in [Publishers -> PCs]
        BY <3>2 DEF PCs
      <4>2. current' \in [Publishers -> SUBSET Receipts]
        BY <2>1, <3>2
      <4>3. inflight' \subseteq Publishers \X Events
        BY <2>1, <3>2
      <4> QED
        BY <4>1, <4>2, <4>3
    <3> QED
      BY <2>4, <3>1, <3>2
  <2> QED
    BY <1>4, <2>2, <2>3, <2>5 DEF Deliver, PCs
<1>5. ASSUME NEW p \in Publishers, FinishBatch(p) \/ SendSucceeds(p) \/ SendFails(p) \/ EndFails(p) \/ Crash(p)
      PROVE  TypeOK'
  <2>1. faults' \in 0..MaxFaults
    BY <1>5, FaultCounts DEF FinishBatch, SendSucceeds, SendFails, EndFails, Crash
  <2> QED
    BY <1>5, <2>1 DEF FinishBatch, SendSucceeds, SendFails, EndFails, Crash, Done
<1>6. ASSUME NEW p \in Publishers, MarkPublished(p) \/ MarkFailed(p) PROVE TypeOK'
  <2>1. PICK receipt \in current[p] :
          \/ UNCHANGED <<rows, due>>
          \/ /\ due' = due
             /\ rows' = [rows EXCEPT ![receipt.event].published = TRUE,
                                     ![receipt.event].owner = NoOwner,
                                     ![receipt.event].leased = FALSE]
          \/ /\ rows' = [rows EXCEPT ![receipt.event].owner = NoOwner,
                                     ![receipt.event].leased = FALSE]
             /\ PutOff(receipt.event)
    BY <1>6 DEF MarkPublished, MarkFailed
  <2>2. rows' \in [Events -> RowType]
    <3>1. CASE UNCHANGED rows
      BY <3>1
    <3>2. CASE rows' = [rows EXCEPT ![receipt.event].published = TRUE,
                                    ![receipt.event].owner = NoOwner,
                                    ![receipt.event].leased = FALSE]
      BY <3>2, RowsParts
    <3>3. CASE rows' = [rows EXCEPT ![receipt.event].owner = NoOwner,
                                    ![receipt.event].leased = FALSE]
      BY <3>3, RowsParts
    <3> QED
      BY <2>1, <3>1, <3>2, <3>3
  <2>3. due' \in Seq(Events)
    BY <2>1, PutOffType
  <2> QED
    BY <1>6, <2>2, <2>3 DEF MarkPublished, MarkFailed, Done
<1>7. ASSUME NEW p \in Publishers, NEW e \in Events, QueueTakes(p, e) \/ QueueLoses(p, e) PROVE TypeOK'
  <2>1. faults' \in 0..MaxFaults
    BY <1>7, FaultCounts DEF QueueTakes, QueueLoses
  <2>2. queue' = queue \/ queue' = Append(queue, e)
    BY <1>7 DEF QueueTakes, QueueLoses
  <2>3. queue' \in Seq(Events)
    <3>1. queue \in Seq(Events) /\ Append(queue, e) \in Seq(Events)
      BY AppendProperties
    <3> QED
      BY <2>2, <3>1
  <2> QED
    BY <1>7, <2>1, <2>3 DEF QueueTakes, QueueLoses
<1>8. ASSUME NEW e \in Events, LeaseExpires(e) \/ BackoffEnds(e) PROVE TypeOK'
  <2>1. faults' \in 0..MaxFaults
    BY <1>8, FaultCounts DEF LeaseExpires, BackoffEnds
  <2>2. due' \in Seq(Events)
    <3>1. due' = due \/ EntersDue(e)
      BY <1>8 DEF LeaseExpires, BackoffEnds
    <3> QED
      BY <3>1, EntersDueType
  <2>3. rows' \in [Events -> RowType]
    <3>1. rows' = rows \/ rows' = [rows EXCEPT ![e].leased = FALSE]
      BY <1>8 DEF LeaseExpires, BackoffEnds
    <3>2. [rows EXCEPT ![e].leased = FALSE] \in [Events -> RowType]
      BY RowsParts
    <3> QED
      BY <3>1, <3>2
  <2> QED
    BY <1>8, <2>1, <2>2, <2>3 DEF LeaseExpires, BackoffEnds
<1> QED
  BY <1>1, <1>2, <1>3, <1>4, <1>5, <1>6, <1>7, <1>8, NextForms

(* Tables, receipts and the queue are always of their kind.                *)
THEOREM TypesHold == Spec => []TypeOK
<1>1. Init => TypeOK
  BY OutboxAssumption DEF Init, TypeOK, RowType, newRow
<1> QED
  BY <1>1, TypeStep, PTL DEF Spec

-----------------------------------------------------------------------------
(* What a step may do to a row.                                            *)

ClaimsRow(p, ahead, e) ==
    /\ e \in Claimed(ahead)
    /\ ahead => Fault
    /\ rows'[e] = [rows[e] EXCEPT !.owner = p, !.leased = TRUE, !.attempts = @ + 1]

PublishesRow(p, e) ==
    /\ pc[p] = "mark"
    /\ rows'[e] = [rows[e] EXCEPT !.published = TRUE, !.owner = NoOwner, !.leased = FALSE]

HandsRowBack(e) == rows'[e] = [rows[e] EXCEPT !.owner = NoOwner, !.leased = FALSE]

LEMMA RowForms ==
    ASSUME TypeOK, [Next]_vars, NEW e \in Events, rows'[e] # rows[e]
    PROVE  \/ \E p \in Publishers, ahead \in BOOLEAN : ClaimsRow(p, ahead, e)
           \/ \E p \in Publishers : \E receipt \in current[p] :
                /\ receipt.event = e /\ Applies(p, receipt)
                /\ PublishesRow(p, e) \/ HandsRowBack(e)
           \/ rows'[e] = [rows[e] EXCEPT !.leased = FALSE]
<1>0. rows \in [Events -> RowType] /\ current \in [Publishers -> SUBSET Receipts]
  BY DEF TypeOK
<1>1. ASSUME NEW p \in Publishers, NEW ahead \in BOOLEAN, NEW heard \in BOOLEAN, Claim(p, ahead, heard)
      PROVE  ClaimsRow(p, ahead, e)
  BY <1>1 DEF Claim, ClaimsRow
<1>2. ASSUME NEW p \in Publishers, MarkPublished(p)
      PROVE  \E receipt \in current[p] : /\ receipt.event = e /\ Applies(p, receipt)
                                         /\ PublishesRow(p, e)
  <2>1. PICK receipt \in current[p] :
          rows' = IF Applies(p, receipt)
                    THEN [rows EXCEPT ![receipt.event].published = TRUE,
                                      ![receipt.event].owner = NoOwner,
                                      ![receipt.event].leased = FALSE]
                    ELSE rows
    BY <1>2 DEF MarkPublished
  <2>2. Applies(p, receipt) /\ receipt.event = e
    BY <1>0, <2>1
  <2> QED
    BY <1>0, <1>2, <2>1, <2>2 DEF PublishesRow, MarkPublished
<1>3. ASSUME NEW p \in Publishers, MarkFailed(p)
      PROVE  \E receipt \in current[p] : receipt.event = e /\ Applies(p, receipt) /\ HandsRowBack(e)
  <2>1. PICK receipt \in current[p] :
          IF Applies(p, receipt)
            THEN rows' = [rows EXCEPT ![receipt.event].owner = NoOwner,
                                      ![receipt.event].leased = FALSE]
            ELSE UNCHANGED rows
    BY <1>3 DEF MarkFailed
  <2>2. Applies(p, receipt) /\ receipt.event = e
    BY <1>0, <2>1
  <2> QED
    BY <1>0, <2>1, <2>2 DEF HandsRowBack
<1>4. ASSUME NEW f \in Events, LeaseExpires(f) PROVE rows'[e] = [rows[e] EXCEPT !.leased = FALSE]
  BY <1>0, <1>4 DEF LeaseExpires
<1>5. CASE UNCHANGED rows
  BY <1>5
<1>6. \/ UNCHANGED rows
      \/ \E p \in Publishers, ahead \in BOOLEAN, heard \in BOOLEAN : Claim(p, ahead, heard)
      \/ \E p \in Publishers : MarkPublished(p) \/ MarkFailed(p)
      \/ \E f \in Events : LeaseExpires(f)
  BY NextForms DEF vars, Append1, Deliver, FinishBatch, SendSucceeds, SendFails, EndFails, Crash,
     QueueTakes, QueueLoses, BackoffEnds
<1> QED
  BY <1>1, <1>2, <1>3, <1>4, <1>5, <1>6

(* Who holds a valid lease keeps it until they end the publication, it     *)
(* expires, or an instance whose clock is ahead takes it (Claim,           *)
(* MarkPublished and MarkFailed of outbox_events_repository_sql.go).       *)
THEOREM LeasesHold == Spec => LeaseUndisturbed
<1>1. ASSUME TypeOK, [Next]_vars, NEW e \in Events, NEW p \in Publishers,
             rows[e].leased, rows[e].owner = p, rows'[e] # rows[e]
      PROVE  \/ rows'[e] = [rows[e] EXCEPT !.leased = FALSE]
             \/ faults' > faults /\ rows'[e].attempts = rows[e].attempts + 1
             \/ \E r \in current[p] : r.event = e /\ r.generation = rows[e].attempts
  <2>0. rows[e] \in RowType /\ due \in Seq(Events) /\ faults \in 0..MaxFaults /\ NoOwner # p
    BY <1>1, OutboxAssumption DEF TypeOK
  <2>1. ASSUME NEW q \in Publishers, NEW ahead \in BOOLEAN, ClaimsRow(q, ahead, e)
        PROVE  faults' > faults /\ rows'[e].attempts = rows[e].attempts + 1
    <3>1. ahead
      BY <1>1, <2>0, <2>1, ClaimedEvents DEF ClaimsRow, Free
    <3>2. faults' > faults
      BY <2>0, <2>1, <3>1, FaultCounts DEF ClaimsRow
    <3>3. rows'[e].attempts = rows[e].attempts + 1
      BY <2>0, <2>1 DEF ClaimsRow, RowType
    <3> QED
      BY <3>2, <3>3
  <2>2. ASSUME NEW q \in Publishers, NEW receipt \in current[q], receipt.event = e, Applies(q, receipt)
        PROVE  \E r \in current[p] : r.event = e /\ r.generation = rows[e].attempts
    BY <1>1, <2>2 DEF Applies, Matches
  <2> QED
    BY <1>1, <2>1, <2>2, RowForms
<1>2. TypeOK /\ [Next]_vars
      => [\A e \in Events, p \in Publishers :
           /\ rows[e].leased /\ rows[e].owner = p
           /\ rows'[e] # rows[e]
           => \/ rows'[e] = [rows[e] EXCEPT !.leased = FALSE]
              \/ faults' > faults /\ rows'[e].attempts = rows[e].attempts + 1
              \/ \E r \in current[p] : r.event = e /\ r.generation = rows[e].attempts]_vars
  BY <1>1
<1> QED
  BY <1>2, TypesHold, PTL DEF Spec, LeaseUndisturbed

-----------------------------------------------------------------------------
(* Nothing is marked published that the queue does not have.               *)

(* What a publisher is about to mark, the queue has.                       *)
MarksWhatWasSent ==
    \A p \in Publishers : pc[p] = "mark" =>
        \A receipt \in current[p] : receipt.event \in Range(queue)

SentInv == TypeOK /\ MarksWhatWasSent /\ PublishedWasSent

(* The queue forgets no event it took.                                     *)
LEMMA QueueGrows ==
    ASSUME TypeOK, [Next]_vars
    PROVE  Range(queue) \subseteq Range(queue')
<1>1. ASSUME NEW p, NEW e \in Events, QueueTakes(p, e) PROVE Range(queue) \subseteq Range(queue')
  <2>1. CASE queue' = Append(queue, e)
    <3>1. queue \in Seq(Events)
      BY DEF TypeOK
    <3>2. /\ DOMAIN queue' = 1..(Len(queue) + 1) /\ DOMAIN queue = 1..Len(queue)
          /\ \A i \in 1..Len(queue) : queue'[i] = queue[i]
      BY <2>1, <3>1, AppendProperties
    <3>3. DOMAIN queue \subseteq DOMAIN queue' /\ \A i \in DOMAIN queue : queue'[i] = queue[i]
      BY <3>1, <3>2, LenProperties
    <3> QED
      BY <3>3 DEF Range
  <2>2. CASE queue' = queue
    BY <2>2
  <2> QED
    BY <1>1, <2>1, <2>2 DEF QueueTakes
<1>2. queue' = queue \/ \E p \in Publishers, e \in Events : QueueTakes(p, e)
  BY NextForms DEF vars, Append1, Claim, Deliver, FinishBatch, SendSucceeds, SendFails, EndFails, Crash,
     MarkPublished, MarkFailed, QueueLoses, LeaseExpires, BackoffEnds
<1> QED
  BY <1>1, <1>2

(* A publisher gets to mark only by a send that succeeded.                 *)
LEMMA MarkForms ==
    ASSUME TypeOK, [Next]_vars, NEW p \in Publishers, pc'[p] = "mark"
    PROVE  /\ current'[p] = current[p]
           /\ pc[p] = "mark" \/ \A receipt \in current[p] : receipt.event \in Range(queue)
<1>0. /\ pc \in [Publishers -> {"idle", "deliver", "sending", "mark", "reschedule"}]
      /\ current \in [Publishers -> SUBSET Receipts]
  BY DEF TypeOK
<1>1. CASE UNCHANGED <<pc, current>>
  BY <1>1
<1>2. ASSUME NEW q \in Publishers, NEW ahead \in BOOLEAN, NEW heard \in BOOLEAN, Claim(q, ahead, heard)
      PROVE  current'[p] = current[p] /\ pc[p] = "mark"
  BY <1>0, <1>2 DEF Claim
<1>3. ASSUME NEW q \in Publishers, NEW receipt \in batch[q], Deliver(q, receipt)
      PROVE  current'[p] = current[p] /\ pc[p] = "mark"
  BY <1>0, <1>3 DEF Deliver
<1>4. ASSUME NEW q \in Publishers, FinishBatch(q) \/ SendFails(q) \/ EndFails(q) \/ Crash(q)
      PROVE  current'[p] = current[p] /\ pc[p] = "mark"
  BY <1>0, <1>4 DEF FinishBatch, SendFails, EndFails, Crash, Done
<1>5. ASSUME NEW q \in Publishers, MarkPublished(q) \/ MarkFailed(q)
      PROVE  current'[p] = current[p] /\ pc[p] = "mark"
  BY <1>0, <1>5 DEF MarkPublished, MarkFailed, Done
<1>6. ASSUME NEW q \in Publishers, SendSucceeds(q)
      PROVE  /\ current'[p] = current[p]
             /\ pc[p] = "mark" \/ \A receipt \in current[p] : receipt.event \in Range(queue)
  BY <1>0, <1>6 DEF SendSucceeds
<1>7. ASSUME NEW q \in Publishers, NEW e \in Events, QueueTakes(q, e) \/ QueueLoses(q, e)
      PROVE  UNCHANGED <<pc, current>>
  BY <1>7 DEF QueueTakes, QueueLoses
<1>8. ASSUME NEW e \in Events, LeaseExpires(e) \/ BackoffEnds(e) PROVE UNCHANGED <<pc, current>>
  BY <1>8 DEF LeaseExpires, BackoffEnds
<1>9. ASSUME NEW w \in Wallets, Append1(w) PROVE UNCHANGED <<pc, current>>
  BY <1>9 DEF Append1
<1> QED
  BY <1>1, <1>2, <1>3, <1>4, <1>5, <1>6, <1>7, <1>8, <1>9, NextForms DEF vars

LEMMA SentStep == SentInv /\ [Next]_vars => SentInv'
<1> SUFFICES ASSUME SentInv, [Next]_vars PROVE SentInv'
  OBVIOUS
<1>0. TypeOK /\ MarksWhatWasSent /\ PublishedWasSent /\ Range(queue) \subseteq Range(queue')
  BY QueueGrows DEF SentInv
<1>1. TypeOK'
  BY <1>0, TypeStep
<1>2. MarksWhatWasSent'
  <2> SUFFICES ASSUME NEW p \in Publishers, pc'[p] = "mark", NEW receipt \in current'[p]
               PROVE  receipt.event \in Range(queue')
    BY DEF MarksWhatWasSent
  <2> QED
    BY <1>0, MarkForms DEF MarksWhatWasSent
<1>3. PublishedWasSent'
  <2> SUFFICES ASSUME NEW e \in Events, rows'[e].published PROVE e \in Range(queue')
    BY DEF PublishedWasSent
  <2>0. rows[e] \in RowType
    BY <1>0 DEF TypeOK
  <2>1. CASE rows'[e] = rows[e]
    BY <1>0, <2>1 DEF PublishedWasSent
  <2>2. ASSUME NEW p \in Publishers, NEW receipt \in current[p], receipt.event = e, PublishesRow(p, e)
        PROVE  e \in Range(queue')
    BY <1>0, <2>2 DEF PublishesRow, MarksWhatWasSent
  <2>3. ASSUME \/ \E p \in Publishers, ahead \in BOOLEAN : ClaimsRow(p, ahead, e)
               \/ HandsRowBack(e)
               \/ rows'[e] = [rows[e] EXCEPT !.leased = FALSE]
        PROVE  rows[e].published
    BY <2>0, <2>3 DEF ClaimsRow, HandsRowBack, RowType
  <2> QED
    BY <1>0, <2>1, <2>2, <2>3, RowForms DEF PublishedWasSent
<1> QED
  BY <1>1, <1>2, <1>3 DEF SentInv

(* An event is marked published only if the queue took it: MarkPublished   *)
(* follows a Send that returned without error.                             *)
THEOREM PublishedOnlyIfSent == Spec => []PublishedWasSent
<1>1. Init => SentInv
  <2>1. Init => TypeOK
    BY OutboxAssumption DEF Init, TypeOK, RowType, newRow
  <2> QED
    BY <2>1 DEF Init, SentInv, MarksWhatWasSent, PublishedWasSent, newRow
<1>2. SentInv => PublishedWasSent
  BY DEF SentInv
<1> QED
  BY <1>1, <1>2, SentStep, PTL DEF Spec

-----------------------------------------------------------------------------
(* Without a fault, no two instances work on one event.                    *)

InHand(p) == batch[p] \cup current[p]

(* The strengthening: the receipt being delivered has left the batch, so   *)
(* no other one in hand names its event.                                   *)
OneAtATime == \A p \in Publishers : batch[p] \cap current[p] = {}

CurrentInv == TypeOK /\ (faults = 0 => OneAtATime /\ ReceiptsCurrentWithoutFault)

(* Two receipts that apply to one event are the same one, in one hand.     *)
LEMMA OneReceiptApplies ==
    ASSUME TypeOK, NEW p \in Publishers, NEW q \in Publishers,
           NEW r \in Receipts, NEW s \in Receipts,
           Applies(p, r), Applies(q, s), r.event = s.event
    PROVE  p = q /\ r = s
BY DEF Applies, Matches, Receipts

(* Without a fault a publisher takes only free events, drops only what no  *)
(* longer applies, and a lease ends under nobody's hands.                  *)
LEMMA FaultlessForms ==
    ASSUME TypeOK, [Next]_vars, faults' = 0
    PROVE  /\ faults = 0
           /\ \/ UNCHANGED <<rows, batch, current>>
              \/ \E p \in Publishers : Claim(p, FALSE, TRUE)
              \/ \E p \in Publishers : \E receipt \in batch[p] : Deliver(p, receipt)
              \/ \E p \in Publishers : MarkPublished(p) \/ MarkFailed(p)
              \/ \E e \in Events : LeaseExpires(e) /\ ~WorkedOn(e)
<1>0. ~Fault
  BY FaultCounts DEF TypeOK
<1>1. faults = 0 \/ Fault
  BY NextForms DEF vars, Append1, Claim, Deliver, FinishBatch, SendSucceeds, SendFails, EndFails, Crash,
     MarkPublished, MarkFailed, QueueTakes, QueueLoses, LeaseExpires, BackoffEnds
<1>2. ASSUME NEW p \in Publishers, NEW ahead \in BOOLEAN, NEW heard \in BOOLEAN, Claim(p, ahead, heard)
      PROVE  Claim(p, FALSE, TRUE)
  <2>1. heard = TRUE /\ ahead = FALSE
    BY <1>0, <1>2 DEF Claim
  <2> QED
    BY <1>2, <2>1
<1>3. ASSUME NEW p \in Publishers, FinishBatch(p) \/ SendSucceeds(p) \/ SendFails(p) \/ EndFails(p) \/ Crash(p)
      PROVE  UNCHANGED <<rows, batch, current>>
  BY <1>0, <1>3 DEF FinishBatch, SendSucceeds, SendFails, EndFails, Crash
<1>4. ASSUME NEW p \in Publishers, NEW e \in Events, QueueTakes(p, e) \/ QueueLoses(p, e)
      PROVE  UNCHANGED <<rows, batch, current>>
  BY <1>0, <1>4 DEF QueueTakes, QueueLoses
<1>5. ASSUME NEW e \in Events, LeaseExpires(e) PROVE ~WorkedOn(e)
  BY <1>0, <1>5 DEF LeaseExpires
<1>6. ASSUME NEW e \in Events, BackoffEnds(e) PROVE UNCHANGED <<rows, batch, current>>
  BY <1>6 DEF BackoffEnds
<1>7. ASSUME NEW w \in Wallets, Append1(w) PROVE UNCHANGED <<rows, batch, current>>
  BY <1>7 DEF Append1
<1>8. UNCHANGED vars => UNCHANGED <<rows, batch, current>>
  BY DEF vars
<1> QED
  BY <1>0, <1>1, <1>2, <1>3, <1>4, <1>5, <1>6, <1>7, <1>8, NextForms

LEMMA CurrentStep == CurrentInv /\ [Next]_vars => CurrentInv'
<1> SUFFICES ASSUME CurrentInv, [Next]_vars, faults' = 0
             PROVE  OneAtATime' /\ ReceiptsCurrentWithoutFault'
  BY TypeStep DEF CurrentInv
<1>0. TypeOK /\ faults = 0
  BY FaultlessForms DEF CurrentInv
<1>1. /\ \A p \in Publishers : batch[p] \cap current[p] = {}
      /\ \A p \in Publishers : \A r \in InHand(p) : Applies(p, r)
  BY <1>0 DEF CurrentInv, OneAtATime, ReceiptsCurrentWithoutFault, InHand
<1>2. /\ rows \in [Events -> RowType]
      /\ batch \in [Publishers -> SUBSET Receipts] /\ current \in [Publishers -> SUBSET Receipts]
      /\ \A p \in Publishers : \A r \in InHand(p) : r \in Receipts /\ r.event \in Events
      /\ NoOwner \notin Publishers /\ due \in Seq(Events)
  BY <1>0, OutboxAssumption DEF TypeOK, InHand, Receipts
<1> SUFFICES /\ \A p \in Publishers : batch'[p] \cap current'[p] = {}
             /\ \A p \in Publishers : \A r \in batch'[p] \cup current'[p] : Applies(p, r)'
  BY DEF OneAtATime, ReceiptsCurrentWithoutFault
<1>3. CASE UNCHANGED <<rows, batch, current>>
  BY <1>1, <1>3 DEF InHand, Applies, Matches
<1>4. ASSUME NEW p \in Publishers, Claim(p, FALSE, TRUE)
      PROVE  /\ \A q \in Publishers : batch'[q] \cap current'[q] = {}
             /\ \A q \in Publishers : \A r \in batch'[q] \cup current'[q] : Applies(q, r)'
  <2>1. /\ batch' = [batch EXCEPT ![p] = {Receipt(e) : e \in Claimed(FALSE)}] /\ current' = current
        /\ \A e \in Events : e \notin Claimed(FALSE) => rows'[e] = rows[e]
    BY <1>2, <1>4 DEF Claim
  <2>2. ASSUME NEW e \in Claimed(FALSE)
        PROVE  /\ e \in Events /\ Free(e)
               /\ rows'[e] = [rows[e] EXCEPT !.owner = p, !.leased = TRUE, !.attempts = @ + 1]
    <3>1. e \in Events /\ Free(e)
      BY <1>2, ClaimedEvents
    <3> QED
      BY <1>4, <3>1 DEF Claim
  <2>3. ASSUME NEW q \in Publishers, NEW r \in InHand(q)
        PROVE  r.event \notin Claimed(FALSE) /\ Applies(q, r)'
    <3>1. Applies(q, r) /\ r.event \in Events /\ q # NoOwner
      BY <1>1, <1>2
    <3>2. ~Free(r.event)
      BY <3>1 DEF Free, Applies, Matches
    <3>3. r.event \notin Claimed(FALSE)
      BY <2>2, <3>2
    <3>4. rows'[r.event] = rows[r.event]
      BY <2>1, <3>1, <3>3
    <3> QED
      BY <3>1, <3>3, <3>4 DEF Applies, Matches
  <2>4. ASSUME NEW e \in Claimed(FALSE), NEW r, r = Receipt(e) PROVE r.event = e /\ Applies(p, r)'
    <3>1. rows[e] \in RowType
      BY <1>2, <2>2
    <3>2. /\ rows'[e].owner = p /\ rows'[e].leased /\ rows'[e].attempts = rows[e].attempts + 1
          /\ rows'[e].published = rows[e].published
      BY <2>2, <3>1 DEF RowType
    <3>3. ~rows[e].published
      BY <2>2 DEF Free
    <3> QED
      BY <2>4, <3>2, <3>3 DEF Applies, Matches, Receipt
  <2>5. batch'[p] = {Receipt(e) : e \in Claimed(FALSE)}
    BY <1>2, <2>1
  <2>6. \A q \in Publishers : q # p => batch'[q] = batch[q]
    BY <1>2, <2>1
  <2>7. ASSUME NEW q \in Publishers, NEW r \in batch'[q] \cup current'[q] PROVE Applies(q, r)'
    <3>1. CASE r \in InHand(q)
      BY <2>3, <3>1
    <3>2. CASE r \notin InHand(q)
      <4>1. q = p /\ r \in batch'[p]
        BY <2>1, <2>6, <3>2 DEF InHand
      <4>2. PICK e \in Claimed(FALSE) : r = Receipt(e)
        BY <2>5, <4>1
      <4> QED
        BY <2>4, <4>1, <4>2
    <3> QED
      BY <3>1, <3>2
  <2>8. batch'[p] \cap current'[p] = {}
    <3> SUFFICES ASSUME NEW r \in batch'[p], r \in current'[p] PROVE FALSE
      OBVIOUS
    <3>1. PICK e \in Claimed(FALSE) : r = Receipt(e)
      BY <2>5
    <3>2. r.event = e /\ r \in InHand(p)
      BY <2>1, <2>4, <3>1 DEF InHand
    <3> QED
      BY <2>3, <3>2
  <2> QED
    BY <1>1, <2>1, <2>6, <2>7, <2>8
<1>5. ASSUME NEW p \in Publishers, NEW receipt \in batch[p], Deliver(p, receipt)
      PROVE  /\ \A q \in Publishers : batch'[q] \cap current'[q] = {}
             /\ \A q \in Publishers : \A r \in batch'[q] \cup current'[q] : Applies(q, r)'
  <2>1. rows' = rows /\ batch' = [batch EXCEPT ![p] = @ \ {receipt}]
        /\ (current' = current \/ current' = [current EXCEPT ![p] = {receipt}])
    BY <1>5 DEF Deliver
  <2>2. \A q \in Publishers : batch'[q] \cup current'[q] \subseteq InHand(q)
    BY <1>2, <2>1 DEF InHand
  <2>3. \A q \in Publishers : batch'[q] \cap current'[q] = {}
    BY <1>1, <1>2, <2>1
  <2> QED
    BY <1>1, <2>1, <2>2, <2>3 DEF Applies, Matches
<1>6. ASSUME NEW p \in Publishers, MarkPublished(p) \/ MarkFailed(p)
      PROVE  /\ \A q \in Publishers : batch'[q] \cap current'[q] = {}
             /\ \A q \in Publishers : \A r \in batch'[q] \cup current'[q] : Applies(q, r)'
  <2>1. /\ batch' = batch /\ current' = [current EXCEPT ![p] = {}]
    BY <1>6 DEF MarkPublished, MarkFailed, Done
  <2>2. PICK receipt \in current[p] :
          \A e \in Events : e # receipt.event => rows'[e] = rows[e]
    BY <1>2, <1>6 DEF MarkPublished, MarkFailed
  <2>3. ASSUME NEW q \in Publishers, NEW r \in batch'[q] \cup current'[q] PROVE Applies(q, r)'
    <3>1. r \in InHand(q) /\ receipt \in InHand(p) /\ (q = p => r \in batch[p])
      BY <1>2, <2>1, <2>3 DEF InHand
    <3>2. r.event # receipt.event
      BY <1>0, <1>1, <1>2, <3>1, OneReceiptApplies
    <3> QED
      BY <1>1, <1>2, <2>2, <3>1, <3>2 DEF Applies, Matches
  <2>4. \A q \in Publishers : batch'[q] \cap current'[q] = {}
    BY <1>1, <1>2, <2>1
  <2> QED
    BY <2>3, <2>4
<1>7. ASSUME NEW e \in Events, LeaseExpires(e), ~WorkedOn(e)
      PROVE  /\ \A q \in Publishers : batch'[q] \cap current'[q] = {}
             /\ \A q \in Publishers : \A r \in batch'[q] \cup current'[q] : Applies(q, r)'
  <2>1. batch' = batch /\ current' = current /\ \A f \in Events : f # e => rows'[f] = rows[f]
    BY <1>2, <1>7 DEF LeaseExpires
  <2>2. \A q \in Publishers : \A r \in InHand(q) : r.event # e
    BY <1>1, <1>7 DEF WorkedOn, InHand, Applies
  <2> QED
    BY <1>1, <1>2, <2>1, <2>2 DEF InHand, Applies, Matches
<1> QED
  BY <1>3, <1>4, <1>5, <1>6, <1>7, FaultlessForms, <1>0

(* While no publisher fails or outlives its lease, every receipt in hand   *)
(* names the present claim of its row: Claim takes only free rows, and a   *)
(* row in hand is not free.                                                *)
THEOREM ReceiptsStayCurrent == Spec => []ReceiptsCurrentWithoutFault
<1>1. Init => CurrentInv
  <2>1. Init => TypeOK
    BY OutboxAssumption DEF Init, TypeOK, RowType, newRow
  <2> QED
    BY <2>1 DEF Init, CurrentInv, OneAtATime, ReceiptsCurrentWithoutFault
<1>2. CurrentInv => ReceiptsCurrentWithoutFault
  BY DEF CurrentInv, ReceiptsCurrentWithoutFault
<1> QED
  BY <1>1, <1>2, CurrentStep, PTL DEF Spec

=============================================================================
