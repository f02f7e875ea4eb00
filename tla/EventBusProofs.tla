--------------------------- MODULE EventBusProofs ---------------------------
(* Proofs about the event feed, for any set of changes, any limits of the  *)
(* history and of the broadcast channel, and any number of crashes; about  *)
(* the sessions of a node; and about the requests between hub and node.    *)
EXTENDS EventBus, NodeSessions, Requests, SequenceTheorems, TLAPS

Announced == {"numbered", "recorded", "sent"}

(* Numbers handed out are below the counter, across restarts, and the      *)
(* number of an event that can still be delivered belongs to it alone.     *)
Numbering ==
    /\ persisted <= next_event_seq
    /\ \A k \in Change : seqOf[k] <= next_event_seq
    /\ \A k \in Change : stage[k] \in {"pending", "applied"} => seqOf[k] = 0
    /\ \A k \in Change : stage[k] \in Announced => seqOf[k] > 0
    /\ \A j, k \in Change :
          j # k /\ stage[k] \in Announced => seqOf[j] # seqOf[k]

(* Whatever can reach the client was recorded by the running process. *)
Deliverable(q) == \A i \in 1..Len(q) : stage[q[i]] \in {"recorded", "sent"}
InFlight == Deliverable(event_history) /\ Deliverable(replay) /\ Deliverable(inbox)

(* The client's numbers are below the counter, and never zero once read. *)
Watermarks ==
    /\ next_event_seq > 0
    /\ lastSeq <= next_event_seq
    /\ snapSeq <= next_event_seq
    /\ phase = "reading" => snapSeq > 0
    /\ phase \in {"booted", "subscribed", "open"} => lastSeq > 0

IInv == TypeOK /\ Numbering /\ InFlight /\ Watermarks /\ NoSilentMiss

(* A hub that was started before hands out numbers above zero. *)
LEMMA InitInv == ASSUME InitialSeq > 0, Init PROVE IInv
BY BusAssumption DEF Init, IInv, TypeOK, Numbering, InFlight, Deliverable,
     Watermarks, NoSilentMiss, Stage, Phase, Announced

(* An emptied queue. *)
LEMMA EmptyQueue == <<>> \in Seq(Change) /\ Len(<<>>) = 0
OBVIOUS

(* The head and the tail of a queue that is not empty. *)
LEMMA TailQueue ==
    ASSUME NEW q \in Seq(Change), q # <<>>
    PROVE  /\ Head(q) \in Change /\ 1 \in 1..Len(q) /\ Head(q) = q[1]
           /\ Tail(q) \in Seq(Change) /\ Len(Tail(q)) = Len(q) - 1
           /\ \A i \in 1..Len(Tail(q)) : i + 1 \in 1..Len(q) /\ Tail(q)[i] = q[i + 1]
OBVIOUS

(* A queue with one more event. *)
LEMMA AppendQueue ==
    ASSUME NEW q \in Seq(Change), NEW k \in Change
    PROVE  /\ Append(q, k) \in Seq(Change) /\ Len(Append(q, k)) = Len(q) + 1
           /\ \A i \in 1..Len(Append(q, k)) :
                 Append(q, k)[i] = k \/ (i \in 1..Len(q) /\ Append(q, k)[i] = q[i])
OBVIOUS

(* Lengths are natural numbers. *)
LEMMA LenNat == ASSUME NEW q \in Seq(Change) PROVE Len(q) \in Nat
OBVIOUS

(* Cutting the history at its limit keeps it a suffix of what was recorded. *)
LEMMA BoundedFacts ==
    ASSUME NEW h \in Seq(Change), Len(h) <= EVENT_HISTORY_LIMIT, NEW k \in Change
    PROVE  /\ Bounded(Append(h, k)) \in Seq(Change)
           /\ Len(Bounded(Append(h, k))) <= EVENT_HISTORY_LIMIT
           /\ \A i \in 1..Len(Bounded(Append(h, k))) :
                 \/ Bounded(Append(h, k))[i] = k
                 \/ \E j \in 1..Len(h) : Bounded(Append(h, k))[i] = h[j]
<1> DEFINE a == Append(h, k)
<1>1. /\ a \in Seq(Change) /\ Len(a) = Len(h) + 1
      /\ \A i \in 1..Len(a) : a[i] = IF i = Len(a) THEN k ELSE h[i]
  OBVIOUS
<1>2. CASE Len(a) > EVENT_HISTORY_LIMIT
  <2>1. /\ Tail(a) \in Seq(Change) /\ Len(Tail(a)) = Len(h)
        /\ \A i \in 1..Len(Tail(a)) : Tail(a)[i] = a[i + 1]
    BY <1>1
  <2>2. \A i \in 1..Len(Tail(a)) :
           Tail(a)[i] = k \/ \E j \in 1..Len(h) : Tail(a)[i] = h[j]
    BY <1>1, <2>1
  <2> QED  BY <1>2, <2>1, <2>2 DEF Bounded
<1>3. CASE ~(Len(a) > EVENT_HISTORY_LIMIT)
  <2>1. \A i \in 1..Len(a) : a[i] = k \/ \E j \in 1..Len(h) : a[i] = h[j]
    BY <1>1
  <2> QED  BY <1>1, <1>3, <2>1, BusAssumption DEF Bounded
<1> QED  BY <1>2, <1>3

(* A task changes hub state. *)
LEMMA ApplyInv == ASSUME IInv, NEW k \in Change, Apply(k) PROVE IInv'
<1> USE DEF IInv, Apply, client
<1>1. TypeOK'
  BY DEF TypeOK, Stage
<1>2. Numbering'
  BY DEF Numbering, TypeOK, Announced
<1>3. InFlight'
  BY DEF InFlight, Deliverable, TypeOK
<1>4. Watermarks'
  BY DEF Watermarks
<1>5. NoSilentMiss'
  BY DEF NoSilentMiss
<1> QED  BY <1>1, <1>2, <1>3, <1>4, <1>5

(* The next number is above every number so far and above the watermark. *)
LEMMA NumberInv == ASSUME IInv, NEW k \in Change, Number(k) PROVE IInv'
<1> USE DEF IInv, Number, client
<1>1. TypeOK'
  BY DEF TypeOK, Stage
<1>2. Numbering'
  BY DEF Numbering, TypeOK, Announced
<1>3. InFlight'
  <2>1. stage[k] = "applied" /\ \A j \in Change \ {k} : stage'[j] = stage[j]
    BY DEF TypeOK
  <2>2. ASSUME NEW q \in Seq(Change), Deliverable(q)
        PROVE  \A i \in 1..Len(q) : stage'[q[i]] \in {"recorded", "sent"}
    BY <2>1, <2>2 DEF Deliverable
  <2>3. /\ event_history \in Seq(Change) /\ replay \in Seq(Change) /\ inbox \in Seq(Change)
        /\ UNCHANGED <<event_history, replay, inbox>>
    BY DEF TypeOK
  <2> QED BY <2>2, <2>3 DEF InFlight, Deliverable
<1>4. Watermarks'
  BY DEF Watermarks, TypeOK
<1>5. NoSilentMiss'
  BY DEF NoSilentMiss, Watermarks, TypeOK
<1> QED  BY <1>1, <1>2, <1>3, <1>4, <1>5

(* The event enters the history. *)
LEMMA RecordInv == ASSUME IInv, NEW k \in Change, Record(k) PROVE IInv'
<1> USE DEF IInv, Record, client
<1>0. /\ event_history' \in Seq(Change)
      /\ Len(event_history') <= EVENT_HISTORY_LIMIT
      /\ \A i \in 1..Len(event_history') :
            \/ event_history'[i] = k
            \/ \E j \in 1..Len(event_history) : event_history'[i] = event_history[j]
  BY BoundedFacts DEF TypeOK
<1>1. TypeOK'
  BY <1>0 DEF TypeOK, Stage
<1>2. Numbering'
  BY DEF Numbering, TypeOK, Announced
<1>3. InFlight'
  <2>1. \A j \in Change : stage[j] \in {"recorded", "sent"} \/ j = k
                            => stage'[j] \in {"recorded", "sent"}
    BY DEF TypeOK
  <2>2. Deliverable(event_history)'
    <3>1. \A i \in 1..Len(event_history) :
             event_history[i] \in Change /\ stage[event_history[i]] \in {"recorded", "sent"}
      BY DEF InFlight, Deliverable, TypeOK
    <3> QED  BY <1>0, <2>1, <3>1 DEF Deliverable
  <2>3. Deliverable(replay)' /\ Deliverable(inbox)'
    BY <2>1 DEF InFlight, Deliverable, TypeOK
  <2> QED  BY <2>2, <2>3 DEF InFlight
<1>4. Watermarks'
  BY DEF Watermarks
<1>5. NoSilentMiss'
  BY DEF NoSilentMiss
<1> QED  BY <1>1, <1>2, <1>3, <1>4, <1>5

(* The event reaches the receiver, or finds it full. *)
LEMMA BroadcastInv == ASSUME IInv, NEW k \in Change, Broadcast(k) PROVE IInv'
<1>0. inbox \in Seq(Change) /\ Len(inbox) <= BroadcastCapacity
  BY DEF IInv, TypeOK
<1>a. \/ inbox' = inbox
      \/ inbox' = Append(inbox, k) /\ Len(inbox) < BroadcastCapacity
  BY DEF Broadcast
<1>b. inbox' \in Seq(Change) /\ Len(inbox') <= BroadcastCapacity
  <2>1. CASE inbox' = inbox
    BY <1>0, <2>1
  <2>2. CASE inbox' = Append(inbox, k) /\ Len(inbox) < BroadcastCapacity
    <3>1. Append(inbox, k) \in Seq(Change) /\ Len(Append(inbox, k)) = Len(inbox) + 1
      BY <1>0, AppendQueue
    <3>2. Len(inbox) \in Nat
      BY <1>0
    <3> QED  BY <2>2, <3>1, <3>2, BusAssumption
  <2> QED  BY <1>a, <2>1, <2>2
<1>1. TypeOK'
  BY <1>b DEF IInv, Broadcast, TypeOK, Stage
<1>2. Numbering'
  BY DEF IInv, Broadcast, Numbering, TypeOK, Announced
<1>3. InFlight'
  <2>0. \A j \in Change : stage[j] \in {"recorded", "sent"} \/ j = k
                            => stage'[j] \in {"recorded", "sent"}
    BY DEF IInv, Broadcast, TypeOK
  <2>1. Deliverable(inbox)'
    <3>1. \A i \in 1..Len(inbox) : inbox[i] \in Change /\ stage[inbox[i]] \in {"recorded", "sent"}
      BY <1>0 DEF IInv, InFlight, Deliverable
    <3>2. \A i \in 1..Len(inbox') : inbox'[i] = k \/ (i \in 1..Len(inbox) /\ inbox'[i] = inbox[i])
      BY <1>0, <1>a, AppendQueue
    <3> QED  BY <2>0, <3>1, <3>2 DEF Deliverable
  <2>2. Deliverable(event_history)' /\ Deliverable(replay)'
    BY <2>0 DEF IInv, Broadcast, InFlight, Deliverable, TypeOK
  <2> QED  BY <2>1, <2>2 DEF InFlight
<1>4. Watermarks'
  BY DEF IInv, Broadcast, Watermarks
<1>5. NoSilentMiss'
  BY DEF IInv, Broadcast, NoSilentMiss
<1> QED  BY <1>1, <1>2, <1>3, <1>4, <1>5 DEF IInv

(* A restart within the offset: the recovered counter is above every       *)
(* number of the old process, the ones of lost changes included.           *)
LEMMA CrashInv == ASSUME IInv, CrashWithinOffset PROVE IInv'
<1> USE DEF IInv, CrashWithinOffset, Crash
<1>0. next_event_seq' \in Nat /\ next_event_seq' >= next_event_seq + 1
  BY BusAssumption DEF WithinOffset, RecoveredSeq, TypeOK
<1>1. TypeOK'
  BY <1>0, EmptyQueue, BusAssumption DEF TypeOK, Stage, Phase
<1>2. Numbering'
  <2>1. persisted' <= next_event_seq'
    BY BusAssumption DEF RecoveredSeq, TypeOK
  <2>2. \A k \in Change : seqOf'[k] <= next_event_seq'
    BY <1>0 DEF Numbering, TypeOK
  <2>3. \A k \in Change : stage'[k] \in {"pending", "applied"} => seqOf'[k] = 0
    BY DEF Numbering, TypeOK
  <2>4. \A k \in Change : stage'[k] \in Announced => stage[k] = "sent" /\ seqOf'[k] = seqOf[k]
    BY DEF TypeOK, Announced, Stage
  <2>5. \A k \in Change : stage'[k] \in Announced => seqOf'[k] > 0
    BY <2>4 DEF Numbering, Announced
  <2>6. \A j, k \in Change : j # k /\ stage'[k] \in Announced => seqOf'[j] # seqOf'[k]
    BY <2>4 DEF Numbering, Announced, TypeOK
  <2> QED  BY <2>1, <2>2, <2>3, <2>5, <2>6 DEF Numbering
<1>3. InFlight'
  BY DEF InFlight, Deliverable
<1>4. Watermarks'
  BY <1>0 DEF Watermarks, TypeOK
<1>5. NoSilentMiss'
  BY DEF NoSilentMiss, Watermarks, TypeOK
<1> QED  BY <1>1, <1>2, <1>3, <1>4, <1>5

(* What an arriving event does to the replica: either nothing, or the      *)
(* event is the next one and its change is added.                          *)
LEMMA ForwardFacts ==
    ASSUME IInv, phase = "open", NEW k \in Change,
           stage[k] \in {"recorded", "sent"}, Forward(k)
    PROVE  \/ UNCHANGED <<lastSeq, known>>
           \/ /\ lastSeq' = lastSeq + 1 /\ lastSeq' = seqOf[k]
              /\ known' = known \cup {k}
BY DEF Forward, Accept, shouldResyncForEnvelope, IInv, Watermarks, TypeOK

(* A client step keeps the replica's promise when it leaves the watermark  *)
(* alone or moves it by one to the event just applied.                     *)
LEMMA ReplicaInv ==
    ASSUME IInv, phase = "open", NEW k \in Change, stage[k] \in {"recorded", "sent"},
           Forward(k), UNCHANGED bus, UNCHANGED snapSeq,
           phase' \in {"open", "boot"}
    PROVE  /\ lastSeq' \in Nat /\ known' \in SUBSET Change
           /\ Watermarks' /\ NoSilentMiss'
<1>1. CASE UNCHANGED <<lastSeq, known>>
  BY <1>1 DEF bus, IInv, TypeOK, Watermarks, NoSilentMiss
<1>2. CASE /\ lastSeq' = lastSeq + 1 /\ lastSeq' = seqOf[k]
           /\ known' = known \cup {k}
  <2>1. lastSeq' \in Nat /\ known' \in SUBSET Change
    BY <1>2 DEF IInv, TypeOK
  <2>2. Watermarks'
    BY <1>2 DEF bus, IInv, TypeOK, Watermarks, Numbering
  <2>3. NoSilentMiss'
    BY <1>2 DEF bus, IInv, TypeOK, NoSilentMiss, Numbering, Announced
  <2> QED  BY <2>1, <2>2, <2>3
<1> QED  BY <1>1, <1>2, ForwardFacts

(* Taking a message off a queue, or emptying it, keeps the rest deliverable. *)
LEMMA ShorterQueue ==
    ASSUME NEW q \in Seq(Change), NEW r, UNCHANGED stage, Deliverable(q),
           r = q \/ r = <<>> \/ (q # <<>> /\ r = Tail(q))
    PROVE  /\ r \in Seq(Change) /\ Len(r) <= Len(q)
           /\ \A i \in 1..Len(r) : stage'[r[i]] \in {"recorded", "sent"}
<1>1. CASE r = q
  BY <1>1 DEF Deliverable
<1>2. CASE r = <<>>
  BY <1>2, EmptyQueue, LenNat
<1>3. CASE q # <<>> /\ r = Tail(q)
  BY <1>3, TailQueue, LenNat DEF Deliverable
<1> QED  BY <1>1, <1>2, <1>3

(* What the two receiving steps share: the head of a queue is forwarded,   *)
(* and the queues shrink.                                                  *)
LEMMA ReceiveInv == ASSUME IInv, ReceiveReplay \/ ReceiveBroadcast PROVE IInv'
<1> DEFINE k == IF replay # <<>> THEN Head(replay) ELSE Head(inbox)
<1>0. /\ replay \in Seq(Change) /\ Deliverable(replay)
      /\ inbox \in Seq(Change) /\ Deliverable(inbox) /\ Len(inbox) <= BroadcastCapacity
  BY DEF IInv, TypeOK, InFlight
<1>1. /\ phase = "open" /\ Forward(k) /\ UNCHANGED bus /\ UNCHANGED snapSeq
      /\ phase' \in {"open", "boot"} /\ receiver' \in {receiver, "intact"}
  BY DEF ReceiveReplay, ReceiveBroadcast, Disconnect
<1>2. /\ (replay' = replay \/ replay' = <<>> \/ (replay # <<>> /\ replay' = Tail(replay)))
      /\ (inbox' = inbox \/ inbox' = <<>> \/ (inbox # <<>> /\ inbox' = Tail(inbox)))
      /\ (replay # <<>> \/ inbox # <<>>)
  BY DEF ReceiveReplay, ReceiveBroadcast, Disconnect
<1>3. k \in Change /\ stage[k] \in {"recorded", "sent"}
  <2>1. CASE replay # <<>>
    BY <1>0, <2>1, TailQueue DEF Deliverable
  <2>2. CASE replay = <<>>
    BY <1>0, <1>2, <2>2, TailQueue DEF Deliverable
  <2> QED  BY <2>1, <2>2
<1>4. lastSeq' \in Nat /\ known' \in SUBSET Change /\ Watermarks' /\ NoSilentMiss'
  BY <1>1, <1>3, ReplicaInv
<1>5. UNCHANGED stage
  BY <1>1 DEF bus
<1>6. /\ replay' \in Seq(Change)
      /\ \A i \in 1..Len(replay') : stage'[replay'[i]] \in {"recorded", "sent"}
  BY <1>0, <1>2, <1>5, ShorterQueue
<1>7. /\ inbox' \in Seq(Change) /\ Len(inbox') <= Len(inbox)
      /\ \A i \in 1..Len(inbox') : stage'[inbox'[i]] \in {"recorded", "sent"}
  BY <1>0, <1>2, <1>5, ShorterQueue
<1>8. Len(inbox') <= BroadcastCapacity
  BY <1>0, <1>7, LenNat, BusAssumption
<1>9. TypeOK'
  BY <1>1, <1>4, <1>6, <1>7, <1>8 DEF IInv, TypeOK, bus, Phase
<1>10. InFlight'
  BY <1>1, <1>6, <1>7 DEF IInv, InFlight, Deliverable, bus
<1>11. Numbering'
  BY <1>1 DEF IInv, Numbering, bus
<1> QED  BY <1>4, <1>9, <1>10, <1>11 DEF IInv

(* The remaining steps of the client: a snapshot is numbered before it is  *)
(* read, so every change numbered up to its number is in it.               *)
LEMMA BootstrapInv ==
    ASSUME IInv, SnapshotSeq \/ SnapshotState \/ Subscribe \/ ReadHistory
                 \/ EndLagged \/ DropSocket \/ flush_event_seq
    PROVE  IInv'
<1>0. /\ replay' \in Seq(Change)
      /\ inbox' \in Seq(Change) /\ Len(inbox') <= BroadcastCapacity
  <2>1. /\ replay \in Seq(Change) /\ event_history \in Seq(Change)
        /\ inbox \in Seq(Change) /\ Len(inbox) <= BroadcastCapacity
    BY DEF IInv, TypeOK
  <2>2. /\ replay' = replay \/ replay' = event_history \/ replay' = <<>>
        /\ inbox' = inbox \/ inbox' = <<>>
    BY DEF SnapshotSeq, SnapshotState, Subscribe, ReadHistory,
       EndLagged, DropSocket, flush_event_seq, Disconnect, client
  <2>3. replay' \in Seq(Change)
    BY <2>1, <2>2, EmptyQueue
  <2>4. CASE inbox' = inbox
    BY <2>1, <2>3, <2>4
  <2>5. CASE inbox' = <<>>
    BY <2>3, <2>5, EmptyQueue, BusAssumption
  <2> QED  BY <2>2, <2>4, <2>5
<1>1. TypeOK'
  <2>1. /\ UNCHANGED <<stage, seqOf, next_event_seq, event_history, crashes>>
        /\ persisted' \in {persisted, next_event_seq}
    BY DEF SnapshotSeq, SnapshotState, Subscribe, ReadHistory,
       EndLagged, DropSocket, flush_event_seq, bus
  <2>2. /\ phase' \in {phase, "boot", "reading", "booted", "subscribed", "open"}
        /\ receiver' \in {receiver, "intact"}
        /\ snapSeq' \in {snapSeq, next_event_seq, 0}
        /\ lastSeq' \in {lastSeq, snapSeq}
        /\ known' \in {known, Applied}
    BY DEF SnapshotSeq, SnapshotState, Subscribe, ReadHistory,
       EndLagged, DropSocket, flush_event_seq, Disconnect, client
  <2>3. Applied \in SUBSET Change
    BY DEF Applied
  <2> QED  BY <1>0, <2>1, <2>2, <2>3 DEF IInv, TypeOK, Phase
<1>2. Numbering'
  <2>1. UNCHANGED <<stage, seqOf, next_event_seq>> /\ persisted' \in {persisted, next_event_seq}
    BY DEF SnapshotSeq, SnapshotState, Subscribe, ReadHistory, EndLagged, DropSocket, flush_event_seq, bus
  <2> QED BY <2>1 DEF IInv, TypeOK, Numbering
<1>3. InFlight'
  <2>1. /\ UNCHANGED <<stage, event_history>>
        /\ replay' = replay \/ replay' = event_history \/ replay' = <<>>
        /\ inbox' = inbox \/ inbox' = <<>>
    BY DEF SnapshotSeq, SnapshotState, Subscribe, ReadHistory, EndLagged, DropSocket, flush_event_seq,
       Disconnect, bus, client
  <2>2. Deliverable(event_history)' /\ Deliverable(<<>>)
    BY <2>1, EmptyQueue DEF IInv, InFlight, Deliverable
  <2>3. Deliverable(replay)'
    BY <2>1, <2>2, EmptyQueue DEF IInv, InFlight, Deliverable
  <2>4. Deliverable(inbox)'
    BY <2>1, <2>2, EmptyQueue DEF IInv, InFlight, Deliverable
  <2> QED BY <2>2, <2>3, <2>4 DEF InFlight
<1>4. Watermarks' /\ NoSilentMiss'
  <2> USE DEF IInv, Watermarks, NoSilentMiss
  <2>1. CASE SnapshotSeq
    BY <2>1 DEF SnapshotSeq, TypeOK, bus
  <2>2. CASE SnapshotState
    BY <2>2 DEF SnapshotState, TypeOK, Numbering, Applied, bus
  <2>3. CASE Subscribe
    BY <2>3 DEF Subscribe, TypeOK, bus
  <2>4. CASE ReadHistory
    BY <2>4 DEF ReadHistory, Disconnect, TypeOK, bus
  <2>5. CASE EndLagged
    BY <2>5 DEF EndLagged, Disconnect, TypeOK, bus
  <2>6. CASE DropSocket
    BY <2>6 DEF DropSocket, Receiving, Disconnect, TypeOK, bus
  <2>7. CASE flush_event_seq
    BY <2>7 DEF flush_event_seq, TypeOK, client
  <2> QED BY <2>1, <2>2, <2>3, <2>4, <2>5, <2>6, <2>7
<1> QED  BY <1>1, <1>2, <1>3, <1>4 DEF IInv

(* Every step preserves the invariant. *)
LEMMA NextInv == IInv /\ [Next]_vars => IInv'
<1> SUFFICES ASSUME IInv, [Next]_vars PROVE IInv'
  OBVIOUS
<1>1. CASE HubStep
  BY <1>1, ApplyInv, NumberInv, RecordInv, BroadcastInv, BootstrapInv DEF HubStep
<1>2. CASE ClientStep
  BY <1>2, BootstrapInv, ReceiveInv DEF ClientStep
<1>3. CASE DropSocket \/ CrashWithinOffset
  BY <1>3, BootstrapInv, CrashInv
<1>4. CASE UNCHANGED vars
  BY <1>4 DEF vars, IInv, TypeOK, Numbering, InFlight, Deliverable, Watermarks, NoSilentMiss
<1> QED  BY <1>1, <1>2, <1>3, <1>4 DEF Next

(* The invariant holds of every behaviour of a hub that was started before. *)
LEMMA SpecInv == ASSUME InitialSeq > 0 PROVE Spec => []IInv
<1>1. Init => IInv
  BY InitInv
<1> QED  BY <1>1, NextInv, PTL DEF Spec

(* Type correctness of the bus and of the client. *)
THEOREM BusTypes == ASSUME InitialSeq > 0 PROVE Spec => []TypeOK
<1>1. IInv => TypeOK
  BY DEF IInv
<1> QED  BY <1>1, SpecInv, PTL

(* No client's watermark passes over a change its replica lacks. *)
THEOREM NeverSilent == ASSUME InitialSeq > 0 PROVE Spec => []NoSilentMiss
<1>1. IInv => NoSilentMiss
  BY DEF IInv
<1> QED  BY <1>1, SpecInv, PTL

(* While fewer events than the recovery offset go unflushed, no restart    *)
(* hands a sequence number out again.                                      *)
THEOREM SeqsAreUnique == ASSUME InitialSeq > 0 PROVE Spec => []SeqNeverReused
<1>1. IInv => SeqNeverReused
  BY DEF IInv, TypeOK, Numbering, SeqNeverReused, Announced, Stage
<1> QED  BY <1>1, SpecInv, PTL

(* Late, duplicate and replayed events never roll the client back. *)
THEOREM ReplicaForward == ASSUME InitialSeq > 0 PROVE Spec => ReplicaMovesForward
<1>1. IInv /\ [Next]_vars =>
        [phase # "reading" => lastSeq' >= lastSeq /\ known \subseteq known']_vars
  <2> SUFFICES ASSUME IInv, Next, phase # "reading"
               PROVE lastSeq' >= lastSeq /\ known \subseteq known'
    BY DEF vars
  <2>0. lastSeq \in Nat
    BY DEF IInv, TypeOK
  <2>1. CASE ReceiveReplay \/ ReceiveBroadcast
    BY <2>0, <2>1 DEF ReceiveReplay, ReceiveBroadcast, Forward, Accept, IInv, TypeOK
  <2>2. CASE HubStep \/ DropSocket \/ CrashWithinOffset
    BY <2>0, <2>2 DEF HubStep, Apply, Number, Record, Broadcast, flush_event_seq,
       DropSocket, CrashWithinOffset, Crash, client
  <2>3. CASE SnapshotSeq \/ SnapshotState \/ Subscribe \/ ReadHistory \/ EndLagged
    BY <2>0, <2>3 DEF SnapshotSeq, SnapshotState, Subscribe, ReadHistory, EndLagged
  <2> QED  BY <2>1, <2>2, <2>3 DEF Next, ClientStep
<1> QED  BY <1>1, SpecInv, PTL DEF Spec, ReplicaMovesForward

(* All the bus promises of its numbers: the hub never gives a number twice,*)
(* not even after a crash that lost the last counter it wrote.             *)
THEOREM BusSound == ASSUME InitialSeq > 0 PROVE Spec => []BusIsSound
<1>1. IInv => BusIsSound
  BY DEF IInv, TypeOK, Numbering, SeqNeverReused, Announced, Stage, BusIsSound
<1> QED  BY <1>1, SpecInv, PTL

-----------------------------------------------------------------------------
(* The sessions of a node, for any terminals and agents, either setting of *)
(* machine.json and any number of boots, starts and changes.               *)

(* What a save writes and a start reads: terminals with their boot id and  *)
(* resume command.                                                         *)
Entry == [boot : Nat, resume : Agents \cup {NoAgent}]
Maps == UNION {[D -> Entry] : D \in SUBSET Terminals}
Seen == [agent : Agents \cup {NoAgent}, told : BOOLEAN]
Looks == UNION {[D -> Seen] : D \in SUBSET Terminals}

(* The types of what a node keeps; a file that is there is whole or torn. *)
NodeTypes ==
    /\ boot \in 1..MaxBoots /\ starts \in 0..MaxStarts /\ pinned \in Sockets
    /\ node \in {"down", "recovering", "up"}
    /\ pane \in [Terminals -> {"none", "shell"} \cup Agents]
    /\ sock \in [Terminals -> Sockets] /\ used \subseteq Terminals
    /\ sessions \subseteq Terminals
    /\ resume \in [Terminals -> Agents \cup {NoAgent}]
    /\ file \in [kind : {"whole", "torn"}, map : Maps]
    /\ tmp \in [kind : {"whole", "torn", "missing"}, map : Maps]
    /\ tmp.kind = "missing" => tmp = Missing
    /\ saver \in [Threads -> [step : {"idle", "copied", "opened", "filled"}, map : Maps,
                              on : {"tmp", "file", "gone"}]]
    /\ main \in [at : {"idle", "made", "saving", "removed", "last"},
                 t : Terminals \cup {NoAgent}, agent : Agents \cup {NoAgent}]
    /\ main.at \in {"made", "saving", "removed"} => main.t \in Terminals
    /\ todo \in Maps /\ seen \subseteq Terminals /\ plan \subseteq Terminals
    /\ startups \subseteq Terminals \X Agents
    /\ poll \in [step : {"idle", "looked", "merged"}, saw : Looks, heard : BOOLEAN]
    /\ typed \in [Terminals -> Nat]

(* No id is known that was not given out. *)
IdsAreUsed ==
    /\ sessions \subseteq used /\ DOMAIN file.map \subseteq used /\ DOMAIN tmp.map \subseteq used
    /\ \A w \in Threads : DOMAIN saver[w].map \subseteq used
    /\ DOMAIN todo \subseteq used
    /\ main.at \in {"made", "saving", "removed"} => main.t \in used

(* All sessions live in one tmux server. *)
OneServer ==
    \A t, u \in Terminals : pane[t] # "none" /\ pane[u] # "none" => sock[t] = sock[u]

(* What belongs to which part of a node's life: a node that is down does   *)
(* nothing, one that recovers does not poll, one that is up has recovered. *)
Stages ==
    /\ node = "down" => main = NoTask /\ saver["main"].step = "idle"
    /\ node # "up" => saver["poll"].step = "idle" /\ poll.step = "idle"
    /\ node = "up" \/ main.at = "last" => DOMAIN todo = {}
    /\ main.at = "last" => node = "recovering"
    /\ main.at = "removed" => node = "up"
    /\ main.at \in {"idle", "made", "removed"} => saver["main"].step = "idle"

(* Entries of the boot that the machine is in. *)
OfThisBoot(map) == \A t \in DOMAIN map : map[t].boot = boot

(* Saves write entries of this boot, also through a file that two threads  *)
(* share; while a node recovers, its one save is not disturbed.            *)
SavesAreCurrent ==
    /\ \A w \in Threads : OfThisBoot(saver[w].map)
    /\ \A w \in Threads : saver[w].step \in {"opened", "filled"} => OfThisBoot(tmp.map)
    /\ \A w \in Threads : saver[w].step = "copied" => saver[w].on = "tmp"
    /\ node = "recovering" /\ saver["main"].step \in {"opened", "filled"}
          => saver["main"].on = "tmp" /\ tmp.kind # "missing"
    /\ main.at = "last" /\ saver["main"].step = "idle" => OfThisBoot(file.map)

(* Once a node has recovered, and even more once it has typed a command,   *)
(* the file has no entry left that would be revived in this boot.          *)
TypedIsSettled ==
    /\ node = "up" => OfThisBoot(file.map)
    /\ \A t \in Terminals : typed[t] > 0 => OfThisBoot(file.map) /\ OfThisBoot(todo)

(* Only a terminal nothing was typed in yet is planned for. *)
PlannedOnce ==
    /\ \A t \in plan : typed[t] = 0
    /\ node = "recovering" /\ main.at \in {"made", "saving"} => typed[main.t] = 0

NodeInv ==
    /\ NodeTypes /\ IdsAreUsed /\ OneServer /\ NoTerminalLeftBehind
    /\ Stages /\ SavesAreCurrent /\ TypedIsSettled /\ PlannedOnce /\ ResumeOncePerBoot


-----------------------------------------------------------------------------
(* A map of entries: its terminals, and what it has for them. *)
LEMMA MapHas ==
    ASSUME NEW m \in Maps
    PROVE  /\ DOMAIN m \subseteq Terminals
           /\ \A t \in DOMAIN m : m[t].boot \in Nat /\ m[t].resume \in Agents \cup {NoAgent}
BY DEF Maps, Entry

(* A function from terminals to entries is such a map. *)
LEMMA MapOf ==
    ASSUME NEW D \in SUBSET Terminals, NEW m \in [D -> Entry]
    PROVE  m \in Maps /\ DOMAIN m = D
BY DEF Maps

(* No entry at all. *)
LEMMA NoMapIs == NoMap \in Maps /\ DOMAIN NoMap = {}
<1>1. {} \in SUBSET Terminals /\ NoMap \in [{} -> Entry]
  BY DEF NoMap
<1> QED BY <1>1, MapOf

(* An empty map has nothing of another boot. *)
LEMMA NoMapOfThisBoot == OfThisBoot(NoMap) /\ OfThisBoot(NoMap)'
BY NoMapIs DEF OfThisBoot, NoMap

(* What a poll saw of a pane. *)
LEMMA LookHas ==
    ASSUME NEW l \in Looks
    PROVE  /\ DOMAIN l \subseteq Terminals
           /\ \A t \in DOMAIN l : l[t].told \in BOOLEAN /\ l[t].agent \in Agents \cup {NoAgent}
BY DEF Looks, Seen

(* A poll that saw nothing. *)
LEMMA NoLookIs == NoMap \in Looks
<1>1. {} \in SUBSET Terminals /\ NoMap \in [{} -> Seen]
  BY DEF NoMap
<1> QED BY <1>1 DEF Looks

(* What a save copies. *)
LEMMA PersistIs ==
    ASSUME boot \in Nat, NEW ids \in SUBSET Terminals,
           NEW commands \in [Terminals -> Agents \cup {NoAgent}]
    PROVE  /\ persist(ids, commands) \in Maps /\ DOMAIN persist(ids, commands) = ids
           /\ OfThisBoot(persist(ids, commands))
<1>1. persist(ids, commands) \in [ids -> Entry]
  BY DEF persist, Entry
<1> QED BY <1>1, MapOf DEF persist, OfThisBoot

(* A thread begins a save; the other one is not disturbed. *)
LEMMA CopyIs ==
    ASSUME NodeTypes, NEW w \in Threads, NEW ids \in SUBSET Terminals,
           NEW commands \in [Terminals -> Agents \cup {NoAgent}], Copy(w, ids, commands)
    PROVE  /\ saver' \in [Threads -> [step : {"idle", "copied", "opened", "filled"},
                                     map : Maps, on : {"tmp", "file", "gone"}]]
           /\ saver'[w].step = "copied" /\ saver'[w].on = "tmp"
           /\ DOMAIN saver'[w].map = ids /\ OfThisBoot(saver'[w].map)
           /\ \A v \in Threads : v # w => saver'[v] = saver[v]
<1>1. boot \in Nat
  BY NodeAssumption DEF NodeTypes
<1>2. /\ persist(ids, commands) \in Maps /\ DOMAIN persist(ids, commands) = ids
      /\ OfThisBoot(persist(ids, commands))
  BY <1>1, PersistIs
<1> DEFINE Begun == [NotSaving EXCEPT !.step = "copied", !.map = persist(ids, commands)]
<1>3. /\ Begun.step = "copied" /\ Begun.map = persist(ids, commands) /\ Begun.on = "tmp"
      /\ Begun \in [step : {"idle", "copied", "opened", "filled"}, map : Maps,
                    on : {"tmp", "file", "gone"}]
  BY <1>2 DEF NotSaving
<1>4. saver' = [saver EXCEPT ![w] = Begun]
  BY DEF Copy
<1> HIDE DEF Begun
<1> QED BY <1>2, <1>3, <1>4 DEF NodeTypes

(* An entry is taken off the list. *)
LEMMA WithoutIs ==
    ASSUME NEW m \in Maps, NEW t
    PROVE  /\ Without(m, t) \in Maps /\ DOMAIN Without(m, t) = DOMAIN m \ {t}
           /\ OfThisBoot(m) => OfThisBoot(Without(m, t))
<1>1. PICK D \in SUBSET Terminals : m \in [D -> Entry]
  BY DEF Maps
<1>2. D \ {t} \in SUBSET Terminals /\ Without(m, t) \in [D \ {t} -> Entry]
  BY <1>1 DEF Without
<1> QED BY <1>1, <1>2, MapOf DEF Without, OfThisBoot

(* What is in the file after two threads wrote to it is one of the texts, *)
(* or no JSON. *)
LEMMA WrittenIs ==
    ASSUME NEW over, NEW m \in Maps, NEW f \in Written(over, m)
    PROVE  /\ f = Whole(m) \/ f = Torn
           /\ f \in [kind : {"whole", "torn"}, map : Maps] /\ f.kind # "missing"
           /\ f.map = m \/ f.map = NoMap
BY NoMapIs DEF Written, Whole, Torn

(* At first only sessions of an older node run, all on its server. *)
LEMMA NodeInitInv == NodeInit => NodeInv
<1> SUFFICES ASSUME NodeInit PROVE NodeInv
  OBVIOUS
<1> USE NodeAssumption
<1>1. PICK old \in SUBSET Terminals :
         /\ pane = [t \in Terminals |-> IF t \in old THEN "shell" ELSE "none"]
         /\ used = old
         /\ file = Whole([t \in old |-> [boot |-> 1, resume |-> NoAgent]])
  BY DEF NodeInit
<1>2. [t \in old |-> [boot |-> 1, resume |-> NoAgent]] \in [old -> Entry]
  BY DEF Entry
<1>3. file \in [kind : {"whole", "torn"}, map : Maps] /\ DOMAIN file.map = old
  BY <1>1, <1>2, MapOf DEF Whole
<1>4. NodeTypes
  BY <1>1, <1>3, NoMapIs, NoLookIs
     DEF NodeInit, NodeTypes, Sockets, NoAgents, Missing, NotSaving, NoTask, NoPoll
<1>5. IdsAreUsed
  BY <1>1, <1>3, NoMapIs DEF NodeInit, IdsAreUsed, Missing, NotSaving, NoTask
<1>6. OneServer /\ NoTerminalLeftBehind /\ ResumeOncePerBoot /\ PlannedOnce
  BY DEF NodeInit, OneServer, NoTerminalLeftBehind, ResumeOncePerBoot, PlannedOnce
<1>7. Stages
  BY NoMapIs DEF NodeInit, Stages, NotSaving, NoTask, NoPoll, Threads
<1>8. SavesAreCurrent
  BY NoMapOfThisBoot DEF NodeInit, SavesAreCurrent, NotSaving, NoTask, Threads
<1>9. TypedIsSettled
  BY DEF NodeInit, TypedIsSettled
<1> QED BY <1>4, <1>5, <1>6, <1>7, <1>8, <1>9 DEF NodeInv

(* A start reads the file and finds the server in use; nothing is typed    *)
(* yet.                                                                    *)
LEMMA StartKeeps ==
    ASSUME NodeInv, Start
    PROVE  NodeInv'
<1> USE NodeAssumption DEF NodeInv
<1>0. boot \in Nat
  BY DEF NodeTypes
<1>1. OneServer' /\ ResumeOncePerBoot'
  BY DEF OneServer, ResumeOncePerBoot, Start, tmux, history
<1>2. NodeTypes'
  BY <1>0, NoMapIs DEF NodeTypes, Start, load_sessions_file, resolve_tmux_naming,
     Alive, Sockets, disk, memory, tmux, history
<1>3. IdsAreUsed'
  BY NoMapIs DEF NodeTypes, IdsAreUsed, Start, load_sessions_file,
     resolve_tmux_naming, Alive, Sockets, disk, memory, tmux
<1>4. NoTerminalLeftBehind'
  BY NoMapIs DEF NodeTypes, OneServer, NoTerminalLeftBehind, Start,
     load_sessions_file, resolve_tmux_naming, Alive, Sockets, tmux
<1>5. Stages'
  BY NoMapIs DEF NodeTypes, Stages, Threads, Start, load_sessions_file,
     resolve_tmux_naming, Alive, Sockets, disk
<1>6. SavesAreCurrent'
  BY <1>0, NoMapIs DEF NodeTypes, Stages, SavesAreCurrent, OfThisBoot, Threads, Start,
     load_sessions_file, resolve_tmux_naming, Alive, Sockets, disk
<1>7. TypedIsSettled'
  BY <1>0, NoMapIs DEF NodeTypes, Stages, SavesAreCurrent, TypedIsSettled, OfThisBoot,
     Threads, Start, load_sessions_file, resolve_tmux_naming, Alive, Sockets, disk,
     history
<1>8. PlannedOnce'
  BY <1>0, NoMapIs DEF NodeTypes, Stages, TypedIsSettled, PlannedOnce, OfThisBoot,
     Start, load_sessions_file, resolve_tmux_naming, Alive, Sockets, history, NoTask
<1> QED BY <1>1, <1>2, <1>3, <1>4, <1>5, <1>6, <1>7, <1>8

(* A session that still runs is known again. *)
LEMMA RecoverEntryKeeps ==
    ASSUME NodeInv, NEW t \in Terminals, RecoverEntry(t)
    PROVE  NodeInv'
<1> USE NodeAssumption DEF NodeInv
<1>0. boot \in Nat
  BY DEF NodeTypes
<1>w. /\ Without(todo, t) \in Maps /\ DOMAIN Without(todo, t) = DOMAIN todo \ {t}
      /\ OfThisBoot(todo) => OfThisBoot(Without(todo, t))
  BY WithoutIs DEF NodeTypes
<1>e. todo[t].boot \in Nat /\ todo[t].resume \in Agents \cup {NoAgent}
  BY MapHas DEF NodeTypes, RecoverEntry
<1>1. /\ OneServer' /\ NoTerminalLeftBehind' /\ SavesAreCurrent' /\ PlannedOnce'
      /\ ResumeOncePerBoot'
  BY DEF OneServer, NoTerminalLeftBehind, SavesAreCurrent, PlannedOnce,
     ResumeOncePerBoot, OfThisBoot, RecoverEntry, disk, tmux, process, history
<1>2. NodeTypes'
  BY <1>0, <1>w, <1>e DEF NodeTypes, RecoverEntry, Idle, Decide, decide_recover, disk,
     tmux, process, history
<1>3. IdsAreUsed'
  BY <1>w, <1>e DEF NodeTypes, IdsAreUsed, RecoverEntry, Idle, Decide, decide_recover,
     disk, tmux
<1>4. Stages'
  BY <1>w, <1>e DEF NodeTypes, Stages, Threads, RecoverEntry, Idle, Decide,
     decide_recover, disk, process
<1>5. TypedIsSettled'
  BY <1>0, <1>w, <1>e DEF NodeTypes, Stages, SavesAreCurrent, TypedIsSettled,
     OfThisBoot, Threads, RecoverEntry, Idle, Decide, decide_recover, disk, process,
     history
<1> QED BY <1>1, <1>2, <1>3, <1>4, <1>5

(* An entry is given up. *)
LEMMA DropEntryKeeps ==
    ASSUME NodeInv, NEW t \in Terminals, DropEntry(t)
    PROVE  NodeInv'
<1> USE NodeAssumption DEF NodeInv
<1>0. boot \in Nat
  BY DEF NodeTypes
<1>w. /\ Without(todo, t) \in Maps /\ DOMAIN Without(todo, t) = DOMAIN todo \ {t}
      /\ OfThisBoot(todo) => OfThisBoot(Without(todo, t))
  BY WithoutIs DEF NodeTypes
<1>e. todo[t].boot \in Nat /\ todo[t].resume \in Agents \cup {NoAgent}
  BY MapHas DEF NodeTypes, DropEntry
<1>1. /\ OneServer' /\ NoTerminalLeftBehind' /\ SavesAreCurrent' /\ PlannedOnce'
      /\ ResumeOncePerBoot'
  BY DEF OneServer, NoTerminalLeftBehind, SavesAreCurrent, PlannedOnce,
     ResumeOncePerBoot, OfThisBoot, DropEntry, disk, tmux, process, history
<1>2. NodeTypes'
  BY <1>0, <1>w, <1>e DEF NodeTypes, DropEntry, Idle, Decide, decide_recover, disk,
     memory, tmux, process, history
<1>3. IdsAreUsed'
  BY <1>w, <1>e DEF NodeTypes, IdsAreUsed, DropEntry, Idle, Decide, decide_recover,
     disk, memory, tmux
<1>4. Stages'
  BY <1>w, <1>e DEF NodeTypes, Stages, Threads, DropEntry, Idle, Decide,
     decide_recover, disk, process
<1>5. TypedIsSettled'
  BY <1>0, <1>w, <1>e DEF NodeTypes, Stages, SavesAreCurrent, TypedIsSettled,
     OfThisBoot, Threads, DropEntry, Idle, Decide, decide_recover, disk, process, history
<1> QED BY <1>1, <1>2, <1>3, <1>4, <1>5

(* A session that died with the reboot is made again: nothing was typed in *)
(* this boot then, or the file would not have its old entry.               *)
LEMMA ReviveEntryKeeps ==
    ASSUME NodeInv, NEW t \in Terminals, ReviveEntry(t)
    PROVE  NodeInv'
<1> USE NodeAssumption DEF NodeInv
<1>0. boot \in Nat
  BY DEF NodeTypes
<1>w. /\ Without(todo, t) \in Maps /\ DOMAIN Without(todo, t) = DOMAIN todo \ {t}
      /\ OfThisBoot(todo) => OfThisBoot(Without(todo, t))
  BY WithoutIs DEF NodeTypes
<1>e. todo[t].boot \in Nat /\ todo[t].resume \in Agents \cup {NoAgent}
  BY MapHas DEF NodeTypes, ReviveEntry
<1>z. typed[t] = 0
  BY <1>e DEF ReviveEntry, Decide, decide_recover, NodeTypes, TypedIsSettled, OfThisBoot
<1>1. ResumeOncePerBoot'
  BY DEF ResumeOncePerBoot, ReviveEntry, NewSession, history
<1>2. NodeTypes'
  BY <1>0, <1>w, <1>e DEF NodeTypes, ReviveEntry, NewSession, Idle, Decide,
     decide_recover, disk, memory, process, history
<1>3. IdsAreUsed'
  BY <1>w, <1>e DEF NodeTypes, IdsAreUsed, ReviveEntry, NewSession, Idle, Decide,
     decide_recover, disk, memory
<1>4. OneServer'
  BY <1>w, <1>e DEF NodeTypes, OneServer, NoTerminalLeftBehind, ReviveEntry,
     NewSession, Idle, Decide, decide_recover
<1>5. NoTerminalLeftBehind'
  BY <1>w, <1>e DEF NodeTypes, OneServer, NoTerminalLeftBehind, ReviveEntry,
     NewSession, Idle, Decide, decide_recover, process
<1>6. Stages'
  BY <1>w, <1>e DEF NodeTypes, Stages, Threads, ReviveEntry, NewSession, Idle, Decide,
     decide_recover, disk, process
<1>7. SavesAreCurrent'
  BY <1>0, <1>w, <1>e DEF NodeTypes, Stages, SavesAreCurrent, OfThisBoot, Threads,
     ReviveEntry, NewSession, Idle, Decide, decide_recover, disk, process
<1>8. TypedIsSettled'
  BY <1>0, <1>w, <1>e DEF NodeTypes, Stages, SavesAreCurrent, TypedIsSettled,
     OfThisBoot, Threads, ReviveEntry, NewSession, Idle, Decide, decide_recover, disk,
     process, history
<1>9. PlannedOnce'
  BY <1>0, <1>z DEF NodeTypes, Stages, TypedIsSettled, PlannedOnce, OfThisBoot,
     ReviveEntry, NewSession, Idle, Decide, decide_recover, process, history
<1> QED BY <1>1, <1>2, <1>3, <1>4, <1>5, <1>6, <1>7, <1>8, <1>9

(* The rewrite copies what was recovered. *)
LEMMA RewriteKeeps ==
    ASSUME NodeInv, Rewrite
    PROVE  NodeInv'
<1> USE NodeAssumption DEF NodeInv
<1>0. boot \in Nat
  BY DEF NodeTypes
<1>s. /\ saver' \in [Threads -> [step : {"idle", "copied", "opened", "filled"},
                                map : Maps, on : {"tmp", "file", "gone"}]]
      /\ saver'["main"].step = "copied" /\ saver'["main"].on = "tmp"
      /\ DOMAIN saver'["main"].map = sessions /\ OfThisBoot(saver'["main"].map)
      /\ \A v \in Threads : v # "main" => saver'[v] = saver[v]
  <2>1. Copy("main", sessions, resume) /\ "main" \in Threads
    BY DEF Rewrite, Threads
  <2>2. sessions \in SUBSET Terminals /\ resume \in [Terminals -> Agents \cup {NoAgent}]
    BY DEF NodeTypes
  <2> QED BY <2>1, <2>2, CopyIs
<1>1. OneServer' /\ NoTerminalLeftBehind' /\ TypedIsSettled' /\ ResumeOncePerBoot'
  BY DEF OneServer, NoTerminalLeftBehind, TypedIsSettled, ResumeOncePerBoot,
     OfThisBoot, Rewrite, tmux, process, recovery, history
<1>2. NodeTypes'
  BY <1>0, <1>s DEF NodeTypes, Rewrite, Idle, NoTask, memory, tmux, process, recovery,
     history
<1>3. IdsAreUsed'
  BY <1>s DEF NodeTypes, IdsAreUsed, Rewrite, Idle, NoTask, memory, tmux, recovery
<1>4. Stages'
  BY <1>s DEF NodeTypes, Stages, Threads, Rewrite, Idle, NoTask, process, recovery
<1>5. SavesAreCurrent'
  BY <1>0, <1>s DEF NodeTypes, Stages, SavesAreCurrent, OfThisBoot, Threads, Rewrite,
     Idle, NoTask, process
<1>6. PlannedOnce'
  BY <1>0, <1>s DEF NodeTypes, Stages, TypedIsSettled, PlannedOnce, OfThisBoot,
     Rewrite, Idle, NoTask, process, recovery, history
<1> QED BY <1>1, <1>2, <1>3, <1>4, <1>5, <1>6

(* The node is up once the rewrite is in the file. *)
LEMMA RecoveryEndsKeeps ==
    ASSUME NodeInv, RecoveryEnds
    PROVE  NodeInv'
<1> USE NodeAssumption DEF NodeInv
<1>0. boot \in Nat
  BY DEF NodeTypes
<1>1. OneServer' /\ ResumeOncePerBoot'
  BY DEF OneServer, ResumeOncePerBoot, RecoveryEnds, tmux, history
<1>2. NodeTypes'
  BY <1>0 DEF NodeTypes, RecoveryEnds, NoTask, disk, memory, tmux, recovery, history
<1>3. IdsAreUsed'
  BY DEF NodeTypes, IdsAreUsed, RecoveryEnds, NoTask, disk, memory, tmux, recovery
<1>4. NoTerminalLeftBehind'
  BY DEF NodeTypes, OneServer, NoTerminalLeftBehind, RecoveryEnds, NoTask, tmux,
     Stages
<1>5. Stages'
  BY DEF NodeTypes, Stages, Threads, RecoveryEnds, NoTask, disk, recovery
<1>6. SavesAreCurrent'
  BY <1>0 DEF NodeTypes, Stages, SavesAreCurrent, OfThisBoot, Threads, RecoveryEnds,
     NoTask, disk
<1>7. TypedIsSettled'
  BY <1>0 DEF NodeTypes, Stages, SavesAreCurrent, TypedIsSettled, OfThisBoot, Threads,
     RecoveryEnds, NoTask, disk, recovery, history
<1>8. PlannedOnce'
  BY <1>0 DEF NodeTypes, Stages, TypedIsSettled, PlannedOnce, OfThisBoot,
     RecoveryEnds, NoTask, recovery, history
<1> QED BY <1>1, <1>2, <1>3, <1>4, <1>5, <1>6, <1>7, <1>8

(* A resume command is typed, or withheld. *)
LEMMA TypeResumeKeeps ==
    ASSUME NodeInv, NEW t \in Terminals, TypeResume(t)
    PROVE  NodeInv'
<1> USE NodeAssumption DEF NodeInv
<1>0. boot \in Nat
  BY DEF NodeTypes
<1>1. IdsAreUsed' /\ Stages' /\ SavesAreCurrent'
  BY DEF IdsAreUsed, Stages, SavesAreCurrent, OfThisBoot, TypeResume, disk, memory,
     process
<1>2. NodeTypes'
  BY <1>0 DEF NodeTypes, TypeResume, Typed, disk, memory, process
<1>3. OneServer'
  BY DEF NodeTypes, OneServer, NoTerminalLeftBehind, TypeResume, Typed
<1>4. NoTerminalLeftBehind'
  BY DEF NodeTypes, OneServer, NoTerminalLeftBehind, TypeResume, Typed, process
<1>5. TypedIsSettled'
  BY <1>0 DEF NodeTypes, Stages, SavesAreCurrent, TypedIsSettled, OfThisBoot, Threads,
     TypeResume, Typed, disk, process
<1>6. PlannedOnce'
  BY <1>0 DEF NodeTypes, Stages, TypedIsSettled, PlannedOnce, OfThisBoot, TypeResume,
     Typed, process
<1>7. ResumeOncePerBoot'
  BY DEF NodeTypes, PlannedOnce, ResumeOncePerBoot, TypeResume, Typed
<1> QED BY <1>1, <1>2, <1>3, <1>4, <1>5, <1>6, <1>7

(* A session for a new terminal. *)
LEMMA CreateTerminalKeeps ==
    ASSUME NodeInv, NEW t \in Terminals, NEW a \in Agents \cup {NoAgent}, CreateTerminal(t, a)
    PROVE  NodeInv'
<1> USE NodeAssumption DEF NodeInv
<1>0. boot \in Nat
  BY DEF NodeTypes
<1>1. TypedIsSettled' /\ ResumeOncePerBoot'
  BY DEF TypedIsSettled, ResumeOncePerBoot, OfThisBoot, CreateTerminal, NewSession,
     disk, process, recovery, history
<1>2. NodeTypes'
  BY <1>0 DEF NodeTypes, CreateTerminal, NewSession, Idle, disk, memory, process,
     recovery, history
<1>3. IdsAreUsed'
  BY DEF NodeTypes, IdsAreUsed, CreateTerminal, NewSession, Idle, disk, memory,
     recovery
<1>4. OneServer'
  BY DEF NodeTypes, OneServer, NoTerminalLeftBehind, CreateTerminal, NewSession, Idle
<1>5. NoTerminalLeftBehind'
  BY DEF NodeTypes, OneServer, NoTerminalLeftBehind, CreateTerminal, NewSession, Idle,
     process
<1>6. Stages'
  BY DEF NodeTypes, Stages, Threads, CreateTerminal, NewSession, Idle, disk, process,
     recovery
<1>7. SavesAreCurrent'
  BY <1>0 DEF NodeTypes, Stages, SavesAreCurrent, OfThisBoot, Threads, CreateTerminal,
     NewSession, Idle, disk, process
<1>8. PlannedOnce'
  BY <1>0 DEF NodeTypes, Stages, TypedIsSettled, PlannedOnce, OfThisBoot,
     CreateTerminal, NewSession, Idle, process, recovery, history
<1> QED BY <1>1, <1>2, <1>3, <1>4, <1>5, <1>6, <1>7, <1>8

(* The new terminal is known, and copied for its save. *)
LEMMA InsertKeeps ==
    ASSUME NodeInv, Insert
    PROVE  NodeInv'
<1> USE NodeAssumption DEF NodeInv
<1>0. boot \in Nat
  BY DEF NodeTypes
<1>s. /\ saver' \in [Threads -> [step : {"idle", "copied", "opened", "filled"},
                                map : Maps, on : {"tmp", "file", "gone"}]]
      /\ saver'["main"].step = "copied" /\ saver'["main"].on = "tmp"
      /\ DOMAIN saver'["main"].map = sessions' /\ OfThisBoot(saver'["main"].map)
      /\ \A v \in Threads : v # "main" => saver'[v] = saver[v]
  <2>1. Copy("main", sessions', resume) /\ "main" \in Threads
    BY DEF Insert, Threads
  <2>2. sessions' \in SUBSET Terminals
    BY DEF NodeTypes, Insert
  <2>3. resume \in [Terminals -> Agents \cup {NoAgent}]
    BY DEF NodeTypes
  <2> QED BY <2>1, <2>2, <2>3, CopyIs
<1>1. OneServer' /\ NoTerminalLeftBehind' /\ TypedIsSettled' /\ ResumeOncePerBoot'
  BY DEF OneServer, NoTerminalLeftBehind, TypedIsSettled, ResumeOncePerBoot,
     OfThisBoot, Insert, tmux, process, recovery, history
<1>2. NodeTypes'
  BY <1>0, <1>s DEF NodeTypes, Insert, tmux, process, recovery, history
<1>3. IdsAreUsed'
  BY <1>s DEF NodeTypes, IdsAreUsed, Insert, tmux, recovery
<1>4. Stages'
  BY <1>s DEF NodeTypes, Stages, Threads, Insert, process, recovery, NoTask
<1>5. SavesAreCurrent'
  BY <1>0, <1>s DEF NodeTypes, Stages, SavesAreCurrent, OfThisBoot, Threads, Insert,
     process
<1>6. PlannedOnce'
  BY <1>0, <1>s DEF NodeTypes, Stages, TypedIsSettled, PlannedOnce, OfThisBoot,
     Insert, process, recovery, history
<1> QED BY <1>1, <1>2, <1>3, <1>4, <1>5, <1>6

(* A saved terminal is planned for, or its agent is to be started. *)
LEMMA SavedKeeps ==
    ASSUME NodeInv, Saved
    PROVE  NodeInv'
<1> USE NodeAssumption DEF NodeInv
<1>0. boot \in Nat
  BY DEF NodeTypes
<1>1. OneServer' /\ NoTerminalLeftBehind' /\ TypedIsSettled' /\ ResumeOncePerBoot'
  BY DEF OneServer, NoTerminalLeftBehind, TypedIsSettled, ResumeOncePerBoot,
     OfThisBoot, Saved, disk, tmux, process, history
<1>2. NodeTypes'
  BY <1>0 DEF NodeTypes, Saved, NoTask, disk, tmux, process, history
<1>3. IdsAreUsed'
  BY DEF NodeTypes, IdsAreUsed, Saved, NoTask, disk, tmux
<1>4. Stages'
  BY DEF NodeTypes, Stages, Threads, Saved, NoTask, disk, process
<1>5. SavesAreCurrent'
  BY <1>0 DEF NodeTypes, Stages, SavesAreCurrent, OfThisBoot, Threads, Saved, NoTask,
     disk, process
<1>6. PlannedOnce'
  BY <1>0 DEF NodeTypes, Stages, TypedIsSettled, PlannedOnce, OfThisBoot, Saved,
     NoTask, process, history
<1> QED BY <1>1, <1>2, <1>3, <1>4, <1>5, <1>6

(* A startup command is typed. *)
LEMMA TypeStartupKeeps ==
    ASSUME NodeInv, NEW s \in startups, TypeStartup(s)
    PROVE  NodeInv'
<1> USE NodeAssumption DEF NodeInv
<1>0. boot \in Nat
  BY DEF NodeTypes
<1>1. /\ IdsAreUsed' /\ Stages' /\ SavesAreCurrent' /\ TypedIsSettled' /\ PlannedOnce'
      /\ ResumeOncePerBoot'
  BY DEF IdsAreUsed, Stages, SavesAreCurrent, TypedIsSettled, PlannedOnce,
     ResumeOncePerBoot, OfThisBoot, TypeStartup, disk, memory, process, recovery, history
<1>2. NodeTypes'
  BY <1>0 DEF NodeTypes, TypeStartup, Typed, disk, memory, process, recovery, history
<1>3. OneServer'
  BY DEF NodeTypes, OneServer, NoTerminalLeftBehind, TypeStartup, Typed
<1>4. NoTerminalLeftBehind'
  BY DEF NodeTypes, OneServer, NoTerminalLeftBehind, TypeStartup, Typed, process
<1> QED BY <1>1, <1>2, <1>3, <1>4

(* A terminal is forgotten. *)
LEMMA DestroyTerminalKeeps ==
    ASSUME NodeInv, NEW t \in Terminals, DestroyTerminal(t)
    PROVE  NodeInv'
<1> USE NodeAssumption DEF NodeInv
<1>0. boot \in Nat
  BY DEF NodeTypes
<1>1. OneServer' /\ NoTerminalLeftBehind' /\ TypedIsSettled' /\ ResumeOncePerBoot'
  BY DEF OneServer, NoTerminalLeftBehind, TypedIsSettled, ResumeOncePerBoot,
     OfThisBoot, DestroyTerminal, disk, tmux, process, recovery, history
<1>2. NodeTypes'
  BY <1>0 DEF NodeTypes, DestroyTerminal, Idle, disk, tmux, process, recovery, history
<1>3. IdsAreUsed'
  BY DEF NodeTypes, IdsAreUsed, DestroyTerminal, Idle, disk, tmux, recovery
<1>4. Stages'
  BY DEF NodeTypes, Stages, Threads, DestroyTerminal, Idle, disk, process, recovery
<1>5. SavesAreCurrent'
  BY <1>0 DEF NodeTypes, Stages, SavesAreCurrent, OfThisBoot, Threads,
     DestroyTerminal, Idle, disk, process
<1>6. PlannedOnce'
  BY <1>0 DEF NodeTypes, Stages, TypedIsSettled, PlannedOnce, OfThisBoot,
     DestroyTerminal, Idle, process, recovery, history
<1> QED BY <1>1, <1>2, <1>3, <1>4, <1>5, <1>6

(* Its session is killed and the rest copied for a save. *)
LEMMA KillSessionKeeps ==
    ASSUME NodeInv, KillSession
    PROVE  NodeInv'
<1> USE NodeAssumption DEF NodeInv
<1>0. boot \in Nat
  BY DEF NodeTypes
<1>s. /\ saver' \in [Threads -> [step : {"idle", "copied", "opened", "filled"},
                                map : Maps, on : {"tmp", "file", "gone"}]]
      /\ saver'["main"].step = "copied" /\ saver'["main"].on = "tmp"
      /\ DOMAIN saver'["main"].map = sessions /\ OfThisBoot(saver'["main"].map)
      /\ \A v \in Threads : v # "main" => saver'[v] = saver[v]
  <2>1. Copy("main", sessions, resume') /\ "main" \in Threads
    BY DEF KillSession, Threads
  <2>2. sessions \in SUBSET Terminals
    BY DEF NodeTypes
  <2>3. resume' \in [Terminals -> Agents \cup {NoAgent}]
    BY DEF NodeTypes, KillSession
  <2> QED BY <2>1, <2>2, <2>3, CopyIs
<1>1. TypedIsSettled' /\ ResumeOncePerBoot'
  BY DEF TypedIsSettled, ResumeOncePerBoot, OfThisBoot, KillSession, process, recovery
<1>2. NodeTypes'
  BY <1>0, <1>s DEF NodeTypes, KillSession, process, recovery
<1>3. IdsAreUsed'
  BY <1>s DEF NodeTypes, IdsAreUsed, KillSession, recovery
<1>4. OneServer'
  BY <1>s DEF NodeTypes, OneServer, NoTerminalLeftBehind, KillSession
<1>5. NoTerminalLeftBehind'
  BY <1>s DEF NodeTypes, OneServer, NoTerminalLeftBehind, KillSession, process
<1>6. Stages'
  BY <1>s DEF NodeTypes, Stages, Threads, KillSession, process, recovery
<1>7. SavesAreCurrent'
  BY <1>0, <1>s DEF NodeTypes, Stages, SavesAreCurrent, OfThisBoot, Threads,
     KillSession, process
<1>8. PlannedOnce'
  BY <1>0, <1>s DEF NodeTypes, Stages, TypedIsSettled, PlannedOnce, OfThisBoot,
     KillSession, process, recovery
<1> QED BY <1>1, <1>2, <1>3, <1>4, <1>5, <1>6, <1>7, <1>8

(* The poll looks at the panes. *)
LEMMA PollLookKeeps ==
    ASSUME NodeInv, PollLook
    PROVE  NodeInv'
<1> USE NodeAssumption DEF NodeInv
<1>0. boot \in Nat
  BY DEF NodeTypes
<1>l. \A heard : resume_commands(heard) \in Looks
  <2> SUFFICES ASSUME NEW heard PROVE resume_commands(heard) \in Looks
    OBVIOUS
  <2>1. Alive(pinned) \in SUBSET Terminals /\ resume_commands(heard) \in [Alive(pinned) -> Seen]
    BY DEF resume_commands, Seen, Alive, parse_pane_info
  <2> QED BY <2>1 DEF Looks
<1>t. PICK heard : poll' = [poll EXCEPT !.step = "looked", !.saw = resume_commands(heard)]
  BY DEF PollLook
<1>p. poll' \in [step : {"idle", "looked", "merged"}, saw : Looks, heard : BOOLEAN]
  <2>1. resume_commands(heard) \in Looks
    BY <1>l
  <2> QED BY <1>t, <2>1 DEF NodeTypes
<1>1. /\ IdsAreUsed' /\ OneServer' /\ NoTerminalLeftBehind' /\ SavesAreCurrent'
      /\ TypedIsSettled' /\ PlannedOnce' /\ ResumeOncePerBoot'
  BY DEF IdsAreUsed, OneServer, NoTerminalLeftBehind, SavesAreCurrent, TypedIsSettled,
     PlannedOnce, ResumeOncePerBoot, OfThisBoot, PollLook, disk, memory, tmux, process,
     recovery, history
<1>2. NodeTypes'
  BY <1>0, <1>p DEF NodeTypes, PollLook, disk, memory, tmux, process, recovery,
     history
<1>3. Stages'
  BY DEF NodeTypes, Stages, Threads, PollLook, resume_commands, parse_pane_info,
     Alive, disk, process, recovery
<1> QED BY <1>1, <1>2, <1>3

(* The poll merges what it saw, and copies it when something changed. *)
LEMMA PollMergeKeeps ==
    ASSUME NodeInv, PollMerge
    PROVE  NodeInv'
<1> USE NodeAssumption DEF NodeInv
<1>0. boot \in Nat
  BY DEF NodeTypes
<1>r. resume' \in [Terminals -> Agents \cup {NoAgent}]
  BY LookHas DEF NodeTypes, PollMerge
<1>s. /\ saver' \in [Threads -> [step : {"idle", "copied", "opened", "filled"},
                                map : Maps, on : {"tmp", "file", "gone"}]]
      /\ saver'["main"] = saver["main"]
      /\ \/ saver' = saver
         \/ /\ saver'["poll"].step = "copied" /\ saver'["poll"].on = "tmp"
            /\ DOMAIN saver'["poll"].map = sessions /\ OfThisBoot(saver'["poll"].map)
  <2>1. CASE resume' = resume
    BY <2>1 DEF PollMerge, NodeTypes, Threads
  <2>2. CASE resume' # resume
    <3>1. Copy("poll", sessions, resume')
      BY <2>2 DEF PollMerge
    <3> QED BY <1>r, <3>1, CopyIs DEF NodeTypes, Threads
  <2> QED BY <2>1, <2>2
<1>1. /\ OneServer' /\ NoTerminalLeftBehind' /\ TypedIsSettled' /\ PlannedOnce'
      /\ ResumeOncePerBoot'
  BY DEF OneServer, NoTerminalLeftBehind, TypedIsSettled, PlannedOnce,
     ResumeOncePerBoot, OfThisBoot, PollMerge, tmux, process, recovery, history
<1>2. NodeTypes'
  BY <1>0, <1>r, <1>s DEF NodeTypes, PollMerge, tmux, process, recovery, history
<1>3. IdsAreUsed'
  BY <1>r, <1>s DEF NodeTypes, IdsAreUsed, PollMerge, tmux, recovery, Threads
<1>4. Stages'
  BY <1>r, <1>s DEF NodeTypes, Stages, Threads, PollMerge, process, recovery
<1>5. SavesAreCurrent'
  BY <1>0, <1>r, <1>s DEF NodeTypes, Stages, SavesAreCurrent, OfThisBoot, Threads,
     PollMerge, process
<1> QED BY <1>1, <1>2, <1>3, <1>4, <1>5

(* The poll reports. *)
LEMMA PollReportKeeps ==
    ASSUME NodeInv, PollReport
    PROVE  NodeInv'
<1> USE NodeAssumption DEF NodeInv
<1>0. boot \in Nat
  BY DEF NodeTypes
<1>1. /\ IdsAreUsed' /\ OneServer' /\ NoTerminalLeftBehind' /\ SavesAreCurrent'
      /\ TypedIsSettled' /\ PlannedOnce' /\ ResumeOncePerBoot'
  BY DEF IdsAreUsed, OneServer, NoTerminalLeftBehind, SavesAreCurrent, TypedIsSettled,
     PlannedOnce, ResumeOncePerBoot, OfThisBoot, PollReport, disk, memory, tmux, process,
     recovery, history
<1>2. NodeTypes'
  BY <1>0, NoLookIs DEF NodeTypes, PollReport, NoPoll, disk, memory, tmux, process,
     recovery, history
<1>3. Stages'
  BY DEF NodeTypes, Stages, Threads, PollReport, NoPoll, disk, process, recovery
<1> QED BY <1>1, <1>2, <1>3

(* The hub forgets what it was told. *)
LEMMA ConnectionBreaksKeeps ==
    ASSUME NodeInv, ConnectionBreaks
    PROVE  NodeInv'
<1> USE NodeAssumption DEF NodeInv
<1>0. boot \in Nat
  BY DEF NodeTypes
<1>1. /\ IdsAreUsed' /\ OneServer' /\ NoTerminalLeftBehind' /\ SavesAreCurrent'
      /\ TypedIsSettled' /\ PlannedOnce' /\ ResumeOncePerBoot'
  BY DEF IdsAreUsed, OneServer, NoTerminalLeftBehind, SavesAreCurrent, TypedIsSettled,
     PlannedOnce, ResumeOncePerBoot, OfThisBoot, ConnectionBreaks, disk, memory, tmux,
     process, recovery, history
<1>2. NodeTypes'
  BY <1>0 DEF NodeTypes, ConnectionBreaks, disk, memory, tmux, process, recovery,
     history
<1>3. Stages'
  BY DEF NodeTypes, Stages, Threads, ConnectionBreaks, disk, process, recovery
<1> QED BY <1>1, <1>2, <1>3

(* An agent is started by hand. *)
LEMMA AgentRunsKeeps ==
    ASSUME NodeInv, NEW t \in Terminals, NEW a \in Agents, AgentRuns(t, a)
    PROVE  NodeInv'
<1> USE NodeAssumption DEF NodeInv
<1>0. boot \in Nat
  BY DEF NodeTypes
<1>1. /\ IdsAreUsed' /\ Stages' /\ SavesAreCurrent' /\ TypedIsSettled' /\ PlannedOnce'
      /\ ResumeOncePerBoot'
  BY DEF IdsAreUsed, Stages, SavesAreCurrent, TypedIsSettled, PlannedOnce,
     ResumeOncePerBoot, OfThisBoot, AgentRuns, disk, memory, process, recovery, history
<1>2. NodeTypes'
  BY <1>0 DEF NodeTypes, AgentRuns, disk, memory, process, recovery, history
<1>3. OneServer'
  BY DEF NodeTypes, OneServer, NoTerminalLeftBehind, AgentRuns
<1>4. NoTerminalLeftBehind'
  BY DEF NodeTypes, OneServer, NoTerminalLeftBehind, AgentRuns, process
<1> QED BY <1>1, <1>2, <1>3, <1>4

(* An agent ends. *)
LEMMA AgentExitsKeeps ==
    ASSUME NodeInv, NEW t \in Terminals, AgentExits(t)
    PROVE  NodeInv'
<1> USE NodeAssumption DEF NodeInv
<1>0. boot \in Nat
  BY DEF NodeTypes
<1>1. /\ IdsAreUsed' /\ Stages' /\ SavesAreCurrent' /\ TypedIsSettled' /\ PlannedOnce'
      /\ ResumeOncePerBoot'
  BY DEF IdsAreUsed, Stages, SavesAreCurrent, TypedIsSettled, PlannedOnce,
     ResumeOncePerBoot, OfThisBoot, AgentExits, disk, memory, process, recovery, history
<1>2. NodeTypes'
  BY <1>0 DEF NodeTypes, AgentExits, disk, memory, process, recovery, history
<1>3. OneServer'
  BY DEF NodeTypes, OneServer, NoTerminalLeftBehind, AgentExits
<1>4. NoTerminalLeftBehind'
  BY DEF NodeTypes, OneServer, NoTerminalLeftBehind, AgentExits, process
<1> QED BY <1>1, <1>2, <1>3, <1>4

(* A session ends. *)
LEMMA ShellExitsKeeps ==
    ASSUME NodeInv, NEW t \in Terminals, ShellExits(t)
    PROVE  NodeInv'
<1> USE NodeAssumption DEF NodeInv
<1>0. boot \in Nat
  BY DEF NodeTypes
<1>1. /\ IdsAreUsed' /\ Stages' /\ SavesAreCurrent' /\ TypedIsSettled' /\ PlannedOnce'
      /\ ResumeOncePerBoot'
  BY DEF IdsAreUsed, Stages, SavesAreCurrent, TypedIsSettled, PlannedOnce,
     ResumeOncePerBoot, OfThisBoot, ShellExits, disk, memory, process, recovery
<1>2. NodeTypes'
  BY <1>0 DEF NodeTypes, ShellExits, disk, memory, process, recovery
<1>3. OneServer'
  BY DEF NodeTypes, OneServer, NoTerminalLeftBehind, ShellExits
<1>4. NoTerminalLeftBehind'
  BY DEF NodeTypes, OneServer, NoTerminalLeftBehind, ShellExits, process
<1> QED BY <1>1, <1>2, <1>3, <1>4

(* A thread truncates the temporary file, whoever else has it open. *)
LEMMA OpenTmpKeeps ==
    ASSUME NodeInv, NEW w \in Threads, OpenTmp(w)
    PROVE  NodeInv'
<1> USE NodeAssumption DEF NodeInv
<1>0. boot \in Nat
  BY DEF NodeTypes
<1>1. /\ OneServer' /\ NoTerminalLeftBehind' /\ TypedIsSettled' /\ PlannedOnce'
      /\ ResumeOncePerBoot'
  BY DEF OneServer, NoTerminalLeftBehind, TypedIsSettled, PlannedOnce,
     ResumeOncePerBoot, OfThisBoot, OpenTmp, tmux, process, recovery, history
<1>2. NodeTypes'
  <2>1. saver' \in [Threads -> [step : {"idle", "copied", "opened", "filled"},
                                 map : Maps, on : {"tmp", "file", "gone"}]]
    <3> DEFINE s == [saver[w] EXCEPT !.step = "opened"]
    <3>1. saver \in [Threads -> [step : {"idle", "copied", "opened", "filled"},
                                 map : Maps, on : {"tmp", "file", "gone"}]]
      BY DEF NodeTypes
    <3>2. s \in [step : {"idle", "copied", "opened", "filled"}, map : Maps,
                 on : {"tmp", "file", "gone"}]
      BY <3>1
    <3>3. saver' = [saver EXCEPT ![w] = s]
      BY DEF OpenTmp
    <3> HIDE DEF s
    <3> QED BY <3>1, <3>2, <3>3
  <2>2. tmp' \in [kind : {"whole", "torn", "missing"}, map : Maps] /\ tmp'.kind # "missing"
    BY NoMapIs DEF OpenTmp, Torn
  <2>3. UNCHANGED <<file, boot, node, pinned, starts, pane, sock, used, sessions, resume, main,
                    todo, seen, plan, startups, poll, typed>>
    BY DEF OpenTmp, memory, tmux, process, recovery, history
  <2> QED BY <2>1, <2>2, <2>3 DEF NodeTypes
<1>3. IdsAreUsed'
  BY NoMapIs, NoMapOfThisBoot DEF NodeTypes, IdsAreUsed, OpenTmp, Torn, memory, tmux,
     recovery
<1>4. Stages'
  BY NoMapIs, NoMapOfThisBoot DEF NodeTypes, Stages, Threads, OpenTmp, Torn, process,
     recovery
<1>5. SavesAreCurrent'
  BY <1>0, NoMapIs, NoMapOfThisBoot DEF NodeTypes, Stages, SavesAreCurrent,
     OfThisBoot, Threads, OpenTmp, Torn, process
<1> QED BY <1>1, <1>2, <1>3, <1>4, <1>5

(* A thread writes, wherever the file it has open is by now. *)
LEMMA FillKeeps ==
    ASSUME NodeInv, NEW w \in Threads, Fill(w)
    PROVE  NodeInv'
<1> USE NodeAssumption DEF NodeInv
<1>0. boot \in Nat
  BY DEF NodeTypes
<1>s. /\ saver' \in [Threads -> [step : {"idle", "copied", "opened", "filled"},
                                map : Maps, on : {"tmp", "file", "gone"}]]
      /\ saver'[w].step = "filled" /\ saver'[w].map = saver[w].map
      /\ saver'[w].on = saver[w].on
      /\ \A v \in Threads : v # w => saver'[v] = saver[v]
  BY DEF Fill, NodeTypes
<1>m. saver[w].map \in Maps
  BY DEF NodeTypes
<1>f. /\ UNCHANGED file \/ /\ saver[w].on = "file"
                           /\ file' \in [kind : {"whole", "torn"}, map : Maps]
                           /\ file'.map \in {saver[w].map, NoMap}
      /\ UNCHANGED tmp \/ /\ saver[w].on = "tmp"
                          /\ tmp' \in [kind : {"whole", "torn"}, map : Maps]
                          /\ tmp'.kind # "missing" /\ tmp'.map \in {saver[w].map, NoMap}
  BY <1>m, WrittenIs DEF Fill
<1>1. OneServer' /\ NoTerminalLeftBehind' /\ PlannedOnce' /\ ResumeOncePerBoot'
  BY DEF OneServer, NoTerminalLeftBehind, PlannedOnce, ResumeOncePerBoot, OfThisBoot,
     Fill, tmux, process, recovery, history
<1>2. NodeTypes'
  BY <1>0, <1>s, <1>m, <1>f, NoMapIs, NoMapOfThisBoot DEF NodeTypes, Fill, memory,
     tmux, process, recovery, history
<1>3. IdsAreUsed'
  BY <1>s, <1>m, <1>f, NoMapIs, NoMapOfThisBoot DEF NodeTypes, IdsAreUsed, Fill,
     memory, tmux, recovery
<1>4. Stages'
  BY <1>s, <1>m, <1>f, NoMapIs, NoMapOfThisBoot DEF NodeTypes, Stages, Threads, Fill,
     process, recovery
<1>5. SavesAreCurrent'
  <2>1. UNCHANGED <<node, boot, main>> /\ saver[w].step = "opened"
    BY DEF Fill, process
  <2>2. \A v \in Threads : /\ saver'[v].map = saver[v].map /\ saver'[v].on = saver[v].on
                           /\ saver'[v].step \in {"opened", "filled"}
                                => saver[v].step \in {"opened", "filled"}
                           /\ saver'[v].step \in {"idle", "copied"} => saver'[v] = saver[v]
    BY <1>s, <2>1
  <2>3. /\ tmp'.map \in {tmp.map, saver[w].map, NoMap}
        /\ tmp.kind # "missing" => tmp'.kind # "missing"
    BY <1>f
  <2>4. file'.map = file.map \/ (saver[w].on = "file" /\ file'.map \in {saver[w].map, NoMap})
    BY <1>f
  <2>5. (\A v \in Threads : OfThisBoot(saver[v].map))'
    BY <2>1, <2>2 DEF SavesAreCurrent, OfThisBoot
  <2>6. (\A v \in Threads : saver[v].step \in {"opened", "filled"} => OfThisBoot(tmp.map))'
    BY <2>1, <2>2, <2>3, NoMapIs DEF SavesAreCurrent, OfThisBoot
  <2>7. (\A v \in Threads : saver[v].step = "copied" => saver[v].on = "tmp")'
    BY <2>2 DEF SavesAreCurrent
  <2>8. (node = "recovering" /\ saver["main"].step \in {"opened", "filled"}
           => saver["main"].on = "tmp" /\ tmp.kind # "missing")'
    BY <2>1, <2>2, <2>3 DEF SavesAreCurrent, Threads
  <2>9. (main.at = "last" /\ saver["main"].step = "idle" => OfThisBoot(file.map))'
    BY <2>1, <2>2, <2>4, NoMapIs DEF SavesAreCurrent, OfThisBoot, Threads
  <2> QED BY <2>5, <2>6, <2>7, <2>8, <2>9 DEF SavesAreCurrent
<1>6. TypedIsSettled'
  BY <1>0, <1>s, <1>m, <1>f, NoMapIs, NoMapOfThisBoot DEF NodeTypes, Stages,
     SavesAreCurrent, TypedIsSettled, OfThisBoot, Threads, Fill, process, recovery,
     history
<1> QED BY <1>1, <1>2, <1>3, <1>4, <1>5, <1>6

(* A thread renames what is there, perhaps under the other one. *)
LEMMA RenameKeeps ==
    ASSUME NodeInv, NEW w \in Threads, Rename(w)
    PROVE  NodeInv'
<1> USE NodeAssumption DEF NodeInv
<1>0. boot \in Nat
  BY DEF NodeTypes
<1>s. /\ saver' \in [Threads -> [step : {"idle", "copied", "opened", "filled"},
                                map : Maps, on : {"tmp", "file", "gone"}]]
      /\ saver'[w].step = "idle" /\ saver'[w].map = NoMap
      /\ \A v \in Threads : v # w => /\ saver'[v].step = saver[v].step
                                     /\ saver'[v].map = saver[v].map
                                     /\ saver[v].step = "copied" => saver'[v] = saver[v]
  <2>1. NotSaving \in [step : {"idle", "copied", "opened", "filled"}, map : Maps,
                       on : {"tmp", "file", "gone"}]
        /\ NotSaving.step = "idle" /\ NotSaving.map = NoMap
    BY NoMapIs DEF NotSaving
  <2>2. CASE tmp = Missing
    BY <2>1, <2>2 DEF Rename, NodeTypes
  <2>3. CASE tmp # Missing
    BY <2>1, <2>3 DEF Rename, NodeTypes
  <2> QED BY <2>2, <2>3
<1>f. /\ \/ UNCHANGED <<file, tmp>> /\ tmp.kind = "missing"
         \/ file' = tmp /\ tmp' = Missing
      /\ file' \in [kind : {"whole", "torn"}, map : Maps]
  BY DEF Rename, NodeTypes, Missing
<1>t. Missing \in [kind : {"whole", "torn", "missing"}, map : Maps] /\ Missing.map = NoMap
  BY NoMapIs DEF Missing
<1>1. OneServer' /\ NoTerminalLeftBehind' /\ PlannedOnce' /\ ResumeOncePerBoot'
  BY DEF OneServer, NoTerminalLeftBehind, PlannedOnce, ResumeOncePerBoot, OfThisBoot,
     Rename, tmux, process, recovery, history
<1>2. NodeTypes'
  BY <1>0, <1>s, <1>f, <1>t, NoMapIs, NoMapOfThisBoot DEF NodeTypes, Rename, Missing,
     memory, tmux, process, recovery, history
<1>3. IdsAreUsed'
  BY <1>s, <1>f, <1>t, NoMapIs, NoMapOfThisBoot DEF NodeTypes, IdsAreUsed, Rename,
     Missing, memory, tmux, recovery
<1>4. Stages'
  BY <1>s, <1>f, <1>t, NoMapIs, NoMapOfThisBoot DEF NodeTypes, Stages, Threads,
     Rename, Missing, process, recovery
<1>5. SavesAreCurrent'
  BY <1>0, <1>s, <1>f, <1>t, NoMapIs, NoMapOfThisBoot DEF NodeTypes, Stages,
     SavesAreCurrent, OfThisBoot, Threads, Rename, Missing, process
<1>6. TypedIsSettled'
  BY <1>0, <1>s, <1>f, <1>t, NoMapIs, NoMapOfThisBoot DEF NodeTypes, Stages,
     SavesAreCurrent, TypedIsSettled, OfThisBoot, Threads, Rename, Missing, process,
     recovery, history
<1> QED BY <1>1, <1>2, <1>3, <1>4, <1>5, <1>6

(* The process ends between any two steps. *)
LEMMA NodeCrashKeeps ==
    ASSUME NodeInv, NodeCrash
    PROVE  NodeInv'
<1> USE NodeAssumption DEF NodeInv
<1>0. boot \in Nat
  BY DEF NodeTypes
<1>1. OneServer' /\ ResumeOncePerBoot'
  BY DEF OneServer, ResumeOncePerBoot, NodeCrash, NodeStops, tmux, history
<1>2. NodeTypes'
  BY <1>0, NoMapIs, NoLookIs DEF NodeTypes, NodeCrash, NodeStops, NotSaving, NoTask,
     NoPoll, NoAgents, tmux, history
<1>3. IdsAreUsed'
  BY NoMapIs, NoMapOfThisBoot DEF NodeTypes, IdsAreUsed, NodeCrash, NodeStops,
     NotSaving, NoTask, NoPoll, NoAgents, tmux
<1>4. NoTerminalLeftBehind'
  BY NoMapIs, NoMapOfThisBoot DEF NodeTypes, OneServer, NoTerminalLeftBehind,
     NodeCrash, NodeStops, NotSaving, NoTask, NoPoll, NoAgents, tmux
<1>5. Stages'
  BY NoMapIs, NoMapOfThisBoot DEF NodeTypes, Stages, Threads, NodeCrash, NodeStops,
     NotSaving, NoTask, NoPoll, NoAgents
<1>6. SavesAreCurrent'
  BY <1>0, NoMapIs, NoMapOfThisBoot DEF NodeTypes, Stages, SavesAreCurrent,
     OfThisBoot, Threads, NodeCrash, NodeStops, NotSaving, NoTask, NoPoll, NoAgents
<1>7. TypedIsSettled'
  BY <1>0, NoMapIs, NoMapOfThisBoot DEF NodeTypes, Stages, SavesAreCurrent,
     TypedIsSettled, OfThisBoot, Threads, NodeCrash, NodeStops, NotSaving, NoTask,
     NoPoll, NoAgents, history
<1>8. PlannedOnce'
  BY <1>0, NoMapIs, NoMapOfThisBoot DEF NodeTypes, Stages, TypedIsSettled,
     PlannedOnce, OfThisBoot, NodeCrash, NodeStops, NotSaving, NoTask, NoPoll, NoAgents,
     history
<1> QED BY <1>1, <1>2, <1>3, <1>4, <1>5, <1>6, <1>7, <1>8

(* A reboot: no session runs, nothing is typed, every entry is of an old   *)
(* boot.                                                                   *)
LEMMA RebootKeeps ==
    ASSUME NodeInv, Reboot
    PROVE  NodeInv'
<1> USE NodeAssumption DEF NodeInv
<1>0. boot \in Nat
  BY DEF NodeTypes
<1>1. NodeTypes'
  BY <1>0, NoMapIs, NoLookIs DEF NodeTypes, Reboot, NodeStops, NotSaving, NoTask,
     NoPoll, NoAgents
<1>2. IdsAreUsed'
  BY NoMapIs, NoMapOfThisBoot DEF NodeTypes, IdsAreUsed, Reboot, NodeStops, NotSaving,
     NoTask, NoPoll, NoAgents
<1>3. OneServer'
  BY NoMapIs, NoMapOfThisBoot DEF NodeTypes, OneServer, NoTerminalLeftBehind, Reboot,
     NodeStops, NotSaving, NoTask, NoPoll, NoAgents
<1>4. NoTerminalLeftBehind'
  BY NoMapIs, NoMapOfThisBoot DEF NodeTypes, OneServer, NoTerminalLeftBehind, Reboot,
     NodeStops, NotSaving, NoTask, NoPoll, NoAgents
<1>5. Stages'
  BY NoMapIs, NoMapOfThisBoot DEF NodeTypes, Stages, Threads, Reboot, NodeStops,
     NotSaving, NoTask, NoPoll, NoAgents
<1>6. SavesAreCurrent'
  BY <1>0, NoMapIs, NoMapOfThisBoot DEF NodeTypes, Stages, SavesAreCurrent,
     OfThisBoot, Threads, Reboot, NodeStops, NotSaving, NoTask, NoPoll, NoAgents
<1>7. TypedIsSettled'
  BY <1>0, NoMapIs, NoMapOfThisBoot DEF NodeTypes, Stages, SavesAreCurrent,
     TypedIsSettled, OfThisBoot, Threads, Reboot, NodeStops, NotSaving, NoTask, NoPoll,
     NoAgents
<1>8. PlannedOnce'
  BY <1>0, NoMapIs, NoMapOfThisBoot DEF NodeTypes, Stages, TypedIsSettled,
     PlannedOnce, OfThisBoot, Reboot, NodeStops, NotSaving, NoTask, NoPoll, NoAgents
<1>9. ResumeOncePerBoot'
  BY NoMapIs, NoMapOfThisBoot DEF NodeTypes, PlannedOnce, ResumeOncePerBoot, Reboot,
     NodeStops, NotSaving, NoTask, NoPoll, NoAgents
<1> QED BY <1>1, <1>2, <1>3, <1>4, <1>5, <1>6, <1>7, <1>8, <1>9

(* No step of the node, or of what happens around it, breaks the invariant. *)
LEMMA NodeStepInv == NodeInv /\ [NodeNext]_nodeVars => NodeInv'
<1> SUFFICES ASSUME NodeInv, [NodeNext]_nodeVars PROVE NodeInv'
  OBVIOUS
<1>1. CASE Start
  BY <1>1, StartKeeps
<1>2. CASE Rewrite
  BY <1>2, RewriteKeeps
<1>3. CASE RecoveryEnds
  BY <1>3, RecoveryEndsKeeps
<1>4. CASE Insert
  BY <1>4, InsertKeeps
<1>5. CASE Saved
  BY <1>5, SavedKeeps
<1>6. CASE KillSession
  BY <1>6, KillSessionKeeps
<1>7. CASE PollLook
  BY <1>7, PollLookKeeps
<1>8. CASE PollMerge
  BY <1>8, PollMergeKeeps
<1>9. CASE PollReport
  BY <1>9, PollReportKeeps
<1>10. CASE ConnectionBreaks
  BY <1>10, ConnectionBreaksKeeps
<1>11. CASE NodeCrash
  BY <1>11, NodeCrashKeeps
<1>12. CASE Reboot
  BY <1>12, RebootKeeps
<1>13. CASE \E w \in Threads : OpenTmp(w)
  BY <1>13, OpenTmpKeeps
<1>14. CASE \E w \in Threads : Fill(w)
  BY <1>14, FillKeeps
<1>15. CASE \E w \in Threads : Rename(w)
  BY <1>15, RenameKeeps
<1>16. CASE \E s \in startups : TypeStartup(s)
  BY <1>16, TypeStartupKeeps
<1>17. CASE \E t \in Terminals : RecoverEntry(t)
  BY <1>17, RecoverEntryKeeps
<1>18. CASE \E t \in Terminals : DropEntry(t)
  BY <1>18, DropEntryKeeps
<1>19. CASE \E t \in Terminals : ReviveEntry(t)
  BY <1>19, ReviveEntryKeeps
<1>20. CASE \E t \in Terminals : TypeResume(t)
  BY <1>20, TypeResumeKeeps
<1>21. CASE \E t \in Terminals : DestroyTerminal(t)
  BY <1>21, DestroyTerminalKeeps
<1>22. CASE \E t \in Terminals : AgentExits(t)
  BY <1>22, AgentExitsKeeps
<1>23. CASE \E t \in Terminals : ShellExits(t)
  BY <1>23, ShellExitsKeeps
<1>24. CASE \E t \in Terminals, a \in Agents : AgentRuns(t, a)
  BY <1>24, AgentRunsKeeps
<1>25. CASE \E t \in Terminals, a \in Agents \cup {NoAgent} : CreateTerminal(t, a)
  BY <1>25, CreateTerminalKeeps
<1>26. CASE UNCHANGED nodeVars
  BY <1>26 DEF NodeInv, NodeTypes, IdsAreUsed, OneServer, NoTerminalLeftBehind,
     Stages, SavesAreCurrent, TypedIsSettled, PlannedOnce, ResumeOncePerBoot, OfThisBoot,
     nodeVars, process, tmux, memory, disk, recovery, history
<1> QED
  BY <1>1, <1>2, <1>3, <1>4, <1>5, <1>6, <1>7, <1>8, <1>9, <1>10, <1>11, <1>12, <1>13,
     <1>14, <1>15, <1>16, <1>17, <1>18, <1>19, <1>20, <1>21, <1>22, <1>23, <1>24, <1>25,
     <1>26 DEF NodeNext, Poll, Save

(* A node that restarts finds what runs and types nothing twice: whatever  *)
(* its two writers do to sessions.json, whenever it crashes and however    *)
(* often the machine reboots, a node that has started sees every session   *)
(* (resolve_tmux_naming), and a resume command is typed at most once in a  *)
(* boot (decide_recover).                                                  *)
THEOREM NodeStaysSound == NodeSpec => []NodeIsSound
<1>1. NodeInv => NodeIsSound
  BY NodeAssumption, MapHas DEF NodeInv, NodeTypes, IdsAreUsed, NodeIsSound, NodeTypeOK
<1> QED BY <1>1, NodeInitInv, NodeStepInv, PTL DEF NodeSpec

-----------------------------------------------------------------------------
(* What a request is, what travels, and what the node has. *)
Unsent == {"start", "registered", "ready"}
Answer == {"ok", "error", "conflict", "failed", "delivered", "unknown"}
RequestRecord ==
    [kind : Kind, attach : Attach \cup {NoAttach}, index : Nat,
     step : Waiting \cup {"done", "gone"}, entry : BOOLEAN,
     rx : Answer \cup {"open", "dropped"}, conn : Nat, born : Nat, tracked : BOOLEAN,
     value : Receipt \cup {"none"}]
ToNode ==
    ({"open", "close", "abort"} \X Attach)
    \cup ((Upload \cup {"composer"}) \X Attach \X Nat \X Nat)
    \cup (Plain \X {NoAttach} \X Nat \X Nat)

RequestTypes ==
    /\ request \in Seq(RequestRecord) /\ row \in Receipt \cup {"none"} /\ told \subseteq Receipt
    /\ socket \in [Attach -> {"new", "open", "closed"}]
    /\ to_node \in Seq(ToNode) /\ to_hub \in Seq(Nat \X Answer \X Nat) /\ epoch \in Nat
    /\ online \in BOOLEAN /\ queue \in [Attach -> Seq(Nat)]
    /\ acks \subseteq Nat \X {"open", "delivered", "unknown"}
    /\ upload \in [Attach -> Seq(Nat)] /\ written \in Nat /\ content \in Nat
    /\ tasks \subseteq {"read", "write", "rename"} \X Nat \X Nat \X Nat
    /\ versions \subseteq Nat

(* Whatever travels or waits is of a request that was made. *)
IdsExist ==
    /\ \A i \in DOMAIN to_node : to_node[i][1] \in Kind => to_node[i][3] \in Id
    /\ \A i \in DOMAIN to_hub : to_hub[i][1] \in Id
    /\ \A ack \in acks : ack[1] \in Id
    /\ \A a \in Attach : \A i \in DOMAIN queue[a] : queue[a][i] \in Id
    /\ \A t \in tasks : t[2] \in Id

(* Who has got how far: only a composer message has a receipt to save, and *)
(* its future is never dropped; what is registered is in pending or has    *)
(* been answered; what is over is in no list.                              *)
Progress ==
    \A r \in Id :
        /\ request[r].step = "answered" => request[r].kind = "composer" /\ request[r].value \in Receipt
        /\ request[r].step = "gone" => request[r].kind # "composer"
        /\ request[r].step \in Unsent =>
              request[r].attach \in IF request[r].kind \in Plain THEN {NoAttach} ELSE Attach
        /\ request[r].step \in {"registered", "ready", "sent"}
              => request[r].entry \/ request[r].rx # "open"
        /\ request[r].step = "done" => ~request[r].entry /\ ~request[r].tracked

(* One request carries the message, and its row is there first. *)
OneSend ==
    /\ \A r, s \in Id : request[r].kind = "composer" /\ request[s].kind = "composer" => r = s
    /\ row = "none" => \A r \in Id : request[r].kind # "composer"

(* Where the message can be on its way to a terminal: not sent, on the     *)
(* connection, with a writer. It is in one of these places, once, until it *)
(* is written.                                                             *)
NoneUnsent == \A r \in Id : request[r].kind = "composer" => request[r].step \notin Unsent
NoneCarried == \A i \in DOMAIN to_node : to_node[i][1] # "composer"
NoneQueued == \A a \in Attach : queue[a] = <<>>
InOnePlace ==
    /\ \A i, j \in DOMAIN to_node : to_node[i][1] = "composer" /\ to_node[j][1] = "composer" => i = j
    /\ \A a, b \in Attach : \A i \in DOMAIN queue[a], j \in DOMAIN queue[b] : a = b /\ i = j
    /\ written <= 1
    /\ ~NoneUnsent \/ row = "none" => NoneCarried /\ NoneQueued /\ written = 0
    /\ ~NoneCarried => NoneQueued /\ written = 0
    /\ ~NoneQueued => written = 0

(* Where it says that the message failed, or was delivered. *)
Says(value) ==
    \/ value \in told \cup {row}
    \/ \E r \in Id : request[r].value = value \/ request[r].rx = value
    \/ \E i \in DOMAIN to_hub : to_hub[i][2] = value
    \/ \E ack \in acks : ack[2] = value
SaysWhatIs ==
    /\ Says("failed") => row # "none" /\ NoneUnsent /\ NoneCarried /\ NoneQueued /\ written = 0
    /\ Says("delivered") => written = 1

(* The chunks of an upload so far are the first ones in order. *)
UploadsGrow ==
    \A a \in Attach : upload[a] # None =>
        Len(upload[a]) <= Size /\ \A i \in 1..Len(upload[a]) : upload[a][i] = i - 1

(* A browser request is on the machine's list until its connection is lost; *)
(* then it is about to be dropped or knows already.                        *)
BrowsersAreListed ==
    \A r \in Id : request[r].kind = "browser" /\ request[r].step \in Unsent \cup {"sent"} =>
        /\ request[r].born <= epoch /\ request[r].conn <= epoch
        /\ request[r].born = epoch => request[r].tracked
        /\ (/\ request[r].step \in {"ready", "sent"} /\ request[r].conn = request[r].born
            /\ request[r].born # epoch /\ r \notin dropping) => request[r].rx # "open"

RequestInv ==
    /\ RequestTypes /\ IdsExist /\ Progress /\ OneSend /\ InOnePlace /\ SaysWhatIs
    /\ UploadsGrow /\ UploadsAreWhole /\ BrowsersAreListed

-----------------------------------------------------------------------------
(* One more element at the end of a sequence. *)
LEMMA AppendIs ==
    ASSUME NEW S, NEW q \in Seq(S), NEW x \in S
    PROVE  /\ Append(q, x) \in Seq(S) /\ Len(q) + 1 \notin DOMAIN q
           /\ DOMAIN Append(q, x) = DOMAIN q \cup {Len(q) + 1}
           /\ Append(q, x)[Len(q) + 1] = x
           /\ \A i \in DOMAIN q : Append(q, x)[i] = q[i]
OBVIOUS

(* The first element of a sequence is taken. *)
LEMMA TailIs ==
    ASSUME NEW S, NEW q \in Seq(S), q # <<>>
    PROVE  /\ Head(q) = q[1] /\ 1 \in DOMAIN q /\ Head(q) \in S /\ Tail(q) \in Seq(S)
           /\ \A i \in DOMAIN Tail(q) : i + 1 \in DOMAIN q /\ Tail(q)[i] = q[i + 1]
OBVIOUS

(* Nothing follows the only element. *)
LEMMA LastIsTaken ==
    ASSUME NEW S, NEW q \in Seq(S), 1 \in DOMAIN q, 2 \notin DOMAIN q
    PROVE  Tail(q) = <<>>
<1>1. Len(q) = 1
  <2>1. Len(q) \in Nat /\ DOMAIN q = 1..Len(q)
    OBVIOUS
  <2> QED BY <2>1
<1>2. Tail(q) \in Seq(S) /\ Len(Tail(q)) = 0
  BY <1>1
<1> QED BY <1>2, EmptySeq

(* Nothing is left. *)
LEMMA EmptyIs ==
    ASSUME NEW S
    PROVE  <<>> \in Seq(S) /\ DOMAIN <<>> = {}
OBVIOUS

(* The fields of a new request. *)
LEMMA NewRequestHas ==
    ASSUME NEW kind, NEW a, NEW index, NEW x, x = NewRequest(kind, a, index)
    PROVE  /\ x.kind = kind /\ x.attach = a /\ x.index = index /\ x.step = "start"
           /\ ~x.entry /\ x.rx = "open" /\ x.conn = epoch /\ x.born = epoch
           /\ kind \in {"create", "browser"} => x.tracked
           /\ x.value = "none"
BY DEF NewRequest

(* A request begins: it is the last one, and the others stay. *)
LEMMA NewRequestIs ==
    ASSUME RequestTypes, NEW kind \in Kind, NEW a \in Attach \cup {NoAttach},
           NEW index \in Nat, Starts(kind, a, index), NEW n, n = Len(request) + 1
    PROVE  /\ request' \in Seq(RequestRecord) /\ Id' = Id \cup {n} /\ n \notin Id
           /\ \A s \in Id : request'[s] = request[s]
           /\ request'[n].kind = kind /\ request'[n].attach = a
           /\ request'[n].index = index /\ request'[n].step = "start"
           /\ ~request'[n].entry /\ request'[n].rx = "open"
           /\ request'[n].conn = epoch /\ request'[n].born = epoch
           /\ kind \in {"create", "browser"} => request'[n].tracked
           /\ request'[n].value = "none"
<1>1. NewRequest(kind, a, index) \in RequestRecord
  BY DEF RequestTypes, NewRequest, RequestRecord, Waiting, Receipt
<1>2. request' = Append(request, NewRequest(kind, a, index))
  BY DEF Starts
<1>3. request \in Seq(RequestRecord)
  BY DEF RequestTypes
<1>4. /\ request' \in Seq(RequestRecord) /\ Id' = Id \cup {n} /\ n \notin Id
      /\ \A s \in Id : request'[s] = request[s]
      /\ request'[n] = NewRequest(kind, a, index)
  BY <1>1, <1>2, <1>3, AppendIs DEF Id
<1> QED BY <1>4, NewRequestHas

(* One request changes, and the others stay. *)
LEMMA OneChanges ==
    ASSUME RequestTypes, NEW r \in Id, NEW x \in RequestRecord,
           request' = [request EXCEPT ![r] = x]
    PROVE  /\ request' \in Seq(RequestRecord) /\ Id' = Id
           /\ request'[r] = x /\ \A s \in Id : s # r => request'[s] = request[s]
BY DEF RequestTypes, Id

(* Every request changes. *)
LEMMA AllChange ==
    ASSUME RequestTypes, NEW f \in [Id -> RequestRecord], request' = f
    PROVE  request' \in Seq(RequestRecord) /\ Id' = Id
BY DEF RequestTypes, Id

(* A request is a record. *)
LEMMA RecordIs ==
    ASSUME RequestTypes, NEW r \in Id
    PROVE  request[r] \in RequestRecord
BY DEF RequestTypes, Id

(* A request of a plain kind begins. *)
LEMMA BeginKeeps ==
    ASSUME RequestInv, NEW kind \in Plain, NEW index \in Nat, Begin(kind, index)
    PROVE  RequestInv'
<1> USE BoundsAssumption DEF RequestInv
<1>0. UNCHANGED <<dropping, row, told, socket, to_node, to_hub, epoch, online, handle,
                  queue, acks, upload, files, written, content, tasks, versions,
                  overwrote, faults>>
  BY DEF Begin, wire, composer, terminal, edits, node_files
<1> DEFINE n == Len(request) + 1
<1>r. /\ request' \in Seq(RequestRecord) /\ Id' = Id \cup {n} /\ n \notin Id
      /\ \A s \in Id : request'[s] = request[s]
      /\ request'[n].kind = kind /\ request'[n].attach = NoAttach
      /\ request'[n].index = index /\ request'[n].step = "start"
      /\ ~request'[n].entry /\ request'[n].rx = "open"
      /\ request'[n].conn = epoch /\ request'[n].born = epoch
      /\ kind \in {"create", "browser"} => request'[n].tracked
      /\ request'[n].value = "none"
  BY NewRequestIs DEF Begin, Kind, Plain, Upload
<1> HIDE DEF n
<1>e. epoch \in Nat
  BY DEF RequestTypes
<1>10. UploadsGrow' /\ UploadsAreWhole'
  BY <1>0 DEF UploadsGrow, UploadsAreWhole
<1>11. RequestTypes'
  BY <1>0, <1>r DEF RequestTypes, Plain
<1>12. IdsExist'
  BY <1>0, <1>r DEF IdsExist, Plain
<1>13. Progress'
  BY <1>0, <1>r DEF Progress, Unsent, Plain
<1>14. OneSend'
  BY <1>0, <1>r DEF OneSend, Plain
<1>15. InOnePlace'
  BY <1>0, <1>r DEF OneSend, InOnePlace, NoneUnsent, NoneCarried, NoneQueued, Unsent,
     Plain
<1>16. SaysWhatIs'
  BY <1>0, <1>r DEF OneSend, InOnePlace, SaysWhatIs, Says, NoneUnsent, NoneCarried,
     NoneQueued, Unsent, Plain
<1>17. BrowsersAreListed'
  BY <1>0, <1>e, <1>r DEF BrowsersAreListed, Unsent, Plain
<1> QED
  BY <1>10, <1>11, <1>12, <1>13, <1>14, <1>15, <1>16, <1>17

(* A client sends a message of an upload. *)
LEMMA UploadMessageKeeps ==
    ASSUME RequestInv, NEW a \in Attach, NEW kind \in Upload, NEW index \in Nat,
           UploadMessage(a, kind, index)
    PROVE  RequestInv'
<1> USE BoundsAssumption DEF RequestInv
<1>0. UNCHANGED <<dropping, row, told, socket, to_node, to_hub, epoch, online, handle,
                  queue, acks, upload, files, written, content, tasks, versions,
                  overwrote, faults>>
  BY DEF UploadMessage, wire, composer, terminal, edits, node_files
<1> DEFINE n == Len(request) + 1
<1>r. /\ request' \in Seq(RequestRecord) /\ Id' = Id \cup {n} /\ n \notin Id
      /\ \A s \in Id : request'[s] = request[s]
      /\ request'[n].kind = kind /\ request'[n].attach = a
      /\ request'[n].index = index /\ request'[n].step = "start"
      /\ ~request'[n].entry /\ request'[n].rx = "open"
      /\ request'[n].conn = epoch /\ request'[n].born = epoch
      /\ kind \in {"create", "browser"} => request'[n].tracked
      /\ request'[n].value = "none"
  BY NewRequestIs DEF UploadMessage, Kind, Plain, Upload
<1> HIDE DEF n
<1>e. epoch \in Nat
  BY DEF RequestTypes
<1>10. UploadsGrow' /\ UploadsAreWhole'
  BY <1>0 DEF UploadsGrow, UploadsAreWhole
<1>11. RequestTypes'
  BY <1>0, <1>r DEF RequestTypes, Upload, Plain
<1>12. IdsExist'
  BY <1>0, <1>r DEF IdsExist, Upload, Plain
<1>13. Progress'
  BY <1>0, <1>r DEF Progress, Unsent, Upload, Plain
<1>14. OneSend'
  BY <1>0, <1>r DEF OneSend, Upload, Plain
<1>15. InOnePlace'
  BY <1>0, <1>r DEF OneSend, InOnePlace, NoneUnsent, NoneCarried, NoneQueued, Unsent,
     Upload, Plain
<1>16. SaysWhatIs'
  BY <1>0, <1>r DEF OneSend, InOnePlace, SaysWhatIs, Says, NoneUnsent, NoneCarried,
     NoneQueued, Unsent, Upload, Plain
<1>17. BrowsersAreListed'
  BY <1>0, <1>e, <1>r DEF BrowsersAreListed, Unsent, Upload, Plain
<1> QED
  BY <1>10, <1>11, <1>12, <1>13, <1>14, <1>15, <1>16, <1>17

(* A request comes one step further: it is entered, finds its connection,  *)
(* or is lost on the way.                                                  *)
LEMMA GoesOn ==
    ASSUME RequestInv, NEW r \in Id, request[r].step \in Unsent,
           request' \in Seq(RequestRecord), Id' = Id,
           \A s \in Id : s # r => request'[s] = request[s],
           request'[r].kind = request[r].kind,
           request'[r].rx = request[r].rx,
           request'[r].value = request[r].value,
           request'[r].tracked = request[r].tracked,
           request'[r].born = request[r].born,
           request'[r].attach = request[r].attach,
           request'[r].step \in {"registered", "ready", "sent"},
           request'[r].entry \/ request'[r].rx # "open",
           request'[r].step \in {"ready", "sent"}
              => request'[r].conn = IF request[r].step = "ready" THEN request[r].conn ELSE epoch,
           request'[r].conn \in {request[r].conn, epoch},
           UNCHANGED <<dropping, row, told, socket, to_node, to_hub, epoch, online,
           handle, queue,
                       acks, upload, files, written, content, tasks, versions, overwrote>>
    PROVE  RequestInv'
<1> USE BoundsAssumption DEF RequestInv
<1>s. \A w \in {"failed", "delivered"} : Says(w)' => Says(w)
  BY DEF Says
<1>d. NoneUnsent => NoneUnsent'
  BY DEF NoneUnsent, Unsent
<1>e. epoch \in Nat
  BY DEF RequestTypes
<1>10. UploadsGrow' /\ UploadsAreWhole'
  BY DEF UploadsGrow, UploadsAreWhole
<1>11. RequestTypes'
  BY DEF RequestTypes
<1>12. IdsExist'
  BY DEF IdsExist
<1>13. Progress'
  BY DEF Progress, Unsent
<1>14. OneSend'
  BY DEF OneSend
<1>15. InOnePlace'
  BY DEF OneSend, InOnePlace, NoneUnsent, NoneCarried, NoneQueued, Unsent
<1>16. SaysWhatIs'
  BY <1>s, <1>d DEF SaysWhatIs, NoneCarried, NoneQueued
<1>17. BrowsersAreListed'
  <2> SUFFICES ASSUME NEW s \in Id, request'[s].kind = "browser",
                      request'[s].step \in Unsent \cup {"sent"}
               PROVE  /\ request'[s].born <= epoch /\ request'[s].conn <= epoch
                      /\ request'[s].born = epoch => request'[s].tracked
                      /\ (/\ request'[s].step \in {"ready", "sent"}
                          /\ request'[s].conn = request'[s].born /\ request'[s].born # epoch
                          /\ s \notin dropping) => request'[s].rx # "open"
    BY DEF BrowsersAreListed
  <2>1. CASE s # r
    <3>1. request'[s] = request[s]
      BY <2>1
    <3> QED BY <3>1 DEF BrowsersAreListed
  <2>2. CASE s = r
    <3>1. /\ request[r].born <= epoch /\ request[r].conn <= epoch
          /\ request[r].born = epoch => request[r].tracked
          /\ (/\ request[r].step \in {"ready", "sent"} /\ request[r].conn = request[r].born
              /\ request[r].born # epoch /\ r \notin dropping) => request[r].rx # "open"
      BY <2>2 DEF BrowsersAreListed
    <3>2. request'[r].conn <= epoch
      BY <1>e, <3>1
    <3>3. (request'[r].step \in {"ready", "sent"} /\ request'[r].conn # epoch)
             => request[r].step = "ready" /\ request'[r].conn = request[r].conn
      OBVIOUS
    <3> QED BY <2>2, <3>1, <3>2, <3>3
  <2> QED BY <2>1, <2>2
<1> QED
  BY <1>10, <1>11, <1>12, <1>13, <1>14, <1>15, <1>16, <1>17

(* A composer message cannot be sent: that is what its receipt will say. *)
LEMMA CouldNotSend ==
    ASSUME RequestInv, NEW r \in Id, request[r].step \in Unsent,
           request[r].kind = "composer", request' \in Seq(RequestRecord), Id' = Id,
           \A s \in Id : s # r => request'[s] = request[s],
           request'[r].kind = request[r].kind,
           request'[r].rx = request[r].rx,
           request'[r].step = "answered",
           request'[r].value = "failed",
           UNCHANGED <<dropping, row, told, socket, to_node, to_hub, epoch, online,
           handle, queue,
                       acks, upload, files, written, content, tasks, versions, overwrote>>
    PROVE  RequestInv'
<1> USE BoundsAssumption DEF RequestInv
<1>e. epoch \in Nat
  BY DEF RequestTypes
<1>10. UploadsGrow' /\ UploadsAreWhole'
  BY DEF UploadsGrow, UploadsAreWhole
<1>11. RequestTypes'
  BY DEF RequestTypes
<1>12. IdsExist'
  BY DEF IdsExist
<1>13. Progress'
  BY DEF Progress, Unsent, Receipt
<1>14. OneSend'
  BY DEF OneSend
<1>15. InOnePlace'
  BY DEF OneSend, InOnePlace, NoneUnsent, NoneCarried, NoneQueued, Unsent
<1>16. SaysWhatIs'
  BY DEF OneSend, InOnePlace, SaysWhatIs, Says, NoneUnsent, NoneCarried, NoneQueued,
     Unsent
<1>17. BrowsersAreListed'
  BY <1>e DEF BrowsersAreListed, Unsent
<1> QED
  BY <1>10, <1>11, <1>12, <1>13, <1>14, <1>15, <1>16, <1>17

(* A composer message gets a receipt to save. *)
LEMMA IsAnswered ==
    ASSUME RequestInv, NEW r \in Id, NEW v \in Receipt, request[r].step = "sent",
           request[r].kind = "composer", request' \in Seq(RequestRecord), Id' = Id,
           \A s \in Id : s # r => request'[s] = request[s],
           request'[r].kind = request[r].kind,
           request'[r].rx = request[r].rx,
           request'[r].step = "answered",
           request'[r].value = v,
           v = "unknown" \/ Says(v),
           UNCHANGED <<dropping, row, told, socket, to_node, to_hub, epoch, online,
           handle, queue,
                       acks, upload, files, written, content, tasks, versions, overwrote>>
    PROVE  RequestInv'
<1> USE BoundsAssumption DEF RequestInv
<1>s. \A w \in {"failed", "delivered"} : Says(w)' => Says(w)
  BY DEF Says
<1>d. NoneUnsent => NoneUnsent'
  BY DEF NoneUnsent, Unsent
<1>e. epoch \in Nat
  BY DEF RequestTypes
<1>10. UploadsGrow' /\ UploadsAreWhole'
  BY DEF UploadsGrow, UploadsAreWhole
<1>11. RequestTypes'
  BY DEF RequestTypes
<1>12. IdsExist'
  BY DEF IdsExist
<1>13. Progress'
  BY DEF Progress, Unsent
<1>14. OneSend'
  BY DEF OneSend
<1>15. InOnePlace'
  BY DEF OneSend, InOnePlace, NoneUnsent, NoneCarried, NoneQueued, Unsent
<1>16. SaysWhatIs'
  BY <1>s, <1>d DEF SaysWhatIs, NoneCarried, NoneQueued
<1>17. BrowsersAreListed'
  BY <1>e DEF BrowsersAreListed, Unsent
<1> QED
  BY <1>10, <1>11, <1>12, <1>13, <1>14, <1>15, <1>16, <1>17

(* Another request comes to its end; an editor may have learned a version. *)
LEMMA IsOver ==
    ASSUME RequestInv, NEW r \in Id, request[r].kind # "composer",
           request' \in Seq(RequestRecord), Id' = Id,
           \A s \in Id : s # r => request'[s] = request[s],
           request'[r].kind = request[r].kind,
           request'[r].step = "done",
           ~request'[r].entry,
           request'[r].rx = "open",
           ~request'[r].tracked,
           request'[r].value = "none",
           versions' \subseteq Nat,
           UNCHANGED <<dropping, row, told, socket, to_node, to_hub, epoch, online,
           handle, queue,
                       acks, upload, files, written, content, tasks, overwrote>>
    PROVE  RequestInv'
<1> USE BoundsAssumption DEF RequestInv
<1>s. \A w \in {"failed", "delivered"} : Says(w)' => Says(w)
  BY DEF Says
<1>d. NoneUnsent => NoneUnsent'
  BY DEF NoneUnsent, Unsent
<1>e. epoch \in Nat
  BY DEF RequestTypes
<1>10. UploadsGrow' /\ UploadsAreWhole'
  BY DEF UploadsGrow, UploadsAreWhole
<1>11. RequestTypes'
  BY DEF RequestTypes
<1>12. IdsExist'
  BY DEF IdsExist
<1>13. Progress'
  BY DEF Progress, Unsent
<1>14. OneSend'
  BY DEF OneSend
<1>15. InOnePlace'
  BY DEF OneSend, InOnePlace, NoneUnsent, NoneCarried, NoneQueued, Unsent
<1>16. SaysWhatIs'
  BY <1>s, <1>d DEF SaysWhatIs, NoneCarried, NoneQueued
<1>17. BrowsersAreListed'
  BY <1>e DEF BrowsersAreListed, Unsent
<1> QED
  BY <1>10, <1>11, <1>12, <1>13, <1>14, <1>15, <1>16, <1>17

(* The future of another request is dropped. *)
LEMMA IsDropped ==
    ASSUME RequestInv, NEW r \in Id, request[r].kind # "composer",
           request' \in Seq(RequestRecord), Id' = Id,
           \A s \in Id : s # r => request'[s] = request[s],
           request'[r].kind = request[r].kind,
           request'[r].step = "gone",
           request'[r].rx = request[r].rx,
           request'[r].value = request[r].value,
           UNCHANGED <<dropping, row, told, socket, to_node, to_hub, epoch, online,
           handle, queue,
                       acks, upload, files, written, content, tasks, versions, overwrote>>
    PROVE  RequestInv'
<1> USE BoundsAssumption DEF RequestInv
<1>s. \A w \in {"failed", "delivered"} : Says(w)' => Says(w)
  BY DEF Says
<1>d. NoneUnsent => NoneUnsent'
  BY DEF NoneUnsent, Unsent
<1>e. epoch \in Nat
  BY DEF RequestTypes
<1>10. UploadsGrow' /\ UploadsAreWhole'
  BY DEF UploadsGrow, UploadsAreWhole
<1>11. RequestTypes'
  BY DEF RequestTypes
<1>12. IdsExist'
  BY DEF IdsExist
<1>13. Progress'
  BY DEF Progress, Unsent
<1>14. OneSend'
  BY DEF OneSend
<1>15. InOnePlace'
  BY DEF OneSend, InOnePlace, NoneUnsent, NoneCarried, NoneQueued, Unsent
<1>16. SaysWhatIs'
  BY <1>s, <1>d DEF SaysWhatIs, NoneCarried, NoneQueued
<1>17. BrowsersAreListed'
  BY <1>e DEF BrowsersAreListed, Unsent
<1> QED
  BY <1>10, <1>11, <1>12, <1>13, <1>14, <1>15, <1>16, <1>17

(* A request is sent over the connection. *)
LEMMA IsSent ==
    ASSUME RequestInv, NEW r \in Id, request[r].step \in Unsent,
           request' \in Seq(RequestRecord), Id' = Id,
           \A s \in Id : s # r => request'[s] = request[s],
           request'[r].kind = request[r].kind,
           request'[r].rx = request[r].rx,
           request'[r].value = request[r].value,
           request'[r].tracked = request[r].tracked,
           request'[r].born = request[r].born,
           request'[r].attach = request[r].attach,
           request'[r].step = "sent",
           request'[r].entry \/ request'[r].rx # "open", to_node' = Append(to_node,
           Message(r)),
           request'[r].conn = IF request[r].step = "ready" THEN request[r].conn ELSE epoch,
           UNCHANGED <<dropping, row, told, socket, to_hub, epoch, online, handle, queue,
           acks,
                       upload, files, written, content, tasks, versions, overwrote>>
    PROVE  RequestInv'
<1> USE BoundsAssumption DEF RequestInv
<1>1. /\ Message(r) \in ToNode /\ Message(r)[3] = r
      /\ Message(r)[1] = "composer" <=> request[r].kind = "composer"
  <2>1. request[r] \in RequestRecord /\ r \in Nat
    <3>1. request[r] \in RequestRecord
      BY RecordIs
    <3>2. request \in Seq(RequestRecord)
      BY DEF RequestTypes
    <3> QED BY <3>1, <3>2 DEF Id
  <2>2. request[r].attach \in IF request[r].kind \in Plain THEN {NoAttach} ELSE Attach
    BY DEF Progress
  <2>3. request[r].kind \in Kind /\ request[r].index \in Nat
    BY <2>1 DEF RequestRecord
  <2>4. CASE request[r].kind \in Plain
    BY <2>1, <2>2, <2>3, <2>4 DEF ToNode, Message, Plain
  <2>5. CASE request[r].kind \in Upload \cup {"composer"}
    BY <2>1, <2>2, <2>3, <2>5 DEF ToNode, Message, Plain, Upload
  <2> QED BY <2>3, <2>4, <2>5 DEF Kind, Upload
<1> DEFINE n == Len(to_node) + 1
<1>n. /\ to_node' \in Seq(ToNode) /\ n \notin DOMAIN to_node
      /\ DOMAIN to_node' = DOMAIN to_node \cup {n} /\ to_node'[n] = Message(r)
      /\ \A i \in DOMAIN to_node : to_node'[i] = to_node[i]
  <2>1. to_node \in Seq(ToNode)
    BY DEF RequestTypes
  <2> QED BY <1>1, <2>1, AppendIs
<1>w. \A s \in Id : request'[s].kind = request[s].kind
  OBVIOUS
<1> HIDE DEF n
<1>s. \A v : Says(v)' => Says(v)
  BY DEF Says
<1>c. /\ NoneUnsent' => NoneUnsent \/ request[r].kind = "composer"
      /\ NoneUnsent => NoneUnsent'
      /\ request[r].kind = "composer" => NoneCarried /\ NoneQueued /\ written = 0 /\ row # "none" /\ NoneUnsent'
  <2>1. request[r].kind = "composer" => ~NoneUnsent /\ row # "none"
    BY DEF NoneUnsent, OneSend
  <2>2. ~NoneUnsent => NoneCarried /\ NoneQueued /\ written = 0
    BY DEF InOnePlace
  <2>3. /\ NoneUnsent' => NoneUnsent \/ request[r].kind = "composer"
        /\ NoneUnsent => NoneUnsent'
    BY DEF NoneUnsent, Unsent
  <2>4. request[r].kind = "composer" => NoneUnsent'
    BY DEF OneSend, NoneUnsent, Unsent
  <2> QED BY <2>1, <2>2, <2>3, <2>4
<1>k. \A i \in DOMAIN to_node' : to_node'[i][1] = "composer" =>
         \/ i \in DOMAIN to_node /\ to_node[i][1] = "composer"
         \/ i = n /\ request[r].kind = "composer"
  BY <1>1, <1>n
<1>o. \A i, j \in DOMAIN to_node' :
         to_node'[i][1] = "composer" /\ to_node'[j][1] = "composer" => i = j
  BY <1>c, <1>k DEF InOnePlace, NoneCarried
<1>p. ~NoneCarried' => ~NoneCarried \/ request[r].kind = "composer"
  BY <1>k DEF NoneCarried
<1>q. NoneCarried' => NoneCarried
  BY <1>n DEF NoneCarried
<1>u. request[r].kind = "composer" => ~Says("failed") /\ ~Says("delivered")
  BY DEF SaysWhatIs, NoneUnsent, InOnePlace
<1>e. epoch \in Nat
  BY DEF RequestTypes
<1>10. UploadsGrow' /\ UploadsAreWhole'
  BY DEF UploadsGrow, UploadsAreWhole
<1>11. RequestTypes'
  BY <1>1, <1>n DEF RequestTypes
<1>12. IdsExist'
  BY <1>1, <1>n DEF IdsExist
<1>13. Progress'
  BY DEF Progress, Unsent
<1>14. OneSend'
  <2>1. \A s, t \in Id : request[s].kind = "composer" /\ request[t].kind = "composer" => s = t
    BY DEF OneSend
  <2>2. row = "none" => \A s \in Id : request[s].kind # "composer"
    BY DEF OneSend
  <2> QED BY <1>w, <2>1, <2>2 DEF OneSend
<1>15. InOnePlace'
  BY <1>c, <1>o, <1>p DEF InOnePlace, NoneQueued
<1>16. SaysWhatIs'
  BY <1>1, <1>n, <1>s, <1>u
     DEF SaysWhatIs, NoneUnsent, NoneCarried, NoneQueued, Unsent
<1>17. BrowsersAreListed'
  BY <1>e DEF BrowsersAreListed, Unsent
<1> QED
  BY <1>10, <1>11, <1>12, <1>13, <1>14, <1>15, <1>16, <1>17

(* A client is told what a receipt says. *)
LEMMA IsTold ==
    ASSUME RequestInv, NEW v \in Receipt, v = "unknown" \/ Says(v), told' = told \cup {v},
           UNCHANGED <<request, dropping, row, socket, to_node, to_hub, epoch, online,
           handle,
                       queue, acks, upload, files, written, content, tasks, versions,
                       overwrote>>
    PROVE  RequestInv'
<1> USE BoundsAssumption DEF RequestInv
<1>i. Id' = Id
  BY DEF Id
<1>e. epoch \in Nat
  BY DEF RequestTypes
<1>10. /\ IdsExist' /\ Progress' /\ OneSend' /\ InOnePlace'
       /\ UploadsGrow' /\ UploadsAreWhole' /\ BrowsersAreListed'
  BY <1>i DEF IdsExist, Progress, Unsent, OneSend, InOnePlace, NoneUnsent, NoneCarried,
     NoneQueued, UploadsGrow, UploadsAreWhole, BrowsersAreListed
<1>11. RequestTypes'
  BY <1>i DEF RequestTypes
<1>12. SaysWhatIs'
  BY <1>i DEF OneSend, InOnePlace, SaysWhatIs, Says, NoneUnsent, NoneCarried,
     NoneQueued, Unsent
<1> QED
  BY <1>10, <1>11, <1>12

(* The message is sent for the first time. *)
LEMMA ReserveKeeps ==
    ASSUME RequestInv, NEW a \in Attach, row = "none", row' = "unknown",
           Starts("composer", a, 0),
           UNCHANGED <<dropping, told, socket, to_node, to_hub, epoch, online, handle,
           queue,
                       acks, upload, files, written, content, tasks, versions, overwrote>>
    PROVE  RequestInv'
<1> USE BoundsAssumption DEF RequestInv
<1> DEFINE n == Len(request) + 1
<1>r. /\ request' \in Seq(RequestRecord) /\ Id' = Id \cup {n} /\ n \notin Id
      /\ \A s \in Id : request'[s] = request[s]
      /\ request'[n].kind = "composer" /\ request'[n].attach = a
      /\ request'[n].index = 0 /\ request'[n].step = "start"
      /\ ~request'[n].entry /\ request'[n].rx = "open"
      /\ request'[n].conn = epoch /\ request'[n].born = epoch
      /\ "composer" \in {"create", "browser"} => request'[n].tracked
      /\ request'[n].value = "none"
  BY NewRequestIs DEF Kind
<1> HIDE DEF n
<1>s. \A w \in {"failed", "delivered"} : Says(w)' => Says(w)
  BY <1>r DEF Says
<1>e. epoch \in Nat
  BY DEF RequestTypes
<1>10. UploadsGrow' /\ UploadsAreWhole'
  BY DEF UploadsGrow, UploadsAreWhole
<1>11. RequestTypes'
  BY <1>r DEF RequestTypes, Receipt
<1>12. IdsExist'
  BY <1>r DEF IdsExist
<1>13. Progress'
  BY <1>r DEF Progress, Unsent, Plain
<1>14. OneSend'
  BY <1>r DEF OneSend
<1>15. InOnePlace'
  BY <1>r DEF OneSend, InOnePlace, NoneUnsent, NoneCarried, NoneQueued, Unsent
<1>16. SaysWhatIs'
  BY <1>r, <1>s
     DEF SaysWhatIs, InOnePlace, OneSend, NoneUnsent, NoneCarried, NoneQueued, Unsent
<1>17. BrowsersAreListed'
  BY <1>e, <1>r DEF BrowsersAreListed, Unsent
<1> QED
  BY <1>10, <1>11, <1>12, <1>13, <1>14, <1>15, <1>16, <1>17

(* The node is told of a socket; uploads its reader had not sent are       *)
(* dropped.                                                                *)
LEMMA SocketTells ==
    ASSUME RequestInv, NEW m \in {"open", "close", "abort"} \X Attach,
           to_node' = to_node \/ to_node' = Append(to_node, m),
           socket' \in [Attach -> {"new", "open", "closed"}],
           request' \in Seq(RequestRecord), Id' = Id,
           \A s \in Id : \/ request'[s] = request[s]
                        \/ /\ request[s].kind \in Upload /\ request'[s].kind = request[s].kind
                           /\ request'[s].step = "gone" /\ request'[s].rx = request[s].rx
                           /\ request'[s].value = request[s].value,
           UNCHANGED <<dropping, row, told, to_hub, epoch, online, handle, queue, acks,
           upload,
                       files, written, content, tasks, versions, overwrote>>
    PROVE  RequestInv'
<1> USE BoundsAssumption DEF RequestInv
<1>1. m \in ToNode /\ m[1] \notin Kind
  BY DEF ToNode, Kind, Plain, Upload
<1>n. /\ to_node' \in Seq(ToNode)
      /\ \A i \in DOMAIN to_node' : to_node'[i] = m \/ (i \in DOMAIN to_node /\ to_node'[i] = to_node[i])
  <2>1. to_node \in Seq(ToNode)
    BY DEF RequestTypes
  <2>2. CASE to_node' = to_node
    BY <2>1, <2>2
  <2>3. CASE to_node' = Append(to_node, m)
    <3> DEFINE n == Len(to_node) + 1
    <3>1. /\ to_node' \in Seq(ToNode) /\ DOMAIN to_node' = DOMAIN to_node \cup {n}
          /\ to_node'[n] = m /\ \A i \in DOMAIN to_node : to_node'[i] = to_node[i]
      BY <1>1, <2>1, <2>3, AppendIs
    <3> HIDE DEF n
    <3> QED BY <3>1
  <2> QED BY <2>2, <2>3
<1>k. "composer" \in Kind /\ "composer" \notin Upload /\ "browser" \notin Upload
  BY DEF Kind, Plain, Upload
<1>c. \A i \in DOMAIN to_node' :
         to_node'[i][1] = "composer" => i \in DOMAIN to_node /\ to_node'[i] = to_node[i]
  BY <1>1, <1>n, <1>k
<1>d. (NoneUnsent => NoneUnsent') /\ (NoneUnsent' => NoneUnsent) /\ (NoneCarried => NoneCarried')
  BY <1>c, <1>k DEF NoneUnsent, NoneCarried, Unsent
<1>s. \A w \in {"failed", "delivered"} : Says(w)' => Says(w)
  BY DEF Says
<1>e. epoch \in Nat
  BY DEF RequestTypes
<1>10. UploadsGrow' /\ UploadsAreWhole'
  BY DEF UploadsGrow, UploadsAreWhole
<1>11. RequestTypes'
  BY <1>1, <1>n DEF RequestTypes
<1>12. IdsExist'
  BY <1>1, <1>n DEF IdsExist
<1>13. Progress'
  BY <1>k DEF Progress, Unsent
<1>14. OneSend'
  BY DEF OneSend
<1>15. InOnePlace'
  BY <1>c, <1>d DEF InOnePlace, NoneQueued, NoneCarried
<1>16. SaysWhatIs'
  BY <1>d, <1>s DEF SaysWhatIs, NoneQueued
<1>17. BrowsersAreListed'
  BY <1>e, <1>k DEF BrowsersAreListed, Unsent
<1> QED
  BY <1>10, <1>11, <1>12, <1>13, <1>14, <1>15, <1>16, <1>17

(* The hub takes an answer of the node. *)
LEMMA handle_machine_messageKeeps ==
    ASSUME RequestInv, handle_machine_message
    PROVE  RequestInv'
<1> USE BoundsAssumption DEF RequestInv
<1>0. UNCHANGED <<dropping, row, told, socket, to_node, epoch, online, handle, queue,
                  acks, upload, files, written, content, tasks, versions, overwrote,
                  faults>>
  BY DEF handle_machine_message, wire, composer, terminal, edits, node_files
<1> DEFINE r == Head(to_hub)[1]
           v == Head(to_hub)[2]
           k == Head(to_hub)[3]
<1>h. /\ to_hub' \in Seq(Nat \X Answer \X Nat) /\ to_hub # <<>> /\ 1 \in DOMAIN to_hub
      /\ \A i \in DOMAIN to_hub' : i + 1 \in DOMAIN to_hub /\ to_hub'[i] = to_hub[i + 1]
      /\ Head(to_hub) = to_hub[1] /\ Head(to_hub) \in Nat \X Answer \X Nat
  BY TailIs DEF RequestTypes, handle_machine_message
<1>v. /\ r \in Id /\ v \in Answer /\ k \in Nat /\ v # "open"
      /\ r = to_hub[1][1] /\ v = to_hub[1][2]
  BY <1>h DEF IdsExist, Answer
<1>x. \/ request' = request
      \/ request' = [request EXCEPT ![r] = [@ EXCEPT !.entry = FALSE, !.rx = v, !.index = k]]
  BY DEF handle_machine_message
<1> HIDE DEF r, v, k
<1>y. /\ request[r] \in RequestRecord
      /\ [request[r] EXCEPT !.entry = FALSE, !.rx = v, !.index = k] \in RequestRecord
  <2>1. request[r] \in RequestRecord
    BY <1>v, RecordIs
  <2> QED BY <1>v, <2>1 DEF RequestRecord
<1>r. /\ request' \in Seq(RequestRecord) /\ Id' = Id /\ \A s \in Id : s # r => request'[s] = request[s]
      /\ request'[r].kind = request[r].kind /\ request'[r].step = request[r].step
      /\ request'[r].attach = request[r].attach /\ request'[r].conn = request[r].conn
      /\ request'[r].born = request[r].born /\ request'[r].tracked = request[r].tracked
      /\ request'[r].value = request[r].value
      /\ \/ request'[r] = request[r]
         \/ request'[r].rx = v /\ request'[r].rx # "open" /\ ~request'[r].entry
  <2>1. CASE request' = request
    BY <1>v, <2>1 DEF RequestTypes, Id
  <2>2. CASE request' = [request EXCEPT ![r] = [@ EXCEPT !.entry = FALSE, !.rx = v, !.index = k]]
    <3>1. /\ request' \in Seq(RequestRecord) /\ Id' = Id /\ \A s \in Id : s # r => request'[s] = request[s]
          /\ request'[r] = [request[r] EXCEPT !.entry = FALSE, !.rx = v, !.index = k]
      <4>1. r \in Id /\ [request[r] EXCEPT !.entry = FALSE, !.rx = v, !.index = k] \in RequestRecord
        BY <1>v, <1>y
      <4>2. request' = [request EXCEPT ![r] = [request[r] EXCEPT !.entry = FALSE, !.rx = v, !.index = k]]
        BY <2>2
      <4> QED BY <4>1, <4>2, OneChanges
    <3>2. /\ request'[r].kind = request[r].kind /\ request'[r].step = request[r].step
          /\ request'[r].attach = request[r].attach /\ request'[r].conn = request[r].conn
          /\ request'[r].born = request[r].born /\ request'[r].tracked = request[r].tracked
          /\ request'[r].value = request[r].value /\ request'[r].rx = v /\ ~request'[r].entry
      BY <1>y, <3>1 DEF RequestRecord
    <3> QED BY <1>v, <3>1, <3>2
  <2> QED BY <1>x, <2>1, <2>2
<1>z. \A w \in {"failed", "delivered"} : (\E s \in Id' : request'[s].value = w \/ request'[s].rx = w) => Says(w)
  <2> SUFFICES ASSUME NEW w \in {"failed", "delivered"}, NEW s \in Id,
                      request'[s].value = w \/ request'[s].rx = w
               PROVE  Says(w)
    BY <1>r
  <2>1. CASE s # r
    BY <1>r, <2>1 DEF Says
  <2>2. CASE s = r /\ request'[s].rx = w /\ w = v
    BY <1>h, <1>v, <2>2 DEF Says
  <2>3. CASE s = r /\ (request'[s].value = w \/ request'[s].rx = request[s].rx)
    BY <1>r, <2>3 DEF Says
  <2> QED BY <1>r, <2>1, <2>2, <2>3
<1>s. \A w \in {"failed", "delivered"} : Says(w)' => Says(w)
  BY <1>0, <1>h, <1>z DEF Says
<1>e. epoch \in Nat
  BY DEF RequestTypes
<1>10. UploadsGrow' /\ UploadsAreWhole'
  BY <1>0 DEF UploadsGrow, UploadsAreWhole
<1>11. RequestTypes'
  BY <1>0, <1>h, <1>r DEF RequestTypes
<1>12. IdsExist'
  BY <1>0, <1>h, <1>r DEF IdsExist
<1>13. Progress'
  BY <1>0, <1>r DEF Progress, Unsent
<1>14. OneSend'
  BY <1>0, <1>r DEF OneSend
<1>15. InOnePlace'
  BY <1>0, <1>r DEF OneSend, InOnePlace, NoneUnsent, NoneCarried, NoneQueued, Unsent
<1>16. SaysWhatIs'
  BY <1>0, <1>r, <1>s
     DEF SaysWhatIs, InOnePlace, OneSend, NoneUnsent, NoneCarried, NoneQueued, Unsent
<1>17. BrowsersAreListed'
  BY <1>0, <1>e, <1>r DEF BrowsersAreListed, Unsent
<1> QED
  BY <1>10, <1>11, <1>12, <1>13, <1>14, <1>15, <1>16, <1>17

(* A receipt is stored, or only told. *)
LEMMA IsSaved ==
    ASSUME RequestInv, NEW r \in Id, request[r].step = "answered",
           request' \in Seq(RequestRecord), Id' = Id,
           \A s \in Id : s # r => request'[s] = request[s],
           request'[r].kind = request[r].kind,
           request'[r].step = "done",
           ~request'[r].entry,
           request'[r].rx = "open",
           ~request'[r].tracked,
           request'[r].value = "none",
           row' \in {row, request[r].value}, told' = told \cup {request[r].value},
           UNCHANGED <<dropping, socket, to_node, to_hub, epoch, online, handle, queue,
           acks,
                       upload, files, written, content, tasks, versions, overwrote>>
    PROVE  RequestInv'
<1> USE BoundsAssumption DEF RequestInv
<1>r. /\ request[r].kind = "composer" /\ request[r].value \in Receipt /\ row # "none" /\ row' # "none"
      /\ row' \in Receipt \cup {"none"} /\ told' \subseteq Receipt
  BY DEF Progress, OneSend, RequestTypes, Receipt
<1>s. \A w \in {"failed", "delivered"} : Says(w)' => Says(w)
  BY <1>r DEF Says
<1>e. epoch \in Nat
  BY DEF RequestTypes
<1>10. UploadsGrow' /\ UploadsAreWhole'
  BY DEF UploadsGrow, UploadsAreWhole
<1>11. RequestTypes'
  BY <1>r DEF RequestTypes
<1>12. IdsExist'
  BY <1>r DEF IdsExist
<1>13. Progress'
  BY <1>r DEF Progress, Unsent
<1>14. OneSend'
  BY <1>r DEF OneSend
<1>15. InOnePlace'
  BY <1>r DEF OneSend, InOnePlace, NoneUnsent, NoneCarried, NoneQueued, Unsent
<1>16. SaysWhatIs'
  BY <1>r, <1>s
     DEF SaysWhatIs, InOnePlace, OneSend, NoneUnsent, NoneCarried, NoneQueued, Unsent
<1>17. BrowsersAreListed'
  BY <1>e, <1>r DEF BrowsersAreListed, Unsent
<1> QED
  BY <1>10, <1>11, <1>12, <1>13, <1>14, <1>15, <1>16, <1>17

(* Agent browser requests of a lost connection learn of it. *)
LEMMA DropSendersKeeps ==
    ASSUME RequestInv, DropSenders
    PROVE  RequestInv'
<1> USE BoundsAssumption DEF RequestInv
<1>0. UNCHANGED <<row, told, socket, to_node, to_hub, epoch, online, handle, queue,
                  acks, upload, files, written, content, tasks, versions, overwrote,
                  faults>>
  BY DEF DropSenders, wire, composer, terminal, edits, node_files
<1>1. \A s \in Id : request'[s] = IF s \in dropping /\ request[s].entry
                                   THEN [request[s] EXCEPT !.entry = FALSE,
           !.rx = "dropped"]
                                   ELSE request[s]
  BY DEF DropSenders
<1>2. \A s \in Id : request[s] \in RequestRecord
  BY RecordIs
<1>3. [r \in Id |-> IF r \in dropping /\ request[r].entry
                   THEN [request[r] EXCEPT !.entry = FALSE, !.rx = "dropped"]
                   ELSE request[r]] \in [Id -> RequestRecord]
  <2>1. \A s \in Id : [request[s] EXCEPT !.entry = FALSE, !.rx = "dropped"] \in RequestRecord
    <3>1. \A x \in RequestRecord : [x EXCEPT !.entry = FALSE, !.rx = "dropped"] \in RequestRecord
      BY DEF RequestRecord
    <3> QED BY <1>2, <3>1
  <2> QED BY <1>2, <2>1
<1>4. request' \in Seq(RequestRecord) /\ Id' = Id /\ dropping' = {}
  BY <1>3, AllChange DEF DropSenders
<1>r. \A s \in Id :
         /\ request'[s].kind = request[s].kind /\ request'[s].step = request[s].step
         /\ request'[s].attach = request[s].attach /\ request'[s].conn = request[s].conn
         /\ request'[s].born = request[s].born /\ request'[s].tracked = request[s].tracked
         /\ request'[s].value = request[s].value
         /\ \/ request'[s] = request[s] /\ ~(s \in dropping /\ request[s].entry)
            \/ request'[s].rx = "dropped" /\ ~request'[s].entry
  <2> SUFFICES ASSUME NEW s \in Id
               PROVE  /\ request'[s].kind = request[s].kind /\ request'[s].step = request[s].step
                      /\ request'[s].attach = request[s].attach /\ request'[s].conn = request[s].conn
                      /\ request'[s].born = request[s].born /\ request'[s].tracked = request[s].tracked
                      /\ request'[s].value = request[s].value
                      /\ \/ request'[s] = request[s] /\ ~(s \in dropping /\ request[s].entry)
                         \/ request'[s].rx = "dropped" /\ ~request'[s].entry
    OBVIOUS
  <2>1. CASE s \in dropping /\ request[s].entry
    <3>1. request'[s] = [request[s] EXCEPT !.entry = FALSE, !.rx = "dropped"]
      BY <1>1, <2>1
    <3>2. request[s] \in RequestRecord
      BY <1>2
    <3> QED BY <3>1, <3>2 DEF RequestRecord
  <2>2. CASE ~(s \in dropping /\ request[s].entry)
    BY <1>1, <2>2
  <2> QED BY <2>1, <2>2
<1>s. \A w \in {"failed", "delivered"} : Says(w)' => Says(w)
  BY <1>0, <1>4, <1>r DEF Says
<1>e. epoch \in Nat
  BY DEF RequestTypes
<1>10. UploadsGrow' /\ UploadsAreWhole'
  BY <1>0 DEF UploadsGrow, UploadsAreWhole
<1>11. RequestTypes'
  BY <1>0, <1>4 DEF RequestTypes
<1>12. IdsExist'
  BY <1>0, <1>4, <1>r DEF IdsExist
<1>13. Progress'
  BY <1>0, <1>4, <1>r DEF Progress, Unsent
<1>14. OneSend'
  BY <1>0, <1>4, <1>r DEF OneSend
<1>15. InOnePlace'
  BY <1>0, <1>4, <1>r DEF OneSend, InOnePlace, NoneUnsent, NoneCarried, NoneQueued,
     Unsent
<1>16. SaysWhatIs'
  BY <1>0, <1>4, <1>r, <1>s
     DEF SaysWhatIs, InOnePlace, OneSend, NoneUnsent, NoneCarried, NoneQueued, Unsent
<1>17. BrowsersAreListed'
  BY <1>0, <1>e, <1>4, <1>r DEF BrowsersAreListed, Unsent, Progress
<1> QED
  BY <1>10, <1>11, <1>12, <1>13, <1>14, <1>15, <1>16, <1>17

(* The connection is lost. *)
LEMMA unregister_machineKeeps ==
    ASSUME RequestInv, unregister_machine
    PROVE  RequestInv'
<1> USE BoundsAssumption DEF RequestInv
<1>0. UNCHANGED <<row, told, socket, queue, files, written, content, tasks, versions,
                  overwrote>>
  BY DEF unregister_machine, DropConnection, wire, composer, terminal, edits, node_files
<1>d. /\ online' = FALSE /\ epoch' = epoch + 1 /\ to_node' = <<>> /\ to_hub' = <<>>
      /\ handle' = {} /\ upload' = [a \in Attach |-> None] /\ acks' = {}
  BY DEF unregister_machine, DropConnection
<1>n. /\ to_node' \in Seq(ToNode) /\ to_hub' \in Seq(Nat \X Answer \X Nat)
      /\ DOMAIN to_node' = {} /\ DOMAIN to_hub' = {}
      /\ upload' \in [Attach -> Seq(Nat)] /\ \A a \in Attach : upload'[a] = None
  BY <1>d, EmptyIs DEF None
<1>t. epoch' \in Nat /\ online' \in BOOLEAN /\ acks' \subseteq Nat \X {"open", "delivered", "unknown"}
  <2>1. epoch \in Nat
    BY DEF RequestTypes
  <2>2. epoch' \in Nat
    BY <1>d, <2>1, SMT
  <2>3. online' \in BOOLEAN /\ acks' \subseteq Nat \X {"open", "delivered", "unknown"}
    BY <1>d, Zenon
  <2> QED BY <2>2, <2>3
<1>1. \A s \in Id : request'[s] = IF request[s].kind = "browser" /\ request[s].tracked
                                   THEN [request[s] EXCEPT !.tracked = FALSE] ELSE request[s]
  BY DEF unregister_machine, drop_agent_browsers
<1>2. \A s \in Id : request[s] \in RequestRecord
  BY RecordIs
<1>7. \A s \in Id : [request[s] EXCEPT !.tracked = FALSE] \in RequestRecord
  <2>1. \A x \in RequestRecord : [x EXCEPT !.tracked = FALSE] \in RequestRecord
    BY DEF RequestRecord
  <2> QED BY <1>2, <2>1
<1>3. [r \in Id |-> IF r \in {q \in Id : request[q].kind = "browser" /\ request[q].tracked}
                   THEN [request[r] EXCEPT !.tracked = FALSE]
                   ELSE request[r]] \in [Id -> RequestRecord]
  BY <1>2, <1>7
<1>4. request' \in Seq(RequestRecord) /\ Id' = Id
  BY <1>3, AllChange DEF unregister_machine, drop_agent_browsers
<1>5. \A s \in Id : request[s].kind = "browser" /\ request[s].tracked => s \in dropping'
  BY DEF unregister_machine, drop_agent_browsers
<1>6. dropping \subseteq dropping'
  BY DEF unregister_machine, drop_agent_browsers
<1>r. \A s \in Id :
         /\ request'[s].kind = request[s].kind /\ request'[s].step = request[s].step
         /\ request'[s].attach = request[s].attach /\ request'[s].conn = request[s].conn
         /\ request'[s].born = request[s].born /\ (request'[s].entry <=> request[s].entry)
         /\ request'[s].value = request[s].value /\ request'[s].rx = request[s].rx
         /\ (request'[s].tracked => request[s].tracked)
  <2> SUFFICES ASSUME NEW s \in Id
               PROVE  /\ request'[s].kind = request[s].kind /\ request'[s].step = request[s].step
                      /\ request'[s].attach = request[s].attach /\ request'[s].conn = request[s].conn
                      /\ request'[s].born = request[s].born /\ (request'[s].entry <=> request[s].entry)
                      /\ request'[s].value = request[s].value /\ request'[s].rx = request[s].rx
                      /\ (request'[s].tracked => request[s].tracked)
    OBVIOUS
  <2>1. CASE request[s].kind = "browser" /\ request[s].tracked
    <3>1. request'[s] = [request[s] EXCEPT !.tracked = FALSE]
      BY <1>1, <2>1
    <3>2. request[s] \in RequestRecord
      BY <1>2
    <3> QED BY <3>1, <3>2 DEF RequestRecord
  <2>2. CASE ~(request[s].kind = "browser" /\ request[s].tracked)
    BY <1>1, <2>2
  <2> QED BY <2>1, <2>2
<1>s. \A w \in {"failed", "delivered"} : Says(w)' => Says(w)
  BY <1>0, <1>d, <1>n, <1>4, <1>r DEF Says
<1>e. epoch \in Nat
  BY DEF RequestTypes
<1>10. RequestTypes'
  BY <1>0, <1>t, <1>n, <1>4 DEF RequestTypes
<1>11. IdsExist'
  BY <1>0, <1>d, <1>n, <1>4 DEF IdsExist
<1>12. Progress'
  BY <1>0, <1>4, <1>r DEF Progress, Unsent
<1>13. OneSend'
  BY <1>0, <1>4, <1>r DEF OneSend
<1>14. InOnePlace'
  BY <1>0, <1>n, <1>4, <1>r DEF OneSend, InOnePlace, NoneUnsent, NoneCarried,
     NoneQueued, Unsent
<1>15. SaysWhatIs'
  BY <1>0, <1>n, <1>4, <1>r, <1>s
     DEF SaysWhatIs, InOnePlace, OneSend, NoneUnsent, NoneCarried, NoneQueued, Unsent
<1>16. UploadsGrow'
  BY <1>0, <1>n DEF UploadsGrow
<1>17. UploadsAreWhole'
  BY <1>0, <1>n DEF UploadsGrow, UploadsAreWhole
<1>18. BrowsersAreListed'
  <2> SUFFICES ASSUME NEW s \in Id, request[s].kind = "browser",
                      request[s].step \in Unsent \cup {"sent"}
               PROVE  /\ request'[s].born <= epoch' /\ request'[s].conn <= epoch'
                      /\ request'[s].born = epoch' => request'[s].tracked
                      /\ (/\ request'[s].step \in {"ready", "sent"}
                          /\ request'[s].conn = request'[s].born /\ request'[s].born # epoch'
                          /\ s \notin dropping') => request'[s].rx # "open"
    BY <1>4, <1>r DEF BrowsersAreListed, Unsent
  <2>1. request[s].born \in Nat /\ request[s].conn \in Nat
    BY <1>2 DEF RequestRecord
  <2>2. /\ request[s].born <= epoch /\ request[s].conn <= epoch
        /\ request[s].born = epoch => request[s].tracked
        /\ (/\ request[s].step \in {"ready", "sent"} /\ request[s].conn = request[s].born
            /\ request[s].born # epoch /\ s \notin dropping) => request[s].rx # "open"
    BY DEF BrowsersAreListed
  <2>3. /\ request'[s].born = request[s].born /\ request'[s].conn = request[s].conn
        /\ request'[s].step = request[s].step /\ request'[s].rx = request[s].rx
    BY <1>r
  <2>4. request[s].born < epoch' /\ request[s].conn < epoch'
    BY <1>d, <1>e, <2>1, <2>2
  <2>5. s \notin dropping' => s \notin dropping /\ ~request[s].tracked
    BY <1>5, <1>6
  <2> QED BY <1>d, <1>e, <2>1, <2>2, <2>3, <2>4, <2>5
<1> QED
  BY <1>10, <1>11, <1>12, <1>13, <1>14, <1>15, <1>16, <1>17, <1>18

(* The hub stops and starts again. *)
LEMMA HubRestartsKeeps ==
    ASSUME RequestInv, HubRestarts
    PROVE  RequestInv'
<1> USE BoundsAssumption DEF RequestInv
<1>0. UNCHANGED <<row, told, queue, files, written, content, tasks, versions, overwrote>>
  BY DEF HubRestarts, DropConnection, wire, composer, terminal, edits, node_files
<1>d. /\ online' = FALSE /\ epoch' = epoch + 1 /\ to_node' = <<>> /\ to_hub' = <<>>
      /\ handle' = {} /\ upload' = [a \in Attach |-> None] /\ acks' = {}
  BY DEF HubRestarts, DropConnection
<1>n. /\ to_node' \in Seq(ToNode) /\ to_hub' \in Seq(Nat \X Answer \X Nat)
      /\ DOMAIN to_node' = {} /\ DOMAIN to_hub' = {}
      /\ upload' \in [Attach -> Seq(Nat)] /\ \A a \in Attach : upload'[a] = None
  BY <1>d, EmptyIs DEF None
<1>t. epoch' \in Nat /\ online' \in BOOLEAN /\ acks' \subseteq Nat \X {"open", "delivered", "unknown"}
  <2>1. epoch \in Nat
    BY DEF RequestTypes
  <2>2. epoch' \in Nat
    BY <1>d, <2>1, SMT
  <2>3. online' \in BOOLEAN /\ acks' \subseteq Nat \X {"open", "delivered", "unknown"}
    BY <1>d, Zenon
  <2> QED BY <2>2, <2>3
<1>2. \A s \in Id : request[s] \in RequestRecord
  BY RecordIs
<1>3. [r \in Id |-> Over(r)] \in [Id -> RequestRecord]
  BY <1>2 DEF RequestRecord, Over, Waiting
<1>4. request' \in Seq(RequestRecord) /\ Id' = Id
  BY <1>3, AllChange DEF HubRestarts
<1>r. \A s \in Id :
         /\ request'[s].kind = request[s].kind /\ request'[s].step = "done"
         /\ ~request'[s].entry /\ ~request'[s].tracked
         /\ request'[s].value = "none" /\ request'[s].rx = "open"
  BY DEF HubRestarts, Over
<1>k. socket' \in [Attach -> {"new", "open", "closed"}]
  BY DEF HubRestarts, RequestTypes
<1>s. \A w \in {"failed", "delivered"} : Says(w)' => Says(w)
  BY <1>0, <1>d, <1>n, <1>4, <1>r DEF Says
<1>e. epoch \in Nat
  BY DEF RequestTypes
<1>10. RequestTypes'
  BY <1>0, <1>t, <1>n, <1>4, <1>k DEF RequestTypes
<1>11. IdsExist'
  BY <1>0, <1>d, <1>n, <1>4 DEF IdsExist
<1>12. Progress'
  BY <1>0, <1>4, <1>r DEF Progress, Unsent
<1>13. OneSend'
  BY <1>0, <1>4, <1>r DEF OneSend
<1>14. InOnePlace'
  BY <1>0, <1>n, <1>4, <1>r DEF OneSend, InOnePlace, NoneUnsent, NoneCarried,
     NoneQueued, Unsent
<1>15. SaysWhatIs'
  BY <1>0, <1>n, <1>4, <1>r, <1>s
     DEF SaysWhatIs, InOnePlace, OneSend, NoneUnsent, NoneCarried, NoneQueued, Unsent
<1>16. UploadsGrow'
  BY <1>0, <1>n DEF UploadsGrow
<1>17. UploadsAreWhole'
  BY <1>0, <1>n DEF UploadsGrow, UploadsAreWhole
<1>18. BrowsersAreListed'
  BY <1>0, <1>e, <1>4, <1>r DEF BrowsersAreListed, Unsent
<1> QED
  BY <1>10, <1>11, <1>12, <1>13, <1>14, <1>15, <1>16, <1>17, <1>18

(* The machine connects again. *)
LEMMA ReconnectKeeps ==
    ASSUME RequestInv, Reconnect
    PROVE  RequestInv'
<1> USE BoundsAssumption DEF RequestInv
<1>0. UNCHANGED <<request, dropping, row, told, socket, to_node, to_hub, epoch, handle,
                  queue, acks, upload, files, written, content, tasks, versions,
                  overwrote, faults>>
  BY DEF Reconnect, wire, composer, terminal, edits, node_files
<1>1. online' = TRUE
  BY DEF Reconnect
<1>i. Id' = Id
  BY <1>0 DEF Id
<1>e. epoch \in Nat
  BY DEF RequestTypes
<1>10. /\ IdsExist' /\ Progress' /\ OneSend' /\ InOnePlace'
       /\ SaysWhatIs' /\ UploadsGrow' /\ UploadsAreWhole' /\ BrowsersAreListed'
  BY <1>0, <1>i DEF IdsExist, Progress, Unsent, OneSend, InOnePlace, NoneUnsent,
     NoneCarried, NoneQueued, SaysWhatIs, Says, UploadsGrow, UploadsAreWhole,
     BrowsersAreListed
<1>11. RequestTypes'
  BY <1>0, <1>i, <1>1 DEF RequestTypes
<1> QED
  BY <1>10, <1>11

(* The node takes a message or a step of a task, and may answer. *)
LEMMA NodeGoesOn ==
    ASSUME RequestInv, to_node' = to_node \/ (to_node # <<>> /\ to_node' = Tail(to_node)),
           NEW x \in Nat \X {"ok", "error", "conflict", "unknown"} \X Nat, x[1] \in Id,
           to_hub' = to_hub \/ to_hub' = Append(to_hub, x),
           upload' \in [Attach -> Seq(Nat)],
           UploadsGrow', UploadsAreWhole', content' \in Nat,
           tasks' \subseteq {"read", "write", "rename"} \X Nat \X Nat \X Nat,
           \A t \in tasks' : t[2] \in Id,
           UNCHANGED <<request, dropping, row, told, socket, epoch, online, queue, acks,
           written,
                       versions>>
    PROVE  RequestInv'
<1> USE BoundsAssumption DEF RequestInv
<1>n. /\ to_node' \in Seq(ToNode)
      /\ \/ to_node' = to_node
         \/ \A i \in DOMAIN to_node' : i + 1 \in DOMAIN to_node /\ to_node'[i] = to_node[i + 1]
  <2>1. to_node \in Seq(ToNode)
    BY DEF RequestTypes
  <2>2. CASE to_node' = to_node
    BY <2>1, <2>2
  <2>3. CASE to_node # <<>> /\ to_node' = Tail(to_node)
    BY <2>1, <2>3, TailIs
  <2> QED BY <2>2, <2>3
<1>h. /\ to_hub' \in Seq(Nat \X Answer \X Nat)
      /\ \A i \in DOMAIN to_hub' : to_hub'[i] = x \/ (i \in DOMAIN to_hub /\ to_hub'[i] = to_hub[i])
  <2>1. to_hub \in Seq(Nat \X Answer \X Nat) /\ x \in Nat \X Answer \X Nat
    BY DEF RequestTypes, Answer
  <2>2. CASE to_hub' = to_hub
    BY <2>1, <2>2
  <2>3. CASE to_hub' = Append(to_hub, x)
    <3> DEFINE n == Len(to_hub) + 1
    <3>1. /\ to_hub' \in Seq(Nat \X Answer \X Nat) /\ DOMAIN to_hub' = DOMAIN to_hub \cup {n}
          /\ to_hub'[n] = x /\ \A i \in DOMAIN to_hub : to_hub'[i] = to_hub[i]
      <4> DEFINE T == Nat \X Answer \X Nat
      <4>1. to_hub \in Seq(T) /\ x \in T
        BY <2>1
      <4> HIDE DEF T
      <4>2. /\ Append(to_hub, x) \in Seq(T) /\ DOMAIN Append(to_hub, x) = DOMAIN to_hub \cup {n}
            /\ Append(to_hub, x)[n] = x /\ \A i \in DOMAIN to_hub : Append(to_hub, x)[i] = to_hub[i]
        BY <4>1, AppendIs
      <4> QED BY <2>3, <4>2 DEF T
    <3> HIDE DEF n
    <3> QED BY <3>1
  <2> QED BY <2>2, <2>3
<1>x. x[2] \notin {"failed", "delivered"}
  OBVIOUS
<1>s. \A w \in {"failed", "delivered"} : Says(w)' => Says(w)
  BY <1>h, <1>x DEF Says, Id
<1>i. Id' = Id
  BY DEF Id
<1>e. epoch \in Nat
  BY DEF RequestTypes
<1>10. Progress' /\ OneSend' /\ BrowsersAreListed'
  BY <1>i DEF Progress, Unsent, OneSend, BrowsersAreListed
<1>11. RequestTypes'
  BY <1>i, <1>n, <1>h DEF RequestTypes
<1>12. IdsExist'
  BY <1>i, <1>n, <1>h DEF IdsExist
<1>13. InOnePlace'
  BY <1>i, <1>n DEF OneSend, InOnePlace, NoneUnsent, NoneCarried, NoneQueued, Unsent
<1>14. SaysWhatIs'
  BY <1>n, <1>s
     DEF SaysWhatIs, InOnePlace, OneSend, NoneUnsent, NoneCarried, NoneQueued, Unsent, Id
<1>15. UploadsGrow'
  OBVIOUS
<1>16. UploadsAreWhole'
  OBVIOUS
<1> QED
  BY <1>10, <1>11, <1>12, <1>13, <1>14, <1>15, <1>16

(* The node takes a message, without an answer. *)
LEMMA NodeOnlyTakes ==
    ASSUME RequestInv, to_node' = to_node \/ (to_node # <<>> /\ to_node' = Tail(to_node)), upload' \in [Attach -> Seq(Nat)],
           UploadsGrow', UploadsAreWhole',
           UNCHANGED <<request, dropping, row, told, socket, to_hub, epoch, online,
           queue, acks,
                       written, content, tasks, versions>>
    PROVE  RequestInv'
<1> USE BoundsAssumption DEF RequestInv
<1>n. /\ to_node' \in Seq(ToNode)
      /\ \/ to_node' = to_node
         \/ \A i \in DOMAIN to_node' : i + 1 \in DOMAIN to_node /\ to_node'[i] = to_node[i + 1]
  <2>1. to_node \in Seq(ToNode)
    BY DEF RequestTypes
  <2>2. CASE to_node' = to_node
    BY <2>1, <2>2
  <2>3. CASE to_node # <<>> /\ to_node' = Tail(to_node)
    BY <2>1, <2>3, TailIs
  <2> QED BY <2>2, <2>3
<1>s. \A w \in {"failed", "delivered"} : Says(w)' => Says(w)
  BY DEF Says, Id
<1>i. Id' = Id
  BY DEF Id
<1>e. epoch \in Nat
  BY DEF RequestTypes
<1>10. Progress' /\ OneSend' /\ BrowsersAreListed'
  BY <1>i DEF Progress, Unsent, OneSend, BrowsersAreListed
<1>11. RequestTypes'
  BY <1>i, <1>n DEF RequestTypes
<1>12. IdsExist'
  BY <1>i, <1>n DEF IdsExist
<1>13. InOnePlace'
  BY <1>i, <1>n DEF OneSend, InOnePlace, NoneUnsent, NoneCarried, NoneQueued, Unsent
<1>14. SaysWhatIs'
  BY <1>n, <1>s
     DEF SaysWhatIs, InOnePlace, OneSend, NoneUnsent, NoneCarried, NoneQueued, Unsent, Id
<1>15. UploadsGrow'
  OBVIOUS
<1>16. UploadsAreWhole'
  OBVIOUS
<1> QED
  BY <1>10, <1>11, <1>12, <1>13, <1>14, <1>15, <1>16

(* The node cannot write the message. *)
LEMMA ComposerFails ==
    ASSUME RequestInv, to_node # <<>>, Head(to_node)[1] = "composer",
           to_node' = Tail(to_node),
           NEW r \in Id, to_hub' = Append(to_hub, <<r, "failed", 0>>),
           UNCHANGED <<request, dropping, row, told, socket, epoch, online, handle,
           queue, acks,
                       upload, files, written, content, tasks, versions, overwrote>>
    PROVE  RequestInv'
<1> USE BoundsAssumption DEF RequestInv
<1>n. /\ to_node' \in Seq(ToNode) /\ 1 \in DOMAIN to_node /\ to_node[1][1] = "composer"
      /\ \A i \in DOMAIN to_node' : /\ i + 1 \in DOMAIN to_node /\ i + 1 # 1
                                    /\ to_node'[i] = to_node[i + 1]
  <2>1. to_node \in Seq(ToNode)
    BY DEF RequestTypes
  <2> QED BY <2>1, TailIs
<1>m. /\ NoneCarried' /\ NoneQueued /\ written = 0 /\ NoneUnsent /\ row # "none"
      /\ ~NoneCarried
  <2>1. ~NoneCarried
    BY <1>n DEF NoneCarried
  <2>2. NoneQueued /\ written = 0 /\ NoneUnsent /\ row # "none"
    BY <2>1 DEF InOnePlace
  <2>3. NoneCarried'
    BY <1>n DEF InOnePlace, NoneCarried
  <2> QED BY <2>1, <2>2, <2>3
<1>f. ~Says("failed") /\ ~Says("delivered")
  BY <1>m DEF SaysWhatIs
<1> DEFINE x == <<r, "failed", 0>>
<1>x. x \in Nat \X Answer \X Nat /\ x[1] = r /\ x[2] = "failed" /\ to_hub' = Append(to_hub, x)
  BY DEF Answer, RequestTypes, Id
<1> HIDE DEF x
<1>h. /\ to_hub' \in Seq(Nat \X Answer \X Nat)
      /\ \A i \in DOMAIN to_hub' : to_hub'[i] = x \/ (i \in DOMAIN to_hub /\ to_hub'[i] = to_hub[i])
  <2>1. to_hub \in Seq(Nat \X Answer \X Nat) /\ x \in Nat \X Answer \X Nat
    BY <1>x DEF RequestTypes, Answer
  <2> DEFINE n == Len(to_hub) + 1
  <2>2. /\ to_hub' \in Seq(Nat \X Answer \X Nat) /\ DOMAIN to_hub' = DOMAIN to_hub \cup {n}
        /\ to_hub'[n] = x /\ \A i \in DOMAIN to_hub : to_hub'[i] = to_hub[i]
    <3> DEFINE T == Nat \X Answer \X Nat
    <3>1. to_hub \in Seq(T) /\ x \in T
      BY <2>1
    <3> HIDE DEF T
    <3>2. /\ Append(to_hub, x) \in Seq(T) /\ DOMAIN Append(to_hub, x) = DOMAIN to_hub \cup {n}
          /\ Append(to_hub, x)[n] = x /\ \A i \in DOMAIN to_hub : Append(to_hub, x)[i] = to_hub[i]
      BY <3>1, AppendIs
    <3> QED BY <1>x, <3>2 DEF T
  <2> HIDE DEF n
  <2> QED BY <2>2
<1>s. ~Says("delivered")'
  BY <1>f, <1>h, <1>x DEF Says, Id
<1>u. NoneUnsent' /\ NoneQueued'
  BY <1>m DEF NoneUnsent, NoneQueued, Id
<1>i. Id' = Id
  BY DEF Id
<1>e. epoch \in Nat
  BY DEF RequestTypes
<1>10. /\ Progress' /\ OneSend' /\ UploadsGrow' /\ UploadsAreWhole'
       /\ BrowsersAreListed'
  BY <1>i DEF Progress, Unsent, OneSend, UploadsGrow, UploadsAreWhole, BrowsersAreListed
<1>11. RequestTypes'
  BY <1>i, <1>n, <1>h DEF RequestTypes
<1>12. IdsExist'
  BY <1>i, <1>n, <1>h, <1>x DEF IdsExist
<1>13. InOnePlace'
  BY <1>m, <1>u DEF InOnePlace, NoneQueued, NoneCarried
<1>14. SaysWhatIs'
  BY <1>m, <1>u, <1>s DEF SaysWhatIs
<1> QED
  BY <1>10, <1>11, <1>12, <1>13, <1>14

(* The node hands the message to the writer of its attach. *)
LEMMA ComposerQueued ==
    ASSUME RequestInv, to_node # <<>>, Head(to_node)[1] = "composer",
           to_node' = Tail(to_node),
           NEW a \in Attach, NEW r \in Id, queue' = [queue EXCEPT ![a] = Append(@, r)],
           acks' = acks \cup {<<r, "open">>},
           UNCHANGED <<request, dropping, row, told, socket, to_hub, epoch, online, handle,
                       upload, files, written, content, tasks, versions, overwrote>>
    PROVE  RequestInv'
<1> USE BoundsAssumption DEF RequestInv
<1>n. /\ to_node' \in Seq(ToNode) /\ 1 \in DOMAIN to_node /\ to_node[1][1] = "composer"
      /\ \A i \in DOMAIN to_node' : /\ i + 1 \in DOMAIN to_node /\ i + 1 # 1
                                    /\ to_node'[i] = to_node[i + 1]
  <2>1. to_node \in Seq(ToNode)
    BY DEF RequestTypes
  <2> QED BY <2>1, TailIs
<1>m. /\ NoneCarried' /\ NoneQueued /\ written = 0 /\ NoneUnsent /\ row # "none"
      /\ ~NoneCarried
  <2>1. ~NoneCarried
    BY <1>n DEF NoneCarried
  <2>2. NoneQueued /\ written = 0 /\ NoneUnsent /\ row # "none"
    BY <2>1 DEF InOnePlace
  <2>3. NoneCarried'
    BY <1>n DEF InOnePlace, NoneCarried
  <2> QED BY <2>1, <2>2, <2>3
<1>f. ~Says("failed") /\ ~Says("delivered")
  BY <1>m DEF SaysWhatIs
<1>q. /\ queue' \in [Attach -> Seq(Nat)] /\ acks' \subseteq Nat \X {"open", "delivered", "unknown"}
      /\ \A b \in Attach : DOMAIN queue'[b] = IF b = a THEN {1} ELSE {}
      /\ queue'[a][1] = r
  <2>1. queue \in [Attach -> Seq(Nat)] /\ r \in Nat /\ acks \subseteq Nat \X {"open", "delivered", "unknown"}
    BY DEF RequestTypes, Id
  <2>2. \A b \in Attach : queue[b] = <<>>
    BY <1>m DEF NoneQueued
  <2>3. /\ Append(<<>>, r) \in Seq(Nat) /\ DOMAIN Append(<<>>, r) = {1}
        /\ Append(<<>>, r)[1] = r /\ <<>> \in Seq(Nat) /\ DOMAIN <<>> = {}
    BY <2>1
  <2>4. \A b \in Attach : queue'[b] = IF b = a THEN Append(<<>>, r) ELSE <<>>
    BY <2>1, <2>2
  <2>5. queue' \in [Attach -> Seq(Nat)]
    BY <2>1, <2>2, <2>3
  <2>6. acks' \subseteq Nat \X {"open", "delivered", "unknown"}
    BY <2>1
  <2> QED BY <2>3, <2>4, <2>5, <2>6
<1>u. NoneUnsent'
  BY <1>m DEF NoneUnsent, Id
<1>s. ~Says("failed")' /\ ~Says("delivered")'
  BY <1>f DEF Says, Id
<1>c. \A ack \in acks' : ack[1] \in Id
  BY DEF IdsExist
<1>i. Id' = Id
  BY DEF Id
<1>e. epoch \in Nat
  BY DEF RequestTypes
<1>10. /\ Progress' /\ OneSend' /\ UploadsGrow' /\ UploadsAreWhole'
       /\ BrowsersAreListed'
  <2>1. Progress' /\ OneSend'
    BY <1>i DEF Progress, Unsent, OneSend
  <2>2. UploadsGrow' /\ UploadsAreWhole'
    BY DEF UploadsGrow, UploadsAreWhole
  <2>3. BrowsersAreListed'
    BY <1>i DEF BrowsersAreListed, Unsent
  <2> QED BY <2>1, <2>2, <2>3
<1>11. RequestTypes'
  BY <1>i, <1>n, <1>q DEF RequestTypes
<1>12. IdsExist'
  BY <1>i, <1>n, <1>q, <1>c DEF IdsExist
<1>13. InOnePlace'
  BY <1>m, <1>u, <1>q DEF InOnePlace, NoneCarried
<1>14. SaysWhatIs'
  BY <1>s DEF SaysWhatIs
<1> QED
  BY <1>10, <1>11, <1>12, <1>13, <1>14

(* The writer writes the message. *)
LEMMA MessageWritten ==
    ASSUME RequestInv, NEW a \in Attach, queue[a] # <<>>, written' = written + 1,
           acks' = Acked(Head(queue[a]), "delivered"),
           queue' = [queue EXCEPT ![a] = Tail(@)],
           UNCHANGED <<request, dropping, row, told, socket, to_node, to_hub, epoch, online,
                       handle, upload, files, content, tasks, versions, overwrote>>
    PROVE  RequestInv'
<1> USE BoundsAssumption DEF RequestInv
<1>m. NoneCarried /\ written = 0 /\ NoneUnsent /\ row # "none" /\ ~Says("failed")
  <2>1. ~NoneQueued
    BY DEF NoneQueued
  <2> QED BY <2>1 DEF InOnePlace, SaysWhatIs
<1>f. ~Says("delivered")
  BY <1>m DEF SaysWhatIs
<1>w. written' \in Nat
  BY <1>m
<1>t. queue \in [Attach -> Seq(Nat)] /\ acks \subseteq Nat \X {"open", "delivered", "unknown"}
  BY DEF RequestTypes
<1>q. queue' \in [Attach -> Seq(Nat)] /\ NoneQueued' /\ \A b \in Attach : DOMAIN queue'[b] = {}
  <2>1. \A b \in Attach : queue'[b] = <<>>
    <3>1. \A b \in Attach : b # a => queue[b] = <<>>
      <4> SUFFICES ASSUME NEW b \in Attach, b # a, queue[b] # <<>> PROVE FALSE
        OBVIOUS
      <4>1. 1 \in DOMAIN queue[a] /\ 1 \in DOMAIN queue[b]
        BY <1>t, TailIs
      <4> QED BY <4>1 DEF InOnePlace
    <3>2. Tail(queue[a]) = <<>>
      <4>1. queue[a] \in Seq(Nat) /\ 1 \in DOMAIN queue[a]
        BY <1>t, TailIs
      <4>2. 2 \notin DOMAIN queue[a]
        BY <4>1 DEF InOnePlace
      <4> QED BY <4>1, <4>2, LastIsTaken
    <3> QED BY <1>t, <3>1, <3>2
  <2>2. queue' \in [Attach -> Seq(Nat)]
    BY <1>t, TailIs, EmptyIs
  <2> QED BY <2>1, <2>2, EmptyIs DEF NoneQueued
<1>u. NoneUnsent' /\ NoneCarried'
  BY <1>m DEF NoneUnsent, NoneCarried, Id
<1>h. Head(queue[a]) \in Id /\ Head(queue[a]) \in Nat
  <2>1. 1 \in DOMAIN queue[a] /\ Head(queue[a]) = queue[a][1] /\ Head(queue[a]) \in Nat
    BY <1>t, TailIs
  <2> QED BY <2>1 DEF IdsExist
<1>a. acks' \subseteq Nat \X {"open", "delivered", "unknown"}
  BY <1>t, <1>h DEF Acked
<1>c. \A ack \in acks' : ack[1] \in Id /\ ack[2] # "failed"
  BY <1>t, <1>h DEF IdsExist, Acked
<1>s. ~Says("failed")'
  BY <1>m, <1>c DEF Says, Id
<1>i. Id' = Id
  BY DEF Id
<1>e. epoch \in Nat
  BY DEF RequestTypes
<1>10. /\ Progress' /\ OneSend' /\ UploadsGrow' /\ UploadsAreWhole'
       /\ BrowsersAreListed'
  BY <1>i DEF Progress, Unsent, OneSend, UploadsGrow, UploadsAreWhole, BrowsersAreListed
<1>11. RequestTypes'
  BY <1>i, <1>w, <1>q, <1>a DEF RequestTypes
<1>12. IdsExist'
  BY <1>i, <1>q, <1>c DEF IdsExist
<1>13. InOnePlace'
  BY <1>m, <1>u, <1>q DEF InOnePlace, NoneCarried
<1>14. SaysWhatIs'
  BY <1>m, <1>s DEF SaysWhatIs
<1> QED
  BY <1>10, <1>11, <1>12, <1>13, <1>14

(* The writer fails; some of the message may have been written. *)
LEMMA WriterFails ==
    ASSUME RequestInv, NEW a \in Attach, queue[a] # <<>>, written' \in {written,
           written + 1},
           acks' = {<<ack[1], IF \E i \in DOMAIN queue[a] : queue[a][i] = ack[1]
                              THEN "unknown" ELSE ack[2]>> : ack \in acks},
           queue' = [queue EXCEPT ![a] = <<>>],
           UNCHANGED <<request, dropping, row, told, socket, to_node, to_hub, epoch, online,
                       handle, upload, files, content, tasks, versions, overwrote>>
    PROVE  RequestInv'
<1> USE BoundsAssumption DEF RequestInv
<1>m. NoneCarried /\ written = 0 /\ NoneUnsent /\ row # "none" /\ ~Says("failed")
  <2>1. ~NoneQueued
    BY DEF NoneQueued
  <2> QED BY <2>1 DEF InOnePlace, SaysWhatIs
<1>f. ~Says("delivered")
  BY <1>m DEF SaysWhatIs
<1>w. written' \in Nat
  BY <1>m
<1>t. queue \in [Attach -> Seq(Nat)] /\ acks \subseteq Nat \X {"open", "delivered", "unknown"}
  BY DEF RequestTypes
<1>q. queue' \in [Attach -> Seq(Nat)] /\ NoneQueued' /\ \A b \in Attach : DOMAIN queue'[b] = {}
  <2>1. \A b \in Attach : queue'[b] = <<>>
    <3>1. \A b \in Attach : b # a => queue[b] = <<>>
      <4> SUFFICES ASSUME NEW b \in Attach, b # a, queue[b] # <<>> PROVE FALSE
        OBVIOUS
      <4>1. 1 \in DOMAIN queue[a] /\ 1 \in DOMAIN queue[b]
        BY <1>t, TailIs
      <4> QED BY <4>1 DEF InOnePlace
    <3> QED BY <1>t, <3>1
  <2>2. queue' \in [Attach -> Seq(Nat)]
    BY <1>t, TailIs, EmptyIs
  <2> QED BY <2>1, <2>2, EmptyIs DEF NoneQueued
<1>u. NoneUnsent' /\ NoneCarried'
  BY <1>m DEF NoneUnsent, NoneCarried, Id
<1>k. \A ack \in acks' : \E old \in acks : ack[1] = old[1] /\ ack[2] \in {"unknown", old[2]} /\ ack = <<ack[1], ack[2]>>
  OBVIOUS
<1>a. acks' \subseteq Nat \X {"open", "delivered", "unknown"}
  BY <1>t, <1>k
<1>c. \A ack \in acks' : ack[1] \in Id
  BY <1>k DEF IdsExist
<1>s. ~Says("failed")' /\ ~Says("delivered")'
  BY <1>m, <1>f, <1>k DEF Says, Id
<1>i. Id' = Id
  BY DEF Id
<1>e. epoch \in Nat
  BY DEF RequestTypes
<1>10. /\ Progress' /\ OneSend' /\ UploadsGrow' /\ UploadsAreWhole'
       /\ BrowsersAreListed'
  BY <1>i DEF Progress, Unsent, OneSend, UploadsGrow, UploadsAreWhole, BrowsersAreListed
<1>11. RequestTypes'
  BY <1>i, <1>w, <1>q, <1>a DEF RequestTypes
<1>12. IdsExist'
  BY <1>i, <1>q, <1>c DEF IdsExist
<1>13. InOnePlace'
  BY <1>m, <1>u, <1>q DEF InOnePlace, NoneCarried
<1>14. SaysWhatIs'
  BY <1>s DEF SaysWhatIs
<1> QED
  BY <1>10, <1>11, <1>12, <1>13, <1>14

(* The task of the message on the node answers. *)
LEMMA ComposerAnswered ==
    ASSUME RequestInv, NEW r \in Id, NEW v \in {"delivered", "unknown", "open"}, <<r,
           v>> \in acks,
           acks' = acks \ {<<r, v>>}, NEW w \in {"delivered", "unknown"},
           w = "unknown" \/ w = v,
           to_hub' = Append(to_hub, <<r, w, 0>>),
           UNCHANGED <<request, dropping, row, told, socket, to_node, epoch, online, handle,
                       queue, upload, files, written, content, tasks, versions,
                       overwrote>>
    PROVE  RequestInv'
<1> USE BoundsAssumption DEF RequestInv
<1> DEFINE x == <<r, w, 0>>
<1>x. x \in Nat \X Answer \X Nat /\ x[1] = r /\ x[2] = w /\ to_hub' = Append(to_hub, x)
  BY DEF Answer, RequestTypes, Id
<1> HIDE DEF x
<1>h. /\ to_hub' \in Seq(Nat \X Answer \X Nat)
      /\ \A i \in DOMAIN to_hub' : to_hub'[i] = x \/ (i \in DOMAIN to_hub /\ to_hub'[i] = to_hub[i])
  <2>1. to_hub \in Seq(Nat \X Answer \X Nat) /\ x \in Nat \X Answer \X Nat
    BY <1>x DEF RequestTypes, Answer
  <2> DEFINE n == Len(to_hub) + 1
  <2>2. /\ to_hub' \in Seq(Nat \X Answer \X Nat) /\ DOMAIN to_hub' = DOMAIN to_hub \cup {n}
        /\ to_hub'[n] = x /\ \A i \in DOMAIN to_hub : to_hub'[i] = to_hub[i]
    BY <1>x, <2>1, AppendIs
  <2> HIDE DEF n
  <2> QED BY <2>2
<1>k. w = "unknown" \/ Says(w)
  <2>1. w = v => \E ack \in acks : ack[2] = w
    BY Zenon
  <2> QED BY <2>1 DEF Says
<1>s. (Says("failed")' => Says("failed")) /\ (Says("delivered")' => Says("delivered"))
  BY <1>h, <1>k, <1>x DEF Says, Id
<1>i. Id' = Id
  BY DEF Id
<1>e. epoch \in Nat
  BY DEF RequestTypes
<1>10. /\ Progress' /\ OneSend' /\ InOnePlace' /\ UploadsGrow'
       /\ UploadsAreWhole' /\ BrowsersAreListed'
  BY <1>i DEF Progress, Unsent, OneSend, InOnePlace, NoneUnsent, NoneCarried,
     NoneQueued, UploadsGrow, UploadsAreWhole, BrowsersAreListed
<1>11. RequestTypes'
  BY <1>i, <1>h DEF RequestTypes
<1>12. IdsExist'
  BY <1>i, <1>h, <1>x DEF IdsExist
<1>13. SaysWhatIs'
  BY <1>s DEF SaysWhatIs, NoneUnsent, NoneCarried, NoneQueued, Id
<1> QED
  BY <1>10, <1>11, <1>12, <1>13

(* A step of one request. *)
LEMMA StepIs ==
    ASSUME RequestTypes, NEW r \in Id, NEW from, NEW x \in RequestRecord, Step(r, from, x)
    PROVE  /\ request[r].step = from /\ request' \in Seq(RequestRecord) /\ Id' = Id
           /\ request'[r] = x /\ \A s \in Id : s # r => request'[s] = request[s]
BY OneChanges DEF Step

(* What is left of a request that is over. *)
LEMMA OverIs ==
    ASSUME RequestTypes, NEW r \in Id
    PROVE  /\ Over(r) \in RequestRecord /\ Over(r).kind = request[r].kind /\ Over(r).step = "done"
           /\ ~Over(r).entry /\ ~Over(r).tracked /\ Over(r).rx = "open" /\ Over(r).value = "none"
BY RecordIs DEF Over, RequestRecord, Waiting

(* Without control, a connection or the capability nothing is sent. *)
LEMMA SubmitRefusedKeeps ==
    ASSUME RequestInv, NEW r \in Id, SubmitRefused(r)
    PROVE  RequestInv'
<1>u. UNCHANGED <<dropping, row, told, socket, to_node, to_hub, epoch, online, handle,
                   queue, acks, upload, files, written, content, tasks, versions,
                   overwrote>>
  BY DEF SubmitRefused, wire, composer, terminal, edits, node_files
<1> DEFINE x == [request[r] EXCEPT !.step = "answered", !.value = "failed", !.entry = FALSE]
<1>1. request' = [request EXCEPT ![r] = x]
  BY DEF SubmitRefused, Finish
<1>2. x \in RequestRecord /\ x.kind = request[r].kind /\ x.step = "answered" /\ x.value = "failed"
      /\ x.rx = request[r].rx
  BY RecordIs DEF RequestInv, RequestRecord, Waiting, Receipt
<1>3. request[r].step \in Unsent /\ request[r].kind = "composer"
  BY DEF SubmitRefused, Unsent
<1> HIDE DEF x
<1>4. /\ request' \in Seq(RequestRecord) /\ Id' = Id /\ request'[r] = x
      /\ \A s \in Id : s # r => request'[s] = request[s]
  BY <1>1, <1>2, OneChanges DEF RequestInv
<1> QED BY <1>2, <1>3, <1>4, <1>u, CouldNotSend

(* The request is entered into pending. *)
LEMMA register_pendingKeeps ==
    ASSUME RequestInv, NEW r \in Id, register_pending(r)
    PROVE  RequestInv'
<1>u. UNCHANGED <<dropping, row, told, socket, to_node, to_hub, epoch, online, handle,
                   queue, acks, upload, files, written, content, tasks, versions,
                   overwrote>>
  BY DEF register_pending, wire, composer, terminal, edits, node_files
<1> DEFINE x == [request[r] EXCEPT !.step = "registered", !.entry = TRUE]
<1>1. Step(r, "start", x)
  BY DEF register_pending
<1>2. /\ x \in RequestRecord /\ x.kind = request[r].kind /\ x.rx = request[r].rx
      /\ x.value = request[r].value /\ x.tracked = request[r].tracked /\ x.born = request[r].born
      /\ x.attach = request[r].attach /\ x.conn = request[r].conn /\ x.step = "registered" /\ x.entry
  BY RecordIs DEF RequestInv, RequestRecord, Waiting
<1> HIDE DEF x
<1>3. /\ request[r].step = "start" /\ request' \in Seq(RequestRecord) /\ Id' = Id
      /\ request'[r] = x /\ \A s \in Id : s # r => request'[s] = request[s]
  BY <1>1, <1>2, StepIs DEF RequestInv
<1>4. request[r].step \in Unsent
  BY <1>3 DEF Unsent
<1> QED BY <1>2, <1>3, <1>4, <1>u, GoesOn

(* A request cannot be sent: a composer message failed, another is over. *)
LEMMA NotSentKeeps ==
    ASSUME RequestInv, NEW r \in Id, NEW from \in Unsent, Step(r, from, NotSent(r)),
           UNCHANGED <<dropping, row, told, socket, to_node, to_hub, epoch, online,
           handle, queue,
                       acks, upload, files, written, content, tasks, versions, overwrote>>
    PROVE  RequestInv'
<1>1. request[r].step = from => request[r].step \in Unsent
  OBVIOUS
<1>2. CASE request[r].kind = "composer"
  <2> DEFINE x == [request[r] EXCEPT !.step = "answered", !.value = "failed", !.entry = FALSE]
  <2>1. Step(r, from, x)
    BY <1>2 DEF NotSent
  <2>2. x \in RequestRecord /\ x.kind = request[r].kind /\ x.step = "answered" /\ x.value = "failed"
        /\ x.rx = request[r].rx
    BY RecordIs DEF RequestInv, RequestRecord, Waiting, Receipt
  <2> HIDE DEF x
  <2>3. /\ request[r].step = from /\ request' \in Seq(RequestRecord) /\ Id' = Id /\ request'[r] = x
        /\ \A s \in Id : s # r => request'[s] = request[s]
    BY <2>1, <2>2, StepIs DEF RequestInv
  <2> QED BY <1>1, <1>2, <2>2, <2>3, CouldNotSend
<1>3. CASE request[r].kind # "composer"
  <2>1. Step(r, from, Over(r))
    BY <1>3 DEF NotSent
  <2>2. /\ Over(r) \in RequestRecord /\ Over(r).kind = request[r].kind /\ Over(r).step = "done"
        /\ ~Over(r).entry /\ ~Over(r).tracked /\ Over(r).rx = "open" /\ Over(r).value = "none"
    BY OverIs DEF RequestInv
  <2>3. /\ request[r].step = from /\ request' \in Seq(RequestRecord) /\ Id' = Id /\ request'[r] = Over(r)
        /\ \A s \in Id : s # r => request'[s] = request[s]
    BY <2>1, <2>2, StepIs DEF RequestInv
  <2>4. versions' \subseteq Nat
    BY DEF RequestInv, RequestTypes
  <2> QED BY <1>3, <2>2, <2>3, <2>4, IsOver
<1> QED BY <1>2, <1>3

(* The request looks its connection up. *)
LEMMA find_machineKeeps ==
    ASSUME RequestInv, NEW r \in Id, find_machine(r)
    PROVE  RequestInv'
<1>u. UNCHANGED <<dropping, row, told, socket, to_hub, epoch, online, handle, queue,
                   acks, upload, files, written, content, tasks, versions, overwrote>>
  BY DEF find_machine, wire, composer, terminal, edits, node_files
<1>n. epoch \in Nat /\ request[r] \in RequestRecord
  BY RecordIs DEF RequestInv, RequestTypes
<1>g. request[r].step = "registered" => /\ request[r].entry \/ request[r].rx # "open"
                                        /\ request[r].step \in Unsent
  BY DEF RequestInv, Progress, Unsent
<1>1. CASE online /\ request[r].kind = "foreground"
  <2> DEFINE x == [request[r] EXCEPT !.step = "sent", !.conn = epoch]
  <2>1. Step(r, "registered", x) /\ to_node' = Append(to_node, Message(r))
    BY <1>1 DEF find_machine
  <2>2. /\ x \in RequestRecord /\ x.kind = request[r].kind /\ x.rx = request[r].rx
        /\ x.value = request[r].value /\ x.tracked = request[r].tracked /\ x.born = request[r].born
        /\ x.attach = request[r].attach /\ x.conn = epoch /\ x.step = "sent"
        /\ (x.entry <=> request[r].entry)
    BY <1>n DEF RequestRecord, Waiting
  <2> HIDE DEF x
  <2>3. /\ request[r].step = "registered" /\ request' \in Seq(RequestRecord) /\ Id' = Id
        /\ request'[r] = x /\ \A s \in Id : s # r => request'[s] = request[s]
    BY <2>1, <2>2, StepIs DEF RequestInv
  <2> QED BY <1>g, <1>u, <2>1, <2>2, <2>3, IsSent
<1>2. CASE online /\ request[r].kind # "foreground"
  <2> DEFINE x == [request[r] EXCEPT !.step = "ready", !.conn = epoch]
  <2>1. Step(r, "registered", x) /\ UNCHANGED to_node
    BY <1>2 DEF find_machine
  <2>2. /\ x \in RequestRecord /\ x.kind = request[r].kind /\ x.rx = request[r].rx
        /\ x.value = request[r].value /\ x.tracked = request[r].tracked /\ x.born = request[r].born
        /\ x.attach = request[r].attach /\ x.conn = epoch /\ x.step = "ready"
        /\ (x.entry <=> request[r].entry)
    BY <1>n DEF RequestRecord, Waiting
  <2> HIDE DEF x
  <2>3. /\ request[r].step = "registered" /\ request' \in Seq(RequestRecord) /\ Id' = Id
        /\ request'[r] = x /\ \A s \in Id : s # r => request'[s] = request[s]
    BY <2>1, <2>2, StepIs DEF RequestInv
  <2> QED BY <1>g, <1>u, <2>1, <2>2, <2>3, GoesOn
<1>3. CASE ~online
  <2>1. Step(r, "registered", NotSent(r)) /\ UNCHANGED to_node /\ "registered" \in Unsent
    BY <1>3 DEF find_machine, Unsent
  <2> QED BY <1>u, <2>1, NotSentKeeps
<1> QED BY <1>1, <1>2, <1>3

(* The request is sent, or the connection has ended. *)
LEMMA send_to_machineKeeps ==
    ASSUME RequestInv, NEW r \in Id, send_to_machine(r)
    PROVE  RequestInv'
<1>u. UNCHANGED <<dropping, row, told, socket, to_hub, epoch, online, handle, queue,
                   acks, upload, files, written, content, tasks, versions, overwrote>>
  BY DEF send_to_machine, wire, composer, terminal, edits, node_files
<1> DEFINE x == [request[r] EXCEPT !.step = "sent"]
<1>1. \/ Step(r, "ready", x) /\ (UNCHANGED to_node \/ to_node' = Append(to_node, Message(r)))
      \/ Step(r, "ready", NotSent(r)) /\ UNCHANGED to_node
  BY DEF send_to_machine
<1>2. /\ x \in RequestRecord /\ x.kind = request[r].kind /\ x.rx = request[r].rx
      /\ x.value = request[r].value /\ x.tracked = request[r].tracked /\ x.born = request[r].born
      /\ x.attach = request[r].attach /\ x.conn = request[r].conn /\ x.step = "sent"
      /\ (x.entry <=> request[r].entry)
  BY RecordIs DEF RequestInv, RequestRecord, Waiting
<1> HIDE DEF x
<1>3. CASE Step(r, "ready", x)
  <2>1. /\ request[r].step = "ready" /\ request' \in Seq(RequestRecord) /\ Id' = Id
        /\ request'[r] = x /\ \A s \in Id : s # r => request'[s] = request[s]
    BY <1>2, <1>3, StepIs DEF RequestInv
  <2>2. request[r].step \in Unsent /\ (request[r].entry \/ request[r].rx # "open")
    BY <2>1 DEF RequestInv, Progress, Unsent
  <2>3. CASE UNCHANGED to_node
    BY <1>2, <1>u, <2>1, <2>2, <2>3, GoesOn
  <2>4. CASE to_node' = Append(to_node, Message(r))
    BY <1>2, <1>u, <2>1, <2>2, <2>4, IsSent
  <2>5. Step(r, "ready", NotSent(r)) /\ UNCHANGED to_node => RequestInv'
    BY <1>u, NotSentKeeps DEF Unsent
  <2> QED BY <1>1, <2>3, <2>4, <2>5
<1>4. CASE Step(r, "ready", NotSent(r)) /\ UNCHANGED to_node
  <2>1. "ready" \in Unsent
    BY DEF Unsent
  <2> QED BY <1>4, <1>u, <2>1, NotSentKeeps
<1> QED BY <1>1, <1>3, <1>4

(* A caller hangs up. *)
LEMMA CancelKeeps ==
    ASSUME RequestInv, NEW r \in Id, Cancel(r)
    PROVE  RequestInv'
<1>u. UNCHANGED <<dropping, row, told, socket, to_node, to_hub, epoch, online, handle,
                   queue, acks, upload, files, written, content, tasks, versions,
                   overwrote>>
  BY DEF Cancel, wire, composer, terminal, edits, node_files
<1> DEFINE x == [request[r] EXCEPT !.step = "gone"]
<1>1. request' = [request EXCEPT ![r] = x] /\ request[r].kind # "composer"
  BY DEF Cancel, Plain
<1>2. /\ x \in RequestRecord /\ x.kind = request[r].kind /\ x.rx = request[r].rx
      /\ x.value = request[r].value /\ x.step = "gone"
  BY RecordIs DEF RequestInv, RequestRecord, Waiting
<1> HIDE DEF x
<1>3. /\ request' \in Seq(RequestRecord) /\ Id' = Id /\ request'[r] = x
      /\ \A s \in Id : s # r => request'[s] = request[s]
  BY <1>1, <1>2, OneChanges DEF RequestInv
<1> QED BY <1>1, <1>2, <1>3, <1>u, IsDropped

(* A request wakes: a composer message has a receipt, another is over. *)
LEMMA WokenKeeps ==
    ASSUME RequestInv, NEW r \in Id, NEW v, v \in {"timeout", request[r].rx},
           Step(r, "sent", Woken(r, v)), versions' \subseteq Nat,
           request[r].kind = "composer" => UNCHANGED versions,
           UNCHANGED <<dropping, row, told, socket, to_node, to_hub, epoch, online,
           handle, queue,
                       acks, upload, files, written, content, tasks, overwrote>>
    PROVE  RequestInv'
<1>1. CASE request[r].kind = "composer"
  <2> DEFINE w == submit_composer(v)
             x == [request[r] EXCEPT !.step = "answered", !.value = w, !.entry = FALSE]
  <2>1. w \in Receipt /\ (w = "unknown" \/ w = request[r].rx)
    BY DEF submit_composer, Receipt
  <2>2. Step(r, "sent", x)
    BY <1>1 DEF Woken
  <2> HIDE DEF w
  <2>3. x \in RequestRecord /\ x.kind = request[r].kind /\ x.step = "answered" /\ x.value = w
        /\ x.rx = request[r].rx
    BY <2>1, RecordIs DEF RequestInv, RequestRecord, Waiting
  <2> HIDE DEF x
  <2>4. /\ request[r].step = "sent" /\ request' \in Seq(RequestRecord) /\ Id' = Id /\ request'[r] = x
        /\ \A s \in Id : s # r => request'[s] = request[s]
    BY <2>2, <2>3, StepIs DEF RequestInv
  <2>5. w = "unknown" \/ Says(w)
    BY <2>1 DEF Says
  <2> QED BY <1>1, <2>1, <2>3, <2>4, <2>5, IsAnswered
<1>2. CASE request[r].kind # "composer"
  <2>1. Step(r, "sent", Over(r))
    BY <1>2 DEF Woken
  <2>2. /\ Over(r) \in RequestRecord /\ Over(r).kind = request[r].kind /\ Over(r).step = "done"
        /\ ~Over(r).entry /\ ~Over(r).tracked /\ Over(r).rx = "open" /\ Over(r).value = "none"
    BY OverIs DEF RequestInv
  <2>3. /\ request' \in Seq(RequestRecord) /\ Id' = Id /\ request'[r] = Over(r)
        /\ \A s \in Id : s # r => request'[s] = request[s]
    BY <2>1, <2>2, StepIs DEF RequestInv
  <2> QED BY <1>2, <2>2, <2>3, IsOver
<1> QED BY <1>1, <1>2

(* A request takes what is in its channel; an editor learns a version. *)
LEMMA WakeKeeps ==
    ASSUME RequestInv, NEW r \in Id, Wake(r)
    PROVE  RequestInv'
<1>u. UNCHANGED <<dropping, row, told, socket, to_node, to_hub, epoch, online, handle,
                   queue, acks, upload, files, written, content, tasks, overwrote>>
  BY DEF Wake, wire, composer, terminal, edits, node_files
<1>1. Step(r, "sent", Woken(r, request[r].rx))
  BY DEF Wake
<1>2. versions' = versions \cup ReadResponse(r) \cup WriteResponse(r)
  BY DEF Wake
<1>3. request[r].index \in Nat /\ versions \subseteq Nat
  BY RecordIs DEF RequestInv, RequestTypes, RequestRecord
<1>4. versions' \subseteq Nat /\ (request[r].kind = "composer" => UNCHANGED versions)
  BY <1>2, <1>3 DEF ReadResponse, WriteResponse
<1> QED BY <1>1, <1>4, <1>u, WokenKeeps

(* A request waits no longer. *)
LEMMA TimeoutKeeps ==
    ASSUME RequestInv, NEW r \in Id, Timeout(r)
    PROVE  RequestInv'
<1>u. UNCHANGED <<dropping, row, told, socket, to_node, to_hub, epoch, online, handle,
                   queue, acks, upload, files, written, content, tasks, versions,
                   overwrote>>
  BY DEF Timeout, wire, composer, terminal, edits, node_files
<1>1. Step(r, "sent", Woken(r, "timeout"))
  BY DEF Timeout, remove_pending
<1>2. versions' \subseteq Nat
  BY <1>u DEF RequestInv, RequestTypes
<1> QED BY <1>1, <1>2, <1>u, WokenKeeps

(* A receipt is stored and told. *)
LEMMA SaveReceiptKeeps ==
    ASSUME RequestInv, NEW r \in Id, SaveReceipt(r)
    PROVE  RequestInv'
<1>u. UNCHANGED <<dropping, socket, to_node, to_hub, epoch, online, handle, queue,
                   acks, upload, files, written, content, tasks, versions, overwrote>>
  BY DEF SaveReceipt, wire, composer, terminal, edits, node_files
<1>1. Step(r, "answered", Over(r)) /\ row' \in {row, request[r].value} /\ told' = told \cup {request[r].value}
  BY DEF SaveReceipt
<1>2. /\ Over(r) \in RequestRecord /\ Over(r).kind = request[r].kind /\ Over(r).step = "done"
      /\ ~Over(r).entry /\ ~Over(r).tracked /\ Over(r).rx = "open" /\ Over(r).value = "none"
  BY OverIs DEF RequestInv
<1>3. /\ request[r].step = "answered" /\ request' \in Seq(RequestRecord) /\ Id' = Id
      /\ request'[r] = Over(r) /\ \A s \in Id : s # r => request'[s] = request[s]
  BY <1>1, <1>2, StepIs DEF RequestInv
<1> QED BY <1>1, <1>2, <1>3, <1>u, IsSaved

(* The upload of one attach changes. *)
LEMMA UploadIs ==
    ASSUME RequestInv, NEW a \in Attach, NEW u \in Seq(Nat), SetUpload(a, u),
           u # None => Len(u) <= Size /\ \A i \in 1..Len(u) : u[i] = i - 1,
           a \in handle' \/ u = None, handle \ {a} \subseteq handle',
           \A done \in files' : done = [i \in 1..Size |-> i - 1]
    PROVE  upload' \in [Attach -> Seq(Nat)] /\ UploadsGrow' /\ UploadsAreWhole'
<1>1. /\ upload' \in [Attach -> Seq(Nat)] /\ upload'[a] = u
      /\ \A b \in Attach : b # a => upload'[b] = upload[b]
  BY DEF RequestInv, RequestTypes, SetUpload
<1>2. UploadsGrow'
  BY <1>1 DEF RequestInv, UploadsGrow, None
<1>3. UploadsAreWhole'
  BY <1>1 DEF RequestInv, UploadsAreWhole, None
<1> QED BY <1>1, <1>2, <1>3

(* No upload is under way. *)
LEMMA NoneIs == None \in Seq(Nat) /\ <<>> \in Seq(Nat) /\ <<>> # None /\ Len(<<>>) = 0
BY BoundsAssumption DEF None

(* The chunk of an upload that is taken is the next one. *)
LEMMA write_chunkIs ==
    ASSUME NEW q \in Seq(Nat), NEW index \in Nat, NEW u, u = write_chunk(q, index),
           Len(q) <= Size, \A i \in 1..Len(q) : q[i] = i - 1
    PROVE  /\ u \in Seq(Nat)
           /\ u # None => Len(u) <= Size /\ \A i \in 1..Len(u) : u[i] = i - 1
<1>1. CASE index = Len(q) /\ Len(q) < Size
  <2>1. u = Append(q, index)
    BY <1>1 DEF write_chunk
  <2>2. u \in Seq(Nat) /\ Len(u) = Len(q) + 1 /\ u[Len(q) + 1] = index /\ \A i \in 1..Len(q) : u[i] = q[i]
    BY <2>1
  <2>3. Len(q) + 1 <= Size
    BY <1>1, BoundsAssumption
  <2>4. \A i \in 1..Len(u) : i \in 1..Len(q) \/ i = Len(q) + 1
    BY <2>2
  <2>5. \A i \in 1..Len(u) : u[i] = i - 1
    BY <1>1, <2>2, <2>4
  <2> QED BY <2>2, <2>3, <2>5
<1>2. CASE ~(index = Len(q) /\ Len(q) < Size)
  BY <1>2, NoneIs DEF write_chunk
<1> QED BY <1>1, <1>2

(* A message of an upload: one at a time, in order, and whole. *)
LEMMA UploadStepIs ==
    ASSUME RequestInv, NEW a \in Attach, NEW r, NEW index \in Nat, NEW kind,
           handle' = handle,
           UploadStep(kind, a, r, index)
    PROVE  /\ upload' \in [Attach -> Seq(Nat)] /\ UploadsGrow' /\ UploadsAreWhole'
           /\ \E value \in {"ok", "error"} : to_hub' = Append(to_hub, <<r, value, 0>>)
<1> USE DEF Reply
<1>f. \A done \in files : done = [i \in 1..Size |-> i - 1]
  BY DEF RequestInv, UploadsAreWhole
<1>t. upload \in [Attach -> Seq(Nat)] /\ UploadsGrow
  BY DEF RequestInv, RequestTypes
<1>u. UNCHANGED <<upload, files>> =>
         upload' \in [Attach -> Seq(Nat)] /\ UploadsGrow' /\ UploadsAreWhole'
  BY DEF RequestInv, RequestTypes, UploadsGrow, UploadsAreWhole, None
<1>n. SetUpload(a, None) /\ UNCHANGED files =>
         upload' \in [Attach -> Seq(Nat)] /\ UploadsGrow' /\ UploadsAreWhole'
  BY <1>f, NoneIs, UploadIs
<1>1. CASE a \notin handle /\ abort_attach(a) /\ Reply(r, "error") /\ UNCHANGED files
  BY <1>1, <1>n DEF abort_attach
<1>2. CASE a \in handle /\ begin(a, r)
  <2>1. SetUpload(a, <<>>) /\ UNCHANGED files =>
           upload' \in [Attach -> Seq(Nat)] /\ UploadsGrow' /\ UploadsAreWhole'
    <3>1. Len(<<>>) <= Size /\ \A i \in 1..Len(<<>>) : <<>>[i] = i - 1
      BY NoneIs, BoundsAssumption
    <3> QED BY <1>2, <1>f, <3>1, NoneIs, UploadIs
  <2> QED BY <1>2, <1>u, <2>1 DEF begin
<1>3. CASE a \in handle /\ chunk(a, r, index)
  <2>1. upload[a] # None /\ SetUpload(a, write_chunk(upload[a], index)) /\ UNCHANGED files =>
           upload' \in [Attach -> Seq(Nat)] /\ UploadsGrow' /\ UploadsAreWhole'
    <3> SUFFICES ASSUME upload[a] # None, SetUpload(a, write_chunk(upload[a], index)), UNCHANGED files
                 PROVE  upload' \in [Attach -> Seq(Nat)] /\ UploadsGrow' /\ UploadsAreWhole'
      OBVIOUS
    <3> DEFINE u == write_chunk(upload[a], index)
    <3>1. /\ u \in Seq(Nat)
          /\ u # None => Len(u) <= Size /\ \A i \in 1..Len(u) : u[i] = i - 1
      <4>1. upload[a] \in Seq(Nat) /\ Len(upload[a]) <= Size /\ \A i \in 1..Len(upload[a]) : upload[a][i] = i - 1
        BY <1>t DEF UploadsGrow
      <4> HIDE DEF u
      <4> QED BY <4>1, write_chunkIs DEF u
    <3>2. SetUpload(a, u)
      OBVIOUS
    <3> HIDE DEF u
    <3> QED BY <1>3, <1>f, <3>1, <3>2, UploadIs
  <2> QED BY <1>3, <1>n, <1>u, <2>1 DEF chunk
<1>4. CASE a \in handle /\ finish(a, r)
  <2>1. upload[a] # None /\ Len(upload[a]) = Size => upload[a] = [i \in 1..Size |-> i - 1]
    <3> SUFFICES ASSUME upload[a] # None, Len(upload[a]) = Size
                 PROVE  upload[a] = [i \in 1..Size |-> i - 1]
      OBVIOUS
    <3>1. upload[a] \in Seq(Nat) /\ \A i \in 1..Size : upload[a][i] = i - 1
      BY <1>t DEF UploadsGrow
    <3>2. upload[a] = [i \in 1..Len(upload[a]) |-> upload[a][i]]
      BY <3>1
    <3> QED BY <3>1, <3>2
  <2>2. \A done \in files' : done = [i \in 1..Size |-> i - 1]
    BY <1>4, <1>f, <2>1 DEF finish
  <2>3. SetUpload(a, None)
    BY <1>4 DEF finish
  <2> QED BY <1>4, <2>2, <2>3, NoneIs, UploadIs DEF finish
<1> QED BY <1>1, <1>2, <1>3, <1>4 DEF UploadStep

(* The first message on its way to the node. *)
LEMMA MessageIs ==
    ASSUME RequestInv, to_node # <<>>, NEW msg, msg = Head(to_node)
    PROVE  /\ msg[1] \in {"open", "close", "abort"} => msg[2] \in Attach
           /\ msg[1] \in Upload \cup {"composer"}
                 => msg[2] \in Attach /\ msg[3] \in Id /\ msg[3] \in Nat /\ msg[4] \in Nat
           /\ msg[1] \in Plain => msg[3] \in Id /\ msg[3] \in Nat /\ msg[4] \in Nat
<1>1. msg = to_node[1] /\ 1 \in DOMAIN to_node /\ msg \in ToNode
  <2>1. to_node \in Seq(ToNode)
    BY DEF RequestInv, RequestTypes
  <2> QED BY <2>1, TailIs
<1>2. msg[1] \in Upload \cup {"composer"} \cup Plain => msg[3] \in Id
  <2>1. \A i \in DOMAIN to_node : to_node[i][1] \in Kind => to_node[i][3] \in Id
    BY DEF RequestInv, IdsExist
  <2>2. Upload \cup {"composer"} \cup Plain \subseteq Kind
    BY DEF Kind, Upload
  <2> QED BY <1>1, <2>1, <2>2
<1>3. /\ msg[1] \in {"open", "close", "abort"} => msg[2] \in Attach
      /\ msg[1] \in Upload \cup {"composer"} => msg[2] \in Attach /\ msg[3] \in Nat /\ msg[4] \in Nat
      /\ msg[1] \in Plain => msg[3] \in Nat /\ msg[4] \in Nat
  <2>1. CASE msg \in {"open", "close", "abort"} \X Attach
    BY <2>1 DEF Upload, Plain
  <2>2. CASE msg \in (Upload \cup {"composer"}) \X Attach \X Nat \X Nat
    BY <2>2 DEF Upload, Plain
  <2>3. CASE msg \in Plain \X {NoAttach} \X Nat \X Nat
    BY <2>3 DEF Upload, Plain
  <2> QED BY <1>1, <2>1, <2>2, <2>3 DEF ToNode
<1> QED BY <1>2, <1>3

(* The node takes a message of the hub. *)
LEMMA handle_hub_messageKeeps ==
    ASSUME RequestInv, handle_hub_message
    PROVE  RequestInv'
<1> DEFINE msg == Head(to_node)
           a == msg[2]
<1>u. UNCHANGED <<request, dropping, row, told, socket, epoch, online, written, versions>>
  BY DEF handle_hub_message, wire, composer, terminal, edits, node_files
<1>1. to_node # <<>> /\ to_node' = Tail(to_node) /\ UNCHANGED <<content, overwrote, written>>
  BY DEF handle_hub_message
<1>2. \/ msg[1] = "open" /\ handle' = handle \cup {a} /\ UNCHANGED <<to_hub, queue, acks, upload, files, tasks>>
      \/ msg[1] = "close" /\ CloseAttach(a) /\ UNCHANGED <<queue, acks, tasks>>
      \/ msg[1] = "abort" /\ abort_attach(a) /\ UNCHANGED <<to_hub, handle, queue, acks, files, tasks>>
      \/ msg[1] \in Upload /\ UploadStep(msg[1], a, msg[3], msg[4]) /\ UNCHANGED <<handle, queue, acks, tasks>>
      \/ msg[1] = "composer" /\ write_composer(a, msg[3]) /\ UNCHANGED <<handle, upload, files, tasks>>
      \/ msg[1] \in Plain \ {"read", "write"} /\ Reply(msg[3], "ok")
         /\ UNCHANGED <<handle, queue, acks, upload, files, tasks>>
      \/ /\ msg[1] \in {"read", "write"} /\ tasks' = tasks \cup {<<msg[1], msg[3], msg[4], epoch>>}
         /\ UNCHANGED <<to_hub, handle, queue, acks, upload, files>>
  BY DEF handle_hub_message
<1>3. /\ msg[1] \in {"open", "close", "abort"} => a \in Attach
      /\ msg[1] \in Upload \cup {"composer"} => a \in Attach /\ msg[3] \in Id /\ msg[3] \in Nat /\ msg[4] \in Nat
      /\ msg[1] \in Plain => msg[3] \in Id /\ msg[3] \in Nat /\ msg[4] \in Nat
  <2> HIDE DEF msg
  <2> QED BY <1>1, MessageIs DEF msg
<1> HIDE DEF msg, a
<1>t. /\ upload \in [Attach -> Seq(Nat)] /\ UploadsGrow /\ UploadsAreWhole /\ content \in Nat /\ epoch \in Nat
      /\ tasks \subseteq {"read", "write", "rename"} \X Nat \X Nat \X Nat /\ \A t \in tasks : t[2] \in Id
  BY DEF RequestInv, RequestTypes, IdsExist
<1>w. UNCHANGED <<upload, files>> /\ handle \subseteq handle' => UploadsGrow' /\ UploadsAreWhole'
  BY <1>t DEF UploadsGrow, UploadsAreWhole, None
<1>f. \A done \in files : done = [i \in 1..Size |-> i - 1]
  BY <1>t DEF UploadsAreWhole
<1>g. ASSUME UNCHANGED <<queue, acks>>, NEW r \in Nat, r \in Id, NEW value \in {"ok", "error"},
             to_hub' = to_hub \/ to_hub' = Append(to_hub, <<r, value, 0>>),
             upload' \in [Attach -> Seq(Nat)], UploadsGrow', UploadsAreWhole',
             tasks' \subseteq {"read", "write", "rename"} \X Nat \X Nat \X Nat,
           \A t \in tasks' : t[2] \in Id
      PROVE  RequestInv'
  <2> DEFINE x == <<r, value, 0>>
  <2>1. x \in Nat \X {"ok", "error", "conflict", "unknown"} \X Nat /\ x[1] \in Id
    BY <1>g
  <2>2. to_hub' = to_hub \/ to_hub' = Append(to_hub, x)
    BY <1>g
  <2> HIDE DEF x
  <2> QED BY <1>1, <1>g, <1>t, <1>u, <2>1, <2>2, NodeGoesOn
<1>h. ASSUME UNCHANGED <<queue, acks, to_hub, tasks>>, upload' \in [Attach -> Seq(Nat)], UploadsGrow', UploadsAreWhole'
      PROVE  RequestInv'
  BY <1>1, <1>h, <1>t, <1>u, NodeOnlyTakes
<1>4. CASE msg[1] = "open" /\ handle' = handle \cup {a} /\ UNCHANGED <<to_hub, queue, acks, upload, files, tasks>>
  BY <1>4, <1>h, <1>t, <1>w
<1>5. CASE msg[1] = "close" /\ CloseAttach(a) /\ UNCHANGED <<queue, acks, tasks>>
  <2>1. SetUpload(a, None) /\ handle' = handle \ {a} /\ UNCHANGED <<to_hub, files>> /\ a \in Attach
    BY <1>3, <1>5 DEF CloseAttach, abort_attach
  <2>2. upload' \in [Attach -> Seq(Nat)] /\ UploadsGrow' /\ UploadsAreWhole'
    BY <1>f, <2>1, NoneIs, UploadIs
  <2> QED BY <1>5, <1>h, <2>1, <2>2
<1>6. CASE msg[1] = "abort" /\ abort_attach(a) /\ UNCHANGED <<to_hub, handle, queue, acks, files, tasks>>
  <2>1. SetUpload(a, None) /\ a \in Attach
    BY <1>3, <1>6 DEF abort_attach
  <2>2. upload' \in [Attach -> Seq(Nat)] /\ UploadsGrow' /\ UploadsAreWhole'
    BY <1>6, <1>f, <2>1, NoneIs, UploadIs
  <2> QED BY <1>6, <1>h, <2>2
<1>7. CASE msg[1] \in Upload /\ UploadStep(msg[1], a, msg[3], msg[4]) /\ UNCHANGED <<handle, queue, acks, tasks>>
  <2>1. /\ upload' \in [Attach -> Seq(Nat)] /\ UploadsGrow' /\ UploadsAreWhole'
        /\ \E value \in {"ok", "error"} : to_hub' = Append(to_hub, <<msg[3], value, 0>>)
    BY <1>3, <1>7, UploadStepIs
  <2> QED BY <1>3, <1>7, <1>g, <1>t, <2>1
<1>8. CASE msg[1] = "composer" /\ write_composer(a, msg[3]) /\ UNCHANGED <<handle, upload, files, tasks>>
  <2>1. \/ /\ queue' = [queue EXCEPT ![a] = Append(@, msg[3])]
           /\ acks' = acks \cup {<<msg[3], "open">>} /\ UNCHANGED to_hub
        \/ to_hub' = Append(to_hub, <<msg[3], "failed", 0>>) /\ UNCHANGED <<queue, acks>>
    BY <1>8 DEF write_composer, Reply
  <2>2. a \in Attach /\ msg[3] \in Id /\ Head(to_node)[1] = "composer"
    BY <1>3, <1>8 DEF msg
  <2>3. CASE /\ queue' = [queue EXCEPT ![a] = Append(@, msg[3])]
             /\ acks' = acks \cup {<<msg[3], "open">>} /\ UNCHANGED to_hub
    BY <1>1, <1>8, <1>u, <2>2, <2>3, ComposerQueued
  <2>4. CASE to_hub' = Append(to_hub, <<msg[3], "failed", 0>>) /\ UNCHANGED <<queue, acks>>
    BY <1>1, <1>8, <1>u, <2>2, <2>4, ComposerFails
  <2> QED BY <2>1, <2>3, <2>4
<1>9. CASE msg[1] \in Plain \ {"read", "write"} /\ Reply(msg[3], "ok")
           /\ UNCHANGED <<handle, queue, acks, upload, files, tasks>>
  BY <1>3, <1>9, <1>g, <1>t, <1>w DEF Reply
<1>10. CASE /\ msg[1] \in {"read", "write"} /\ tasks' = tasks \cup {<<msg[1], msg[3], msg[4], epoch>>}
            /\ UNCHANGED <<to_hub, handle, queue, acks, upload, files>>
  <2>1. msg[3] \in Id /\ msg[3] \in Nat /\ msg[4] \in Nat
    BY <1>3, <1>10 DEF Plain
  <2>2. /\ tasks' \subseteq {"read", "write", "rename"} \X Nat \X Nat \X Nat /\ \A t \in tasks' : t[2] \in Id
    BY <1>10, <1>t, <2>1
  <2>3. "ok" \in {"ok", "error"}
    OBVIOUS
  <2> QED BY <1>10, <1>g, <1>t, <1>w, <2>1, <2>2, <2>3
<1> QED BY <1>2, <1>4, <1>5, <1>6, <1>7, <1>8, <1>9, <1>10

(* A client sends the message: it is told what is known, or the message is *)
(* sent for the first time.                                                *)
LEMMA submitKeeps ==
    ASSUME RequestInv, NEW a \in Attach, submit(a)
    PROVE  RequestInv'
<1>u. UNCHANGED <<dropping, socket, to_node, to_hub, epoch, online, handle, queue,
                   acks, upload, files, written, content, tasks, versions, overwrote>>
  BY DEF submit, wire, composer, terminal, edits, node_files
<1>t. row \in Receipt \cup {"none"}
  BY DEF RequestInv, RequestTypes
<1>1. CASE told' = told \cup {"unknown"} /\ UNCHANGED <<row, request>>
  BY <1>1, <1>u, IsTold DEF Receipt
<1>2. CASE row # "none" /\ told' = told \cup {row} /\ UNCHANGED <<row, request>>
  <2>1. row \in Receipt /\ Says(row)
    BY <1>2, <1>t DEF Says
  <2> QED BY <1>2, <1>u, <2>1, IsTold
<1>3. CASE row = "none" /\ row' = "unknown" /\ Starts("composer", a, 0) /\ UNCHANGED told
  BY <1>3, <1>u, ReserveKeeps
<1> QED BY <1>1, <1>2, <1>3 DEF submit, reserve

(* A socket opens. *)
LEMMA OpenAttachKeeps ==
    ASSUME RequestInv, NEW a \in Attach, OpenAttach(a)
    PROVE  RequestInv'
<1>u. UNCHANGED <<dropping, row, told, to_hub, epoch, online, handle, queue, acks,
                   upload, files, written, content, tasks, versions, overwrote>>
  BY DEF OpenAttach, wire, composer, terminal, edits, node_files
<1>1. socket' = [socket EXCEPT ![a] = "open"] /\ to_node' = Append(to_node, <<"open", a>>) /\ request' = request
  BY DEF OpenAttach
<1>2. socket' \in [Attach -> {"new", "open", "closed"}] /\ request' \in Seq(RequestRecord)
  BY <1>1 DEF RequestInv, RequestTypes
<1>3. <<"open", a>> \in {"open", "close", "abort"} \X Attach
  OBVIOUS
<1>4. Id' = Id
  BY <1>1 DEF Id
<1> QED BY <1>1, <1>2, <1>3, <1>4, <1>u, SocketTells

(* A client gives its upload up. *)
LEMMA UploadAbortKeeps ==
    ASSUME RequestInv, NEW a \in Attach, UploadAbort(a)
    PROVE  RequestInv'
<1>u. UNCHANGED <<dropping, row, told, to_hub, epoch, online, handle, queue, acks,
                   upload, files, written, content, tasks, versions, overwrote>>
  BY DEF UploadAbort, wire, composer, terminal, edits, node_files
<1>1. UNCHANGED <<socket, request>> /\ to_node' = Append(to_node, <<"abort", a>>)
  BY DEF UploadAbort
<1>2. socket' \in [Attach -> {"new", "open", "closed"}] /\ request' \in Seq(RequestRecord)
  BY <1>1 DEF RequestInv, RequestTypes
<1>3. <<"abort", a>> \in {"open", "close", "abort"} \X Attach
  OBVIOUS
<1>4. Id' = Id
  BY <1>1 DEF Id
<1> QED BY <1>1, <1>2, <1>3, <1>4, <1>u, SocketTells

(* A socket closes; its reader is aborted. *)
LEMMA CloseSocketKeeps ==
    ASSUME RequestInv, NEW a \in Attach, CloseSocket(a)
    PROVE  RequestInv'
<1>u. UNCHANGED <<dropping, row, told, to_hub, epoch, online, handle, queue, acks,
                   upload, files, written, content, tasks, versions, overwrote>>
  BY DEF CloseSocket, wire, composer, terminal, edits, node_files
<1>1. /\ socket' = [socket EXCEPT ![a] = "closed"] /\ request' = AbortReader(a)
      /\ to_node' = to_node \/ to_node' = Append(to_node, <<"close", a>>)
  BY DEF CloseSocket
<1>2. socket' \in [Attach -> {"new", "open", "closed"}]
  BY <1>1 DEF RequestInv, RequestTypes
<1>3. <<"close", a>> \in {"open", "close", "abort"} \X Attach
  OBVIOUS
<1>4. \A s \in Id : request[s] \in RequestRecord
  BY RecordIs DEF RequestInv
<1>5. \A s \in Id : [request[s] EXCEPT !.step = "gone"] \in RequestRecord
  BY <1>4 DEF RequestRecord
<1>6. AbortReader(a) \in [Id -> RequestRecord]
  BY <1>4, <1>5 DEF AbortReader
<1>7. request' \in Seq(RequestRecord) /\ Id' = Id
  BY <1>1, <1>6, AllChange DEF RequestInv
<1>8. \A s \in Id : \/ request'[s] = request[s]
                   \/ /\ request[s].kind \in Upload /\ request'[s].kind = request[s].kind
                      /\ request'[s].step = "gone" /\ request'[s].rx = request[s].rx
                      /\ request'[s].value = request[s].value
  <2> SUFFICES ASSUME NEW s \in Id, request'[s] # request[s]
               PROVE  /\ request[s].kind \in Upload /\ request'[s].kind = request[s].kind
                      /\ request'[s].step = "gone" /\ request'[s].rx = request[s].rx
                      /\ request'[s].value = request[s].value
    OBVIOUS
  <2>1. request[s].kind \in Upload /\ request'[s] = [request[s] EXCEPT !.step = "gone"]
    BY <1>1 DEF AbortReader
  <2> QED BY <1>4, <2>1 DEF RequestRecord
<1> QED BY <1>1, <1>2, <1>3, <1>7, <1>8, <1>u, SocketTells

(* A task that reads or writes the file goes on; its answer may be lost. *)
LEMMA FileTaskKeeps ==
    ASSUME RequestInv, NEW t \in tasks, NEW next, FileTask(t, next),
           next \subseteq {"read", "write", "rename"} \X Nat \X Nat \X Nat,
           \A s \in next : s[2] \in Id,
           content' \in Nat, NEW value \in {"ok", "error", "conflict"}, NEW version \in Nat,
           to_hub' = to_hub \/ to_hub' = Append(to_hub, <<t[2], value, version>>)
    PROVE  RequestInv'
<1>u. UNCHANGED <<request, dropping, row, told, socket, epoch, online, queue, acks,
                   written, versions>>
  BY DEF FileTask, wire, composer, terminal, edits, node_files
<1>1. /\ tasks \subseteq {"read", "write", "rename"} \X Nat \X Nat \X Nat /\ \A s \in tasks : s[2] \in Id
      /\ upload \in [Attach -> Seq(Nat)] /\ UploadsGrow /\ UploadsAreWhole
  BY DEF RequestInv, RequestTypes, IdsExist
<1>2. tasks' = (tasks \ {t}) \cup next /\ UNCHANGED <<to_node, handle, upload, files>>
  BY DEF FileTask, terminal
<1>3. tasks' \subseteq {"read", "write", "rename"} \X Nat \X Nat \X Nat /\ \A s \in tasks' : s[2] \in Id
  BY <1>1, <1>2
<1>4. upload' \in [Attach -> Seq(Nat)] /\ UploadsGrow' /\ UploadsAreWhole'
  BY <1>1, <1>2 DEF UploadsGrow, UploadsAreWhole, None
<1> DEFINE x == <<t[2], value, version>>
<1>5. x \in Nat \X {"ok", "error", "conflict", "unknown"} \X Nat /\ x[1] \in Id
  BY <1>1
<1>6. to_hub' = to_hub \/ to_hub' = Append(to_hub, x)
  OBVIOUS
<1> HIDE DEF x
<1> QED BY <1>2, <1>3, <1>4, <1>5, <1>6, <1>u, NodeGoesOn

(* The node reads the file. *)
LEMMA read_file_for_hubKeeps ==
    ASSUME RequestInv, NEW t \in tasks, read_file_for_hub(t)
    PROVE  RequestInv'
<1>n. content \in Nat /\ t \in {"read", "write", "rename"} \X Nat \X Nat \X Nat /\ t[2] \in Id
  BY DEF RequestInv, RequestTypes, IdsExist
<1>1. FileTask(t, {}) /\ content' = content
  BY DEF read_file_for_hub
<1>2. \E value \in {"ok", "error", "conflict"}, version \in Nat :
         to_hub' = to_hub \/ to_hub' = Append(to_hub, <<t[2], value, version>>)
  BY <1>n DEF read_file_for_hub, FileReply
<1> QED BY <1>1, <1>2, <1>n, FileTaskKeeps

(* The node looks at what it is to replace. *)
LEMMA write_file_for_hubKeeps ==
    ASSUME RequestInv, NEW t \in tasks, write_file_for_hub(t)
    PROVE  RequestInv'
<1>n. content \in Nat /\ t \in {"read", "write", "rename"} \X Nat \X Nat \X Nat /\ t[2] \in Id
  BY DEF RequestInv, RequestTypes, IdsExist
<1>1. content' = content
  BY DEF write_file_for_hub
<1>2. CASE FileTask(t, {<<"rename", t[2], t[3], t[4]>>}) /\ UNCHANGED to_hub
  <2>1. /\ {<<"rename", t[2], t[3], t[4]>>} \subseteq {"read", "write", "rename"} \X Nat \X Nat \X Nat
        /\ \A s \in {<<"rename", t[2], t[3], t[4]>>} : s[2] \in Id
    BY <1>n
  <2>2. to_hub' = to_hub /\ "ok" \in {"ok", "error", "conflict"} /\ 0 \in Nat
    BY <1>2
  <2> QED BY <1>1, <1>2, <1>n, <2>1, <2>2, FileTaskKeeps
<1>3. CASE FileTask(t, {}) /\ (FileReply(t, "conflict", 0) \/ FileReply(t, "error", 0))
  <2>1. \E value \in {"ok", "error", "conflict"}, version \in Nat :
           to_hub' = to_hub \/ to_hub' = Append(to_hub, <<t[2], value, version>>)
    BY <1>3 DEF FileReply
  <2>2. PICK value \in {"ok", "error", "conflict"}, version \in Nat :
           to_hub' = to_hub \/ to_hub' = Append(to_hub, <<t[2], value, version>>)
    BY <2>1
  <2>3. content' \in Nat /\ FileTask(t, {})
    BY <1>1, <1>3, <1>n
  <2>4. /\ {} \subseteq {"read", "write", "rename"} \X Nat \X Nat \X Nat
        /\ \A s \in {} : s[2] \in Id
    OBVIOUS
  <2> QED BY <2>2, <2>3, <2>4, FileTaskKeeps
<1> QED BY <1>2, <1>3 DEF write_file_for_hub

(* The node replaces the file. *)
LEMMA renameKeeps ==
    ASSUME RequestInv, NEW t \in tasks, rename(t)
    PROVE  RequestInv'
<1>n. content \in Nat /\ t \in {"read", "write", "rename"} \X Nat \X Nat \X Nat /\ t[2] \in Id
  BY DEF RequestInv, RequestTypes, IdsExist
<1>1. FileTask(t, {}) /\ content' = content + 1
  BY DEF rename
<1>2. content' \in Nat
  BY <1>1, <1>n
<1>3. to_hub' = to_hub \/ to_hub' = Append(to_hub, <<t[2], "ok", content + 1>>)
  BY DEF rename, FileReply
<1>4. content + 1 \in Nat
  BY <1>n
<1> QED BY <1>1, <1>2, <1>3, <1>4, FileTaskKeeps

(* The writer takes the message. *)
LEMMA run_attach_taskKeeps ==
    ASSUME RequestInv, NEW a \in Attach, run_attach_task(a)
    PROVE  RequestInv'
<1>u. UNCHANGED <<request, dropping, row, told, socket, to_node, to_hub, epoch, online,
                   handle, upload, files, content, tasks, versions, overwrote>>
  BY DEF run_attach_task, wire, composer, terminal, edits, node_files
<1>1. CASE /\ written' = written + 1 /\ acks' = Acked(Head(queue[a]), "delivered")
           /\ queue' = [queue EXCEPT ![a] = Tail(@)]
  BY <1>1, <1>u, MessageWritten DEF run_attach_task
<1>2. CASE /\ written' \in {written, written + 1}
           /\ acks' = {<<ack[1], IF \E i \in DOMAIN queue[a] : queue[a][i] = ack[1]
                                 THEN "unknown" ELSE ack[2]>> : ack \in acks}
           /\ queue' = [queue EXCEPT ![a] = <<>>]
  BY <1>2, <1>u, WriterFails DEF run_attach_task
<1> QED BY <1>1, <1>2 DEF run_attach_task

(* The task of the message answers, with the ack or without one. *)
LEMMA ComposerResultKeeps ==
    ASSUME RequestInv, NEW r \in Id, ComposerResult(r)
    PROVE  RequestInv'
<1>u. UNCHANGED <<request, dropping, row, told, socket, to_node, epoch, online, handle,
                   queue, upload, files, written, content, tasks, versions, overwrote>>
  BY DEF ComposerResult, wire, composer, terminal, edits, node_files
<1>1. PICK v \in {"delivered", "unknown", "open"} :
         /\ <<r, v>> \in acks /\ acks' = acks \ {<<r, v>>}
         /\ \/ v # "open" /\ to_hub' = Append(to_hub, <<r, v, 0>>)
            \/ to_hub' = Append(to_hub, <<r, "unknown", 0>>)
  BY DEF ComposerResult, Reply
<1>2. CASE v # "open" /\ to_hub' = Append(to_hub, <<r, v, 0>>)
  <2>1. v \in {"delivered", "unknown"}
    BY <1>2
  <2> QED BY <1>1, <1>2, <1>u, <2>1, ComposerAnswered
<1>3. CASE to_hub' = Append(to_hub, <<r, "unknown", 0>>)
  BY <1>1, <1>3, <1>u, ComposerAnswered
<1> QED BY <1>1, <1>2, <1>3

(* The terminal ends, or the upload was idle. *)
LEMMA AttachDiesKeeps ==
    ASSUME RequestInv, NEW a \in Attach, AttachDies(a)
    PROVE  RequestInv'
<1>u. UNCHANGED <<request, dropping, row, told, socket, to_node, to_hub, epoch, online,
                   handle, queue, acks, files, written, content, tasks, versions,
                   overwrote>>
  BY DEF AttachDies, wire, composer, terminal, edits, node_files
<1>1. SetUpload(a, None)
  BY DEF AttachDies, abort_attach
<1>2. \A done \in files' : done = [i \in 1..Size |-> i - 1]
  BY <1>u DEF RequestInv, UploadsAreWhole
<1>3. upload' \in [Attach -> Seq(Nat)] /\ UploadsGrow' /\ UploadsAreWhole'
  BY <1>1, <1>2, <1>u, NoneIs, UploadIs
<1> QED BY <1>3, <1>u, NodeOnlyTakes

(* At first there is no request, nothing travels and nothing is uploaded. *)
LEMMA RequestInitInv == RequestInit => RequestInv
<1> SUFFICES ASSUME RequestInit PROVE RequestInv
  OBVIOUS
<1> USE DEF RequestInit
<1>1. /\ request \in Seq(RequestRecord) /\ Id = {} /\ DOMAIN to_node = {} /\ DOMAIN to_hub = {}
      /\ to_node \in Seq(ToNode) /\ to_hub \in Seq(Nat \X Answer \X Nat)
  BY EmptyIs DEF Id
<1>2. queue \in [Attach -> Seq(Nat)] /\ \A a \in Attach : queue[a] = <<>> /\ DOMAIN queue[a] = {}
  BY EmptyIs
<1>3. upload \in [Attach -> Seq(Nat)] /\ \A a \in Attach : upload[a] = None
  BY NoneIs
<1>4. RequestTypes
  BY <1>1, <1>2, <1>3 DEF RequestTypes
<1>5. IdsExist
  BY <1>1, <1>2 DEF IdsExist
<1>6. Progress /\ OneSend /\ BrowsersAreListed
  BY <1>1 DEF Progress, OneSend, BrowsersAreListed
<1>7. NoneUnsent /\ NoneCarried /\ NoneQueued
  BY <1>1, <1>2 DEF NoneUnsent, NoneCarried, NoneQueued
<1>8. InOnePlace
  BY <1>1, <1>2, <1>7 DEF InOnePlace
<1>9. SaysWhatIs
  BY <1>1 DEF SaysWhatIs, Says
<1>10. UploadsGrow /\ UploadsAreWhole
  BY <1>3 DEF UploadsGrow, UploadsAreWhole
<1> QED BY <1>4, <1>5, <1>6, <1>8, <1>9, <1>10 DEF RequestInv

(* Nothing happens. *)
LEMMA RequestStutters ==
    ASSUME RequestInv, UNCHANGED requestVars
    PROVE  RequestInv'
<1>1. UNCHANGED <<request, dropping, row, told, socket, to_node, to_hub, epoch, online, handle,
                  queue, acks, upload, files, written, content, tasks, versions, overwrote>>
  BY DEF requestVars
<1>2. upload \in [Attach -> Seq(Nat)] /\ UploadsGrow /\ UploadsAreWhole
  BY DEF RequestInv, RequestTypes
<1>3. upload' \in [Attach -> Seq(Nat)] /\ UploadsGrow' /\ UploadsAreWhole'
  BY <1>1, <1>2 DEF UploadsGrow, UploadsAreWhole, None
<1> QED BY <1>1, <1>3, NodeOnlyTakes

(* Every step of the hub, the node and the clients keeps the invariant. *)
LEMMA RequestStepInv == RequestInv /\ [RequestNext]_requestVars => RequestInv'
<1> SUFFICES ASSUME RequestInv, [RequestNext]_requestVars PROVE RequestInv'
  OBVIOUS
<1>1. CASE UNCHANGED requestVars
  BY <1>1, RequestStutters
<1>2. ASSUME NEW a \in Attach,
             \/ submit(a) \/ OpenAttach(a) \/ CloseSocket(a) \/ AttachDies(a) \/ run_attach_task(a)
             \/ UploadAbort(a)
      PROVE  RequestInv'
  BY <1>2, submitKeeps, OpenAttachKeeps, CloseSocketKeeps, AttachDiesKeeps, run_attach_taskKeeps,
     UploadAbortKeeps
<1>3. ASSUME NEW a \in Attach, NEW kind \in Upload, NEW index \in Nat, UploadMessage(a, kind, index)
      PROVE  RequestInv'
  BY <1>3, UploadMessageKeeps
<1>4. CASE \/ create_terminal \/ check_foreground_process \/ list_directory \/ agent_browser
           \/ read_file
  BY <1>4, BeginKeeps
     DEF create_terminal, check_foreground_process, list_directory, agent_browser, read_file, Plain
<1>5. CASE write_file
  <2>1. PICK base \in versions : Begin("write", base)
    BY <1>5 DEF write_file
  <2>2. base \in Nat /\ "write" \in Plain
    BY DEF RequestInv, RequestTypes, Plain
  <2> QED BY <2>1, <2>2, BeginKeeps
<1>6. ASSUME NEW t \in tasks, read_file_for_hub(t) \/ write_file_for_hub(t) \/ rename(t)
      PROVE  RequestInv'
  BY <1>6, read_file_for_hubKeeps, write_file_for_hubKeeps, renameKeeps
<1>7. ASSUME NEW r \in Id,
             \/ SubmitRefused(r) \/ register_pending(r) \/ find_machine(r) \/ send_to_machine(r)
             \/ Wake(r) \/ Timeout(r) \/ SaveReceipt(r) \/ Cancel(r) \/ ComposerResult(r)
      PROVE  RequestInv'
  BY <1>7, SubmitRefusedKeeps, register_pendingKeeps, find_machineKeeps, send_to_machineKeeps,
     WakeKeeps, TimeoutKeeps, SaveReceiptKeeps, CancelKeeps, ComposerResultKeeps
<1>8. CASE handle_machine_message \/ handle_hub_message
  BY <1>8, handle_machine_messageKeeps, handle_hub_messageKeeps
<1>9. CASE unregister_machine \/ DropSenders \/ Reconnect \/ HubRestarts
  BY <1>9, unregister_machineKeeps, DropSendersKeeps, ReconnectKeeps, HubRestartsKeeps
<1>10. CASE RequestNext
  <2>1. {"begin", "end", "chunk"} \subseteq Upload /\ 0..Size \subseteq Nat /\ 0 \in Nat
    BY BoundsAssumption DEF Upload
  <2> QED BY <1>2, <1>3, <1>4, <1>5, <1>6, <1>7, <1>8, <1>9, <1>10, <2>1 DEF RequestNext
<1> QED BY <1>1, <1>10

(* The invariant holds in every state. *)
LEMMA RequestsKeepInv == RequestSpec => []RequestInv
BY RequestInitInv, RequestStepInv, PTL DEF RequestSpec

(* A composer message is written to a terminal at most once, and what a    *)
(* stored or told receipt says is what happened, for any number of         *)
(* sockets, sends, timeouts, lost connections and restarts.                *)
THEOREM ReceiptsStayHonest == RequestSpec => []ReceiptsAreHonest
<1>1. RequestInv => ReceiptsAreHonest
  BY DEF RequestInv, InOnePlace, SaysWhatIs, Says, ReceiptsAreHonest
<1> QED BY <1>1, RequestsKeepInv, PTL

(* Uploads of any size are whole or gone, an entry of pending has a request *)
(* that will take it out or was dropped, and browser requests learn that   *)
(* their connection is lost.                                               *)
THEOREM RequestsAlwaysSettle == RequestSpec => []RequestsSettle
<1>1. RequestInv => PendingSettles
  <2> SUFFICES ASSUME RequestInv, NEW r \in Id, request[r].entry \/ request[r].tracked
               PROVE  request[r].step \in Waiting \cup {"gone"}
    BY DEF PendingSettles
  <2>1. request[r].step \in Waiting \cup {"done", "gone"}
    BY RecordIs DEF RequestInv, RequestRecord
  <2>2. request[r].step # "done"
    BY DEF RequestInv, Progress
  <2> QED BY <2>1, <2>2
<1>2. RequestInv => BrowserRequestsFailFast
  BY DEF RequestInv, BrowsersAreListed, BrowserRequestsFailFast
<1>3. RequestInv => RequestsSettle
  BY <1>1, <1>2 DEF RequestInv, RequestsSettle
<1> QED BY <1>3, RequestsKeepInv, PTL
=============================================================================
