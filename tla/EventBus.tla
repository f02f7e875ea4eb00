------------------------------- MODULE EventBus -------------------------------
(***************************************************************************)
(* The browser event feed: MachineManager::send_event and its history and  *)
(* broadcast channel, the bootstrap snapshot, /ws/events, the flush of the *)
(* sequence counter and its recovery after a crash, and the web client     *)
(* that keeps a replica of the hub's state from snapshot and events.       *)
(*                                                                         *)
(* A change is one change of hub state together with the event announcing  *)
(* it.  The code changes the state first (under the lock of that state)    *)
(* and then runs send_event, three steps that other tasks interleave with: *)
(* take a sequence number, append to the history, broadcast.  Clients do   *)
(* not influence the bus, so one client is modelled.                       *)
(***************************************************************************)
EXTENDS Naturals, Sequences, FiniteSets

CONSTANTS
    Change,                \* changes of hub state, each announced once
    Foreign,               \* the changes whose event targets another user
    EVENT_HISTORY_LIMIT,   \* events kept for replay
    BroadcastCapacity,     \* events a receiver may fall behind
    SEQ_RECOVERY_OFFSET,   \* added to the persisted sequence on restart
    Workers,               \* threads of the runtime: sends that can overlap
    InitialSeq,            \* persisted sequence the first hub process starts from
    MaxCrashes             \* bound: hub crashes

ASSUME BusAssumption ==
    /\ Foreign \subseteq Change
    /\ EVENT_HISTORY_LIMIT \in Nat \ {0}
    /\ BroadcastCapacity \in Nat \ {0}
    /\ Workers \in 1..EVENT_HISTORY_LIMIT
    /\ SEQ_RECOVERY_OFFSET \in Nat
    /\ InitialSeq \in Nat
    /\ MaxCrashes \in Nat

VARIABLES
    stage,           \* change -> how far it and its event have come
    seqOf,           \* change -> sequence number of its event, 0 when none yet
    next_event_seq,  \* last sequence number handed out
    persisted,       \* hub_state.next_event_seq in the database
    event_history,   \* changes recorded for replay, oldest first
    crashes,         \* crashes so far
    phase,           \* where the client is between bootstrap and live events
    snapSeq,         \* snapshot_seq of the bootstrap under way
    lastSeq,         \* the client's watermark (receivedSeq)
    known,           \* changes the client's replica contains
    replay,          \* replayed events not yet received
    inbox,           \* broadcast events not yet received
    receiver         \* the receiver fell more than the capacity behind

bus == <<stage, seqOf, next_event_seq, persisted, event_history, crashes>>
client == <<phase, snapSeq, lastSeq, known, replay, inbox, receiver>>
vars == <<stage, seqOf, next_event_seq, persisted, event_history, crashes,
          phase, snapSeq, lastSeq, known, replay, inbox, receiver>>

Stage == {"pending", "applied", "numbered", "recorded", "sent", "lost"}
Phase == {"boot", "reading", "booted", "subscribed", "open"}

TypeOK ==
    /\ stage \in [Change -> Stage]
    /\ seqOf \in [Change -> Nat]
    /\ next_event_seq \in Nat
    /\ persisted \in Nat
    /\ event_history \in Seq(Change) /\ Len(event_history) <= EVENT_HISTORY_LIMIT
    /\ crashes \in 0..MaxCrashes
    /\ phase \in Phase
    /\ snapSeq \in Nat
    /\ lastSeq \in Nat
    /\ known \in SUBSET Change
    /\ replay \in Seq(Change)
    /\ inbox \in Seq(Change) /\ Len(inbox) <= BroadcastCapacity
    /\ receiver \in {"intact", "lagged"}

Init ==
    /\ stage = [k \in Change |-> "pending"]
    /\ seqOf = [k \in Change |-> 0]
    /\ next_event_seq = InitialSeq
    /\ persisted = InitialSeq
    /\ event_history = <<>>
    /\ crashes = 0
    /\ phase = "boot"
    /\ snapSeq = 0
    /\ lastSeq = 0
    /\ known = {}
    /\ replay = <<>>
    /\ inbox = <<>>
    /\ receiver = "intact"

-----------------------------------------------------------------------------
(* The hub: a task that changes state and announces it. *)

Apply(k) ==
    /\ stage[k] = "pending"
    /\ stage' = [stage EXCEPT ![k] = "applied"]
    /\ UNCHANGED <<seqOf, next_event_seq, persisted, event_history, crashes, client>>

(* Sends under way.  send_event does not await, so each of them occupies   *)
(* a thread of the runtime.                                                *)
Sending == {k \in Change : stage[k] \in {"numbered", "recorded"}}

(* fetch_add on the counter. *)
Number(k) ==
    /\ stage[k] = "applied"
    /\ Cardinality(Sending) < Workers
    /\ next_event_seq' = next_event_seq + 1
    /\ seqOf' = [seqOf EXCEPT ![k] = next_event_seq + 1]
    /\ stage' = [stage EXCEPT ![k] = "numbered"]
    /\ UNCHANGED <<persisted, event_history, crashes, client>>

(* Mutant of Bounded: the history is cut one event too late. *)
BoundedLate(history) ==
    IF Len(history) > EVENT_HISTORY_LIMIT + 1 THEN Tail(history) ELSE history

Bounded(history) ==
    IF Len(history) > EVENT_HISTORY_LIMIT THEN Tail(history) ELSE history

Record(k) ==
    /\ stage[k] = "numbered"
    /\ event_history' = Bounded(Append(event_history, k))
    /\ stage' = [stage EXCEPT ![k] = "recorded"]
    /\ UNCHANGED <<seqOf, next_event_seq, persisted, crashes, client>>

Receiving == phase \in {"subscribed", "open"}

(* Every receiver gets the event, or has lagged once it is full. *)
Broadcast(k) ==
    /\ stage[k] = "recorded"
    /\ stage' = [stage EXCEPT ![k] = "sent"]
    /\ \/ /\ Receiving /\ Len(inbox) < BroadcastCapacity
          /\ inbox' = Append(inbox, k)
          /\ UNCHANGED receiver
       \/ /\ Receiving /\ Len(inbox) = BroadcastCapacity
          /\ receiver' = "lagged"
          /\ UNCHANGED inbox
       \/ /\ ~Receiving
          /\ UNCHANGED <<inbox, receiver>>
    /\ UNCHANGED <<seqOf, next_event_seq, persisted, event_history, crashes,
                   phase, snapSeq, lastSeq, known, replay>>

flush_event_seq ==
    /\ persisted # next_event_seq
    /\ persisted' = next_event_seq
    /\ UNCHANGED <<stage, seqOf, next_event_seq, event_history, crashes, client>>

(* Mutant of RecoveredSeq: the counter resumes where it was last flushed. *)
RecoveredWithoutOffset == persisted

RecoveredSeq == persisted + SEQ_RECOVERY_OFFSET

(* The hub process dies and a new one starts.  Sockets and requests die    *)
(* with it, the history and unsent events are gone; a client that holds a  *)
(* snapshot and has not opened its socket yet notices nothing.  A change   *)
(* that got no number is due at the first number its process left unused.  *)
Crash ==
    /\ crashes < MaxCrashes
    /\ crashes' = crashes + 1
    /\ next_event_seq' = RecoveredSeq
    /\ event_history' = <<>>
    /\ stage' = [k \in Change |->
          IF stage[k] \in {"applied", "numbered", "recorded"} THEN "lost" ELSE stage[k]]
    /\ seqOf' = [k \in Change |->
          IF stage[k] = "applied" THEN next_event_seq + 1 ELSE seqOf[k]]
    /\ phase' = IF phase = "booted" THEN "booted" ELSE "boot"
    /\ replay' = <<>>
    /\ inbox' = <<>>
    /\ receiver' = "intact"
    /\ UNCHANGED <<persisted, snapSeq, lastSeq, known>>

(* "Must exceed the maximum number of events that can go unflushed." *)
WithinOffset == next_event_seq - persisted < SEQ_RECOVERY_OFFSET

-----------------------------------------------------------------------------
(* The client: bootstrap, subscribe, receive. *)

(* snapshot_for_user reads the counter before any state. *)
SnapshotSeq ==
    /\ phase = "boot"
    /\ phase' = "reading"
    /\ snapSeq' = next_event_seq
    /\ UNCHANGED <<bus, lastSeq, known, replay, inbox, receiver>>

Applied == {k \in Change : stage[k] # "pending"}

SnapshotState ==
    /\ phase = "reading"
    /\ phase' = "booted"
    /\ known' = Applied
    /\ lastSeq' = snapSeq
    /\ snapSeq' = 0
    /\ UNCHANGED <<bus, replay, inbox, receiver>>

(* build_event_subscription takes its receiver before it reads history. *)
Subscribe ==
    /\ phase = "booted"
    /\ phase' = "subscribed"
    /\ UNCHANGED <<bus, snapSeq, lastSeq, known, replay, inbox, receiver>>

history_has_gap_after_seq(after_seq) ==
    /\ after_seq # 0
    /\ event_history # <<>>
    /\ after_seq + 1 < seqOf[Head(event_history)]

Disconnect ==
    /\ phase' = "boot"
    /\ replay' = <<>>
    /\ inbox' = <<>>
    /\ receiver' = "intact"

(* The code filters the replay by user and by after_seq here; the model    *)
(* drops the same events when they are forwarded, which nothing can tell.  *)
ReadHistory ==
    /\ phase = "subscribed"
    /\ \/ /\ history_has_gap_after_seq(lastSeq)
          /\ Disconnect
       \/ /\ ~history_has_gap_after_seq(lastSeq)
          /\ phase' = "open"
          /\ replay' = event_history
          /\ UNCHANGED <<inbox, receiver>>
    /\ UNCHANGED <<bus, snapSeq, lastSeq, known>>

(* Mutant of shouldResyncForEnvelope: the client never asks for a resync. *)
NeverResync(k) == FALSE

shouldResyncForEnvelope(k) == lastSeq > 0 /\ seqOf[k] > lastSeq + 1

(* Mutant of Accept: an event the client is past is applied after all. *)
AcceptLate(k) ==
    IF ~shouldResyncForEnvelope(k)
    THEN lastSeq' = seqOf[k] /\ known' = known \cup {k}
    ELSE UNCHANGED <<lastSeq, known>>

(* An envelope reaches the client, which ignores one it is past. *)
Accept(k) ==
    IF ~shouldResyncForEnvelope(k) /\ seqOf[k] > lastSeq
    THEN lastSeq' = seqOf[k] /\ known' = known \cup {k}
    ELSE UNCHANGED <<lastSeq, known>>

(* Another user's event is not forwarded. *)
Forward(k) == IF k \in Foreign THEN UNCHANGED <<lastSeq, known>> ELSE Accept(k)

Resyncs(k) == k \notin Foreign /\ shouldResyncForEnvelope(k)

(* Replayed events go first, then broadcast ones. *)
ReceiveReplay ==
    /\ phase = "open" /\ replay # <<>>
    /\ Forward(Head(replay))
    /\ \/ Resyncs(Head(replay)) /\ Disconnect
       \/ /\ ~Resyncs(Head(replay))
          /\ replay' = Tail(replay)
          /\ UNCHANGED <<phase, inbox, receiver>>
    /\ UNCHANGED <<bus, snapSeq>>

ReceiveBroadcast ==
    /\ phase = "open" /\ replay = <<>> /\ receiver = "intact" /\ inbox # <<>>
    /\ Forward(Head(inbox))
    /\ \/ Resyncs(Head(inbox)) /\ Disconnect
       \/ /\ ~Resyncs(Head(inbox))
          /\ inbox' = Tail(inbox)
          /\ UNCHANGED <<phase, replay, receiver>>
    /\ UNCHANGED <<bus, snapSeq>>

(* Mutant of EndLagged: the handler carries on past the skipped events. *)
SkipLagged ==
    /\ phase = "open" /\ replay = <<>> /\ receiver = "lagged"
    /\ receiver' = "intact"
    /\ UNCHANGED <<bus, phase, snapSeq, lastSeq, known, replay, inbox>>

(* recv returns Lagged and the handler ends the socket. *)
EndLagged ==
    /\ phase = "open" /\ replay = <<>> /\ receiver = "lagged"
    /\ Disconnect
    /\ UNCHANGED <<bus, snapSeq, lastSeq, known>>

(* The socket closes for any other reason; the client bootstraps again. *)
DropSocket ==
    /\ Receiving
    /\ Disconnect
    /\ UNCHANGED <<bus, snapSeq, lastSeq, known>>

HubStep ==
    \/ \E k \in Change : Apply(k) \/ Number(k) \/ Record(k) \/ Broadcast(k)
    \/ flush_event_seq

ClientStep ==
    \/ SnapshotSeq \/ SnapshotState \/ Subscribe \/ ReadHistory
    \/ ReceiveReplay \/ ReceiveBroadcast \/ EndLagged

CrashWithinOffset == WithinOffset /\ Crash

Next == HubStep \/ ClientStep \/ DropSocket \/ CrashWithinOffset

(* A task that has begun to announce a change finishes (send_event does    *)
(* not block), and the client keeps driving its bootstrap and its socket:  *)
(* it retries every failure.  Changes, drops, flushes and crashes need not *)
(* happen.                                                                 *)
Fairness ==
    /\ \A k \in Change : WF_vars(Number(k) \/ Record(k) \/ Broadcast(k))
    /\ WF_vars(ClientStep)

Spec == Init /\ [][Next]_vars /\ Fairness

-----------------------------------------------------------------------------
(* The client's watermark never passes over something it does not know:    *)
(* whatever interleaving of state changes, numbering, history, broadcast,  *)
(* snapshot, subscription, drops and a hub restart, every change of its    *)
(* user whose event number is at most the watermark is in its replica, so  *)
(* a missed event always leaves a gap that the next event reveals.         *)
NoSilentMiss ==
    phase \in {"booted", "subscribed", "open"} =>
        \A k \in Change \ Foreign :
            seqOf[k] # 0 /\ seqOf[k] <= lastSeq => k \in known

(* Sequence numbers are never handed out twice, across restarts included:  *)
(* the recovery offset "must exceed the maximum number of events that can  *)
(* go unflushed (flush cadence is every 100 events or 5 seconds)".         *)
SeqNeverReused ==
    \A j, k \in Change :
        (j # k /\ seqOf[j] # 0 /\ seqOf[k] # 0 /\ stage[j] # "lost" /\ stage[k] # "lost")
            => seqOf[j] # seqOf[k]

(* The watermark of a replica only moves forward while the client stays    *)
(* on one bootstrap, and the replica forgets nothing it was told: late,    *)
(* duplicate and replayed events never roll the client back.               *)
ReplicaMovesForward ==
    [][phase # "reading" => lastSeq' >= lastSeq /\ known \subseteq known']_vars

(* Every change of the client's user that was announced reaches its        *)
(* replica, over any number of dropped sockets, overruns of the history    *)
(* and lagged receivers: the client does not "wait for another message or  *)
(* a user reload to recover the snapshot".                                 *)
ClientCatchesUp ==
    \A k \in Change \ Foreign : stage[k] = "sent" ~> k \in known

(* The bus is typed, its history and its channel stay within their limits, *)
(* and no two announced changes share a number, however often the hub      *)
(* restarts within the recovery offset (send_event, RecoveredSeq).         *)
BusIsSound ==
    TypeOK /\ SeqNeverReused
=============================================================================
