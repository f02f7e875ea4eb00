--------------------------- MODULE SecureChannel ---------------------------
(***************************************************************************)
(* The encrypted channel between an app and a hub: messages cut into       *)
(* fragments and scheduled by the writer (crates/secure lib.rs,            *)
(* outbound.rs), requests and sockets multiplexed over it (client.rs) and  *)
(* served by the hub until the device is revoked (hub/src/secure/mod.rs).  *)
(*                                                                         *)
(* Noise is what it promises: records arrive whole and in order, or the    *)
(* connection ends.  A message is small (one fragment) or large (several).  *)
(* The queue of a side is the channel and the waiting list of its writer   *)
(* together: one is moved to the end of the other before every choice.     *)
(***************************************************************************)
EXTENDS Naturals, Sequences, FiniteSets

CONSTANTS
    Requests,       \* HTTP requests of the app
    Socks,          \* WebSockets the app opens
    MaxText,        \* bound: messages per socket and direction
    MaxStreak,      \* small messages that may overtake a large one in a row (8)
    MaxAssemblies,  \* large messages a receiver puts together at once (8)
    HttpSlots,      \* requests a hub works on at once (16)
    Room,           \* messages a socket's handler may be behind (32)
    SecureMixes,    \* bounds: the calls, message sizes, heartbeats and faults of a behaviour
    Nobody

ASSUME CallsAssumption == Requests \cap Socks = {}
ASSUME LimitsAssumption == MaxStreak \in Nat /\ MaxAssemblies \in Nat \ {0}
ASSUME SizesAssumption == \A m \in SecureMixes : m.sizes \subseteq Nat \ {0}

Sides == {"app", "hub"}
Other(side) == IF side = "app" THEN "hub" ELSE "app"
Calls == Requests \cup Socks

(* A message: its key, what it is, the number of fragments, the number of  *)
(* a text on its socket, and, once it has started, its id and the last     *)
(* fragment sent.                                                          *)
Kinds == {"http", "open", "text", "close", "ping", "opened", "closed", "error", "pong"}
Messages == [key : Calls \cup {"heartbeat"}, kind : Kinds, size : Nat \ {0}, n : Nat,
             id : Nat, offset : Nat]

ASSUME NobodyAssumption == Nobody \notin Messages

VARIABLES
    mix,        \* the member of SecureMixes this behaviour keeps to
    queue,      \* per side: messages to send
    control,    \* per side: heartbeats to send
    bulk,       \* per side: the large message under way, with its id and offset
    streak,     \* per side: small messages in a row that overtook it
    next_id,    \* per side: the id of the next message that starts
    net,        \* per side: its records under way
    chan,       \* per side: what its decoder has seen
    call,       \* per call of the app: how far it is
    entries,    \* the maps of pending requests and sockets of the app
    closed, drained,   \* the client is closed; its maps have been emptied
    texts,      \* per side and socket: messages sent so far
    got,        \* per side and socket: messages delivered, in order
    behind,     \* per socket: messages its handler at the hub has not taken
    open_sockets, tasks,    \* the hub's sockets; the requests it works on
    serving,    \* "no", "authenticated", "yes" or "gone": the hub's end of the channel
    revoked,    \* the device has been revoked
    pings

outVars == <<queue, control, bulk, streak, next_id, net, chan>>
appVars == <<call, entries, closed, drained>>
hubVars == <<behind, open_sockets, tasks, serving, revoked>>
secureVars == <<mix, outVars, appVars, texts, got, hubVars, pings>>

SecureTypeOK ==
    /\ entries \subseteq Calls /\ open_sockets \subseteq Socks /\ tasks \subseteq Requests
    /\ \A side \in Sides : streak[side] \in 0 .. MaxStreak /\ next_id[side] \in Nat
    /\ serving \in {"no", "authenticated", "yes", "gone"}

SecureInit ==
    /\ mix \in SecureMixes
    /\ queue = [s \in Sides |-> <<>>] /\ control = [s \in Sides |-> 0]
    /\ bulk = [s \in Sides |-> Nobody] /\ streak = [s \in Sides |-> 0]
    /\ next_id = [s \in Sides |-> 1] /\ net = [s \in Sides |-> <<>>]
    /\ chan = [s \in Sides |-> [last_started |-> 0, pending |-> {}, failed |-> FALSE]]
    /\ call = [c \in Calls |-> "idle"] /\ entries = {}
    /\ closed = FALSE /\ drained = FALSE
    /\ texts = [s \in Sides |-> [k \in Socks |-> 0]]
    /\ got = [s \in Sides |-> [k \in Socks |-> <<>>]]
    /\ behind = [k \in Socks |-> <<>>] /\ open_sockets = {} /\ tasks = {}
    /\ serving = "no" /\ revoked = FALSE /\ pings = 0

-----------------------------------------------------------------------------
(* Fragments. *)

Message(key, kind, size, n) == [key |-> key, kind |-> kind, size |-> size, n |-> n, id |-> 0, offset |-> 0]
is_small(m) == m.size = 1
finished(m) == m.offset = m.size

(* Mutant of encode_next: an id is due to a message from the moment it is  *)
(* queued, the numbers being handed out before the writer chooses.         *)
EncodeByQueueOrder(side, m) ==
    [m EXCEPT !.id = IF m.id = 0 THEN next_id[side] + Len(queue[side]) ELSE m.id, !.offset = @ + 1]

(* The next fragment; an id is taken when the first one is sent. *)
encode_next(side, m) == [m EXCEPT !.id = IF m.id = 0 THEN next_id[side] ELSE m.id, !.offset = @ + 1]

(* What a receiver makes of a record: messages completed, and its state. *)
Failed(c) == [done |-> {}, state |-> [last_started |-> c.last_started, pending |-> {}, failed |-> TRUE]]
decode(c, r) ==
    IF r.offset = 1
    THEN IF r.id <= c.last_started THEN Failed(c)
         ELSE IF r.size = 1 THEN [done |-> {r}, state |-> [c EXCEPT !.last_started = r.id]]
         ELSE IF Cardinality(c.pending) >= MaxAssemblies THEN Failed(c)
         ELSE [done |-> {}, state |-> [c EXCEPT !.last_started = r.id,
                                                !.pending = @ \cup {[id |-> r.id, got |-> 1]}]]
    ELSE IF [id |-> r.id, got |-> r.offset - 1] \notin c.pending THEN Failed(c)
    ELSE LET rest == c.pending \ {[id |-> r.id, got |-> r.offset - 1]} IN
         IF finished(r) THEN [done |-> {r}, state |-> [c EXCEPT !.pending = rest]]
         ELSE [done |-> {}, state |-> [c EXCEPT !.pending = rest \cup {[id |-> r.id, got |-> r.offset]}]]

-----------------------------------------------------------------------------
(* The writer of a side. *)

Without(q, i) == SubSeq(q, 1, i - 1) \o SubSeq(q, i + 1, Len(q))

(* Mutant of Overtakes: small messages overtake whatever is under way. *)
OvertakesAny(side, i) ==
    /\ is_small(queue[side][i])
    /\ ~\E j \in 1 .. (i - 1) : queue[side][j].key = queue[side][i].key

(* A small message may go before others, but not before one of its key. *)
Overtakes(side, i) ==
    /\ is_small(queue[side][i])
    /\ bulk[side] = Nobody \/ bulk[side].key # queue[side][i].key
    /\ ~\E j \in 1 .. (i - 1) : queue[side][j].key = queue[side][i].key
Small(side) == {i \in 1 .. Len(queue[side]) : Overtakes(side, i)}
First(S) == CHOOSE i \in S : \A j \in S : i <= j

Alive(side) == IF side = "app" THEN ~closed ELSE serving = "yes"

(* The record of a message goes out; what is left of it stays under way. *)
Emit(side, m) ==
    LET sent == encode_next(side, m) IN
    /\ net' = [net EXCEPT ![side] = Append(@, sent)]
    /\ next_id' = [next_id EXCEPT ![side] = IF m.id = 0 THEN @ + 1 ELSE @]
    /\ bulk' = [bulk EXCEPT ![side] = IF finished(sent) THEN (IF is_small(m) THEN @ ELSE Nobody) ELSE sent]

Heartbeat(side) == Message("heartbeat", IF side = "app" THEN "ping" ELSE "pong", 1, 0)

run(side) ==
    /\ Alive(side)
    /\ \/ /\ control[side] > 0 /\ control' = [control EXCEPT ![side] = @ - 1]
          /\ Emit(side, Heartbeat(side)) /\ UNCHANGED <<queue, streak>>
       \/ /\ control[side] = 0 /\ Small(side) # {} /\ streak[side] < MaxStreak
          /\ streak' = [streak EXCEPT ![side] = @ + 1]
          /\ queue' = [queue EXCEPT ![side] = Without(@, First(Small(side)))]
          /\ Emit(side, queue[side][First(Small(side))]) /\ UNCHANGED control
       \/ /\ control[side] = 0 /\ (Small(side) = {} \/ streak[side] = MaxStreak)
          /\ streak' = [streak EXCEPT ![side] = 0] /\ UNCHANGED control
          /\ \/ bulk[side] # Nobody /\ Emit(side, bulk[side]) /\ UNCHANGED queue
             \/ /\ bulk[side] = Nobody /\ queue[side] # <<>>
                /\ queue' = [queue EXCEPT ![side] = Tail(@)] /\ Emit(side, Head(queue[side]))
    /\ UNCHANGED <<mix, chan, appVars, texts, got, hubVars, pings>>

Enqueue(side, m) == queue' = [queue EXCEPT ![side] = Append(@, m)]

-----------------------------------------------------------------------------
(* The app. *)

(* A request or an open puts its entry into a map, then looks whether the  *)
(* client is closed, then queues.                                          *)
request(c) ==
    /\ c \in mix.calls /\ call[c] = "idle" /\ serving # "no"
    /\ call' = [call EXCEPT ![c] = "inserted"] /\ entries' = entries \cup {c}
    /\ UNCHANGED <<mix, outVars, closed, drained, texts, got, hubVars, pings>>

send(c) ==
    /\ \/ /\ call[c] = "inserted" /\ ~closed /\ call' = [call EXCEPT ![c] = "checked"]
          /\ UNCHANGED <<queue, entries>>
       \/ /\ call[c] = "checked" /\ ~closed /\ call' = [call EXCEPT ![c] = "waiting"]
          /\ \E size \in mix.sizes : Enqueue("app", Message(c, IF c \in Requests THEN "http" ELSE "open",
                                                     IF c \in Requests THEN size ELSE 1, 0))
          /\ UNCHANGED entries
       \/ /\ call[c] \in {"inserted", "checked"} /\ closed
          /\ call' = [call EXCEPT ![c] = "failed"] /\ entries' = entries \ {c} /\ UNCHANGED queue
    /\ UNCHANGED <<mix, control, bulk, streak, next_id, net, chan, closed, drained, texts, got, hubVars, pings>>

(* A request that is not answered closes the whole client. *)
RequestTimesOut(c) ==
    /\ mix.faults /\ c \in Requests /\ call[c] = "waiting"
    /\ call' = [call EXCEPT ![c] = "failed"] /\ entries' = entries \ {c} /\ closed' = TRUE
    /\ UNCHANGED <<mix, outVars, drained, texts, got, hubVars, pings>>

socket_text(k) ==
    /\ call[k] = "waiting" /\ k \in entries /\ ~closed /\ texts["app"][k] < MaxText
    /\ texts' = [texts EXCEPT !["app"][k] = @ + 1]
    /\ \E size \in mix.sizes : Enqueue("app", Message(k, "text", size, texts["app"][k] + 1))
    /\ UNCHANGED <<mix, control, bulk, streak, next_id, net, chan, appVars, got, hubVars, pings>>

close_socket(k) ==
    /\ call[k] = "waiting" /\ k \in entries /\ entries' = entries \ {k}
    /\ call' = [call EXCEPT ![k] = "ended"]
    /\ IF closed THEN UNCHANGED queue ELSE Enqueue("app", Message(k, "close", 1, 0))
    /\ UNCHANGED <<mix, control, bulk, streak, next_id, net, chan, closed, drained, texts, got, hubVars, pings>>

Ping ==
    /\ pings < mix.pings /\ ~closed /\ serving = "yes" /\ pings' = pings + 1
    /\ control' = [control EXCEPT !["app"] = @ + 1]
    /\ UNCHANGED <<mix, queue, bulk, streak, next_id, net, chan, appVars, texts, got, hubVars>>

close ==
    /\ mix.faults /\ ~closed /\ serving # "no" /\ closed' = TRUE
    /\ UNCHANGED <<mix, outVars, call, entries, drained, texts, got, hubVars, pings>>

StopWriter(side) ==
    /\ queue' = [queue EXCEPT ![side] = <<>>] /\ control' = [control EXCEPT ![side] = 0]
    /\ bulk' = [bulk EXCEPT ![side] = Nobody] /\ streak' = [streak EXCEPT ![side] = 0]

(* The end of a client: everyone who waits is told. *)
Drain ==
    /\ drained' = TRUE /\ entries' = {}
    /\ call' = [c \in Calls |-> IF c \in entries /\ call[c] = "waiting" THEN "failed" ELSE call[c]]
    /\ StopWriter("app") /\ net' = [side \in Sides |-> <<>>]

(* Mutant of fail: the maps are emptied before the client is closed. *)
DrainFirst ==
    /\ serving # "no" /\ ~drained /\ (closed \/ serving = "gone" \/ chan["app"].failed)
    /\ Drain /\ closed' \in {closed, TRUE}
    /\ UNCHANGED <<mix, next_id, chan, texts, got, hubVars, pings>>

fail ==
    /\ serving # "no" /\ closed /\ ~drained
    /\ Drain /\ closed' = TRUE
    /\ UNCHANGED <<mix, next_id, chan, texts, got, hubVars, pings>>

(* The connection ends: the app's reader or writer notices. *)
ConnectionEnds ==
    /\ (mix.faults \/ serving = "gone") /\ serving # "no" /\ ~closed /\ closed' = TRUE
    /\ net' = [side \in Sides |-> <<>>]
    /\ UNCHANGED <<mix, queue, control, bulk, streak, next_id, chan, call, entries, drained, texts, got, hubVars, pings>>

-----------------------------------------------------------------------------
(* What a received message does. *)

Record(side) == Head(net[Other(side)])
Arrived(side) == decode(chan[side], Record(side))
Read(side) ==
    /\ net[Other(side)] # <<>> /\ Alive(side) /\ ~chan[side].failed
    /\ net' = [net EXCEPT ![Other(side)] = Tail(@)]
    /\ chan' = [chan EXCEPT ![side] = Arrived(side).state]

(* A record that cannot be decoded, or that does not complete a message. *)
ReadFragment(side) ==
    /\ Read(side) /\ Arrived(side).done = {}
    /\ IF Arrived(side).state.failed
       THEN IF side = "app" THEN closed' = TRUE /\ UNCHANGED serving ELSE serving' = "gone" /\ UNCHANGED closed
       ELSE UNCHANGED <<closed, serving>>
    /\ UNCHANGED <<mix, queue, control, bulk, streak, next_id, call, entries, drained, texts, got,
                   behind, open_sockets, tasks, revoked, pings>>

(* The app: an answer goes to whoever waits for it, else to its socket. *)
ReadResponse ==
    LET m == Record("app") IN
    /\ Read("app") /\ Arrived("app").done # {}
    /\ \/ m.kind \in {"pong", "opened"} /\ UNCHANGED <<call, entries, got>>
       \/ /\ m.kind \in {"http", "error"} /\ m.key \in Requests
          /\ entries' = entries \ {m.key} /\ UNCHANGED got
          /\ call' = [call EXCEPT ![m.key] = IF m.key \in entries THEN "answered" ELSE @]
       \/ /\ m.kind = "text" /\ UNCHANGED <<call, entries>>
          /\ got' = IF m.key \in entries THEN [got EXCEPT !["app"][m.key] = Append(@, m.n)] ELSE got
       \/ /\ m.kind \in {"closed", "error"} /\ m.key \in Socks /\ UNCHANGED got
          /\ entries' = entries \ {m.key}
          /\ call' = [call EXCEPT ![m.key] = IF m.key \in entries THEN "ended" ELSE @]
    /\ UNCHANGED <<mix, queue, control, bulk, streak, next_id, closed, drained, texts, hubVars, pings>>

Error(key) == Enqueue("hub", Message(key, "error", 1, 0))

(* The hub.  A socket whose handler is too far behind is closed. *)
dispatch ==
    LET m == Record("hub") IN
    /\ Read("hub") /\ Arrived("hub").done # {}
    /\ \/ /\ m.kind = "ping" /\ control' = [control EXCEPT !["hub"] = @ + 1]
          /\ UNCHANGED <<queue, behind, open_sockets, tasks>>
       \/ /\ m.kind = "http" /\ UNCHANGED <<control, behind, open_sockets>>
          /\ \/ Cardinality(tasks) < HttpSlots /\ tasks' = tasks \cup {m.key} /\ UNCHANGED queue
             \/ Cardinality(tasks) >= HttpSlots /\ Error(m.key) /\ UNCHANGED tasks
       \/ /\ m.kind = "open" /\ UNCHANGED <<control, behind, tasks>>
          /\ \/ m.key \notin open_sockets /\ open_sockets' = open_sockets \cup {m.key}
                /\ Enqueue("hub", Message(m.key, "opened", 1, 0))
             \/ m.key \in open_sockets /\ Error(m.key) /\ UNCHANGED open_sockets
       \/ /\ m.kind = "text" /\ UNCHANGED <<control, tasks>>
          /\ \/ /\ m.key \in open_sockets /\ Len(behind[m.key]) < Room
                /\ behind' = [behind EXCEPT ![m.key] = Append(@, m.n)] /\ UNCHANGED <<queue, open_sockets>>
             \/ /\ m.key \in open_sockets /\ Len(behind[m.key]) = Room
                /\ open_sockets' = open_sockets \ {m.key} /\ Error(m.key) /\ UNCHANGED behind
             \/ m.key \notin open_sockets /\ Error(m.key) /\ UNCHANGED <<behind, open_sockets>>
       \/ /\ m.kind = "close" /\ open_sockets' = open_sockets \ {m.key}
          /\ UNCHANGED <<queue, control, behind, tasks>>
    /\ UNCHANGED <<mix, bulk, streak, next_id, appVars, texts, got, serving, revoked, pings>>

-----------------------------------------------------------------------------
(* The hub's own steps. *)

(* Resuming asks whether the device is still paired; the channel is served *)
(* after that.                                                             *)
authenticate ==
    /\ serving = "no" /\ ~revoked /\ serving' = "authenticated"
    /\ UNCHANGED <<mix, outVars, appVars, texts, got, behind, open_sockets, tasks, revoked, pings>>

serve ==
    /\ serving = "authenticated" /\ serving' = "yes"
    /\ UNCHANGED <<mix, outVars, appVars, texts, got, behind, open_sockets, tasks, revoked, pings>>

(* The answer is queued after the slot is free again. *)
HttpDone(r) ==
    /\ r \in tasks /\ serving = "yes" /\ tasks' = tasks \ {r}
    /\ \E size \in mix.sizes : Enqueue("hub", Message(r, "http", size, 0))
    /\ UNCHANGED <<mix, control, bulk, streak, next_id, net, chan, appVars, texts, got, behind, open_sockets,
                   serving, revoked, pings>>

HandlerTakes(k) ==
    /\ behind[k] # <<>> /\ serving = "yes"
    /\ got' = [got EXCEPT !["hub"][k] = Append(@, Head(behind[k]))]
    /\ behind' = [behind EXCEPT ![k] = Tail(@)]
    /\ UNCHANGED <<mix, outVars, appVars, texts, open_sockets, tasks, serving, revoked, pings>>

HandlerSends(k) ==
    /\ k \in open_sockets /\ serving = "yes" /\ texts["hub"][k] < MaxText
    /\ texts' = [texts EXCEPT !["hub"][k] = @ + 1]
    /\ \E size \in mix.sizes : Enqueue("hub", Message(k, "text", size, texts["hub"][k] + 1))
    /\ UNCHANGED <<mix, control, bulk, streak, next_id, net, chan, appVars, got, hubVars, pings>>

HandlerEnds(k) ==
    /\ k \in open_sockets /\ serving = "yes" /\ open_sockets' = open_sockets \ {k}
    /\ Enqueue("hub", Message(k, "closed", 1, 0))
    /\ UNCHANGED <<mix, control, bulk, streak, next_id, net, chan, appVars, texts, got, behind, tasks,
                   serving, revoked, pings>>

revoke_device ==
    /\ mix.faults /\ ~revoked /\ revoked' = TRUE
    /\ UNCHANGED <<mix, outVars, appVars, texts, got, behind, open_sockets, tasks, serving, pings>>

(* Mutant of RevocationTick: only a new connection asks. *)
NeverAsks == FALSE /\ UNCHANGED secureVars

StopServing ==
    /\ serving' = "gone" /\ open_sockets' = {} /\ tasks' = {} /\ behind' = [k \in Socks |-> <<>>]
    /\ StopWriter("hub")
    /\ UNCHANGED <<mix, next_id, net, chan, appVars, texts, got, revoked, pings>>

(* Every second, and at once: is the device still paired? *)
RevocationTick == serving = "yes" /\ revoked /\ StopServing

(* The hub's end goes with the connection. *)
HubNotices == serving = "yes" /\ closed /\ StopServing

SecureNext ==
    \/ authenticate \/ serve \/ revoke_device \/ RevocationTick \/ HubNotices
    \/ \E side \in Sides : run(side) \/ ReadFragment(side)
    \/ ReadResponse \/ dispatch
    \/ \E c \in Calls : request(c) \/ send(c) \/ RequestTimesOut(c)
    \/ \E k \in Socks : socket_text(k) \/ close_socket(k) \/ HandlerTakes(k) \/ HandlerSends(k) \/ HandlerEnds(k)
    \/ \E r \in Requests : HttpDone(r)
    \/ Ping \/ close \/ fail \/ ConnectionEnds

(* The timer of a served channel ticks, and it is served once a device is  *)
(* authenticated: both are the hub's own tasks.                            *)
SecureSpec == SecureInit /\ [][SecureNext]_secureVars /\ WF_secureVars(serve) /\ WF_secureVars(RevocationTick)

-----------------------------------------------------------------------------
(* Properties *)

(* However small messages overtake large ones, each socket delivers what   *)
(* was sent on it in order and without a gap, also after a handler that    *)
(* fell behind was cut off (Writer::run, dispatch).                        *)
SocketsKeepOrder ==
    \A side \in Sides, k \in Socks : \A i \in DOMAIN got[side][k] : got[side][k][i] = i

(* Two peers that follow the protocol never fail each other's records:     *)
(* ids start in order and no more large messages are under way than the    *)
(* receiver can hold (encode_next, decode_inner).                          *)
HonestRecordsDecode == \A side \in Sides : ~chan[side].failed

(* Once a failed client has emptied its maps nobody is left waiting: an    *)
(* entry that is still there belongs to a call that has yet to see that    *)
(* the client is closed (fail, request, open_socket).                      *)
NobodyWaitsOnAFailedClient ==
    drained => \A c \in Calls : /\ call[c] # "waiting"
                                /\ call[c] \in {"inserted", "checked"} => closed
                                /\ c \in entries => call[c] = "inserted"

(* A device that is revoked is cut off, also when it was revoked between   *)
(* its authentication and the first check of the served channel (serve).   *)
RevokedIsCutOff == revoked ~> serving \in {"no", "gone"}

(* The channel carries what was sent or fails for everyone: sockets stay   *)
(* in order, honest records decode, and no call waits on a client that has *)
(* failed.                                                                 *)
ChannelIsSound ==
    SecureTypeOK /\ SocketsKeepOrder /\ HonestRecordsDecode /\ NobodyWaitsOnAFailedClient
=============================================================================
