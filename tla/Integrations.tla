---------------------------- MODULE Integrations ----------------------------
(***************************************************************************)
(* What the hub tells webhooks and bridges about a run: the worker that    *)
(* turns updates into outbox rows and posts a webhook's rows               *)
(* (crates/hub/src/webhooks.rs), the bridge's connection task and its      *)
(* commands (bridge.rs), the rows (db/integrations.rs) and the requests    *)
(* that turn an integration on and off (routes/integrations.rs).           *)
(*                                                                         *)
(* One run, one webhook and one bridge.  A run is its status and the       *)
(* request it waits on; each event carries the run it describes.  The      *)
(* receivers are not under src/: a bridge server keeps the last snapshot   *)
(* or event, drops an event it has stored, acknowledges what it stored and *)
(* repeats a command until it gets a result (docs/agent-bridge-protocol.md,*)
(* lines 67 to 89).                                                        *)
(***************************************************************************)
EXTENDS Naturals, Sequences, FiniteSets

CONSTANTS
    Conn,           \* bound: keep_connected tasks
    NoConn,         \* no task
    Picked,         \* the events the webhook wants, empty for all
    MaxRunChanges,  \* bound: changes of the run, machine and test events
    MaxFaults       \* bound: requests that turn the bridge on, off or remove it, and restarts

ASSUME NoConnAssumption == NoConn \notin Conn
ASSUME OutboxAssumption == MaxRunChanges \in Nat /\ MaxFaults \in Nat

VARIABLES
    run,            \* the run in the database
    updates,        \* HubUpdate::Run on their way to the worker
    said,           \* webhook_run_state: the run as last described
    worker,         \* the worker's turn: idle (or posting), or enqueue
    rows_todo,      \* rows it has still to enqueue for the update at hand
    outbox,         \* webhook_outbox: for whom, about what, its state (failed: given up or deleted)
    enabled,        \* the bridge: none yet, on, off or gone
    syncing,        \* sync calls that read "enabled" and have not stored their handle
    conn,           \* connection tasks: state, last_sent, what a command is at
    bridge_handle,  \* the task the BRIDGES map knows, or NoConn
    got,            \* outbox rows a receiver has stored
    view,           \* the run as the bridge server shows it
    command,        \* the server's command: wanted, runs so far, result saved
    changes_left, faults_left,
    lost,           \* history: an update was dropped or not queued for the bridge
    doubled         \* history: a task ran that the map did not know, or was cut off

outboxVars ==
    <<run, updates, said, worker, rows_todo, outbox, enabled, syncing, conn, bridge_handle,
      got, view, command, changes_left, faults_left, lost, doubled>>
feed == <<run, updates, said, worker, rows_todo, changes_left>>
link == <<enabled, syncing, conn, bridge_handle>>
server == <<got, view, command>>

Runs == [status : {"working", "waiting", "ended"}, request : 0..MaxRunChanges]
NoRun == [status |-> "none", request |-> 0]
Row == [to : {"bridge", "webhook"}, about : Runs \cup {NoRun},
        state : {"waiting", "delivered", "failed"}]
NoLink == [state |-> "none", last_sent |-> 0, command |-> "none"]

OutboxTypeOK ==
    /\ run \in Runs /\ updates \in Seq(Runs) /\ said \in Runs \cup {NoRun}
    /\ worker \in {"idle", "enqueue"} /\ rows_todo \in Seq(Row) /\ outbox \in Seq(Row)
    /\ enabled \in {"none", "on", "off", "gone"} /\ syncing \in 0..MaxFaults + 1
    /\ conn \in [Conn -> [state : {"none", "connecting", "up"}, last_sent : Nat,
                          command : {"none", "checked", "ran"}]]
    /\ bridge_handle \in Conn \cup {NoConn}
    /\ got \subseteq 1..Len(outbox) /\ view \in Runs \cup {NoRun}
    /\ command \in [wanted : BOOLEAN, runs : Nat, saved : BOOLEAN]
    /\ lost \in BOOLEAN /\ doubled \in BOOLEAN

OutboxInit ==
    /\ run = [status |-> "working", request |-> 0]
    /\ updates = <<run>> /\ said = NoRun /\ worker = "idle" /\ rows_todo = <<>> /\ outbox = <<>>
    /\ enabled = "none" /\ syncing = 0 /\ conn = [c \in Conn |-> NoLink] /\ bridge_handle = NoConn
    /\ got = {} /\ view = NoRun /\ command = [wanted |-> TRUE, runs |-> 0, saved |-> FALSE]
    /\ changes_left = MaxRunChanges /\ faults_left = MaxFaults
    /\ lost = FALSE /\ doubled = FALSE

-----------------------------------------------------------------------------
(* The worker. *)

(* A run changes and is announced; a request number is never used again.   *)
RunChanges(status) ==
    /\ changes_left > 0 /\ changes_left' = changes_left - 1
    /\ run' = [status |-> status, request |-> IF status = "waiting" THEN changes_left ELSE 0]
    /\ updates' = Append(updates, run')
    /\ UNCHANGED <<said, worker, rows_todo, outbox, link, server, faults_left, lost, doubled>>

(* The events that tell a receiver what is new since the last description. *)
run_changes(previous, next) ==
    LET new_request == next.request # 0 /\ next.request # previous.request
        resolved == previous.request # 0 /\ next.request = 0
        ended == next.status = "ended"
        If(cond, event) == IF cond THEN <<event>> ELSE <<>> IN
    IF previous = NoRun
    THEN <<"run.started">> \o If(next.request # 0, "run.request") \o If(ended, "run.ended")
    ELSE If(new_request, "run.request") \o If(resolved, "run.request_resolved") \o
         If(next.status # previous.status /\ ~new_request /\ ~ended, "run.status") \o
         If(ended /\ previous.status # "ended", "run.ended")

NewRow(to, about) == [to |-> to, about |-> about, state |-> "waiting"]

(* The rows an update calls for: one to the webhook for each event that it *)
(* picked, and one to an enabled bridge for every event.                   *)
RowsFor(next) ==
    LET news == run_changes(said, next)
        wanted == {i \in 1..Len(news) : Picked = {} \/ news[i] \in Picked}
        Rows(to, n) == [k \in 1..n |-> NewRow(to, next)] IN
    Rows("webhook", Cardinality(wanted)) \o
    (IF enabled = "on" THEN Rows("bridge", Len(news)) ELSE <<>>)

(* The worker takes an update: one that calls for no row is remembered.   *)
on_run ==
    /\ worker = "idle" /\ updates # <<>>
    /\ updates' = Tail(updates)
    /\ \/ /\ RowsFor(Head(updates)) = <<>> /\ said' = Head(updates)
          /\ UNCHANGED <<worker, rows_todo>>
       \/ /\ RowsFor(Head(updates)) # <<>> /\ rows_todo' = RowsFor(Head(updates))
          /\ worker' = "enqueue" /\ UNCHANGED said
    /\ lost' = (lost \/ (enabled # "on" /\ run_changes(said, Head(updates)) # <<>>))
    /\ UNCHANGED <<run, outbox, link, server, changes_left, faults_left, doubled>>

(* machine.online and machine.offline go to an enabled bridge, a test event *)
(* to the integration it is for; both say nothing of the run.              *)
on_machine ==
    /\ changes_left > 0 /\ worker = "idle" /\ enabled = "on"
    /\ changes_left' = changes_left - 1 /\ outbox' = Append(outbox, NewRow("bridge", NoRun))
    /\ UNCHANGED <<run, updates, said, worker, rows_todo, link, server, faults_left, lost, doubled>>

enqueue_test(to) ==
    /\ changes_left > 0 /\ (to = "bridge" => enabled \in {"on", "off"})
    /\ changes_left' = changes_left - 1 /\ outbox' = Append(outbox, NewRow(to, NoRun))
    /\ UNCHANGED <<run, updates, said, worker, rows_todo, link, server, faults_left, lost, doubled>>

(* One INSERT per row; what was described is saved after the last one. *)
enqueue ==
    /\ worker = "enqueue"
    /\ outbox' = Append(outbox, Head(rows_todo)) /\ rows_todo' = Tail(rows_todo)
    /\ \/ Len(rows_todo) = 1 /\ said' = Head(rows_todo).about /\ worker' = "idle"
       \/ Len(rows_todo) > 1 /\ UNCHANGED <<said, worker>>
    /\ UNCHANGED <<run, updates, changes_left, link, server, faults_left, lost, doubled>>

(* Rows the worker may post: it does nothing else meanwhile. *)
due == {k \in DOMAIN outbox : outbox[k].to = "webhook" /\ outbox[k].state = "waiting"}

Stamp(k, state) == outbox' = [outbox EXCEPT ![k].state = state]

(* Post, then stamp: delivered, retried later (the row waits on), given up *)
(* a day later; an answer that was lost makes a retry of what arrived.     *)
deliver_due(k, outcome) ==
    /\ worker = "idle" /\ k \in due
    /\ got' = IF outcome \in {"ok", "answer_lost"} THEN got \cup {k} ELSE got
    /\ CASE outcome = "ok" -> Stamp(k, "delivered")
         [] outcome = "gave_up" -> Stamp(k, "failed")
         [] OTHER -> UNCHANGED outbox
    /\ UNCHANGED <<feed, link, view, command, faults_left, lost, doubled>>

-----------------------------------------------------------------------------
(* Bridge connections. *)

(* POST: a bridge starts enabled and is synced. *)
create ==
    /\ enabled = "none" /\ enabled' = "on" /\ syncing' = syncing + 1
    /\ UNCHANGED <<feed, outbox, conn, bridge_handle, server, faults_left, lost, doubled>>

(* With an integration go its rows and the results of its commands. *)
delete ==
    /\ outbox' = [k \in DOMAIN outbox |-> IF outbox[k].to = "bridge"
                     THEN [outbox[k] EXCEPT !.state = "failed"] ELSE outbox[k]]
    /\ command' = [command EXCEPT !.saved = FALSE]

(* The first half of sync: the connection goes at once, in the middle of a *)
(* command too, and a sync that finds the bridge enabled goes on.          *)
AbortTask(to) ==
    /\ conn' = [c \in Conn |-> IF c = bridge_handle THEN NoLink ELSE conn[c]]
    /\ bridge_handle' = NoConn
    /\ doubled' = (doubled \/ (bridge_handle # NoConn /\ conn[bridge_handle].command # "none"))
    /\ syncing' = syncing + (IF to = "on" THEN 1 ELSE 0)

(* PATCH and DELETE: the row, then sync. *)
update(to) ==
    /\ faults_left > 0 /\ faults_left' = faults_left - 1
    /\ enabled \in {"on", "off"} \ {to} /\ enabled' = to /\ AbortTask(to)
    /\ UNCHANGED <<feed, outbox, server, lost>>

remove ==
    /\ faults_left > 0 /\ faults_left' = faults_left - 1
    /\ enabled \in {"on", "off"} /\ enabled' = "gone" /\ delete /\ AbortTask("gone")
    /\ UNCHANGED <<feed, got, view, lost>>

(* The second half of a sync that found the bridge enabled: its handle     *)
(* replaces one another sync stored meanwhile, whose task lives on.        *)
sync ==
    /\ syncing > 0 /\ syncing' = syncing - 1
    /\ \E c \in Conn : /\ conn[c].state = "none" /\ bridge_handle' = c
                       /\ conn' = [conn EXCEPT ![c].state = "connecting"]
    /\ doubled' = (doubled \/ bridge_handle # NoConn)
    /\ UNCHANGED <<feed, outbox, enabled, server, faults_left, lost>>

(* keep_connected: a task whose bridge is off ends, the others connect,    *)
(* say hello and send a snapshot.                                          *)
keep_connected(c) ==
    /\ conn[c].state = "connecting"
    /\ \/ /\ enabled # "on" /\ conn' = [conn EXCEPT ![c] = NoLink] /\ UNCHANGED view
       \/ /\ enabled = "on" /\ conn' = [conn EXCEPT ![c].state = "up", ![c].last_sent = 0]
          /\ view' = run
    /\ UNCHANGED <<feed, outbox, enabled, syncing, bridge_handle, got, command,
                   faults_left, lost, doubled>>

(* Mutant of unacked: a new connection starts after the newest row. *)
UnackedOfThisConnection(c) ==
    {k \in DOMAIN outbox : /\ outbox[k].to = "bridge" /\ outbox[k].state = "waiting"
                           /\ k > conn[c].last_sent /\ k = Len(outbox)}

unacked(c) ==
    {k \in DOMAIN outbox : /\ outbox[k].to = "bridge" /\ outbox[k].state = "waiting"
                           /\ k > conn[c].last_sent}

(* Rows go out oldest first, each once per connection. *)
connect_and_serve(c, k) ==
    /\ conn[c].state = "up" /\ conn[c].command = "none"
    /\ k \in unacked(c) /\ \A j \in unacked(c) : k <= j
    /\ conn' = [conn EXCEPT ![c].last_sent = k]
    /\ got' = got \cup {k} /\ view' = IF k \in got \/ outbox[k].about = NoRun THEN view
                                       ELSE outbox[k].about
    /\ UNCHANGED <<feed, outbox, enabled, syncing, bridge_handle, command,
                   faults_left, lost, doubled>>

(* Every row up to the acknowledged one is delivered. *)
ack(upto) ==
    [k \in DOMAIN outbox |->
        IF outbox[k].to = "bridge" /\ k <= upto /\ outbox[k].state = "waiting"
        THEN [outbox[k] EXCEPT !.state = "delivered"] ELSE outbox[k]]

(* The server acknowledges what it has stored, perhaps late. *)
HandleAck(c, upto) ==
    /\ conn[c].state = "up" /\ conn[c].command = "none"
    /\ upto \in got /\ outbox[upto].to = "bridge"
    /\ outbox' = ack(upto) /\ outbox' # outbox
    /\ UNCHANGED <<feed, link, server, faults_left, lost, doubled>>

(* The connection drops; a command it was carrying out is never reported.  *)
ConnectionLost(c) ==
    /\ conn[c].state = "up" /\ conn[c].command = "none"
    /\ conn' = [conn EXCEPT ![c] = [NoLink EXCEPT !.state = "connecting"]]
    /\ UNCHANGED <<feed, outbox, enabled, syncing, bridge_handle, server,
                   faults_left, lost, doubled>>

-----------------------------------------------------------------------------
(* Commands of the server. *)

(* A command seen before gets the same result, not a second go. *)
handle_command(c) ==
    /\ conn[c].state = "up" /\ conn[c].command = "none" /\ command.wanted
    /\ \/ command.saved /\ command' \in {command, [command EXCEPT !.wanted = FALSE]}
          /\ UNCHANGED conn
       \/ ~command.saved /\ conn' = [conn EXCEPT ![c].command = "checked"] /\ UNCHANGED command
    /\ UNCHANGED <<feed, outbox, enabled, syncing, bridge_handle, got, view,
                   faults_left, lost, doubled>>

(* answer_as or start_as, as the bridge. *)
run_command(c) ==
    /\ conn[c].command = "checked"
    /\ conn' = [conn EXCEPT ![c].command = "ran"]
    /\ command' = [command EXCEPT !.runs = @ + 1]
    /\ UNCHANGED <<feed, outbox, enabled, syncing, bridge_handle, got, view,
                   faults_left, lost, doubled>>

(* The result is saved, and sent: the reply may be lost with the socket.   *)
save_command_result(c) ==
    /\ conn[c].command = "ran" /\ conn' = [conn EXCEPT ![c].command = "none"]
    /\ \E heard \in BOOLEAN : command' = [command EXCEPT !.saved = TRUE, !.wanted = ~heard]
    /\ UNCHANGED <<feed, outbox, enabled, syncing, bridge_handle, got, view,
                   faults_left, lost, doubled>>

(* The hub stops and starts: updates and tasks are gone, rows stay, and    *)
(* bridge::start syncs an enabled bridge.                                  *)
HubComesBack ==
    /\ faults_left > 0 /\ faults_left' = faults_left - 1
    /\ lost' = (lost \/ updates # <<>> \/ rows_todo # <<>>)
    /\ doubled' = (doubled \/ \E c \in Conn : conn[c].command # "none")
    /\ updates' = <<>> /\ rows_todo' = <<>> /\ worker' = "idle"
    /\ conn' = [c \in Conn |-> NoLink] /\ bridge_handle' = NoConn
    /\ syncing' = IF enabled = "on" THEN 1 ELSE 0
    /\ UNCHANGED <<run, said, changes_left, outbox, enabled, server>>

OutboxNext ==
    \/ \E status \in {"working", "waiting", "ended"} : RunChanges(status)
    \/ on_run \/ enqueue \/ on_machine \/ \E to \in {"bridge", "webhook"} : enqueue_test(to)
    \/ \E k \in DOMAIN outbox, outcome \in {"ok", "answer_lost", "retry", "gave_up"} :
         deliver_due(k, outcome)
    \/ create \/ remove \/ \E to \in {"on", "off"} : update(to)
    \/ sync
    \/ \E c \in Conn :
         \/ keep_connected(c) \/ ConnectionLost(c)
         \/ \E k \in DOMAIN outbox : connect_and_serve(c, k) \/ HandleAck(c, k)
         \/ handle_command(c) \/ run_command(c) \/ save_command_result(c)
    \/ HubComesBack

OutboxSpec == OutboxInit /\ [][OutboxNext]_outboxVars

-----------------------------------------------------------------------------
(* A row stamped as delivered was received, although one acknowledgement   *)
(* stands for all earlier rows, connections come and go, and answers to    *)
(* posts are lost (db/integrations.rs ack, webhooks.rs deliver_due).       *)
DeliveredMeansReceived ==
    \A k \in DOMAIN outbox : outbox[k].state = "delivered" => k \in got

(* A bridge that is up to date shows the run as it is: after the snapshot  *)
(* of a new connection the unacknowledged rows replay older states, and    *)
(* the last of them is the newest.  Updates that were dropped by a restart *)
(* or handled while the bridge was off are excepted.                       *)
BridgeConverges ==
    \A c \in Conn :
        (/\ ~lost /\ worker = "idle" /\ updates = <<>> /\ enabled = "on"
         /\ bridge_handle = c /\ conn[c].state = "up" /\ unacked(c) = {} /\ ~doubled)
            => view = run

(* A command is carried out once however often the server repeats it,      *)
(* unless its task was cut off in the middle or two tasks served the       *)
(* bridge (bridge.rs:433).                                                 *)
CommandsRunOnce == doubled \/ command.runs <= 1

(* What leaves the hub is told truthfully and once: delivered rows were    *)
(* received, a bridge that has caught up shows the run, and its commands   *)
(* do not run twice.                                                       *)
IntegrationsAreSound ==
    DeliveredMeansReceived /\ BridgeConverges /\ CommandsRunOnce
=============================================================================
