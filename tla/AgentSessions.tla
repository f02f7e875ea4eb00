--------------------------- MODULE AgentSessions ----------------------------
(***************************************************************************)
(* One agent session (Agent Client Protocol): its row on the hub and the   *)
(* requests about it (routes/agent_sessions.rs, db/agent_sessions.rs, the  *)
(* agent session messages of machine_manager.rs), and on the node the      *)
(* manager and one actor per agent process (crates/machine/src/acp.rs).    *)
(*                                                                         *)
(* A session that is resumed gets a new process and a new actor: actors    *)
(* are numbered in the order they start.  The agent is not under src/: it  *)
(* answers requests well or badly, asks for permission during a turn, and  *)
(* exits when it likes.  Control of the machine is ControlLeases' subject: *)
(* every caller here has it.  The transcript (events and their numbers) is *)
(* left out.                                                               *)
(***************************************************************************)
EXTENDS Naturals, SequencesExt

CONSTANTS
    Caller,      \* requests that can be under way at once
    MaxStarts,   \* bound: agent processes
    MaxCommands, \* bound: prompts, answers and model changes sent
    MaxAsks,     \* bound: permission requests of one process
    MaxFaults,   \* bound: refusals, exits and timeouts of agents, lost connections
    MaxQueued    \* MAX_QUEUED_COMMANDS

BoundsAssumption ==
    /\ MaxStarts \in Nat /\ MaxCommands \in Nat /\ MaxAsks \in Nat
    /\ MaxFaults \in Nat /\ MaxQueued \in Nat

VARIABLES
    row,        \* the status of the session in the database
    request,    \* per caller: the operation and how far it is
    sent,       \* commands sent so far
    faults,     \* faults so far
    to_node, to_hub,  \* the connection, both ways
    epoch, online,    \* which connection it is, and whether it is up
    actor,      \* per process: the session actor
    started,    \* processes started so far
    handle,     \* the actor AcpManager knows, 0 for none
    late        \* history: a resume was sent after the kill of a delete

vars == <<row, request, sent, faults, to_node, to_hub, epoch, online, actor, started, handle, late>>
hub == <<row, request, sent, late>>
node == <<faults, actor, started, handle>>
wire == <<to_node, to_hub, epoch, online>>

Live == {"starting", "working", "asked", "idle"}
Phase == {"none", "init", "load", "new", "ready", "failed", "ended"}
NoActor == [phase |-> "none", alive |-> FALSE, epoch |-> 0, question |-> 0, asks |-> 0,
            turns |-> 0, switching |-> 0, flush |-> FALSE, models |-> FALSE,
            resume |-> FALSE, model |-> FALSE, wanted |-> FALSE, queue |-> <<>>, inbox |-> <<>>,
            ran |-> <<>>]
Done == [op |-> "none", step |-> "idle", arg |-> 0]
Command(op, arg) == [op |-> op, arg |-> arg]

TypeOK ==
    /\ row \in Live \cup {"none", "gone", "error", "disconnected"}
    /\ \A u \in Caller : request[u].step \in {"idle", "send", "save"}
    /\ sent \in 0..MaxCommands /\ started \in 0..MaxStarts /\ handle \in 0..started
    /\ online \in BOOLEAN /\ late \in BOOLEAN /\ epoch \in 0..MaxFaults
    /\ \A g \in 1..MaxStarts : /\ actor[g].phase \in Phase /\ actor[g].alive \in BOOLEAN
                               /\ Len(actor[g].queue) <= MaxQueued
                               /\ actor[g].question \in 0..MaxAsks

Init ==
    /\ row = "none" /\ request = [u \in Caller |-> Done]
    /\ sent = 0 /\ faults = 0 /\ to_node = <<>> /\ to_hub = <<>> /\ epoch = 0 /\ online = TRUE
    /\ actor = [g \in 1..MaxStarts |-> NoActor] /\ started = 0 /\ handle = 0 /\ late = FALSE

Fault == faults < MaxFaults /\ faults' = faults + 1
Unless(ok) == IF ok THEN UNCHANGED faults ELSE Fault

-----------------------------------------------------------------------------
(* Requests: load the row, send to the machine, save. *)

(* prompt, answer, model: the session must be live by its row, which may   *)
(* lag behind.  A prompt is numbered by when it is sent.                   *)
prompt_agent_session(op, arg) ==
    /\ sent < MaxCommands /\ row \in Live /\ online
    /\ to_node' = Append(to_node, Command(op, IF op = "prompt" THEN sent + 1 ELSE arg))
    /\ sent' = sent + 1
    /\ UNCHANGED <<row, request, late, to_hub, epoch, online, node>>

StartsSent == started + Len(SelectSeq(to_node, LAMBDA cmd : cmd.op \in {"create", "resume"}))

(* create, resume and delete look at the row first. *)
load_owned_session(u, op, arg) ==
    /\ request[u] = Done
    /\ CASE op = "create" -> row = "none" /\ \A v \in Caller : request[v].op # "create"
         [] op = "resume" -> row \in {"disconnected", "error"}
         [] op = "delete" -> row \notin {"none", "gone"}
    /\ request' = [request EXCEPT ![u] = [op |-> op, step |-> "send", arg |-> arg]]
    /\ UNCHANGED <<row, sent, late, wire, node>>

(* A delete has sent its kill, or is over. *)
Deleting == row = "gone" \/ \E u \in Caller : request[u].op = "delete" /\ request[u].step = "save"

(* Then they send; without a connection only a delete goes on. *)
send_to_machine(u) ==
    LET r == request[u]
        saving == [request EXCEPT ![u].step = "save"]
        over == [request EXCEPT ![u] = Done] IN
    /\ r.step = "send"
    /\ \/ /\ online /\ (r.op # "delete" => StartsSent < MaxStarts)
          /\ to_node' = Append(to_node, Command(r.op, r.arg)) /\ request' = saving
          /\ late' = (late \/ (r.op = "resume" /\ Deleting))
       \/ /\ ~online /\ UNCHANGED <<to_node, late>>
          /\ request' = IF r.op = "delete" THEN saving ELSE over
    /\ UNCHANGED <<row, sent, to_hub, epoch, online, node>>

(* The rows are written after the message is on its way. *)
insert_session(u) ==
    /\ request[u].step = "save" /\ request[u].op = "create"
    /\ row' = "starting" /\ request' = [request EXCEPT ![u] = Done]
    /\ UNCHANGED <<sent, late, wire, node>>

set_status(status) == row' = IF row \in {"none", "gone"} THEN row
                             ELSE status

resume_agent_session(u) ==
    /\ request[u].step = "save" /\ request[u].op = "resume"
    /\ set_status("starting") /\ request' = [request EXCEPT ![u] = Done]
    /\ UNCHANGED <<sent, late, wire, node>>

delete_session(u) ==
    /\ request[u].step = "save" /\ request[u].op = "delete"
    /\ row' = "gone" /\ request' = [request EXCEPT ![u] = Done]
    /\ UNCHANGED <<sent, late, wire, node>>

(* AgentSessionUpdate and AgentSessionExited; a session without a row is   *)
(* ignored.                                                                *)
handle_machine_message ==
    /\ to_hub # <<>> /\ to_hub' = Tail(to_hub) /\ set_status(Head(to_hub))
    /\ UNCHANGED <<request, sent, late, to_node, epoch, online, node>>

-----------------------------------------------------------------------------
(* The session actor.  A turn of it is a record of the actor and what it   *)
(* sends.                                                                  *)

Dead(a) == [a EXCEPT !.alive = FALSE, !.turns = 0, !.switching = 0, !.asks = 0]
Turn(a) == [a |-> a, out |-> <<>>]
send_status(t, status) == [t EXCEPT !.out = Append(@, status)]

handle_prompt(t, n) ==
    send_status([t EXCEPT !.a.turns = @ + 1, !.a.ran = Append(@, n)], "working")

handle_set_model(t) ==
    IF t.a.models THEN [t EXCEPT !.a.switching = @ + 1] ELSE t

handle_answer(t, question) ==
    IF t.a.question # 0 /\ t.a.question = question
    THEN send_status([t EXCEPT !.a.question = 0], "working") ELSE t

execute_command(t, cmd) ==
    CASE cmd.op = "prompt" -> handle_prompt(t, cmd.arg)
      [] cmd.op = "answer" -> handle_answer(t, cmd.arg)
      [] cmd.op = "model" -> handle_set_model(t)

(* Mutant of flush_queued_commands: the newest command first. *)
FlushNewestFirst(t) ==
    FoldLeft(execute_command, [t EXCEPT !.a.queue = <<>>], Reverse(t.a.queue))

flush_queued_commands(t) ==
    FoldLeft(execute_command, [t EXCEPT !.a.queue = <<>>], t.a.queue)

apply_requested_model_then_flush(t) ==
    IF ~t.a.model THEN flush_queued_commands(t)
    ELSE LET applied == handle_set_model([t EXCEPT !.a.model = FALSE]) IN
         IF t.a.models THEN [applied EXCEPT !.a.flush = TRUE] ELSE flush_queued_commands(applied)

fail(t) ==
    IF t.a.phase = "failed" THEN t
    ELSE send_status([t EXCEPT !.a = Dead([@ EXCEPT !.phase = "failed", !.queue = <<>>])],
                     "error")

(* The turn of actor g becomes its state; an actor of an earlier           *)
(* connection talks to nobody.                                             *)
Take(g, t) ==
    /\ actor' = [actor EXCEPT ![g] = t.a]
    /\ to_hub' = IF online /\ t.a.epoch = epoch THEN to_hub \o t.out ELSE to_hub
    /\ UNCHANGED <<hub, to_node, epoch, online, started, handle>>

kill_child(t) == [t EXCEPT !.a = Dead([@ EXCEPT !.question = 0])]

(* Kill at once; otherwise run, refuse or queue. *)
handle_command(g) ==
    LET a == actor[g]
        t == Turn([a EXCEPT !.inbox = Tail(@)])
        cmd == Head(a.inbox) IN
    /\ UNCHANGED faults
    /\ a.phase \notin {"none", "ended"} /\ a.inbox # <<>>
    /\ Take(g, CASE cmd.op = "kill" -> kill_child([t EXCEPT !.a.queue = <<>>])
                 [] cmd.op # "kill" /\ a.phase = "ready" -> execute_command(t, cmd)
                 [] cmd.op # "kill" /\ a.phase # "ready"
                      /\ (a.phase = "failed" \/ Len(a.queue) >= MaxQueued) -> t
                 [] OTHER -> [t EXCEPT !.a.queue = Append(@, cmd)])

(* An answer of the agent to the handshake.  Only a row that knows the     *)
(* agent's own session id is resumed by loading it; a session that cannot  *)
(* be loaded starts afresh.                                                *)
HandshakeAnswer(g, ok) ==
    LET t == Turn(actor[g])
        To(phase) == [t EXCEPT !.a.phase = phase]
        Ready(models) == apply_requested_model_then_flush(
                             send_status([To("ready") EXCEPT !.a.models = models], "idle")) IN
    /\ actor[g].alive /\ Unless(ok)
    /\ \/ /\ actor[g].phase = "init" /\ ok
          /\ \E known \in {FALSE, actor[g].resume} : Take(g, To(IF known THEN "load" ELSE "new"))
       \/ /\ actor[g].phase \in {"load", "new"} /\ ok
          /\ \E models \in BOOLEAN : Take(g, Ready(models))
       \/ actor[g].phase = "load" /\ ~ok /\ Take(g, To("new"))
       \/ actor[g].phase \in {"init", "new"} /\ ~ok /\ Take(g, fail(t))

on_handshake_timeout(g) ==
    actor[g].phase \in {"init", "load", "new"} /\ Fault /\ Take(g, fail(Turn(actor[g])))

(* Mutant of PromptAnswer: the end of a turn forgets a parked question. *)
TurnDropsQuestion(g, ok) ==
    LET t == Turn([actor[g] EXCEPT !.turns = @ - 1, !.question = 0]) IN
    /\ Unless(ok)
    /\ actor[g].alive /\ actor[g].turns > 0
    /\ Take(g, send_status(t, IF ok /\ actor[g].question # 0 THEN "asked" ELSE "idle"))

PromptAnswer(g, ok) ==
    LET t == Turn([actor[g] EXCEPT !.turns = @ - 1]) IN
    /\ Unless(ok)
    /\ actor[g].alive /\ actor[g].turns > 0
    /\ Take(g, send_status(t, IF ok /\ actor[g].question # 0 THEN "asked" ELSE "idle"))

SetModelAnswer(g, ok) ==
    LET t == Turn([actor[g] EXCEPT !.switching = @ - 1, !.flush = FALSE]) IN
    /\ Unless(ok)
    /\ actor[g].alive /\ actor[g].switching > 0
    /\ Take(g, IF actor[g].flush THEN flush_queued_commands(t) ELSE t)

(* A permission request, which replaces one that is still parked; with     *)
(* auto_run it is answered at once and nothing changes.                    *)
handle_permission_request(g) ==
    LET n == actor[g].asks + 1 IN
    /\ UNCHANGED faults
    /\ actor[g].alive /\ actor[g].turns > 0 /\ n <= MaxAsks
    /\ Take(g, send_status(Turn([actor[g] EXCEPT !.asks = n, !.question = n]), "asked"))

AgentExits(g) == actor[g].alive /\ Fault /\ Take(g, Turn(Dead(actor[g])))

on_eof(g) ==
    LET t == Turn([NoActor EXCEPT !.phase = "ended", !.epoch = actor[g].epoch]) IN
    /\ UNCHANGED faults
    /\ actor[g].phase \notin {"none", "ended"} /\ ~actor[g].alive
    /\ Take(g, send_status(t, "disconnected"))

-----------------------------------------------------------------------------
(* AcpManager and the connection. *)

Tell(a, cmd) == [a EXCEPT !.inbox = Append(@, cmd)]
KillHandle == IF handle = 0 THEN actor ELSE [actor EXCEPT ![handle] = Tell(@, Command("kill", 0))]

(* Mutant of start_session: the old process is not told to go. *)
StartBeside(g, cmd, spawned) ==
    /\ started' = g /\ handle' = (IF spawned THEN g ELSE 0)
    /\ actor' = [actor EXCEPT ![g] =
         [NoActor EXCEPT !.phase = IF spawned THEN "init" ELSE "ended", !.alive = spawned,
                         !.epoch = epoch, !.resume = (cmd.op = "resume"), !.model = (cmd.arg = 1),
                         !.wanted = (cmd.arg = 1)]]
    /\ UNCHANGED <<to_hub, faults>>

(* Kill the process there is, then spawn; a failure is reported at once. *)
start_session(g, cmd, spawned) ==
    /\ Unless(spawned)
    /\ started' = g /\ handle' = (IF spawned THEN g ELSE 0)
    /\ actor' = [KillHandle EXCEPT ![g] =
         [NoActor EXCEPT !.phase = IF spawned THEN "init" ELSE "ended", !.alive = spawned,
                         !.epoch = epoch, !.resume = (cmd.op = "resume"), !.model = (cmd.arg = 1),
                         !.wanted = (cmd.arg = 1)]]
    /\ to_hub' = IF spawned THEN to_hub
                 ELSE to_hub \o <<"error", "disconnected">>

(* A command goes to the actor in the map unless it has ended. *)
send_command(cmd) ==
    /\ actor' = IF handle # 0 /\ actor[handle].phase # "ended"
                THEN [actor EXCEPT ![handle] = Tell(@, cmd)] ELSE actor
    /\ UNCHANGED <<faults, started, handle, to_hub>>

(* A message of the hub. *)
handle_hub_message ==
    /\ to_node # <<>> /\ to_node' = Tail(to_node)
    /\ LET cmd == Head(to_node) IN
       \/ /\ cmd.op \in {"create", "resume"} /\ started < MaxStarts
          /\ \E spawned \in BOOLEAN : start_session(started + 1, cmd, spawned)
       \/ /\ cmd.op = "delete" /\ actor' = KillHandle /\ handle' = 0
          /\ UNCHANGED <<faults, started, to_hub>>
       \/ cmd.op \in {"prompt", "answer", "model"} /\ send_command(cmd)
    /\ UNCHANGED <<hub, epoch, online>>

(* kill_all: nothing an actor does from now on is heard, so only its       *)
(* process and the kill matter.                                            *)
Muted(a) == IF a.phase \in {"none", "ended"} THEN a
            ELSE [NoActor EXCEPT !.phase = "ready", !.alive = a.alive, !.epoch = a.epoch,
                                 !.inbox = <<Command("kill", 0)>>]

(* The connection drops: what is on the wire is gone, the node kills every *)
(* agent, and the hub marks live sessions disconnected.                    *)
unregister_machine ==
    /\ online /\ Fault /\ online' = FALSE /\ epoch' = epoch + 1
    /\ to_node' = <<>> /\ to_hub' = <<>> /\ handle' = 0
    /\ actor' = [g \in DOMAIN actor |->
                    IF g = handle \/ actor[g].inbox # <<>> THEN Muted(actor[g]) ELSE actor[g]]
    /\ row' = IF row \in Live THEN "disconnected" ELSE row
    /\ UNCHANGED <<request, sent, late, started>>

Reconnect ==
    /\ ~online /\ online' = TRUE /\ UNCHANGED <<hub, node, to_node, to_hub, epoch>>

Next ==
    \/ prompt_agent_session("prompt", 0) \/ prompt_agent_session("model", 0)
    \/ \E question \in 1..MaxAsks : prompt_agent_session("answer", question)
    \/ \E u \in Caller :
         \/ \E model \in 0..1 : load_owned_session(u, "create", model)
         \/ StartsSent < MaxStarts /\ load_owned_session(u, "resume", 0)
         \/ load_owned_session(u, "delete", 0)
         \/ send_to_machine(u) \/ insert_session(u) \/ resume_agent_session(u) \/ delete_session(u)
    \/ handle_machine_message \/ handle_hub_message \/ unregister_machine \/ Reconnect
    \/ \E g \in 1..started :
         \/ handle_command(g) \/ on_handshake_timeout(g) \/ handle_permission_request(g)
         \/ AgentExits(g) \/ on_eof(g)
         \/ \E ok \in BOOLEAN :
              HandshakeAnswer(g, ok) \/ PromptAnswer(g, ok) \/ SetModelAnswer(g, ok)

Spec == Init /\ [][Next]_vars

-----------------------------------------------------------------------------
(* Nothing is on its way and every actor has done what it was told. *)
Quiet ==
    /\ to_node = <<>> /\ to_hub = <<>> /\ \A u \in Caller : request[u] = Done
    /\ \A g \in 1..started : /\ actor[g].phase # "ended" => actor[g].inbox = <<>>
                             /\ ~actor[g].alive => actor[g].phase = "ended"

(* A session that asks can be answered: whatever was answered, killed,     *)
(* resumed or cut off on the way, the actor in the map holds a question.   *)
AskedMeansPending ==
    (Quiet /\ row = "asked") => handle # 0 /\ actor[handle].question # 0

(* A session has at most the process in the map, and none once it was      *)
(* deleted, unless a resume that had read the row sends its start after    *)
(* the kill (routes/agent_sessions.rs:385).                              *)
NoStrayProcess ==
    Quiet => \A g \in 1..started : actor[g].alive => g = handle /\ (row = "gone" => late)

(* Prompts run in the order they were sent, whether the handshake was over *)
(* or not, unless a model was asked for with the session (acp.rs:654).     *)
PromptsInOrder ==
    \A g \in 1..started : actor[g].wanted \/
        \A i, j \in DOMAIN actor[g].ran : i < j => actor[g].ran[i] < actor[g].ran[j]

(* A session that has come to rest can be used: a question can be          *)
(* answered, no process runs beside it, and its prompts ran in order.      *)
SessionsAreSound ==
    AskedMeansPending /\ NoStrayProcess /\ PromptsInOrder
=============================================================================
