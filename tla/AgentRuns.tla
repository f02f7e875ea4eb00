------------------------------ MODULE AgentRuns ------------------------------
(***************************************************************************)
(* Runs of coding agents in one terminal, as the hub keeps them            *)
(* (crates/hub/src/machine_manager/agent_runs.rs, db/agent_runs.rs,        *)
(* routes/agent_runs.rs): the node reports which agent is in front, what   *)
(* its hooks say and whether the screen asks for a confirmation; people    *)
(* and tokens answer the open request or start an agent.                   *)
(*                                                                         *)
(* Messages of the node are handled one after the other, without an await  *)
(* between the statements of a handler, hence each in one step.  Answering *)
(* and starting run on other threads and take a step per database          *)
(* statement or message.  Runs and requests are numbered in the order of   *)
(* their rows.  Names, tasks, progress and history entries are left out:   *)
(* they decide nothing here, except the end of a handed-over turn.         *)
(***************************************************************************)
EXTENDS Naturals, SequencesExt

CONSTANTS
    Agents,    \* coding agents
    NoAgent,   \* a shell is in front
    Caller,    \* who answers: people, tokens, bridges
    Approver,  \* those whose access includes runs:approve
    MaxRows    \* bound: runs and requests of the terminal together

ASSUME CallersAssumption == Approver \subseteq Caller /\ NoAgent \notin Agents
ASSUME BoundAssumption == MaxRows \in Nat

VARIABLES
    db,        \* the rows: runs and their requests
    terminal,  \* absent, there or closed
    linked,    \* the machine is connected
    keys,      \* SendAgentKeys on their way: the requests they answer
    typed,     \* the requests whose answers were typed, in order
    ans,       \* caller -> its answer: how far, which request, declining
    start,     \* a POST /api/agent-runs under way: none, creating or looked
    started,   \* the run whose expire_start task sleeps, 0 for none
    grants     \* history: <<request, caller>> for every answer claimed

vars == <<db, terminal, linked, keys, typed, ans, start, started, grants>>
hub == <<ans, start, started, grants>>

Status == {"starting", "working", "waiting", "idle", "done", "error", "gone"}
ends_run(status) == status \in {"done", "error", "gone"}
Kind == {"approval", "question"}
AnswerStep == {"idle", "scoped", "checked", "marked", "sent"}
NoAnswer == [step |-> "idle", q |-> 0, no |-> FALSE]

TypeOK ==
    /\ db.runs \in Seq([status : Status, agent : Agents, finished : BOOLEAN, turn_ended : BOOLEAN])
    /\ db.reqs \in Seq([run : Nat, kind : Kind, open : BOOLEAN, sent : BOOLEAN])
    /\ terminal \in {"absent", "there", "closed"} /\ linked \in BOOLEAN
    /\ keys \in Seq(1..MaxRows) /\ typed \in Seq(1..MaxRows)
    /\ ans \in [Caller -> [step : AnswerStep, q : 0..MaxRows, no : BOOLEAN]]
    /\ start \in {"none", "creating", "looked"} /\ started \in 0..MaxRows
    /\ grants \in SUBSET ((1..MaxRows) \X Caller)

Init ==
    /\ db = [runs |-> <<>>, reqs |-> <<>>]
    /\ terminal = "absent" /\ linked = TRUE
    /\ keys = <<>> /\ typed = <<>> /\ ans = [c \in Caller |-> NoAnswer]
    /\ start = "none" /\ started = 0 /\ grants = {}

-----------------------------------------------------------------------------
(* db/agent_runs.rs *)

(* latest_for_terminal is the last row; 0 stands for none. *)
latest(s) == Len(s.runs)
Open(s, i) == i > 0 /\ ~ends_run(s.runs[i].status)
handed_over(s, i) == i > 0 /\ ~Open(s, i) /\ s.runs[i].finished

insert(s, agent, status) ==
    [s EXCEPT !.runs = Append(@, [status |-> status, agent |-> agent,
                                  finished |-> FALSE, turn_ended |-> FALSE])]

open_request(s, i) == {q \in DOMAIN s.reqs : s.reqs[q].run = i /\ s.reqs[q].open}

resolve_open_request(s, i) ==
    [s EXCEPT !.reqs = [q \in DOMAIN @ |->
        IF @[q].run = i THEN [@[q] EXCEPT !.open = FALSE] ELSE @[q]]]

(* Mutant of set_status: ending a run leaves its request open. *)
SetStatusOnly(s, i, status) == [s EXCEPT !.runs[i].status = status]

(* An ending status resolves the request; any other reopens the run. *)
set_status(s, i, status) ==
    LET t == [s EXCEPT !.runs[i].status = status]
    IN  IF ends_run(status) THEN resolve_open_request(t, i) ELSE t

(* A new request supersedes the open one. *)
insert_request(s, i, kind) ==
    [resolve_open_request(s, i) EXCEPT !.reqs =
        Append(@, [run |-> i, kind |-> kind, open |-> TRUE, sent |-> FALSE])]

set_report(s, i, finished) == [s EXCEPT !.runs[i].finished = finished]

end_open_for_machine(s) ==
    [runs |-> [i \in DOMAIN s.runs |->
                 IF Open(s, i) THEN [s.runs[i] EXCEPT !.status = "gone"] ELSE s.runs[i]],
     reqs |-> [q \in DOMAIN s.reqs |->
                 IF Open(s, s.reqs[q].run) THEN [s.reqs[q] EXCEPT !.open = FALSE] ELSE s.reqs[q]]]

Bounded(s) == Len(s.runs) + Len(s.reqs) <= MaxRows

-----------------------------------------------------------------------------
(* Messages of the node about the terminal. *)

(* (Re)starts a run: waiting with a request while the screen asks. *)
begin(s, i, asks) ==
    IF asks THEN set_status(insert_request(s, i, "approval"), i, "waiting")
                 ELSE set_status(s, i, "working")

(* What on_terminal_agent makes of the agent now in front; asks says that  *)
(* the screen last reported shows a confirmation.                          *)
AgentInFront(s, agent, asks) ==
    LET i == latest(s)
        same == i > 0 /\ s.runs[i].agent = agent
        fresh == insert(IF Open(s, i) THEN set_status(s, i, "done") ELSE s, agent, "working")
    IN  CASE same /\ s.runs[i].status = "starting" -> begin(s, i, asks)
          [] agent = NoAgent /\ i > 0 /\ s.runs[i].status = "starting" -> s
          [] same /\ Open(s, i) /\ s.runs[i].status # "starting" -> s
          [] same /\ handed_over(s, i) -> s
          [] same /\ s.runs[i].status = "gone" /\ ~handed_over(s, i) -> begin(s, i, asks)
          [] agent = NoAgent /\ Open(s, i) /\ s.runs[i].status # "starting" -> set_status(s, i, "done")
          [] agent = NoAgent /\ ~Open(s, i) -> s
          [] OTHER -> begin(fresh, i + 1, asks)

FromNode == linked /\ terminal = "there" /\ UNCHANGED <<terminal, linked, keys, typed, hub>>

on_terminal_agent(agent, asks) ==
    FromNode /\ db' = AgentInFront(db, agent, asks) /\ Bounded(db')

(* Whether a signal belongs to the turn that handed its work over. *)
after_handover(s, signal) ==
    /\ handed_over(s, latest(s))
    /\ \/ signal = "idle"
       \/ signal \in {"working", "progress"} /\ ~s.runs[latest(s)].turn_ended

NoteTurnEnded(s, signal) ==
    IF signal = "idle" THEN [s EXCEPT !.runs[latest(s)].turn_ended = TRUE] ELSE s

(* What a signal does to the open run: moving on answers its request. *)
Signalled(s, i, signal) ==
    CASE signal \in {"working", "idle"} -> set_status(resolve_open_request(s, i), i, signal)
      [] signal \in Kind -> set_status(insert_request(s, i, signal), i, "waiting")
      [] signal = "blocked" -> set_status(resolve_open_request(set_report(s, i, FALSE), i), i, "idle")
      [] signal = "finished" -> set_status(set_report(s, i, TRUE), i, "done")
      [] signal = "reported" -> set_report(s, i, FALSE)
      [] OTHER -> s

Signal == {"working", "idle", "approval", "question", "blocked", "finished", "reported",
           "progress", "other"}

(* A hook of the agent: a signal opens a run when none is open, unless it  *)
(* says nothing new.                                                       *)
on_agent_signal(agent, signal) ==
    LET i == latest(db) IN
    /\ FromNode
    /\ db' = CASE Open(db, i) -> Signalled(db, i, signal)
               [] ~Open(db, i) /\ signal \in {"other", "finished"} -> db
               [] ~Open(db, i) /\ after_handover(db, signal) -> NoteTurnEnded(db, signal)
               [] OTHER -> Signalled(insert(db, agent, "working"), i + 1, signal)
    /\ Bounded(db')

(* The screen starts or stops asking for a confirmation. *)
on_run_attention(asks) ==
    LET i == latest(db) IN
    /\ FromNode
    /\ db' = CASE Open(db, i) /\ asks /\ db.runs[i].status # "waiting" ->
                    set_status(insert_request(db, i, "approval"), i, "waiting")
               [] Open(db, i) /\ ~asks /\ db.runs[i].status = "waiting" ->
                    set_status(resolve_open_request(db, i), i, "working")
               [] OTHER -> db
    /\ Bounded(db')

(* The terminal closes. *)
end_terminal_runs ==
    /\ linked /\ terminal = "there" /\ terminal' = "closed"
    /\ db' = IF Open(db, latest(db)) THEN set_status(db, latest(db), "gone") ELSE db
    /\ UNCHANGED <<linked, keys, typed, hub>>

(* unregister_machine: every open run is gone until the machine is back;   *)
(* answers the node has not received are lost.                             *)
end_machine_runs ==
    /\ linked /\ linked' = FALSE /\ keys' \in {keys, <<>>}
    /\ db' = end_open_for_machine(db)
    /\ UNCHANGED <<terminal, typed, hub>>

Reconnect ==
    /\ ~linked /\ linked' = TRUE
    /\ UNCHANGED <<db, terminal, keys, typed, hub>>

-----------------------------------------------------------------------------
(* Answering. *)

AnswerFrame == UNCHANGED <<terminal, linked, start, started>>
Move(c, step) ==
    ans' = [ans EXCEPT ![c] = IF step = "idle" THEN NoAnswer ELSE [@ EXCEPT !.step = step]]

(* The scope an answer needs is that of the request, if it is open now. *)
answer_as(c, q, no) ==
    /\ ans[c].step = "idle" /\ q \in DOMAIN db.reqs
    /\ (db.reqs[q].open /\ db.reqs[q].kind = "approval") => c \in Approver
    /\ ans' = [ans EXCEPT ![c] = [step |-> "scoped", q |-> q, no |-> no]]
    /\ AnswerFrame /\ UNCHANGED <<db, keys, typed, grants>>

(* Mutant of CheckAnswer: the run's open request is answered, whichever it *)
(* is.                                                                     *)
CheckAnyRequest(c) ==
    LET now == open_request(db, db.reqs[ans[c].q].run) IN
    /\ ans[c].step = "scoped"
    /\ \/ now = {} /\ Move(c, "idle")
       \/ \E q \in now : ans' = [ans EXCEPT ![c].step = "checked", ![c].q = q]
    /\ AnswerFrame /\ UNCHANGED <<db, keys, typed, grants>>

(* The run is open, the request is its open one, nobody answered it yet    *)
(* and the machine is there; whether the caller's device holds the control *)
(* lease is the environment's choice (see ControlLeases).                  *)
CheckAnswer(c) ==
    LET q == ans[c].q IN
    /\ ans[c].step = "scoped"
    /\ Move(c, IF Open(db, db.reqs[q].run) /\ db.reqs[q].open /\ ~db.reqs[q].sent /\ linked
               THEN "checked" ELSE "idle")
    /\ AnswerFrame /\ UNCHANGED <<db, keys, typed, grants>>

(* Mutant of mark_answer_sent: it does not ask whether it was the first. *)
MarkAlways(c) ==
    /\ ans[c].step = "checked" /\ Move(c, "marked")
    /\ db' = [db EXCEPT !.reqs[ans[c].q].sent = TRUE]
    /\ grants' = grants \cup {<<ans[c].q, c>>}
    /\ AnswerFrame /\ UNCHANGED <<keys, typed>>

(* One conditional UPDATE: the first answer to an open request wins. *)
mark_answer_sent(c) ==
    LET q == ans[c].q IN
    /\ ans[c].step = "checked"
    /\ \/ /\ db.reqs[q].open /\ ~db.reqs[q].sent /\ Move(c, "marked")
          /\ db' = [db EXCEPT !.reqs[q].sent = TRUE] /\ grants' = grants \cup {<<q, c>>}
       \/ /\ ~(db.reqs[q].open /\ ~db.reqs[q].sent) /\ Move(c, "idle")
          /\ UNCHANGED <<db, grants>>
    /\ AnswerFrame /\ UNCHANGED <<keys, typed>>

(* An answer that could not be sent is given back. *)
SendAnswer(c) ==
    LET q == ans[c].q IN
    /\ ans[c].step = "marked"
    /\ \/ linked /\ keys' = Append(keys, q) /\ Move(c, "sent") /\ UNCHANGED db
       \/ ~linked /\ db' = [db EXCEPT !.reqs[q].sent = FALSE] /\ Move(c, "idle") /\ UNCHANGED keys
    /\ AnswerFrame /\ UNCHANGED <<typed, grants>>

(* Declining an approval ends the request open now and leaves the run idle,*)
(* whatever happened to it since the answer was checked.                   *)
answer_agent_run(c) ==
    LET q == ans[c].q
        i == db.reqs[q].run IN
    /\ ans[c].step = "sent" /\ ans' = [ans EXCEPT ![c] = NoAnswer]
    /\ db' = IF ans[c].no /\ db.reqs[q].kind = "approval"
             THEN set_status(resolve_open_request(db, i), i, "idle") ELSE db
    /\ AnswerFrame /\ UNCHANGED <<keys, typed, grants>>

(* SendAgentKeys on the node: blocking tasks type the answers in any order,*)
(* each if its terminal is still there.                                    *)
SendAgentKeys(k) ==
    /\ keys' = RemoveAt(keys, k)
    /\ typed' = IF terminal = "there" THEN Append(typed, keys[k]) ELSE typed
    /\ UNCHANGED <<db, terminal, linked, hub>>

-----------------------------------------------------------------------------
(* Starting an agent in a new terminal. *)

StartFrame == UNCHANGED <<linked, keys, typed, ans, grants>>

OpenTerminal ==
    /\ linked /\ terminal = "absent" /\ terminal' = "there"
    /\ UNCHANGED <<db, keys, typed, linked, hub>>

(* start_agent_run: the node made the terminal, its agent may be at work. *)
start_as ==
    /\ linked /\ terminal = "absent" /\ terminal' = "there" /\ start' = "creating"
    /\ StartFrame /\ UNCHANGED <<db, started>>

(* A run the agent's hooks opened before this is the one. *)
LookForRun ==
    /\ start = "creating"
    /\ start' = IF Open(db, latest(db)) THEN "none" ELSE "looked"
    /\ StartFrame /\ UNCHANGED <<db, terminal, started>>

insert_started(agent) ==
    /\ start = "looked" /\ start' = "none"
    /\ db' = insert(db, agent, "starting") /\ started' = latest(db) + 1
    /\ Bounded(db') /\ StartFrame /\ UNCHANGED terminal

(* The agent did not show up in time. *)
expire_start ==
    /\ started > 0 /\ started' = 0
    /\ db' = IF db.runs[started].status = "starting" THEN set_status(db, started, "error") ELSE db
    /\ StartFrame /\ UNCHANGED <<terminal, start>>

(* The hub stops: what its tasks were about to do is never done. *)
HubRestart ==
    /\ linked' = FALSE /\ keys' \in {keys, <<>>} /\ ans' = [c \in Caller |-> NoAnswer]
    /\ started' = 0 /\ start' = "none"
    /\ UNCHANGED <<db, terminal, typed, grants>>

Next ==
    \/ \E agent \in Agents \cup {NoAgent}, asks \in BOOLEAN : on_terminal_agent(agent, asks)
    \/ \E agent \in Agents, signal \in Signal : on_agent_signal(agent, signal)
    \/ \E asks \in BOOLEAN : on_run_attention(asks)
    \/ end_terminal_runs \/ end_machine_runs \/ Reconnect \/ HubRestart
    \/ \E c \in Caller :
         \/ \E q \in 1..MaxRows, no \in BOOLEAN : answer_as(c, q, no)
         \/ CheckAnswer(c) \/ mark_answer_sent(c) \/ SendAnswer(c) \/ answer_agent_run(c)
    \/ \E k \in DOMAIN keys : SendAgentKeys(k)
    \/ OpenTerminal \/ start_as \/ LookForRun
    \/ \E agent \in Agents : insert_started(agent)
    \/ expire_start

Spec == Init /\ [][Next]_vars

-----------------------------------------------------------------------------
OpenNow == {q \in DOMAIN db.reqs : db.reqs[q].open}
SentNow == {q \in DOMAIN db.reqs : db.reqs[q].sent}

Promise == INSTANCE AnswerOnce WITH
    Question <- 1..MaxRows, asked <- DOMAIN db.reqs, open <- OpenNow,
    claimed <- SentNow, typed <- typed

(* The hub implements AnswerOnce: whatever callers, the agent, lost        *)
(* connections and a restart of the hub do, no request gets two answers    *)
(* typed, and none is answered before it is claimed or after it is over.   *)
AnswersOnce == Promise!Spec

(* People see a run waiting exactly while it has one request they can      *)
(* answer, and an ended run has none (db/agent_runs.rs:207).               *)
RequestsMatchStatus ==
    \A i \in DOMAIN db.runs :
        \/ db.runs[i].status = "waiting" /\ \E q \in DOMAIN db.reqs : open_request(db, i) = {q}
        \/ db.runs[i].status # "waiting" /\ open_request(db, i) = {}

(* An approval is answered only with runs:approve, although the kind of    *)
(* the request is read before the answer is checked and claimed            *)
(* (routes/agent_runs.rs:237).                                             *)
ApprovalsAreScoped ==
    \A g \in grants : db.reqs[g[1]].kind = "approval" => g[2] \in Approver

(* What people see of a run and what they may do to it agree: the status   *)
(* tells whether a request is open, and approvals are answered by          *)
(* approvers.                                                              *)
RunsAreSound ==
    RequestsMatchStatus /\ ApprovalsAreScoped
=============================================================================
