---------------------------- MODULE NodeSessions ----------------------------
(***************************************************************************)
(* The terminals of one node (crates/machine/src/pty.rs, revive.rs,        *)
(* agent_start.rs, codex_title.rs): tmux sessions with a shell or a coding *)
(* agent in front, PtyManager's memory of them, and sessions.json, from    *)
(* which a node that starts again adopts what tmux still has and recreates *)
(* what died with a reboot.                                                *)
(*                                                                         *)
(* Two threads of the node save the file, the one that handles the hub's   *)
(* messages ("main") and the metadata poll ("poll"), both through the same *)
(* temporary file.  A save copies the maps under their locks; opening      *)
(* (which truncates), writing and renaming the temporary file are steps of *)
(* their own.  The working directory of a pane is merged and saved the way *)
(* its resume command is, and titles, sizes and activity are reported the  *)
(* way its agent is: one of each stands for all.                           *)
(***************************************************************************)
EXTENDS Naturals, FiniteSets

CONSTANTS
    Terminals,  \* terminal ids
    Agents,     \* coding agents (claude, codex) with their conversation
    NoAgent,
    RestoreOnReboot, ResumeAgents,  \* settings of machine.json
    MaxBoots,   \* bound: boots of the machine
    MaxStarts,  \* bound: starts of the node
    MaxChanges  \* bound: what people do: create, destroy, start and end programs

ASSUME NodeAssumption ==
    /\ "none" \notin Agents /\ "shell" \notin Agents
    /\ RestoreOnReboot \in BOOLEAN /\ ResumeAgents \in BOOLEAN
    /\ MaxBoots \in Nat \ {0} /\ MaxStarts \in Nat /\ MaxChanges \in Nat

VARIABLES
    boot,      \* boot id
    starts,    \* starts of the node so far
    node,      \* down, recovering or up
    pinned,    \* TMUX_NAMING: the tmux socket of this process
    pane,      \* terminal -> what its tmux pane runs, "none" without a session
    sock,      \* terminal -> the tmux server its session lives in
    used,      \* ids given out: a new terminal gets a fresh uuid
    sessions,  \* PtyManager.sessions: the terminals it knows
    resume,    \* PtyManager.resume_commands
    file,      \* sessions.json
    tmp,       \* sessions.json.tmp
    saver,     \* thread -> its save under way
    main,      \* what the main thread is in the middle of
    todo,      \* recover_sessions: the entries not looked at yet
    seen,      \* recover_sessions: the sessions tmux had at its start
    plan,      \* terminals whose resume command is still to be typed
    startups,  \* <<terminal, agent>>: startup commands still to be typed
    poll,      \* the metadata poll: its step and what it saw
    lastSent,  \* last_sent_agent of the connection: what the hub was told
    changes,   \* changes made so far
    typed,     \* history: terminal -> resume commands typed in this boot
    closed     \* history: terminals that ended while the node was up

disk == <<file, tmp, saver>>
memory == <<sessions, resume>>
tmux == <<pane, sock, used>>
process == <<node, pinned, starts>>
recovery == <<todo, seen, plan>>
history == <<typed, closed>>
OneMoreChange == changes < MaxChanges /\ changes' = changes + 1
nodeVars == <<boot, process, tmux, memory, disk, main, recovery, startups, poll, lastSent,
              changes, history>>

Sockets == {"current", "legacy"}
Threads == {"main", "poll"}
NoMap == [t \in {} |-> 0]
Whole(map) == [kind |-> "whole", map |-> map]
Torn == [kind |-> "torn", map |-> NoMap]
Missing == [kind |-> "missing", map |-> NoMap]
NotSaving == [step |-> "idle", map |-> NoMap, on |-> "tmp"]
NoTask == [at |-> "idle", t |-> NoAgent, agent |-> NoAgent]
NoPoll == [step |-> "idle", saw |-> NoMap, heard |-> TRUE]
NoAgents == [t \in Terminals |-> NoAgent]
Without(map, t) == [x \in DOMAIN map \ {t} |-> map[x]]

(* Sessions of a node from before the rename may still run. *)
NodeInit ==
    \E old \in SUBSET Terminals :
        /\ boot = 1 /\ starts = 0 /\ node = "down"
        /\ pinned = "current"
        /\ pane = [t \in Terminals |-> IF t \in old THEN "shell" ELSE "none"]
        /\ sock = [t \in Terminals |-> "legacy"] /\ used = old
        /\ sessions = {} /\ resume = NoAgents
        /\ file = Whole([t \in old |-> [boot |-> 1, resume |-> NoAgent]])
        /\ tmp = Missing /\ saver = [w \in Threads |-> NotSaving] /\ main = NoTask
        /\ todo = NoMap /\ seen = {} /\ plan = {} /\ startups = {}
        /\ poll = NoPoll /\ lastSent = NoAgents /\ changes = 0
        /\ typed = [t \in Terminals |-> 0] /\ closed = {}

Alive(socket) == {t \in Terminals : pane[t] # "none" /\ sock[t] = socket}

-----------------------------------------------------------------------------
(* Saving *)

(* The map a save writes: the sessions, stamped with the boot id. *)
persist(ids, commands) ==
    [t \in ids |-> [boot |-> boot, resume |-> commands[t]]]

Copy(w, ids, commands) ==
    saver' = [saver EXCEPT ![w] = [NotSaving EXCEPT !.step = "copied",
                                                    !.map = persist(ids, commands)]]

(* Opening truncates the temporary file, whoever else has it open. *)
OpenTmp(w) ==
    /\ saver[w].step = "copied"
    /\ saver' = [saver EXCEPT ![w].step = "opened"] /\ tmp' = Torn
    /\ UNCHANGED <<file, boot, process, tmux, memory, main, recovery, startups, poll,
                   lastSent, changes, history>>

(* Writing over what the other thread wrote to the same file leaves the    *)
(* end of the longer text: JSON no more.                                   *)
Written(over, map) ==
    IF over.kind = "whole" /\ over.map # map THEN {Whole(map), Torn} ELSE {Whole(map)}

Fill(w) ==
    /\ saver[w].step = "opened" /\ saver' = [saver EXCEPT ![w].step = "filled"]
    /\ \/ saver[w].on = "tmp" /\ tmp' \in Written(tmp, saver[w].map) /\ UNCHANGED file
       \/ saver[w].on = "file" /\ file' \in Written(file, saver[w].map) /\ UNCHANGED tmp
       \/ saver[w].on = "gone" /\ UNCHANGED <<file, tmp>>
    /\ UNCHANGED <<boot, process, tmux, memory, main, recovery, startups, poll, lastSent, changes, history>>

(* A rename moves the file the other thread may be writing to; without a   *)
(* temporary file it fails.                                                *)
Rename(w) ==
    /\ saver[w].step = "filled"
    /\ IF tmp = Missing
       THEN UNCHANGED <<file, tmp>> /\ saver' = [saver EXCEPT ![w] = NotSaving]
       ELSE /\ file' = tmp /\ tmp' = Missing
            /\ saver' = [v \in Threads |->
                  IF v = w THEN NotSaving
                  ELSE IF saver[v].step \in {"opened", "filled"}
                  THEN [saver[v] EXCEPT !.on = IF saver[v].on = "tmp" THEN "file" ELSE "gone"]
                  ELSE saver[v]]
    /\ UNCHANGED <<boot, process, tmux, memory, main, recovery, startups, poll, lastSent, changes, history>>

Save(w) == OpenTmp(w) \/ Fill(w) \/ Rename(w)

-----------------------------------------------------------------------------
(* Starting *)

(* Mutant: the new socket is used whatever still runs on the old one. *)
AlwaysCurrent == "current"

(* The old socket is used while it alone has sessions. *)
resolve_tmux_naming ==
    IF Alive("current") # {} THEN "current"
    ELSE IF Alive("legacy") # {} THEN "legacy" ELSE "current"

load_sessions_file == file.map

Start ==
    /\ node = "down" /\ starts < MaxStarts /\ starts' = starts + 1
    /\ pinned' = resolve_tmux_naming
    /\ node' = IF DOMAIN load_sessions_file = {} THEN "up" ELSE "recovering"
    /\ todo' = load_sessions_file /\ seen' = Alive(pinned') /\ plan' = {}
    /\ UNCHANGED <<boot, tmux, memory, disk, main, startups, poll, lastSent, changes, history>>

(* Mutant: any session that is gone is revived, in this boot or another. *)
ReviveAnyDead(alive, entry, current, restore) ==
    IF alive THEN "recover" ELSE IF restore THEN "revive" ELSE "drop"

(* Pure decision for one persisted entry. *)
decide_recover(alive, entry, current, restore) ==
    IF alive THEN "recover" ELSE IF entry # current /\ restore THEN "revive" ELSE "drop"

Decide(t) == decide_recover(t \in seen, todo[t].boot, boot, RestoreOnReboot)
Idle == main = NoTask /\ saver["main"].step = "idle"

RecoverEntry(t) ==
    /\ node = "recovering" /\ Idle /\ t \in DOMAIN todo /\ Decide(t) = "recover"
    /\ sessions' = sessions \cup {t} /\ resume' = [resume EXCEPT ![t] = todo[t].resume]
    /\ todo' = Without(todo, t)
    /\ UNCHANGED <<boot, process, tmux, disk, main, seen, plan, startups, poll, lastSent, changes, history>>

(* Also an entry whose session could not be created again. *)
DropEntry(t) ==
    /\ node = "recovering" /\ Idle /\ t \in DOMAIN todo /\ Decide(t) \in {"drop", "revive"}
    /\ todo' = Without(todo, t)
    /\ UNCHANGED <<boot, process, tmux, memory, disk, main, seen, plan, startups, poll,
                   lastSent, changes, history>>

(* tmux new-session for t, on the socket of this process. *)
NewSession(t, agent) ==
    /\ pane[t] = "none"
    /\ pane' = [pane EXCEPT ![t] = "shell"] /\ sock' = [sock EXCEPT ![t] = pinned]
    /\ used' = used \cup {t} /\ main' = [at |-> "made", t |-> t, agent |-> agent]

ReviveEntry(t) ==
    /\ node = "recovering" /\ Idle /\ t \in DOMAIN todo /\ Decide(t) = "revive"
    /\ NewSession(t, todo[t].resume) /\ todo' = Without(todo, t)
    /\ UNCHANGED <<boot, process, memory, disk, seen, plan, startups, poll, lastSent, changes, history>>

(* The rewrite that drops dead sessions; the resume thread starts after it. *)
Rewrite ==
    /\ node = "recovering" /\ Idle /\ DOMAIN todo = {}
    /\ Copy("main", sessions, resume) /\ main' = [NoTask EXCEPT !.at = "last"]
    /\ UNCHANGED <<file, tmp, boot, process, tmux, memory, recovery, startups, poll, lastSent,
                   changes, history>>

RecoveryEnds ==
    /\ main.at = "last" /\ saver["main"].step = "idle"
    /\ node' = "up" /\ main' = NoTask
    /\ UNCHANGED <<boot, pinned, starts, tmux, memory, disk, recovery, startups, poll,
                   lastSent, changes, history>>

(* send_keys_line: what is typed reaches whatever runs in the pane.        *)
Typed(t, agent) ==
    pane' = IF pane[t] = "shell" THEN [pane EXCEPT ![t] = agent] ELSE pane

(* A command with a token no shell quotes is not typed. *)
TypeResume(t) ==
    /\ node = "up" /\ t \in plan /\ plan' = plan \ {t}
    /\ \/ Typed(t, resume[t]) /\ resume[t] # NoAgent /\ typed' = [typed EXCEPT ![t] = @ + 1]
       \/ UNCHANGED <<pane, typed>>
    /\ UNCHANGED <<boot, process, sock, used, memory, disk, main, todo, seen, startups, poll,
                   lastSent, changes, closed>>

-----------------------------------------------------------------------------
(* Creating and destroying, as the hub asks *)

(* create_terminal up to new-session, for a plain shell or an agent to start. *)
CreateTerminal(t, agent) ==
    /\ node = "up" /\ Idle /\ t \notin used /\ NewSession(t, agent)
    /\ OneMoreChange /\ UNCHANGED <<boot, process, memory, disk, recovery, startups, poll, lastSent, history>>

Insert ==
    /\ main.at = "made" /\ sessions' = sessions \cup {main.t}
    /\ Copy("main", sessions', resume) /\ main' = [main EXCEPT !.at = "saving"]
    /\ UNCHANGED <<file, tmp, boot, process, tmux, resume, recovery, startups, poll, lastSent,
                   changes, history>>

(* After the save: a revived terminal gets its resume command back, a new  *)
(* one is announced and its startup command typed half a second later.     *)
Saved ==
    /\ main.at = "saving" /\ saver["main"].step = "idle" /\ main' = NoTask
    /\ \/ /\ node = "recovering" /\ resume' = [resume EXCEPT ![main.t] = main.agent]
          /\ plan' = IF ResumeAgents /\ main.agent # NoAgent THEN plan \cup {main.t} ELSE plan
          /\ UNCHANGED startups
       \/ /\ node = "up" /\ UNCHANGED <<resume, plan>>
          /\ startups' = IF main.agent = NoAgent THEN startups
                         ELSE startups \cup {<<main.t, main.agent>>}
    /\ UNCHANGED <<boot, process, tmux, sessions, disk, todo, seen, poll, lastSent, changes, history>>

TypeStartup(s) ==
    /\ node = "up" /\ s \in startups /\ startups' = startups \ {s} /\ Typed(s[1], s[2])
    /\ UNCHANGED <<boot, process, sock, used, memory, disk, main, recovery, poll, lastSent, changes, history>>

DestroyTerminal(t) ==
    /\ node = "up" /\ Idle /\ t \in sessions /\ sessions' = sessions \ {t}
    /\ main' = [at |-> "removed", t |-> t, agent |-> NoAgent]
    /\ OneMoreChange /\ UNCHANGED <<boot, process, tmux, resume, disk, recovery, startups, poll, lastSent, history>>

KillSession ==
    /\ main.at = "removed" /\ pane' = [pane EXCEPT ![main.t] = "none"]
    /\ resume' = [resume EXCEPT ![main.t] = NoAgent] /\ closed' = closed \cup {main.t}
    /\ Copy("main", sessions, resume') /\ main' = [main EXCEPT !.at = "saving"]
    /\ UNCHANGED <<file, tmp, boot, process, sock, used, sessions, recovery, startups, poll,
                   lastSent, changes, typed>>

-----------------------------------------------------------------------------
(* The metadata poll of a connection *)

(* A bare shell counts as no command in the foreground. *)
parse_pane_info(t) == IF pane[t] \in Agents THEN pane[t] ELSE NoAgent

(* Three answers per pane: an agent, none, or not to be told this time     *)
(* (two candidates, unreadable files): then its resume command is kept.    *)
resume_commands(told) ==
    [t \in Alive(pinned) |-> [agent |-> parse_pane_info(t), told |-> t \in told]]

PollLook ==
    /\ node = "up" /\ poll.step = "idle"
    /\ \E told \in {Alive(pinned)} \cup {Alive(pinned) \ {t} : t \in Terminals} :
          poll' = [poll EXCEPT !.step = "looked", !.saw = resume_commands(told)]
    /\ UNCHANGED <<boot, process, tmux, memory, disk, main, recovery, startups, lastSent, changes, history>>

(* update_revive_snapshots: also for panes that are no terminal any more. *)
PollMerge ==
    /\ poll.step = "looked" /\ poll' = [poll EXCEPT !.step = "merged"]
    /\ resume' = [t \in Terminals |->
          IF t \in DOMAIN poll.saw /\ poll.saw[t].told THEN poll.saw[t].agent ELSE resume[t]]
    /\ IF resume' # resume THEN Copy("poll", sessions, resume') ELSE UNCHANGED saver
    /\ UNCHANGED <<file, tmp, boot, process, tmux, sessions, main, recovery, startups, lastSent,
                   changes, history>>

(* Mutant: an agent is reported once its resume command is known. *)
ReportResolved ==
    /\ poll.step = "merged" /\ saver["poll"].step = "idle" /\ poll' = NoPoll
    /\ lastSent' = IF ~poll.heard THEN lastSent ELSE
          [t \in Terminals |->
              IF t \in sessions /\ t \in DOMAIN poll.saw /\ poll.saw[t].told
              THEN poll.saw[t].agent ELSE lastSent[t]]
    /\ UNCHANGED <<boot, process, tmux, memory, disk, main, recovery, startups, changes, history>>

(* Only changes are sent, and entries of terminals that are gone dropped. *)
PollReport ==
    /\ poll.step = "merged" /\ saver["poll"].step = "idle" /\ poll' = NoPoll
    /\ lastSent' = IF ~poll.heard THEN lastSent ELSE
          [t \in Terminals |-> IF t \in sessions /\ t \in DOMAIN poll.saw THEN poll.saw[t].agent
                               ELSE NoAgent]
    /\ UNCHANGED <<boot, process, tmux, memory, disk, main, recovery, startups, changes, history>>

Poll == PollLook \/ PollMerge \/ PollReport

(* The connection breaks: the hub forgets, and the poll that runs on a     *)
(* blocking thread goes on but reports to nobody.                          *)
ConnectionBreaks ==
    /\ node = "up" /\ lastSent # NoAgents /\ lastSent' = NoAgents
    /\ poll' = [poll EXCEPT !.heard = (poll.step = "idle")]
    /\ OneMoreChange /\ UNCHANGED <<boot, process, tmux, memory, disk, main, recovery, startups, history>>

-----------------------------------------------------------------------------
(* What happens around the node *)

AgentRuns(t, a) ==
    /\ pane[t] = "shell" /\ pane' = [pane EXCEPT ![t] = a]
    /\ OneMoreChange /\ UNCHANGED <<boot, process, sock, used, memory, disk, main, recovery, startups, poll,
                   lastSent, history>>

AgentExits(t) ==
    /\ pane[t] \in Agents /\ pane' = [pane EXCEPT ![t] = "shell"]
    /\ OneMoreChange /\ UNCHANGED <<boot, process, sock, used, memory, disk, main, recovery, startups, poll,
                   lastSent, history>>

(* The shell ends, or its tmux session is killed by hand. *)
ShellExits(t) ==
    /\ pane[t] # "none" /\ pane' = [pane EXCEPT ![t] = "none"]
    /\ closed' = IF node = "up" THEN closed \cup {t} ELSE closed
    /\ OneMoreChange /\ UNCHANGED <<boot, process, sock, used, memory, disk, main, recovery, startups, poll,
                   lastSent, typed>>

NodeStops ==
    /\ node' = "down" /\ sessions' = {} /\ resume' = NoAgents
    /\ saver' = [w \in Threads |-> NotSaving] /\ main' = NoTask
    /\ todo' = NoMap /\ seen' = {} /\ plan' = {} /\ startups' = {}
    /\ poll' = NoPoll /\ lastSent' = NoAgents
    /\ UNCHANGED <<pinned, starts, file, tmp>>

NodeCrash ==
    /\ node # "down" /\ NodeStops
    /\ UNCHANGED <<boot, tmux, changes, history>>

Reboot ==
    /\ boot < MaxBoots /\ boot' = boot + 1 /\ NodeStops
    /\ pane' = [t \in Terminals |-> "none"] /\ typed' = [t \in Terminals |-> 0]
    /\ UNCHANGED <<sock, used, changes, closed>>

NodeNext ==
    \/ Start \/ Rewrite \/ RecoveryEnds \/ Insert \/ Saved \/ KillSession
    \/ Poll \/ ConnectionBreaks \/ NodeCrash \/ Reboot
    \/ \E w \in Threads : Save(w)
    \/ \E s \in startups : TypeStartup(s)
    \/ \E t \in Terminals :
          \/ RecoverEntry(t) \/ DropEntry(t) \/ ReviveEntry(t) \/ TypeResume(t)
          \/ DestroyTerminal(t) \/ AgentExits(t) \/ ShellExits(t)
          \/ \E a \in Agents : AgentRuns(t, a) \/ CreateTerminal(t, a)
          \/ CreateTerminal(t, NoAgent)

(* The poll is a task with a five second interval; its save is part of it. *)
NodeSpec == NodeInit /\ [][NodeNext]_nodeVars
            /\ WF_nodeVars(Poll) /\ WF_nodeVars(Save("poll"))

-----------------------------------------------------------------------------
(* Properties *)

NodeTypeOK ==
    /\ boot \in 1..MaxBoots /\ starts \in 0..MaxStarts /\ pinned \in Sockets
    /\ node \in {"down", "recovering", "up"}
    /\ pane \in [Terminals -> {"none", "shell"} \cup Agents]
    /\ sock \in [Terminals -> Sockets] /\ sessions \subseteq used /\ used \subseteq Terminals
    /\ resume \in [Terminals -> Agents \cup {NoAgent}]
    /\ file.kind \in {"whole", "torn"} /\ tmp.kind \in {"whole", "torn", "missing"}
    /\ DOMAIN file.map \subseteq used /\ plan \subseteq Terminals

(* A node that has started sees every session that runs: none is left on   *)
(* the socket it does not use, whatever was revived or created since       *)
(* (resolve_tmux_naming: "the only way to not lose them").                 *)
NoTerminalLeftBehind ==
    node # "down" => \A t \in Terminals : pane[t] # "none" => sock[t] = pinned

(* The resume command of a terminal is typed at most once in a boot,       *)
(* however often the node restarts, in the middle of recovering or later.  *)
ResumeOncePerBoot == \A t \in Terminals : typed[t] <= 1

(* An agent that stays in a known terminal's foreground is reported to the *)
(* hub, also after a connection that broke (the poll's change detection).  *)
AgentIsReported ==
    \A t \in Terminals : \A a \in Agents :
        (node = "up" /\ t \in sessions /\ pane[t] = a)
            ~> (lastSent[t] = a \/ pane[t] # a \/ t \notin sessions \/ node # "up")

(* A node that restarts finds what runs and types nothing twice.           *)
NodeIsSound ==
    NodeTypeOK /\ NoTerminalLeftBehind /\ ResumeOncePerBoot
=============================================================================
