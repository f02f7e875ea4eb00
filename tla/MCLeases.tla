------------------------------ MODULE MCLeases ------------------------------
(* What a device that is away, cut off or restarted keeps and loses:       *)
(* control leases, the calls and sockets of the secure channel, and the    *)
(* poll of a node. A behaviour is of one scene: the others stand still in  *)
(* their first state.                                                      *)
EXTENDS ControlLeases, SecureChannel, TLC

CONSTANTS
    r1, r2, s1, t1, t2, a1, NoAgent
VARIABLES
    scene, n_boot, n_starts, n_node, n_pinned, n_pane, n_sock, n_used, n_sessions,
    n_resume, n_file, n_tmp, n_saver, n_main, n_todo, n_seen, n_plan, n_startups,
    n_poll, n_lastSent, n_changes, n_typed, n_closed

(* The calls of a behaviour of the secure channel: two requests, a socket, a *)
(* request beside a socket, and each alone with faults.                      *)
SecureMixesDef ==
    {[calls |-> {r1, r2}, sizes |-> {1, 2}, pings |-> 1, faults |-> FALSE],
     [calls |-> {s1}, sizes |-> {1, 2}, pings |-> 0, faults |-> FALSE],
     [calls |-> {r1, s1}, sizes |-> {1}, pings |-> 0, faults |-> FALSE],
     [calls |-> {r1}, sizes |-> {1, 2}, pings |-> 1, faults |-> TRUE],
     [calls |-> {s1}, sizes |-> {1}, pings |-> 0, faults |-> TRUE]}

N == INSTANCE NodeSessions WITH
       Terminals <- {t1, t2}, Agents <- {a1}, NoAgent <- NoAgent,
       RestoreOnReboot <- TRUE, ResumeAgents <- TRUE, MaxBoots <- 1, MaxStarts <- 2,
       MaxChanges <- 2, boot <- n_boot, starts <- n_starts, node <- n_node,
       pinned <- n_pinned, pane <- n_pane, sock <- n_sock, used <- n_used,
       sessions <- n_sessions, resume <- n_resume, file <- n_file, tmp <- n_tmp,
       saver <- n_saver, main <- n_main, todo <- n_todo, seen <- n_seen,
       plan <- n_plan, startups <- n_startups, poll <- n_poll,
       lastSent <- n_lastSent, changes <- n_changes, typed <- n_typed,
       closed <- n_closed

n_vars ==
    <<n_boot, n_starts, n_node, n_pinned, n_pane, n_sock, n_used, n_sessions, n_resume,
      n_file, n_tmp, n_saver, n_main, n_todo, n_seen, n_plan, n_startups, n_poll,
      n_lastSent, n_changes, n_typed, n_closed>>

sceneVars == <<scene, vars, secureVars, n_vars>>

SceneInit ==
    /\ scene \in {"leases", "channel", "node"}
    /\ Init
    /\ SecureInit
    /\ scene # "channel" => mix = (CHOOSE x \in SecureMixes : TRUE)
    /\ N!NodeInit
    /\ scene # "node" => n_used = {}

SceneNext ==
    \/ /\ scene = "leases" /\ Next
       /\ UNCHANGED <<scene, secureVars, n_vars>>
    \/ /\ scene = "channel" /\ SecureNext
       /\ UNCHANGED <<scene, vars, n_vars>>
    \/ /\ scene = "node" /\ N!NodeNext
       /\ UNCHANGED <<scene, vars, secureVars>>

(* What each component's specification assumes, while its scene is on. *)
SceneFairness ==
    /\ \A d \in Device : WF_vars(scene = "leases" /\ schedule_unregister_device(d))
    /\ WF_secureVars(scene = "channel" /\ serve)
    /\ WF_secureVars(scene = "channel" /\ RevocationTick)
    /\ WF_n_vars(scene = "node" /\ N!Poll)
    /\ WF_n_vars(scene = "node" /\ N!Save("poll"))

SceneSpec == SceneInit /\ [][SceneNext]_sceneVars /\ SceneFairness

(* An agent that stays in the foreground of a terminal is reported to the  *)
(* hub (NodeSessions).                                                     *)
AgentIsReported == N!AgentIsReported

=============================================================================
