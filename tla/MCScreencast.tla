---------------------------- MODULE MCScreencast ----------------------------
(* The agent browser's screencast: one viewer whose machine reconnects,    *)
(* and two viewers that share a cast of a Chromium that keeps no order. A  *)
(* behaviour is of one scene.                                              *)
EXTENDS Screencast, TLC

CONSTANTS
    v1, v2
VARIABLES
    scene, v_viewer, v_attached, v_fan, v_clock, v_remembered, v_unsent, v_hub,
    v_wire, v_node, v_screen, v_page

V == INSTANCE Screencast WITH
       Viewer <- {v1, v2}, MaxSize <- 2, MaxPaint <- 1, MaxEpoch <- 2,
       MaxClock <- 0, MaxConn <- 1, MaxList <- 0, Chromium <- "unruly",
       viewer <- v_viewer, attached <- v_attached, fan <- v_fan, clock <- v_clock,
       remembered <- v_remembered, unsent <- v_unsent, hub <- v_hub, wire <- v_wire,
       node <- v_node, screen <- v_screen, page <- v_page

v_vars ==
    <<v_viewer, v_attached, v_fan, v_clock, v_remembered, v_unsent, v_hub, v_wire,
      v_node, v_screen, v_page>>

sceneVars == <<scene, vars, v_vars>>

(* What the variables of a component hold while its scene is not on. *)
Off == "off"

ViewersOff ==
    /\ v_viewer = Off /\ v_attached = Off /\ v_fan = Off /\ v_clock = Off /\
       v_remembered = Off /\ v_unsent = Off /\ v_hub = Off /\ v_wire = Off /\
       v_node = Off /\ v_screen = Off /\ v_page = Off

SceneInit ==
    /\ scene \in {"reconnect", "viewers"}
    /\ Init
    /\ IF scene = "viewers" THEN V!Init ELSE ViewersOff

SceneNext ==
    \/ /\ scene = "reconnect" /\ Next
       /\ UNCHANGED <<scene, v_vars>>
    \/ /\ scene = "viewers" /\ V!Next
       /\ UNCHANGED <<scene, vars>>


(* What each component's specification assumes, while its scene is on. *)
SceneFairness ==
    /\ \A v \in Viewer : WF_vars(scene = "reconnect" /\ ViewerStep(v))
    /\ \A a \in Task : WF_vars(scene = "reconnect" /\ send_node_action(a))
    /\ WF_vars(scene = "reconnect" /\ HubStep)
    /\ WF_vars(scene = "reconnect" /\ ChromiumStep)
    /\ WF_vars(scene = "reconnect" /\ Receive)
    /\ WF_vars(scene = "reconnect" /\ (StartDone \/ StartFails))
    /\ WF_vars(scene = "reconnect" /\ register_machine)
    /\ WF_vars(scene = "reconnect" /\ stop_all_screencasts)
    /\ WF_vars(scene = "reconnect" /\ (\E t \in node.tasks : IgnoreTask(t) \/ screencast_start(t) \/ screencast_stop(t)))

SceneSpec == SceneInit /\ [][SceneNext]_sceneVars /\ SceneFairness

(* The node casts exactly while somebody looks: one viewer around a        *)
(* reconnect, and two that come, go and resize and share the cast that was *)
(* started last (Screencast).                                              *)
ViewersAgree ==
    /\ CastFollowsViewers
    /\ scene = "viewers" => V!NextStartWins /\ V!CastFollowsViewers

=============================================================================
