------------------------------ MODULE MCAgents ------------------------------
(* Agents: the runs people start and answer, the sessions of agents that   *)
(* speak ACP, and the pages and frames of the browser they drive. A        *)
(* behaviour is of one scene.                                              *)
EXTENDS AgentRuns

CONSTANTS
    u1, u2, b1, b2, NoOne, NoFrame
VARIABLES
    scene,  \* whose behaviour this is
    v1, v2, v3, v4, v5, v6, v7, v8, v9, v10, v11, v12, v13, v14, v15, v16, v17, v18,
    v19, v20, v21, v22, v23, v24  \* the variables of its component, in their order

Off == "off"  \* a variable that the component does not need

(* Tabs that open, close and crash; dialogs and popups; input. *)
Quiet == [opens |-> {b1}, popups |-> FALSE, closes |-> FALSE, dialogs |-> FALSE, dies |-> FALSE,
          input |-> FALSE]
PagePlansDef ==
    {[Quiet EXCEPT !.opens = {b1, b2}, !.popups = TRUE, !.closes = TRUE, !.dies = TRUE],
     [Quiet EXCEPT !.dialogs = TRUE, !.popups = TRUE], [Quiet EXCEPT !.input = TRUE]}

S == INSTANCE AgentSessions WITH
       Caller <- {u1, u2}, MaxStarts <- 1, MaxCommands <- 2, MaxAsks <- 1,
       MaxFaults <- 1, MaxQueued <- 2, row <- v1, request <- v2, sent <- v3,
       faults <- v4, to_node <- v5, to_hub <- v6, epoch <- v7, online <- v8,
       actor <- v9, started <- v10, handle <- v11, late <- v12

T == INSTANCE AgentSessions WITH
       Caller <- {u1, u2}, MaxStarts <- 2, MaxCommands <- 1, MaxAsks <- 1,
       MaxFaults <- 1, MaxQueued <- 2, row <- v1, request <- v2, sent <- v3,
       faults <- v4, to_node <- v5, to_hub <- v6, epoch <- v7, online <- v8,
       actor <- v9, started <- v10, handle <- v11, late <- v12

P == INSTANCE BrowserPages WITH
       Pages <- {b1, b2}, MaxLaunches <- 2, MaxDialogs <- 2, MaxInput <- 4,
       PagePlans <- PagePlansDef, NoOne <- NoOne, pageplan <- v1, chromium <- v2,
       launches <- v3, pidfile <- v4, procs <- v5, sockets_up <- v6, target <- v7,
       launch_of <- v8, tabs <- v9, announced <- v10, gone <- v11,
       state_lock <- v12, job <- v13, cdp <- v14, shown <- v15, dialogs <- v16,
       known <- v17, dialogs_opened <- v18, answer <- v19, command <- v20,
       sent <- v21, typed <- v22, batch <- v23, applied <- v24

F == INSTANCE PageFrames WITH
       Frames <- {1, 2, 3, 4}, MAX_FRAME_DEPTH <- 2, MaxLines <- 4,
       MaxNavigations <- 1, PageChanges <- {"none", "user", "pass"},
       NoFrame <- NoFrame, parent <- v1, own <- v2, hidden <- v3, form <- v4,
       allowed <- v5, document <- v6, command <- v7, listed <- v8, todo <- v9,
       candidates <- v10, filled <- v11, intercepting <- v12, dialog <- v13

ASSUME S!BoundsAssumption /\ T!BoundsAssumption

pool == <<v1, v2, v3, v4, v5, v6, v7, v8, v9, v10, v11, v12, v13, v14, v15, v16, v17,
         v18, v19, v20, v21, v22, v23, v24>>
sceneVars == <<scene, vars, pool>>

SceneInit ==
    /\ Init
    /\ \/ /\ scene = "runs"
          /\ v1 = Off /\ v2 = Off /\ v3 = Off /\ v4 = Off /\ v5 = Off /\ v6 = Off
          /\ v7 = Off /\ v8 = Off /\ v9 = Off /\ v10 = Off /\ v11 = Off /\ v12 = Off
          /\ v13 = Off /\ v14 = Off /\ v15 = Off /\ v16 = Off /\ v17 = Off /\ v18 = Off
          /\ v19 = Off /\ v20 = Off /\ v21 = Off /\ v22 = Off /\ v23 = Off /\ v24 = Off
       \/ /\ scene = "sessions" /\ S!Init
          /\ v13 = Off /\ v14 = Off /\ v15 = Off /\ v16 = Off /\ v17 = Off /\ v18 = Off
          /\ v19 = Off /\ v20 = Off /\ v21 = Off /\ v22 = Off /\ v23 = Off /\ v24 = Off
       \/ /\ scene = "resumes" /\ T!Init
          /\ v13 = Off /\ v14 = Off /\ v15 = Off /\ v16 = Off /\ v17 = Off /\ v18 = Off
          /\ v19 = Off /\ v20 = Off /\ v21 = Off /\ v22 = Off /\ v23 = Off /\ v24 = Off
       \/ /\ scene = "pages" /\ P!PagesInit
       \/ /\ scene = "frames" /\ F!FramesInit
          /\ v14 = Off /\ v15 = Off /\ v16 = Off /\ v17 = Off /\ v18 = Off /\ v19 = Off
          /\ v20 = Off /\ v21 = Off /\ v22 = Off /\ v23 = Off /\ v24 = Off

SceneNext ==
    /\ UNCHANGED scene
    /\ \/ scene = "runs" /\ Next /\ UNCHANGED pool
       \/ /\ scene = "sessions" /\ S!Next
          /\ UNCHANGED <<v13, v14, v15, v16, v17, v18, v19, v20, v21, v22, v23, v24,
                        vars>>
       \/ /\ scene = "resumes" /\ T!Next
          /\ UNCHANGED <<v13, v14, v15, v16, v17, v18, v19, v20, v21, v22, v23, v24,
                        vars>>
       \/ /\ scene = "pages" /\ P!PagesNext
          /\ UNCHANGED <<vars>>
       \/ /\ scene = "frames" /\ F!FramesNext
          /\ UNCHANGED <<v14, v15, v16, v17, v18, v19, v20, v21, v22, v23, v24, vars>>

SceneSpec == SceneInit /\ [][SceneNext]_sceneVars

(* A session that has come to rest can be used: with commands that queue,  *)
(* and with an agent that is started again (AgentSessions).                *)
SessionsAreSound ==
    /\ scene = "sessions" => S!SessionsAreSound
    /\ scene = "resumes" => T!SessionsAreSound

(* The tabs of the agent browser are what its one Chromium shows           *)
(* (BrowserPages).                                                         *)
PagesAreSound == (scene = "pages") => P!PagesAreSound

(* A command on a page with frames reaches the whole page and nothing else *)
(* (PageFrames).                                                           *)
FramesAreSound == (scene = "frames") => F!FramesAreSound
=============================================================================
