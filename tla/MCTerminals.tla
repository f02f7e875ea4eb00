----------------------------- MODULE MCTerminals -----------------------------
(* Terminals and what is around them: the registry with two terminals in   *)
(* one tab, with a machine that reconnects, and with a node and a hub that *)
(* restart. A behaviour is of one scene.                                   *)
EXTENDS TerminalRegistry, TLC

CONSTANTS
    c1, c2, c3, t3, x1, x2
VARIABLES
    scene,  \* whose behaviour this is
    v1, v2, v3, v4, v5, v6, v7, v8, v9, v10, v11, v12, v13, v14, v15, v16, v17, v18,
    v19, v20  \* the variables of its component, in their order

Off == "off"  \* a variable that the component does not need

R == INSTANCE TerminalRegistry WITH
       Conn <- {c1, c2, c3}, Terminal <- {t3}, Tab <- {x1, x2}, NoConn <- NoConn,
       NoTab <- NoTab, Absent <- Absent, MAX_PANES_PER_TAB <- 2, Lag <- "none",
       MaxHubRestarts <- 0, handler <- v1, current <- v2, terminals <- v3,
       persisted <- v4, row <- v5, rowTab <- v6, tabs <- v7, usedTabs <- v8,
       asked <- v9, request <- v10, failed <- v11, deleting <- v12, work <- v13,
       inbox <- v14, orders <- v15, link <- v16, sessions <- v17, alive <- v18,
       reported <- v19, restarts <- v20

H == INSTANCE TerminalRegistry WITH
       Conn <- {c1, c2}, Terminal <- {t3}, Tab <- {x1, x2}, NoConn <- NoConn,
       NoTab <- NoTab, Absent <- Absent, MAX_PANES_PER_TAB <- 2, Lag <- "none",
       MaxHubRestarts <- 1, handler <- v1, current <- v2, terminals <- v3,
       persisted <- v4, row <- v5, rowTab <- v6, tabs <- v7, usedTabs <- v8,
       asked <- v9, request <- v10, failed <- v11, deleting <- v12, work <- v13,
       inbox <- v14, orders <- v15, link <- v16, sessions <- v17, alive <- v18,
       reported <- v19, restarts <- v20

pool == <<v1, v2, v3, v4, v5, v6, v7, v8, v9, v10, v11, v12, v13, v14, v15, v16, v17,
         v18, v19, v20>>
sceneVars == <<scene, vars, pool>>

SceneInit ==
    /\ Init
    /\ \/ /\ scene = "shared"
          /\ v1 = Off /\ v2 = Off /\ v3 = Off /\ v4 = Off /\ v5 = Off /\ v6 = Off
          /\ v7 = Off /\ v8 = Off /\ v9 = Off /\ v10 = Off /\ v11 = Off /\ v12 = Off
          /\ v13 = Off /\ v14 = Off /\ v15 = Off /\ v16 = Off /\ v17 = Off /\ v18 = Off
          /\ v19 = Off /\ v20 = Off
       \/ /\ scene = "reconnect" /\ R!Init
       \/ /\ scene = "restart" /\ H!Init

SceneNext ==
    /\ UNCHANGED scene
    /\ \/ scene = "shared" /\ Next /\ UNCHANGED pool
       \/ /\ scene = "reconnect" /\ R!Next
          /\ UNCHANGED <<vars>>
       \/ /\ scene = "restart" /\ H!Next
          /\ UNCHANGED <<vars>>

SceneSpec == SceneInit /\ [][SceneNext]_sceneVars

(* Once things settle the hub lists what the node runs, remembers it, and  *)
(* keeps every terminal in its tab: for two terminals of one tab, and over *)
(* reconnects and a restart of the hub (TerminalRegistry).                 *)
TerminalsAreSound ==
    /\ RegistryIsSound
    /\ scene = "reconnect" => R!RegistryIsSound
    /\ scene = "restart" => H!RegistryIsSound

(* The row of a terminal that runs is not destroyed, whatever reconnects   *)
(* and restarts (TerminalRegistry).                                        *)
RunningIsKept ==
    [][/\ scene = "reconnect" => R!DestroysOnlyDead
      /\ scene = "restart" => H!DestroysOnlyDead]_pool

SceneSymmetry == Permutations({x1, x2}) \cup Permutations({c1, c2, c3})
=============================================================================
