------------------------------ MODULE MCEvents ------------------------------
(* What must be neither lost nor repeated: the events the hub numbers for  *)
(* browsers, the outbox of webhooks and bridges, layouts that clients      *)
(* save, requests to a node, the sessions a node finds again, and the      *)
(* agent and title it finds in a terminal. A behaviour is of one scene.    *)
EXTENDS EventBus, NodeSessions, Requests, Integrations, TLC

CONSTANTS
    c1, c2, a1, d1, d2, w1, w2, w3, p1, b1, NoTab, GonePane
VARIABLES
    scene,  \* whose behaviour this is
    v1, v2, v3, v4, v5, v6, v7, v8, v9, v10, v11  \* the variables of its component, in their order

Off == "off"  \* a variable that the component does not need

(* Saves that fall together; saves beside a tab that goes; the strip. *)
WsPlansDef ==
    {[kinds |-> {"save"}, calls |-> 0, edits |-> 3, keys |-> {NoTab},
      auto |-> TRUE, home |-> {}],
     [kinds |-> {"save", "delete", "rename"}, calls |-> 1, edits |-> 2, keys |-> {w1},
      auto |-> TRUE, home |-> {w1}],
     [kinds |-> {"create", "reorder", "delete"}, calls |-> 4, edits |-> 0, keys |-> {},
      auto |-> FALSE, home |-> {}]}

(* A message sent over and over; an upload; the plain requests, two or three *)
(* at once; a browser request beside a message.                              *)
MixOf(some) ==
    [k \in {"create", "foreground", "list", "read", "write", "browser", "composer", "begin",
             "chunk", "end", "socket", "fault"} |-> IF k \in DOMAIN some THEN some[k] ELSE 0]
MixesDef ==
    {MixOf([composer |-> 2, socket |-> 2, fault |-> 3]),
     MixOf([begin |-> 1, chunk |-> 2, end |-> 1, socket |-> 1]),
     MixOf([begin |-> 1, chunk |-> 1, end |-> 1, socket |-> 1, fault |-> 1]),
     MixOf([begin |-> 2, end |-> 1, socket |-> 1]),
     MixOf([create |-> 1, browser |-> 1, fault |-> 2]),
     MixOf([list |-> 1, foreground |-> 1, fault |-> 1]),
     MixOf([read |-> 1, write |-> 2, fault |-> 1]),
     MixOf([composer |-> 1, browser |-> 1, socket |-> 1, fault |-> 2])}

(* A token of each list that holds a flag, alone and with a value, and words. *)
Tok(l, e, d) == [list |-> l, eq |-> e, dash |-> d]
FlagsDef ==
    {Tok(l, e, TRUE) : l \in {"value", "optional", "strip_value", "unknown"}, e \in BOOLEAN}
    \cup {Tok(l, FALSE, TRUE) : l \in {"boolean", "strip_bare"}}
    \cup {Tok("word", e, FALSE) : e \in BOOLEAN}

PickedDef == {"run.ended"}

W == INSTANCE Workspace WITH
       WsClients <- {d1, d2}, Tabs <- {w1, w2, w3}, WsPanes <- {p1},
       PaneBrowsers <- {b1}, OpenerPane <- p1, NoTab <- NoTab, GonePane <- GonePane,
       WsPlans <- WsPlansDef, MaxNow <- 2, wsPlan <- v1, tabRows <- v2,
       usedTabs <- v3, paneTab <- v4, layouts <- v5, seenLayouts <- v6, feed <- v7,
       call <- v8, edits <- v9, calls <- v10, overlapped <- v11

A == INSTANCE AgentIdentity WITH
       Flags <- FlagsDef, Pids <- {1, 2, 3}, Names <- {"sh", "claude", "codex"},
       MaxArgs <- 4, argv <- v1, parent <- v2, name <- v3, files <- v4

T == INSTANCE TitleScanner WITH
       MAX_TITLE_BYTES <- 2, MAX_SEQUENCE_BYTES <- 5, state <- v1, titles <- v2,
       wanted <- v3

ASSUME A!FlagsAreTokens

pool == <<v1, v2, v3, v4, v5, v6, v7, v8, v9, v10, v11>>
sceneVars == <<scene, vars, nodeVars, requestVars, outboxVars, pool>>

SceneInit ==
    /\ scene \in {"events", "node", "outbox", "layouts", "requests", "identity", "titles"}
    /\ Init
    /\ NodeInit
    /\ scene # "node" => used = {}
    /\ RequestInit
    /\ scene # "requests" => mix = (CHOOSE x \in Mixes : TRUE)
    /\ OutboxInit
    /\ \/ /\ scene \in {"events", "node", "requests", "outbox"}
          /\ v1 = Off /\ v2 = Off /\ v3 = Off /\ v4 = Off /\ v5 = Off /\ v6 = Off
          /\ v7 = Off /\ v8 = Off /\ v9 = Off /\ v10 = Off /\ v11 = Off
       \/ scene = "layouts" /\ W!WsInit
       \/ /\ scene = "identity" /\ A!IdentityInit
          /\ v5 = Off /\ v6 = Off /\ v7 = Off /\ v8 = Off /\ v9 = Off /\ v10 = Off
          /\ v11 = Off
       \/ /\ scene = "titles" /\ T!ScanInit
          /\ v4 = Off /\ v5 = Off /\ v6 = Off /\ v7 = Off /\ v8 = Off /\ v9 = Off
          /\ v10 = Off /\ v11 = Off

SceneNext ==
    /\ UNCHANGED scene
    /\ \/ /\ scene = "events" /\ Next
          /\ UNCHANGED <<pool, nodeVars, requestVars, outboxVars>>
       \/ /\ scene = "outbox" /\ OutboxNext
          /\ UNCHANGED <<pool, vars, nodeVars, requestVars>>
       \/ /\ scene = "node" /\ NodeNext
          /\ UNCHANGED <<pool, vars, requestVars, outboxVars>>
       \/ /\ scene = "layouts" /\ W!WsNext
          /\ UNCHANGED <<vars, nodeVars, requestVars, outboxVars>>
       \/ /\ scene = "requests" /\ RequestNext
          /\ UNCHANGED <<pool, vars, nodeVars, outboxVars>>
       \/ /\ scene = "identity" /\ A!IdentityNext
          /\ UNCHANGED <<v5, v6, v7, v8, v9, v10, v11, vars, nodeVars, requestVars, outboxVars>>
       \/ /\ scene = "titles" /\ T!ScanNext
          /\ UNCHANGED <<v4, v5, v6, v7, v8, v9, v10, v11, vars, nodeVars, requestVars,
                        outboxVars>>

SceneSpec == SceneInit /\ [][SceneNext]_sceneVars

(* The agent in a pane is recognised and resumed as it was started, and    *)
(* the title it sets is found in its output (AgentIdentity, TitleScanner). *)
ForegroundIsKnown ==
    (scene = "identity" => A!IdentityIsSound) /\ (scene = "titles" => T!TitleIsFound)

(* Places in the strip stay apart and no save overwrites a layout its      *)
(* client has not seen (Workspace).                                        *)
WorkspaceIsSound ==
    /\ [](scene = "layouts" => W!StripOrderIsStrict)
    /\ [][scene = "layouts" => W!SaveReplacesWhatWasSeen]_pool

SceneSymmetry == Permutations(Change \ Foreign) \cup Permutations({c1, c2})
=============================================================================
