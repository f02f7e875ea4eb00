------------------------------ MODULE MCInstall ------------------------------
(* An installation over its life: who has access to the hub, the hubs a    *)
(* device saved, the cloud connector, updates of the interface, the        *)
(* services of a machine, and the upgrade of the database. A behaviour is  *)
(* of one scene: UiUpdates, Access, SavedHubs and MachineSetup stand still *)
(* in their first state in the others, which share v1, v2, ...             *)
EXTENDS UiUpdates, Access, SavedHubs, MachineSetup, TLC

CONSTANTS
    p1, p2, g, c1, c2, r1, u1, u2, x1, x2, y1, y2, z1, z2, i1, i2, g1, g2, hk,
    kr, Absent, UserTab, NoneYet, dir
VARIABLES
    scene,  \* whose behaviour this is
    v1, v2, v3, v4, v5, v6, v7, v8, v9, v10, v11, v12, v13, v14, v15, v16, v17  \* the variables of its component, in their order

Off == "off"  \* a variable that the component does not need

(* All terminals are in one directory. *)
OneDir == [t \in {y1, y2} |-> dir]

(* Scope lists: one that does not read, and two that do. *)
AccessesDef == {{}, {"runs:read"}, {"runs:start"}}

(* Everybody without codes; the phone and the owner with codes; tokens; nodes. *)
AccessMixesDef ==
    {[who |-> {p1, p2, g, "owner"}, codes |-> {}, tokens |-> {}, regs |-> {}],
     [who |-> {p1}, codes |-> {c1, c2}, tokens |-> {}, regs |-> {}],
     [who |-> {"owner"}, codes |-> {c1, c2}, tokens |-> {}, regs |-> {}],
     [who |-> {p1}, codes |-> {c1}, tokens |-> {z1, z2}, regs |-> {}],
     [who |-> {p1, "owner"}, codes |-> {}, tokens |-> {}, regs |-> {r1}]}

(* Two hubs of one user; regions and slugs that change; faults on either way. *)
OneHub == [hubs |-> {i1}, asks |-> {"ask relay", "find cloudflared"}, slugs |-> {g1},
           homes |-> {hk}, backups |-> {"none"}, serves |-> FALSE, faults |-> FALSE]
CloudPlansDef ==
    {[OneHub EXCEPT !.hubs = {i1, i2}],
     [OneHub EXCEPT !.slugs = {g1, g2}, !.homes = {"unset", "auto", hk, kr},
                    !.backups = {"unset", "none", hk, kr}],
     [OneHub EXCEPT !.asks = {"ask relay"}, !.homes = {"auto"}, !.backups = {"unset"},
                    !.serves = TRUE, !.faults = TRUE],
     [OneHub EXCEPT !.asks = {"find cloudflared"}, !.serves = TRUE, !.faults = TRUE]}

C == INSTANCE Cloud WITH
       Instances <- {i1, i2}, Slugs <- {g1, g2}, RelayRegions <- {hk, kr},
       MaxFailures <- 2, MaxStreams <- 1, MaxCommands <- 4, MaxKills <- 1,
       CloudPlans <- CloudPlansDef, Absent <- Absent, cloudPlan <- v1,
       registration <- v2, verified_url <- v3, verified_routes <- v4, op <- v5,
       service_lock <- v6, service_owner <- v7, remote <- v8, connector <- v9,
       children <- v10, failures <- v11, control <- v12, streams <- v13,
       origin <- v14, disabled <- v15, commands <- v16, kills <- v17

G == INSTANCE Migrations WITH
       Rows <- {y1, y2}, CwdOf <- OneDir, NewTabs <- {z1, z2}, MaxOldTables <- 1,
       MaxDeaths <- 1, schema <- v1, tabOf <- v2, openTabs <- v3, layoutKey <- v4,
       legacy <- v5, at <- v6, ungrouped <- v7, groupIds <- v8, hub <- v9, deaths <- v10

pool == <<v1, v2, v3, v4, v5, v6, v7, v8, v9, v10, v11, v12, v13, v14, v15, v16, v17>>
sceneVars == <<scene, uiVars, accessVars, savedVars, setupVars, pool>>

Spare11 == v11 = Off /\ v12 = Off /\ v13 = Off
Spare14 == v14 = Off /\ v15 = Off /\ v16 = Off /\ v17 = Off
Idle10 == /\ v1 = Off /\ v2 = Off /\ v3 = Off /\ v4 = Off /\ v5 = Off
          /\ v6 = Off /\ v7 = Off /\ v8 = Off /\ v9 = Off /\ v10 = Off

SceneInit ==
    /\ scene \in {"access", "interface", "upgrade", "hubs", "cloud", "services"}
    /\ UiInit /\ (scene # "interface" => broken = {})
    /\ AccessInit /\ (scene # "access" => use = (CHOOSE m \in AccessMixes : m.tokens = {}))
    /\ SavedInit /\ (scene # "hubs" => \A c, d \in PairCodes : minted[c] = minted[d])
    /\ SetupInit /\ (scene # "services" => machines = {})
    /\ \/ scene \in {"interface", "access", "hubs", "services"} /\ Idle10 /\ Spare11 /\ Spare14
       \/ scene = "upgrade" /\ G!MigrationInit /\ Spare11 /\ Spare14
       \/ scene = "cloud" /\ C!CloudInit

SceneNext ==
    /\ UNCHANGED scene
    /\ \/ scene = "interface" /\ UiNext /\ UNCHANGED <<accessVars, savedVars, setupVars, pool>>
       \/ scene = "access" /\ AccessNext /\ UNCHANGED <<uiVars, savedVars, setupVars, pool>>
       \/ scene = "hubs" /\ SavedNext /\ UNCHANGED <<uiVars, accessVars, setupVars, pool>>
       \/ scene = "services" /\ SetupNext /\ UNCHANGED <<uiVars, accessVars, savedVars, pool>>
       \/ /\ UNCHANGED <<uiVars, accessVars, savedVars, setupVars>>
          /\ \/ /\ scene = "upgrade" /\ G!MigrationNext
                /\ UNCHANGED <<v11, v12, v13, v14, v15, v16, v17>>
             \/ scene = "cloud" /\ C!CloudNext

SceneSpec == SceneInit /\ [][SceneNext]_sceneVars

(* A hub that starts on an old database comes up, and then nothing is      *)
(* missing (Migrations).                                                   *)
UpgradeEnds ==
    (scene = "upgrade") => G!MigrationsEnd

(* What a cloud hub advertises is current, one that is disabled is off,    *)
(* connectors do not overlap and no hub takes the service of another       *)
(* (Cloud).                                                                *)
CloudIsSound ==
    /\ [](scene = "cloud" => /\ C!CloudTypeOK /\ C!AdvertisedIsCurrent
                           /\ C!DisabledIsOff /\ C!OneConnector)
    /\ [][scene = "cloud" => C!OwnerIsUndisturbed]_pool

SceneSymmetry == Permutations({u1, u2}) \cup Permutations({x1, x2}) \cup Permutations({y1, y2}) \cup Permutations({z1, z2})
=============================================================================
