---------------------------- MODULE MachineSetup ----------------------------
(***************************************************************************)
(* The machine that stays on, as the desktop application sets it up and    *)
(* keeps it current: the hub, node and Cloud services                      *)
(* (protocol/src/service.rs), `offdesk-hub service install` with the       *)
(* registration of the local node (hub/src/main.rs, hub/src/first_run.rs,  *)
(* machine/src/main.rs), the application's own update (app_update.rs) and  *)
(* the check at launch that restarts what an update left behind            *)
(* (bundled_services.rs).                                                  *)
(*                                                                         *)
(* A version is a number; a service runs the binary in the bundle or one   *)
(* the install script put in ~/.local/bin, which is version 1 for ever.    *)
(* launchd and systemd are external: they start what the unit names and    *)
(* keep it running.                                                        *)
(***************************************************************************)
EXTENDS Naturals, Sequences, FiniteSets

CONSTANTS
    MaxVersion,     \* bound on the versions of the bundle
    MaxIds,         \* bound on the machines ever registered
    SetupMaxFaults  \* bound on failed commands and lost answers

Parts == {"hub", "node", "cloud"}
Stopped == 0
Unknown == 0
NoConfig == [hub |-> "none", id |-> 0]
NoCommand == [at |-> "idle", kind |-> "install", hub |-> "here", id |-> 0,
              removed |-> FALSE]     \* history: the machine was removed meanwhile
Ended(how) == [NoCommand EXCEPT !.at = how]  \* nobody looks at how it went
NoCheckYet == [at |-> "idle", bundled |-> 0, hub |-> Unknown, node |-> Unknown,
               todo |-> <<>>, error |-> FALSE]
Checked(error) == [NoCheckYet EXCEPT !.at = "done", !.error = error]
NoneUnderWay(at) == at \in {"idle", "done", "failed"}

ASSUME SetupAssumption ==
    /\ MaxVersion \in Nat \ {0}
    /\ MaxIds \in Nat \ {0}
    /\ SetupMaxFaults \in Nat

VARIABLES
    bundle,       \* the version of the binaries beside the application
    app,          \* the version of the running application, or Stopped
    desktop_role, \* desktop.json
    update,       \* AppUpdate: the version waiting for a restart, and whether it is installed
    program,      \* per part, what its unit or plist starts: "none", "bundle" or "local"
    up,           \* per part, the version of its process, or Stopped
    config,       \* machine.json: the hub it names and the machine id
    nodeConfig,   \* the configuration the node's process started with
    machines,     \* ids in this hub's database
    lastId,       \* the last id handed out
    command,      \* the `service install` or `register` under way
    check,        \* the launch-time check under way
    setupFaults   \* faults so far

setupVars == <<bundle, app, desktop_role, update, program, up, config, nodeConfig, machines,
               lastId, command, check, setupFaults>>
serviceVars == <<program, up, nodeConfig>>

SetupTypeOK ==
    /\ bundle \in 1..MaxVersion /\ app \in 0..MaxVersion
    /\ desktop_role \in {"none", "hub", "client"}
    /\ update \in [version : 0..MaxVersion, installed : BOOLEAN]
    /\ program \in [Parts -> {"none", "bundle", "local"}]
    /\ up \in [Parts -> 0..MaxVersion]
    /\ machines \subseteq 1..MaxIds /\ lastId \in 0..MaxIds
    /\ setupFaults \in 0..SetupMaxFaults

\* A fresh machine, or one the install script set up without the application.
SetupInit ==
    /\ bundle = 1 /\ app = Stopped /\ desktop_role = "none"
    /\ update = [version |-> 0, installed |-> FALSE]
    /\ program \in {[p \in Parts |-> "none"], [p \in Parts |-> IF p = "cloud" THEN "none" ELSE "local"]}
    /\ up = [p \in Parts |-> IF program[p] = "local" THEN 1 ELSE Stopped]
    /\ config = IF program["node"] = "local" THEN [hub |-> "here", id |-> 1] ELSE NoConfig
    /\ nodeConfig = config
    /\ machines = IF program["node"] = "local" THEN {1} ELSE {}
    /\ lastId = Cardinality(machines)
    /\ command = NoCommand /\ check = NoCheckYet /\ setupFaults = 0

SetupFault == setupFaults < SetupMaxFaults /\ setupFaults' = setupFaults + 1

-----------------------------------------------------------------------------
(* Services.                                                               *)

\* The version a service comes up with.
Version(p) == IF program'[p] = "bundle" THEN bundle ELSE 1

\* The manager starts these parts; the node reads machine.json as it starts.
Start(parts) ==
    /\ up' = [p \in Parts |-> IF p \in parts THEN Version(p) ELSE up[p]]
    /\ nodeConfig' = IF "node" \in parts THEN config ELSE nodeConfig

\* service::install: the old process is unloaded, the unit is written, and
\* the service is started; a failed start leaves the unit and no process.
svc_install(p) ==
    /\ program' = [program EXCEPT ![p] = "bundle"]
    /\ Start({p}) /\ UNCHANGED setupFaults

svc_install_fails(p) ==
    /\ program' = [program EXCEPT ![p] = "bundle"]
    /\ up' = [up EXCEPT ![p] = Stopped] /\ UNCHANGED nodeConfig /\ SetupFault

\* hub_install: `offdesk-hub service install`.
hub_install ==
    /\ app # Stopped /\ NoneUnderWay(command.at)
    /\ \/ svc_install("hub") /\ command' = [NoCommand EXCEPT !.at = "wait"]
       \/ svc_install_fails("hub") /\ command' = Ended("failed")
    /\ UNCHANGED <<bundle, app, desktop_role, update, config, machines, lastId, check>>

\* wait_for_hub: an error when nothing answers in time.
wait_for_hub ==
    /\ command.at = "wait"
    /\ command' = IF up["hub"] # Stopped THEN [command EXCEPT !.at = "local"] ELSE Ended("failed")
    /\ UNCHANGED <<bundle, app, desktop_role, update, serviceVars, config, machines, lastId, check,
                   setupFaults>>

\* hub_is_here: the hub that machine.json names is the one on this machine, by
\* a loopback or any other address of it, on its port.
hub_is_here == config.hub = "here"

\* mutant: a configuration that names this hub is taken for a registration
NamesThisHub == hub_is_here

\* Whether machine.json is a registration this hub knows.
Registered == hub_is_here /\ config.id \in machines

\* register_local_node: a node of this hub is kept, a node of another hub is
\* left alone, anything else is registered with a new token.
RegisterLocalNode ==
    /\ command.at = "local"
    /\ command' = IF Registered THEN [command EXCEPT !.at = "service"]
                  ELSE IF config # NoConfig /\ ~hub_is_here THEN Ended("done")
                  ELSE [command EXCEPT !.at = "register"]
    /\ UNCHANGED <<bundle, app, desktop_role, update, serviceVars, config, machines, lastId, check,
                   setupFaults>>

\* `offdesk-node register` run by hand, against another hub.
RegisterElsewhere ==
    /\ NoneUnderWay(command.at)
    /\ command' = [NoCommand EXCEPT !.at = "register", !.kind = "register", !.hub = "elsewhere"]
    /\ UNCHANGED <<bundle, app, desktop_role, update, serviceVars, config, machines, lastId, check,
                   setupFaults>>

\* run_register, the request: the hub spends the token and adds the machine;
\* the answer may be lost, and then nothing is kept here.
RegisterRequest ==
    /\ command.at = "register" /\ lastId < MaxIds
    /\ command.hub = "here" => up["hub"] # Stopped
    /\ lastId' = lastId + 1
    /\ machines' = IF command.hub = "here" THEN machines \cup {lastId'} ELSE machines
    /\ \/ command' = [command EXCEPT !.at = "save", !.id = lastId'] /\ UNCHANGED setupFaults
       \/ command' = Ended("failed") /\ SetupFault
    /\ UNCHANGED <<bundle, app, desktop_role, update, serviceVars, config, check>>

\* The hub does not answer the registration.
RegisterUnanswered ==
    /\ command.at = "register"
    /\ lastId = MaxIds \/ (command.hub = "here" /\ up["hub"] = Stopped)
    /\ command' = Ended("failed")
    /\ UNCHANGED <<bundle, app, desktop_role, update, serviceVars, config, machines, lastId, check,
                   setupFaults>>

\* run_register, the answer: save_config.
save_config ==
    /\ command.at = "save"
    /\ config' = [hub |-> command.hub, id |-> command.id]
    /\ command' = [command EXCEPT !.at = "restart"]
    /\ UNCHANGED <<bundle, app, desktop_role, update, serviceVars, machines, lastId, check, setupFaults>>

\* mutant: only the configuration is written
LeavesServiceRunning ==
    /\ command.at = "restart"
    /\ command' = IF command.kind = "install" THEN [command EXCEPT !.at = "service"] ELSE Ended("done")
    /\ UNCHANGED <<serviceVars, setupFaults>>

\* ensure_service_running: a node that runs as a service is restarted, or it
\* keeps the hub it started with; a failed restart is only reported.
ensure_service_running ==
    /\ command.at = "restart"
    /\ command' = IF command.kind = "install" THEN [command EXCEPT !.at = "service"] ELSE Ended("done")
    /\ UNCHANGED program
    /\ \/ program["node"] # "none" /\ Start({"node"}) /\ UNCHANGED setupFaults
       \/ program["node"] = "none" /\ UNCHANGED <<up, nodeConfig, setupFaults>>
       \/ program["node"] # "none" /\ SetupFault /\ UNCHANGED <<up, nodeConfig>>

\* The end of run_register.
FinishRegister ==
    /\ ensure_service_running
    /\ UNCHANGED <<bundle, app, desktop_role, update, config, machines, lastId, check>>

\* node_service_install: `offdesk-node service install`, which refuses to
\* install a node that has no configuration.
node_service_install ==
    /\ command.at = "service"
    /\ config # NoConfig
    /\ \/ svc_install("node") /\ command' = Ended("done")
       \/ svc_install_fails("node") /\ command' = Ended("failed")
    /\ UNCHANGED <<bundle, app, desktop_role, update, config, machines, lastId, check>>

\* hub_uninstall: the node's service, then the hub's; configuration, database
\* and the Cloud connector stay.
hub_uninstall ==
    /\ app # Stopped /\ NoneUnderWay(command.at)
    /\ program' = [program EXCEPT !["hub"] = "none", !["node"] = "none"]
    /\ up' = [up EXCEPT !["hub"] = Stopped, !["node"] = Stopped]
    /\ command' = NoCommand
    /\ UNCHANGED <<bundle, app, desktop_role, update, nodeConfig, config, machines, lastId, check,
                   setupFaults>>

\* `offdesk-hub cloud install` from the bundle.
cloud_install ==
    /\ program["hub"] = "bundle" /\ program["cloud"] = "none"
    /\ svc_install("cloud")
    /\ UNCHANGED <<bundle, app, desktop_role, update, config, machines, lastId, command, check>>

-----------------------------------------------------------------------------
(* The application and its update.                                         *)

set_desktop_role(r) ==
    /\ app # Stopped /\ desktop_role # r /\ desktop_role' = r
    /\ UNCHANGED <<bundle, app, update, serviceVars, config, machines, lastId, command, check,
                   setupFaults>>

\* app_update_state: an installed bundle is what a restart starts, whatever a
\* later check offers.
app_update_state(version, installed) ==
    update' = [version |-> IF installed \/ ~update.installed THEN version ELSE update.version,
               installed |-> update.installed \/ installed]

\* The window's updater finds a version, or replaces the bundle with it.
WindowUpdates ==
    /\ app # Stopped /\ bundle < MaxVersion
    /\ \/ app_update_state(bundle + 1, FALSE) /\ update' # update /\ UNCHANGED bundle
       \/ app_update_state(bundle + 1, TRUE) /\ bundle' = bundle + 1
    /\ UNCHANGED <<app, desktop_role, serviceVars, config, machines, lastId, command, check, setupFaults>>

\* restart_to_update from the menu bar: install first unless the window has.
restart_to_update ==
    /\ app # Stopped /\ update.version # 0
    /\ bundle' = IF update.installed \/ bundle = MaxVersion THEN bundle ELSE bundle + 1
    /\ app' = Stopped /\ check' = NoCheckYet
    /\ update' = [version |-> 0, installed |-> FALSE]
    /\ UNCHANGED <<desktop_role, serviceVars, config, machines, lastId, command, setupFaults>>

\* The application quits; what it had asked a command to do goes on.
QuitApp ==
    /\ app # Stopped
    /\ app' = Stopped /\ check' = NoCheckYet
    /\ update' = [version |-> 0, installed |-> FALSE]
    /\ UNCHANGED <<bundle, desktop_role, serviceVars, config, machines, lastId, command, setupFaults>>

-----------------------------------------------------------------------------
(* The launch-time check.                                                  *)

\* reconcile, and the part of check that reads the bundle and the units.
reconcile ==
    /\ app = Stopped
    /\ app' = bundle
    /\ check' = IF desktop_role = "hub" THEN [NoCheckYet EXCEPT !.at = "hub", !.bundled = bundle]
                ELSE Checked(FALSE)
    /\ UNCHANGED <<bundle, desktop_role, update, serviceVars, config, machines, lastId, command,
                   setupFaults>>

behind(running, bundled) == running # Unknown /\ running # bundled

\* mutant: a node that was not asked is left as it is
LeavesSilentNode(hub, node, bundled) ==
    LET h == program["hub"] = "bundle" /\ behind(hub, bundled)
        n == program["node"] = "bundle" /\ behind(node, bundled)
        c == h /\ program["cloud"] = "bundle"
    IN  (IF h THEN <<"hub">> ELSE <<>>) \o (IF n THEN <<"node">> ELSE <<>>)
          \o (IF c THEN <<"cloud">> ELSE <<>>)

\* plan: only services of this bundle; the node that was not asked and the
\* Cloud connector go with the hub.
plan(hub, node, bundled) ==
    LET h == program["hub"] = "bundle" /\ behind(hub, bundled)
        n == /\ program["node"] = "bundle"
             /\ behind(node, bundled) \/ (h /\ node = Unknown)
        c == h /\ program["cloud"] = "bundle"
    IN  (IF h THEN <<"hub">> ELSE <<>>) \o (IF n THEN <<"node">> ELSE <<>>)
          \o (IF c THEN <<"cloud">> ELSE <<>>)

\* The services that the rest of a plan restarts.
Listed(todo) == {todo[i] : i \in 1..Len(todo)}

\* running_hub: what answers on the hub's port, or no answer in five seconds.
\* A hub that is behind is not asked about its node.
running_hub ==
    /\ check.at = "hub"
    /\ \E hub \in {up["hub"], Unknown} :
          LET todo == plan(hub, Unknown, check.bundled)
          IN  check' = [check EXCEPT !.hub = hub, !.todo = todo,
                          !.at = IF "hub" \notin Listed(todo)
                                    /\ program["hub"] = "bundle" /\ hub # Unknown
                                 THEN "node" ELSE "restart"]
    /\ UNCHANGED <<bundle, app, desktop_role, update, serviceVars, config, machines, lastId, command,
                   setupFaults>>

\* running_node: the version the hub has for this machine, when the node is
\* connected to it and the hub answers.
running_node ==
    /\ check.at = "node"
    /\ \E node \in {IF nodeConfig.hub = "here" /\ nodeConfig.id \in machines /\ config = nodeConfig
                    THEN up["node"] ELSE Unknown, Unknown} :
          check' = [check EXCEPT !.node = node, !.at = "restart",
                      !.todo = plan(check.hub, node, check.bundled)]
    /\ UNCHANGED <<bundle, app, desktop_role, update, serviceVars, config, machines, lastId, command,
                   setupFaults>>

\* restart, in the order of the plan: the first failure ends the check.
restart ==
    /\ check.at = "restart" /\ check.todo # <<>>
    /\ UNCHANGED program
    /\ \/ /\ program[Head(check.todo)] # "none"
          /\ Start({Head(check.todo)})
          /\ check' = [check EXCEPT !.todo = Tail(@)]
          /\ UNCHANGED setupFaults
       \/ /\ check' = Checked(TRUE)
          /\ SetupFault
          /\ UNCHANGED <<up, nodeConfig>>
       \/ /\ program[Head(check.todo)] = "none"
          /\ check' = Checked(TRUE)
          /\ UNCHANGED <<up, nodeConfig, setupFaults>>
    /\ UNCHANGED <<bundle, app, desktop_role, update, config, machines, lastId, command>>

Restarted ==
    /\ check.at = "restart" /\ check.todo = <<>>
    /\ check' = Checked(FALSE)
    /\ UNCHANGED <<bundle, app, desktop_role, update, serviceVars, config, machines, lastId, command,
                   setupFaults>>

-----------------------------------------------------------------------------
(* The surroundings.                                                       *)

\* A process ends and its manager starts it again, or everything does at boot.
ServicesRestart(parts) ==
    /\ parts # {} /\ \A p \in parts : program[p] # "none"
    /\ UNCHANGED program /\ Start(parts)
    /\ UNCHANGED <<bundle, app, desktop_role, update, config, machines, lastId, command, check,
                   setupFaults>>

\* The machine is removed on the hub, or the hub's database is reset.
MachineRemoved ==
    /\ machines # {} /\ machines' = {}
    /\ command' = IF NoneUnderWay(command.at) THEN command ELSE [command EXCEPT !.removed = TRUE]
    /\ UNCHANGED <<bundle, app, desktop_role, update, serviceVars, config, lastId, check, setupFaults>>

SetupNext ==
    \/ hub_install \/ wait_for_hub \/ RegisterLocalNode \/ RegisterElsewhere
    \/ RegisterRequest \/ RegisterUnanswered \/ save_config \/ FinishRegister
    \/ node_service_install \/ hub_uninstall \/ cloud_install
    \/ \E r \in {"hub", "client"} : set_desktop_role(r)
    \/ WindowUpdates \/ restart_to_update \/ QuitApp
    \/ reconcile \/ running_hub \/ running_node \/ restart \/ Restarted
    \/ ServicesRestart({p \in Parts : program[p] # "none"})
    \/ \E p \in Parts : ServicesRestart({p})
    \/ MachineRemoved

SetupSpec == SetupInit /\ [][SetupNext]_setupVars

-----------------------------------------------------------------------------
(* Properties.                                                             *)

\* An installation that reports success leaves a machine that can be used:
\* the node's service runs with a registration this hub has, unless the node
\* belongs to another hub or the machine was removed after it was looked up.
InstallMeansUsable ==
      (command.at = "service" /\ command'.at = "done")
          => /\ up'["node"] # Stopped /\ nodeConfig' = config'
             /\ config'.hub = "here"
             /\ config'.id \in machines' \/ command.removed

\* The node that runs uses the registration on disk: writing a new one never
\* leaves a service connected to the hub of the old one.
NodeUsesItsConfig ==
    (setupFaults = 0 /\ command.at # "restart" /\ up["node"] # Stopped) => nodeConfig = config

\* A launch whose check was answered and met no error leaves the hub and the
\* node that run from the bundle on the bundle's version.
LaunchBringsUpToDate ==
      (check.at = "restart" /\ check'.at = "done" /\ ~check'.error /\ check.hub # Unknown
          /\ check.bundled = bundle)
        => /\ program["hub"] = "bundle" => up["hub"] \in {bundle, Stopped}
           /\ (program["node"] = "bundle" /\ program["hub"] = "bundle"
                 /\ (check.node # Unknown \/ check.hub # bundle))
              => up["node"] \in {bundle, Stopped}

\* A machine uses its registration, is usable when an installation says so,
\* and runs the version of the bundle after a launch.
SetupIsSound ==
    /\ [](SetupTypeOK /\ NodeUsesItsConfig)
    /\ [][InstallMeansUsable /\ LaunchBringsUpToDate]_setupVars
=============================================================================
