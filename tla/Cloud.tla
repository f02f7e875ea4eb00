------------------------------- MODULE Cloud -------------------------------
(***************************************************************************)
(* The managed connection of a hub: the commands that install, check and   *)
(* disable it (hub/src/cloud.rs), the connector its user service runs      *)
(* (cloud_connector.rs for a tunnel, cloud_relay.rs for the relay), and    *)
(* the addresses the hub advertises to its apps.                           *)
(*                                                                         *)
(* Several hubs of one user share one service file.  A command is a        *)
(* process of its own that may stop at any step: the steps below are the   *)
(* file writes and the calls to the service manager and to offdesk.so,     *)
(* whose answer may fail to arrive although it did what it was asked.      *)
(***************************************************************************)
EXTENDS Naturals, FiniteSets, Sequences

CONSTANTS
    Instances,      \* hubs of one user
    Slugs,          \* relay names a hub may be given
    RelayRegions,   \* regions of the relay
    MaxFailures,    \* failed probes before a connector is restarted (3)
    MaxStreams,     \* phones one control connection serves (32)
    MaxCommands,    \* bound: commands run
    MaxKills,       \* bound: processes killed
    CloudPlans,     \* bounds: which hubs, transports and traffic a behaviour has
    Absent          \* no registration, file, lock holder, relay or region

VARIABLES
    cloudPlan,           \* the member of CloudPlans this behaviour keeps to
    registration,   \* per hub: registration.json
    verified_url,   \* per hub: the file of the advertised address
    verified_routes,\* per hub: the file of the regional routes
    op,             \* per hub: the command that holds operation.lock, and where it is
    service_lock,   \* the hub whose command holds the user's service lock
    service_owner,  \* the hub the user's service file names
    remote,         \* per hub: what offdesk.so has for it
    connector,      \* per hub: the process of its service
    children,       \* per hub: cloudflared processes alive, and what the probe finds
    failures,       \* per hub: failed probes in a row
    control,        \* per hub and region: the control connection to the relay
    streams,        \* per hub and region: phones joined through it
    origin,         \* per hub: its encrypted listener answers
    disabled,       \* hubs whose last command was a disable that succeeded
    commands, kills

cloudFiles == <<registration, verified_url, verified_routes>>
cloudRun == <<connector, children, failures, control, streams>>
cloudRest == <<cloudPlan, origin, kills>>
cloudVars == <<cloudFiles, op, service_lock, service_owner, remote, cloudRun, cloudRest, disabled, commands>>

Relays == [slug : Slugs, home : RelayRegions, backup : RelayRegions \cup {Absent}]
connect(relay) == {<<relay.slug, r>> : r \in {relay.home, relay.backup} \ {Absent}}
NoCommand == [at |-> "idle", relay |-> Absent, ok |-> TRUE]
Off == [r \in RelayRegions |-> "off"]

CloudTypeOK ==
    /\ \A h \in Instances : registration[h] = Absent \/ registration[h].relay \in Relays \cup {Absent}
    /\ \A h \in Instances : verified_url[h] \in Slugs \cup {"tunnel", Absent}
    /\ service_owner \in Instances \cup {Absent} /\ service_lock \in Instances \cup {Absent}
    /\ \A h \in Instances : connector[h].as \in {"none", "starting", "relay", "tunnel", "waiting"}

CloudInit ==
    /\ cloudPlan \in CloudPlans
    /\ registration = [h \in Instances |-> Absent]
    /\ verified_url = [h \in Instances |-> Absent] /\ verified_routes = [h \in Instances |-> {}]
    /\ op = [h \in Instances |-> NoCommand]
    /\ service_lock = Absent /\ service_owner = Absent
    /\ remote = [h \in Instances |-> "none"]
    /\ connector = [h \in Instances |-> [as |-> "none", relay |-> Absent]]
    /\ children = [h \in Instances |-> <<>>] /\ failures = [h \in Instances |-> 0]
    /\ control = [h \in Instances |-> Off] /\ streams = [h \in Instances |-> [r \in RelayRegions |-> 0]]
    /\ origin = [h \in Instances |-> TRUE]
    /\ disabled = {} /\ commands = 0 /\ kills = 0

-----------------------------------------------------------------------------
(* The addresses. *)

(* Where phones reach the hub: its relay address or its tunnel's. *)
remote_url(reg) == IF reg.relay = Absent THEN "tunnel" ELSE reg.relay.slug

advertised_url(h) == verified_url[h]
(* The regional routes count only beside the relay address they belong to. *)
advertised_routes(h) == {r \in verified_routes[h] : r[1] = advertised_url(h)}

(* Home and backup region: what was asked for, else what is in use, else   *)
(* the fastest of those measured (ranked); Absent for a request refused.   *)
DefaultRegion == CHOOSE r \in RelayRegions : TRUE
Rankings == {<<>>} \cup {s \in UNION {[1 .. n -> RelayRegions] : n \in 1 .. Cardinality(RelayRegions)} :
                            \A i, j \in DOMAIN s : s[i] = s[j] => i = j}
FirstOther(ranked, home) ==
    LET other == {i \in DOMAIN ranked : ranked[i] # home} IN
    IF other = {} THEN Absent ELSE ranked[CHOOSE i \in other : \A j \in other : i <= j]
choose(ranked, current, home, backup) ==
    LET auto == home = "auto" \/ (home = "unset" /\ current = Absent)
        chosen == IF auto THEN (IF ranked = <<>> THEN DefaultRegion ELSE ranked[1])
                  ELSE IF home = "unset" THEN current.home ELSE home
        spare == IF backup = "none" THEN Absent
                 ELSE IF backup # "unset" THEN backup
                 ELSE IF auto \/ current = Absent THEN FirstOther(ranked, chosen)
                 ELSE IF current.backup = chosen THEN Absent ELSE current.backup
    IN IF spare = chosen THEN Absent ELSE [home |-> chosen, backup |-> spare]

-----------------------------------------------------------------------------
(* Commands. *)

At(h, where) == op[h].at = where
Goto(h, where) == op' = [op EXCEPT ![h].at = where]
EndCommand(h) ==
    /\ op' = [op EXCEPT ![h] = NoCommand]
    /\ service_lock' = IF service_lock = h THEN Absent ELSE service_lock

(* Only one command of a hub runs at a time: operation.lock. *)
Begin(h) ==
    /\ h \in cloudPlan.hubs /\ At(h, "idle") /\ commands < MaxCommands
    /\ commands' = commands + 1 /\ disabled' = disabled \ {h}

(* Mutant of TakeServiceLock: the commands of two hubs may overlap. *)
NoServiceLock(h) == service_lock' = h

TakeServiceLock(h) == service_lock = Absent /\ service_lock' = h
service_is_owned(h) == service_owner \in {h, Absent}
check_local(h) == origin[h]

(* enroll and login: a registration is made once and kept, so that both    *)
(* can be repeated after an answer was lost.                               *)
load_or_create(h) ==
    /\ Begin(h)
    /\ registration' = [registration EXCEPT ![h] = IF @ = Absent THEN [enabled |-> FALSE, relay |-> Absent] ELSE @]
    /\ UNCHANGED <<verified_url, verified_routes, op, service_lock, service_owner, remote, cloudRun, cloudRest>>

install(h) ==
    /\ Begin(h) /\ registration[h] # Absent
    /\ TakeServiceLock(h) /\ service_is_owned(h) /\ check_local(h)
    /\ \E where \in {"ask relay", "find cloudflared"} \cap cloudPlan.asks : Goto(h, where)
    /\ UNCHANGED <<cloudFiles, service_owner, remote, cloudRun, cloudRest>>

(* A request to offdesk.so: what it asks for may be done, or not, and an   *)
(* answer that arrives says that it was.                                   *)
api_request(h, state) == remote' = [remote EXCEPT ![h] = state] \/ UNCHANGED remote
Answered(h, state) == remote'[h] = state

(* The hub is woken, its regions are chosen and offdesk.so answers with    *)
(* the addresses, or not.                                                  *)
InstallAsksRelay(h) ==
    /\ At(h, "ask relay") /\ api_request(h, "active")
    /\ \/ EndCommand(h)
       \/ \E ranked \in Rankings, slug \in cloudPlan.slugs, home \in cloudPlan.homes, backup \in cloudPlan.backups :
             LET regions == choose(ranked, registration[h].relay, home, backup) IN
             /\ Answered(h, "active") /\ regions # Absent
             /\ op' = [op EXCEPT ![h].at = "drop routes",
                                 ![h].relay = [slug |-> slug, home |-> regions.home, backup |-> regions.backup]]
             /\ UNCHANGED service_lock
    /\ UNCHANGED <<cloudFiles, service_owner, cloudRun, cloudRest, disabled, commands>>

(* For a tunnel, cloudflared is found or the pinned release downloaded. *)
DownloadConnector(h) ==
    /\ At(h, "find cloudflared")
    /\ EndCommand(h) \/ (Goto(h, "ask tunnel") /\ UNCHANGED service_lock)
    /\ UNCHANGED <<cloudFiles, service_owner, remote, cloudRun, cloudRest, disabled, commands>>

InstallAsksTunnel(h) ==
    /\ At(h, "ask tunnel") /\ api_request(h, "active")
    /\ EndCommand(h) \/ (Answered(h, "active") /\ Goto(h, "save") /\ UNCHANGED service_lock)
    /\ UNCHANGED <<cloudFiles, service_owner, cloudRun, cloudRest, disabled, commands>>

(* What the relay replaces is no longer advertised ... *)
InstallDropsRoutes(h) ==
    /\ At(h, "drop routes") /\ Goto(h, "drop url")
    /\ verified_routes' = [verified_routes EXCEPT ![h] = {}]
    /\ UNCHANGED <<registration, verified_url, service_lock, service_owner, remote, cloudRun, cloudRest, disabled, commands>>

(* Mutant of InstallDropsUrl: the address is kept until the new one is checked. *)
InstallKeepsUrl(h) ==
    /\ At(h, "drop url") /\ Goto(h, "save")
    /\ UNCHANGED <<cloudFiles, service_lock, service_owner, remote, cloudRun, cloudRest, disabled, commands>>

InstallDropsUrl(h) ==
    /\ At(h, "drop url") /\ Goto(h, "save")
    /\ verified_url' = [verified_url EXCEPT ![h] = IF @ = op[h].relay.slug THEN @ ELSE Absent]
    /\ UNCHANGED <<registration, verified_routes, service_lock, service_owner, remote, cloudRun, cloudRest, disabled, commands>>

(* ... before the new addresses are saved. *)
InstallSaves(h) ==
    /\ At(h, "save") /\ Goto(h, "install service")
    /\ registration' = [registration EXCEPT ![h] = [enabled |-> TRUE, relay |-> op[h].relay]]
    /\ UNCHANGED <<verified_url, verified_routes, service_lock, service_owner, remote, cloudRun, cloudRest, disabled, commands>>

Stopped(h) ==
    /\ connector' = [connector EXCEPT ![h] = [as |-> "none", relay |-> Absent]]
    /\ children' = [children EXCEPT ![h] = IF connector[h].as = "tunnel" THEN <<>> ELSE @]
    /\ failures' = [failures EXCEPT ![h] = 0]
    /\ control' = [control EXCEPT ![h] = Off]
    /\ streams' = [streams EXCEPT ![h] = [r \in RelayRegions |-> 0]]

(* The file is written, then the service restarted; either may fail. *)
InstallService(h) ==
    /\ At(h, "install service") /\ EndCommand(h)
    /\ \/ UNCHANGED <<service_owner, cloudRun>>
       \/ service_owner' = h /\ (Stopped(h) \/ UNCHANGED cloudRun)
    /\ UNCHANGED <<cloudFiles, remote, cloudRest, disabled, commands>>

-----------------------------------------------------------------------------
disable(h) ==
    /\ Begin(h) /\ registration[h] # Absent
    /\ registration' = [registration EXCEPT ![h].enabled = FALSE]
    /\ Goto(h, "forget url")
    /\ UNCHANGED <<verified_url, verified_routes, service_lock, service_owner, remote, cloudRun, cloudRest>>

DisableForgetsUrl(h) ==
    /\ At(h, "forget url") /\ Goto(h, "forget routes")
    /\ verified_url' = [verified_url EXCEPT ![h] = Absent]
    /\ UNCHANGED <<registration, verified_routes, service_lock, service_owner, remote, cloudRun, cloudRest, disabled, commands>>

DisableForgetsRoutes(h) ==
    /\ At(h, "forget routes")
    /\ verified_routes' = [verified_routes EXCEPT ![h] = {}]
    /\ \/ TakeServiceLock(h) /\ Goto(h, "stop")
       \/ service_lock # Absent /\ EndCommand(h)
    /\ UNCHANGED <<registration, verified_url, service_owner, remote, cloudRun, cloudRest, disabled, commands>>

(* uninstall stops the service, whether or not that works, and removes     *)
(* its file.                                                               *)
DisableStops(h) ==
    /\ At(h, "stop")
    /\ \/ /\ service_owner = h /\ service_owner' = Absent
          /\ op' = [op EXCEPT ![h].at = "revoke"] /\ (Stopped(h) \/ UNCHANGED cloudRun)
       \/ /\ service_owner = h /\ UNCHANGED service_owner
          /\ op' = [op EXCEPT ![h].at = "revoke", ![h].ok = FALSE] /\ (Stopped(h) \/ UNCHANGED cloudRun)
       \/ /\ service_owner # h /\ UNCHANGED <<service_owner, cloudRun>>
          /\ op' = [op EXCEPT ![h].at = "revoke", ![h].ok = service_is_owned(h)]
    /\ UNCHANGED <<cloudFiles, service_lock, remote, cloudRest, disabled, commands>>

(* Mutant of DisableRevokes: that the service could not be removed is forgotten. *)
DisableForgetsError(h) ==
    /\ At(h, "revoke") /\ EndCommand(h)
    /\ api_request(h, "revoked")
    /\ UNCHANGED disabled \/ (Answered(h, "revoked") /\ disabled' = disabled \cup {h})
    /\ UNCHANGED <<cloudFiles, service_owner, cloudRun, cloudRest, commands>>

(* The remote end is revoked even if the service could not be removed, but *)
(* the command then fails and has to be repeated.                          *)
DisableRevokes(h) ==
    /\ At(h, "revoke") /\ EndCommand(h)
    /\ api_request(h, "revoked")
    /\ UNCHANGED disabled \/ (Answered(h, "revoked") /\ op[h].ok /\ disabled' = disabled \cup {h})
    /\ UNCHANGED <<cloudFiles, service_owner, cloudRun, cloudRest, commands>>

-----------------------------------------------------------------------------
(* check: the address is probed from outside; only what passes is written. *)

Check(h) ==
    /\ Begin(h) /\ registration[h] # Absent /\ registration[h].enabled /\ remote[h] = "active"
    /\ Goto(h, "write routes")
    /\ UNCHANGED <<cloudFiles, service_lock, service_owner, remote, cloudRun, cloudRest>>

CheckWritesRoutes(h) ==
    /\ At(h, "write routes")
    /\ \/ EndCommand(h) /\ UNCHANGED verified_routes
       \/ /\ origin[h] /\ Goto(h, "write url") /\ UNCHANGED service_lock
          /\ \E passed \in SUBSET IF registration[h].relay = Absent THEN {} ELSE connect(registration[h].relay) :
                verified_routes' = [verified_routes EXCEPT ![h] = passed]
    /\ UNCHANGED <<registration, verified_url, service_owner, remote, cloudRun, cloudRest, disabled, commands>>

CheckWritesUrl(h) ==
    /\ At(h, "write url") /\ EndCommand(h)
    /\ verified_url' = [verified_url EXCEPT ![h] = remote_url(registration[h])]
    /\ UNCHANGED <<registration, verified_routes, service_owner, remote, cloudRun, cloudRest, disabled, commands>>

(* A command is killed: its locks are released by the system. *)
CommandKilled(h) ==
    /\ ~At(h, "idle") /\ kills < MaxKills /\ kills' = kills + 1 /\ EndCommand(h)
    /\ UNCHANGED <<cloudFiles, service_owner, remote, cloudRun, cloudPlan, origin, disabled, commands>>

-----------------------------------------------------------------------------
(* The connector. *)

(* Mutant of ConnectorLockFree: only a live supervisor holds the lock. *)
SupervisorGone(h) == connector[h].as = "none"

(* connector.lock is held by the supervisor and by its child. *)
ConnectorLockFree(h) == connector[h].as = "none" /\ children[h] = <<>>

(* The service manager starts the service again whenever it has ended. *)
run_service(h) ==
    /\ cloudPlan.serves /\ service_owner = h /\ registration[h].enabled /\ ConnectorLockFree(h)
    /\ connector' = [connector EXCEPT ![h] = [as |-> "starting", relay |-> registration[h].relay]]
    /\ UNCHANGED <<cloudFiles, op, service_lock, service_owner, remote, children, failures, control, streams, cloudRest, disabled, commands>>

(* For the relay, offdesk.so has the last word on the addresses; without   *)
(* an answer the saved ones are used.                                      *)
run_relay(h) ==
    /\ connector[h].as = "starting" /\ connector[h].relay # Absent /\ check_local(h)
    /\ \E slug \in cloudPlan.slugs :
          connector' = [connector EXCEPT ![h] = [as |-> "relay", relay |-> [@.relay EXCEPT !.slug = slug]]]
    /\ control' = [control EXCEPT ![h] = [r \in RelayRegions |->
            IF r \in {connector[h].relay.home, connector[h].relay.backup} THEN "dialling" ELSE "off"]]
    /\ UNCHANGED <<cloudFiles, op, service_lock, service_owner, remote, children, failures, streams, cloudRest, disabled, commands>>

Spawn(h) ==
    /\ connector' = [connector EXCEPT ![h] = [as |-> "tunnel", relay |-> Absent]]
    /\ children' = [children EXCEPT ![h] = Append(@, "working")]

run_tunnel(h) ==
    /\ connector[h].as = "starting" /\ connector[h].relay = Absent
    /\ check_local(h) /\ remote[h] = "active" /\ Spawn(h)
    /\ UNCHANGED <<cloudFiles, op, service_lock, service_owner, remote, failures, control, streams, cloudRest, disabled, commands>>

RunFails(h) ==
    /\ connector[h].as = "starting" /\ Stopped(h)
    /\ UNCHANGED <<cloudFiles, op, service_lock, service_owner, remote, cloudRest, disabled, commands>>

(* What a probe finds, and how many in a row have failed. *)
Health(h) == IF ~origin[h] THEN "OriginUnavailable"
             ELSE IF children[h][Len(children[h])] = "working" THEN "Connected" ELSE "TunnelUnavailable"
observe(h) == IF Health(h) = "TunnelUnavailable" THEN failures[h] + 1 ELSE 0

(* Mutant of stop: the old connector is not waited for. *)
StopWithoutWaiting(h) == children' = [children EXCEPT ![h] = IF @ = <<>> THEN @ ELSE <<"stuck">>]

stop(h) == children' = [children EXCEPT ![h] = <<>>]

supervise(h) ==
    /\ connector[h].as = "tunnel" /\ children[h] # <<>>
    /\ IF observe(h) >= MaxFailures
       THEN /\ stop(h) /\ failures' = [failures EXCEPT ![h] = 0]
            /\ connector' = [connector EXCEPT ![h].as = "waiting"]
       ELSE failures' = [failures EXCEPT ![h] = observe(h)] /\ UNCHANGED <<children, connector>>
    /\ UNCHANGED <<cloudFiles, op, service_lock, service_owner, remote, control, streams, cloudRest, disabled, commands>>

ChildExits(h) ==
    /\ children[h] # <<>>
    /\ children' = [children EXCEPT ![h] = Tail(@)]
    /\ IF connector[h].as = "tunnel"
       THEN failures' = [failures EXCEPT ![h] = 0] /\ connector' = [connector EXCEPT ![h].as = "waiting"]
       ELSE UNCHANGED <<failures, connector>>
    /\ UNCHANGED <<cloudFiles, op, service_lock, service_owner, remote, control, streams, cloudRest, disabled, commands>>

restart_delay(h) ==
    /\ connector[h].as = "waiting" /\ Spawn(h)
    /\ UNCHANGED <<cloudFiles, op, service_lock, service_owner, remote, failures, control, streams, cloudRest, disabled, commands>>

ChildSticks(h) ==
    /\ cloudPlan.faults /\ children[h] = <<"working">>
    /\ children' = [children EXCEPT ![h] = <<"stuck">>]
    /\ UNCHANGED <<cloudFiles, op, service_lock, service_owner, remote, connector, failures, control, streams, cloudRest, disabled, commands>>

OriginChanges(h) ==
    /\ cloudPlan.faults /\ h \in cloudPlan.hubs /\ origin' = [origin EXCEPT ![h] = ~@]
    /\ UNCHANGED <<cloudFiles, op, service_lock, service_owner, remote, cloudRun, cloudPlan, kills, disabled, commands>>

(* The supervisor is killed abruptly: its child lives on. *)
ConnectorKilled(h) ==
    /\ connector[h].as # "none" /\ kills < MaxKills /\ kills' = kills + 1
    /\ connector' = [connector EXCEPT ![h] = [as |-> "none", relay |-> Absent]]
    /\ failures' = [failures EXCEPT ![h] = 0] /\ control' = [control EXCEPT ![h] = Off]
    /\ streams' = [streams EXCEPT ![h] = [r \in RelayRegions |-> 0]]
    /\ UNCHANGED <<cloudFiles, op, service_lock, service_owner, remote, children, cloudPlan, origin, disabled, commands>>

(* The control connection of a region is made, ends and is made again. *)
control_with(h, r) ==
    /\ control[h][r] = "dialling"
    /\ control' = [control EXCEPT ![h][r] = IF remote[h] = "active" THEN "up" ELSE "not allowed"]
    /\ UNCHANGED <<cloudFiles, op, service_lock, service_owner, remote, connector, children, failures, streams, cloudRest, disabled, commands>>

(* It ends: closed, silent, replaced, restarted or no longer allowed.      *)
(* The streams that were joined go on.                                     *)
ControlEnds(h, r) ==
    /\ control[h][r] = "up" /\ control' = [control EXCEPT ![h][r] = "ended"]
    /\ UNCHANGED <<cloudFiles, op, service_lock, service_owner, remote, connector, children, failures, streams, cloudRest, disabled, commands>>

keep_connected(h, r) ==
    /\ control[h][r] \in {"ended", "not allowed"}
    /\ control' = [control EXCEPT ![h][r] = "dialling"]
    /\ UNCHANGED <<cloudFiles, op, service_lock, service_owner, remote, connector, children, failures, streams, cloudRest, disabled, commands>>

open_request(h, r) ==
    /\ cloudPlan.faults /\ control[h][r] = "up" /\ streams[h][r] < MaxStreams
    /\ streams' = [streams EXCEPT ![h][r] = @ + 1]
    /\ UNCHANGED <<cloudFiles, op, service_lock, service_owner, remote, connector, children, failures, control, cloudRest, disabled, commands>>

(* Either end of a stream closes, or one of them could not be dialled. *)
pipe(h, r) ==
    /\ streams[h][r] > 0 /\ streams' = [streams EXCEPT ![h][r] = @ - 1]
    /\ UNCHANGED <<cloudFiles, op, service_lock, service_owner, remote, connector, children, failures, control, cloudRest, disabled, commands>>

-----------------------------------------------------------------------------
CommandStep(h) ==
    \/ load_or_create(h) \/ install(h) \/ InstallAsksRelay(h)
    \/ DownloadConnector(h) \/ InstallAsksTunnel(h)
    \/ InstallDropsRoutes(h) \/ InstallDropsUrl(h) \/ InstallSaves(h) \/ InstallService(h)
    \/ disable(h) \/ DisableForgetsUrl(h) \/ DisableForgetsRoutes(h) \/ DisableStops(h)
    \/ DisableRevokes(h) \/ Check(h) \/ CheckWritesRoutes(h) \/ CheckWritesUrl(h) \/ CommandKilled(h)

ConnectorStep(h) ==
    \/ run_service(h) \/ run_relay(h) \/ run_tunnel(h) \/ RunFails(h) \/ supervise(h)
    \/ ChildExits(h) \/ restart_delay(h) \/ ChildSticks(h) \/ OriginChanges(h) \/ ConnectorKilled(h)
    \/ \E r \in RelayRegions :
          control_with(h, r) \/ ControlEnds(h, r) \/ keep_connected(h, r) \/ open_request(h, r) \/ pipe(h, r)

CloudNext == \E h \in Instances : CommandStep(h) \/ ConnectorStep(h)

CloudSpec == CloudInit /\ [][CloudNext]_cloudVars

-----------------------------------------------------------------------------
(* While a hub is on the relay, only its present relay address and its     *)
(* present regions can be advertised: what an install replaces is gone     *)
(* before the new addresses are saved, at whichever step a command stops   *)
(* ("Stop advertising what the relay replaces", cloud.rs).                 *)
AdvertisedIsCurrent ==
    \A h \in Instances :
        registration[h] # Absent /\ registration[h].enabled /\ registration[h].relay # Absent =>
            /\ advertised_url(h) \in {Absent, registration[h].relay.slug}
            /\ advertised_routes(h) \subseteq connect(registration[h].relay)

(* Only a command of the hub that owns the user's connector service gives  *)
(* it up: two hubs that install at the same time cannot replace each       *)
(* other's service (service_is_owned is decided several steps before the   *)
(* file is written).                                                       *)
OwnerIsUndisturbed ==
    \A h \in Instances : service_owner = h /\ service_owner' # h => op[h].at = "stop"

(* A disable that reports success has left nothing behind: the hub is not  *)
(* advertised, its service file is gone and its remote end is revoked.     *)
DisabledIsOff ==
    \A h \in disabled :
        /\ ~registration[h].enabled /\ advertised_url(h) = Absent /\ verified_routes[h] = {}
        /\ service_owner # h /\ remote[h] = "revoked"

(* Two connectors of one hub never overlap, not even while the child of a  *)
(* killed supervisor lives on or a stuck connector is being replaced.      *)
OneConnector == \A h \in Instances : Len(children[h]) <= 1
=============================================================================
