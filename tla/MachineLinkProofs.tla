--------------------------- MODULE MachineLinkProofs ---------------------------
(* Proofs about a machine: its link to the hub (MachineLink), for any      *)
(* number of connections and sockets, and its set-up (MachineSetup), for   *)
(* any number of versions, registrations and faults. They share no         *)
(* variable.                                                               *)
EXTENDS MachineLink, MachineSetup, SequenceTheorems, FiniteSetTheorems, TLAPS

(* What the handlers do to queues of commands and of attach ids. *)
LEMMA AppendTyped ==
    ASSUME NEW S, NEW q \in Seq(S), NEW e \in S
    PROVE  Append(q, e) \in Seq(S)
OBVIOUS

LEMMA TailTyped ==
    ASSUME NEW S, NEW q \in Seq(S), q # <<>>
    PROVE  Head(q) \in S /\ Tail(q) \in Seq(S)
OBVIOUS

LEMMA EmptyTyped ==
    ASSUME NEW S
    PROVE  <<>> \in Seq(S)
OBVIOUS

(* The state around handle_machine_ws and handle_terminal_ws keeps its     *)
(* types, and tmux clients exist only under a connection.                  *)
THEOREM LinkTypes == Spec => []TypeOK
<1>1. Init => TypeOK
  BY EmptyTyped DEF Init, TypeOK, Handler, Socket
<1>2. TypeOK /\ [Next]_vars => TypeOK'
  <2> SUFFICES ASSUME TypeOK, [Next]_vars PROVE TypeOK'
    OBVIOUS
  <2> USE LinkAssumption DEF TypeOK, Handler, Socket, hub, sockets, node
  <2>1. ASSUME NEW c \in Conn, HubStep(c) PROVE TypeOK'
    <3>1. CASE Register(c)
      BY <3>1 DEF Register
    <3>2. CASE EndSuperseded(c)
      BY <3>2 DEF EndSuperseded, EndHandler
    <3>3. CASE MarkOffline(c)
      BY <3>3 DEF MarkOffline
    <3>4. CASE unregister_machine(c)
      BY <3>4 DEF unregister_machine
    <3>5. CASE drop_machine(c)
      BY <3>5 DEF drop_machine
    <3>6. CASE AttachDied(c)
      <4>1. events[c] \in Seq(Sock) /\ events[c] # <<>>
        BY <3>6 DEF AttachDied
      <4>2. Tail(events[c]) \in Seq(Sock)
        BY <4>1, TailTyped
      <4>3. events' \in [Conn -> Seq(Sock)]
        BY <3>6, <4>2 DEF AttachDied
      <4> QED BY <3>6, <4>3 DEF AttachDied
    <3> QED BY <2>1, <3>1, <3>2, <3>3, <3>4, <3>5, <3>6 DEF HubStep
  <2>2. ASSUME NEW s \in Sock, SocketStep(s) PROVE TypeOK'
    <3>1. CASE LookUpOpen(s)
      <4>1. CASE /\ current # NoConn /\ target' = [target EXCEPT ![s] = current]
                 /\ sock' = [sock EXCEPT ![s] = "opening"] /\ UNCHANGED routes
        BY <3>1, <4>1 DEF LookUpOpen
      <4>2. CASE /\ sock' = [sock EXCEPT ![s] = "closed"] /\ routes' \subseteq routes
                 /\ UNCHANGED target
        BY <3>1, <4>2 DEF LookUpOpen
      <4> QED BY <3>1, <4>1, <4>2 DEF LookUpOpen
    <3>2. CASE OpenAttach(s)
      <4>1. CASE Listening(target[s]) /\ target[s] \in Conn
        <5>1. [type |-> "OpenAttach", id |-> s] \in Command
          BY DEF Command
        <5>2. Append(cmds[target[s]], [type |-> "OpenAttach", id |-> s]) \in Seq(Command)
          BY <4>1, <5>1, AppendTyped
        <5>3. cmds' \in [Conn -> Seq(Command)]
          BY <3>2, <4>1, <5>2 DEF OpenAttach
        <5> QED BY <3>2, <4>1, <5>3 DEF OpenAttach
      <4>2. CASE ~Listening(target[s])
        BY <3>2, <4>2 DEF OpenAttach
      <4>3. CASE target[s] \notin Conn
        <5>1. cmds' \in [Conn -> Seq(Command)]
          BY <3>2, <4>3 DEF OpenAttach
        <5> QED BY <3>2, <5>1 DEF OpenAttach
      <4> QED BY <4>1, <4>2, <4>3
    <3>3. CASE RouteClosed(s)
      BY <3>3 DEF RouteClosed, BrowserCloses
    <3>4. CASE LookUpClose(s)
      <4>1. CASE /\ current # NoConn /\ target' = [target EXCEPT ![s] = current]
                 /\ sock' = [sock EXCEPT ![s] = "telling"] /\ UNCHANGED routes
        BY <3>4, <4>1 DEF LookUpClose
      <4>2. CASE /\ sock' = [sock EXCEPT ![s] = "unrouting"] /\ routes' \subseteq routes
                 /\ UNCHANGED target
        BY <3>4, <4>2 DEF LookUpClose
      <4> QED BY <3>4, <4>1, <4>2 DEF LookUpClose
    <3>5. CASE CloseAttach(s)
      <4>1. CASE Listening(target[s]) /\ target[s] \in Conn
        <5>1. [type |-> "CloseAttach", id |-> s] \in Command
          BY DEF Command
        <5>2. Append(cmds[target[s]], [type |-> "CloseAttach", id |-> s]) \in Seq(Command)
          BY <4>1, <5>1, AppendTyped
        <5>3. cmds' \in [Conn -> Seq(Command)]
          BY <3>5, <4>1, <5>2 DEF CloseAttach
        <5> QED BY <3>5, <4>1, <5>3 DEF CloseAttach
      <4>2. CASE ~Listening(target[s])
        BY <3>5, <4>2 DEF CloseAttach
      <4>3. CASE target[s] \notin Conn
        <5>1. cmds' \in [Conn -> Seq(Command)]
          BY <3>5, <4>3 DEF CloseAttach
        <5> QED BY <3>5, <5>1 DEF CloseAttach
      <4> QED BY <4>1, <4>2, <4>3
    <3>6. CASE Unroute(s)
      BY <3>6 DEF Unroute
    <3> QED BY <2>2, <3>1, <3>2, <3>3, <3>4, <3>5, <3>6 DEF SocketStep
  <2>3. ASSUME Receive PROVE TypeOK'
    <3>1. /\ link \in Conn
          /\ cmds[link] \in Seq(Command) /\ cmds[link] # <<>>
      BY <2>3 DEF Receive
    <3>2. Head(cmds[link]) \in Command /\ Tail(cmds[link]) \in Seq(Command)
      BY <3>1, TailTyped
    <3>3. Head(cmds[link]).id \in Sock
      BY <3>2 DEF Command
    <3>4. cmds' \in [Conn -> Seq(Command)]
      BY <2>3, <3>1, <3>2 DEF Receive
    <3>5. Append(events[link], Head(cmds[link]).id) \in Seq(Sock)
      BY <3>1, <3>3, AppendTyped
    <3>6. events' \in [Conn -> Seq(Sock)]
      BY <2>3, <3>1, <3>5 DEF Receive
    <3>7. attach' \in SUBSET Sock /\ link' = link
      BY <2>3, <3>3 DEF Receive
    <3> QED BY <2>3, <3>1, <3>4, <3>6, <3>7 DEF Receive
  <2>4. ASSUME Environment PROVE TypeOK'
    <3>1. ASSUME NEW c \in Conn, Connect(c) PROVE TypeOK'
      BY <3>1 DEF Connect
    <3>2. ASSUME NEW c \in Conn, EndHandler(c) PROVE TypeOK'
      BY <3>2 DEF EndHandler
    <3>3. ASSUME NEW s \in Sock, OpenSocket(s) PROVE TypeOK'
      BY <3>3 DEF OpenSocket
    <3>4. ASSUME NEW s \in Sock, AckFails(s) PROVE TypeOK'
      BY <3>4 DEF AckFails
    <3>5. ASSUME NEW s \in Sock, BrowserCloses(s) PROVE TypeOK'
      BY <3>5 DEF BrowserCloses
    <3>6. ASSUME NEW s \in Sock, ResetCompressed(s) PROVE TypeOK'
      BY <3>6 DEF ResetCompressed
    <3>7. ASSUME NEW s \in Sock, AttachExits(s) PROVE TypeOK'
      <4>1. link \in Conn /\ events[link] \in Seq(Sock)
        BY <3>7 DEF AttachExits
      <4>2. Append(events[link], s) \in Seq(Sock)
        BY <4>1, AppendTyped
      <4>3. events' \in [Conn -> Seq(Sock)]
        BY <3>7, <4>1, <4>2 DEF AttachExits
      <4> QED BY <3>7, <4>1, <4>3 DEF AttachExits
    <3>8. ASSUME Leave PROVE TypeOK'
      BY <3>8, EmptyTyped DEF Leave
    <3> QED
      BY <2>4, <3>1, <3>2, <3>3, <3>4, <3>5, <3>6, <3>7, <3>8 DEF Environment
  <2>5. ASSUME UNCHANGED vars PROVE TypeOK'
    BY <2>5 DEF vars
  <2> QED BY <2>1, <2>2, <2>3, <2>4, <2>5 DEF Next
<1> QED BY <1>1, <1>2, PTL DEF Spec

(* No path out of handle_terminal_ws leaves a route in HubRouter. *)
THEOREM RoutesAreServed == Spec => []NoLeakedRoute
<1>1. Init => NoLeakedRoute
  BY DEF Init, NoLeakedRoute
<1>2. TypeOK /\ NoLeakedRoute /\ [Next]_vars => NoLeakedRoute'
  <2> SUFFICES ASSUME TypeOK, NoLeakedRoute, [Next]_vars PROVE NoLeakedRoute'
    OBVIOUS
  <2> USE DEF NoLeakedRoute, hub, sockets, node
  <2>0. sock \in [Sock -> Socket] /\ routes \in SUBSET Sock
    BY DEF TypeOK
  <2>1. ASSUME NEW c \in Conn, HubStep(c) PROVE NoLeakedRoute'
    BY <2>0, <2>1 DEF HubStep, Register, EndSuperseded, EndHandler, MarkOffline,
                      unregister_machine, drop_machine, AttachDied
  <2>2. ASSUME NEW s \in Sock, SocketStep(s) PROVE NoLeakedRoute'
    BY <2>0, <2>2 DEF SocketStep, LookUpOpen, OpenAttach, RouteClosed, BrowserCloses,
                      LookUpClose, CloseAttach, Unroute
  <2>3. ASSUME Receive PROVE NoLeakedRoute'
    BY <2>3 DEF Receive
  <2>4. ASSUME Environment PROVE NoLeakedRoute'
    BY <2>0, <2>4 DEF Environment, Connect, EndHandler, OpenSocket, AckFails,
                      BrowserCloses, ResetCompressed, AttachExits, Leave
  <2>5. ASSUME UNCHANGED vars PROVE NoLeakedRoute'
    BY <2>5 DEF vars
  <2> QED BY <2>1, <2>2, <2>3, <2>4, <2>5 DEF Next
<1> QED BY <1>1, <1>2, LinkTypes, PTL DEF Spec

(* unregister_machine compares conn_id, so a late cleanup never takes a    *)
(* running connection off the registry.                                    *)
THEOREM DisplacedByNewer == Spec => OnlyNewerDisplaces
<1> DEFINE Displaced ==
      (current # NoConn /\ handler[current] = "up" /\ current' # current)
        => (current' # NoConn /\ handler[current'] = "authenticated")
<1>1. TypeOK /\ [Next]_vars => Displaced
  <2> SUFFICES ASSUME TypeOK, [Next]_vars, current # NoConn,
                      handler[current] = "up", current' # current
               PROVE  current' # NoConn /\ handler[current'] = "authenticated"
    OBVIOUS
  <2> USE DEF hub
  <2>1. PICK c \in Conn : Register(c) \/ unregister_machine(c)
    <3>1. ~ \E s \in Sock : SocketStep(s)
      BY DEF SocketStep, LookUpOpen, OpenAttach, RouteClosed, BrowserCloses,
             LookUpClose, CloseAttach, Unroute
    <3>2. ~ Receive /\ ~ Environment /\ ~ UNCHANGED vars
      BY DEF Receive, Environment, Connect, EndHandler, OpenSocket, AckFails,
             BrowserCloses, ResetCompressed, AttachExits, Leave, vars
    <3> QED BY <3>1, <3>2 DEF Next, HubStep, EndSuperseded, EndHandler, MarkOffline,
                              drop_machine, AttachDied
  <2>2. ~ unregister_machine(c)
    BY DEF unregister_machine
  <2> QED BY <2>1, <2>2, LinkAssumption DEF Register
<1>2. TypeOK /\ [Next]_vars => [Displaced]_vars
  BY <1>1
<1> QED BY <1>2, LinkTypes, PTL DEF Spec, OnlyNewerDisplaces

(* Types and routes together: what the hub routes to a machine, a handler  *)
(* or a socket still serves.                                               *)
THEOREM LinkSound == Spec => []LinkIsSound
<1>1. TypeOK /\ NoLeakedRoute => LinkIsSound
  BY DEF LinkIsSound
<1> QED BY <1>1, LinkTypes, RoutesAreServed, PTL

-----------------------------------------------------------------------------
(* The set-up of the machine                                               *)

Configs == [hub : {"none", "here", "elsewhere"}, id : 0..MaxIds]
SetupCommands ==
    [at : {"idle", "wait", "local", "register", "save", "restart", "service", "done", "failed"},
     kind : {"install", "register"}, hub : {"here", "elsewhere"}, id : 0..MaxIds, removed : BOOLEAN]
Checks ==
    [at : {"idle", "hub", "node", "restart", "done"}, bundled : 0..MaxVersion, hub : 0..MaxVersion,
     node : 0..MaxVersion, todo : Seq(Parts), error : BOOLEAN]

SetupShape ==
    /\ SetupTypeOK
    /\ config \in Configs /\ nodeConfig \in Configs
    /\ command \in SetupCommands /\ check \in Checks

(* A part that is not installed does not run, and the node's service comes *)
(* from the bundle only where the hub's does.                              *)
UnitsRun ==
    /\ \A p \in Parts : program[p] = "none" => up[p] = Stopped
    /\ program["node"] = "bundle" => program["hub"] = "bundle"

(* A registration this hub gave, unless the machine was removed since.     *)
Given(id) == id \in machines \/ command.removed

(* What an installation has secured by the time it gets to the next step.  *)
InstallHolds ==
    /\ command.at \in {"wait", "local", "service"} => command.kind = "install"
    /\ (command.kind = "install" /\ ~NoneUnderWay(command.at))
         => command.hub = "here" /\ program["hub"] = "bundle"
    /\ (command.kind = "install" /\ command.at = "save") => Given(command.id)
    /\ (command.kind = "install" /\ command.at \in {"restart", "service"})
         => config.hub = "here" /\ Given(config.id)

(* A part that runs from the bundle runs the bundle's version.             *)
Current(p) == program[p] = "bundle" => up[p] \in {bundle, Stopped}

(* Only a running application checks.                                      *)
ChecksEnd == app = Stopped => check.at = "idle"

(* What a check whose hub answered has still to restart is in its plan.    *)
CheckHolds ==
    /\ check.bundled <= bundle
    /\ check.at \in {"hub", "node"} => check.node = Unknown
    /\ check.at = "node" => /\ check.hub = check.bundled /\ check.hub # Unknown
                             /\ "hub" \notin Listed(check.todo)
    /\ (check.at \in {"node", "restart"} /\ check.bundled = bundle /\ check.hub # Unknown)
         => "hub" \in Listed(check.todo) \/ Current("hub")
    /\ (check.at = "restart" /\ check.bundled = bundle /\ check.hub # Unknown
          /\ (check.node # Unknown \/ check.hub # bundle))
         => "node" \in Listed(check.todo) \/ Current("node")

SetupInv ==
    /\ SetupShape
    /\ UnitsRun
    /\ InstallHolds
    /\ ChecksEnd
    /\ CheckHolds
    /\ NodeUsesItsConfig

(* What a plan restarts.                                                   *)
LEMMA ListedConcat ==
    ASSUME NEW s \in Seq(Parts), NEW t \in Seq(Parts)
    PROVE  s \o t \in Seq(Parts) /\ Listed(s \o t) = Listed(s) \cup Listed(t)
<1>1. s \o t \in Seq(Parts)
  OBVIOUS
<1>2. ASSUME NEW x \in Listed(s) \cup Listed(t) PROVE x \in Listed(s \o t)
  <2>1. CASE x \in Listed(s)
    <3>1. PICK i \in 1..Len(s) : x = s[i]
      BY <2>1 DEF Listed
    <3>2. i \in 1..Len(s \o t) /\ (s \o t)[i] = x
      BY <3>1
    <3> QED BY <3>2 DEF Listed
  <2>2. CASE x \in Listed(t)
    <3>1. PICK i \in 1..Len(t) : x = t[i]
      BY <2>2 DEF Listed
    <3>2. Len(s) + i \in 1..Len(s \o t) /\ (s \o t)[Len(s) + i] = x
      BY <3>1
    <3> QED BY <3>2 DEF Listed
  <2> QED BY <1>2, <2>1, <2>2
<1>3. ASSUME NEW x \in Listed(s \o t) PROVE x \in Listed(s) \cup Listed(t)
  <2>1. PICK i \in 1..Len(s \o t) : x = (s \o t)[i]
    BY <1>3 DEF Listed
  <2>2. CASE i <= Len(s)
    <3>1. i \in 1..Len(s) /\ x = s[i]
      BY <2>1, <2>2
    <3> QED BY <3>1 DEF Listed
  <2>3. CASE i > Len(s)
    <3>1. i - Len(s) \in 1..Len(t) /\ x = t[i - Len(s)]
      BY <2>1, <2>3
    <3> QED BY <3>1 DEF Listed
  <2> QED BY <2>1, <2>2, <2>3
<1> QED BY <1>1, <1>2, <1>3

LEMMA ListedTail ==
    ASSUME NEW q \in Seq(Parts), q # <<>>
    PROVE  /\ Head(q) \in Parts /\ Tail(q) \in Seq(Parts)
           /\ Listed(q) = {Head(q)} \cup Listed(Tail(q))
<1>1. Head(q) \in Parts /\ Tail(q) \in Seq(Parts) /\ Len(Tail(q)) = Len(q) - 1
  OBVIOUS
<1>2. \A i \in 1..Len(Tail(q)) : Tail(q)[i] = q[i + 1]
  OBVIOUS
<1>3. Head(q) \in Listed(q) /\ Listed(Tail(q)) \subseteq Listed(q)
  <2>1. Head(q) = q[1] /\ 1 \in 1..Len(q)
    OBVIOUS
  <2>2. \A i \in 1..Len(Tail(q)) : i + 1 \in 1..Len(q)
    BY <1>1
  <2> QED BY <1>2, <2>1, <2>2 DEF Listed
<1>4. ASSUME NEW i \in 1..Len(q) PROVE q[i] \in {Head(q)} \cup Listed(Tail(q))
  <2>1. CASE i = 1
    BY <2>1
  <2>2. CASE i # 1
    <3>1. i - 1 \in 1..Len(Tail(q)) /\ (i - 1) + 1 = i
      BY <1>1, <2>2
    <3>2. q[i] = Tail(q)[i - 1]
      BY <1>2, <3>1
    <3> QED BY <3>1, <3>2 DEF Listed
  <2> QED BY <2>1, <2>2
<1> QED BY <1>1, <1>3, <1>4 DEF Listed

LEMMA PlanLists ==
    ASSUME NEW running, NEW other, NEW bundled
    PROVE  /\ plan(running, other, bundled) \in Seq(Parts)
           /\ "hub" \in Listed(plan(running, other, bundled))
                <=> (program["hub"] = "bundle" /\ behind(running, bundled))
           /\ "node" \in Listed(plan(running, other, bundled))
                <=> /\ program["node"] = "bundle"
                    /\ \/ behind(other, bundled)
                       \/ program["hub"] = "bundle" /\ behind(running, bundled) /\ other = Unknown
<1> DEFINE h == program["hub"] = "bundle" /\ behind(running, bundled)
           n == program["node"] = "bundle" /\ (behind(other, bundled) \/ (h /\ other = Unknown))
           c == h /\ program["cloud"] = "bundle"
           H == IF h THEN <<"hub">> ELSE <<>>
           N == IF n THEN <<"node">> ELSE <<>>
           C == IF c THEN <<"cloud">> ELSE <<>>
<1>1. \A p \in Parts : <<p>> \in Seq(Parts) /\ Listed(<<p>>) = {p}
  BY DEF Listed
<1>2. <<>> \in Seq(Parts) /\ Listed(<<>>) = {}
  BY DEF Listed
<1>3. "hub" \in Parts /\ "node" \in Parts /\ "cloud" \in Parts
  BY DEF Parts
<1>4. H \in Seq(Parts) /\ N \in Seq(Parts) /\ C \in Seq(Parts)
  BY <1>1, <1>2, <1>3
<1>5. /\ Listed(H) = IF h THEN {"hub"} ELSE {}
      /\ Listed(N) = IF n THEN {"node"} ELSE {}
      /\ Listed(C) = IF c THEN {"cloud"} ELSE {}
  BY <1>1, <1>2, <1>3
<1>6. plan(running, other, bundled) = (H \o N) \o C
  BY DEF plan
<1> HIDE DEF h, n, c, H, N, C
<1>7. /\ (H \o N) \o C \in Seq(Parts)
      /\ Listed((H \o N) \o C) = (Listed(H) \cup Listed(N)) \cup Listed(C)
  <2>1. H \o N \in Seq(Parts) /\ Listed(H \o N) = Listed(H) \cup Listed(N)
    BY <1>4, ListedConcat
  <2> QED BY <1>4, <2>1, ListedConcat
<1>8. /\ "hub" \in Listed((H \o N) \o C) <=> h
      /\ "node" \in Listed((H \o N) \o C) <=> n
  BY <1>5, <1>7
<1> QED BY <1>6, <1>7, <1>8 DEF h, n

(* What a step does to the services: a part stays as it is, stops, or is   *)
(* started, and a node that is started reads machine.json.                 *)
LEMMA StartedParts ==
    ASSUME SetupShape, NEW parts \in SUBSET Parts, Start(parts),
           program' \in [Parts -> {"none", "bundle", "local"}]
    PROVE  /\ up' \in [Parts -> 0..MaxVersion] /\ nodeConfig' \in Configs
           /\ \A p \in parts : up'[p] = IF program'[p] = "bundle" THEN bundle ELSE 1
           /\ \A p \in Parts \ parts : up'[p] = up[p]
           /\ nodeConfig' = IF "node" \in parts THEN config ELSE nodeConfig
<1>1. \A p \in Parts : Version(p) \in 0..MaxVersion
  BY SetupAssumption DEF SetupShape, SetupTypeOK, Version
<1>2. up' \in [Parts -> 0..MaxVersion]
  BY <1>1 DEF Start, SetupShape, SetupTypeOK
<1> QED BY <1>2 DEF Start, SetupShape, Version

ServicesMove(parts) ==
    /\ parts \in SUBSET Parts /\ Start(parts)
    /\ UNCHANGED program /\ \A p \in parts : program[p] # "none"

LEMMA ServiceActs ==
    ASSUME SetupShape, [SetupNext]_setupVars
    PROVE  \/ UNCHANGED serviceVars
           \/ \E p \in Parts : svc_install(p) \/ svc_install_fails(p)
           \/ \E parts \in SUBSET Parts : ServicesMove(parts)
           \/ hub_uninstall
<1> USE DEF serviceVars
<1> SUFFICES ASSUME ~UNCHANGED serviceVars
             PROVE  \/ \E p \in Parts : svc_install(p) \/ svc_install_fails(p)
                    \/ \E parts \in SUBSET Parts : ServicesMove(parts)
                    \/ hub_uninstall
  OBVIOUS
<1>1. "hub" \in Parts /\ "node" \in Parts /\ "cloud" \in Parts
  BY DEF Parts
<1>2. CASE hub_install \/ node_service_install \/ cloud_install
  BY <1>1, <1>2 DEF hub_install, node_service_install, cloud_install
<1>3. CASE FinishRegister
  <2>1. ServicesMove({"node"})
    BY <1>1, <1>3 DEF FinishRegister, ensure_service_running, ServicesMove
  <2> QED BY <1>1, <2>1
<1>4. CASE restart
  <2>1. Head(check.todo) \in Parts
    BY <1>4, ListedTail DEF restart, SetupShape, Checks
  <2>2. ServicesMove({Head(check.todo)})
    BY <1>4, <2>1 DEF restart, ServicesMove
  <2> QED BY <2>1, <2>2
<1>5. ASSUME NEW parts \in SUBSET Parts, ServicesRestart(parts)
      PROVE  ServicesMove(parts)
  BY <1>5 DEF ServicesRestart, ServicesMove
<1>6. ~(wait_for_hub \/ RegisterLocalNode \/ RegisterElsewhere \/ RegisterRequest)
  BY DEF wait_for_hub, RegisterLocalNode, RegisterElsewhere, RegisterRequest
<1>9. ~(RegisterUnanswered \/ save_config \/ WindowUpdates \/ restart_to_update \/ QuitApp)
  BY DEF RegisterUnanswered, save_config, WindowUpdates, restart_to_update, QuitApp
<1>10. ~(reconcile \/ running_hub \/ running_node \/ Restarted \/ MachineRemoved)
  BY DEF reconcile, running_hub, running_node, Restarted, MachineRemoved
<1>11. ~(UNCHANGED setupVars \/ \E r \in {"hub", "client"} : set_desktop_role(r))
  BY DEF set_desktop_role, setupVars
<1>7. CASE ServicesRestart({p \in Parts : program[p] # "none"})
  BY <1>5, <1>7
<1>8. CASE \E p \in Parts : ServicesRestart({p})
  BY <1>5, <1>8
<1> QED BY <1>2, <1>3, <1>4, <1>6, <1>7, <1>8, <1>9, <1>10, <1>11 DEF SetupNext

LEMMA ServicesStep ==
    ASSUME SetupShape, [SetupNext]_setupVars
    PROVE  /\ program' \in [Parts -> {"none", "bundle", "local"}]
           /\ up' \in [Parts -> 0..MaxVersion] /\ nodeConfig' \in Configs
           /\ \A p \in Parts :
                \/ program'[p] = program[p] /\ up'[p] = up[p]
                     /\ (p = "node" => nodeConfig' = nodeConfig)
                \/ up'[p] = Stopped
                \/ /\ program'[p] # "none"
                   /\ up'[p] = IF program'[p] = "bundle" THEN bundle ELSE 1
                   /\ p = "node" => nodeConfig' = config
<1>0. /\ program \in [Parts -> {"none", "bundle", "local"}]
      /\ up \in [Parts -> 0..MaxVersion] /\ nodeConfig \in Configs
      /\ "hub" \in Parts /\ "node" \in Parts
  BY DEF SetupShape, SetupTypeOK, Parts
<1>1. CASE UNCHANGED serviceVars
  BY <1>0, <1>1 DEF serviceVars
<1>2. ASSUME NEW p \in Parts, svc_install(p)
      PROVE  /\ program' \in [Parts -> {"none", "bundle", "local"}] /\ program'[p] = "bundle"
             /\ \A q \in Parts \ {p} : program'[q] = program[q]
             /\ Start({p})
  BY <1>0, <1>2 DEF svc_install
<1>3. CASE \E p \in Parts : svc_install(p)
  <2>1. PICK p \in Parts : svc_install(p)
    BY <1>3
  <2>2. {p} \in SUBSET Parts /\ Start({p}) /\ program' \in [Parts -> {"none", "bundle", "local"}]
    BY <1>2, <2>1
  <2>3. /\ up' \in [Parts -> 0..MaxVersion] /\ nodeConfig' \in Configs
        /\ up'[p] = IF program'[p] = "bundle" THEN bundle ELSE 1
        /\ \A q \in Parts \ {p} : up'[q] = up[q]
        /\ nodeConfig' = IF "node" \in {p} THEN config ELSE nodeConfig
    BY <2>2, StartedParts
  <2> QED BY <1>2, <2>1, <2>3
<1>4. CASE \E p \in Parts : svc_install_fails(p)
  <2>1. PICK p \in Parts : svc_install_fails(p)
    BY <1>4
  <2>2. program' \in [Parts -> {"none", "bundle", "local"}] /\ up' \in [Parts -> 0..MaxVersion]
    BY <1>0, <2>1, SetupAssumption DEF svc_install_fails, Stopped
  <2> QED BY <1>0, <2>1, <2>2 DEF svc_install_fails
<1>5. CASE \E parts \in SUBSET Parts : ServicesMove(parts)
  <2>1. PICK parts \in SUBSET Parts : ServicesMove(parts)
    BY <1>5
  <2>2. program' = program /\ Start(parts) /\ \A p \in parts : program[p] # "none"
    BY <2>1 DEF ServicesMove
  <2> QED BY <1>0, <2>2, StartedParts
<1>6. CASE hub_uninstall
  <2>1. program' \in [Parts -> {"none", "bundle", "local"}] /\ up' \in [Parts -> 0..MaxVersion]
    BY <1>0, <1>6, SetupAssumption DEF hub_uninstall, Stopped
  <2> QED BY <1>0, <1>6, <2>1 DEF hub_uninstall, Parts
<1> QED BY <1>1, <1>3, <1>4, <1>5, <1>6, ServiceActs

(* Types. *)
LEMMA SetupShapeInit == SetupInit => SetupShape
<1> SUFFICES ASSUME SetupInit PROVE SetupShape
  OBVIOUS
<1> USE SetupAssumption DEF SetupInit, Stopped
<1>1. /\ "hub" \in Parts /\ "node" \in Parts /\ "cloud" \in Parts
      /\ program \in [Parts -> {"none", "bundle", "local"}]
  BY DEF Parts
<1>2. up \in [Parts -> 0..MaxVersion]
  BY <1>1
<1>3. machines \subseteq 1..MaxIds /\ lastId \in 0..MaxIds
  <2>1. CASE program["node"] = "local"
    <3>1. lastId = 1
      BY <2>1, FS_Singleton
    <3> QED BY <2>1, <3>1
  <2>2. CASE program["node"] # "local"
    <3>1. lastId = 0
      BY <2>2, FS_EmptySet
    <3> QED BY <2>2, <3>1
  <2> QED BY <2>1, <2>2
<1>4. config \in Configs /\ nodeConfig \in Configs
  BY DEF Configs, NoConfig
<1>5. command \in SetupCommands
  BY DEF SetupCommands, NoCommand
<1>6. check \in Checks
  BY DEF Checks, NoCheckYet, Unknown
<1>7. update \in [version : 0..MaxVersion, installed : BOOLEAN]
  OBVIOUS
<1> QED BY <1>1, <1>2, <1>3, <1>4, <1>5, <1>6, <1>7 DEF SetupShape, SetupTypeOK

(* The rest of a command, and of a check, keeps its type. *)
LEMMA CommandTyped ==
    ASSUME SetupShape, [SetupNext]_setupVars
    PROVE  command' \in SetupCommands
<1> USE SetupAssumption DEF SetupShape
<1>0. /\ \A how \in {"idle", "wait", "local", "done", "failed"} :
           Ended(how) \in SetupCommands
      /\ NoCommand \in SetupCommands
      /\ [NoCommand EXCEPT !.at = "wait"] \in SetupCommands
      /\ [NoCommand EXCEPT !.at = "register", !.kind = "register", !.hub = "elsewhere"]
           \in SetupCommands
  <2>1. NoCommand \in SetupCommands
    BY DEF NoCommand, SetupCommands
  <2>2. ASSUME NEW how \in {"idle", "wait", "local", "done", "failed"}
        PROVE  [NoCommand EXCEPT !.at = how] \in SetupCommands
    BY <2>1 DEF SetupCommands
  <2>3. [NoCommand EXCEPT !.at = "register", !.kind = "register", !.hub = "elsewhere"]
          \in SetupCommands
    BY <2>1 DEF SetupCommands
  <2> QED BY <2>1, <2>2, <2>3 DEF Ended
<1>1. /\ \A at \in {"local", "service", "register", "restart"} :
           [command EXCEPT !.at = at] \in SetupCommands
      /\ [command EXCEPT !.removed = TRUE] \in SetupCommands
      /\ \A id \in 0..MaxIds : [command EXCEPT !.at = "save", !.id = id] \in SetupCommands
  BY DEF SetupCommands
<1>2. CASE hub_install \/ wait_for_hub \/ RegisterLocalNode \/ RegisterElsewhere
  BY <1>0, <1>1, <1>2 DEF hub_install, wait_for_hub, RegisterLocalNode, RegisterElsewhere
<1>3. CASE RegisterRequest
  <2>1. lastId' \in 0..MaxIds
    BY <1>3 DEF RegisterRequest, SetupTypeOK
  <2> QED BY <1>0, <1>1, <1>3, <2>1 DEF RegisterRequest
<1>4. CASE RegisterUnanswered \/ save_config \/ FinishRegister \/ node_service_install
           \/ hub_uninstall \/ MachineRemoved
  BY <1>0, <1>1, <1>4 DEF RegisterUnanswered, save_config, FinishRegister,
       ensure_service_running, node_service_install, hub_uninstall, MachineRemoved
<1>5. CASE cloud_install \/ WindowUpdates \/ restart_to_update \/ QuitApp \/ UNCHANGED setupVars
  BY <1>5 DEF cloud_install, WindowUpdates, restart_to_update, QuitApp, setupVars
<1>6. CASE reconcile \/ running_hub \/ running_node \/ restart \/ Restarted
  BY <1>6 DEF reconcile, running_hub, running_node, restart, Restarted
<1>7. CASE \/ \E r \in {"hub", "client"} : set_desktop_role(r)
           \/ ServicesRestart({p \in Parts : program[p] # "none"})
           \/ \E p \in Parts : ServicesRestart({p})
  BY <1>7 DEF set_desktop_role, ServicesRestart
<1> QED BY <1>2, <1>3, <1>4, <1>5, <1>6, <1>7 DEF SetupNext

LEMMA CheckTyped ==
    ASSUME SetupShape, [SetupNext]_setupVars
    PROVE  check' \in Checks
<1> USE SetupAssumption DEF SetupShape
<1>0. /\ NoCheckYet \in Checks /\ Checked(TRUE) \in Checks /\ Checked(FALSE) \in Checks
      /\ bundle \in 0..MaxVersion /\ up["hub"] \in 0..MaxVersion /\ up["node"] \in 0..MaxVersion
  <2>1. NoCheckYet \in Checks
    BY DEF Checks, NoCheckYet, Unknown
  <2>2. \A error \in BOOLEAN : [NoCheckYet EXCEPT !.at = "done", !.error = error] \in Checks
    BY <2>1 DEF Checks
  <2>3. /\ bundle \in 0..MaxVersion
        /\ up["hub"] \in 0..MaxVersion /\ up["node"] \in 0..MaxVersion
    BY DEF SetupTypeOK, Parts
  <2> QED BY <2>1, <2>2, <2>3 DEF Checked
<1>1. CASE restart_to_update \/ QuitApp \/ Restarted
  BY <1>0, <1>1 DEF restart_to_update, QuitApp, Restarted
<1>2. CASE reconcile
  <2>1. [NoCheckYet EXCEPT !.at = "hub", !.bundled = bundle] \in Checks
    BY <1>0 DEF Checks, NoCheckYet
  <2> QED BY <1>0, <1>2, <2>1 DEF reconcile
<1>3. CASE running_hub
  <2>1. PICK answer \in {up["hub"], Unknown} :
          check' = [check EXCEPT !.hub = answer, !.todo = plan(answer, Unknown, check.bundled),
                      !.at = IF "hub" \notin Listed(plan(answer, Unknown, check.bundled))
                                /\ program["hub"] = "bundle" /\ answer # Unknown
                             THEN "node" ELSE "restart"]
    BY <1>3 DEF running_hub
  <2>2. plan(answer, Unknown, check.bundled) \in Seq(Parts) /\ answer \in 0..MaxVersion
    BY <1>0, PlanLists DEF Unknown
  <2> QED BY <2>1, <2>2 DEF Checks
<1>4. CASE running_node
  <2>1. PICK answer \in {up["node"], Unknown} :
          check' = [check EXCEPT !.node = answer, !.at = "restart",
                      !.todo = plan(check.hub, answer, check.bundled)]
    BY <1>4 DEF running_node
  <2>2. plan(check.hub, answer, check.bundled) \in Seq(Parts) /\ answer \in 0..MaxVersion
    BY <1>0, PlanLists DEF Unknown
  <2> QED BY <2>1, <2>2 DEF Checks
<1>5. CASE restart
  <2>1. Tail(check.todo) \in Seq(Parts)
    BY <1>5, ListedTail DEF restart, Checks
  <2> QED BY <1>0, <1>5, <2>1 DEF restart, Checks
<1>6. CASE hub_install \/ wait_for_hub \/ RegisterLocalNode \/ RegisterElsewhere \/ RegisterRequest
  BY <1>6 DEF hub_install, wait_for_hub, RegisterLocalNode, RegisterElsewhere, RegisterRequest
<1>7. CASE RegisterUnanswered \/ save_config \/ FinishRegister \/ node_service_install
  BY <1>7 DEF RegisterUnanswered, save_config, FinishRegister, node_service_install
<1>8. CASE hub_uninstall \/ cloud_install \/ WindowUpdates \/ MachineRemoved \/ UNCHANGED setupVars
  BY <1>8 DEF hub_uninstall, cloud_install, WindowUpdates, MachineRemoved, setupVars
<1>9. CASE \/ \E r \in {"hub", "client"} : set_desktop_role(r)
           \/ ServicesRestart({p \in Parts : program[p] # "none"})
           \/ \E p \in Parts : ServicesRestart({p})
  BY <1>9 DEF set_desktop_role, ServicesRestart
<1> QED BY <1>1, <1>2, <1>3, <1>4, <1>5, <1>6, <1>7, <1>8, <1>9 DEF SetupNext

LEMMA SetupShapeStep ==
    ASSUME SetupShape, [SetupNext]_setupVars
    PROVE  SetupShape'
<1> USE SetupAssumption
<1>1. bundle' \in 1..MaxVersion /\ app' \in 0..MaxVersion
  <2>0. bundle \in 1..MaxVersion /\ app \in 0..MaxVersion
    BY DEF SetupShape, SetupTypeOK
  <2>1. CASE WindowUpdates \/ restart_to_update \/ QuitApp \/ reconcile
    <3>1. MaxVersion \in Nat \ {0}
      OBVIOUS
    <3>2. CASE WindowUpdates
      <4>1. app' = app /\ (bundle' = bundle \/ (bundle < MaxVersion /\ bundle' = bundle + 1))
        BY <3>2 DEF WindowUpdates
      <4> QED BY <2>0, <3>1, <4>1
    <3>3. CASE restart_to_update
      <4>1. bundle' = IF update.installed \/ bundle = MaxVersion THEN bundle ELSE bundle + 1
        BY <3>3 DEF restart_to_update
      <4>2. app' = 0
        BY <3>3 DEF restart_to_update, Stopped
      <4> QED BY <2>0, <3>1, <4>1, <4>2
    <3>4. CASE QuitApp \/ reconcile
      <4>1. (app' = 0 \/ app' = bundle) /\ bundle' = bundle
        BY <3>4 DEF QuitApp, reconcile, Stopped
      <4> QED BY <2>0, <3>1, <4>1
    <3> QED BY <2>1, <3>2, <3>3, <3>4
  <2>2. CASE ~(WindowUpdates \/ restart_to_update \/ QuitApp \/ reconcile)
    <3>1. bundle' = bundle /\ app' = app
      BY <2>2 DEF SetupNext, hub_install, wait_for_hub, RegisterLocalNode, RegisterElsewhere,
           RegisterRequest, RegisterUnanswered, save_config, FinishRegister,
           node_service_install, hub_uninstall, cloud_install, set_desktop_role, running_hub,
           running_node, restart, Restarted, ServicesRestart, MachineRemoved, setupVars
    <3> QED BY <2>0, <3>1
  <2> QED BY <2>1, <2>2
<1>2. desktop_role' \in {"none", "hub", "client"}
  <2>0. desktop_role \in {"none", "hub", "client"}
    BY DEF SetupShape, SetupTypeOK
  <2> QED
    BY <2>0 DEF SetupNext, hub_install, wait_for_hub, RegisterLocalNode, RegisterElsewhere,
         RegisterRequest, RegisterUnanswered, save_config, FinishRegister,
         node_service_install, hub_uninstall, cloud_install, set_desktop_role, WindowUpdates,
         restart_to_update, QuitApp, reconcile, running_hub,
         running_node, restart, Restarted, ServicesRestart, MachineRemoved, setupVars
<1>3. update' \in [version : 0..MaxVersion, installed : BOOLEAN]
  <2>0. update \in [version : 0..MaxVersion, installed : BOOLEAN] /\ bundle \in 1..MaxVersion
    BY DEF SetupShape, SetupTypeOK
  <2>1. CASE WindowUpdates
    <3>1. PICK on \in BOOLEAN : app_update_state(bundle + 1, on)
      BY <2>1 DEF WindowUpdates
    <3>2. bundle + 1 \in 0..MaxVersion /\ update.version \in 0..MaxVersion
          /\ update.installed \in BOOLEAN
      BY <2>0, <2>1 DEF WindowUpdates
    <3>3. (update.installed \/ on) \in BOOLEAN
      OBVIOUS
    <3> QED BY <3>1, <3>2, <3>3 DEF app_update_state
  <2>2. CASE restart_to_update \/ QuitApp
    <3>1. update' = [version |-> 0, installed |-> FALSE] /\ 0 \in 0..MaxVersion
      BY <2>2 DEF restart_to_update, QuitApp
    <3> QED BY <3>1
  <2>3. CASE ~(WindowUpdates \/ restart_to_update \/ QuitApp)
    <3>1. update' = update
      BY <2>3 DEF SetupNext, hub_install, wait_for_hub, RegisterLocalNode, RegisterElsewhere,
           RegisterRequest, RegisterUnanswered, save_config, FinishRegister,
           node_service_install, hub_uninstall, cloud_install, set_desktop_role, running_hub,
           running_node, reconcile, restart, Restarted, ServicesRestart, MachineRemoved, setupVars
    <3> QED BY <2>0, <3>1
  <2> QED BY <2>1, <2>2, <2>3
<1>4. machines' \subseteq 1..MaxIds /\ lastId' \in 0..MaxIds
  <2>0. machines \subseteq 1..MaxIds /\ lastId \in 0..MaxIds
    BY DEF SetupShape, SetupTypeOK
  <2>1. CASE RegisterRequest \/ MachineRemoved
    BY <2>0, <2>1 DEF RegisterRequest, MachineRemoved
  <2>2. CASE ~(RegisterRequest \/ MachineRemoved)
    <3>1. machines' = machines /\ lastId' = lastId
      BY <2>2 DEF SetupNext, hub_install, wait_for_hub, RegisterLocalNode, RegisterElsewhere,
           RegisterUnanswered, save_config, FinishRegister, WindowUpdates, restart_to_update,
           QuitApp, node_service_install, hub_uninstall, cloud_install, set_desktop_role,
           running_hub, running_node, reconcile, restart, Restarted, ServicesRestart, setupVars
    <3> QED BY <2>0, <3>1
  <2> QED BY <2>1, <2>2
<1>5. config' \in Configs
  <2>0. config \in Configs /\ command \in SetupCommands
    BY DEF SetupShape
  <2>1. CASE save_config
    BY <2>0, <2>1 DEF save_config, Configs, SetupCommands
  <2>2. CASE ~save_config
    <3>1. config' = config
      BY <2>2 DEF SetupNext, hub_install, wait_for_hub, RegisterLocalNode, RegisterElsewhere,
           RegisterRequest, RegisterUnanswered, FinishRegister, WindowUpdates,
           restart_to_update, QuitApp, node_service_install, hub_uninstall, cloud_install,
           set_desktop_role, running_hub, running_node, reconcile, restart, Restarted,
           ServicesRestart, MachineRemoved, setupVars
    <3> QED BY <2>0, <3>1
  <2> QED BY <2>1, <2>2
<1>6. setupFaults' \in 0..SetupMaxFaults
  <2>0. setupFaults \in 0..SetupMaxFaults
    BY DEF SetupShape, SetupTypeOK
  <2>1. SetupFault => setupFaults' \in 0..SetupMaxFaults
    BY <2>0 DEF SetupFault
  <2> QED
    BY <2>0, <2>1 DEF SetupNext, hub_install, wait_for_hub, RegisterLocalNode, RegisterElsewhere,
         RegisterRequest, RegisterUnanswered, save_config, FinishRegister, svc_install,
         svc_install_fails, ensure_service_running,
         node_service_install, hub_uninstall, cloud_install, set_desktop_role, WindowUpdates,
         restart_to_update, QuitApp, reconcile, running_hub,
         running_node, restart, Restarted, ServicesRestart, MachineRemoved, setupVars
<1>7. /\ program' \in [Parts -> {"none", "bundle", "local"}]
      /\ up' \in [Parts -> 0..MaxVersion] /\ nodeConfig' \in Configs
  BY ServicesStep
<1>8. command' \in SetupCommands /\ check' \in Checks
  BY CommandTyped, CheckTyped
<1> QED BY <1>1, <1>2, <1>3, <1>4, <1>5, <1>6, <1>7, <1>8 DEF SetupShape, SetupTypeOK

(* The services. *)
LEMMA UnitsRunStep ==
    ASSUME SetupShape, UnitsRun, InstallHolds, [SetupNext]_setupVars
    PROVE  UnitsRun'
<1>1. \A p \in Parts : program'[p] = "none" => up'[p] = Stopped
  BY ServicesStep DEF UnitsRun, Stopped
<1>2. "hub" \in Parts /\ "node" \in Parts /\ "cloud" \in Parts
      /\ program \in [Parts -> {"none", "bundle", "local"}]
  BY DEF Parts, SetupShape, SetupTypeOK
<1>3. program'["node"] = "bundle" => program'["hub"] = "bundle"
  <2>1. CASE hub_install
    BY <1>2, <2>1 DEF hub_install, svc_install, svc_install_fails, UnitsRun
  <2>2. CASE node_service_install
    BY <1>2, <2>2 DEF node_service_install, svc_install, svc_install_fails, InstallHolds,
                      NoneUnderWay
  <2>3. CASE hub_uninstall
    BY <1>2, <2>3 DEF hub_uninstall
  <2>4. CASE cloud_install
    BY <1>2, <2>4 DEF cloud_install, svc_install, UnitsRun
  <2>5. CASE ~(hub_install \/ node_service_install \/ hub_uninstall \/ cloud_install)
    <3>1. program' = program
      BY <2>5 DEF SetupNext, wait_for_hub, RegisterLocalNode, RegisterElsewhere,
           RegisterRequest, RegisterUnanswered, save_config, FinishRegister,
           ensure_service_running, WindowUpdates, restart_to_update, QuitApp,
           set_desktop_role, running_hub, running_node, reconcile, restart, Restarted,
           ServicesRestart, MachineRemoved, setupVars, serviceVars
    <3> QED BY <3>1 DEF UnitsRun
  <2> QED BY <2>1, <2>2, <2>3, <2>4, <2>5
<1> QED BY <1>1, <1>3 DEF UnitsRun

(* The end of a restart is the end of run_register. *)
LEMMA LeavesRestart ==
    ASSUME SetupShape, [SetupNext]_setupVars, command.at = "restart", command'.at # "restart"
    PROVE  FinishRegister
<1>1. [command EXCEPT !.removed = TRUE].at = command.at
  BY DEF SetupShape, SetupCommands
<1> QED
  BY <1>1 DEF SetupNext, hub_install, wait_for_hub, RegisterLocalNode, RegisterElsewhere,
       RegisterRequest, RegisterUnanswered, save_config, NoneUnderWay,
       node_service_install, hub_uninstall, cloud_install, set_desktop_role, WindowUpdates,
       restart_to_update, QuitApp, reconcile, running_hub,
       running_node, restart, Restarted, ServicesRestart, MachineRemoved, setupVars

LEMMA NodeConfigStep ==
    ASSUME SetupShape, UnitsRun, NodeUsesItsConfig, [SetupNext]_setupVars
    PROVE  NodeUsesItsConfig'
<1> SUFFICES ASSUME setupFaults' = 0, command'.at # "restart", up'["node"] # Stopped
             PROVE  nodeConfig' = config'
  BY DEF NodeUsesItsConfig, Stopped
<1>0. "node" \in Parts
  BY DEF Parts
<1>1. config' = config
  <2>1. ~save_config
    <3>1. command \in SetupCommands
      BY DEF SetupShape
    <3> QED BY <3>1 DEF save_config, SetupCommands
  <2> QED
    BY <2>1 DEF SetupNext, hub_install, wait_for_hub, RegisterLocalNode, RegisterElsewhere,
         RegisterRequest, RegisterUnanswered, FinishRegister, WindowUpdates,
         restart_to_update, QuitApp, node_service_install, hub_uninstall, cloud_install,
         set_desktop_role, running_hub, running_node, reconcile, restart, Restarted,
         ServicesRestart, MachineRemoved, setupVars
<1>2. setupFaults = 0 /\ ~SetupFault
  <2>0. setupFaults \in Nat
    BY SetupAssumption DEF SetupShape, SetupTypeOK
  <2>1. ~SetupFault
    BY <2>0 DEF SetupFault
  <2> QED
    BY <2>0, <2>1 DEF SetupNext, hub_install, wait_for_hub, RegisterLocalNode, RegisterElsewhere,
         RegisterRequest, RegisterUnanswered, save_config, FinishRegister, svc_install,
         svc_install_fails, ensure_service_running,
         node_service_install, hub_uninstall, cloud_install, set_desktop_role, WindowUpdates,
         restart_to_update, QuitApp, reconcile, running_hub,
         running_node, restart, Restarted, ServicesRestart, MachineRemoved, setupVars
<1>3. CASE command.at = "restart"
  <2>1. ensure_service_running
    BY <1>3, LeavesRestart DEF FinishRegister
  <2>2. program["node"] # "none"
    <3>1. ASSUME program["node"] = "none" PROVE FALSE
      <4>1. up'["node"] = up["node"]
        BY <2>1, <3>1 DEF ensure_service_running
      <4> QED BY <1>0, <3>1, <4>1 DEF UnitsRun
    <3> QED BY <3>1
  <2>3. Start({"node"})
    BY <1>2, <2>1, <2>2 DEF ensure_service_running
  <2> QED BY <1>1, <2>3 DEF Start
<1>4. CASE command.at # "restart"
  BY <1>0, <1>1, <1>2, <1>4, ServicesStep DEF NodeUsesItsConfig
<1> QED BY <1>3, <1>4

(* Ended commands promise nothing. *)
LEMMA EndedHolds ==
    ASSUME command' \in {NoCommand, Ended("done"), Ended("failed")}
    PROVE  InstallHolds'
BY DEF InstallHolds, NoneUnderWay, Ended, NoCommand

LEMMA InstallStep ==
    ASSUME SetupShape, InstallHolds, [SetupNext]_setupVars
    PROVE  InstallHolds'
<1>0. /\ "hub" \in Parts /\ "node" \in Parts /\ "cloud" \in Parts
      /\ program \in [Parts -> {"none", "bundle", "local"}] /\ command \in SetupCommands
  BY DEF Parts, SetupShape, SetupTypeOK
<1>1. CASE hub_install
  <2>1. CASE command' = Ended("failed")
    BY <2>1, EndedHolds
  <2>2. CASE command' = [NoCommand EXCEPT !.at = "wait"] /\ program'["hub"] = "bundle"
    BY <2>2 DEF InstallHolds, NoCommand
  <2> QED BY <1>0, <1>1, <2>1, <2>2 DEF hub_install, svc_install
<1>2. CASE wait_for_hub
  <2>1. CASE command' = Ended("failed")
    BY <2>1, EndedHolds
  <2>2. CASE command' = [command EXCEPT !.at = "local"]
    <3>1. program' = program /\ command.at = "wait"
      BY <1>2 DEF wait_for_hub, serviceVars
    <3>2. command.kind = "install" /\ command.hub = "here" /\ program["hub"] = "bundle"
      BY <3>1 DEF InstallHolds, NoneUnderWay
    <3>3. command'.at = "local" /\ command'.kind = "install" /\ command'.hub = "here"
      BY <1>0, <2>2, <3>2 DEF SetupCommands
    <3> QED BY <3>1, <3>2, <3>3 DEF InstallHolds
  <2> QED BY <1>2, <2>1, <2>2 DEF wait_for_hub
<1>3. CASE RegisterLocalNode
  <2>1. CASE command' = Ended("done")
    BY <2>1, EndedHolds
  <2>2. CASE command' # Ended("done")
    <3>1. /\ program' = program /\ config' = config /\ machines' = machines
          /\ command.at = "local"
          /\ \/ Registered /\ command' = [command EXCEPT !.at = "service"]
             \/ command' = [command EXCEPT !.at = "register"]
      BY <1>3, <2>2 DEF RegisterLocalNode, serviceVars
    <3>2. command.kind = "install" /\ command.hub = "here" /\ program["hub"] = "bundle"
      BY <3>1 DEF InstallHolds, NoneUnderWay
    <3>3. command'.kind = "install" /\ command'.hub = "here"
      BY <1>0, <3>1, <3>2 DEF SetupCommands
    <3>4. command'.at = "register" \/ (command'.at = "service" /\ Registered)
      BY <1>0, <3>1 DEF SetupCommands
    <3> QED BY <3>1, <3>2, <3>3, <3>4 DEF InstallHolds, Registered, hub_is_here, Given
  <2> QED BY <2>1, <2>2
<1>4. CASE RegisterElsewhere
  BY <1>4 DEF RegisterElsewhere, InstallHolds, NoCommand
<1>5. CASE RegisterRequest
  <2>1. CASE command' = Ended("failed")
    BY <2>1, EndedHolds
  <2>2. CASE command' # Ended("failed")
    <3>1. /\ program' = program /\ command.at = "register"
          /\ command' = [command EXCEPT !.at = "save", !.id = lastId']
          /\ command.hub = "here" => lastId' \in machines'
      BY <1>5, <2>2 DEF RegisterRequest, serviceVars
    <3>2. command'.kind = command.kind /\ command'.hub = command.hub /\ command'.id = lastId'
          /\ command'.at = "save"
      BY <1>0, <3>1 DEF SetupCommands
    <3>3. command.kind = "install" => command.hub = "here" /\ program["hub"] = "bundle"
      BY <3>1 DEF InstallHolds, NoneUnderWay
    <3> QED BY <3>1, <3>2, <3>3 DEF InstallHolds, Given
  <2> QED BY <2>1, <2>2
<1>6. CASE save_config
  <2>1. /\ program' = program /\ machines' = machines /\ command.at = "save"
        /\ config' = [hub |-> command.hub, id |-> command.id]
        /\ command' = [command EXCEPT !.at = "restart"]
    BY <1>6 DEF save_config, serviceVars
  <2>2. /\ command'.kind = command.kind /\ command'.hub = command.hub /\ command'.id = command.id
        /\ command'.at = "restart" /\ command'.removed = command.removed
    BY <1>0, <2>1 DEF SetupCommands
  <2>3. command.kind = "install"
         => command.hub = "here" /\ program["hub"] = "bundle" /\ Given(command.id)
    BY <2>1 DEF InstallHolds, NoneUnderWay
  <2> QED BY <2>1, <2>2, <2>3 DEF InstallHolds, Given
<1>7. CASE FinishRegister
  <2>1. CASE command' = Ended("done")
    BY <2>1, EndedHolds
  <2>2. CASE command' # Ended("done")
    <3>1. /\ program' = program /\ machines' = machines /\ config' = config
          /\ command.at = "restart" /\ command.kind = "install"
          /\ command' = [command EXCEPT !.at = "service"]
      BY <1>7, <2>2 DEF FinishRegister, ensure_service_running
    <3>2. /\ command'.kind = command.kind /\ command'.hub = command.hub
          /\ command'.at = "service" /\ command'.removed = command.removed
      BY <1>0, <3>1 DEF SetupCommands
    <3>3. command.hub = "here" /\ program["hub"] = "bundle"
          /\ config.hub = "here" /\ Given(config.id)
      BY <3>1 DEF InstallHolds, NoneUnderWay
    <3> QED BY <3>1, <3>2, <3>3 DEF InstallHolds, Given
  <2> QED BY <2>1, <2>2
<1>8. CASE RegisterUnanswered \/ node_service_install \/ hub_uninstall
  BY <1>8, EndedHolds DEF RegisterUnanswered, node_service_install, hub_uninstall
<1>9. CASE MachineRemoved
  <2>1. program' = program /\ config' = config
    BY <1>9 DEF MachineRemoved, serviceVars
  <2>2. CASE NoneUnderWay(command.at)
    <3>1. command' = command
      BY <1>9, <2>2 DEF MachineRemoved
    <3> QED BY <2>2, <3>1 DEF InstallHolds, NoneUnderWay
  <2>3. CASE ~NoneUnderWay(command.at)
    <3>1. command' = [command EXCEPT !.removed = TRUE]
      BY <1>9, <2>3 DEF MachineRemoved
    <3>2. /\ command'.kind = command.kind /\ command'.hub = command.hub
          /\ command'.at = command.at /\ command'.removed
      BY <1>0, <3>1 DEF SetupCommands
    <3> QED BY <2>1, <2>3, <3>2 DEF InstallHolds, Given, NoneUnderWay
  <2> QED BY <2>2, <2>3
<1>10. ASSUME \/ cloud_install \/ WindowUpdates \/ restart_to_update \/ QuitApp \/ reconcile
              \/ running_hub \/ running_node \/ restart \/ Restarted \/ UNCHANGED setupVars
              \/ \E r \in {"hub", "client"} : set_desktop_role(r)
              \/ ServicesRestart({p \in Parts : program[p] # "none"})
              \/ \E p \in Parts : ServicesRestart({p})
       PROVE  InstallHolds'
  <2>1. program'["hub"] = program["hub"]
    BY <1>0, <1>10 DEF cloud_install, svc_install, WindowUpdates, restart_to_update, QuitApp,
         reconcile, running_hub, running_node, restart, Restarted, setupVars,
         set_desktop_role, ServicesRestart, serviceVars
  <2>2. command' = command /\ config' = config /\ machines' = machines
    BY <1>10 DEF cloud_install, WindowUpdates, restart_to_update, QuitApp,
         reconcile, running_hub, running_node, restart, Restarted, setupVars,
         set_desktop_role, ServicesRestart
  <2> QED BY <2>1, <2>2 DEF InstallHolds, Given
<1> QED BY <1>1, <1>2, <1>3, <1>4, <1>5, <1>6, <1>7, <1>8, <1>9, <1>10 DEF SetupNext

(* What is current stays so until the bundle changes. *)
LEMMA CurrentStays ==
    ASSUME SetupShape, [SetupNext]_setupVars, bundle' = bundle, NEW p \in Parts, Current(p)
    PROVE  Current(p)'
BY ServicesStep DEF Current

LEMMA SameCheckHolds ==
    ASSUME SetupShape, CheckHolds, [SetupNext]_setupVars, check' = check, bundle' = bundle
    PROVE  CheckHolds'
<1>1. "hub" \in Parts /\ "node" \in Parts
  BY DEF Parts
<1>2. (Current("hub") => Current("hub")') /\ (Current("node") => Current("node")')
  BY <1>1, CurrentStays
<1> QED BY <1>2 DEF CheckHolds, Listed

LEMMA NoCheckHolds ==
    ASSUME bundle' \in Nat, check' \in {NoCheckYet, Checked(TRUE), Checked(FALSE)}
    PROVE  CheckHolds'
<1>1. NoCheckYet.bundled = 0 /\ NoCheckYet.at = "idle"
  BY DEF NoCheckYet
<1>2. \A error \in BOOLEAN : Checked(error).bundled = 0 /\ Checked(error).at = "done"
  BY DEF NoCheckYet, Checked
<1>3. check'.bundled = 0 /\ check'.at \in {"idle", "done"}
  BY <1>1, <1>2
<1> QED BY <1>3 DEF CheckHolds

LEMMA RunningHubStep ==
    ASSUME SetupShape, UnitsRun, CheckHolds, running_hub
    PROVE  CheckHolds'
<1>1. PICK answer \in {up["hub"], Unknown} :
        check' = [check EXCEPT !.hub = answer, !.todo = plan(answer, Unknown, check.bundled),
                    !.at = IF "hub" \notin Listed(plan(answer, Unknown, check.bundled))
                              /\ program["hub"] = "bundle" /\ answer # Unknown
                           THEN "node" ELSE "restart"]
  BY DEF running_hub
<1>2. /\ check.at = "hub" /\ bundle' = bundle /\ program' = program /\ up' = up
      /\ check.bundled <= bundle /\ check.node = Unknown
  BY DEF running_hub, serviceVars, CheckHolds
<1>3. /\ check'.hub = answer /\ check'.bundled = check.bundled /\ check'.node = Unknown
      /\ check'.todo = plan(answer, Unknown, check.bundled)
      /\ check'.at = IF "hub" \notin Listed(check'.todo) /\ program["hub"] = "bundle"
                        /\ answer # Unknown
                     THEN "node" ELSE "restart"
  BY <1>1, <1>2 DEF SetupShape, Checks
<1>4. "hub" \in Listed(check'.todo)
        <=> (program["hub"] = "bundle" /\ answer # Unknown /\ answer # check.bundled)
  BY <1>3, PlanLists DEF behind
<1>5. "node" \in Listed(check'.todo)
        <=> /\ program["node"] = "bundle" /\ program["hub"] = "bundle"
            /\ answer # Unknown /\ answer # check.bundled
  BY <1>3, PlanLists DEF behind
<1>6. CASE check'.at = "node"
  <2>1. answer = check.bundled /\ answer # Unknown /\ "hub" \notin Listed(check'.todo)
    BY <1>3, <1>4, <1>6
  <2>2. check.bundled = bundle => Current("hub")'
    BY <1>2, <2>1 DEF Current
  <2> QED BY <1>2, <1>3, <1>6, <2>1, <2>2 DEF CheckHolds
<1>7. CASE check'.at = "restart"
  <2>1. answer # Unknown => "hub" \in Listed(check'.todo) \/ program["hub"] # "bundle"
    BY <1>3, <1>7
  <2>2. (answer # Unknown /\ answer # check.bundled)
          => "node" \in Listed(check'.todo) \/ program["node"] # "bundle"
    BY <1>5 DEF UnitsRun
  <2>3. (program["hub"] # "bundle" => Current("hub")')
        /\ (program["node"] # "bundle" => Current("node")')
    BY <1>2 DEF Current
  <2> QED BY <1>2, <1>3, <1>7, <2>1, <2>2, <2>3 DEF CheckHolds
<1> QED BY <1>3, <1>6, <1>7

LEMMA RunningNodeStep ==
    ASSUME SetupShape, CheckHolds, running_node
    PROVE  CheckHolds'
<1>1. PICK answer \in {up["node"], Unknown} :
        check' = [check EXCEPT !.node = answer, !.at = "restart",
                    !.todo = plan(check.hub, answer, check.bundled)]
  BY DEF running_node
<1>2. /\ check.at = "node" /\ bundle' = bundle /\ program' = program /\ up' = up
      /\ check.bundled <= bundle /\ check.hub = check.bundled /\ check.hub # Unknown
      /\ check.bundled = bundle => Current("hub")
  BY DEF running_node, serviceVars, CheckHolds
<1>3. /\ check'.hub = check.hub /\ check'.bundled = check.bundled /\ check'.node = answer
      /\ check'.todo = plan(check.hub, answer, check.bundled) /\ check'.at = "restart"
  BY <1>1 DEF SetupShape, Checks
<1>4. "node" \in Listed(check'.todo)
        <=> (program["node"] = "bundle" /\ answer # Unknown /\ answer # check.bundled)
  BY <1>2, <1>3, PlanLists DEF behind
<1>5. (check.bundled = bundle /\ answer # Unknown)
        => "node" \in Listed(check'.todo) \/ Current("node")'
  BY <1>2, <1>4 DEF Current
<1>6. check.bundled = bundle => Current("hub")'
  BY <1>2 DEF Current
<1> QED BY <1>2, <1>3, <1>5, <1>6 DEF CheckHolds

LEMMA RestartStep ==
    ASSUME SetupShape, CheckHolds, [SetupNext]_setupVars, restart
    PROVE  CheckHolds'
<1>0. bundle' = bundle /\ bundle \in Nat /\ "hub" \in Parts /\ "node" \in Parts
  BY SetupAssumption DEF restart, SetupShape, SetupTypeOK, Parts
<1>1. CASE check' = Checked(TRUE)
  BY <1>0, <1>1, NoCheckHolds
<1>2. CASE check' # Checked(TRUE)
  <2>1. PICK p \in Parts : p = Head(check.todo)
    BY <1>2, ListedTail DEF restart, SetupShape, Checks
  <2>2. /\ check.at = "restart" /\ check.todo # <<>> /\ program' = program
        /\ Start({p}) /\ check' = [check EXCEPT !.todo = Tail(@)]
    BY <1>2, <2>1 DEF restart
  <2>3. Listed(check.todo) = {p} \cup Listed(Tail(check.todo))
    BY <2>1, <2>2, ListedTail DEF SetupShape, Checks
  <2>4. /\ check'.at = "restart" /\ check'.todo = Tail(check.todo)
        /\ check'.bundled = check.bundled /\ check'.hub = check.hub /\ check'.node = check.node
    BY <2>2 DEF SetupShape, Checks
  <2>5. Current(p)'
    <3>1. program' \in [Parts -> {"none", "bundle", "local"}] /\ {p} \in SUBSET Parts
      BY <2>2 DEF SetupShape, SetupTypeOK
    <3>2. up'[p] = IF program'[p] = "bundle" THEN bundle ELSE 1
      BY <2>2, <3>1, StartedParts
    <3> QED BY <1>0, <3>2 DEF Current
  <2>6. ASSUME NEW q \in Parts, q \in Listed(check.todo) \/ Current(q)
        PROVE  q \in Listed(check'.todo) \/ Current(q)'
    <3>1. CASE q = p
      BY <2>5, <3>1
    <3>2. CASE q # p /\ q \in Listed(check.todo)
      BY <2>3, <2>4, <3>2
    <3>3. CASE Current(q)
      BY <1>0, <3>3, CurrentStays
    <3> QED BY <2>6, <3>1, <3>2, <3>3
  <2>7. "hub" \in Listed(check.todo) \/ Current("hub")
          => "hub" \in Listed(check'.todo) \/ Current("hub")'
    BY <1>0, <2>6
  <2>8. "node" \in Listed(check.todo) \/ Current("node")
          => "node" \in Listed(check'.todo) \/ Current("node")'
    BY <1>0, <2>6
  <2> QED BY <1>0, <2>2, <2>4, <2>7, <2>8 DEF CheckHolds
<1> QED BY <1>1, <1>2

LEMMA CheckStep ==
    ASSUME SetupShape, UnitsRun, CheckHolds, [SetupNext]_setupVars
    PROVE  CheckHolds'
<1>0. bundle \in Nat /\ bundle' \in Nat
  BY SetupAssumption, SetupShapeStep DEF SetupShape, SetupTypeOK
<1>1. CASE restart_to_update \/ QuitApp \/ Restarted
  BY <1>0, <1>1, NoCheckHolds DEF restart_to_update, QuitApp, Restarted
<1>2. CASE reconcile
  <2>1. CASE check' = Checked(FALSE)
    BY <1>0, <2>1, NoCheckHolds
  <2>2. CASE check' = [NoCheckYet EXCEPT !.at = "hub", !.bundled = bundle]
    <3>1. /\ check'.at = "hub" /\ check'.bundled = bundle /\ check'.node = Unknown
          /\ bundle' = bundle
      BY <1>2, <2>2 DEF reconcile, NoCheckYet
    <3> QED BY <1>0, <3>1 DEF CheckHolds
  <2> QED BY <1>2, <2>1, <2>2 DEF reconcile
<1>3. CASE running_hub
  BY <1>3, RunningHubStep
<1>4. CASE running_node
  BY <1>4, RunningNodeStep
<1>5. CASE restart
  BY <1>5, RestartStep
<1>6. CASE WindowUpdates
  <2>1. check' = check /\ program' = program /\ up' = up /\ bundle' \in {bundle, bundle + 1}
    BY <1>6 DEF WindowUpdates, serviceVars
  <2>2. CASE bundle' = bundle
    BY <2>1, <2>2, SameCheckHolds
  <2>3. CASE bundle' = bundle + 1
    <3>1. check.bundled \in Nat /\ check.bundled <= bundle
      BY SetupAssumption DEF SetupShape, Checks, CheckHolds
    <3>2. check'.bundled <= bundle' /\ check'.bundled # bundle'
      BY <1>0, <2>1, <2>3, <3>1
    <3> QED BY <2>1, <3>2 DEF CheckHolds, Listed
  <2> QED BY <2>1, <2>2, <2>3
<1>7. CASE ~(\/ restart_to_update \/ QuitApp \/ Restarted \/ reconcile \/ running_hub
             \/ running_node \/ restart \/ WindowUpdates)
  <2>1. check' = check /\ bundle' = bundle
    BY <1>7 DEF SetupNext, hub_install, wait_for_hub, RegisterLocalNode, RegisterElsewhere,
         RegisterRequest, RegisterUnanswered, save_config, FinishRegister,
         node_service_install, hub_uninstall, cloud_install, set_desktop_role,
         ServicesRestart, MachineRemoved, setupVars
  <2> QED BY <2>1, SameCheckHolds
<1> QED BY <1>1, <1>2, <1>3, <1>4, <1>5, <1>6, <1>7

LEMMA ChecksEndStep ==
    ASSUME SetupShape, ChecksEnd, [SetupNext]_setupVars
    PROVE  ChecksEnd'
<1>1. CASE restart_to_update \/ QuitApp
  BY <1>1 DEF restart_to_update, QuitApp, ChecksEnd, NoCheckYet
<1>2. CASE reconcile
  <2>1. bundle # 0
    BY SetupAssumption DEF SetupShape, SetupTypeOK
  <2> QED BY <1>2, <2>1 DEF reconcile, ChecksEnd, Stopped
<1>3. CASE running_hub \/ running_node \/ restart \/ Restarted
  <2>1. check.at # "idle" /\ app' = app
    BY <1>3 DEF running_hub, running_node, restart, Restarted
  <2> QED BY <2>1 DEF ChecksEnd
<1>4. CASE ~(restart_to_update \/ QuitApp \/ reconcile \/ running_hub \/ running_node
             \/ restart \/ Restarted)
  <2>1. check' = check /\ app' = app
    BY <1>4 DEF SetupNext, hub_install, wait_for_hub, RegisterLocalNode, RegisterElsewhere,
         RegisterRequest, RegisterUnanswered, save_config, FinishRegister, WindowUpdates,
         node_service_install, hub_uninstall, cloud_install, set_desktop_role,
         ServicesRestart, MachineRemoved, setupVars
  <2> QED BY <2>1 DEF ChecksEnd
<1> QED BY <1>1, <1>2, <1>3, <1>4

(* The steps of an installation and of a check. *)
LEMMA InstallUsable ==
    ASSUME SetupInv, [SetupNext]_setupVars
    PROVE  InstallMeansUsable
<1> SUFFICES ASSUME command.at = "service", command'.at = "done"
             PROVE  /\ up'["node"] # Stopped /\ nodeConfig' = config'
                    /\ config'.hub = "here"
                    /\ config'.id \in machines' \/ command.removed
  BY DEF InstallMeansUsable
<1>0. /\ command \in SetupCommands /\ "node" \in Parts
      /\ program \in [Parts -> {"none", "bundle", "local"}]
      /\ bundle \in 1..MaxVersion
  BY DEF SetupInv, SetupShape, SetupTypeOK, Parts
<1>1. node_service_install
  <2>1. [command EXCEPT !.removed = TRUE].at = command.at
    BY <1>0 DEF SetupCommands
  <2> QED
    BY <2>1 DEF SetupNext, hub_install, wait_for_hub, RegisterLocalNode, RegisterElsewhere,
         RegisterRequest, RegisterUnanswered, save_config, NoneUnderWay, FinishRegister,
         ensure_service_running, hub_uninstall, cloud_install, set_desktop_role, WindowUpdates,
         restart_to_update, QuitApp, reconcile, running_hub,
         running_node, restart, Restarted, ServicesRestart, MachineRemoved, setupVars
<1>2. svc_install("node") /\ config' = config /\ machines' = machines
  BY <1>1 DEF node_service_install, Ended, NoCommand
<1>3. program' \in [Parts -> {"none", "bundle", "local"}] /\ Start({"node"})
  BY <1>0, <1>2 DEF svc_install
<1>4. up'["node"] \in {1, bundle} /\ nodeConfig' = config
  BY <1>0, <1>3, StartedParts DEF SetupInv
<1>5. config.hub = "here" /\ Given(config.id)
  BY DEF SetupInv, InstallHolds
<1> QED BY <1>0, <1>2, <1>4, <1>5, SetupAssumption DEF Given, Stopped

LEMMA LaunchCurrent ==
    ASSUME SetupInv, [SetupNext]_setupVars
    PROVE  LaunchBringsUpToDate
<1> SUFFICES ASSUME check.at = "restart", check'.at = "done", ~check'.error,
                    check.hub # Unknown, check.bundled = bundle
             PROVE  /\ program["hub"] = "bundle" => up["hub"] \in {bundle, Stopped}
                    /\ (program["node"] = "bundle" /\ program["hub"] = "bundle"
                          /\ (check.node # Unknown \/ check.hub # bundle))
                         => up["node"] \in {bundle, Stopped}
  BY DEF LaunchBringsUpToDate
<1>1. Restarted
  <2>1. check \in Checks
    BY DEF SetupInv, SetupShape
  <2>2. ~restart
    <3>1. Checked(TRUE).error = TRUE
      BY DEF Checked, NoCheckYet
    <3>2. check' # Checked(TRUE)
      BY <3>1
    <3>3. check' # [check EXCEPT !.todo = Tail(@)]
      BY <2>1 DEF Checks
    <3> QED BY <3>2, <3>3 DEF restart
  <2>3. ~restart_to_update /\ ~QuitApp
    BY DEF restart_to_update, QuitApp, NoCheckYet
  <2>4. ~reconcile
    BY DEF SetupInv, ChecksEnd, reconcile
  <2> QED
    BY <2>2, <2>3, <2>4 DEF SetupNext, hub_install, wait_for_hub, RegisterLocalNode,
         RegisterElsewhere, RegisterRequest, RegisterUnanswered, save_config, FinishRegister,
         node_service_install, hub_uninstall, cloud_install, set_desktop_role, WindowUpdates,
         running_hub, running_node, ServicesRestart, MachineRemoved, setupVars
<1>2. Listed(check.todo) = {}
  BY <1>1 DEF Restarted, Listed
<1> QED BY <1>2 DEF SetupInv, CheckHolds, Current

(* However commands fail, services end, machines are removed and the       *)
(* bundle is replaced meanwhile: an installation that reports success      *)
(* leaves a node that can be used (cmd_service_install after               *)
(* register_local_node), the running node uses the registration on disk    *)
(* (ensure_service_running), and a launch whose check was answered leaves  *)
(* the services on the bundle's version (bundled_services.rs).             *)
THEOREM SetupStaysSound == SetupSpec => SetupIsSound
<1>1. SetupInit => SetupInv
  <2> SUFFICES ASSUME SetupInit PROVE SetupInv
    OBVIOUS
  <2>1. SetupShape
    BY SetupShapeInit
  <2>2. UnitsRun
    BY DEF SetupInit, UnitsRun, Parts, Stopped
  <2>3. InstallHolds
    BY DEF SetupInit, InstallHolds, NoCommand, NoneUnderWay
  <2>4. CheckHolds
    BY SetupAssumption DEF SetupInit, CheckHolds, NoCheckYet
  <2>5. NodeUsesItsConfig
    BY DEF SetupInit, NodeUsesItsConfig
  <2>6. ChecksEnd
    BY DEF SetupInit, ChecksEnd, NoCheckYet
  <2> QED BY <2>1, <2>2, <2>3, <2>4, <2>5, <2>6 DEF SetupInv
<1>2. SetupInv /\ [SetupNext]_setupVars => SetupInv'
  <2> SUFFICES ASSUME SetupInv, [SetupNext]_setupVars PROVE SetupInv'
    OBVIOUS
  <2>1. SetupShape /\ UnitsRun /\ InstallHolds /\ ChecksEnd /\ CheckHolds /\ NodeUsesItsConfig
    BY DEF SetupInv
  <2> QED
    BY <2>1, SetupShapeStep, UnitsRunStep, InstallStep, ChecksEndStep, CheckStep, NodeConfigStep
       DEF SetupInv
<1>3. SetupInv => SetupTypeOK /\ NodeUsesItsConfig
  BY DEF SetupInv, SetupShape
<1>4. SetupInv /\ [SetupNext]_setupVars => [InstallMeansUsable /\ LaunchBringsUpToDate]_setupVars
  BY InstallUsable, LaunchCurrent
<1> QED BY <1>1, <1>2, <1>3, <1>4, PTL DEF SetupSpec, SetupIsSound
=============================================================================
