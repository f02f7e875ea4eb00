------------------------------ MODULE MachineLink ------------------------------
(***************************************************************************)
(* One machine's connections to the hub and the terminal attaches that run *)
(* over them: handle_machine_ws and its cleanup, the machine registry's    *)
(* current connection, HubRouter, handle_terminal_ws, and the node's       *)
(* connect loop and AttachManager.                                         *)
(*                                                                         *)
(* The node has at most one connection at a time, the hub may have several *)
(* handlers: an old one that has not noticed its end, or one that is slow  *)
(* to register.  A connection id and an attach id are uuids, used once.    *)
(* Output bytes are not modelled, only whether they have somewhere to go.  *)
(***************************************************************************)
EXTENDS Naturals, Sequences

CONSTANTS
    Conn,      \* connections of the machine (bounds the reconnects)
    Sock,      \* browser terminal sockets, each with its attach id
    NoConn     \* no connection

ASSUME LinkAssumption == NoConn \notin Conn

VARIABLES
    handler,   \* connection -> where its handle_machine_ws is
    current,   \* connection registered for the machine, or NoConn
    status,    \* machines.status in the database
    cmds,      \* connection -> commands on their way to the node
    events,    \* connection -> attaches whose AttachDied is on its way to the hub
    routes,    \* attach ids HubRouter has a sender for
    sock,      \* socket -> where its handle_terminal_ws is
    target,    \* socket -> connection whose cmd_tx it cloned
    link,      \* the node's connection, or NoConn
    attach     \* attaches with a live tmux client on the node

hub == <<handler, current, status>>
sockets == <<routes, sock, target>>
node == <<link, attach>>
vars == <<handler, current, status, cmds, events, routes, sock, target, link, attach>>

Handler == {"idle", "authenticated", "up", "ended", "offlined", "unregistered", "gone"}
Socket == {"idle", "routed", "opening", "open", "closing", "telling", "unrouting", "closed"}
Command == [type : {"OpenAttach", "CloseAttach"}, id : Sock]

TypeOK ==
    /\ handler \in [Conn -> Handler]
    /\ current \in Conn \cup {NoConn}
    /\ status \in {"online", "offline"}
    /\ cmds \in [Conn -> Seq(Command)]
    /\ events \in [Conn -> Seq(Sock)]
    /\ routes \in SUBSET Sock
    /\ sock \in [Sock -> Socket]
    /\ target \in [Sock -> Conn \cup {NoConn}]
    /\ link \in Conn \cup {NoConn}
    /\ attach \in SUBSET Sock
    /\ attach # {} => link # NoConn

Init ==
    /\ handler = [c \in Conn |-> "idle"]
    /\ current = NoConn
    /\ status = "offline"
    /\ cmds = [c \in Conn |-> <<>>]
    /\ events = [c \in Conn |-> <<>>]
    /\ routes = {}
    /\ sock = [s \in Sock |-> "idle"]
    /\ target = [s \in Sock |-> NoConn]
    /\ link = NoConn
    /\ attach = {}

-----------------------------------------------------------------------------
(* The machine socket. *)

(* The node connects and authenticates; the hub writes "online". *)
Connect(c) ==
    /\ link = NoConn /\ handler[c] = "idle"
    /\ link' = c
    /\ handler' = [handler EXCEPT ![c] = "authenticated"]
    /\ status' = "online"
    /\ UNCHANGED <<current, cmds, events, sockets, attach>>

(* The connection becomes the machine's current one, whatever was before. *)
Register(c) ==
    /\ handler[c] = "authenticated"
    /\ handler' = [handler EXCEPT ![c] = "up"]
    /\ current' = c
    /\ UNCHANGED <<status, cmds, events, sockets, node>>

(* Mutant of Superseded: the handler does not notice its cmd_tx is gone. *)
NeverSuperseded(c) == FALSE

(* A registration that replaces a connection drops its cmd_tx, which ends  *)
(* the send task of the replaced handler.                                  *)
Superseded(c) == current # c

(* The send or the receive task ends, and all tasks are aborted. *)
EndHandler(c) ==
    /\ handler[c] = "up"
    /\ handler' = [handler EXCEPT ![c] = "ended"]
    /\ UNCHANGED <<current, status, cmds, events, sockets, node>>

EndSuperseded(c) == Superseded(c) /\ EndHandler(c)

MarkOffline(c) ==
    /\ handler[c] = "ended"
    /\ handler' = [handler EXCEPT ![c] = "offlined"]
    /\ status' = "offline"
    /\ UNCHANGED <<current, cmds, events, sockets, node>>

(* Mutant of unregister_machine: it removes whatever is registered. *)
UnregisterAnyone(c) ==
    /\ handler[c] = "offlined"
    /\ handler' = [handler EXCEPT ![c] = "unregistered"]
    /\ current' = NoConn
    /\ UNCHANGED <<status, cmds, events, sockets, node>>

unregister_machine(c) ==
    /\ handler[c] = "offlined"
    /\ handler' = [handler EXCEPT ![c] = "unregistered"]
    /\ current' = IF current = c THEN NoConn ELSE current
    /\ UNCHANGED <<status, cmds, events, sockets, node>>

(* Mutant of drop_machine: only a connection that is still the machine's   *)
(* last one drops the attaches.                                            *)
DropWhenCurrent(c) ==
    /\ handler[c] = "unregistered"
    /\ handler' = [handler EXCEPT ![c] = "gone"]
    /\ routes' = IF current = NoConn THEN {} ELSE routes
    /\ UNCHANGED <<current, status, cmds, events, sock, target, node>>

drop_machine(c) ==
    /\ handler[c] = "unregistered"
    /\ handler' = [handler EXCEPT ![c] = "gone"]
    /\ routes' = {}
    /\ UNCHANGED <<current, status, cmds, events, sock, target, node>>

(* The control task gets an AttachDied and drops the route. *)
AttachDied(c) ==
    /\ handler[c] = "up" /\ events[c] # <<>>
    /\ routes' = routes \ {Head(events[c])}
    /\ events' = [events EXCEPT ![c] = Tail(events[c])]
    /\ UNCHANGED <<hub, cmds, sock, target, node>>

-----------------------------------------------------------------------------
(* A browser's terminal socket. *)

(* The route is registered before the machine is asked for the attach. *)
OpenSocket(s) ==
    /\ sock[s] = "idle"
    /\ sock' = [sock EXCEPT ![s] = "routed"]
    /\ routes' = routes \cup {s}
    /\ UNCHANGED <<hub, cmds, events, target, node>>

(* The browser is gone before the compression ack. *)
AckFails(s) ==
    /\ sock[s] = "routed"
    /\ sock' = [sock EXCEPT ![s] = "closed"]
    /\ routes' = routes \ {s}
    /\ UNCHANGED <<hub, cmds, events, target, node>>

(* send_to_machine clones the current connection's cmd_tx under the lock   *)
(* and sends after releasing it; on an error the handler returns.          *)
LookUpOpen(s) ==
    /\ sock[s] = "routed"
    /\ \/ /\ current # NoConn
          /\ target' = [target EXCEPT ![s] = current]
          /\ sock' = [sock EXCEPT ![s] = "opening"]
          /\ UNCHANGED routes
       \/ /\ current = NoConn
          /\ sock' = [sock EXCEPT ![s] = "closed"]
          /\ routes' = routes \ {s}
          /\ UNCHANGED target
    /\ UNCHANGED <<hub, cmds, events, node>>

Listening(c) == handler[c] = "up"

(* Mutant of OpenAttach: the error return leaves the route behind. *)
OpenAttachLeaks(s) ==
    /\ sock[s] = "opening"
    /\ \/ /\ Listening(target[s])
          /\ cmds' = [cmds EXCEPT ![target[s]] =
                        Append(@, [type |-> "OpenAttach", id |-> s])]
          /\ sock' = [sock EXCEPT ![s] = "open"]
       \/ /\ ~Listening(target[s])
          /\ sock' = [sock EXCEPT ![s] = "closed"]
          /\ UNCHANGED cmds
    /\ UNCHANGED <<hub, events, routes, target, node>>

OpenAttach(s) ==
    /\ sock[s] = "opening"
    /\ \/ /\ Listening(target[s])
          /\ cmds' = [cmds EXCEPT ![target[s]] =
                        Append(@, [type |-> "OpenAttach", id |-> s])]
          /\ sock' = [sock EXCEPT ![s] = "open"]
          /\ UNCHANGED routes
       \/ /\ ~Listening(target[s])
          /\ sock' = [sock EXCEPT ![s] = "closed"]
          /\ routes' = routes \ {s}
          /\ UNCHANGED cmds
    /\ UNCHANGED <<hub, events, target, node>>

(* The browser closes the socket, or its output falls behind on a          *)
(* compressed stream and the machine's receive loop drops the route.       *)
BrowserCloses(s) ==
    /\ sock[s] = "open"
    /\ sock' = [sock EXCEPT ![s] = "closing"]
    /\ UNCHANGED <<hub, cmds, events, routes, target, node>>

ResetCompressed(s) ==
    /\ sock[s] = "open" /\ s \in routes /\ s \in attach /\ Listening(link)
    /\ routes' = routes \ {s}
    /\ UNCHANGED <<hub, cmds, events, sock, target, node>>

(* With the route goes the sender of the socket's output queue: the send   *)
(* task ends.                                                              *)
RouteClosed(s) == s \notin routes /\ BrowserCloses(s)

LookUpClose(s) ==
    /\ sock[s] = "closing"
    /\ \/ /\ current # NoConn
          /\ target' = [target EXCEPT ![s] = current]
          /\ sock' = [sock EXCEPT ![s] = "telling"]
       \/ /\ current = NoConn
          /\ sock' = [sock EXCEPT ![s] = "unrouting"]
          /\ UNCHANGED target
    /\ UNCHANGED <<hub, cmds, events, routes, node>>

(* Mutant of CloseAttach: the machine is not told. *)
CloseQuietly(s) ==
    /\ sock[s] = "telling"
    /\ sock' = [sock EXCEPT ![s] = "unrouting"]
    /\ UNCHANGED <<hub, cmds, events, routes, target, node>>

CloseAttach(s) ==
    /\ sock[s] = "telling"
    /\ sock' = [sock EXCEPT ![s] = "unrouting"]
    /\ \/ /\ Listening(target[s])
          /\ cmds' = [cmds EXCEPT ![target[s]] =
                        Append(@, [type |-> "CloseAttach", id |-> s])]
       \/ ~Listening(target[s]) /\ UNCHANGED cmds
    /\ UNCHANGED <<hub, events, routes, target, node>>

Unroute(s) ==
    /\ sock[s] = "unrouting"
    /\ sock' = [sock EXCEPT ![s] = "closed"]
    /\ routes' = routes \ {s}
    /\ UNCHANGED <<hub, cmds, events, target, node>>

-----------------------------------------------------------------------------
(* The node. *)

(* Mutant of Leave: the attaches are not closed with the connection. *)
LeaveKeepsAttaches ==
    /\ link # NoConn
    /\ link' = NoConn
    /\ cmds' = [cmds EXCEPT ![link] = <<>>]
    /\ UNCHANGED <<hub, events, sockets, attach>>

(* connect_once ends: the socket broke, or nothing came for 90 seconds.    *)
(* Every attach of the connection is closed; what it sent may still reach  *)
(* the hub, what was sent to it is lost.                                   *)
Leave ==
    /\ link # NoConn
    /\ link' = NoConn
    /\ attach' = {}
    /\ cmds' = [cmds EXCEPT ![link] = <<>>]
    /\ UNCHANGED <<hub, events, sockets>>

(* The hub's side of the connection is closed. *)
LeaveClosed ==
    /\ link # NoConn
    /\ handler[link] \notin {"authenticated", "up"}
    /\ Leave

Receive ==
    /\ link # NoConn /\ cmds[link] # <<>>
    /\ LET command == Head(cmds[link])
       IN  \/ /\ command.type = "OpenAttach"
              /\ attach' = attach \cup {command.id}
              /\ UNCHANGED events
           \/ /\ command.type = "CloseAttach"
              /\ attach' = attach \ {command.id}
              /\ events' = [events EXCEPT ![link] =
                     IF command.id \in attach THEN Append(@, command.id) ELSE @]
    /\ cmds' = [cmds EXCEPT ![link] = Tail(@)]
    /\ UNCHANGED <<hub, sockets, link>>

(* The tmux client exits: its session ended, or it could not be spawned. *)
AttachExits(s) ==
    /\ link # NoConn /\ s \in attach
    /\ attach' = attach \ {s}
    /\ events' = [events EXCEPT ![link] = Append(@, s)]
    /\ UNCHANGED <<hub, cmds, sockets, link>>

-----------------------------------------------------------------------------
HubStep(c) ==
    \/ Register(c) \/ EndSuperseded(c) \/ MarkOffline(c)
    \/ unregister_machine(c) \/ drop_machine(c) \/ AttachDied(c)

SocketStep(s) ==
    \/ LookUpOpen(s) \/ OpenAttach(s) \/ RouteClosed(s)
    \/ LookUpClose(s) \/ CloseAttach(s) \/ Unroute(s)

Environment ==
    \/ \E c \in Conn : Connect(c) \/ EndHandler(c)
    \/ \E s \in Sock : \/ OpenSocket(s) \/ AckFails(s) \/ BrowserCloses(s)
                       \/ ResetCompressed(s) \/ AttachExits(s)
    \/ Leave

Next ==
    \/ \E c \in Conn : HubStep(c)
    \/ \E s \in Sock : SocketStep(s)
    \/ Receive
    \/ Environment

(* The hub's handlers run on, a superseded handler ends because its cmd_tx *)
(* is dropped, and the node reads its commands and gives up a connection   *)
(* that the hub has closed (at the latest by its 90 second timeout).       *)
(* Nothing makes the hub notice a dead peer that is not superseded, and    *)
(* nothing makes the node connect.                                         *)
Fairness ==
    /\ \A c \in Conn : WF_vars(HubStep(c))
    /\ \A s \in Sock : WF_vars(SocketStep(s))
    /\ WF_vars(Receive)
    /\ WF_vars(LeaveClosed)

Spec == Init /\ [][Next]_vars /\ Fairness

-----------------------------------------------------------------------------
(* HubRouter holds a route only for a terminal socket that is still being  *)
(* served, whatever order sockets, machine cleanups and attach deaths come *)
(* in: no path out of handle_terminal_ws leaks one.                        *)
NoLeakedRoute ==
    \A s \in routes : sock[s] \notin {"idle", "closed"}

(* A connection whose handler runs loses its place only to a newer         *)
(* registration, never to the late cleanup of another connection.          *)
OnlyNewerDisplaces ==
    [][(current # NoConn /\ handler[current] = "up" /\ current' # current)
         => (current' # NoConn /\ handler[current'] = "authenticated")]_vars

(* The connection the node stays on becomes the machine's registered one,  *)
(* or the node is made to reconnect: it is never left connected and        *)
(* unreachable because an older handler registered or cleaned up late.     *)
ConnectedIsReachable ==
    \A c \in Conn : link = c ~> (link # c \/ current = c)

(* While the node stays connected, no browser keeps a terminal socket that *)
(* has no tmux client behind it: the attach opens or the socket is closed, *)
(* which makes the browser reconnect ("without this step the browser WS    *)
(* would stay open with no more bytes flowing into it").                   *)
NoDeadTerminal ==
    <>[](link # NoConn) =>
        \A s \in Sock : (sock[s] = "open" /\ s \notin attach)
                            ~> (sock[s] # "open" \/ s \in attach)

(* A tmux client whose browser has gone does not outlive it for good, also *)
(* when the close went to another connection than the open.                *)
NoOrphanAttach ==
    \A s \in Sock : (sock[s] = "closed" /\ s \in attach) ~> s \notin attach

(* "Machine disconnected - cleanup (only if this connection is still       *)
(* current)": a late cleanup leaves the status of a machine that is up     *)
(* alone.                                                                  *)
StatusFollowsCurrent ==
    current # NoConn /\ handler[current] = "up" => status = "online"

(* The connection tables are typed and every route of an attach is one     *)
(* that its connection still serves (drop_machine, OpenAttach).            *)
LinkIsSound ==
    TypeOK /\ NoLeakedRoute

(* Whatever breaks, the link comes back to a usable state: a connected     *)
(* machine is reachable, a terminal socket does not wait on a route that   *)
(* is gone, and the node keeps no attach nobody has.                       *)
LinkRecovers ==
    ConnectedIsReachable /\ NoDeadTerminal /\ NoOrphanAttach
=============================================================================
