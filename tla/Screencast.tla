----------------------------- MODULE Screencast -----------------------------
(***************************************************************************)
(* The live picture of one agent browser, from the page on the node to the *)
(* viewers of the hub: Streams and Fanout (hub/agent_browser_stream.rs),   *)
(* the viewer sockets (hub/ws.rs), the hub's knowledge of the browser      *)
(* (machine_manager.rs) and the tab's screencast on the node               *)
(* (machine/agent_browser/mod.rs).  The hub decides under the streams lock *)
(* and sends afterwards, the node runs every start and stop on a task of   *)
(* its own, and connections come and go: epochs put it all in order.       *)
(*                                                                         *)
(* A frame is the version of the page it shows; Params are one number, of  *)
(* which the largest wins; size 0 stands for `started: None'.              *)
(***************************************************************************)
EXTENDS Naturals, Sequences, FiniteSets, FiniteSetsExt

CONSTANTS
    Viewer,     \* viewer sockets, each used once (next_viewer never repeats)
    MaxSize,    \* the largest Params that clamped() lets through
    MaxPaint,   \* bound on the versions of the page
    MaxEpoch,   \* bound on the epochs at which params may still change
    MaxClock,   \* bound on how far other browsers push epoch_clock
    MaxConn,    \* bound on the node's connections
    MaxList,    \* bound on the lists sent after a lagged event channel
    Chromium    \* "unruly": frames of the last cast may arrive, and the page
                \* may change, inside a restart; a start may fail

ASSUME SizeAssumption == MaxSize \in Nat \ {0}
ASSUME BoundsAssumption ==
    /\ MaxPaint \in Nat /\ MaxEpoch \in Nat /\ MaxClock \in Nat
    /\ MaxConn \in Nat /\ MaxList \in Nat
    /\ Chromium \in {"orderly", "unruly"}
ASSUME MachineAssumption == "machine" \notin Viewer

VARIABLES
    viewer,     \* per socket: handler phase, Viewer record, its channel,
                \* and the version on its screen
    attached,   \* Fanout::viewers; the fan-out exists while this is not empty
    fan,        \* the rest of the Fanout
    clock,      \* StreamsInner::epoch_clock
    remembered, \* StreamsInner::last_epochs of this browser, 0 when absent
    unsent,     \* per task: the NodeAction it has decided and not yet sent
    hub,        \* the hub's side: connection, browser known, handler's stage
    wire,       \* the two directions of the connection
    node,       \* the node's connection, tab and tasks
    screen,     \* Tab::screen
    page        \* the page and Chromium: version, casting, frames under way

vars == <<viewer, attached, fan, clock, remembered, unsent, hub, wire, node, screen, page>>
streams == <<attached, fan, clock, remembered>>

(* Params::clamped; 1 is Params::default.                                  *)
Size == 1..MaxSize

Task == Viewer \cup {"machine"}
NoFrame == [seq |-> 0, page |-> 0]
NoAction == [kind |-> "none", size |-> 0, epoch |-> 0, conn |-> 0]
Ack == [kind |-> "ack", size |-> 0, epoch |-> 0, conn |-> 0]
Destroyed == [seq |-> 0, page |-> 0]
(* What to tell the node; conn, a history field, is the connection the hub *)
(* had when it decided.                                                    *)
Instruction(wanted, e) ==
    [kind |-> IF wanted = 0 THEN "stop" ELSE "start", size |-> wanted, epoch |-> e,
     conn |-> hub.conn]
Action == [kind : {"none", "ack", "start", "stop"}, size : Nat, epoch : Nat, conn : Nat]
Frame == [seq : Nat, page : Nat]
NewFan(e) == [started |-> 0, seq |-> 0, acked |-> 0, last |-> NoFrame, epoch |-> e]
IdleScreen == [active |-> "no", size |-> 0, got |-> "no", latest |-> 0, inflight |-> "no"]

ViewerState ==
    [phase : {"new", "admitted", "attached", "open", "closed"}, size : Size,
     waiting : {"no", "yes"}, sent : Nat, slot : Frame, inbox : Seq(Frame), shown : Nat]
Fanout == [started : Nat, seq : Nat, acked : Nat, last : Frame, epoch : Nat]
Message == [kind : {"frame", "gone", "list"}, page : Nat, present : {"no", "yes"}]
HubState ==
    [conn : Nat, known : {"no", "yes"}, stage : {"idle", "destroy", "resync", "absent"}]
NodeState ==
    [conn : Nat, conns : Nat, lists : Nat, alive : {"no", "yes"}, stopping : {"no", "yes"},
     tasks : SUBSET Action, starting : {"no", "yes"}, newest : Nat,
     fallback : {"no", "armed"}, orphan : {"no", "yes"}, failed : {"no", "yes"}]
Screen ==
    [active : {"no", "yes"}, size : Nat, got : {"no", "yes"}, latest : Nat,
     inflight : {"no", "yes"}]

TypeOK ==
    /\ viewer \in [Viewer -> ViewerState]
    /\ attached \in SUBSET Viewer
    /\ fan \in Fanout
    /\ clock \in Nat /\ remembered \in Nat
    /\ unsent \in [Task -> Action]
    /\ hub \in HubState
    /\ wire \in [down : Seq(Action), up : Seq(Message)]
    /\ node \in NodeState
    /\ screen \in Screen
    /\ page \in [version : Nat, casting : {"no", "yes"}, frames : Seq(Nat)]

Init ==
    /\ viewer = [v \in Viewer |->
         [phase |-> "new", size |-> 1, waiting |-> "no", sent |-> 0, slot |-> NoFrame,
          inbox |-> <<>>, shown |-> 0]]
    /\ attached = {} /\ fan = NewFan(0)
    /\ clock = 1 /\ remembered = 0
    /\ unsent = [a \in Task |-> NoAction]
    /\ hub = [conn |-> 1, known |-> "yes", stage |-> "idle"]
    /\ wire = [down |-> <<>>, up |-> <<>>]
    /\ node = [conn |-> 1, conns |-> 1, lists |-> 0, alive |-> "yes", stopping |-> "no",
               tasks |-> {}, starting |-> "no", newest |-> 0, fallback |-> "no",
               orphan |-> "no", failed |-> "no"]
    /\ screen = IdleScreen
    /\ page = [version |-> 1, casting |-> "no", frames |-> <<>>]

-----------------------------------------------------------------------------
(* Fanout                                                                  *)

Larger(a, b) == IF a > b THEN a ELSE b

(* Params the viewers need together, 0 without any.                        *)
effective(vs, vw) == IF vs = {} THEN 0 ELSE Max({vw[v].size : v \in vs})

(* Start, restart or stop the cast so that it matches the viewers.         *)
reconcile(f, vs, vw) ==
    LET wanted == effective(vs, vw) IN
    IF wanted = f.started
    THEN [fan |-> f, act |-> NoAction]
    ELSE [fan |-> [f EXCEPT !.started = wanted, !.epoch = @ + 1],
          act |-> Instruction(wanted, f.epoch + 1)]

(* Mutant of Offer: the slot keeps the picture without its number.         *)
OfferUnnumbered(w, f) ==
    IF w.waiting = "yes"
    THEN [w EXCEPT !.slot = [page |-> f.page]]
    ELSE [w EXCEPT !.waiting = "yes", !.sent = f.seq, !.inbox = Append(@, f)]

(* A viewer with nothing unacknowledged gets the frame, the others keep    *)
(* the newest in their slot.                                               *)
Offer(w, f) ==
    IF w.waiting = "yes"
    THEN [w EXCEPT !.slot = f]
    ELSE [w EXCEPT !.waiting = "yes", !.sent = f.seq, !.inbox = Append(@, f)]

(* Mutant of retire: the clock does not keep up with the fan-outs.         *)
retireForgets(f, remember) ==
    /\ UNCHANGED clock
    /\ remembered' = IF remember THEN f.epoch ELSE 0
    /\ attached' = {} /\ fan' = NewFan(0)

(* A fan-out ended; its epoch stays behind.                                *)
retire(f, remember) ==
    /\ clock' = Larger(clock, f.epoch)
    /\ remembered' = IF remember THEN f.epoch ELSE 0
    /\ attached' = {} /\ fan' = NewFan(0)

(* Streams::destroy and destroy_machine: the viewers are told, the fan-out *)
(* ends and no epoch is remembered.                                        *)
DestroyStream ==
    /\ viewer' = [v \in Viewer |->
         IF v \in attached THEN [viewer[v] EXCEPT !.inbox = Append(@, Destroyed)] ELSE viewer[v]]
    /\ retire(fan, FALSE)

-----------------------------------------------------------------------------
(* Viewer sockets                                                          *)

(* The upgrade is granted while the browser is known.                      *)
Admit(v) ==
    /\ viewer[v].phase = "new" /\ hub.known = "yes"
    /\ viewer' = [viewer EXCEPT ![v].phase = "admitted"]
    /\ UNCHANGED <<streams, unsent, hub, wire, node, screen, page>>

(* Mutant of add_viewer: a new fan-out counts from zero.                   *)
add_viewerFresh(v) ==
    /\ viewer[v].phase = "admitted"
    /\ LET f == IF attached = {} THEN NewFan(0) ELSE fan
           vw == [viewer EXCEPT ![v].phase = "attached"]
           r == reconcile(f, attached \cup {v}, vw)
       IN viewer' = vw /\ fan' = r.fan /\ unsent' = [unsent EXCEPT ![v] = r.act]
    /\ attached' = attached \cup {v} /\ remembered' = 0
    /\ UNCHANGED <<clock, hub, wire, node, screen, page>>

(* Streams::add_viewer.  The last frame, if any, is shown at once.         *)
add_viewer(v) ==
    /\ viewer[v].phase = "admitted"
    /\ LET f == IF attached = {} THEN NewFan(Larger(remembered, clock)) ELSE fan
           shown == IF f.last = NoFrame THEN viewer[v] ELSE Offer(viewer[v], f.last)
           vw == [viewer EXCEPT ![v] = [shown EXCEPT !.phase = "attached"]]
           r == reconcile(f, attached \cup {v}, vw)
       IN /\ viewer' = vw /\ fan' = r.fan
          /\ unsent' = [unsent EXCEPT ![v] = r.act]
    /\ attached' = attached \cup {v} /\ remembered' = 0
    /\ UNCHANGED <<clock, hub, wire, node, screen, page>>

(* AgentBrowserViewer::drop, then the handler is over.  The stop of the    *)
(* last viewer is the epoch that stays remembered.                         *)
Drop(v) ==
    LET vw == [viewer EXCEPT ![v] =
               [@ EXCEPT !.phase = "closed", !.inbox = <<>>, !.slot = NoFrame]]
        r == reconcile(fan, attached \ {v}, vw)
    IN /\ viewer' = vw
       /\ \/ /\ v \notin attached
             /\ UNCHANGED <<streams, unsent>>
          \/ /\ attached = {v}
             /\ retire(r.fan, TRUE)
             /\ unsent' = [unsent EXCEPT ![v] = r.act]
          \/ /\ v \in attached /\ attached # {v}
             /\ attached' = attached \ {v} /\ fan' = r.fan
             /\ unsent' = [unsent EXCEPT ![v] = r.act]
             /\ UNCHANGED <<clock, remembered>>

Serving(v) == viewer[v].phase = "open" /\ unsent[v] = NoAction

(* Mutant of Recheck: the check before the upgrade is trusted.             *)
RecheckTrusts(v) ==
    /\ viewer[v].phase = "attached" /\ unsent[v] = NoAction
    /\ viewer' = [viewer EXCEPT ![v].phase = "open"]
    /\ UNCHANGED <<streams, unsent, hub, wire, node, screen, page>>

(* The browser may have closed between the check and the attach.           *)
Recheck(v) ==
    /\ viewer[v].phase = "attached" /\ unsent[v] = NoAction
    /\ \/ /\ hub.known = "yes"
          /\ viewer' = [viewer EXCEPT ![v].phase = "open"]
          /\ UNCHANGED <<streams, unsent>>
       \/ hub.known = "no" /\ Drop(v)
    /\ UNCHANGED <<hub, wire, node, screen, page>>

(* The socket's own end, or the browser's: the handler drops the handle.   *)
Leave(v) ==
    /\ Serving(v)
    /\ Drop(v)
    /\ UNCHANGED <<hub, wire, node, screen, page>>

ToldDestroyed(v) ==
    /\ Serving(v) /\ viewer[v].inbox # <<>> /\ Head(viewer[v].inbox) = Destroyed
    /\ Drop(v)
    /\ UNCHANGED <<hub, wire, node, screen, page>>

set_params(v, s) ==
    /\ Serving(v) /\ v \in attached /\ s # viewer[v].size
    /\ fan.epoch <= MaxEpoch
    /\ LET vw == [viewer EXCEPT ![v].size = s]
           r == reconcile(fan, attached, vw)
       IN viewer' = vw /\ fan' = r.fan /\ unsent' = [unsent EXCEPT ![v] = r.act]
    /\ UNCHANGED <<attached, clock, remembered, hub, wire, node, screen, page>>

(* Mutant of viewer_ack: the frame in the slot is dropped.                 *)
viewer_ackDropsSlot(v) ==
    /\ Serving(v) /\ viewer[v].inbox # <<>> /\ Head(viewer[v].inbox) # Destroyed
    /\ LET w == viewer[v]
           news == v \in attached /\ w.waiting = "yes" /\ w.sent > fan.acked
       IN /\ viewer' = [viewer EXCEPT ![v] =
               [w EXCEPT !.shown = Head(w.inbox).page, !.inbox = Tail(@),
                         !.waiting = "no", !.slot = NoFrame]]
          /\ fan' = IF news THEN [fan EXCEPT !.acked = w.sent] ELSE fan
          /\ unsent' = IF news THEN [unsent EXCEPT ![v] = Ack] ELSE unsent
    /\ UNCHANGED <<attached, clock, remembered, hub, wire, node, screen, page>>

(* The client draws the frame and acknowledges it; the slot follows, and   *)
(* the first acknowledgement of a frame goes on to the node.               *)
viewer_ack(v) ==
    /\ Serving(v) /\ viewer[v].inbox # <<>> /\ Head(viewer[v].inbox) # Destroyed
    /\ LET w == [viewer[v] EXCEPT !.shown = Head(viewer[v].inbox).page,
                                  !.inbox = Tail(@)]
           free == [w EXCEPT !.waiting = "no", !.slot = NoFrame]
           acks == v \in attached /\ w.waiting = "yes"
           news == acks /\ w.sent > fan.acked
       IN /\ viewer' = [viewer EXCEPT ![v] =
               IF ~acks THEN w ELSE IF w.slot = NoFrame THEN free ELSE Offer(free, w.slot)]
          /\ fan' = IF news THEN [fan EXCEPT !.acked = w.sent] ELSE fan
          /\ unsent' = IF news THEN [unsent EXCEPT ![v] = Ack] ELSE unsent
    /\ UNCHANGED <<attached, clock, remembered, hub, wire, node, screen, page>>

(* send_to_machine takes the machine's connection of the moment.           *)
send_node_action(a) ==
    /\ unsent[a] # NoAction
    /\ unsent' = [unsent EXCEPT ![a] = NoAction]
    /\ wire' = IF hub.conn # 0 /\ hub.conn = node.conn
               THEN [wire EXCEPT !.down = Append(@, unsent[a])] ELSE wire
    /\ UNCHANGED <<viewer, streams, hub, node, screen, page>>

(* Another browser's fan-out ended with a higher epoch.                    *)
OtherRetires ==
    /\ clock < MaxClock
    /\ clock' = clock + 1
    /\ UNCHANGED <<viewer, attached, fan, remembered, unsent, hub, wire, node, screen, page>>

-----------------------------------------------------------------------------
(* The machine's messages, one at a time                                   *)

Take(kind) ==
    /\ hub.conn # 0 /\ hub.stage = "idle" /\ unsent["machine"] = NoAction
    /\ wire.up # <<>> /\ Head(wire.up).kind = kind
    /\ wire' = [wire EXCEPT !.up = Tail(@)]

(* With nobody watching the node should not be casting: repeat the stop.   *)
on_frame ==
    /\ Take("frame")
    /\ \/ /\ attached = {}
          /\ unsent' = [unsent EXCEPT !["machine"] =
               Instruction(0, IF remembered # 0 THEN remembered ELSE clock)]
          /\ UNCHANGED <<viewer, fan>>
       \/ /\ attached # {}
          /\ LET f == [seq |-> fan.seq + 1, page |-> Head(wire.up).page] IN
             /\ fan' = [fan EXCEPT !.seq = f.seq, !.last = f]
             /\ viewer' = [v \in Viewer |->
                  IF v \in attached THEN Offer(viewer[v], f) ELSE viewer[v]]
          /\ UNCHANGED unsent
    /\ UNCHANGED <<attached, clock, remembered, hub, node, screen, page>>

(* AgentBrowserDestroyed and ExistingAgentBrowsers change what is known    *)
(* under the machines lock and turn to the streams after it.               *)
AgentBrowserDestroyed ==
    /\ Take("gone")
    /\ hub' = [hub EXCEPT !.known = "no", !.stage = "destroy"]
    /\ UNCHANGED <<viewer, streams, unsent, node, screen, page>>

replace_agent_browsers ==
    /\ Take("list")
    /\ LET present == Head(wire.up).present IN
       hub' = [hub EXCEPT !.known = present,
                          !.stage = IF present = "yes" THEN "resync" ELSE "absent"]
    /\ UNCHANGED <<viewer, streams, unsent, node, screen, page>>

destroy ==
    /\ hub.stage = "destroy"
    /\ DestroyStream
    /\ hub' = [hub EXCEPT !.stage = "idle"]
    /\ UNCHANGED <<unsent, wire, node, screen, page>>

(* Mutant of restart_action: the fan-out still thinks its cast runs.       *)
restart_actionRunning == reconcile([fan EXCEPT !.acked = fan.seq], attached, viewer)

(* Viewers of a browser that survived get their cast started again.        *)
restart_action == reconcile([fan EXCEPT !.started = 0, !.acked = fan.seq], attached, viewer)

resync_machine ==
    /\ hub.stage \in {"resync", "absent"}
    /\ hub' = [hub EXCEPT !.stage = "idle"]
    /\ \/ attached = {} /\ UNCHANGED <<viewer, streams, unsent>>
       \/ /\ attached # {} /\ hub.stage = "resync"
          /\ fan' = restart_action.fan
          /\ unsent' = [unsent EXCEPT !["machine"] = restart_action.act]
          /\ UNCHANGED <<viewer, attached, clock, remembered>>
       \/ /\ attached # {} /\ hub.stage = "absent"
          /\ DestroyStream
          /\ UNCHANGED unsent
    /\ UNCHANGED <<wire, node, screen, page>>

(* The hub notices the end of a connection: unregister_machine.            *)
unregister_machine ==
    /\ hub.conn # 0 /\ hub.conn # node.conn
    /\ hub' = [conn |-> 0, known |-> "no", stage |-> "idle"]
    /\ DestroyStream
    /\ wire' = [wire EXCEPT !.up = <<>>]
    /\ unsent' = [unsent EXCEPT !["machine"] = NoAction]
    /\ UNCHANGED <<node, screen, page>>

-----------------------------------------------------------------------------
(* The node                                                                *)

(* The broadcast of the tab's events reaches the connection of the moment. *)
Emit(m) == IF node.conn = 0 THEN wire ELSE [wire EXCEPT !.up = Append(@, m)]
FrameOf(p) == [kind |-> "frame", page |-> p, present |-> "yes"]
ListNow == [kind |-> "list", page |-> 0, present |-> node.alive]

(* Hand the newest frame to the hub unless one is unacknowledged.          *)
flush_frame(s) ==
    IF s.inflight = "yes" \/ s.active = "no" \/ s.latest = 0
    THEN screen' = s /\ UNCHANGED wire
    ELSE screen' = [s EXCEPT !.inflight = "yes", !.latest = 0] /\ wire' = Emit(FrameOf(s.latest))

(* The connection breaks: every screencast is to be stopped.               *)
LoseConnection ==
    /\ node.conn # 0 /\ node.conns < MaxConn
    /\ node' = [node EXCEPT !.conn = 0, !.stopping = "yes"]
    /\ wire' = [wire EXCEPT !.down = <<>>]
    /\ UNCHANGED <<viewer, streams, unsent, hub, screen, page>>

(* The last connection's messages are done with before the next one.       *)
Prompt == wire.up = <<>> /\ hub.stage = "idle" /\ unsent["machine"] = NoAction

(* The node connects again; the hub registers it, dropping what it knew of *)
(* the old connection, and gets the list of browsers.                      *)
register_machine ==
    /\ node.conn = 0 /\ node.stopping = "no" /\ Prompt
    /\ node' = [node EXCEPT !.conn = node.conns + 1, !.conns = @ + 1]
    /\ hub' = [conn |-> node.conns + 1, known |-> "no", stage |-> "idle"]
    /\ \/ hub.conn # 0 /\ DestroyStream
       \/ hub.conn = 0 /\ UNCHANGED <<viewer, streams>>
    /\ wire' = [wire EXCEPT !.up = <<ListNow>>]
    /\ UNCHANGED <<unsent, screen, page>>

(* The event channel overran: events i to j are lost, a list follows.      *)
Lagged(i, j) ==
    /\ node.conn # 0 /\ node.lists < MaxList
    /\ node' = [node EXCEPT !.lists = @ + 1]
    /\ wire' = [wire EXCEPT !.up =
         SubSeq(@, 1, i - 1) \o <<ListNow>> \o SubSeq(@, j + 1, Len(@))]
    /\ UNCHANGED <<viewer, streams, unsent, hub, screen, page>>

GateFree == node.starting = "no"
Settled == Chromium = "unruly" \/ page.frames = <<>>

(* Starts and stops are spawned, an acknowledgement is handled in place.   *)
Receive ==
    /\ node.conn # 0 /\ wire.down # <<>>
    /\ LET m == Head(wire.down)
           acked == [screen EXCEPT !.inflight = "no"]
           sends == m.kind = "ack" /\ node.alive = "yes" /\ screen.active = "yes" /\ screen.latest # 0
           up == IF sends THEN Append(wire.up, FrameOf(screen.latest)) ELSE wire.up
       IN /\ wire' = [down |-> Tail(wire.down), up |-> up]
          /\ screen' = IF sends THEN [acked EXCEPT !.inflight = "yes", !.latest = 0]
                       ELSE IF m.kind = "ack" THEN acked ELSE screen
          /\ node' = IF m.kind = "ack" THEN node
                     ELSE [node EXCEPT !.tasks = @ \cup {m}]
    /\ UNCHANGED <<viewer, streams, unsent, hub, page>>

(* Mutant of Superseded: tasks apply in the order they get the gate.       *)
SupersededNever(t) == FALSE

Superseded(t) == t.epoch < node.newest

(* A task whose tab is gone, or that a newer start or stop overtook.       *)
IgnoreTask(t) ==
    /\ t \in node.tasks /\ GateFree
    /\ node.alive = "no" \/ Superseded(t)
    /\ node' = [node EXCEPT !.tasks = @ \ {t}]
    /\ UNCHANGED <<viewer, streams, unsent, hub, wire, screen, page>>

(* Tab::screencast_start takes the gate and resets the screen ...          *)
screencast_start(t) ==
    /\ t \in node.tasks /\ GateFree /\ node.alive = "yes" /\ ~Superseded(t)
    /\ t.kind = "start" /\ Settled
    /\ node' = [node EXCEPT !.tasks = @ \ {t}, !.newest = t.epoch, !.starting = "yes",
                            !.fallback = "no", !.failed = "no",
                            !.orphan = IF t.conn = node.conn THEN "no" ELSE "yes"]
    /\ screen' = [IdleScreen EXCEPT !.active = "yes", !.size = t.size]
    /\ page' = [page EXCEPT !.casting = "no"]
    /\ UNCHANGED <<viewer, streams, unsent, hub, wire>>

(* ... and gives it back when Chromium casts.                              *)
StartDone ==
    /\ node.starting = "yes"
    /\ node' = [node EXCEPT !.starting = "no", !.fallback = "armed"]
    /\ page' = [page EXCEPT !.casting = "yes"]
    /\ UNCHANGED <<viewer, streams, unsent, hub, wire, screen>>

(* An error or a timeout of the call, which may still take effect.         *)
StartFails ==
    /\ node.starting = "yes" /\ Chromium = "unruly"
    /\ node' = [node EXCEPT !.starting = "no", !.failed = "yes"]
    /\ screen' = [screen EXCEPT !.active = "no"]
    /\ \E c \in {"no", "yes"} : page' = [page EXCEPT !.casting = c]
    /\ UNCHANGED <<viewer, streams, unsent, hub, wire>>

screencast_stop(t) ==
    /\ t \in node.tasks /\ GateFree /\ node.alive = "yes" /\ ~Superseded(t)
    /\ t.kind = "stop"
    /\ node' = [node EXCEPT !.tasks = @ \ {t}, !.newest = t.epoch, !.orphan = "no",
                            !.failed = "no"]
    /\ screen' = [screen EXCEPT !.active = "no", !.latest = 0, !.inflight = "no"]
    /\ page' = [page EXCEPT !.casting = "no"]
    /\ UNCHANGED <<viewer, streams, unsent, hub, wire>>

(* The stop of a lost connection has no epoch.                             *)
stop_all_screencasts ==
    /\ node.stopping = "yes" /\ GateFree
    /\ node' = [node EXCEPT !.stopping = "no"]
    /\ screen' = [screen EXCEPT !.active = "no", !.latest = 0, !.inflight = "no"]
    /\ page' = [page EXCEPT !.casting = "no"]
    /\ UNCHANGED <<viewer, streams, unsent, hub, wire>>

(* The page changes; Chromium sends a frame while it casts.                *)
Paint ==
    /\ node.alive = "yes" /\ page.version < MaxPaint
    /\ Chromium = "unruly" \/ GateFree
    /\ page' = [page EXCEPT !.version = @ + 1,
                            !.frames = IF page.casting = "yes"
                                       THEN Append(@, page.version + 1) ELSE @]
    /\ UNCHANGED <<viewer, streams, unsent, hub, wire, node, screen>>

on_screencast_frame ==
    /\ page.frames # <<>>
    /\ page' = [page EXCEPT !.frames = Tail(@)]
    /\ IF screen.active = "no"
       THEN UNCHANGED <<screen, wire>>
       ELSE flush_frame([screen EXCEPT !.got = "yes", !.latest = Head(page.frames)])
    /\ UNCHANGED <<viewer, streams, unsent, hub, node>>

(* A started cast that has produced no frame gets a screenshot.            *)
fallback_frame ==
    /\ node.fallback = "armed"
    /\ node' = [node EXCEPT !.fallback = "no"]
    /\ IF screen.active = "no" \/ screen.got = "yes"
       THEN UNCHANGED <<screen, wire>>
       ELSE flush_frame([screen EXCEPT !.latest = page.version])
    /\ UNCHANGED <<viewer, streams, unsent, hub, page>>

(* FRAME_ACK_TIMEOUT has passed since the frame went out.                  *)
AckTimesOut ==
    /\ screen.inflight = "yes"
    /\ screen' = [screen EXCEPT !.inflight = "no"]
    /\ UNCHANGED <<viewer, streams, unsent, hub, wire, node, page>>

(* The tab is closed.                                                      *)
CloseBrowser ==
    /\ node.alive = "yes"
    /\ node' = [node EXCEPT !.alive = "no", !.starting = "no", !.fallback = "no"]
    /\ screen' = IdleScreen
    /\ page' = [page EXCEPT !.casting = "no", !.frames = <<>>]
    /\ wire' = Emit([kind |-> "gone", page |-> 0, present |-> "no"])
    /\ UNCHANGED <<viewer, streams, unsent, hub>>

-----------------------------------------------------------------------------
ViewerStep(v) == add_viewer(v) \/ Recheck(v) \/ ToldDestroyed(v) \/ viewer_ack(v)

HubStep ==
    on_frame \/ AgentBrowserDestroyed \/ replace_agent_browsers \/ destroy \/ resync_machine

NodeStep ==
    \/ register_machine \/ Receive \/ StartDone \/ stop_all_screencasts
    \/ \E t \in node.tasks : IgnoreTask(t) \/ screencast_start(t) \/ screencast_stop(t)

ChromiumStep == on_screencast_frame \/ fallback_frame

Next ==
    \/ \E v \in Viewer : Admit(v) \/ ViewerStep(v) \/ Leave(v)
    \/ \E v \in Viewer, s \in Size : set_params(v, s)
    \/ \E a \in Task : send_node_action(a)
    \/ OtherRetires \/ HubStep \/ unregister_machine
    \/ LoseConnection
    \/ \E i, j \in 1..Len(wire.up) : i <= j /\ Lagged(i, j)
    \/ NodeStep \/ StartFails \/ Paint \/ ChromiumStep \/ AckTimesOut \/ CloseBrowser

(* Handlers, spawned tasks and the node's reconnect loop run; viewers      *)
(* acknowledge what they draw; whether pages change, sockets close,        *)
(* connections break or acknowledgements take too long is left open.       *)
Fairness ==
    /\ \A v \in Viewer : WF_vars(ViewerStep(v))
    /\ \A a \in Task : WF_vars(send_node_action(a))
    /\ WF_vars(HubStep) /\ WF_vars(ChromiumStep) /\ WF_vars(Receive) /\ WF_vars(StartDone \/ StartFails)
    /\ WF_vars(register_machine) /\ WF_vars(stop_all_screencasts)
    /\ WF_vars(\E t \in node.tasks : IgnoreTask(t) \/ screencast_start(t) \/ screencast_stop(t))

Spec == Init /\ [][Next]_vars /\ Fairness

-----------------------------------------------------------------------------
(* The highest epoch the next decision about this browser starts from.     *)
Ceiling == IF attached = {} THEN clock ELSE fan.epoch

(* The hub's next start always wins at the node: no start or stop that is  *)
(* decided, on the wire, waiting in a task or already applied, not even    *)
(* one of a fan-out or a connection that ended, has a higher epoch than    *)
(* the one the next decision counts up from.                               *)
NextStartWins ==
    /\ \A a \in Task : unsent[a].epoch <= Ceiling
    /\ \A i \in 1..Len(wire.down) : wire.down[i].epoch <= Ceiling
    /\ \A t \in node.tasks : t.epoch <= Ceiling
    /\ node.newest <= Ceiling

Quiet ==
    /\ \A a \in Task : unsent[a] = NoAction
    /\ wire.up = <<>> /\ wire.down = <<>> /\ hub.stage = "idle"
    /\ node.tasks = {} /\ node.starting = "no"
    /\ node.fallback = "no" /\ page.frames = <<>>
    /\ node.conn # 0 /\ node.conn = hub.conn /\ node.alive = "yes"

(* When nothing is on its way the node casts exactly if somebody watches,  *)
(* at the size the viewers need together, whatever starts, stops, leaves,  *)
(* param changes, lists and reconnects overlapped.  Except that a start *)
(* decided under an earlier connection, sent or run after that connection  *)
(* ended, may begin a cast nobody watches, until its next frame; a start   *)
(* that failed is not tried again until the viewers need something else.   *)
CastFollowsViewers ==
    Quiet =>
        IF attached = {}
        THEN screen.active = "yes" => node.orphan = "yes"
        ELSE \/ screen.active = "yes" /\ screen.size = effective(attached, viewer)
             \/ node.failed = "yes"

(* A viewer whose browser is gone, closed or lost with its connection, is  *)
(* told and detached, also when it attached while the browser went away.   *)
GoneIsTold ==
    (node.alive = "no" /\ hub.conn = node.conn) ~> (attached = {} \/ hub.conn # node.conn)

(* Once the page stops changing, every open viewer gets to see what it     *)
(* looks like, over restarts of the cast, skipped frames, lost events and  *)
(* reconnects, without an acknowledgement ever timing out.  It needs an    *)
(* orderly Chromium: a late frame of the last cast counts as one of the    *)
(* restarted cast (got_frame), which then gets no screenshot, so a change  *)
(* inside the restart stays unseen until the page changes again.           *)
LatestIsShown ==
    \A v \in Viewer :
        []<>(viewer[v].phase = "open" /\ node.alive = "yes" => viewer[v].shown = page.version)

(* The fan-out is typed and numbered without gaps, and the start of a      *)
(* screencast that was asked for last is the one whose frames count        *)
(* (retire, screencast_start).                                             *)
CastIsSound ==
    TypeOK /\ NextStartWins

(* A viewer is never left looking at something old: one whose browser is   *)
(* gone is told so, and one that stays sees the page as it last was.       *)
PictureArrives ==
    GoneIsTold /\ LatestIsShown
=============================================================================
