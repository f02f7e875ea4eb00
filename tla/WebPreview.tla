----------------------------- MODULE WebPreview -----------------------------
(***************************************************************************)
(* Web previews of a node's local ports (hub/src/web_preview, the crate    *)
(* preview-transport): leases with their launch codes and sessions, the    *)
(* streams that requests open through the node, the ticket that ties a     *)
(* stream to one socket of one node connection, and the bytes of a         *)
(* response on their way from the local service to the browser.            *)
(***************************************************************************)
EXTENDS Naturals, Sequences, FiniteSets

CONSTANTS
    LeaseIds, Streams,  \* a lease is made and a request is sent once
    MaxPerMachine,      \* streams of a machine at a time (32)
    MaxNodeTasks,       \* streams a node serves at a time (32)
    MaxConns,           \* bound: connections of the node
    BodyLength,         \* chunks of a response
    Framings,           \* how a response says where it ends: "length", "close"
    NoStream            \* no lease, no connection

VARIABLES
    lease,          \* per lease: "none", "live", "expired" or "revoked"
    code, session,  \* per lease: its launch code is unused; a browser has a session
    conn, conns,    \* the node's connection (NoStream: offline), connections so far
    table,          \* streams in the registry
    entry,          \* per stream: its lease, connection, whether its sender waits
    cancelled,      \* streams whose token is cancelled
    request,        \* per stream: where the browser's request is
    commands,       \* streams the node was asked to open
    node,           \* per stream: what the node's task does
    wire,           \* per stream: what the node's socket carries
    read, body,     \* per stream: chunks read from the service; chunks the browser has
    framing         \* per stream: of its response

leaseVars == <<lease, code, session>>
connVars == <<conn, conns>>
previewVars == <<leaseVars, connVars, table, entry, cancelled, request, commands, node, wire, read, body, framing>>

PreviewInit ==
    /\ lease = [l \in LeaseIds |-> "none"] /\ code = {} /\ session = {}
    /\ conn = 1 /\ conns = 1 /\ table = {} /\ cancelled = {} /\ commands = {}
    /\ entry = [s \in Streams |-> NoStream] /\ request = [s \in Streams |-> "none"]
    /\ node = [s \in Streams |-> "none"] 
    /\ wire = [s \in Streams |-> <<>>] /\ read = [s \in Streams |-> 0] /\ body = [s \in Streams |-> 0]
    /\ framing \in [Streams -> Framings]

-----------------------------------------------------------------------------
(* Leases. *)

(* Needs a connected node that can do previews. *)
create(l) ==
    /\ lease[l] = "none" /\ conn # NoStream
    /\ lease' = [lease EXCEPT ![l] = "live"] /\ code' = code \cup {l}
    /\ UNCHANGED <<session, connVars, table, entry, cancelled, request, commands, node, wire, read, body, framing>>

(* A launch code is good for one session, while the lease lives. *)
redeem(l) ==
    /\ lease[l] = "live" /\ l \in code /\ code' = code \ {l} /\ session' = session \cup {l}
    /\ UNCHANGED <<lease, connVars, table, entry, cancelled, request, commands, node, wire, read, body, framing>>

(* Mutant of revoke: the lease is forgotten, its streams are not told. *)
RevokeKeepsStreams(l) ==
    /\ lease[l] = "live" /\ lease' = [lease EXCEPT ![l] = "revoked"] /\ UNCHANGED cancelled

OfLease(l) == {s \in Streams : entry[s] # NoStream /\ entry[s].lease = l}
revoke(l) ==
    /\ lease[l] = "live" /\ lease' = [lease EXCEPT ![l] = "revoked"]
    /\ cancelled' = cancelled \cup OfLease(l)

Revoke(l) ==
    /\ revoke(l)
    /\ UNCHANGED <<code, session, connVars, table, entry, request, commands, node, wire, read, body, framing>>

Expire(l) ==
    /\ lease[l] = "live" /\ lease' = [lease EXCEPT ![l] = "expired"]
    /\ UNCHANGED <<code, session, connVars, table, entry, cancelled, request, commands, node, wire, read, body, framing>>

-----------------------------------------------------------------------------
(* The node's connection: its end takes its streams and the node's tasks   *)
(* with it, and no lease.                                                  *)

OnConn(c) == {s \in Streams : entry[s] # NoStream /\ entry[s].conn = c}
NodeDisconnects ==
    /\ conn # NoStream /\ conn' = NoStream
    /\ cancelled' = cancelled \cup OnConn(conn) /\ commands' = {}
    /\ node' = [s \in Streams |-> IF node[s] = "none" THEN "none" ELSE "ended"]
    /\ UNCHANGED <<leaseVars, conns, table, entry, request, wire, read, body, framing>>

NodeConnects ==
    /\ conn = NoStream /\ conns < MaxConns /\ conns' = conns + 1 /\ conn' = conns + 1
    /\ UNCHANGED <<leaseVars, table, entry, cancelled, request, commands, node, wire, read, body, framing>>

-----------------------------------------------------------------------------
(* A request through the proxy. *)

(* dispatch finds the lease, forward checks the session, and open asks for *)
(* the node's connection.                                                  *)
forward(s, l) ==
    /\ request[s] = "none" /\ lease[l] = "live" /\ l \in session /\ conn # NoStream
    /\ entry' = [entry EXCEPT ![s] = [lease |-> l, conn |-> conn, waits |-> TRUE]]
    /\ request' = [request EXCEPT ![s] = "allocate"]
    /\ UNCHANGED <<leaseVars, connVars, table, cancelled, commands, node, wire, read, body, framing>>

(* Mutant of HasRoom: one stream too many. *)
HasRoomForOneMore == Cardinality(table) <= MaxPerMachine

HasRoom == Cardinality(table) < MaxPerMachine

(* Limit and entry under one lock.  A connection that ended meanwhile has  *)
(* cancelled its token, and the stream's follows.                          *)
allocate(s) ==
    /\ request[s] = "allocate"
    /\ IF lease[entry[s].lease] = "live" /\ HasRoom
       THEN /\ table' = table \cup {s} /\ request' = [request EXCEPT ![s] = "waiting"]
            /\ commands' = IF s \in cancelled THEN commands ELSE commands \cup {s}
       ELSE request' = [request EXCEPT ![s] = "refused"] /\ UNCHANGED <<table, commands>>
    /\ UNCHANGED <<leaseVars, connVars, entry, cancelled, node, wire, read, body, framing>>

(* The guard is dropped with the request: cancelled and out of the table. *)
Drop(s) == cancelled' = cancelled \cup {s} /\ table' = table \ {s}

(* Cancelled, refused by the node, or ten seconds passed. *)
OpenFails(s) ==
    /\ request[s] = "waiting" /\ Drop(s) /\ request' = [request EXCEPT ![s] = "failed"]
    /\ UNCHANGED <<leaseVars, connVars, entry, commands, node, wire, read, body, framing>>

-----------------------------------------------------------------------------
(* The node's side of a stream, and the hub's socket for it. *)

Busy == {s \in Streams : node[s] \notin {"none", "ended"}}

(* With too many at once, the node drops the command. *)
OpenPreviewStream(s) ==
    /\ s \in commands /\ commands' = commands \ {s}
    /\ node' = [node EXCEPT ![s] = IF Cardinality(Busy) < MaxNodeTasks THEN "connecting" ELSE "ended"]
    /\ UNCHANGED <<leaseVars, connVars, table, entry, cancelled, request, wire, read, body, framing>>

Claimable(s) ==
    s \in table /\ conn = entry[s].conn /\ lease[entry[s].lease] = "live" /\ s \notin cancelled /\ entry[s].waits

(* The socket of a stream must come over the connection it was opened on,  *)
(* and takes the sender.                                                  *)
accept(s) ==
    /\ node[s] = "connecting"
    /\ \/ /\ Claimable(s) /\ entry' = [entry EXCEPT ![s].waits = FALSE]
          /\ node' = [node EXCEPT ![s] = "dialling"]
       \/ ~Claimable(s) /\ node' = [node EXCEPT ![s] = "ended"] /\ UNCHANGED entry
    /\ UNCHANGED <<leaseVars, connVars, table, cancelled, request, commands, wire, read, body, framing>>

(* The local port answers or not. *)
connect(s) ==
    /\ node[s] = "dialling"
    /\ \/ /\ node' = [node EXCEPT ![s] = "serving"]
          /\ request' = [request EXCEPT ![s] = IF @ = "waiting" THEN "reading" ELSE @]
          /\ UNCHANGED <<table, cancelled>>
       \/ /\ node' = [node EXCEPT ![s] = "ended"]
          /\ IF request[s] = "waiting" THEN Drop(s) /\ request' = [request EXCEPT ![s] = "failed"]
             ELSE UNCHANGED <<table, cancelled, request>>
    /\ UNCHANGED <<leaseVars, connVars, entry, commands, wire, read, body, framing>>

-----------------------------------------------------------------------------
(* The bytes of a response. *)

(* The node's bridge: a chunk, or the end of the service's output. *)
bridge_send(s) ==
    /\ node[s] = "serving" /\ request[s] = "reading" /\ Len(wire[s]) < 2
    /\ IF read[s] < BodyLength
       THEN /\ read' = [read EXCEPT ![s] = @ + 1] /\ wire' = [wire EXCEPT ![s] = Append(@, "chunk")]
            /\ UNCHANGED node
       ELSE /\ wire' = [wire EXCEPT ![s] = Append(@, "eof")] /\ node' = [node EXCEPT ![s] = "ended"]
            /\ UNCHANGED read
    /\ UNCHANGED <<leaseVars, connVars, table, entry, cancelled, request, commands, body, framing>>

(* The socket fails under the bridge. *)
SocketFails(s) ==
    /\ node[s] = "serving" /\ node' = [node EXCEPT ![s] = "ended"]
    /\ wire' = [wire EXCEPT ![s] = Append(@, "lost")]
    /\ UNCHANGED <<leaseVars, connVars, table, entry, cancelled, request, commands, read, body, framing>>

(* Mutant of IsComplete: whatever arrived before the end is a response. *)
AnyEndIsComplete(s) == TRUE

(* With its length known, a response that ends early is an error; without  *)
(* it, the end of the stream is the end of the response.                   *)
IsComplete(s) == framing[s] = "close" \/ body[s] = BodyLength

Finish(s, how) == Drop(s) /\ request' = [request EXCEPT ![s] = how]

(* The hub's bridge feeds the response; its end, however it came about,    *)
(* ends the stream the response is read from.                              *)
bridge_receive(s) ==
    /\ request[s] = "reading" /\ s \notin cancelled /\ wire[s] # <<>> /\ wire' = [wire EXCEPT ![s] = Tail(@)]
    /\ IF Head(wire[s]) = "chunk"
       THEN body' = [body EXCEPT ![s] = @ + 1] /\ UNCHANGED <<request, table, cancelled>>
       ELSE Finish(s, IF IsComplete(s) THEN "complete" ELSE "broken") /\ UNCHANGED body
    /\ UNCHANGED <<leaseVars, connVars, entry, commands, node, read, framing>>

(* The proxy's task stops with the token or at the lease's end, and the    *)
(* browser may go away.                                                    *)
Cut(s) ==
    /\ request[s] = "reading" /\ (s \in cancelled \/ lease[entry[s].lease] = "expired")
    /\ Finish(s, "broken")
    /\ UNCHANGED <<leaseVars, connVars, entry, commands, node, wire, read, body, framing>>

BrowserLeaves(s) ==
    /\ request[s] = "reading" /\ Finish(s, "left")
    /\ UNCHANGED <<leaseVars, connVars, entry, commands, node, wire, read, body, framing>>

-----------------------------------------------------------------------------

PreviewNext ==
    \/ NodeDisconnects \/ NodeConnects
    \/ \E l \in LeaseIds : create(l) \/ redeem(l) \/ Revoke(l) \/ Expire(l) \/ \E s \in Streams : forward(s, l)
    \/ \E s \in Streams :
          \/ allocate(s) \/ OpenFails(s) \/ OpenPreviewStream(s) \/ accept(s) \/ connect(s)
          \/ bridge_send(s) \/ SocketFails(s) \/ bridge_receive(s) \/ Cut(s) \/ BrowserLeaves(s)

(* What the hub does for a request by itself, whatever state that is in.   *)
StreamStep(s) == Cut(s) \/ OpenFails(s) \/ allocate(s)

PreviewSpec ==
    /\ PreviewInit /\ [][PreviewNext]_previewVars
    /\ \A s \in Streams : WF_previewVars(StreamStep(s))

-----------------------------------------------------------------------------

(* The registry holds exactly the streams of requests under way, never     *)
(* more than a machine may have: a slot is returned however a request      *)
(* ends.                                                                   *)
SlotsAreReturned ==
    /\ Cardinality(table) <= MaxPerMachine
    /\ table = {s \in Streams : request[s] \in {"waiting", "reading"}}

(* A response with a known length that ends early is never complete, and   *)
(* the browser has no chunk the service did not send.                      *)
TruncatedIsNoSuccess ==
    \A s \in Streams : /\ body[s] <= read[s]
                       /\ request[s] = "complete" => framing[s] = "close" \/ body[s] = BodyLength

(* A stream whose lease is revoked, or whose node connection ended, does   *)
(* not live on: its request ends.                                          *)
Doomed(s) == entry[s] # NoStream /\ (lease[entry[s].lease] = "revoked" \/ conn # entry[s].conn)
RevokedStreamsEnd ==
    \A s \in Streams : Doomed(s) ~> request[s] \in {"refused", "failed", "complete", "broken", "left"}

(* A preview stream gives back its slot and never passes off a cut         *)
(* response as a whole one.                                                *)
PreviewIsSound ==
    SlotsAreReturned /\ TruncatedIsNoSuccess
=============================================================================
