------------------------------ MODULE Requests ------------------------------
(***************************************************************************)
(* Requests of the hub that wait for an answer of a node: the map of       *)
(* pending requests in machine_manager.rs with its timeouts, the composer  *)
(* with its stored receipts (composer.rs, ws.rs), chunked uploads (ws.rs,  *)
(* machine/upload.rs) and the attach they go to (machine/attach.rs).       *)
(*                                                                         *)
(* There is one machine and one composer message, which clients send again *)
(* over several sockets.  A request is numbered in the order it starts;    *)
(* its record is the future that runs it: "start", "registered" (its entry *)
(* is in pending), "ready" (it holds a sender of a connection), "sent",    *)
(* "answered" (a receipt to be saved), "done", or "gone" when the future   *)
(* was dropped.  Entry and channel are apart: an answer takes the entry    *)
(* out and puts a value into rx.  One file is read and edited; its content *)
(* is a version number, which stands for its hash.                         *)
(***************************************************************************)
EXTENDS Naturals, Sequences, FiniteSets, Functions

CONSTANTS
    Attach,       \* sockets of terminals, each opened at most once
    Size,         \* chunks of an upload
    Mixes         \* bounds: how many requests of each kind, sockets and faults
                  \* (timeouts, dead attaches, lost connections, restarts) a
                  \* behaviour has: one of these

Plain == {"create", "foreground", "list", "read", "write", "browser"}
Kind == Plain \cup {"composer", "begin", "chunk", "end"}

ASSUME BoundsAssumption ==
    Size \in Nat \ {0} /\ Mixes \subseteq [Kind \cup {"socket", "fault"} -> Nat]

VARIABLES
    mix,         \* the member of Mixes this behaviour keeps to
    request,     \* the requests so far
    dropping,    \* entries of pending a task of drop_agent_browsers will remove
    row,         \* the stored receipt of the message
    told,        \* history: receipts clients got
    socket,      \* per attach, on the hub: "new", "open", "closed"
    to_node, to_hub, epoch, online,   \* the connection
    handle,      \* attaches AttachManager knows
    queue,       \* per attach: composer commands the writer has not taken
    acks,        \* requests whose composer task on the node waits for the writer, and its ack
    upload,      \* per attach: the chunks of the upload under way, or None
    files,       \* history: finished uploads
    written,       \* history: how often the message was written to a terminal
    content, tasks, \* the version of the file, and the node's tasks that read or write it
    versions,       \* versions editors were given
    overwrote,   \* history: a write replaced a version its editor had not read
    faults

requestVars == <<mix, request, dropping, row, told, socket, to_node, to_hub, epoch, online, handle,
          queue, acks, upload, files, written, content, tasks, versions, overwrote, faults>>
wire == <<to_node, to_hub, epoch, online>>
composer == <<row, told>>
terminal == <<handle, queue, acks, written>>
edits == <<content, tasks, versions, overwrote>>
node_files == <<upload, files, edits>>

None == <<Size + 1>>   \* no upload: no client sends a chunk of that number
NoAttach == "none"
Id == DOMAIN request
Receipt == {"unknown", "failed", "delivered"}
Upload == {"begin", "chunk", "end"}
Waiting == {"start", "registered", "ready", "sent", "answered"}
NewRequest(kind, a, index) ==
    [kind |-> kind, attach |-> a, index |-> index, step |-> "start", entry |-> FALSE,
     rx |-> "open", conn |-> epoch, born |-> epoch, tracked |-> kind \in {"create", "browser"}, value |-> "none"]

Over(r) ==   \* only that it was made is remembered
    [kind |-> request[r].kind, attach |-> NoAttach, index |-> 0, step |-> "done", entry |-> FALSE,
     rx |-> "open", conn |-> 0, born |-> 0, tracked |-> FALSE, value |-> "none"]

RequestTypeOK ==
    /\ \A r \in Id : /\ request[r].kind \in Kind /\ request[r].entry \in BOOLEAN
                     /\ request[r].step \in Waiting \cup {"done", "gone"}
    /\ row \in Receipt \cup {"none"} /\ told \subseteq Receipt
    /\ dropping \subseteq Id /\ handle \subseteq Attach
    /\ \A a \in Attach : socket[a] \in {"new", "open", "closed"}
    /\ epoch <= faults /\ faults <= mix["fault"]

RequestInit ==
    /\ mix \in Mixes
    /\ request = <<>> /\ dropping = {} /\ row = "none" /\ told = {}
    /\ socket = [a \in Attach |-> "new"]
    /\ to_node = <<>> /\ to_hub = <<>> /\ epoch = 0 /\ online = TRUE
    /\ handle = {} /\ queue = [a \in Attach |-> <<>>] /\ acks = {}
    /\ upload = [a \in Attach |-> None] /\ files = {} /\ written = 0 /\ faults = 0
    /\ content = 0 /\ tasks = {} /\ versions = {} /\ overwrote = FALSE

Fault == faults < mix["fault"] /\ faults' = faults + 1
Starts(kind, a, index) ==
    /\ Len(SelectSeq(request, LAMBDA r : r.kind = kind)) < mix[kind]
    /\ request' = Append(request, NewRequest(kind, a, index))

-----------------------------------------------------------------------------
(* Starting a request. *)

(* The opener of a terminal and the machine of a browser request are kept  *)
(* beside pending ("tracked").                                             *)
Begin(kind, index) ==
    /\ Starts(kind, NoAttach, index)
    /\ UNCHANGED <<dropping, composer, socket, wire, terminal, node_files, faults>>
create_terminal == Begin("create", 0)
check_foreground_process == Begin("foreground", 0)
list_directory == Begin("list", 0)
agent_browser == Begin("browser", 0)
read_file == Begin("read", 0)
write_file == \E base \in versions : Begin("write", base)

(* One composer send at a time per socket; another is told to ask later. *)
ComposerBusy(a) ==
    \E r \in Id : request[r].kind = "composer" /\ request[r].attach = a /\ request[r].step \in Waiting

(* Mutant of reserve: a receipt that is still unknown is sent again. *)
ReserveAgain(a) ==
    \/ /\ row \in {"none", "unknown"} /\ row' = "unknown"
       /\ Starts("composer", a, 0) /\ UNCHANGED told
    \/ row \in {"failed", "delivered"} /\ told' = told \cup {row} /\ UNCHANGED <<row,
                                                                                 request>>

(* Insert the tombstone, or return what is stored for this message. *)
reserve(a) ==
    \/ row = "none" /\ row' = "unknown" /\ Starts("composer", a, 0) /\ UNCHANGED told
    \/ row # "none" /\ told' = told \cup {row} /\ UNCHANGED <<row, request>>

submit(a) ==
    /\ socket[a] = "open"
    /\ \/ ComposerBusy(a) /\ told' = told \cup {"unknown"} /\ UNCHANGED <<row, request>>
       \/ ~ComposerBusy(a) /\ reserve(a)
    /\ UNCHANGED <<dropping, socket, wire, terminal, node_files, faults>>

(* Without control, a connection or the capability nothing is sent. *)
Finish(r, value) == [request EXCEPT ![r].step = "answered", ![r].value = value, ![r].entry = FALSE]
SubmitRefused(r) ==
    /\ request[r].kind = "composer" /\ request[r].step = "start"
    /\ request' = Finish(r, "failed")
    /\ UNCHANGED <<dropping, composer, socket, wire, terminal, node_files, faults>>

(* The socket's reader queues one upload message after the other. *)
UploadMessage(a, kind, index) ==
    /\ socket[a] = "open"
    /\ \A r \in Id : request[r].attach = a /\ request[r].kind \in Upload =>
                     request[r].step \in {"sent", "done"}
    /\ (kind = "begin" => online) /\ Starts(kind, a, index)
    /\ UNCHANGED <<dropping, composer, socket, wire, terminal, node_files, faults>>

UploadAbort(a) ==
    /\ mix["begin"] > 0 /\ socket[a] = "open" /\ online /\ <<"abort", a>> \notin Range(to_node)
    /\ to_node' = Append(to_node, <<"abort", a>>)
    /\ UNCHANGED <<request, dropping, composer, socket, to_hub, epoch, online, terminal,
                   node_files, faults>>

-----------------------------------------------------------------------------
(* Running it. *)

Step(r, from, to) == request[r].step = from /\ request' = [request EXCEPT ![r] = to]

register_pending(r) ==
    /\ Step(r, "start", [request[r] EXCEPT !.step = "registered", !.entry = TRUE])
    /\ UNCHANGED <<dropping, composer, socket, wire, terminal, node_files, faults>>

(* A request that could not be sent is taken out of pending. *)
NotSent(r) == IF request[r].kind = "composer"
              THEN [request[r] EXCEPT !.step = "answered", !.value = "failed", !.entry = FALSE]
              ELSE Over(r)

(* Look the connection up and clone its sender; check_foreground_process   *)
(* sends before it gives up the lock.                                      *)
Message(r) == <<request[r].kind, request[r].attach, r, request[r].index>>
find_machine(r) ==
    /\ IF online /\ request[r].kind = "foreground"
       THEN /\ Step(r, "registered", [request[r] EXCEPT !.step = "sent", !.conn = epoch])
            /\ to_node' = Append(to_node, Message(r))
       ELSE /\ Step(r, "registered", IF online THEN [request[r] EXCEPT !.step = "ready", !.conn = epoch]
                                     ELSE NotSent(r))
            /\ UNCHANGED to_node
    /\ UNCHANGED <<dropping, composer, socket, to_hub, epoch, online, terminal,
                   node_files, faults>>

(* The sender of a connection that ended fails, or takes the message and   *)
(* loses it.                                                               *)
send_to_machine(r) ==
    LET sent == [request[r] EXCEPT !.step = "sent"] IN
    /\ \/ /\ online /\ request[r].conn = epoch /\ Step(r, "ready", sent)
          /\ to_node' = Append(to_node, Message(r))
       \/ /\ request[r].conn # epoch \/ ~online
          /\ Step(r, "ready", NotSent(r)) \/ Step(r, "ready", sent)
          /\ UNCHANGED to_node
    /\ UNCHANGED <<dropping, composer, socket, to_hub, epoch, online, terminal,
                   node_files, faults>>

(* An answer of the node: out of pending, into the channel. *)
handle_machine_message ==
    LET r == Head(to_hub)[1] IN
    /\ to_hub # <<>> /\ to_hub' = Tail(to_hub)
    /\ request' = IF request[r].entry
                  THEN [request EXCEPT ![r].entry = FALSE, ![r].rx = Head(to_hub)[2],
                                       ![r].index = Head(to_hub)[3]]
                  ELSE request
    /\ UNCHANGED <<dropping, composer, socket, to_node, epoch, online, terminal,
                   node_files, faults>>

(* What the node says of a composer message; anything else is unknown. *)
submit_composer(value) == IF value \in Receipt THEN value ELSE "unknown"

(* The request wakes with a value or a dropped sender. *)
Woken(r, value) ==
    IF request[r].kind = "composer"
    THEN [request[r] EXCEPT !.step = "answered", !.entry = FALSE,
                            !.value = submit_composer(value)]
    ELSE Over(r)

(* An editor learns the hash of what it read, or of what it has saved. *)
ReadResponse(r) == IF request[r].kind = "read" /\ request[r].rx = "ok" THEN {request[r].index} ELSE {}
WriteResponse(r) == IF request[r].kind = "write" /\ request[r].rx = "ok" THEN {request[r].index} ELSE {}

Wake(r) ==
    /\ request[r].rx # "open" /\ Step(r, "sent", Woken(r, request[r].rx))
    /\ versions' = versions \cup ReadResponse(r) \cup WriteResponse(r)
    /\ UNCHANGED <<dropping, composer, socket, wire, terminal, upload, files, content,
                   tasks,
                   overwrote, faults>>

(* Mutant of remove_pending: a timeout leaves the entry. *)
KeepPending(r) == Step(r, "sent", [Woken(r, "timeout") EXCEPT !.entry = request[r].entry])

remove_pending(r) == Step(r, "sent", Woken(r, "timeout"))

Timeout(r) ==
    /\ Fault /\ request[r].rx = "open" /\ remove_pending(r)
    /\ UNCHANGED <<dropping, composer, socket, wire, terminal, node_files>>

(* The receipt is stored, unless the database is not available, and told. *)
SaveReceipt(r) ==
    /\ Step(r, "answered", Over(r))
    /\ \/ row' = request[r].value /\ UNCHANGED faults
       \/ UNCHANGED row /\ Fault
    /\ told' = told \cup {request[r].value}
    /\ UNCHANGED <<dropping, socket, wire, terminal, node_files>>

(* A caller that hangs up drops the future; its entry stays. *)
Cancel(r) ==
    /\ request[r].kind \in Plain /\ request[r].step \in Waiting /\ Fault
    /\ request' = [request EXCEPT ![r].step = "gone"]
    /\ UNCHANGED <<dropping, composer, socket, wire, terminal, node_files>>

-----------------------------------------------------------------------------
(* Sockets and the connection. *)

OpenAttach(a) ==
    /\ socket[a] = "new" /\ online
    /\ Cardinality({b \in Attach : socket[b] # "new"}) < mix["socket"]
    /\ socket' = [socket EXCEPT ![a] = "open"] /\ to_node' = Append(to_node, <<"open", a>>)
    /\ UNCHANGED <<request, dropping, composer, to_hub, epoch, online, terminal,
                   node_files, faults>>

(* The reader is aborted, with an upload message it was about to queue;    *)
(* composer sends and sent upload messages have tasks of their own.        *)
AbortReader(a) ==
    [r \in Id |-> IF request[r].attach = a /\ request[r].kind \in Upload
                     /\ request[r].step \in {"start", "registered", "ready"}
                  THEN [request[r] EXCEPT !.step = "gone"] ELSE request[r]]

CloseSocket(a) ==
    /\ socket[a] = "open"
    /\ socket' = [socket EXCEPT ![a] = "closed"]
    /\ request' = AbortReader(a)
    /\ to_node' = IF online THEN Append(to_node, <<"close", a>>) ELSE to_node
    /\ UNCHANGED <<dropping, composer, to_hub, epoch, online, terminal, node_files, faults>>

(* Agent browser requests are forgotten at once; a task drops their        *)
(* senders.                                                                *)
DropConnection ==
    /\ online' = FALSE /\ epoch' = epoch + 1 /\ to_node' = <<>> /\ to_hub' = <<>>
    /\ handle' = {} /\ upload' = [a \in Attach |-> None] /\ acks' = {}
    /\ UNCHANGED <<queue, written, files, edits>>

(* Mutant of drop_agent_browsers: requests not sent yet are overlooked. *)
DropSentBrowsers ==
    LET lost == {r \in Id : request[r].kind = "browser" /\ request[r].tracked /\ request[r].step = "sent"} IN
    /\ dropping' = dropping \cup lost
    /\ request' = [r \in Id |-> IF r \in lost THEN [request[r] EXCEPT !.tracked = FALSE]
                                ELSE request[r]]

drop_agent_browsers ==
    LET lost == {r \in Id : request[r].kind = "browser" /\ request[r].tracked} IN
    /\ dropping' = dropping \cup lost
    /\ request' = [r \in Id |-> IF r \in lost THEN [request[r] EXCEPT !.tracked = FALSE]
                                ELSE request[r]]

unregister_machine ==
    /\ online /\ Fault /\ DropConnection /\ drop_agent_browsers
    /\ UNCHANGED <<composer, socket>>

DropSenders ==
    /\ dropping # {} /\ dropping' = {}
    /\ request' = [r \in Id |-> IF r \in dropping /\ request[r].entry
                                THEN [request[r] EXCEPT !.entry = FALSE, !.rx = "dropped"]
                                ELSE request[r]]
    /\ UNCHANGED <<composer, socket, wire, terminal, node_files, faults>>

Reconnect ==
    /\ ~online /\ online' = TRUE
    /\ UNCHANGED <<request, dropping, composer, socket, to_node, to_hub, epoch, terminal,
                   node_files, faults>>

(* The hub stops and starts again: only the stored receipt is left. *)
HubRestarts ==
    /\ Fault /\ DropConnection /\ dropping' = {}
    /\ request' = [r \in Id |-> Over(r)]
    /\ socket' = [a \in Attach |-> IF socket[a] = "open" THEN "closed" ELSE socket[a]]
    /\ UNCHANGED composer

-----------------------------------------------------------------------------
(* The node. *)

Reply(r, value) == to_hub' = Append(to_hub, <<r, value, 0>>)
SetUpload(a, u) == upload' = [upload EXCEPT ![a] = u]
abort_attach(a) == SetUpload(a, None)

(* One upload at a time per attach. *)
begin(a, r) ==
    /\ UNCHANGED files
    /\ IF upload[a] = None THEN \/ SetUpload(a, <<>>) /\ Reply(r, "ok")
                                \/ UNCHANGED upload /\ Reply(r, "error")
       ELSE UNCHANGED upload /\ Reply(r, "error")

(* Mutant of write_chunk: the chunk's number is not looked at. *)
WriteAnyChunk(u, index) == IF Len(u) < Size THEN Append(u, index) ELSE None

(* The chunk must be the next one and fit; otherwise the upload is over. *)
write_chunk(u, index) == IF index = Len(u) /\ Len(u) < Size THEN Append(u, index) ELSE None

chunk(a, r, index) ==
    /\ UNCHANGED files
    /\ \/ LET u == write_chunk(upload[a], index) IN
          upload[a] # None /\ SetUpload(a, u) /\ Reply(r, IF u = None THEN "error" ELSE "ok")
       \/ upload[a] # None /\ SetUpload(a, None) /\ Reply(r, "error")
       \/ upload[a] = None /\ UNCHANGED upload /\ Reply(r, "error")

(* Complete: all bytes that were announced are there. *)
finish(a, r) ==
    /\ SetUpload(a, None)
    /\ \/ upload[a] # None /\ Len(upload[a]) = Size /\ files' = files \cup {upload[a]} /\ Reply(r, "ok")
       \/ UNCHANGED files /\ Reply(r, "error")

UploadStep(kind, a, r, index) ==
    \/ a \notin handle /\ abort_attach(a) /\ Reply(r, "error") /\ UNCHANGED files
    \/ /\ a \in handle
       /\ \/ kind = "begin" /\ begin(a, r)
          \/ kind = "chunk" /\ chunk(a, r, index)
          \/ kind = "end" /\ finish(a, r)

(* Mutant of CloseAttach: the partial file is left. *)
CloseKeepsUpload(a) == handle' = handle \ {a} /\ UNCHANGED <<to_hub, upload, files>>

CloseAttach(a) == handle' = handle \ {a} /\ abort_attach(a) /\ UNCHANGED <<to_hub, files>>

(* Whether the message is valid and its attachments could be saved. *)
prepare_composer == BOOLEAN

(* The composer task: prepare, find the attach, hand it to its writer. *)
write_composer(a, r) ==
    \E prepared \in prepare_composer :
        \/ /\ prepared /\ a \in handle /\ queue' = [queue EXCEPT ![a] = Append(@, r)]
           /\ acks' = acks \cup {<<r, "open">>} /\ UNCHANGED to_hub
        \/ (~prepared \/ a \notin handle) /\ Reply(r, "failed") /\ UNCHANGED <<queue, acks>>

handle_hub_message ==
    LET msg == Head(to_node) a == msg[2] IN
    /\ to_node # <<>> /\ to_node' = Tail(to_node)
    /\ \/ /\ msg[1] = "open" /\ handle' = handle \cup {a}
          /\ UNCHANGED <<to_hub, queue, acks, upload, files, tasks>>
       \/ msg[1] = "close" /\ CloseAttach(a) /\ UNCHANGED <<queue, acks, tasks>>
       \/ msg[1] = "abort" /\ abort_attach(a) /\ UNCHANGED <<to_hub, handle, queue, acks,
                                                             files, tasks>>
       \/ msg[1] \in Upload /\ UploadStep(msg[1], a, msg[3], msg[4])
          /\ UNCHANGED <<handle, queue, acks, tasks>>
       \/ msg[1] = "composer" /\ write_composer(a, msg[3]) /\ UNCHANGED <<handle, upload,
                                                                          files, tasks>>
       \/ msg[1] \in Plain \ {"read", "write"} /\ Reply(msg[3], "ok")
          /\ UNCHANGED <<handle, queue, acks, upload, files, tasks>>
       \/ /\ msg[1] \in {"read", "write"} /\ tasks' = tasks \cup {<<msg[1], msg[3], msg[4], epoch>>}
          /\ UNCHANGED <<to_hub, handle, queue, acks, upload, files>>
    /\ UNCHANGED <<request, dropping, composer, socket, epoch, online, written, content,
                   versions,
                   overwrote, faults>>

(* Reading and writing files have tasks of their own, which outlive the    *)
(* connection: what they answer then is lost.                              *)
FileReply(t, value, version) ==
    to_hub' = IF online /\ t[4] = epoch THEN Append(to_hub, <<t[2], value, version>>) ELSE to_hub
FileTask(t, next) ==
    /\ t \in tasks /\ tasks' = (tasks \ {t}) \cup next
    /\ UNCHANGED <<request, dropping, composer, socket, to_node, epoch, online, terminal,
                   upload,
                   files, versions, faults>>

read_file_for_hub(t) ==
    /\ t[1] = "read" /\ FileTask(t, {}) /\ UNCHANGED <<content, overwrote>>
    /\ FileReply(t, "ok", content) \/ FileReply(t, "error", 0)

(* The file is read and its hash compared with what the editor read; ...   *)
write_file_for_hub(t) ==
    /\ t[1] = "write"
    /\ \/ content = t[3] /\ FileTask(t, {<<"rename", t[2], t[3], t[4]>>}) /\ UNCHANGED to_hub
       \/ content # t[3] /\ FileTask(t, {}) /\ FileReply(t, "conflict", 0)
       \/ FileTask(t, {}) /\ FileReply(t, "error", 0)   \* not found, not text, too large
    /\ UNCHANGED <<content, overwrote>>

(* ... the new content is written beside it and renamed over it. *)
rename(t) ==
    /\ t[1] = "rename" /\ FileTask(t, {})
    /\ content' = content + 1 /\ overwrote' = (overwrote \/ content # t[3])
    /\ FileReply(t, "ok", content + 1)

(* The writer takes what is queued, also after the handle is gone.  A      *)
(* write that fails may have written some of it, and ends the writer.      *)
Acked(r, value) == IF <<r, "open">> \in acks THEN (acks \ {<<r, "open">>}) \cup {<<r, value>>} ELSE acks
run_attach_task(a) ==
    LET r == Head(queue[a]) IN
    /\ queue[a] # <<>>
    /\ \/ /\ written' = written + 1 /\ acks' = Acked(r, "delivered")
          /\ queue' = [queue EXCEPT ![a] = Tail(@)] /\ UNCHANGED faults
       \/ /\ Fault /\ written' \in {written, written + 1}
          /\ acks' = {<<ack[1], IF \E i \in DOMAIN queue[a] : queue[a][i] = ack[1]
                                 THEN "unknown" ELSE ack[2]>> : ack \in acks}
          /\ queue' = [queue EXCEPT ![a] = <<>>]
    /\ UNCHANGED <<request, dropping, composer, socket, wire, handle, node_files>>

(* The task on the node answers with the writer's ack, or without one      *)
(* after twenty seconds.                                                   *)
ComposerResult(r) ==
    /\ \E value \in {"delivered", "unknown", "open"} :
         /\ <<r, value>> \in acks /\ acks' = acks \ {<<r, value>>}
         /\ \/ value # "open" /\ Reply(r, value) /\ UNCHANGED faults
            \/ value = "open" /\ Fault /\ Reply(r, "unknown")
    /\ UNCHANGED <<request, dropping, composer, socket, to_node, epoch, online, handle,
                   queue, written, node_files>>

(* The terminal ends, or the upload was idle for two minutes. *)
AttachDies(a) ==
    /\ upload[a] # None /\ Fault /\ abort_attach(a)
    /\ UNCHANGED <<request, dropping, composer, socket, wire, terminal, files, edits>>

-----------------------------------------------------------------------------
RequestNext ==
    /\ UNCHANGED mix
    /\ \/ \E a \in Attach :
            \/ submit(a) \/ OpenAttach(a) \/ CloseSocket(a) \/ AttachDies(a) \/ run_attach_task(a)
            \/ UploadAbort(a) \/ \E kind \in {"begin", "end"} : UploadMessage(a, kind, 0)
            \/ \E index \in 0..Size : UploadMessage(a, "chunk", index)
       \/ create_terminal \/ check_foreground_process \/ list_directory \/ agent_browser
       \/ read_file \/ write_file
       \/ \E t \in tasks : read_file_for_hub(t) \/ write_file_for_hub(t) \/ rename(t)
       \/ \E r \in Id :
            \/ SubmitRefused(r) \/ register_pending(r) \/ find_machine(r) \/ send_to_machine(r)
            \/ Wake(r) \/ Timeout(r) \/ SaveReceipt(r) \/ Cancel(r) \/ ComposerResult(r)
       \/ handle_machine_message \/ handle_hub_message
       \/ unregister_machine \/ DropSenders \/ Reconnect \/ HubRestarts

RequestSpec == RequestInit /\ [][RequestNext]_requestVars

-----------------------------------------------------------------------------
(* A composer message is written to a terminal at most once, however often *)
(* clients send it again and whatever times out, drops or restarts; and a  *)
(* receipt that is stored or told never says something else than happened  *)
(* (composer.rs:1 "an uncertain send is never dispatched again").          *)
ReceiptsAreHonest ==
    /\ written <= 1
    /\ ("failed" \in told \cup {row}) => written = 0
    /\ ("delivered" \in told \cup {row}) => written = 1

(* A finished upload has every chunk once and in order, and an attach that *)
(* is gone from the node has left no partial file.                         *)
UploadsAreWhole ==
    /\ \A done \in files : done = [i \in 1..Size |-> i - 1]
    /\ \A a \in Attach : (a \notin handle) => upload[a] = None

(* An entry of pending belongs to a request that will take it out, or to   *)
(* one whose future was dropped (machine_manager.rs:3435 has no guard      *)
(* that removes the entry then).                                           *)
PendingSettles ==
    \A r \in Id : request[r].entry \/ request[r].tracked => request[r].step \in Waiting \cup {"gone"}

(* When a connection is lost its agent browser requests fail at once:      *)
(* whatever point they had reached, none waits for its timeout.  A request *)
(* that began before an earlier loss is no longer on the list that         *)
(* drop_agent_browsers goes by (machine_manager.rs:560).                   *)
BrowserRequestsFailFast ==
    \A r \in Id : (/\ request[r].kind = "browser" /\ request[r].step = "sent"
                   /\ request[r].conn = request[r].born /\ request[r].conn # epoch /\ r \notin dropping) => request[r].rx # "open"

(* Every request between hub and node comes to an end that leaves nothing  *)
(* behind: uploads are whole or gone, pending entries have an owner, and   *)
(* browser requests do not outlive their connection.                       *)
RequestsSettle ==
    UploadsAreWhole /\ PendingSettles /\ BrowserRequestsFailFast
=============================================================================
