--------------------------- MODULE TerminalRegistry ---------------------------
(***************************************************************************)
(* The terminals of one machine as the hub keeps them: in memory under the *)
(* machine's current connection, in persisted_terminals while it is away,  *)
(* as rows of terminal_sessions and in the workspace tabs they are grouped *)
(* in.  The node's tmux sessions are the truth that ExistingTerminals and  *)
(* the messages after it bring to the hub.                                 *)
(*                                                                         *)
(* Messages name the machine, not the connection: whatever connection is   *)
(* current when one is handled is the one it changes.  A handler's steps   *)
(* are split where other tasks can run between memory and database; a run  *)
(* of database statements is one step.  Tabs are those the hub opened      *)
(* (auto_created); a tab the user made or renamed is never pruned.  One    *)
(* request per terminal is under way at a time.                            *)
(***************************************************************************)
EXTENDS Naturals, Sequences, FiniteSets

CONSTANTS
    Conn,               \* connections of the machine (bounds the reconnects)
    Terminal,           \* terminal ids, each created once
    Tab,                \* workspace group ids, each created once
    NoConn,             \* no connection
    NoTab,              \* a terminal in no tab
    Absent,             \* a terminal that is not in a map
    MAX_PANES_PER_TAB,  \* panes a tab may hold
    Lag,                \* whether a handler may lag behind the node's next connection
    MaxHubRestarts      \* bound: restarts of the hub

ASSUME RegistryAssumption ==
    /\ NoConn \notin Conn
    /\ NoTab \notin Tab /\ Absent \notin Tab /\ NoTab # Absent
    /\ MAX_PANES_PER_TAB \in Nat \ {0}
    /\ Lag \in {"possible", "none"}
    /\ MaxHubRestarts \in Nat

VARIABLES
    handler,    \* connection -> its handle_machine_ws
    current,    \* connection registered for the machine, or NoConn
    terminals,  \* terminal -> its tab in the current connection, or Absent
    persisted,  \* terminal -> its tab in persisted_terminals, or Absent
    row,        \* terminal -> state of its terminal_sessions row
    rowTab,     \* terminal -> workspace_group_id of its row
    tabs,       \* rows of workspace_groups
    usedTabs,   \* tab ids handed out
    asked,      \* terminals somebody asked the node to create
    request,    \* terminal -> the HTTP request about it
    failed,     \* history: terminals whose last assignment the database refused
    deleting,   \* tabs deleted in the database and not yet in memory
    work,       \* connection -> what its control task is in the middle of
    inbox,      \* connection -> messages to the hub
    orders,     \* connection -> commands to the node
    link,       \* the node's connection, or NoConn
    sessions,   \* PtyManager's sessions
    alive,      \* tmux sessions
    reported,   \* deaths the watcher of this connection has reported
    restarts    \* restarts of the hub so far

memory == <<current, terminals, persisted>>
database == <<row, rowTab, tabs, usedTabs>>
requests == <<asked, request, failed, deleting>>
node == <<link, sessions, alive, reported>>
vars == <<handler, current, terminals, persisted, row, rowTab, tabs, usedTabs, asked,
          request, failed, deleting, work, inbox, orders, link, sessions, alive, reported, restarts>>

Places == Tab \cup {NoTab, Absent}
Nobody == [t \in Terminal |-> Absent]
Present(map) == {t \in Terminal : map[t] # Absent}

Message ==
    [type : {"TerminalCreated", "TerminalDestroyed", "TerminalDied"}, id : Terminal]
        \cup [type : {"ExistingTerminals"}, ids : SUBSET Terminal]
Command == [type : {"CreateTerminal", "DestroyTerminal"}, id : Terminal]
Idle == [type |-> "idle"]
Work ==
    {Idle}
        \cup [type : {"insert"}, id : Terminal]
        \cup [type : {"destroy"}, id : Terminal, tab : Places]
        \cup [type : {"prune"}, tab : Places]
        \cup [type : {"reconcile"}, ids : SUBSET Terminal, old : [Terminal -> Places]]
Request ==
    [at : {"none", "creating", "created", "chosen"}, tab : Tab \cup {NoTab}, from : {Absent}]
        \cup [at : {"stored"}, tab : Tab \cup {NoTab}, from : Places]
NoRequest == [at |-> "none", tab |-> NoTab, from |-> Absent]

TypeOK ==
    /\ handler \in [Conn -> {"idle", "joining", "up", "ended", "gone"}]
    /\ current \in Conn \cup {NoConn}
    /\ terminals \in [Terminal -> Places]
    /\ persisted \in [Terminal -> Places]
    /\ row \in [Terminal -> {"none", "active", "destroyed"}]
    /\ rowTab \in [Terminal -> Tab \cup {NoTab}]
    /\ tabs \in SUBSET Tab /\ usedTabs \in SUBSET Tab
    /\ request \in [Terminal -> Request]
    /\ deleting \in SUBSET Tab
    /\ asked \in SUBSET Terminal /\ failed \in SUBSET Terminal
    /\ work \in [Conn -> Work]
    /\ inbox \in [Conn -> Seq(Message)]
    /\ orders \in [Conn -> Seq(Command)]
    /\ link \in Conn \cup {NoConn}
    /\ sessions \in SUBSET Terminal
    /\ alive \in SUBSET sessions
    /\ reported \in SUBSET Terminal
    /\ restarts \in 0..MaxHubRestarts

Init ==
    /\ handler = [c \in Conn |-> "idle"]
    /\ current = NoConn
    /\ terminals = Nobody /\ persisted = Nobody
    /\ row = [t \in Terminal |-> "none"]
    /\ rowTab = [t \in Terminal |-> NoTab]
    /\ tabs = {} /\ usedTabs = {}
    /\ request = [t \in Terminal |-> NoRequest]
    /\ deleting = {} /\ asked = {} /\ failed = {}
    /\ work = [c \in Conn |-> Idle]
    /\ inbox = [c \in Conn |-> <<>>]
    /\ orders = [c \in Conn |-> <<>>]
    /\ link = NoConn
    /\ sessions = {} /\ alive = {} /\ reported = {}
    /\ restarts = 0

-----------------------------------------------------------------------------
(* Connections. *)

(* The node waits three seconds before it connects again.  With no lag the *)
(* hub has registered its handlers and finished the message each was in    *)
(* the middle of by then, has written the assignments it had in memory,    *)
(* and takes no other message of an earlier connection.                    *)
Prompt ==
    \/ Lag = "possible"
    \/ /\ \A d \in Conn : handler[d] # "joining" /\ work[d] = Idle
       /\ \A t \in Terminal : request[t].at # "stored"

(* Mutant of Connect: the watcher of the last connection is kept, with the *)
(* deaths it has reported.                                                 *)
ConnectSameWatcher(c) ==
    /\ link = NoConn /\ handler[c] = "idle"
    /\ Prompt
    /\ link' = c
    /\ handler' = [handler EXCEPT ![c] = "joining"]
    /\ inbox' = [inbox EXCEPT ![c] =
                    <<[type |-> "ExistingTerminals", ids |-> sessions]>>]
    /\ UNCHANGED <<memory, database, requests, work, orders, sessions, alive, reported,
                   restarts>>

(* The node's first message after it is authenticated lists its sessions,  *)
(* and a new SessionWatcher starts.                                        *)
Connect(c) ==
    /\ link = NoConn /\ handler[c] = "idle"
    /\ Prompt
    /\ link' = c
    /\ handler' = [handler EXCEPT ![c] = "joining"]
    /\ inbox' = [inbox EXCEPT ![c] =
                    <<[type |-> "ExistingTerminals", ids |-> sessions]>>]
    /\ reported' = {}
    /\ UNCHANGED <<memory, database, requests, work, orders, sessions, alive, restarts>>

(* The terminals of a connection that goes are kept, unless it had none. *)
Stashed == IF Present(terminals) = {} THEN persisted ELSE terminals

register_machine(c) ==
    /\ handler[c] = "joining"
    /\ handler' = [handler EXCEPT ![c] = "up"]
    /\ persisted' = IF current = NoConn THEN persisted ELSE Stashed
    /\ current' = c
    /\ terminals' = Nobody
    /\ UNCHANGED <<database, requests, work, inbox, orders, node, restarts>>

(* The tasks are aborted, the control task at its next await: a message it *)
(* is in the middle of is finished, unless it still waits for the machines *)
(* lock.                                                                   *)
EndHandler(c) ==
    /\ handler[c] = "up"
    /\ handler' = [handler EXCEPT ![c] = "ended"]
    /\ inbox' = [inbox EXCEPT ![c] = <<>>]
    /\ orders' = [orders EXCEPT ![c] = <<>>]
    /\ work' = [work EXCEPT ![c] = IF @.type = "reconcile" THEN Idle ELSE @]
    /\ UNCHANGED <<memory, database, requests, node, restarts>>

unregister_machine(c) ==
    /\ handler[c] = "ended"
    /\ handler' = [handler EXCEPT ![c] = "gone"]
    /\ \/ /\ current = c
          /\ current' = NoConn
          /\ persisted' = Stashed
          /\ terminals' = Nobody
       \/ current # c /\ UNCHANGED memory
    /\ UNCHANGED <<database, requests, work, inbox, orders, node, restarts>>

-----------------------------------------------------------------------------
(* The database. *)

ActiveIn(rows, g) == {t \in Terminal : rows[t] = "active" /\ rowTab[t] = g}

(* Mutant of Prune: a tab goes when one of its panes does. *)
PruneAny(gs, rows) ==
    /\ tabs' = tabs \ gs
    /\ rowTab' = [t \in Terminal |-> IF rowTab[t] \in gs THEN NoTab ELSE rowTab[t]]

(* prune_auto_tab_if_empty for the tabs gs, once the rows are as in rows.  *)
(* A deleted tab leaves no reference (ON DELETE SET NULL).                 *)
Prune(gs, rows) ==
    LET empty == {g \in gs \cap tabs : ActiveIn(rows, g) = {}}
    IN  /\ tabs' = tabs \ empty
        /\ rowTab' = [t \in Terminal |-> IF rowTab[t] \in empty THEN NoTab ELSE rowTab[t]]

mark_destroyed(ts) ==
    [t \in Terminal |-> IF t \in ts /\ row[t] = "active" THEN "destroyed" ELSE row[t]]

-----------------------------------------------------------------------------
(* handle_machine_message, on the control task of a connection. *)

InTime(c) ==
    \/ Lag = "possible"
    \/ current = c /\ link \in {c, NoConn} /\ \A d \in Conn : handler[d] # "joining"

MayHandle(c) ==
    handler[c] = "up" /\ work[c] = Idle /\ inbox[c] # <<>> /\ InTime(c)

Take(c, type) ==
    /\ MayHandle(c)
    /\ Head(inbox[c]).type = type
    /\ inbox' = [inbox EXCEPT ![c] = Tail(inbox[c])]

TerminalCreated(c) ==
    /\ Take(c, "TerminalCreated")
    /\ terminals' = IF current = NoConn THEN terminals
                    ELSE [terminals EXCEPT ![Head(inbox[c]).id] = NoTab]
    /\ work' = [work EXCEPT ![c] = [type |-> "insert", id |-> Head(inbox[c]).id]]
    /\ UNCHANGED <<handler, current, persisted, database, requests, orders, node,
                   restarts>>

(* The row is upserted and the request waiting for it answered. *)
TerminalInserted(c) ==
    /\ work[c].type = "insert"
    /\ row' = [row EXCEPT ![work[c].id] = "active"]
    /\ request' = [request EXCEPT ![work[c].id].at =
                      IF @ # "creating" THEN @
                      ELSE IF request[work[c].id].tab = NoTab THEN "created" ELSE "chosen"]
    /\ work' = [work EXCEPT ![c] = Idle]
    /\ UNCHANGED <<handler, memory, rowTab, tabs, usedTabs, asked, failed, deleting,
                   inbox, orders, node, restarts>>

(* Without a connection the message is ignored. *)
TerminalDestroyed(c) ==
    /\ Take(c, "TerminalDestroyed")
    /\ LET t == Head(inbox[c]).id
       IN  \/ /\ current # NoConn
              /\ terminals' = [terminals EXCEPT ![t] = Absent]
              /\ work' = [work EXCEPT ![c] =
                             [type |-> "destroy", id |-> t, tab |-> terminals[t]]]
           \/ current = NoConn /\ UNCHANGED <<terminals, work>>
    /\ UNCHANGED <<handler, current, persisted, database, requests, orders, node,
                   restarts>>

DestroyRow(c) ==
    /\ work[c].type = "destroy"
    /\ row' = mark_destroyed({work[c].id})
    /\ Prune({work[c].tab}, row')
    /\ work' = [work EXCEPT ![c] = Idle]
    /\ UNCHANGED <<handler, memory, usedTabs, requests, inbox, orders, node, restarts>>

(* handle_terminal_destroyed_internal writes the row under the lock. *)
TerminalDied(c) ==
    /\ Take(c, "TerminalDied")
    /\ LET t == Head(inbox[c]).id
       IN  \/ /\ current # NoConn
              /\ terminals' = [terminals EXCEPT ![t] = Absent]
              /\ row' = mark_destroyed({t})
              /\ work' = [work EXCEPT ![c] = [type |-> "prune", tab |-> terminals[t]]]
           \/ current = NoConn /\ UNCHANGED <<terminals, row, work>>
    /\ UNCHANGED <<handler, current, persisted, rowTab, tabs, usedTabs, requests,
                   orders, node, restarts>>

PruneTab(c) ==
    /\ work[c].type = "prune"
    /\ Prune({work[c].tab}, row)
    /\ work' = [work EXCEPT ![c] = Idle]
    /\ UNCHANGED <<handler, memory, row, usedTabs, requests, inbox, orders, node,
                   restarts>>

(* ExistingTerminals takes the stash before it has the machines lock. *)
ExistingTerminals(c) ==
    /\ Take(c, "ExistingTerminals")
    /\ persisted' = Nobody
    /\ work' = [work EXCEPT ![c] = [type |-> "reconcile", ids |-> Head(inbox[c]).ids,
                                    old |-> persisted]]
    /\ UNCHANGED <<handler, current, terminals, database, requests, orders, node,
                   restarts>>

(* Mutant of Restored: a terminal that is not in the stash joins no tab. *)
RestoredFromStash(t, old) == IF old[t] # Absent THEN old[t] ELSE NoTab

(* The tab of a reported terminal: as stashed, or as its row has it. *)
Restored(t, old) == IF old[t] # Absent THEN old[t] ELSE rowTab[t]

(* Mutant of ReconciledRows: rows are only ever destroyed. *)
ReconciledNoInsert(ids, old) == mark_destroyed(Present(old) \ ids)

(* Mutant of ReconciledRows: every stashed terminal is taken for dead. *)
ReconciledAll(ids, old) ==
    [t \in Terminal |->
        IF t \in ids /\ old[t] = Absent THEN "active"
        ELSE mark_destroyed(Present(old))[t]]

(* A reported terminal that was not stashed is upserted, a stashed one     *)
(* that is not reported has died.                                          *)
ReconciledRows(ids, old) ==
    [t \in Terminal |->
        IF t \in ids /\ old[t] = Absent THEN "active"
        ELSE mark_destroyed(Present(old) \ ids)[t]]

Reconcile(c) ==
    /\ work[c].type = "reconcile"
    /\ LET ids == work[c].ids
           old == work[c].old
       IN  \/ /\ current # NoConn
              /\ terminals' = [t \in Terminal |->
                                  IF t \in ids THEN Restored(t, old) ELSE terminals[t]]
              /\ row' = ReconciledRows(ids, old)
              /\ Prune({old[t] : t \in Present(old) \ ids}, row')
           \/ current = NoConn /\ UNCHANGED <<terminals, row, rowTab, tabs>>
    /\ work' = [work EXCEPT ![c] = Idle]
    /\ UNCHANGED <<handler, current, persisted, usedTabs, requests, inbox, orders, node,
                   restarts>>

-----------------------------------------------------------------------------
(* HTTP requests. *)

Send(command) ==
    orders' = [orders EXCEPT ![current] = Append(@, command)]

(* user_can_access_terminal: the stash counts while there is no connection. *)
Known(t) == IF current # NoConn THEN terminals[t] # Absent ELSE persisted[t] # Absent

(* workspace_group_pane_count, over what list_terminals_for_user lists. *)
Panes(g) == {t \in Terminal : IF current # NoConn THEN terminals[t] = g ELSE persisted[t] = g}

HasRoom(g, t) == g \in tabs /\ Cardinality(Panes(g) \ {t}) < MAX_PANES_PER_TAB

(* create_terminal, into tab g or (NoTab) one of its own; the id is new. *)
CreateTerminal(t, g) ==
    /\ current # NoConn /\ handler[current] = "up"
    /\ t \notin asked
    /\ g = NoTab \/ HasRoom(g, t)
    /\ asked' = asked \cup {t}
    /\ Send([type |-> "CreateTerminal", id |-> t])
    /\ request' = [request EXCEPT ![t] = [at |-> "creating", tab |-> g, from |-> Absent]]
    /\ UNCHANGED <<handler, memory, database, failed, deleting, work, inbox, node,
                   restarts>>

(* Ten seconds pass, or the node reports an error. *)
CreateFails(t) ==
    /\ request[t].at = "creating"
    /\ request' = [request EXCEPT ![t] = NoRequest]
    /\ UNCHANGED <<handler, memory, database, asked, failed, deleting, work, inbox,
                   orders, node, restarts>>

(* auto_create_workspace_group. *)
OpenTab(t, g) ==
    /\ request[t].at = "created" /\ g \notin usedTabs
    /\ tabs' = tabs \cup {g}
    /\ usedTabs' = usedTabs \cup {g}
    /\ request' = [request EXCEPT ![t] = [at |-> "chosen", tab |-> g, from |-> Absent]]
    /\ UNCHANGED <<handler, memory, row, rowTab, asked, failed, deleting, work, inbox,
                   orders, node, restarts>>

(* assign_terminal_workspace_group: to a tab with room, or to none. *)
ChooseTab(t, g) ==
    /\ request[t].at = "none" /\ Known(t)
    /\ g = NoTab \/ HasRoom(g, t)
    /\ request' = [request EXCEPT ![t] = [at |-> "chosen", tab |-> g, from |-> Absent]]
    /\ UNCHANGED <<handler, memory, database, asked, failed, deleting, work, inbox,
                   orders, node, restarts>>

(* set_terminal_workspace_group: first where the terminal is in memory. *)
StoreTab(t) ==
    /\ request[t].at = "chosen"
    /\ LET g == request[t].tab
       IN  \/ /\ terminals[t] # Absent
              /\ terminals' = [terminals EXCEPT ![t] = g]
              /\ request' = [request EXCEPT ![t] =
                                [at |-> "stored", tab |-> g, from |-> terminals[t]]]
              /\ UNCHANGED persisted
           \/ /\ terminals[t] = Absent /\ persisted[t] # Absent
              /\ persisted' = [persisted EXCEPT ![t] = g]
              /\ request' = [request EXCEPT ![t] =
                                [at |-> "stored", tab |-> g, from |-> persisted[t]]]
              /\ UNCHANGED terminals
           \/ /\ terminals[t] = Absent /\ persisted[t] = Absent
              /\ request' = [request EXCEPT ![t] = NoRequest]
              /\ UNCHANGED <<terminals, persisted>>
    /\ UNCHANGED <<handler, current, database, asked, failed, deleting, work, inbox,
                   orders, node, restarts>>

(* Mutant of SaveTab: the tab is not assigned in the database. *)
SaveTabRowOnly(t) ==
    /\ request[t].at = "stored"
    /\ row' = [row EXCEPT ![t] = "active"]
    /\ request' = [request EXCEPT ![t] = NoRequest]
    /\ UNCHANGED <<handler, memory, rowTab, tabs, usedTabs, asked, failed, deleting,
                   work, inbox, orders, node, restarts>>

(* Then in the database: upsert the row, assign the tab (an error when the *)
(* tab is gone, a foreign key), and prune the tab it came from.            *)
SaveTab(t) ==
    /\ request[t].at = "stored"
    /\ row' = [row EXCEPT ![t] = "active"]
    /\ LET g == request[t].tab
           from == request[t].from
       IN  \/ /\ g \in tabs \cup {NoTab}
              /\ LET moved == [rowTab EXCEPT ![t] = g]
                     empty == {f \in {from} \cap (tabs \ {g}) :
                                  \A u \in Terminal : row'[u] = "active" => moved[u] # f}
                 IN  /\ tabs' = tabs \ empty
                     /\ rowTab' = [u \in Terminal |->
                                      IF moved[u] \in empty THEN NoTab ELSE moved[u]]
              /\ failed' = failed \ {t}
           \/ /\ g \notin tabs \cup {NoTab}
              /\ failed' = failed \cup {t}
              /\ UNCHANGED <<rowTab, tabs>>
    /\ request' = [request EXCEPT ![t] = NoRequest]
    /\ UNCHANGED <<handler, memory, usedTabs, asked, deleting, work, inbox, orders,
                   node, restarts>>

(* delete_workspace_group: the database first, then the assignments. *)
DeleteTab(g) ==
    /\ g \in tabs
    /\ tabs' = tabs \ {g}
    /\ rowTab' = [t \in Terminal |-> IF rowTab[t] = g THEN NoTab ELSE rowTab[t]]
    /\ deleting' = deleting \cup {g}
    /\ UNCHANGED <<handler, memory, row, usedTabs, asked, request, failed, work, inbox,
                   orders, node, restarts>>

Cleared(map, g) == [t \in Terminal |-> IF map[t] = g THEN NoTab ELSE map[t]]

clear_workspace_group_assignments(g) ==
    /\ g \in deleting
    /\ deleting' = deleting \ {g}
    /\ terminals' = Cleared(terminals, g)
    /\ persisted' = Cleared(persisted, g)
    /\ UNCHANGED <<handler, current, database, asked, request, failed, work, inbox,
                   orders, node, restarts>>

(* Bound: one request to destroy a terminal is on its way at a time. *)
Doomed(t) ==
    \E c \in Conn :
        \/ \E i \in 1..Len(orders[c]) : orders[c][i] = [type |-> "DestroyTerminal", id |-> t]
        \/ \E i \in 1..Len(inbox[c]) : inbox[c][i] = [type |-> "TerminalDestroyed", id |-> t]

DestroyTerminal(t) ==
    /\ current # NoConn /\ handler[current] = "up" /\ terminals[t] # Absent
    /\ ~Doomed(t)
    /\ Send([type |-> "DestroyTerminal", id |-> t])
    /\ UNCHANGED <<handler, memory, database, requests, work, inbox, node, restarts>>

-----------------------------------------------------------------------------
(* The node. *)

(* What a node sends reaches the hub unless the hub's handler has ended. *)
Tell(message) ==
    inbox' = [inbox EXCEPT ![link] =
                 IF handler[link] \in {"joining", "up"} THEN Append(@, message) ELSE @]

Obey(type) ==
    /\ link # NoConn /\ orders[link] # <<>>
    /\ Head(orders[link]).type = type
    /\ orders' = [orders EXCEPT ![link] = Tail(orders[link])]

NodeCreates ==
    /\ Obey("CreateTerminal")
    /\ sessions' = sessions \cup {Head(orders[link]).id}
    /\ alive' = alive \cup {Head(orders[link]).id}
    /\ Tell([type |-> "TerminalCreated", id |-> Head(orders[link]).id])
    /\ UNCHANGED <<handler, memory, database, requests, work, link, reported, restarts>>

(* Mutant of NodeDestroys: the entry goes and the tmux session stays. *)
NodeDestroysEntry ==
    /\ Obey("DestroyTerminal")
    /\ sessions' = sessions \ {Head(orders[link]).id}
    /\ Tell([type |-> "TerminalDestroyed", id |-> Head(orders[link]).id])
    /\ UNCHANGED <<handler, memory, database, requests, work, link, alive, reported,
                   restarts>>

NodeDestroys ==
    /\ Obey("DestroyTerminal")
    /\ sessions' = sessions \ {Head(orders[link]).id}
    /\ alive' = alive \ {Head(orders[link]).id}
    /\ Tell([type |-> "TerminalDestroyed", id |-> Head(orders[link]).id])
    /\ UNCHANGED <<handler, memory, database, requests, work, link, reported, restarts>>

(* A tmux session ends by itself; PtyManager keeps the entry. *)
SessionEnds(t) ==
    /\ t \in alive
    /\ alive' = alive \ {t}
    /\ UNCHANGED <<handler, memory, database, requests, work, inbox, orders, link,
                   sessions, reported, restarts>>

(* SessionWatcher reports each death once per connection. *)
WatcherReports(t) ==
    /\ link # NoConn /\ t \in sessions \ (alive \cup reported)
    /\ reported' = reported \cup {t}
    /\ Tell([type |-> "TerminalDied", id |-> t])
    /\ UNCHANGED <<handler, memory, database, requests, work, orders, link, sessions,
                   alive, restarts>>

Leave ==
    /\ link # NoConn
    /\ link' = NoConn
    /\ orders' = [orders EXCEPT ![link] = <<>>]
    /\ UNCHANGED <<handler, memory, database, requests, work, inbox, sessions, alive,
                   reported, restarts>>

(* The node process restarts: it recovers the sessions tmux still has and, *)
(* after a reboot, may have revived others under their ids.                *)
RestartNode ==
    /\ link = NoConn /\ sessions # alive
    /\ \E revived \in SUBSET (sessions \ alive) :
          /\ sessions' = alive \cup revived
          /\ alive' = alive \cup revived
    /\ UNCHANGED <<handler, memory, database, requests, work, inbox, orders, link,
                   reported, restarts>>

(* The hub process restarts.  Ungrouped terminals move into new tabs, one  *)
(* per working directory (which of them share one is left open), ...       *)
Ungrouped == {t \in Terminal : row[t] = "active" /\ rowTab[t] = NoTab}

migrate_ungrouped_terminals_into_tabs(opened) ==
    [t \in Terminal |-> IF t \in Ungrouped THEN opened[t] ELSE rowTab[t]]

(* ... empty tabs are deleted, ... *)
delete_empty_auto_tabs(gs, grouped) ==
    {g \in gs : \E t \in Terminal : row[t] = "active" /\ grouped[t] = g}

(* ... and the active rows become the stash. *)
RestartHub ==
    /\ restarts < MaxHubRestarts
    /\ restarts' = restarts + 1
    /\ \E opened \in [Ungrouped -> Tab \ usedTabs] :
          LET grouped == migrate_ungrouped_terminals_into_tabs(opened)
              new == {opened[t] : t \in Ungrouped}
          IN  /\ tabs' = delete_empty_auto_tabs(tabs \cup new, grouped)
              /\ usedTabs' = usedTabs \cup new
              /\ rowTab' = [t \in Terminal |->
                               IF grouped[t] \in tabs' THEN grouped[t] ELSE NoTab]
              /\ persisted' = [t \in Terminal |->
                                  IF row[t] = "active" THEN grouped[t] ELSE Absent]
    /\ handler' = [c \in Conn |-> IF handler[c] = "idle" THEN "idle" ELSE "gone"]
    /\ current' = NoConn
    /\ terminals' = Nobody
    /\ request' = [t \in Terminal |-> NoRequest]
    /\ failed' = {} /\ deleting' = {}
    /\ work' = [c \in Conn |-> Idle]
    /\ inbox' = [c \in Conn |-> <<>>]
    /\ orders' = [c \in Conn |-> <<>>]
    /\ UNCHANGED <<row, asked, node>>

-----------------------------------------------------------------------------
ControlTask(c) ==
    \/ TerminalCreated(c) \/ TerminalInserted(c) \/ TerminalDestroyed(c) \/ DestroyRow(c)
    \/ TerminalDied(c) \/ PruneTab(c) \/ ExistingTerminals(c) \/ Reconcile(c)

Http(t) ==
    \/ CreateFails(t) \/ StoreTab(t) \/ SaveTab(t) \/ DestroyTerminal(t)
    \/ \E g \in Tab : OpenTab(t, g)
    \/ \E g \in Tab \cup {NoTab} : CreateTerminal(t, g) \/ ChooseTab(t, g)

Next ==
    \/ \E c \in Conn : \/ Connect(c) \/ register_machine(c) \/ EndHandler(c)
                       \/ unregister_machine(c) \/ ControlTask(c)
    \/ \E t \in Terminal : Http(t) \/ SessionEnds(t) \/ WatcherReports(t)
    \/ \E g \in Tab : DeleteTab(g) \/ clear_workspace_group_assignments(g)
    \/ NodeCreates \/ NodeDestroys \/ Leave \/ RestartNode \/ RestartHub

Spec == Init /\ [][Next]_vars

-----------------------------------------------------------------------------
(* Nothing is under way: the node's connection is the registered one, its  *)
(* messages are handled, deaths reported, and no other task is at work.    *)
Settled ==
    /\ link # NoConn /\ current = link /\ handler[link] = "up"
    /\ \A c \in Conn : handler[c] \in {"idle", "gone"} \/ c = link
    /\ \A c \in Conn : work[c] = Idle /\ inbox[c] = <<>> /\ orders[c] = <<>>
    /\ \A t \in Terminal : request[t].at = "none"
    /\ deleting = {}
    /\ sessions \ alive \subseteq reported

(* Once things settle the hub lists exactly the node's live terminals,     *)
(* however often the machine and the hub restarted and reconnected and     *)
(* wherever a connection broke off: none is lost and none is a ghost.      *)
HubKnowsNode == Settled => Present(terminals) = alive

(* Every terminal the hub lists has an active row, so that the next hub    *)
(* process still knows it.                                                 *)
ListedIsActive ==
    Settled => \A t \in Present(terminals) : row[t] = "active"

(* A terminal keeps its tab over reconnects and restarts: what memory says *)
(* and what the row says agree, unless memory names a tab that was deleted *)
(* meanwhile or the database refused the terminal's last assignment.       *)
TabsSurvive ==
    Settled => \A t \in Present(terminals) \ failed :
                  terminals[t] = rowTab[t] \/ terminals[t] \in Tab \ tabs

(* The row of a terminal that is running is never destroyed, unless the    *)
(* node had reported its death before a reboot revived it: reconciliation  *)
(* destroys only what is gone.                                             *)
DestroysOnlyDead ==
    \A t \in alive :
        row[t] = "active" /\ row'[t] # "active"
        => \E c \in Conn : inbox'[c] # inbox[c]
                           /\ Head(inbox[c]) = [type |-> "TerminalDied", id |-> t]
AliveNotDestroyed == [][DestroysOnlyDead]_vars

(* A running terminal leaves its tab only when it is moved to another one  *)
(* or the user deletes the tab: a pane that closes does not take the tab   *)
(* of the others with it.                                                  *)
PanesStay ==
    [][\A t \in Terminal :
         /\ row[t] = "active" /\ row'[t] = "active"
         /\ rowTab[t] # NoTab /\ rowTab'[t] # rowTab[t]
         => request[t].at = "stored" \/ rowTab[t] \in deleting']_vars

(* "The report must go out even when empty: it is the hub's only signal to *)
(* destroy persisted terminals that no longer exist": once the hub has     *)
(* handled it, and no other message is half handled, no terminal that it   *)
(* does not name has an active row.                                        *)
DeadIsDestroyed ==
    [][\A c \in Conn :
         /\ work[c].type = "reconcile" /\ work'[c] = Idle /\ handler'[c] = "up"
         /\ current = c /\ \A d \in Conn \ {c} : work[d] = Idle
         => \A t \in Terminal \ work[c].ids : row'[t] # "active"]_vars

(* The registry is typed and, once things settle, true: the hub lists what *)
(* the node runs, remembers it in the database, and the two agree on every *)
(* tab.                                                                    *)
RegistryIsSound ==
    TypeOK /\ HubKnowsNode /\ ListedIsActive /\ TabsSurvive
=============================================================================
