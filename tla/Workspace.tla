------------------------------ MODULE Workspace ------------------------------
(***************************************************************************)
(* The tab strip of one machine and the pane layouts of its tabs, as two   *)
(* clients of the same user change them: the handlers of                   *)
(* routes/terminals.rs, the tables workspace_groups and workspace_layouts, *)
(* and the copy of the layouts every client keeps (bootstrapState.ts).     *)
(*                                                                         *)
(* A layout is saved against the revision its client has seen.  A handler  *)
(* runs concurrently with those of other clients: every statement and      *)
(* every await is a step.  A layout is named by the edit that made it; the *)
(* tree of splits is abstracted to the panes it shows.  The clock is read  *)
(* when a layout is stored and may repeat itself or step back.             *)
(***************************************************************************)
EXTENDS Integers, Sequences, FiniteSets, TLC

CONSTANTS
    WsClients,   \* browsers of one user
    Tabs,        \* ids a workspace group can get
    WsPanes,     \* terminals
    PaneBrowsers,\* agent browsers, all opened by OpenerPane
    OpenerPane,
    NoTab,       \* workspace_group_id = None; as a key, "cwd:<dir>"
    GonePane,    \* a destroyed terminal's place
    WsPlans,     \* [kinds, calls, edits, keys, auto, home]: what clients ask
                 \* for, how often and of which tabs; the tabs at the start
                 \* and whether the hub opened them
    MaxNow

VARIABLES
    wsPlan,      \* the plan of this behaviour
    tabRows,     \* id -> [order, auto] of a row of workspace_groups, or none
    usedTabs,    \* ids that were given out
    paneTab,     \* terminal -> its tab, NoTab or GonePane
    layouts,     \* key -> row of workspace_layouts, or none
    seenLayouts, \* client -> key -> the layout it holds, or none
    feed,        \* client -> events on their way to it
    call,        \* client -> the request it waits for
    edits, calls,\* layouts sent and strip requests made so far
    overlapped   \* two requests that order the strip ran at the same time

wsVars == <<wsPlan, tabRows, usedTabs, paneTab, layouts, seenLayouts, feed,
            call, edits, calls, overlapped>>

Keys == Tabs \cup {NoTab}
NoRow == [rev |-> -1, edit |-> 0]
Idle == [kind |-> "none"]
Exists(w) == w \in DOMAIN tabRows
Ordering(kind) == kind \in {"create", "reorder"}

(* Orders a client can ask for: some tabs, each once. *)
Strips == UNION {{s \in [1..Cardinality(S) -> S] :
                     \A i, j \in DOMAIN s : i # j => s[i] # s[j]} : S \in SUBSET Tabs}

Announce(event) == feed' = [c \in WsClients |-> Append(feed[c], event)]
Step(c, changes) == call' = [call EXCEPT ![c] = changes]

WsInit ==
    /\ wsPlan \in WsPlans
    /\ tabRows = [w \in wsPlan.home |-> [order |-> 0, auto |-> wsPlan.auto]]
    /\ usedTabs = wsPlan.home
    /\ paneTab \in [WsPanes -> wsPlan.home \cup {NoTab}]
    /\ layouts = [k \in Keys |-> NoRow]
    /\ seenLayouts = [c \in WsClients |-> layouts]
    /\ feed = [c \in WsClients |-> <<>>]
    /\ call = [c \in WsClients |-> Idle]
    /\ edits = 0 /\ calls = 0
    /\ overlapped = FALSE

-----------------------------------------------------------------------------
(* Saving a layout. *)

(* handleSaveWorkspaceLayout: the base is the revision held now, -1 if none. *)
SendLayout(c, k, root) ==
    /\ call[c] = Idle
    /\ "save" \in wsPlan.kinds
    /\ edits < wsPlan.edits
    /\ edits' = edits + 1
    /\ Step(c, [kind |-> "save", at |-> "list", key |-> k, root |-> root,
                base |-> seenLayouts[c][k], edit |-> edits + 1])
    /\ UNCHANGED <<wsPlan, tabRows, usedTabs, paneTab, layouts, seenLayouts, feed,
                   calls, overlapped>>

(* save_workspace_layout: the machine's terminals are listed first ... *)
save_workspace_layout(c) ==
    /\ call[c].kind = "save" /\ call[c].at = "list"
    /\ Step(c, [call[c] EXCEPT !.at = "check"]
                 @@ [panes |-> {p \in WsPanes : paneTab[p] = call[c].key}])
    /\ UNCHANGED <<wsPlan, tabRows, usedTabs, paneTab, layouts, seenLayouts, feed,
                   edits, calls, overlapped>>

(* ... then the key must be a tab, or a directory with terminals in no tab, *)
(* unless a layout is taken away ...                                        *)
terminal_ids_for_group_key(c) ==
    LET r == call[c]
    IN /\ r.kind = "save" /\ r.at = "check"
       /\ Step(c, IF \/ Exists(r.key)
                     \/ r.key = NoTab /\ (r.panes # {} \/ r.root = {})
                  THEN [r EXCEPT !.at = "store"]
                  ELSE Idle)
       /\ UNCHANGED <<wsPlan, tabRows, usedTabs, paneTab, layouts, seenLayouts, feed,
                      edits, calls, overlapped>>

(* with_agent_browser_pane_ids: a live browser is a pane of its opener's tab. *)
with_agent_browser_pane_ids(allowed, live) ==
    allowed \cup IF OpenerPane \in allowed THEN live ELSE {}

(* validate_workspace_layout_node, for a layout that shows no pane twice. *)
validate_workspace_layout_node(root, allowed) == root \subseteq allowed

(* workspace_layout_base_conflicts *)
workspace_layout_base_conflicts(row, base) ==
    IF base.rev < 0 THEN row # NoRow ELSE row = NoRow \/ row.rev > base.rev

(* A revision is the time of the save, and always past the one it replaces. *)
TimeOfSave(row, now) == now
Revision(row, now) == IF row # NoRow /\ row.rev + 1 > now THEN row.rev + 1 ELSE now

(* ... and the base is compared and the row replaced in one transaction:     *)
(* upsert_workspace_layout_checked, and delete_workspace_layout_checked,     *)
(* which leaves a row with an empty root.                                    *)
upsert_workspace_layout_checked(c, live, now) ==
    LET r == call[c]
        row == layouts[r.key]
        refused == \/ ~validate_workspace_layout_node(
                          r.root, with_agent_browser_pane_ids(r.panes, live))
                   \/ workspace_layout_base_conflicts(row, r.base)
        saved == [rev |-> Revision(row, now), edit |-> r.edit]
    IN /\ r.kind = "save" /\ r.at = "store"
       /\ IF refused
          THEN Step(c, Idle) /\ UNCHANGED layouts
          ELSE /\ layouts' = [layouts EXCEPT ![r.key] = saved]
               /\ Step(c, [kind |-> "saved", at |-> "publish", key |-> r.key, row |-> saved])
       /\ UNCHANGED <<wsPlan, tabRows, usedTabs, paneTab, seenLayouts, feed, edits,
                      calls, overlapped>>

(* publish_workspace_layout_updated *)
publish_workspace_layout_updated(c) ==
    /\ call[c].kind = "saved" /\ call[c].at = "publish"
    /\ Announce([type |-> "layout", key |-> call[c].key, row |-> call[c].row])
    /\ Step(c, [call[c] EXCEPT !.at = "answer"])
    /\ UNCHANGED <<wsPlan, tabRows, usedTabs, paneTab, layouts, seenLayouts, edits,
                   calls, overlapped>>

(* The answer reaches the client, before or after the events it overlapped. *)
LayoutAnswer(c) ==
    /\ call[c].kind = "saved" /\ call[c].at = "answer"
    /\ seenLayouts' = [seenLayouts EXCEPT ![c][call[c].key] = call[c].row]
    /\ Step(c, Idle)
    /\ UNCHANGED <<wsPlan, tabRows, usedTabs, paneTab, layouts, feed, edits, calls,
                   overlapped>>

(* The client's reducer: whatever arrives replaces what it holds. *)
Receive(c) ==
    /\ feed[c] # <<>>
    /\ LET ev == Head(feed[c])
       IN seenLayouts' = [seenLayouts EXCEPT ![c][ev.key] = ev.row]
    /\ feed' = [feed EXCEPT ![c] = Tail(@)]
    /\ UNCHANGED <<wsPlan, tabRows, usedTabs, paneTab, layouts, call, edits, calls,
                   overlapped>>

(* list_workspace_layouts, when the client loads the machine afresh. *)
list_workspace_layouts(c) ==
    /\ call[c] = Idle
    /\ "save" \in wsPlan.kinds
    /\ seenLayouts' = [seenLayouts EXCEPT ![c] = layouts]
    /\ feed' = [feed EXCEPT ![c] = <<>>]
    /\ UNCHANGED <<wsPlan, tabRows, usedTabs, paneTab, layouts, call, edits, calls,
                   overlapped>>

-----------------------------------------------------------------------------
(* The tab strip. *)

(* A client asks for a tab, an order, a name or a deletion. *)
AskStrip(c, request) ==
    /\ call[c] = Idle
    /\ request.kind \in wsPlan.kinds
    /\ calls < wsPlan.calls
    /\ calls' = calls + 1
    /\ Step(c, request)
    /\ overlapped' = (overlapped \/ /\ Ordering(request.kind)
                                    /\ \E d \in WsClients : Ordering(call[d].kind))
    /\ UNCHANGED <<wsPlan, tabRows, usedTabs, paneTab, layouts, seenLayouts, feed, edits>>

CreateRequest == [kind |-> "create", at |-> "order"]
ReorderRequest(ids) == [kind |-> "reorder", at |-> "check", ids |-> ids, next |-> 1]
TabRequest(kind, w) == [kind |-> kind, at |-> "check", tab |-> w]

Last == CHOOSE n \in {tabRows[w].order : w \in DOMAIN tabRows} :
            \A w \in DOMAIN tabRows : tabRows[w].order <= n

(* next_sort_order: past the last tab, whatever was deleted before it. *)
CountOfTabs == Cardinality(DOMAIN tabRows)
next_sort_order == IF DOMAIN tabRows = {} THEN 0 ELSE Last + 1

(* create_workspace_group: the order is read, then the row is inserted. *)
read_sort_order(c) ==
    /\ call[c].kind = "create" /\ call[c].at = "order"
    /\ Step(c, [kind |-> "create", at |-> "insert", order |-> next_sort_order])
    /\ UNCHANGED <<wsPlan, tabRows, usedTabs, paneTab, layouts, seenLayouts, feed,
                   edits, calls, overlapped>>

insert_workspace_group(c, w) ==
    /\ call[c].kind = "create" /\ call[c].at = "insert"
    /\ w \notin usedTabs
    /\ tabRows' = tabRows @@ (w :> [order |-> call[c].order, auto |-> FALSE])
    /\ usedTabs' = usedTabs \cup {w}
    /\ Step(c, Idle)
    /\ UNCHANGED <<wsPlan, paneTab, layouts, seenLayouts, feed, edits, calls, overlapped>>

(* reorder_workspace_groups: refused unless every tab is named once; then  *)
(* one statement per tab.  A tab deleted meanwhile is no row to update.    *)
reorder_workspace_groups(c) ==
    /\ call[c].kind = "reorder" /\ call[c].at = "check"
    /\ Step(c, IF {call[c].ids[i] : i \in DOMAIN call[c].ids} = DOMAIN tabRows
               THEN [call[c] EXCEPT !.at = "write"] ELSE Idle)
    /\ UNCHANGED <<wsPlan, tabRows, usedTabs, paneTab, layouts, seenLayouts, feed,
                   edits, calls, overlapped>>

update_workspace_group_sort_order(c) ==
    LET r == call[c]
    IN /\ r.kind = "reorder" /\ r.at = "write"
       /\ IF r.next > Len(r.ids)
          THEN Step(c, Idle) /\ UNCHANGED tabRows
          ELSE /\ tabRows' = [w \in DOMAIN tabRows |->
                     IF w = r.ids[r.next] THEN [tabRows[w] EXCEPT !.order = r.next - 1]
                                          ELSE tabRows[w]]
               /\ Step(c, [r EXCEPT !.next = @ + 1])
       /\ UNCHANGED <<wsPlan, usedTabs, paneTab, layouts, seenLayouts, feed, edits,
                      calls, overlapped>>

(* rename_workspace_group: a tab its user has named is no longer the hub's. *)
rename_workspace_group(c) ==
    /\ call[c].kind = "rename"
    /\ tabRows' = [w \in DOMAIN tabRows |->
                     IF w = call[c].tab THEN [tabRows[w] EXCEPT !.auto = FALSE]
                                        ELSE tabRows[w]]
    /\ Step(c, Idle)
    /\ UNCHANGED <<wsPlan, usedTabs, paneTab, layouts, seenLayouts, feed, edits, calls,
                   overlapped>>

Without(rows, w) == [v \in DOMAIN rows \ {w} |-> rows[v]]
DeletedEvent(w) == [type |-> "deleted", key |-> w, row |-> NoRow]

(* delete_workspace_group: the layout, the tab, then the terminals in       *)
(* memory and the announcement.                                             *)
delete_workspace_layout(c) ==
    /\ call[c].kind = "delete" /\ call[c].at = "check"
    /\ IF Exists(call[c].tab)
       THEN /\ layouts' = [layouts EXCEPT ![call[c].tab] = NoRow]
            /\ Step(c, [call[c] EXCEPT !.at = "tab"])
       ELSE Step(c, Idle) /\ UNCHANGED layouts
    /\ UNCHANGED <<wsPlan, tabRows, usedTabs, paneTab, seenLayouts, feed, edits, calls,
                   overlapped>>

delete_workspace_group(c) ==
    /\ call[c].kind = "delete" /\ call[c].at = "tab"
    /\ tabRows' = Without(tabRows, call[c].tab)
    /\ Step(c, [call[c] EXCEPT !.at = "clear"])
    /\ UNCHANGED <<wsPlan, usedTabs, paneTab, layouts, seenLayouts, feed, edits, calls,
                   overlapped>>

clear_assignments(c) ==
    /\ call[c].kind = "delete" /\ call[c].at = "clear"
    /\ paneTab' = [p \in WsPanes |-> IF paneTab[p] = call[c].tab THEN NoTab ELSE paneTab[p]]
    /\ Announce(DeletedEvent(call[c].tab))
    /\ Step(c, Idle)
    /\ UNCHANGED <<wsPlan, tabRows, usedTabs, layouts, seenLayouts, edits, calls, overlapped>>

(* destroy_terminal, with prune_auto_tab_if_empty for the tab it was in. *)
destroy_terminal(p) ==
    LET w == paneTab[p]
    IN /\ "save" \in wsPlan.kinds
       /\ w # GonePane
       /\ paneTab' = [paneTab EXCEPT ![p] = GonePane]
       /\ IF /\ Exists(w) /\ tabRows[w].auto
             /\ \A q \in WsPanes \ {p} : paneTab[q] # w
          THEN /\ tabRows' = Without(tabRows, w)
               /\ layouts' = [layouts EXCEPT ![w] = NoRow]
               /\ Announce(DeletedEvent(w))
          ELSE UNCHANGED <<tabRows, layouts, feed>>
       /\ UNCHANGED <<wsPlan, usedTabs, seenLayouts, call, edits, calls, overlapped>>

WsNext ==
    \/ \E c \in WsClients :
         \/ \E k \in wsPlan.keys, root \in SUBSET (WsPanes \cup PaneBrowsers) : SendLayout(c, k, root)
         \/ save_workspace_layout(c)
         \/ terminal_ids_for_group_key(c)
         \/ \E live \in SUBSET PaneBrowsers, now \in 1..MaxNow :
              upsert_workspace_layout_checked(c, live, now)
         \/ publish_workspace_layout_updated(c)
         \/ LayoutAnswer(c)
         \/ Receive(c)
         \/ list_workspace_layouts(c)
         \/ AskStrip(c, CreateRequest)
         \/ \E ids \in Strips : AskStrip(c, ReorderRequest(ids))
         \/ \E w \in usedTabs, kind \in {"rename", "delete"} : AskStrip(c, TabRequest(kind, w))
         \/ read_sort_order(c)
         \/ \E w \in Tabs : insert_workspace_group(c, w)
         \/ reorder_workspace_groups(c)
         \/ update_workspace_group_sort_order(c)
         \/ rename_workspace_group(c)
         \/ delete_workspace_layout(c)
         \/ delete_workspace_group(c)
         \/ clear_assignments(c)
    \/ \E p \in WsPanes : destroy_terminal(p)

WsSpec == WsInit /\ [][WsNext]_wsVars

-----------------------------------------------------------------------------
Stays(k) ==
    /\ Exists(k) \/ k = NoTab
    /\ \A c \in WsClients : call[c].kind = "delete" => call[c].tab # k

(* A save never replaces a layout its client has not seen: when a request    *)
(* changes the stored layout of a tab that nobody deletes, what it replaces   *)
(* is exactly what the client held when it sent the request, however many    *)
(* saves fall into one millisecond, whatever the clock does and in whatever  *)
(* order answers and events arrive (workspace_layout_base_conflicts and the  *)
(* revision of upsert_workspace_layout_checked).                             *)
SaveReplacesWhatWasSeen ==
    \A c \in WsClients :
          call[c].kind = "save" /\ call'[c].kind = "saved"
             /\ Stays(call[c].key)
          => layouts[call[c].key] = call[c].base

(* Two tabs never share a place in the strip, unless two requests that order *)
(* it ran at the same time: a new tab goes past the last one even after tabs *)
(* were deleted, and a new order gives every tab its own place               *)
(* (next_sort_order, reorder_workspace_groups).                              *)
StripOrderIsStrict ==
    overlapped \/ (\E c \in WsClients : call[c].kind = "reorder")
    \/ \A v, w \in DOMAIN tabRows : v # w => tabRows[v].order # tabRows[w].order
=============================================================================
