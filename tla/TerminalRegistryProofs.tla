------------------------- MODULE TerminalRegistryProofs -------------------------
(* The registry for any number of terminals, tabs, connections and hub     *)
(* restarts: its types and its rows with or without lag, and, when the     *)
(* handlers keep up with the node's connections, that a running terminal   *)
(* keeps its row and that the hub is right once things settle.             *)
EXTENDS TerminalRegistry, TLAPS

(* Inductive: a row names a tab that exists, or none.  A step that removes *)
(* a tab must take it out of every row, and a hub that restarts relies on  *)
(* it: it keeps the tabs that active rows name.                            *)
RowsNameTabs ==
    /\ tabs \in SUBSET Tab
    /\ row \in [Terminal -> {"none", "active", "destroyed"}]
    /\ rowTab \in [Terminal -> tabs \cup {NoTab}]

(* What a running terminal's row may lose, step by step. *)
Stays ==
    \A t \in Terminal :
        (/\ row[t] = "active" /\ row'[t] = "active"
         /\ rowTab[t] # NoTab /\ rowTab'[t] # rowTab[t])
        => (request[t].at = "stored" \/ rowTab[t] \in deleting')

(* prune_auto_tab_if_empty keeps rows and tabs consistent and never takes  *)
(* a tab from a row that is active.                                        *)
LEMMA PruneKeeps ==
    ASSUME RowsNameTabs, NEW gs, NEW rows, Prune(gs, rows), row' = rows,
           rows \in [Terminal -> {"none", "active", "destroyed"}]
    PROVE  RowsNameTabs' /\ Stays
BY DEF RowsNameTabs, Prune, ActiveIn, Stays

(* The steps of a connection's control task. *)
LEMMA ControlTaskKeeps ==
    ASSUME RowsNameTabs, RegistryAssumption, NEW c \in Conn, ControlTask(c)
    PROVE  RowsNameTabs' /\ Stays
<1> USE DEF memory, database, requests, node
<1>1. CASE TerminalCreated(c) \/ TerminalDestroyed(c) \/ ExistingTerminals(c)
  BY <1>1 DEF TerminalCreated, TerminalDestroyed, ExistingTerminals, RowsNameTabs, Stays
<1>2. CASE TerminalInserted(c)
  BY <1>2 DEF TerminalInserted, RowsNameTabs, Stays
<1>3. CASE DestroyRow(c)
  <2>1. row' \in [Terminal -> {"none", "active", "destroyed"}]
    BY <1>3 DEF DestroyRow, mark_destroyed, RowsNameTabs
  <2> QED BY <1>3, <2>1, PruneKeeps DEF DestroyRow
<1>4. CASE TerminalDied(c)
  BY <1>4 DEF TerminalDied, mark_destroyed, RowsNameTabs, Stays
<1>5. CASE PruneTab(c)
  <2>1. Prune({work[c].tab}, row) /\ row' = row
    BY <1>5 DEF PruneTab
  <2>2. row \in [Terminal -> {"none", "active", "destroyed"}]
    BY DEF RowsNameTabs
  <2> QED BY <2>1, <2>2, PruneKeeps
<1>6. CASE Reconcile(c)
  <2> DEFINE ids == work[c].ids
             old == work[c].old
  <2>1. CASE /\ row' = ReconciledRows(ids, old)
             /\ Prune({old[t] : t \in Present(old) \ ids}, row')
    <3>1. row' \in [Terminal -> {"none", "active", "destroyed"}]
      BY <2>1 DEF ReconciledRows, mark_destroyed, RowsNameTabs
    <3> HIDE DEF ids, old
    <3> QED BY <2>1, <3>1, PruneKeeps
  <2>2. CASE UNCHANGED <<row, rowTab, tabs>>
    BY <2>2 DEF RowsNameTabs, Stays
  <2> QED BY <1>6, <2>1, <2>2 DEF Reconcile
<1> QED BY <1>1, <1>2, <1>3, <1>4, <1>5, <1>6 DEF ControlTask

(* The steps of the HTTP requests about a terminal. *)
LEMMA HttpKeeps ==
    ASSUME RowsNameTabs, RegistryAssumption, NEW t \in Terminal, Http(t)
    PROVE  RowsNameTabs' /\ Stays
<1> USE DEF memory, database, requests, node
<1>1. CASE CreateFails(t) \/ StoreTab(t) \/ DestroyTerminal(t)
  BY <1>1 DEF CreateFails, StoreTab, DestroyTerminal, RowsNameTabs, Stays
<1>2. CASE SaveTab(t)
  <2>1. row' \in [Terminal -> {"none", "active", "destroyed"}] /\ request[t].at = "stored"
    BY <1>2 DEF SaveTab, RowsNameTabs
  <2>2. CASE UNCHANGED <<rowTab, tabs>>
    BY <2>1, <2>2 DEF RowsNameTabs, Stays
  <2>3. CASE request[t].tab \in tabs \cup {NoTab}
    BY <1>2, <2>1, <2>3 DEF SaveTab, RowsNameTabs, Stays
  <2> QED BY <1>2, <2>2, <2>3 DEF SaveTab
<1>3. ASSUME NEW g \in Tab, OpenTab(t, g) PROVE RowsNameTabs' /\ Stays
  BY <1>3 DEF OpenTab, RowsNameTabs, Stays
<1>4. ASSUME NEW g \in Tab \cup {NoTab}, CreateTerminal(t, g) \/ ChooseTab(t, g)
      PROVE  RowsNameTabs' /\ Stays
  BY <1>4 DEF CreateTerminal, ChooseTab, RowsNameTabs, Stays
<1> QED BY <1>1, <1>2, <1>3, <1>4 DEF Http

(* A hub that restarts opens tabs for ungrouped rows and keeps the others. *)
LEMMA RestartKeeps ==
    ASSUME RowsNameTabs, RegistryAssumption, RestartHub
    PROVE  RowsNameTabs' /\ Stays
<1>1. PICK opened \in [Ungrouped -> Tab \ usedTabs] :
        LET grouped == migrate_ungrouped_terminals_into_tabs(opened)
            new == {opened[t] : t \in Ungrouped}
        IN  /\ tabs' = delete_empty_auto_tabs(tabs \cup new, grouped)
            /\ rowTab' = [t \in Terminal |->
                             IF grouped[t] \in tabs' THEN grouped[t] ELSE NoTab]
  BY DEF RestartHub
<1> DEFINE grouped == migrate_ungrouped_terminals_into_tabs(opened)
           new == {opened[t] : t \in Ungrouped}
<1>2. row' = row
  BY DEF RestartHub
<1>3. new \subseteq Tab /\ tabs' \subseteq tabs \cup new
  BY <1>1 DEF delete_empty_auto_tabs
<1>4. RowsNameTabs'
  BY <1>1, <1>2, <1>3 DEF RowsNameTabs
<1>5. ASSUME NEW t \in Terminal, row[t] = "active", rowTab[t] # NoTab
      PROVE  rowTab'[t] = rowTab[t]
  <2>1. grouped[t] = rowTab[t]
    BY <1>5 DEF migrate_ungrouped_terminals_into_tabs, Ungrouped
  <2>2. grouped[t] \in tabs'
    BY <1>1, <1>5, <2>1 DEF delete_empty_auto_tabs, RowsNameTabs
  <2> QED BY <1>1, <2>1, <2>2
<1> QED BY <1>4, <1>5 DEF Stays

(* Every step of the registry keeps rows and tabs consistent. *)
LEMMA StepKeeps ==
    ASSUME RowsNameTabs, RegistryAssumption, [Next]_vars
    PROVE  RowsNameTabs' /\ Stays
<1> USE DEF memory, database, requests, node
<1>1. ASSUME NEW c \in Conn, Connect(c) \/ register_machine(c) \/ EndHandler(c)
                             \/ unregister_machine(c)
      PROVE  RowsNameTabs' /\ Stays
  BY <1>1 DEF Connect, register_machine, EndHandler, unregister_machine, RowsNameTabs, Stays
<1>2. ASSUME NEW t \in Terminal, SessionEnds(t) \/ WatcherReports(t)
      PROVE  RowsNameTabs' /\ Stays
  BY <1>2 DEF SessionEnds, WatcherReports, RowsNameTabs, Stays
<1>3. ASSUME NEW g \in Tab, DeleteTab(g) PROVE RowsNameTabs' /\ Stays
  BY <1>3 DEF DeleteTab, RowsNameTabs, Stays
<1>4. ASSUME NEW g \in Tab, clear_workspace_group_assignments(g)
      PROVE  RowsNameTabs' /\ Stays
  BY <1>4 DEF clear_workspace_group_assignments, RowsNameTabs, Stays
<1>5. CASE NodeCreates \/ NodeDestroys \/ Leave \/ RestartNode
  BY <1>5 DEF NodeCreates, NodeDestroys, Leave, RestartNode, RowsNameTabs, Stays
<1>6. CASE UNCHANGED vars
  BY <1>6 DEF vars, RowsNameTabs, Stays
<1> QED
  BY <1>1, <1>2, <1>3, <1>4, <1>5, <1>6, ControlTaskKeeps, HttpKeeps, RestartKeeps DEF Next

(* Whatever is interrupted or overlaps, a row never names a tab that the   *)
(* database no longer has.                                                 *)
THEOREM RowsAreSound == Spec => []RowsNameTabs
<1>1. Init => RowsNameTabs
  BY DEF Init, RowsNameTabs
<1>2. RowsNameTabs /\ [Next]_vars => RowsNameTabs'
  BY StepKeeps, RegistryAssumption
<1> QED BY <1>1, <1>2, PTL DEF Spec

(* A running terminal leaves its tab only when it is moved or the user     *)
(* deletes the tab, whichever panes close and however the hub restarts.    *)
THEOREM PanesStayPut == Spec => PanesStay
<1>1. RowsNameTabs /\ [Next]_vars => [Stays]_vars
  BY StepKeeps, RegistryAssumption
<1>2. [Stays]_vars =>
        [\A t \in Terminal :
           /\ row[t] = "active" /\ row'[t] = "active"
           /\ rowTab[t] # NoTab /\ rowTab'[t] # rowTab[t]
           => request[t].at = "stored" \/ rowTab[t] \in deleting']_vars
  BY DEF Stays
<1> QED BY <1>1, <1>2, RowsAreSound, PTL DEF Spec, PanesStay

-----------------------------------------------------------------------------
(* Queues *)

Elems(s) == {s[i] : i \in 1..Len(s)}

LEMMA AppendElems ==
    ASSUME NEW S, NEW s \in Seq(S), NEW m \in S
    PROVE  /\ Append(s, m) \in Seq(S) /\ Len(Append(s, m)) = Len(s) + 1
           /\ Elems(Append(s, m)) = Elems(s) \cup {m}
           /\ \A i \in 1..Len(s) : Append(s, m)[i] = s[i]
           /\ Append(s, m)[Len(s) + 1] = m
<1>1. /\ Append(s, m) \in Seq(S) /\ Len(Append(s, m)) = Len(s) + 1 /\ Len(s) \in Nat
      /\ \A i \in 1..Len(s) : Append(s, m)[i] = s[i]
      /\ Append(s, m)[Len(s) + 1] = m
  OBVIOUS
<1>2. Elems(Append(s, m)) = Elems(s) \cup {m}
  <2>1. 1..Len(s) + 1 = (1..Len(s)) \cup {Len(s) + 1}
    BY <1>1
  <2> DEFINE a == Append(s, m)
  <2>2. \A i \in 1..Len(a) : a[i] = IF i = Len(s) + 1 THEN m ELSE s[i]
    BY <1>1
  <2>3. Len(a) = Len(s) + 1
    BY <1>1
  <2> HIDE DEF a
  <2>4. ASSUME NEW x \in Elems(a) PROVE x \in Elems(s) \cup {m}
    BY <2>1, <2>2, <2>3, <2>4 DEF Elems
  <2>5. ASSUME NEW x \in Elems(s) \cup {m} PROVE x \in Elems(a)
    <3>1. CASE x = m
      <4>1. Len(s) + 1 \in 1..Len(a) /\ a[Len(s) + 1] = m
        BY <1>1, <2>2, <2>3
      <4> QED BY <3>1, <4>1 DEF Elems
    <3>2. CASE x \in Elems(s)
      <4>1. PICK i \in 1..Len(s) : x = s[i]
        BY <3>2 DEF Elems
      <4>2. i \in 1..Len(a) /\ a[i] = s[i]
        BY <1>1, <2>2, <2>3
      <4> QED BY <4>1, <4>2 DEF Elems
    <3> QED BY <2>5, <3>1, <3>2
  <2>6. Elems(a) = Elems(s) \cup {m}
    BY <2>4, <2>5
  <2> QED BY <2>6 DEF a
<1> QED BY <1>1, <1>2

LEMMA TailElems ==
    ASSUME NEW S, NEW s \in Seq(S), s # <<>>
    PROVE  /\ Tail(s) \in Seq(S) /\ Head(s) \in S /\ Len(Tail(s)) = Len(s) - 1
           /\ Tail(s) # s /\ Len(s) > 0 /\ Head(s) = s[1]
           /\ \A i \in 1..Len(Tail(s)) : Tail(s)[i] = s[i + 1]
           /\ Elems(s) = Elems(Tail(s)) \cup {Head(s)}
<1>1. /\ Tail(s) \in Seq(S) /\ Head(s) \in S /\ Len(Tail(s)) = Len(s) - 1 /\ Len(s) \in Nat
      /\ Len(s) > 0 /\ Head(s) = s[1]
      /\ \A i \in 1..Len(Tail(s)) : Tail(s)[i] = s[i + 1]
  OBVIOUS
<1>2. Tail(s) # s
  <2>1. SUFFICES ASSUME Tail(s) = s PROVE FALSE
    OBVIOUS
  <2>2. Len(Tail(s)) = Len(s)
    BY <2>1
  <2> QED BY <1>1, <2>2
<1>3. ASSUME NEW x \in Elems(s) PROVE x \in Elems(Tail(s)) \cup {Head(s)}
  <2>1. PICK i \in 1..Len(s) : x = s[i]
    BY DEF Elems
  <2>2. CASE i = 1
    BY <1>1, <2>1, <2>2
  <2>3. CASE i # 1
    <3>1. i - 1 \in 1..Len(Tail(s)) /\ Tail(s)[i - 1] = s[i]
      BY <1>1, <2>3
    <3> QED BY <2>1, <3>1 DEF Elems
  <2> QED BY <2>2, <2>3
<1>4. ASSUME NEW x \in Elems(Tail(s)) \cup {Head(s)} PROVE x \in Elems(s)
  <2>1. CASE x = Head(s)
    BY <1>1, <2>1 DEF Elems
  <2>2. CASE x \in Elems(Tail(s))
    <3>1. PICK i \in 1..Len(Tail(s)) : x = Tail(s)[i]
      BY <2>2 DEF Elems
    <3>2. i + 1 \in 1..Len(s) /\ x = s[i + 1]
      BY <1>1, <3>1
    <3> QED BY <3>2 DEF Elems
  <2> QED BY <2>1, <2>2
<1> QED BY <1>1, <1>2, <1>3, <1>4

LEMMA NoElems == <<>> \in Seq({}) /\ Len(<<>>) = 0 /\ Elems(<<>>) = {}
BY DEF Elems

LEMMA EmptyQueue == ASSUME NEW S PROVE <<>> \in Seq(S)
OBVIOUS

LEMMA OneElem ==
    ASSUME NEW S, NEW m \in S
    PROVE  <<m>> \in Seq(S) /\ Len(<<m>>) = 1 /\ Elems(<<m>>) = {m} /\ <<m>>[1] = m
<1>1. <<m>> \in Seq(S) /\ Len(<<m>>) = 1 /\ <<m>>[1] = m
  OBVIOUS
<1> QED BY <1>1 DEF Elems

-----------------------------------------------------------------------------
(* Types *)

LEMMA RegistryTypesInit == ASSUME RegistryAssumption, Init PROVE TypeOK
<1>1. <<>> \in Seq(Message) /\ <<>> \in Seq(Command)
  BY EmptyQueue
<1>2. NoRequest \in Request /\ Idle \in Work /\ Nobody \in [Terminal -> Places]
  BY DEF NoRequest, Request, Work, Nobody, Places
<1> QED BY <1>1, <1>2 DEF Init, TypeOK, RegistryAssumption

(* What the types say of one connection's messages, orders and work. *)
LEMMA MessageKinds ==
    ASSUME NEW m \in Message
    PROVE  /\ m.type \in {"TerminalCreated", "TerminalDestroyed", "TerminalDied", "ExistingTerminals"}
           /\ m.type # "ExistingTerminals" => m.id \in Terminal /\ m = [type |-> m.type, id |-> m.id]
           /\ m.type = "ExistingTerminals" => m.ids \in SUBSET Terminal
BY DEF Message

LEMMA WorkKinds ==
    ASSUME NEW k \in Work
    PROVE  /\ k.type \in {"idle", "insert", "destroy", "prune", "reconcile"}
           /\ k.type = "idle" <=> k = Idle
           /\ k.type = "insert" => k.id \in Terminal
           /\ k.type = "destroy" => k.id \in Terminal /\ k.tab \in Places
           /\ k.type = "prune" => k.tab \in Places
           /\ k.type = "reconcile" => k.ids \in SUBSET Terminal /\ k.old \in [Terminal -> Places]
<1>1. CASE k = Idle
  BY <1>1 DEF Idle
<1>2. CASE k \in [type : {"insert"}, id : Terminal]
  BY <1>2 DEF Idle
<1>3. CASE k \in [type : {"destroy"}, id : Terminal, tab : Places]
  BY <1>3 DEF Idle
<1>4. CASE k \in [type : {"prune"}, tab : Places]
  BY <1>4 DEF Idle
<1>5. CASE k \in [type : {"reconcile"}, ids : SUBSET Terminal, old : [Terminal -> Places]]
  BY <1>5 DEF Idle
<1> QED BY <1>1, <1>2, <1>3, <1>4, <1>5 DEF Work

LEMMA ConnectionTypes ==
    ASSUME TypeOK, RegistryAssumption, NEW c \in Conn,
           Connect(c) \/ register_machine(c) \/ EndHandler(c) \/ unregister_machine(c)
    PROVE  TypeOK'
<1> USE DEF memory, database, requests, node
<1>0. Nobody \in [Terminal -> Places] /\ Stashed \in [Terminal -> Places]
      /\ <<>> \in Seq(Message) /\ <<>> \in Seq(Command) /\ Idle \in Work
  BY EmptyQueue DEF Nobody, Places, Stashed, TypeOK, Work
<1>1. CASE Connect(c)
  <2>1. [type |-> "ExistingTerminals", ids |-> sessions] \in Message
    BY DEF Message, TypeOK
  <2>2. <<[type |-> "ExistingTerminals", ids |-> sessions]>> \in Seq(Message)
    BY <2>1, OneElem
  <2> QED BY <1>1, <2>2 DEF Connect, TypeOK
<1>2. CASE register_machine(c)
  BY <1>0, <1>2 DEF register_machine, TypeOK
<1>3. CASE EndHandler(c)
  BY <1>0, <1>3 DEF EndHandler, TypeOK
<1>4. CASE unregister_machine(c)
  BY <1>0, <1>4 DEF unregister_machine, TypeOK
<1> QED BY <1>1, <1>2, <1>3, <1>4

(* Taking the next message of a connection. *)
LEMMA Took ==
    ASSUME TypeOK, NEW c \in Conn, NEW type, Take(c, type)
    PROVE  /\ inbox' = [inbox EXCEPT ![c] = Tail(inbox[c])] /\ inbox' \in [Conn -> Seq(Message)]
           /\ inbox'[c] = Tail(inbox[c]) /\ inbox'[c] # inbox[c]
           /\ inbox[c] \in Seq(Message) /\ inbox[c] # <<>>
           /\ Head(inbox[c]) \in Message /\ Head(inbox[c]).type = type
           /\ Elems(inbox[c]) = Elems(inbox'[c]) \cup {Head(inbox[c])}
           /\ \A d \in Conn \ {c} : inbox'[d] = inbox[d]
<1>1. inbox[c] \in Seq(Message) /\ inbox[c] # <<>> /\ Head(inbox[c]).type = type
      /\ inbox' = [inbox EXCEPT ![c] = Tail(inbox[c])] /\ inbox \in [Conn -> Seq(Message)]
  BY DEF Take, MayHandle, TypeOK
<1>2. Tail(inbox[c]) \in Seq(Message) /\ Head(inbox[c]) \in Message /\ Tail(inbox[c]) # inbox[c]
      /\ Elems(inbox[c]) = Elems(Tail(inbox[c])) \cup {Head(inbox[c])}
  BY <1>1, TailElems
<1>3. inbox'[c] = Tail(inbox[c])
  BY <1>1
<1> QED BY <1>1, <1>2, <1>3

LEMMA PruneTypes ==
    ASSUME TypeOK, NEW gs, NEW rows, Prune(gs, rows)
    PROVE  tabs' \in SUBSET Tab /\ rowTab' \in [Terminal -> Tab \cup {NoTab}]
BY DEF TypeOK, Prune

LEMMA MarkTypes ==
    ASSUME TypeOK, NEW ts
    PROVE  mark_destroyed(ts) \in [Terminal -> {"none", "active", "destroyed"}]
BY DEF TypeOK, mark_destroyed

LEMMA RequestKinds ==
    ASSUME NEW r \in Request
    PROVE  /\ r.at # "creating" => [r EXCEPT !.at = r.at] = r
           /\ r.at = "creating" => /\ [r EXCEPT !.at = "created"] \in Request
                                  /\ [r EXCEPT !.at = "chosen"] \in Request
<1>1. CASE r \in [at : {"none", "creating", "created", "chosen"}, tab : Tab \cup {NoTab}, from : {Absent}]
  BY <1>1 DEF Request
<1>2. CASE r \in [at : {"stored"}, tab : Tab \cup {NoTab}, from : Places]
  BY <1>2
<1> QED BY <1>1, <1>2 DEF Request

LEMMA ControlTypes ==
    ASSUME TypeOK, RegistryAssumption, NEW c \in Conn, ControlTask(c)
    PROVE  TypeOK'
<1> USE DEF memory, database, requests, node
<1> DEFINE m == Head(inbox[c])
<1>0. Idle \in Work /\ Nobody \in [Terminal -> Places] /\ NoTab \in Places /\ Absent \in Places
  BY DEF Work, Nobody, Places
<1>1. CASE TerminalCreated(c)
  <2>1. inbox' \in [Conn -> Seq(Message)] /\ m.id \in Terminal
    BY <1>1, Took, MessageKinds DEF TerminalCreated
  <2>2. [type |-> "insert", id |-> m.id] \in Work
    BY <2>1 DEF Work
  <2> QED BY <1>0, <1>1, <2>1, <2>2 DEF TerminalCreated, TypeOK
<1>2. CASE TerminalInserted(c)
  <2> DEFINE t == work[c].id
  <2>1. t \in Terminal
    BY <1>2, WorkKinds DEF TerminalInserted, TypeOK
  <2>2. request' \in [Terminal -> Request]
    <3> DEFINE r == request[t]
               inserted == [r EXCEPT !.at = IF r.at # "creating" THEN r.at
                                            ELSE IF r.tab = NoTab THEN "created" ELSE "chosen"]
    <3>1. r \in Request /\ request \in [Terminal -> Request]
      BY <2>1 DEF TypeOK
    <3>2. request' = [request EXCEPT ![t] = inserted]
      BY <1>2 DEF TerminalInserted
    <3>3. inserted \in Request
      <4> HIDE DEF r
      <4> QED BY <3>1, RequestKinds
    <3> HIDE DEF inserted
    <3> QED BY <2>1, <3>1, <3>2, <3>3
  <2> QED BY <1>0, <1>2, <2>1, <2>2 DEF TerminalInserted, TypeOK
<1>3. CASE TerminalDestroyed(c)
  <2>1. inbox' \in [Conn -> Seq(Message)] /\ m.id \in Terminal
    BY <1>3, Took, MessageKinds DEF TerminalDestroyed
  <2>2. [type |-> "destroy", id |-> m.id, tab |-> terminals[m.id]] \in Work
    BY <2>1 DEF Work, TypeOK
  <2>3. terminals' \in [Terminal -> Places] /\ work' \in [Conn -> Work]
    <3>1. terminals' = terminals \/ terminals' = [terminals EXCEPT ![m.id] = Absent]
      BY <1>3 DEF TerminalDestroyed
    <3>2. work' = work \/ work' = [work EXCEPT ![c] = [type |-> "destroy", id |-> m.id, tab |-> terminals[m.id]]]
      BY <1>3 DEF TerminalDestroyed
    <3>3. terminals' \in [Terminal -> Places]
      BY <1>0, <3>1 DEF TypeOK
    <3>4. work' \in [Conn -> Work]
      BY <2>2, <3>2 DEF TypeOK
    <3> QED BY <3>3, <3>4
  <2> QED BY <1>3, <2>1, <2>3 DEF TerminalDestroyed, TypeOK
<1>4. CASE DestroyRow(c)
  BY <1>0, <1>4, PruneTypes, MarkTypes DEF DestroyRow, TypeOK
<1>5. CASE TerminalDied(c)
  <2>1. inbox' \in [Conn -> Seq(Message)] /\ m.id \in Terminal
    BY <1>5, Took, MessageKinds DEF TerminalDied
  <2>2. [type |-> "prune", tab |-> terminals[m.id]] \in Work
    BY <2>1 DEF Work, TypeOK
  <2>3. terminals' \in [Terminal -> Places] /\ work' \in [Conn -> Work]
    <3>1. terminals' = terminals \/ terminals' = [terminals EXCEPT ![m.id] = Absent]
      BY <1>5 DEF TerminalDied
    <3>2. work' = work \/ work' = [work EXCEPT ![c] = [type |-> "prune", tab |-> terminals[m.id]]]
      BY <1>5 DEF TerminalDied
    <3>3. terminals' \in [Terminal -> Places]
      BY <1>0, <3>1 DEF TypeOK
    <3>4. work' \in [Conn -> Work]
      BY <2>2, <3>2 DEF TypeOK
    <3> QED BY <3>3, <3>4
  <2>4. row' \in [Terminal -> {"none", "active", "destroyed"}]
    BY <1>5, MarkTypes DEF TerminalDied, TypeOK
  <2> QED BY <1>5, <2>1, <2>3, <2>4 DEF TerminalDied, TypeOK
<1>6. CASE PruneTab(c)
  BY <1>0, <1>6, PruneTypes DEF PruneTab, TypeOK
<1>7. CASE ExistingTerminals(c)
  <2>1. inbox' \in [Conn -> Seq(Message)] /\ m.ids \in SUBSET Terminal
    BY <1>7, Took, MessageKinds DEF ExistingTerminals
  <2>2. [type |-> "reconcile", ids |-> m.ids, old |-> persisted] \in Work
    BY <2>1 DEF Work, TypeOK
  <2> QED BY <1>0, <1>7, <2>1, <2>2 DEF ExistingTerminals, TypeOK
<1>8. CASE Reconcile(c)
  <2>1. work[c].ids \in SUBSET Terminal /\ work[c].old \in [Terminal -> Places]
    BY <1>8, WorkKinds DEF Reconcile, TypeOK
  <2>2. terminals' \in [Terminal -> Places]
    BY <1>8, <2>1 DEF Reconcile, Restored, TypeOK, Places
  <2>3. row' \in [Terminal -> {"none", "active", "destroyed"}]
    BY <1>8, MarkTypes DEF Reconcile, ReconciledRows, TypeOK, mark_destroyed
  <2>4. tabs' \in SUBSET Tab /\ rowTab' \in [Terminal -> Tab \cup {NoTab}]
    BY <1>8, PruneTypes DEF Reconcile, TypeOK
  <2> QED BY <1>0, <1>8, <2>2, <2>3, <2>4 DEF Reconcile, TypeOK
<1> QED BY <1>1, <1>2, <1>3, <1>4, <1>5, <1>6, <1>7, <1>8 DEF ControlTask

(* Sending a command to the node, the node taking one, and its answer. *)
LEMMA Sent ==
    ASSUME TypeOK, current \in Conn, NEW k \in Command, Send(k)
    PROVE  /\ orders' \in [Conn -> Seq(Command)] /\ orders'[current] = Append(orders[current], k)
           /\ Elems(orders'[current]) = Elems(orders[current]) \cup {k}
           /\ \A d \in Conn \ {current} : orders'[d] = orders[d]
<1>1. orders \in [Conn -> Seq(Command)] /\ orders[current] \in Seq(Command)
  BY DEF TypeOK
<1>2. Append(orders[current], k) \in Seq(Command)
      /\ Elems(Append(orders[current], k)) = Elems(orders[current]) \cup {k}
  BY <1>1, AppendElems
<1>3. orders' = [orders EXCEPT ![current] = Append(orders[current], k)]
  BY DEF Send
<1>4. orders'[current] = Append(orders[current], k)
  BY <1>1, <1>3
<1> QED BY <1>1, <1>2, <1>3, <1>4

LEMMA Obeyed ==
    ASSUME TypeOK, RegistryAssumption, NEW type, Obey(type)
    PROVE  /\ link \in Conn /\ orders' \in [Conn -> Seq(Command)]
           /\ orders[link] \in Seq(Command) /\ orders[link] # <<>> /\ orders'[link] = Tail(orders[link])
           /\ Head(orders[link]) \in Command /\ Head(orders[link]).type = type
           /\ Head(orders[link]).id \in Terminal
           /\ Elems(orders[link]) = Elems(orders'[link]) \cup {Head(orders[link])}
           /\ \A d \in Conn \ {link} : orders'[d] = orders[d]
<1>1. link \in Conn /\ orders \in [Conn -> Seq(Command)] /\ orders[link] \in Seq(Command) /\ orders[link] # <<>>
      /\ orders' = [orders EXCEPT ![link] = Tail(orders[link])] /\ Head(orders[link]).type = type
  BY DEF TypeOK, Obey
<1>2. Tail(orders[link]) \in Seq(Command) /\ Head(orders[link]) \in Command
      /\ Elems(orders[link]) = Elems(Tail(orders[link])) \cup {Head(orders[link])}
  BY <1>1, TailElems
<1>3. orders'[link] = Tail(orders[link])
  BY <1>1
<1> QED BY <1>1, <1>2, <1>3 DEF Command

Hears == handler[link] \in {"joining", "up"}

LEMMA Told ==
    ASSUME TypeOK, link \in Conn, NEW m \in Message, Tell(m)
    PROVE  /\ inbox' \in [Conn -> Seq(Message)]
           /\ inbox'[link] = IF Hears THEN Append(inbox[link], m) ELSE inbox[link]
           /\ Elems(inbox'[link]) = IF Hears THEN Elems(inbox[link]) \cup {m} ELSE Elems(inbox[link])
           /\ \A d \in Conn \ {link} : inbox'[d] = inbox[d]
<1>1. inbox \in [Conn -> Seq(Message)] /\ inbox[link] \in Seq(Message)
  BY DEF TypeOK
<1>2. Append(inbox[link], m) \in Seq(Message)
      /\ Elems(Append(inbox[link], m)) = Elems(inbox[link]) \cup {m}
  BY <1>1, AppendElems
<1>3. inbox' = [inbox EXCEPT ![link] = IF Hears THEN Append(inbox[link], m) ELSE inbox[link]]
  BY DEF Tell, Hears
<1>4. inbox'[link] = IF Hears THEN Append(inbox[link], m) ELSE inbox[link]
  BY <1>1, <1>3
<1> QED BY <1>1, <1>2, <1>3, <1>4

LEMMA HttpTypes ==
    ASSUME TypeOK, RegistryAssumption, NEW t \in Terminal, Http(t)
    PROVE  TypeOK'
<1> USE DEF memory, database, requests, node
<1>0. NoRequest \in Request
  BY DEF NoRequest, Request
<1>1. ASSUME NEW g \in Tab \cup {NoTab}, CreateTerminal(t, g) PROVE TypeOK'
  <2>1. [at |-> "creating", tab |-> g, from |-> Absent] \in Request
    BY DEF Request
  <2>2. [type |-> "CreateTerminal", id |-> t] \in Command /\ current \in Conn
    BY <1>1 DEF Command, CreateTerminal, TypeOK
  <2>3. orders' \in [Conn -> Seq(Command)]
    BY <1>1, <2>2, Sent DEF CreateTerminal
  <2> QED BY <1>1, <2>1, <2>3 DEF CreateTerminal, TypeOK
<1>2. CASE CreateFails(t)
  BY <1>0, <1>2 DEF CreateFails, TypeOK
<1>3. ASSUME NEW g \in Tab, OpenTab(t, g) PROVE TypeOK'
  <2>1. [at |-> "chosen", tab |-> g, from |-> Absent] \in Request
    BY DEF Request
  <2> QED BY <1>3, <2>1 DEF OpenTab, TypeOK
<1>4. ASSUME NEW g \in Tab \cup {NoTab}, ChooseTab(t, g) PROVE TypeOK'
  <2>1. [at |-> "chosen", tab |-> g, from |-> Absent] \in Request
    BY DEF Request
  <2> QED BY <1>4, <2>1 DEF ChooseTab, TypeOK
<1>5. CASE StoreTab(t)
  <2>1. request[t].tab \in Tab \cup {NoTab}
    BY DEF TypeOK, Request
  <2>2. \A g \in Tab \cup {NoTab}, h \in Places : [at |-> "stored", tab |-> g, from |-> h] \in Request
    BY DEF Request
  <2>3. request' \in [Terminal -> Request] /\ terminals' \in [Terminal -> Places] /\ persisted' \in [Terminal -> Places]
    <3>1. terminals[t] \in Places /\ persisted[t] \in Places
      BY DEF TypeOK
    <3> DEFINE g == request[t].tab
    <3>2. g \in Places
      BY <2>1 DEF Places
    <3>3. /\ terminals' = terminals \/ terminals' = [terminals EXCEPT ![t] = g]
          /\ persisted' = persisted \/ persisted' = [persisted EXCEPT ![t] = g]
          /\ \E r \in Request : request' = [request EXCEPT ![t] = r]
      BY <1>0, <1>5, <2>1, <2>2, <3>1 DEF StoreTab
    <3> HIDE DEF g
    <3>4. request' \in [Terminal -> Request]
      BY <3>3 DEF TypeOK
    <3>5. terminals' \in [Terminal -> Places] /\ persisted' \in [Terminal -> Places]
      <4>1. terminals \in [Terminal -> Places] /\ persisted \in [Terminal -> Places]
        BY DEF TypeOK
      <4>2. terminals' \in [Terminal -> Places]
        BY <3>2, <3>3, <4>1
      <4>3. persisted' \in [Terminal -> Places]
        BY <3>2, <3>3, <4>1
      <4> QED BY <4>2, <4>3
    <3> QED BY <3>4, <3>5
  <2> QED BY <1>5, <2>3 DEF StoreTab, TypeOK
<1>6. CASE SaveTab(t)
  <2>1. request[t].tab \in Tab \cup {NoTab}
    BY DEF TypeOK, Request
  <2>2. tabs' \in SUBSET Tab /\ rowTab' \in [Terminal -> Tab \cup {NoTab}] /\ failed' \in SUBSET Terminal
    <3>1. CASE UNCHANGED <<rowTab, tabs>> /\ failed' = failed \cup {t}
      BY <3>1 DEF TypeOK
    <3> DEFINE moved == [rowTab EXCEPT ![t] = request[t].tab]
               empty == {f \in {request[t].from} \cap (tabs \ {request[t].tab}) :
                            \A u \in Terminal : row'[u] = "active" => moved[u] # f}
    <3>2. CASE /\ failed' = failed \ {t} /\ tabs' = tabs \ empty
               /\ rowTab' = [u \in Terminal |-> IF moved[u] \in empty THEN NoTab ELSE moved[u]]
      <4>1. moved \in [Terminal -> Tab \cup {NoTab}]
        BY <2>1 DEF TypeOK
      <4> HIDE DEF moved, empty
      <4> QED BY <3>2, <4>1 DEF TypeOK
    <3> QED BY <1>6, <3>1, <3>2 DEF SaveTab
  <2> QED BY <1>0, <1>6, <2>2 DEF SaveTab, TypeOK
<1>7. CASE DestroyTerminal(t)
  <2>1. [type |-> "DestroyTerminal", id |-> t] \in Command /\ current \in Conn
    BY <1>7 DEF Command, DestroyTerminal, TypeOK
  <2>2. orders' \in [Conn -> Seq(Command)]
    BY <1>7, <2>1, Sent DEF DestroyTerminal
  <2> QED BY <1>7, <2>2 DEF DestroyTerminal, TypeOK
<1> QED BY <1>1, <1>2, <1>3, <1>4, <1>5, <1>6, <1>7 DEF Http

LEMMA NodeTypes ==
    ASSUME TypeOK, RegistryAssumption,
           NodeCreates \/ NodeDestroys \/ Leave \/ RestartNode
           \/ \E t \in Terminal : SessionEnds(t) \/ WatcherReports(t)
    PROVE  TypeOK'
<1> USE DEF memory, database, requests, node
<1> DEFINE k == Head(orders[link])
<1>1. CASE NodeCreates
  <2>1. link \in Conn /\ k.id \in Terminal /\ orders' \in [Conn -> Seq(Command)]
    BY <1>1, Obeyed DEF NodeCreates
  <2>2. [type |-> "TerminalCreated", id |-> k.id] \in Message
    BY <2>1 DEF Message
  <2>3. inbox' \in [Conn -> Seq(Message)]
    BY <1>1, <2>1, <2>2, Told DEF NodeCreates
  <2> QED BY <1>1, <2>1, <2>3 DEF NodeCreates, TypeOK
<1>2. CASE NodeDestroys
  <2>1. link \in Conn /\ k.id \in Terminal /\ orders' \in [Conn -> Seq(Command)]
    BY <1>2, Obeyed DEF NodeDestroys
  <2>2. [type |-> "TerminalDestroyed", id |-> k.id] \in Message
    BY <2>1 DEF Message
  <2>3. inbox' \in [Conn -> Seq(Message)]
    BY <1>2, <2>1, <2>2, Told DEF NodeDestroys
  <2> QED BY <1>2, <2>1, <2>3 DEF NodeDestroys, TypeOK
<1>3. CASE Leave
  <2>1. <<>> \in Seq(Command)
    BY EmptyQueue
  <2> QED BY <1>3, <2>1 DEF Leave, TypeOK
<1>4. CASE RestartNode
  BY <1>4 DEF RestartNode, TypeOK
<1>5. ASSUME NEW t \in Terminal, SessionEnds(t) PROVE TypeOK'
  BY <1>5 DEF SessionEnds, TypeOK
<1>6. ASSUME NEW t \in Terminal, WatcherReports(t) PROVE TypeOK'
  <2>1. [type |-> "TerminalDied", id |-> t] \in Message /\ link \in Conn
    BY <1>6 DEF Message, WatcherReports, TypeOK
  <2>2. inbox' \in [Conn -> Seq(Message)]
    BY <1>6, <2>1, Told DEF WatcherReports
  <2> QED BY <1>6, <2>2 DEF WatcherReports, TypeOK
<1> QED BY <1>1, <1>2, <1>3, <1>4, <1>5, <1>6

LEMMA RestartTypes ==
    ASSUME TypeOK, RegistryAssumption, RestartHub
    PROVE  TypeOK'
<1>1. PICK opened \in [Ungrouped -> Tab \ usedTabs] :
        LET grouped == migrate_ungrouped_terminals_into_tabs(opened)
            new == {opened[t] : t \in Ungrouped}
        IN  /\ tabs' = delete_empty_auto_tabs(tabs \cup new, grouped)
            /\ usedTabs' = usedTabs \cup new
            /\ rowTab' = [t \in Terminal |->
                             IF grouped[t] \in tabs' THEN grouped[t] ELSE NoTab]
            /\ persisted' = [t \in Terminal |->
                                IF row[t] = "active" THEN grouped[t] ELSE Absent]
  BY DEF RestartHub
<1> DEFINE grouped == migrate_ungrouped_terminals_into_tabs(opened)
           new == {opened[t] : t \in Ungrouped}
<1>2. new \subseteq Tab /\ \A t \in Terminal : grouped[t] \in Tab \cup {NoTab}
  BY DEF migrate_ungrouped_terminals_into_tabs, TypeOK, Ungrouped
<1>3. tabs' \in SUBSET Tab /\ usedTabs' \in SUBSET Tab
  BY <1>1, <1>2 DEF delete_empty_auto_tabs, TypeOK
<1>4. rowTab' \in [Terminal -> Tab \cup {NoTab}] /\ persisted' \in [Terminal -> Places]
  BY <1>1, <1>2, <1>3 DEF Places
<1>5. <<>> \in Seq(Message) /\ <<>> \in Seq(Command) /\ Idle \in Work /\ NoRequest \in Request
      /\ Nobody \in [Terminal -> Places]
  BY EmptyQueue DEF Work, NoRequest, Request, Nobody, Places
<1>6. restarts' \in 0..MaxHubRestarts
  BY DEF RestartHub, TypeOK, RegistryAssumption
<1>7. handler' \in [Conn -> {"idle", "joining", "up", "ended", "gone"}]
  BY DEF RestartHub
<1> QED BY <1>3, <1>4, <1>5, <1>6, <1>7 DEF RestartHub, TypeOK, node

(* The registry, the wire and the node keep their types. *)
LEMMA RegistryTypesNext ==
    ASSUME TypeOK, RegistryAssumption, [Next]_vars
    PROVE  TypeOK'
<1>1. ASSUME NEW g \in Tab, DeleteTab(g) \/ clear_workspace_group_assignments(g) PROVE TypeOK'
  <2> USE DEF memory, database, requests, node
  <2>1. CASE DeleteTab(g)
    BY <2>1 DEF DeleteTab, TypeOK
  <2>2. CASE clear_workspace_group_assignments(g)
    BY <2>2 DEF clear_workspace_group_assignments, Cleared, TypeOK, Places
  <2> QED BY <1>1, <2>1, <2>2
<1>2. CASE UNCHANGED vars
  BY <1>2 DEF vars, TypeOK
<1> QED BY <1>1, <1>2, ConnectionTypes, ControlTypes, HttpTypes, NodeTypes, RestartTypes DEF Next

(* Every variable of the registry keeps its type. *)
THEOREM RegistryTypes == Spec => []TypeOK
<1>1. Init => TypeOK
  BY RegistryTypesInit, RegistryAssumption
<1>2. TypeOK /\ [Next]_vars => TypeOK'
  BY RegistryTypesNext, RegistryAssumption
<1> QED BY <1>1, <1>2, PTL DEF Spec

-----------------------------------------------------------------------------
(* A terminal before it exists, and after it was destroyed *)

Says(c, type, t) == \E m \in Elems(inbox[c]) : m.type = type /\ m.id = t
Asks(c, type, t) == \E k \in Elems(orders[c]) : k.type = type /\ k.id = t
Does(c, type, t) == work[c].type = type /\ work[c].id = t

(* The report of its sessions that a connection began with is still to be  *)
(* handled, or half handled; it names t.                                   *)
Waiting(c) ==
    work[c].type = "reconcile" \/ \E m \in Elems(inbox[c]) : m.type = "ExistingTerminals"
Reported(c, t) ==
    \/ work[c].type = "reconcile" /\ t \in work[c].ids
    \/ \E m \in Elems(inbox[c]) : m.type = "ExistingTerminals" /\ t \in m.ids

(* The hub has the terminal in a map; it has it anywhere. *)
Old(c, t) == work[c].type = "reconcile" /\ work[c].old[t] # Absent
Kept(t) == terminals[t] # Absent \/ persisted[t] # Absent \/ \E c \in Conn : Old(c, t)
Noted(t) ==
    \/ Kept(t) \/ row[t] = "active" \/ request[t].at = "stored"
    \/ \E c \in Conn : Does(c, "insert", t)

Mentioned(t) ==
    \E c \in Conn :
        \/ \E type \in {"TerminalCreated", "TerminalDestroyed", "TerminalDied"} : Says(c, type, t)
        \/ Reported(c, t) \/ Does(c, "destroy", t) \/ Asks(c, "DestroyTerminal", t)

Unborn(t) == t \notin sessions /\ ~Noted(t) /\ ~Mentioned(t) /\ rowTab[t] = NoTab

Once(s, type, t) ==
    \A i, j \in 1..Len(s) :
        s[i].type = type /\ s[i].id = t /\ s[j].type = type /\ s[j].id = t => i = j

(* A terminal is created once: until the node has carried out the one      *)
(* command to create it, nothing anywhere is about it.                     *)
Births ==
    \A t \in Terminal :
        /\ t \notin asked \/ (\E c \in Conn : Asks(c, "CreateTerminal", t)) => Unborn(t)
        /\ t \notin asked => \A c \in Conn : ~Asks(c, "CreateTerminal", t)
        /\ \A c, d \in Conn : Asks(c, "CreateTerminal", t) /\ Asks(d, "CreateTerminal", t) => c = d
        /\ \A c \in Conn : Once(orders[c], "CreateTerminal", t)

(* A terminal whose destruction was announced has no session any more. *)
Deaths ==
    \A t \in Terminal, c \in Conn :
        Says(c, "TerminalDestroyed", t) \/ Does(c, "destroy", t) => t \notin sessions

LEMMA OnceTail ==
    ASSUME NEW S, NEW s \in Seq(S), s # <<>>, NEW type, NEW t, Once(s, type, t)
    PROVE  /\ Once(Tail(s), type, t)
           /\ Head(s).type = type /\ Head(s).id = t
              => \A k \in Elems(Tail(s)) : ~(k.type = type /\ k.id = t)
<1>1. /\ Len(s) \in Nat /\ Len(s) > 0 /\ Head(s) = s[1] /\ Len(Tail(s)) = Len(s) - 1
      /\ \A i \in 1..Len(Tail(s)) : Tail(s)[i] = s[i + 1]
  BY TailElems
<1>2. \A i \in 1..Len(Tail(s)) : i + 1 \in 1..Len(s) /\ i + 1 # 1
  BY <1>1
<1>3. Once(Tail(s), type, t)
  BY <1>1, <1>2 DEF Once
<1>4. ASSUME NEW k \in Elems(Tail(s)), Head(s).type = type, Head(s).id = t,
             k.type = type, k.id = t
      PROVE  FALSE
  <2>1. PICK i \in 1..Len(Tail(s)) : k = Tail(s)[i]
    BY DEF Elems
  <2>2. 1 \in 1..Len(s) /\ i + 1 \in 1..Len(s) /\ s[i + 1] = k
    BY <1>1, <1>2, <2>1
  <2> QED BY <1>1, <1>2, <1>4, <2>2 DEF Once
<1> QED BY <1>3, <1>4

LEMMA OnceAppend ==
    ASSUME NEW S, NEW s \in Seq(S), NEW k \in S, NEW type, NEW t, Once(s, type, t),
           k.type = type /\ k.id = t
              => \A e \in Elems(s) : ~(e.type = type /\ e.id = t)
    PROVE  Once(Append(s, k), type, t)
<1> DEFINE a == Append(s, k)
<1>1. /\ Len(a) = Len(s) + 1 /\ Len(s) \in Nat /\ a[Len(s) + 1] = k
      /\ \A i \in 1..Len(s) : a[i] = s[i]
  BY AppendElems
<1> HIDE DEF a
<1>2. \A i \in 1..Len(a) : i \in 1..Len(s) \/ i = Len(s) + 1
  BY <1>1
<1>3. \A i \in 1..Len(s) : s[i] \in Elems(s)
  BY DEF Elems
<1>4. Once(a, type, t)
  BY <1>1, <1>2, <1>3 DEF Once
<1> QED BY <1>4 DEF a

(* What the hub does about others, or drops, leaves an unborn terminal so. *)
LEMMA UnbornConnection ==
    ASSUME TypeOK, NEW c \in Conn, NEW t \in Terminal, Unborn(t),
           Connect(c) \/ register_machine(c) \/ EndHandler(c) \/ unregister_machine(c)
    PROVE  Unborn(t)'
<1> USE DEF memory, database, requests, node
<1>1. CASE Connect(c)
  <2>1. \A d \in Conn : inbox'[d] = IF d = c THEN <<[type |-> "ExistingTerminals", ids |-> sessions]>> ELSE inbox[d]
    BY <1>1 DEF Connect, TypeOK
  <2>2. Elems(<<[type |-> "ExistingTerminals", ids |-> sessions]>>) = {[type |-> "ExistingTerminals", ids |-> sessions]}
    BY OneElem
  <2>3. ~Mentioned(t)'
    BY <1>1, <2>1, <2>2 DEF Connect, Unborn, Mentioned, Says, Asks, Does, Reported
  <2>4. ~Noted(t)'
    BY <1>1 DEF Connect, Unborn, Noted, Kept, Old, Does
  <2> QED BY <1>1, <2>3, <2>4 DEF Connect, Unborn
<1>2. CASE register_machine(c)
  <2>1. ~Noted(t)'
    BY <1>2 DEF register_machine, Stashed, Nobody, Unborn, Noted, Kept, Old, Does
  <2> QED BY <1>2, <2>1 DEF register_machine, Unborn, Mentioned, Says, Asks, Does, Reported
<1>3. CASE EndHandler(c)
  <2>1. \A d \in Conn : /\ inbox'[d] = IF d = c THEN <<>> ELSE inbox[d]
                        /\ orders'[d] = IF d = c THEN <<>> ELSE orders[d]
                        /\ work'[d] \in {work[d], Idle}
    BY <1>3 DEF EndHandler, TypeOK
  <2>2. ~Mentioned(t)'
    BY <2>1, NoElems DEF Unborn, Mentioned, Says, Asks, Does, Reported, Idle
  <2>3. ~Noted(t)'
    BY <1>3, <2>1 DEF EndHandler, Unborn, Noted, Kept, Old, Does, Idle
  <2> QED BY <1>3, <2>2, <2>3 DEF EndHandler, Unborn
<1>4. CASE unregister_machine(c)
  <2>1. ~Noted(t)'
    BY <1>4 DEF unregister_machine, Stashed, Nobody, Unborn, Noted, Kept, Old, Does
  <2> QED BY <1>4, <2>1 DEF unregister_machine, Unborn, Mentioned, Says, Asks, Does, Reported
<1> QED BY <1>1, <1>2, <1>3, <1>4

LEMMA UnbornControl ==
    ASSUME TypeOK, RegistryAssumption, NEW c \in Conn, NEW t \in Terminal, Unborn(t), ControlTask(c)
    PROVE  Unborn(t)'
<1> USE DEF memory, database, requests, node
<1> DEFINE m == Head(inbox[c])
<1>0. work \in [Conn -> Work] /\ terminals \in [Terminal -> Places] /\ persisted \in [Terminal -> Places]
      /\ row \in [Terminal -> {"none", "active", "destroyed"}] /\ request \in [Terminal -> Request]
      /\ rowTab \in [Terminal -> Tab \cup {NoTab}] /\ inbox \in [Conn -> Seq(Message)]
  BY DEF TypeOK
<1>1. ASSUME NEW type, Take(c, type)
      PROVE  /\ \A d \in Conn : \A k \in Elems(inbox'[d]) : k \in Elems(inbox[d])
             /\ m \in Elems(inbox[c]) /\ m \in Message /\ m.type = type
  BY <1>1, Took
<1>2. CASE TerminalCreated(c)
  <2>1. Take(c, "TerminalCreated") BY <1>2 DEF TerminalCreated
  <2>2. m.id # t /\ m.type = "TerminalCreated"
    BY <1>1, <2>1 DEF Unborn, Mentioned, Says
  <2>3. work' = [work EXCEPT ![c] = [type |-> "insert", id |-> m.id]]
    BY <1>2 DEF TerminalCreated
  <2>4. ~Mentioned(t)'
    BY <1>0, <1>1, <1>2, <2>1, <2>3 DEF TerminalCreated, Unborn, Mentioned, Says, Asks, Does, Reported
  <2>5. terminals'[t] = terminals[t]
    BY <1>0, <1>2, <2>2 DEF TerminalCreated
  <2>6. ~Noted(t)'
    BY <1>0, <1>2, <2>2, <2>3, <2>5 DEF TerminalCreated, Unborn, Noted, Kept, Old, Does
  <2> QED BY <1>2, <2>4, <2>6 DEF TerminalCreated, Unborn
<1>3. CASE TerminalInserted(c)
  <2>1. work[c].id # t /\ work' = [work EXCEPT ![c] = Idle]
    BY <1>3 DEF TerminalInserted, Unborn, Noted, Does
  <2>2. row'[t] = row[t] /\ request'[t] = request[t]
    BY <1>0, <1>3, <2>1 DEF TerminalInserted
  <2>3. ~Mentioned(t)'
    BY <1>0, <1>3, <2>1 DEF TerminalInserted, Unborn, Mentioned, Says, Asks, Does, Reported, Idle
  <2>4. ~Noted(t)'
    BY <1>0, <1>3, <2>1, <2>2 DEF TerminalInserted, Unborn, Noted, Kept, Old, Does, Idle
  <2> QED BY <1>3, <2>3, <2>4 DEF TerminalInserted, Unborn
<1>4. CASE TerminalDestroyed(c)
  <2>1. Take(c, "TerminalDestroyed") BY <1>4 DEF TerminalDestroyed
  <2>2. m.id # t /\ m.type = "TerminalDestroyed"
    BY <1>1, <2>1 DEF Unborn, Mentioned, Says
  <2>3. \A d \in Conn : work'[d] = work[d] \/ (work'[d].type = "destroy" /\ work'[d].id = m.id)
    <3> DEFINE k == [type |-> "destroy", id |-> m.id, tab |-> terminals[m.id]]
    <3>1. work' = work \/ work' = [work EXCEPT ![c] = k]
      BY <1>4 DEF TerminalDestroyed
    <3>2. k.type = "destroy" /\ k.id = m.id
      OBVIOUS
    <3> HIDE DEF k, m
    <3> QED BY <1>0, <3>1, <3>2
  <2>4. ~Mentioned(t)'
    BY <1>0, <1>1, <1>4, <2>1, <2>2, <2>3 DEF TerminalDestroyed, Unborn, Mentioned, Says, Asks, Does, Reported
  <2>5. terminals'[t] = terminals[t]
    BY <1>0, <1>4, <2>2 DEF TerminalDestroyed
  <2>6. ~Noted(t)'
    BY <1>0, <1>4, <2>2, <2>3, <2>5 DEF TerminalDestroyed, Unborn, Noted, Kept, Old, Does
  <2> QED BY <1>4, <2>4, <2>6 DEF TerminalDestroyed, Unborn
<1>5. CASE DestroyRow(c)
  <2>1. work' = [work EXCEPT ![c] = Idle]
    BY <1>5 DEF DestroyRow
  <2>2. row'[t] # "active" /\ rowTab'[t] = NoTab
    BY <1>0, <1>5 DEF DestroyRow, mark_destroyed, Prune, Unborn, Noted
  <2>3. ~Mentioned(t)'
    BY <1>0, <1>5, <2>1 DEF DestroyRow, Unborn, Mentioned, Says, Asks, Does, Reported, Idle
  <2>4. ~Noted(t)'
    BY <1>0, <1>5, <2>1, <2>2 DEF DestroyRow, Unborn, Noted, Kept, Old, Does, Idle
  <2> QED BY <1>5, <2>2, <2>3, <2>4 DEF DestroyRow, Unborn
<1>6. CASE TerminalDied(c)
  <2>1. Take(c, "TerminalDied") BY <1>6 DEF TerminalDied
  <2>2. m.id # t /\ m.type = "TerminalDied"
    BY <1>1, <2>1 DEF Unborn, Mentioned, Says
  <2>3. \A d \in Conn : work'[d] = work[d] \/ work'[d].type = "prune"
    <3>1. \/ work' = work
          \/ work' = [work EXCEPT ![c] = [type |-> "prune", tab |-> terminals[m.id]]]
      BY <1>6 DEF TerminalDied
    <3> QED BY <1>0, <3>1
  <2>4. ~Mentioned(t)'
    BY <1>0, <1>1, <1>6, <2>1, <2>2, <2>3 DEF TerminalDied, Unborn, Mentioned, Says, Asks, Does, Reported
  <2>5. terminals'[t] = terminals[t] /\ row'[t] = row[t]
    BY <1>0, <1>6, <2>2 DEF TerminalDied, mark_destroyed
  <2>6. ~Noted(t)'
    BY <1>0, <1>6, <2>2, <2>3, <2>5 DEF TerminalDied, Unborn, Noted, Kept, Old, Does
  <2> QED BY <1>6, <2>4, <2>6 DEF TerminalDied, Unborn
<1>7. CASE PruneTab(c)
  <2>1. work' = [work EXCEPT ![c] = Idle]
    BY <1>7 DEF PruneTab
  <2>2. rowTab'[t] = NoTab
    BY <1>7 DEF PruneTab, Prune, Unborn
  <2>3. ~Mentioned(t)'
    BY <1>0, <1>7, <2>1 DEF PruneTab, Unborn, Mentioned, Says, Asks, Does, Reported, Idle
  <2>4. ~Noted(t)'
    BY <1>0, <1>7, <2>1 DEF PruneTab, Unborn, Noted, Kept, Old, Does, Idle
  <2> QED BY <1>7, <2>2, <2>3, <2>4 DEF PruneTab, Unborn
<1>8. CASE ExistingTerminals(c)
  <2>1. Take(c, "ExistingTerminals") BY <1>8 DEF ExistingTerminals
  <2>2. t \notin m.ids /\ m.type = "ExistingTerminals"
    BY <1>1, <2>1 DEF Unborn, Mentioned, Reported
  <2>3. work' = [work EXCEPT ![c] = [type |-> "reconcile", ids |-> m.ids, old |-> persisted]]
        /\ persisted' = Nobody
    BY <1>8 DEF ExistingTerminals
  <2>4. ~Mentioned(t)'
    BY <1>0, <1>1, <1>8, <2>1, <2>2, <2>3 DEF ExistingTerminals, Unborn, Mentioned, Says, Asks, Does, Reported
  <2>6. ~Noted(t)'
    BY <1>0, <1>8, <2>2, <2>3 DEF ExistingTerminals, Unborn, Noted, Kept, Old, Does, Nobody
  <2> QED BY <1>8, <2>4, <2>6 DEF ExistingTerminals, Unborn
<1>9. CASE Reconcile(c)
  <2>1. work' = [work EXCEPT ![c] = Idle] /\ t \notin work[c].ids
    BY <1>9 DEF Reconcile, Unborn, Mentioned, Reported
  <2>2. row'[t] # "active" /\ rowTab'[t] = NoTab /\ terminals'[t] = terminals[t]
    <3>1. row[t] # "active" /\ rowTab[t] = NoTab
      BY <1>0 DEF Unborn, Noted
    <3>2. row'[t] # "active" /\ terminals'[t] = terminals[t]
      BY <1>0, <1>9, <2>1, <3>1 DEF Reconcile, ReconciledRows, mark_destroyed
    <3>3. rowTab'[t] = NoTab
      BY <1>0, <1>9, <3>1 DEF Reconcile, Prune
    <3> QED BY <3>2, <3>3
  <2>3. ~Mentioned(t)'
    BY <1>0, <1>9, <2>1 DEF Reconcile, Unborn, Mentioned, Says, Asks, Does, Reported, Idle
  <2>4. ~Noted(t)'
    BY <1>0, <1>9, <2>1, <2>2 DEF Reconcile, Unborn, Noted, Kept, Old, Does, Idle
  <2> QED BY <1>9, <2>2, <2>3, <2>4 DEF Reconcile, Unborn
<1> QED BY <1>2, <1>3, <1>4, <1>5, <1>6, <1>7, <1>8, <1>9 DEF ControlTask

LEMMA UnbornHttp ==
    ASSUME TypeOK, RegistryAssumption, NEW u \in Terminal, NEW t \in Terminal, Unborn(t), Http(u)
    PROVE  Unborn(t)'
<1> USE DEF memory, database, requests, node
<1>0. /\ terminals \in [Terminal -> Places] /\ persisted \in [Terminal -> Places]
      /\ row \in [Terminal -> {"none", "active", "destroyed"}] /\ request \in [Terminal -> Request]
      /\ rowTab \in [Terminal -> Tab \cup {NoTab}] /\ NoRequest.at = "none"
      /\ terminals[t] = Absent /\ persisted[t] = Absent /\ row[t] # "active"
      /\ request[t].at # "stored" /\ rowTab[t] = NoTab
  BY DEF TypeOK, NoRequest, Unborn, Noted, Kept
<1> DEFINE Same == UNCHANGED <<sessions, work, inbox>>
<1>1. ASSUME Same, terminals'[t] = Absent, persisted'[t] = Absent, row'[t] # "active",
             request'[t].at # "stored", rowTab'[t] = NoTab,
             \A d \in Conn : Asks(d, "DestroyTerminal", t)' => Asks(d, "DestroyTerminal", t)
      PROVE  Unborn(t)'
  <2>1. ~Mentioned(t)'
    BY <1>1 DEF Unborn, Mentioned, Says, Does, Reported
  <2>2. ~Noted(t)'
    BY <1>1 DEF Unborn, Noted, Kept, Old, Does
  <2> QED BY <1>1, <2>1, <2>2 DEF Unborn
<1>9. ASSUME NEW k \in Command, current \in Conn, Send(k), k.type = "CreateTerminal" \/ k.id # t
      PROVE  \A d \in Conn : Asks(d, "DestroyTerminal", t)' => Asks(d, "DestroyTerminal", t)
  <2>1. \A d \in Conn : \A e \in Elems(orders'[d]) : e \in Elems(orders[d]) \/ e = k
    BY <1>9, Sent
  <2> QED BY <1>9, <2>1 DEF Asks
<1>2. ASSUME NEW g \in Tab \cup {NoTab}, CreateTerminal(u, g) PROVE Unborn(t)'
  <2>1. [type |-> "CreateTerminal", id |-> u] \in Command /\ current \in Conn
    BY <1>2 DEF Command, CreateTerminal, TypeOK
  <2>2. \A d \in Conn : Asks(d, "DestroyTerminal", t)' => Asks(d, "DestroyTerminal", t)
    BY <1>2, <1>9, <2>1 DEF CreateTerminal
  <2>3. request'[t].at # "stored"
    BY <1>0, <1>2 DEF CreateTerminal
  <2> QED BY <1>0, <1>1, <1>2, <2>2, <2>3 DEF CreateTerminal
<1>3. CASE CreateFails(u)
  BY <1>0, <1>1, <1>3 DEF CreateFails, Asks
<1>4. ASSUME NEW g \in Tab, OpenTab(u, g) PROVE Unborn(t)'
  BY <1>0, <1>1, <1>4 DEF OpenTab, Asks
<1>5. ASSUME NEW g \in Tab \cup {NoTab}, ChooseTab(u, g) PROVE Unborn(t)'
  BY <1>0, <1>1, <1>5 DEF ChooseTab, Asks
<1>6. CASE StoreTab(u)
  <2>1. CASE u = t
    <3>1. request'[t] = NoRequest /\ UNCHANGED <<terminals, persisted>>
      BY <1>0, <1>6, <2>1 DEF StoreTab
    <3> QED BY <1>0, <1>1, <1>6, <3>1 DEF StoreTab, Asks
  <2>2. CASE u # t
    <3>1. request'[t] = request[t] /\ terminals'[t] = terminals[t] /\ persisted'[t] = persisted[t]
      BY <1>0, <1>6, <2>2 DEF StoreTab
    <3> QED BY <1>0, <1>1, <1>6, <3>1 DEF StoreTab, Asks
  <2> QED BY <2>1, <2>2
<1>7. CASE SaveTab(u)
  <2>1. u # t
    BY <1>0, <1>7 DEF SaveTab
  <2>2. row'[t] = row[t] /\ request'[t] = request[t]
    BY <1>0, <1>7, <2>1 DEF SaveTab
  <2>3. rowTab'[t] = NoTab
    BY <1>0, <1>7, <2>1 DEF SaveTab
  <2> QED BY <1>0, <1>1, <1>7, <2>2, <2>3 DEF SaveTab, Asks
<1>8. CASE DestroyTerminal(u)
  <2>1. u # t
    BY <1>0, <1>8 DEF DestroyTerminal
  <2>2. [type |-> "DestroyTerminal", id |-> u] \in Command /\ current \in Conn
    BY <1>8 DEF Command, DestroyTerminal, TypeOK
  <2>3. \A d \in Conn : Asks(d, "DestroyTerminal", t)' => Asks(d, "DestroyTerminal", t)
    BY <1>8, <1>9, <2>1, <2>2 DEF DestroyTerminal
  <2> QED BY <1>0, <1>1, <1>8, <2>3 DEF DestroyTerminal
<1> QED BY <1>2, <1>3, <1>4, <1>5, <1>6, <1>7, <1>8 DEF Http

LEMMA UnbornNode ==
    ASSUME TypeOK, RegistryAssumption, NEW t \in Terminal, Unborn(t),
           \/ NodeCreates /\ Head(orders[link]).id # t
           \/ NodeDestroys \/ Leave \/ RestartNode
           \/ \E u \in Terminal : SessionEnds(u) \/ WatcherReports(u)
    PROVE  Unborn(t)'
<1> USE DEF memory, database, requests, node
<1> DEFINE k == Head(orders[link])
<1>1. ASSUME ~Mentioned(t)', t \notin sessions', UNCHANGED <<memory, database, requests, work>>
      PROVE  Unborn(t)'
  BY <1>1 DEF Unborn, Noted, Kept, Old, Does
<1>2. ASSUME NEW m \in Message, link \in Conn, Tell(m), m.type # "ExistingTerminals", m.id # t,
             UNCHANGED work, \A d \in Conn : Asks(d, "DestroyTerminal", t)' => Asks(d, "DestroyTerminal", t)
      PROVE  ~Mentioned(t)'
  <2>1. \A d \in Conn : \A e \in Elems(inbox'[d]) : e \in Elems(inbox[d]) \/ e = m
    BY <1>2, Told
  <2> QED BY <1>2, <2>1 DEF Unborn, Mentioned, Says, Does, Reported
<1>3. CASE NodeCreates /\ k.id # t
  <2>1. link \in Conn /\ k.id \in Terminal /\ \A d \in Conn : \A e \in Elems(orders'[d]) : e \in Elems(orders[d])
    BY <1>3, Obeyed DEF NodeCreates
  <2>2. [type |-> "TerminalCreated", id |-> k.id] \in Message
    BY <2>1 DEF Message
  <2>3. ~Mentioned(t)'
    BY <1>2, <1>3, <2>1, <2>2 DEF NodeCreates, Asks
  <2> QED BY <1>1, <1>3, <2>3 DEF NodeCreates, Unborn
<1>4. CASE NodeDestroys
  <2>1. /\ link \in Conn /\ k.id \in Terminal /\ \A d \in Conn : \A e \in Elems(orders'[d]) : e \in Elems(orders[d])
        /\ k \in Elems(orders[link]) /\ k.type = "DestroyTerminal"
    BY <1>4, Obeyed DEF NodeDestroys
  <2>2. [type |-> "TerminalDestroyed", id |-> k.id] \in Message
    BY <2>1 DEF Message
  <2>3. k.id # t
    BY <2>1 DEF Unborn, Mentioned, Asks
  <2>4. ~Mentioned(t)'
    BY <1>2, <1>4, <2>1, <2>2, <2>3 DEF NodeDestroys, Asks
  <2> QED BY <1>1, <1>4, <2>4 DEF NodeDestroys, Unborn
<1>5. CASE Leave
  <2>1. \A d \in Conn : orders'[d] = IF d = link THEN <<>> ELSE orders[d]
    BY <1>5 DEF Leave, TypeOK
  <2>2. ~Mentioned(t)'
    BY <1>5, <2>1, NoElems DEF Leave, Unborn, Mentioned, Says, Asks, Does, Reported
  <2> QED BY <1>1, <1>5, <2>2 DEF Leave, Unborn
<1>6. CASE RestartNode
  <2>1. t \notin sessions'
    BY <1>6 DEF RestartNode, Unborn, TypeOK
  <2>2. ~Mentioned(t)'
    BY <1>6 DEF RestartNode, Unborn, Mentioned, Says, Asks, Does, Reported
  <2> QED BY <1>1, <1>6, <2>1, <2>2 DEF RestartNode
<1>7. ASSUME NEW u \in Terminal, SessionEnds(u) PROVE Unborn(t)'
  <2>1. ~Mentioned(t)'
    BY <1>7 DEF SessionEnds, Unborn, Mentioned, Says, Asks, Does, Reported
  <2> QED BY <1>1, <1>7, <2>1 DEF SessionEnds, Unborn
<1>8. ASSUME NEW u \in Terminal, WatcherReports(u) PROVE Unborn(t)'
  <2>1. [type |-> "TerminalDied", id |-> u] \in Message /\ link \in Conn /\ u # t
    BY <1>8 DEF Message, WatcherReports, TypeOK, Unborn
  <2>2. ~Mentioned(t)'
    BY <1>2, <1>8, <2>1 DEF WatcherReports, Asks
  <2> QED BY <1>1, <1>8, <2>2 DEF WatcherReports, Unborn
<1> QED BY <1>3, <1>4, <1>5, <1>6, <1>7, <1>8

LEMMA UnbornRest ==
    ASSUME TypeOK, RegistryAssumption, NEW t \in Terminal, Unborn(t),
           \/ RestartHub \/ UNCHANGED vars
           \/ \E g \in Tab : DeleteTab(g) \/ clear_workspace_group_assignments(g)
    PROVE  Unborn(t)'
<1> USE DEF memory, database, requests, node
<1>1. CASE RestartHub
  <2>1. PICK opened \in [Ungrouped -> Tab \ usedTabs] :
          /\ rowTab' = [u \in Terminal |->
                IF migrate_ungrouped_terminals_into_tabs(opened)[u] \in tabs'
                THEN migrate_ungrouped_terminals_into_tabs(opened)[u] ELSE NoTab]
          /\ persisted' = [u \in Terminal |->
                IF row[u] = "active" THEN migrate_ungrouped_terminals_into_tabs(opened)[u] ELSE Absent]
    BY <1>1 DEF RestartHub
  <2>2. rowTab'[t] = NoTab /\ persisted'[t] = Absent
    BY <2>1 DEF migrate_ungrouped_terminals_into_tabs, Ungrouped, Unborn, Noted
  <2>3. /\ \A d \in Conn : inbox'[d] = <<>> /\ orders'[d] = <<>> /\ work'[d] = Idle
        /\ terminals'[t] = Absent /\ request'[t].at # "stored" /\ row' = row /\ sessions' = sessions
    BY <1>1 DEF RestartHub, Nobody, NoRequest
  <2>4. ~Mentioned(t)'
    BY <2>3, NoElems DEF Mentioned, Says, Asks, Does, Reported, Idle
  <2>5. ~Noted(t)'
    BY <2>2, <2>3 DEF Unborn, Noted, Kept, Old, Does, Idle
  <2> QED BY <2>2, <2>3, <2>4, <2>5 DEF Unborn
<1>2. ASSUME NEW g \in Tab, DeleteTab(g) PROVE Unborn(t)'
  <2>1. ~Mentioned(t)' /\ ~Noted(t)'
    BY <1>2 DEF DeleteTab, Unborn, Mentioned, Says, Asks, Does, Reported, Noted, Kept, Old
  <2> QED BY <1>2, <2>1 DEF DeleteTab, Unborn
<1>3. ASSUME NEW g \in Tab, clear_workspace_group_assignments(g) PROVE Unborn(t)'
  <2>1. terminals'[t] = Absent /\ persisted'[t] = Absent
    BY <1>3 DEF clear_workspace_group_assignments, Cleared, Unborn, Noted, Kept, RegistryAssumption
  <2>2. ~Mentioned(t)'
    BY <1>3 DEF clear_workspace_group_assignments, Unborn, Mentioned, Says, Asks, Does, Reported
  <2>3. ~Noted(t)'
    BY <1>3, <2>1 DEF clear_workspace_group_assignments, Unborn, Noted, Kept, Old, Does
  <2> QED BY <1>3, <2>2, <2>3 DEF clear_workspace_group_assignments, Unborn
<1>4. CASE UNCHANGED vars
  <2>1. ~Mentioned(t)' /\ ~Noted(t)'
    BY <1>4 DEF vars, Unborn, Mentioned, Says, Asks, Does, Reported, Noted, Kept, Old
  <2> QED BY <1>4, <2>1 DEF vars, Unborn
<1> QED BY <1>1, <1>2, <1>3, <1>4

(* The commands to create t: one is sent at most, and only once. *)
LEMMA CreateOrders ==
    ASSUME TypeOK, RegistryAssumption, Births, [Next]_vars, NEW t \in Terminal
    PROVE  /\ asked \subseteq asked'
           /\ \A d \in Conn : Once(orders'[d], "CreateTerminal", t)
           /\ \A d \in Conn : Asks(d, "CreateTerminal", t)'
                 => Asks(d, "CreateTerminal", t) \/ (t \notin asked /\ t \in asked' /\ d = current)
<1> USE DEF memory, database, requests, node
<1> DEFINE Goal == /\ asked \subseteq asked'
                   /\ \A d \in Conn : Once(orders'[d], "CreateTerminal", t)
                   /\ \A d \in Conn : Asks(d, "CreateTerminal", t)'
                         => Asks(d, "CreateTerminal", t) \/ (t \notin asked /\ t \in asked' /\ d = current)
<1> SUFFICES Goal
  OBVIOUS
<1>0. /\ \A d \in Conn : Once(orders[d], "CreateTerminal", t) /\ orders[d] \in Seq(Command)
      /\ t \notin asked => \A d \in Conn : ~Asks(d, "CreateTerminal", t)
      /\ Once(<<>>, "CreateTerminal", t)
  BY NoElems DEF Births, TypeOK, Once
<1>1. ASSUME UNCHANGED asked, \A d \in Conn : orders'[d] \in {orders[d], <<>>} PROVE Goal
  BY <1>0, <1>1, NoElems DEF Asks
<1>2. ASSUME NEW type, Obey(type), UNCHANGED asked PROVE Goal
  <2>1. /\ link \in Conn /\ orders[link] \in Seq(Command) /\ orders[link] # <<>>
        /\ orders'[link] = Tail(orders[link])
        /\ Elems(orders[link]) = Elems(orders'[link]) \cup {Head(orders[link])}
        /\ \A d \in Conn \ {link} : orders'[d] = orders[d]
    BY <1>2, Obeyed
  <2>2. Once(orders'[link], "CreateTerminal", t)
    BY <1>0, <2>1, OnceTail
  <2> QED BY <1>0, <1>2, <2>1, <2>2 DEF Asks
<1>3. ASSUME NEW k \in Command, current \in Conn, Send(k), asked \subseteq asked',
             k.type = "CreateTerminal" /\ k.id = t => t \notin asked /\ t \in asked'
      PROVE  Goal
  <2>1. /\ orders'[current] = Append(orders[current], k)
        /\ Elems(orders'[current]) = Elems(orders[current]) \cup {k}
        /\ \A d \in Conn \ {current} : orders'[d] = orders[d]
    BY <1>3, Sent
  <2>2. Once(orders'[current], "CreateTerminal", t)
    BY <1>0, <1>3, <2>1, OnceAppend DEF Asks
  <2>3. ASSUME NEW d \in Conn, Asks(d, "CreateTerminal", t)'
        PROVE  Asks(d, "CreateTerminal", t) \/ (t \notin asked /\ t \in asked' /\ d = current)
    <3>1. PICK e \in Elems(orders'[d]) : e.type = "CreateTerminal" /\ e.id = t
      BY <2>3 DEF Asks
    <3>2. e \in Elems(orders[d]) \/ (d = current /\ e = k)
      BY <2>1, <3>1
    <3> QED BY <1>3, <3>1, <3>2 DEF Asks
  <2> QED BY <1>0, <1>3, <2>1, <2>2, <2>3
<1>4. ASSUME NEW c \in Conn, Connect(c) \/ register_machine(c) \/ EndHandler(c) \/ unregister_machine(c)
      PROVE  Goal
  <2>1. UNCHANGED asked /\ \A d \in Conn : orders'[d] \in {orders[d], <<>>}
    BY <1>4 DEF Connect, register_machine, EndHandler, unregister_machine, TypeOK
  <2> QED BY <1>1, <2>1
<1>5. ASSUME NEW c \in Conn, ControlTask(c) PROVE Goal
  <2>1. UNCHANGED <<asked, orders>>
    BY <1>5 DEF ControlTask, TerminalCreated, TerminalInserted, TerminalDestroyed, DestroyRow,
                TerminalDied, PruneTab, ExistingTerminals, Reconcile
  <2> QED BY <1>1, <2>1
<1>6. ASSUME NEW u \in Terminal, Http(u) PROVE Goal
  <2>1. ASSUME NEW g \in Tab \cup {NoTab}, CreateTerminal(u, g) PROVE Goal
    <3>1. [type |-> "CreateTerminal", id |-> u] \in Command /\ current \in Conn
      BY <2>1 DEF Command, CreateTerminal, TypeOK
    <3> QED BY <1>3, <2>1, <3>1 DEF CreateTerminal
  <2>2. CASE DestroyTerminal(u)
    <3>1. [type |-> "DestroyTerminal", id |-> u] \in Command /\ current \in Conn
      BY <2>2 DEF Command, DestroyTerminal, TypeOK
    <3> QED BY <1>3, <2>2, <3>1 DEF DestroyTerminal
  <2>3. CASE UNCHANGED <<asked, orders>>
    BY <1>1, <2>3
  <2>4. \/ UNCHANGED <<asked, orders>> \/ DestroyTerminal(u)
        \/ \E g \in Tab \cup {NoTab} : CreateTerminal(u, g)
    BY <1>6 DEF Http, CreateFails, StoreTab, SaveTab, OpenTab, ChooseTab
  <2> HIDE DEF Goal
  <2> QED BY <2>1, <2>2, <2>3, <2>4
<1>7. CASE NodeCreates \/ NodeDestroys
  <2>1. CASE Obey("CreateTerminal") /\ UNCHANGED asked
    BY <1>2, <2>1
  <2>2. CASE Obey("DestroyTerminal") /\ UNCHANGED asked
    BY <1>2, <2>2
  <2> QED BY <1>7, <2>1, <2>2 DEF NodeCreates, NodeDestroys
<1>8. CASE Leave \/ RestartHub
  <2>1. \A d \in Conn : orders'[d] \in {orders[d], <<>>}
    BY <1>8 DEF Leave, RestartHub, TypeOK
  <2>2. UNCHANGED asked
    BY <1>8 DEF Leave, RestartHub
  <2> QED BY <1>1, <2>1, <2>2
<1>9. CASE RestartNode \/ UNCHANGED vars
  BY <1>1, <1>9 DEF RestartNode, vars
<1>10. ASSUME NEW u \in Terminal, SessionEnds(u) \/ WatcherReports(u) PROVE Goal
  BY <1>1, <1>10 DEF SessionEnds, WatcherReports
<1>11. ASSUME NEW g \in Tab, DeleteTab(g) \/ clear_workspace_group_assignments(g) PROVE Goal
  BY <1>1, <1>11 DEF DeleteTab, clear_workspace_group_assignments
<1> HIDE DEF Goal
<1>12. CASE \E c \in Conn : \/ Connect(c) \/ register_machine(c) \/ EndHandler(c)
                            \/ unregister_machine(c) \/ ControlTask(c)
  BY <1>4, <1>5, <1>12
<1> QED BY <1>6, <1>7, <1>8, <1>9, <1>10, <1>11, <1>12 DEF Next

(* A terminal stays unborn until the node carries out the command. *)
LEMMA StaysUnborn ==
    ASSUME TypeOK, RegistryAssumption, NEW t \in Terminal, Unborn(t), [Next]_vars,
           ~(NodeCreates /\ Head(orders[link]).id = t)
    PROVE  Unborn(t)'
BY UnbornConnection, UnbornControl, UnbornHttp, UnbornNode, UnbornRest DEF Next

LEMMA BirthsKept ==
    ASSUME TypeOK, RegistryAssumption, Births, [Next]_vars
    PROVE  Births'
<1> SUFFICES ASSUME NEW t \in Terminal
             PROVE  /\ t \notin asked' \/ (\E c \in Conn : Asks(c, "CreateTerminal", t)') => Unborn(t)'
                    /\ t \notin asked' => \A c \in Conn : ~Asks(c, "CreateTerminal", t)'
                    /\ \A c, d \in Conn : Asks(c, "CreateTerminal", t)' /\ Asks(d, "CreateTerminal", t)' => c = d
                    /\ \A c \in Conn : Once(orders'[c], "CreateTerminal", t)
  BY DEF Births, Once
<1>1. /\ t \notin asked \/ (\E c \in Conn : Asks(c, "CreateTerminal", t)) => Unborn(t)
      /\ t \notin asked => \A c \in Conn : ~Asks(c, "CreateTerminal", t)
      /\ \A c, d \in Conn : Asks(c, "CreateTerminal", t) /\ Asks(d, "CreateTerminal", t) => c = d
      /\ \A c \in Conn : Once(orders[c], "CreateTerminal", t)
  BY DEF Births
<1>2. /\ asked \subseteq asked'
      /\ \A d \in Conn : Once(orders'[d], "CreateTerminal", t)
      /\ \A d \in Conn : Asks(d, "CreateTerminal", t)'
            => Asks(d, "CreateTerminal", t) \/ (t \notin asked /\ t \in asked' /\ d = current)
  BY CreateOrders
<1>3. CASE NodeCreates /\ Head(orders[link]).id = t
  <2>1. /\ link \in Conn /\ orders[link] \in Seq(Command) /\ orders[link] # <<>>
        /\ orders'[link] = Tail(orders[link]) /\ Head(orders[link]).type = "CreateTerminal"
        /\ Elems(orders[link]) = Elems(orders'[link]) \cup {Head(orders[link])}
        /\ \A d \in Conn \ {link} : orders'[d] = orders[d]
        /\ link' = link
    BY <1>3, Obeyed DEF NodeCreates, node
  <2>2. Asks(link, "CreateTerminal", t) /\ ~Asks(link, "CreateTerminal", t)'
    <3> DEFINE k == Head(orders[link])
    <3>1. k \in Elems(orders[link])
      BY <2>1
    <3>2. \A e \in Elems(Tail(orders[link])) : ~(e.type = "CreateTerminal" /\ e.id = t)
      BY <1>1, <1>3, <2>1, OnceTail
    <3>3. k.type = "CreateTerminal" /\ k.id = t
      BY <1>3, <2>1
    <3> HIDE DEF k
    <3> QED BY <2>1, <3>1, <3>2, <3>3 DEF Asks
  <2>3. t \in asked' /\ \A d \in Conn : ~Asks(d, "CreateTerminal", t)'
    <3>1. t \in asked
      BY <1>1, <2>1, <2>2
    <3>2. \A d \in Conn \ {link} : ~Asks(d, "CreateTerminal", t)
      BY <1>1, <2>1, <2>2
    <3>3. \A d \in Conn \ {link} : ~Asks(d, "CreateTerminal", t)'
      BY <1>2, <3>1, <3>2
    <3> QED BY <1>2, <2>1, <2>2, <3>1, <3>3
  <2> QED BY <1>2, <2>3
<1>4. CASE ~(NodeCreates /\ Head(orders[link]).id = t)
  <2>1. t \notin asked' \/ (\E c \in Conn : Asks(c, "CreateTerminal", t)') => Unborn(t)'
    BY <1>1, <1>2, <1>4, StaysUnborn
  <2> QED BY <1>1, <1>2, <2>1
<1> QED BY <1>3, <1>4

-----------------------------------------------------------------------------
(* What a step does to one connection's messages and work, and to sessions *)

Sends(m) ==
    \/ NodeCreates /\ m = [type |-> "TerminalCreated", id |-> Head(orders[link]).id]
    \/ NodeDestroys /\ m = [type |-> "TerminalDestroyed", id |-> Head(orders[link]).id]
    \/ \E t \in Terminal : WatcherReports(t) /\ m = [type |-> "TerminalDied", id |-> t]

LEMMA InboxStep ==
    ASSUME TypeOK, RegistryAssumption, [Next]_vars, NEW d \in Conn
    PROVE  \/ inbox'[d] = inbox[d]
           \/ inbox'[d] = <<>> /\ (EndHandler(d) \/ RestartHub)
           \/ ControlTask(d) /\ MayHandle(d) /\ inbox'[d] = Tail(inbox[d])
           \/ /\ d = link /\ Hears
              /\ \E m \in Message : Sends(m) /\ inbox'[d] = Append(inbox[d], m)
           \/ Connect(d) /\ inbox'[d] = <<[type |-> "ExistingTerminals", ids |-> sessions]>>
<1> USE DEF memory, database, requests, node
<1> DEFINE Goal == \/ inbox'[d] = inbox[d]
                   \/ inbox'[d] = <<>> /\ (EndHandler(d) \/ RestartHub)
                   \/ ControlTask(d) /\ MayHandle(d) /\ inbox'[d] = Tail(inbox[d])
                   \/ /\ d = link /\ Hears
                      /\ \E m \in Message : Sends(m) /\ inbox'[d] = Append(inbox[d], m)
                   \/ Connect(d) /\ inbox'[d] = <<[type |-> "ExistingTerminals", ids |-> sessions]>>
<1> SUFFICES Goal
  OBVIOUS
<1>0. inbox \in [Conn -> Seq(Message)]
  BY DEF TypeOK
<1>1. ASSUME NEW c \in Conn, Connect(c) \/ register_machine(c) \/ EndHandler(c) \/ unregister_machine(c)
      PROVE  Goal
  BY <1>0, <1>1 DEF Connect, register_machine, EndHandler, unregister_machine
<1>2. ASSUME NEW c \in Conn, ControlTask(c) PROVE Goal
  <2>1. inbox' = inbox \/ (MayHandle(c) /\ inbox' = [inbox EXCEPT ![c] = Tail(inbox[c])])
    BY <1>2 DEF ControlTask, TerminalCreated, TerminalInserted, TerminalDestroyed, DestroyRow,
                TerminalDied, PruneTab, ExistingTerminals, Reconcile, Take
  <2> QED BY <1>0, <1>2, <2>1
<1>3. ASSUME NEW m \in Message, link \in Conn, Tell(m), Sends(m) PROVE Goal
  <2>1. /\ inbox'[link] = IF Hears THEN Append(inbox[link], m) ELSE inbox[link]
        /\ \A c \in Conn \ {link} : inbox'[c] = inbox[c]
    BY <1>3, Told
  <2> QED BY <1>3, <2>1
<1>4. CASE NodeCreates
  <2>1. link \in Conn /\ [type |-> "TerminalCreated", id |-> Head(orders[link]).id] \in Message
    BY <1>4, Obeyed DEF NodeCreates, Message
  <2> QED BY <1>3, <1>4, <2>1 DEF NodeCreates, Sends
<1>5. CASE NodeDestroys
  <2>1. link \in Conn /\ [type |-> "TerminalDestroyed", id |-> Head(orders[link]).id] \in Message
    BY <1>5, Obeyed DEF NodeDestroys, Message
  <2> QED BY <1>3, <1>5, <2>1 DEF NodeDestroys, Sends
<1>6. ASSUME NEW t \in Terminal, WatcherReports(t) PROVE Goal
  <2>1. link \in Conn /\ [type |-> "TerminalDied", id |-> t] \in Message
    BY <1>6 DEF WatcherReports, Message, TypeOK
  <2> QED BY <1>3, <1>6, <2>1 DEF WatcherReports, Sends
<1>7. ASSUME NEW t \in Terminal, Http(t) \/ SessionEnds(t) PROVE Goal
  BY <1>7 DEF Http, CreateTerminal, CreateFails, OpenTab, ChooseTab, StoreTab, SaveTab,
              DestroyTerminal, SessionEnds
<1>8. ASSUME NEW g \in Tab, DeleteTab(g) \/ clear_workspace_group_assignments(g) PROVE Goal
  BY <1>8 DEF DeleteTab, clear_workspace_group_assignments
<1>9. CASE Leave \/ RestartNode \/ RestartHub \/ UNCHANGED vars
  BY <1>9 DEF Leave, RestartNode, RestartHub, vars
<1> HIDE DEF Goal
<1>10. CASE \E c \in Conn : \/ Connect(c) \/ register_machine(c) \/ EndHandler(c)
                            \/ unregister_machine(c) \/ ControlTask(c)
  BY <1>1, <1>2, <1>10
<1> QED BY <1>4, <1>5, <1>6, <1>7, <1>8, <1>9, <1>10 DEF Next

(* Seen as the set of its messages. *)
LEMMA MessagesStep ==
    ASSUME TypeOK, RegistryAssumption, [Next]_vars, NEW d \in Conn, NEW m \in Elems(inbox'[d])
    PROVE  \/ m \in Elems(inbox[d])
           \/ d = link /\ Hears /\ Sends(m)
           \/ Connect(d) /\ m = [type |-> "ExistingTerminals", ids |-> sessions]
<1>0. inbox[d] \in Seq(Message)
  BY DEF TypeOK
<1>1. CASE inbox'[d] \in {inbox[d], <<>>}
  BY <1>1, NoElems
<1>2. CASE MayHandle(d) /\ inbox'[d] = Tail(inbox[d])
  BY <1>0, <1>2, TailElems DEF MayHandle
<1>3. CASE d = link /\ Hears /\ \E n \in Message : Sends(n) /\ inbox'[d] = Append(inbox[d], n)
  <2>1. PICK n \in Message : Sends(n) /\ inbox'[d] = Append(inbox[d], n)
    BY <1>3
  <2>2. m \in Elems(inbox[d]) \/ m = n
    BY <1>0, <2>1, AppendElems
  <2> QED BY <1>3, <2>1, <2>2
<1>4. CASE Connect(d) /\ inbox'[d] = <<[type |-> "ExistingTerminals", ids |-> sessions]>>
  <2> DEFINE r == [type |-> "ExistingTerminals", ids |-> sessions]
  <2>1. Elems(<<r>>) = {r}
    BY OneElem
  <2> QED BY <1>4, <2>1
<1> QED BY <1>1, <1>2, <1>3, <1>4, InboxStep

LEMMA WorkStep ==
    ASSUME TypeOK, [Next]_vars, NEW d \in Conn
    PROVE  \/ work'[d] = work[d] /\ ~ControlTask(d)
           \/ work'[d] = work[d] /\ ControlTask(d) /\ current = NoConn
           \/ /\ work'[d] = Idle
              /\ TerminalInserted(d) \/ DestroyRow(d) \/ PruneTab(d) \/ Reconcile(d)
                 \/ EndHandler(d) \/ RestartHub
           \/ /\ TerminalCreated(d)
              /\ work'[d].type = "insert" /\ work'[d].id = Head(inbox[d]).id
           \/ /\ TerminalDestroyed(d) /\ current # NoConn
              /\ work'[d].type = "destroy" /\ work'[d].id = Head(inbox[d]).id
              /\ work'[d].tab = terminals[Head(inbox[d]).id]
           \/ /\ TerminalDied(d) /\ current # NoConn
              /\ work'[d].type = "prune" /\ work'[d].tab = terminals[Head(inbox[d]).id]
           \/ /\ ExistingTerminals(d)
              /\ work'[d].type = "reconcile"
              /\ work'[d].ids = Head(inbox[d]).ids /\ work'[d].old = persisted
<1> USE DEF memory, database, requests, node
<1>0. work \in [Conn -> Work]
  BY DEF TypeOK
<1> DEFINE m == Head(inbox[d])
<1>1. CASE TerminalCreated(d)
  BY <1>0, <1>1 DEF TerminalCreated
<1>2. CASE TerminalInserted(d) \/ DestroyRow(d) \/ PruneTab(d) \/ Reconcile(d)
  <2>1. work' = [work EXCEPT ![d] = Idle]
    BY <1>2 DEF TerminalInserted, DestroyRow, PruneTab, Reconcile
  <2>2. work'[d] = Idle
    BY <1>0, <2>1
  <2> QED BY <1>2, <2>2
<1>3. CASE TerminalDestroyed(d)
  <2>1. CASE current # NoConn /\ work' = [work EXCEPT ![d] = [type |-> "destroy", id |-> m.id, tab |-> terminals[m.id]]]
    <3>1. work'[d] = [type |-> "destroy", id |-> m.id, tab |-> terminals[m.id]]
      BY <1>0, <2>1
    <3> QED BY <1>3, <2>1, <3>1
  <2>2. CASE current = NoConn /\ work' = work
    BY <1>3, <2>2 DEF ControlTask
  <2> QED BY <1>3, <2>1, <2>2 DEF TerminalDestroyed
<1>4. CASE TerminalDied(d)
  <2>1. CASE current # NoConn /\ work' = [work EXCEPT ![d] = [type |-> "prune", tab |-> terminals[m.id]]]
    <3>1. work'[d] = [type |-> "prune", tab |-> terminals[m.id]]
      BY <1>0, <2>1
    <3> QED BY <1>4, <2>1, <3>1
  <2>2. CASE current = NoConn /\ work' = work
    BY <1>4, <2>2 DEF ControlTask
  <2> QED BY <1>4, <2>1, <2>2 DEF TerminalDied
<1>5. CASE ExistingTerminals(d)
  <2>1. work'[d] = [type |-> "reconcile", ids |-> m.ids, old |-> persisted]
    BY <1>0, <1>5 DEF ExistingTerminals
  <2> QED BY <1>5, <2>1
<1>6. CASE ~ControlTask(d)
  <2>1. ASSUME NEW c \in Conn, c # d, ControlTask(c) PROVE work'[d] = work[d]
    BY <1>0, <2>1 DEF ControlTask, TerminalCreated, TerminalInserted, TerminalDestroyed, DestroyRow,
                TerminalDied, PruneTab, ExistingTerminals, Reconcile
  <2>2. ASSUME NEW c \in Conn, Connect(c) \/ register_machine(c) \/ EndHandler(c) \/ unregister_machine(c)
        PROVE  work'[d] = work[d] \/ (work'[d] = Idle /\ EndHandler(d))
    BY <1>0, <2>2 DEF Connect, register_machine, EndHandler, unregister_machine
  <2>3. ASSUME NEW t \in Terminal, Http(t) \/ SessionEnds(t) \/ WatcherReports(t) PROVE work' = work
    BY <2>3 DEF Http, CreateTerminal, CreateFails, OpenTab, ChooseTab, StoreTab, SaveTab,
                DestroyTerminal, SessionEnds, WatcherReports
  <2>4. ASSUME NEW g \in Tab, DeleteTab(g) \/ clear_workspace_group_assignments(g) PROVE work' = work
    BY <2>4 DEF DeleteTab, clear_workspace_group_assignments
  <2>5. CASE NodeCreates \/ NodeDestroys \/ Leave \/ RestartNode \/ RestartHub \/ UNCHANGED vars
    BY <1>6, <2>5 DEF NodeCreates, NodeDestroys, Leave, RestartNode, RestartHub, vars
  <2>6. CASE \E c \in Conn : \/ Connect(c) \/ register_machine(c) \/ EndHandler(c)
                             \/ unregister_machine(c) \/ ControlTask(c)
    BY <1>6, <2>1, <2>2, <2>6
  <2> QED BY <1>6, <2>3, <2>4, <2>5, <2>6 DEF Next
<1> QED BY <1>1, <1>2, <1>3, <1>4, <1>5, <1>6 DEF ControlTask

LEMMA SessionsStep ==
    ASSUME TypeOK, [Next]_vars, NEW t \in sessions'
    PROVE  t \in sessions \/ (NodeCreates /\ Head(orders[link]).id = t)
<1> USE DEF memory, database, requests, node
<1>1. ASSUME NEW c \in Conn, Connect(c) \/ register_machine(c) \/ EndHandler(c) \/ unregister_machine(c)
      PROVE  sessions' = sessions
  BY <1>1 DEF Connect, register_machine, EndHandler, unregister_machine
<1>2. ASSUME NEW c \in Conn, ControlTask(c) PROVE sessions' = sessions
  BY <1>2 DEF ControlTask, TerminalCreated, TerminalInserted, TerminalDestroyed, DestroyRow,
              TerminalDied, PruneTab, ExistingTerminals, Reconcile
<1>3. ASSUME NEW u \in Terminal, Http(u) \/ SessionEnds(u) \/ WatcherReports(u) PROVE sessions' = sessions
  BY <1>3 DEF Http, CreateTerminal, CreateFails, OpenTab, ChooseTab, StoreTab, SaveTab,
              DestroyTerminal, SessionEnds, WatcherReports
<1>4. ASSUME NEW g \in Tab, DeleteTab(g) \/ clear_workspace_group_assignments(g) PROVE sessions' = sessions
  BY <1>4 DEF DeleteTab, clear_workspace_group_assignments
<1>5. CASE NodeCreates \/ NodeDestroys \/ Leave \/ RestartNode \/ RestartHub \/ UNCHANGED vars
  BY <1>5 DEF NodeCreates, NodeDestroys, Leave, RestartNode, RestartHub, vars, TypeOK
<1> QED BY <1>1, <1>2, <1>3, <1>4, <1>5 DEF Next

(* Only these steps change who is connected. *)
LEMMA ConnectionStep ==
    ASSUME TypeOK, [Next]_vars
    PROVE  \/ \E c \in Conn : Connect(c) \/ register_machine(c) \/ EndHandler(c) \/ unregister_machine(c)
           \/ RestartHub
           \/ /\ UNCHANGED <<handler, current>> /\ link' \in {link, NoConn}
              /\ \A c \in Conn : ~Connect(c)
<1> USE DEF memory, database, requests, node
<1> DEFINE Goal == UNCHANGED <<handler, current>> /\ link' \in {link, NoConn}
<1>1. ASSUME NEW c \in Conn, ControlTask(c) PROVE Goal
  BY <1>1 DEF ControlTask, TerminalCreated, TerminalInserted, TerminalDestroyed, DestroyRow,
              TerminalDied, PruneTab, ExistingTerminals, Reconcile
<1>2. ASSUME NEW u \in Terminal, Http(u) \/ SessionEnds(u) \/ WatcherReports(u) PROVE Goal
  BY <1>2 DEF Http, CreateTerminal, CreateFails, OpenTab, ChooseTab, StoreTab, SaveTab,
              DestroyTerminal, SessionEnds, WatcherReports
<1>3. ASSUME NEW g \in Tab, DeleteTab(g) \/ clear_workspace_group_assignments(g) PROVE Goal
  BY <1>3 DEF DeleteTab, clear_workspace_group_assignments
<1>4. CASE NodeCreates \/ NodeDestroys \/ Leave \/ RestartNode \/ UNCHANGED vars
  <2>1. Goal
    BY <1>4 DEF NodeCreates, NodeDestroys, Leave, RestartNode, vars
  <2> QED BY <2>1
<1> QED BY <1>1, <1>2, <1>3, <1>4 DEF Next

LEMMA DeathsKept ==
    ASSUME TypeOK, RegistryAssumption, Births, Deaths, [Next]_vars
    PROVE  Deaths'
<1> USE DEF memory, database, requests, node
<1> SUFFICES ASSUME NEW t \in Terminal, NEW c \in Conn, t \in sessions',
                    Says(c, "TerminalDestroyed", t)' \/ Does(c, "destroy", t)'
             PROVE  FALSE
  BY DEF Deaths
<1>1. CASE NodeDestroys /\ Head(orders[link]).id = t
  BY <1>1 DEF NodeDestroys
<1>2. CASE ~(NodeDestroys /\ Head(orders[link]).id = t)
  <2>1. Says(c, "TerminalDestroyed", t)' => Says(c, "TerminalDestroyed", t)
    <3>1. SUFFICES ASSUME NEW m \in Elems(inbox'[c]), m.type = "TerminalDestroyed", m.id = t
                   PROVE  m \in Elems(inbox[c])
      BY DEF Says
    <3>2. ~Sends(m)
      BY <1>2, <3>1 DEF Sends
    <3> QED BY <3>1, <3>2, MessagesStep
  <2>2. Does(c, "destroy", t)' => Does(c, "destroy", t) \/ Says(c, "TerminalDestroyed", t)
    <3>1. ASSUME TerminalDestroyed(c)
          PROVE  Head(inbox[c]) \in Elems(inbox[c]) /\ Head(inbox[c]).type = "TerminalDestroyed"
      BY <3>1, Took DEF TerminalDestroyed
    <3> QED BY <3>1, WorkStep DEF Does, Says, Idle
  <2>3. Says(c, "TerminalDestroyed", t) \/ Does(c, "destroy", t)
    BY <2>1, <2>2
  <2>4. t \notin sessions
    BY <2>3 DEF Deaths
  <2>5. NodeCreates /\ Head(orders[link]).id = t
    BY <2>4, SessionsStep
  <2>6. Asks(link, "CreateTerminal", t) /\ link \in Conn
    <3>1. /\ link \in Conn /\ Elems(orders[link]) = Elems(orders'[link]) \cup {Head(orders[link])}
          /\ Head(orders[link]).type = "CreateTerminal"
      BY <2>5, Obeyed DEF NodeCreates
    <3> QED BY <2>5, <3>1 DEF Asks
  <2>7. ~Mentioned(t)
    BY <2>6 DEF Births, Unborn
  <2> QED BY <2>3, <2>7 DEF Mentioned
<1> QED BY <1>1, <1>2

-----------------------------------------------------------------------------
(* Connections, when handlers keep up with the node *)

Joining(c) == handler[c] = "joining"

(* The connection that tells the hub about the machine. *)
Live(c) == Joining(c) \/ (handler[c] = "up" /\ current = c /\ \A d \in Conn : ~Joining(d))

(* The node talks to the live connection or to none; a message is handled  *)
(* to the end before another connection registers.                         *)
Links ==
    /\ \A c, d \in Conn : Joining(c) /\ Joining(d) => c = d
    /\ \A c \in Conn : Live(c) => link \in {c, NoConn}
    /\ link # NoConn /\ handler[link] = "up" => current = link
    /\ \A c \in Conn : Joining(c) => Waiting(c)
    /\ \A c \in Conn : work[c] # Idle => current \in {c, NoConn} /\ \A d \in Conn : ~Joining(d)
    /\ \A c, d \in Conn : work[c] # Idle /\ work[d] # Idle => c = d
    /\ \A c \in Conn : work[c].type = "reconcile" =>
          /\ handler[c] = "up" /\ current = c
          /\ \A m \in Elems(inbox[c]) : m.type # "ExistingTerminals"

(* The report comes first; a creation is announced once and before an end. *)
ReportFirst(s) == \A i \in 1..Len(s) : i # 1 => s[i].type # "ExistingTerminals"
Ends == {"TerminalDied", "TerminalDestroyed"}
BornFirst(s, t) ==
    \A i, j \in 1..Len(s) :
        s[i].type = "TerminalCreated" /\ s[i].id = t /\ s[j].type \in Ends /\ s[j].id = t => i < j
WellSent ==
    \A c \in Conn :
        /\ ReportFirst(inbox[c])
        /\ \A t \in Terminal : Once(inbox[c], "TerminalCreated", t) /\ BornFirst(inbox[c], t)

LEMMA WellSentKept ==
    ASSUME TypeOK, RegistryAssumption, Births, WellSent, [Next]_vars
    PROVE  WellSent'
<1> USE DEF memory, database, requests, node
<1> SUFFICES ASSUME NEW c \in Conn
             PROVE  /\ ReportFirst(inbox'[c])
                    /\ \A t \in Terminal : Once(inbox'[c], "TerminalCreated", t) /\ BornFirst(inbox'[c], t)
  BY DEF WellSent, ReportFirst, Once, BornFirst
<1>0. /\ inbox[c] \in Seq(Message) /\ ReportFirst(inbox[c])
      /\ \A t \in Terminal : Once(inbox[c], "TerminalCreated", t) /\ BornFirst(inbox[c], t)
  BY DEF TypeOK, WellSent
<1>1. CASE inbox'[c] \in {inbox[c], <<>>}
  BY <1>0, <1>1, NoElems DEF ReportFirst, Once, BornFirst
<1>2. CASE MayHandle(c) /\ inbox'[c] = Tail(inbox[c])
  <2>1. /\ inbox[c] # <<>> /\ Len(Tail(inbox[c])) = Len(inbox[c]) - 1 /\ Len(inbox[c]) \in Nat
        /\ \A i \in 1..Len(Tail(inbox[c])) : Tail(inbox[c])[i] = inbox[c][i + 1]
    BY <1>0, <1>2, TailElems DEF MayHandle
  <2>2. \A i \in 1..Len(Tail(inbox[c])) : i + 1 \in 1..Len(inbox[c]) /\ i + 1 # 1
    BY <2>1
  <2>3. ReportFirst(Tail(inbox[c]))
    BY <1>0, <2>1, <2>2 DEF ReportFirst
  <2>4. ASSUME NEW t \in Terminal PROVE BornFirst(Tail(inbox[c]), t)
    <3>1. \A i, j \in 1..Len(Tail(inbox[c])) : i + 1 < j + 1 => i < j
      BY <2>1
    <3>2. BornFirst(inbox[c], t)
      BY <1>0
    <3> DEFINE q == Tail(inbox[c])
    <3>3. ASSUME NEW i \in 1..Len(q), NEW j \in 1..Len(q),
                 q[i].type = "TerminalCreated", q[i].id = t, q[j].type \in Ends, q[j].id = t
          PROVE  i < j
      <4>1. /\ i + 1 \in 1..Len(inbox[c]) /\ q[i] = inbox[c][i + 1]
            /\ j + 1 \in 1..Len(inbox[c]) /\ q[j] = inbox[c][j + 1]
        BY <2>1, <2>2
      <4>2. i + 1 < j + 1
        BY <3>2, <3>3, <4>1 DEF BornFirst
      <4> QED BY <3>1, <4>2
    <3> QED BY <3>3 DEF BornFirst
  <2> QED BY <1>0, <1>2, <2>1, <2>3, <2>4, OnceTail
<1>3. CASE c = link /\ \E m \in Message : Sends(m) /\ inbox'[c] = Append(inbox[c], m)
  <2>1. PICK m \in Message : Sends(m) /\ inbox'[c] = Append(inbox[c], m)
    BY <1>3
  <2>2. m.type # "ExistingTerminals"
    BY <2>1 DEF Sends
  <2>3. ReportFirst(Append(inbox[c], m))
    <3> DEFINE a == Append(inbox[c], m)
    <3>1. /\ Len(a) = Len(inbox[c]) + 1 /\ Len(inbox[c]) \in Nat
          /\ \A i \in 1..Len(inbox[c]) : a[i] = inbox[c][i]
          /\ a[Len(inbox[c]) + 1] = m
      BY <1>0, AppendElems
    <3> HIDE DEF a
    <3>2. \A i \in 1..Len(a) : i \in 1..Len(inbox[c]) \/ i = Len(inbox[c]) + 1
      BY <3>1
    <3>3. ReportFirst(a)
      BY <1>0, <2>2, <3>1, <3>2 DEF ReportFirst
    <3> QED BY <3>3 DEF a
  <2>4. ASSUME NEW t \in Terminal
        PROVE  Once(Append(inbox[c], m), "TerminalCreated", t) /\ BornFirst(Append(inbox[c], m), t)
    <3>1. m.type = "TerminalCreated" /\ m.id = t
             => \A e \in Elems(inbox[c]) : ~(e.type \in {"TerminalCreated"} \cup Ends /\ e.id = t)
      <4>1. SUFFICES ASSUME m.type = "TerminalCreated", m.id = t
                     PROVE  \A type \in {"TerminalCreated"} \cup Ends : ~Says(c, type, t)
        BY DEF Says
      <4>2. NodeCreates /\ Head(orders[link]).id = t
        BY <2>1, <4>1 DEF Sends
      <4>3. /\ link \in Conn /\ Elems(orders[link]) = Elems(orders'[link]) \cup {Head(orders[link])}
            /\ Head(orders[link]).type = "CreateTerminal"
        BY <4>2, Obeyed DEF NodeCreates
      <4>4. Asks(link, "CreateTerminal", t)
        BY <4>2, <4>3 DEF Asks
      <4>5. ~Mentioned(t)
        BY <4>3, <4>4 DEF Births, Unborn
      <4> QED BY <4>5 DEF Mentioned, Ends
    <3>2. Once(Append(inbox[c], m), "TerminalCreated", t)
      BY <1>0, <3>1, OnceAppend
    <3>3. BornFirst(Append(inbox[c], m), t)
      <4> DEFINE a == Append(inbox[c], m)
      <4>1. /\ Len(a) = Len(inbox[c]) + 1 /\ Len(inbox[c]) \in Nat
            /\ \A i \in 1..Len(inbox[c]) : a[i] = inbox[c][i] /\ i < Len(inbox[c]) + 1
            /\ a[Len(inbox[c]) + 1] = m
        BY <1>0, AppendElems
      <4> HIDE DEF a
      <4>2. \A i \in 1..Len(a) : i \in 1..Len(inbox[c]) \/ i = Len(inbox[c]) + 1
        BY <4>1
      <4>3. \A i \in 1..Len(inbox[c]) : inbox[c][i] \in Elems(inbox[c])
        BY DEF Elems
      <4>4. SUFFICES ASSUME NEW i \in 1..Len(a), NEW j \in 1..Len(a), a[i].type = "TerminalCreated",
                            a[i].id = t, a[j].type \in Ends, a[j].id = t
                     PROVE  i < j
        BY DEF BornFirst, a
      <4>5. CASE i \in 1..Len(inbox[c]) /\ j \in 1..Len(inbox[c])
        BY <1>0, <4>1, <4>4, <4>5 DEF BornFirst
      <4>6. CASE i \in 1..Len(inbox[c]) /\ j = Len(inbox[c]) + 1
        BY <4>1, <4>6
      <4>7. CASE i = Len(inbox[c]) + 1 /\ j \in 1..Len(inbox[c])
        BY <3>1, <4>1, <4>3, <4>4, <4>7
      <4>8. CASE i = Len(inbox[c]) + 1 /\ j = Len(inbox[c]) + 1
        BY <4>1, <4>4, <4>8 DEF Ends
      <4> QED BY <4>2, <4>5, <4>6, <4>7, <4>8
    <3> QED BY <3>2, <3>3
  <2> QED BY <2>1, <2>3, <2>4
<1>4. CASE inbox'[c] = <<[type |-> "ExistingTerminals", ids |-> sessions]>>
  <2> DEFINE r == [type |-> "ExistingTerminals", ids |-> sessions]
  <2>1. Len(<<r>>) = 1 /\ <<r>>[1] = r /\ r.type = "ExistingTerminals"
    OBVIOUS
  <2> HIDE DEF r
  <2>2. /\ ReportFirst(<<r>>)
        /\ \A t \in Terminal : Once(<<r>>, "TerminalCreated", t) /\ BornFirst(<<r>>, t)
    BY <2>1 DEF ReportFirst, Once, BornFirst
  <2> QED BY <1>4, <2>2 DEF r
<1> QED BY <1>1, <1>2, <1>3, <1>4, InboxStep

LEMMA LinksKept ==
    ASSUME TypeOK, RegistryAssumption, Lag = "none", WellSent, Links, [Next]_vars
    PROVE  Links'
<1> USE DEF memory, database, requests, node
<1>0. /\ handler \in [Conn -> {"idle", "joining", "up", "ended", "gone"}] /\ current \in Conn \cup {NoConn}
      /\ work \in [Conn -> Work] /\ NoConn \notin Conn /\ Idle.type = "idle"
  BY DEF TypeOK, RegistryAssumption, Idle
(* A message is taken by the registered connection, when none is joining. *)
<1>1. ASSUME NEW c \in Conn, work'[c] # Idle, work[c] = Idle
      PROVE  handler[c] = "up" /\ current = c /\ \A d \in Conn : ~Joining(d)
  <2>1. MayHandle(c)
    BY <1>0, <1>1, WorkStep
       DEF TerminalCreated, TerminalDestroyed, TerminalDied, ExistingTerminals, Take
  <2> QED BY <2>1 DEF MayHandle, InTime, Joining
<1>2. ASSUME NEW c \in Conn, work'[c] # Idle
      PROVE  current \in {c, NoConn} /\ \A d \in Conn : ~Joining(d)
  BY <1>1, <1>2 DEF Links
<1>3. ASSUME NEW c \in Conn, work'[c].type = "reconcile"
      PROVE  /\ handler[c] = "up" /\ current = c
             /\ \A m \in Elems(inbox'[c]) : m.type # "ExistingTerminals"
  <2>1. handler[c] = "up" /\ current = c /\ \A d \in Conn : ~Joining(d)
    <3>1. CASE work[c].type = "reconcile"
      BY <1>0, <3>1 DEF Links
    <3>2. CASE work[c].type # "reconcile"
      <4>1. ExistingTerminals(c)
        BY <1>0, <1>3, <3>2, WorkStep
      <4>2. work[c] = Idle
        BY <4>1 DEF ExistingTerminals, Take, MayHandle
      <4> QED BY <1>0, <1>1, <1>3, <4>2
    <3> QED BY <3>1, <3>2
  <2>2. ~Connect(c)
    BY <2>1 DEF Connect
  <2>3. SUFFICES ASSUME NEW m \in Elems(inbox'[c]), m.type = "ExistingTerminals" PROVE FALSE
    BY <2>1
  <2>4. ~Sends(m)
    BY <2>3 DEF Sends
  <2>5. m \in Elems(inbox[c])
    BY <2>2, <2>3, <2>4, MessagesStep
  <2>6. CASE work[c].type = "reconcile"
    BY <2>3, <2>5, <2>6 DEF Links
  <2>7. CASE work[c].type # "reconcile"
    <3>1. ExistingTerminals(c)
      BY <1>0, <1>3, <2>7, WorkStep
    <3>2. inbox[c] \in Seq(Message) /\ inbox[c] # <<>> /\ inbox'[c] = Tail(inbox[c])
      BY <3>1, Took DEF ExistingTerminals
    <3>3. PICK i \in 1..Len(Tail(inbox[c])) : m = Tail(inbox[c])[i]
      BY <2>3, <3>2 DEF Elems
    <3>4. m = inbox[c][i + 1] /\ i + 1 \in 1..Len(inbox[c]) /\ i + 1 # 1
      BY <3>2, <3>3, TailElems
    <3> QED BY <2>3, <3>4 DEF WellSent, ReportFirst
  <2> QED BY <2>6, <2>7
<1>9. ASSUME NEW c \in Conn, NEW d \in Conn, work'[c] # Idle, work'[d] # Idle PROVE c = d
  BY <1>0, <1>1, <1>9 DEF Links
(* A connection that joins has its report still to be handled. *)
<1>10. ASSUME NEW c \in Conn, Joining(c), Joining(c)' PROVE Waiting(c)'
  <2>1. PICK m \in Elems(inbox[c]) : m.type = "ExistingTerminals"
    BY <1>10 DEF Links, Waiting, Idle
  <2>2. ~MayHandle(c) /\ ~EndHandler(c)
    BY <1>10 DEF Joining, MayHandle, EndHandler
  <2>3. ~RestartHub
    BY <1>10 DEF RestartHub, Joining
  <2>4. inbox[c] \in Seq(Message)
    BY DEF TypeOK
  <2>5. CASE \E n \in Message : inbox'[c] = Append(inbox[c], n)
    <3>1. PICK n \in Message : inbox'[c] = Append(inbox[c], n)
      BY <2>5
    <3>2. m \in Elems(inbox'[c])
      BY <2>1, <2>4, <3>1, AppendElems
    <3> QED BY <2>1, <3>2 DEF Waiting
  <2>6. CASE inbox'[c] = inbox[c]
    BY <2>1, <2>6 DEF Waiting
  <2>7. ~Connect(c)
    BY <1>10 DEF Connect, Joining
  <2> QED BY <2>2, <2>3, <2>5, <2>6, <2>7, InboxStep
<1>4. ASSUME NEW c \in Conn, Connect(c) PROVE Links'
  <2>0. Waiting(c)'
    <3> DEFINE r == [type |-> "ExistingTerminals", ids |-> sessions]
    <3>1. inbox'[c] = <<r>> /\ Elems(<<r>>) = {r}
      BY <1>4, OneElem DEF Connect, TypeOK
    <3> QED BY <3>1 DEF Waiting
  <2>1. /\ \A d \in Conn : handler[d] # "joining" /\ work[d] = Idle
        /\ handler' = [handler EXCEPT ![c] = "joining"] /\ link' = c
        /\ work' = work /\ current' = current
    BY <1>4 DEF Connect, Prompt
  <2>2. \A d \in Conn : (Joining(d)' <=> d = c) /\ (Live(d)' => d = c)
    BY <1>0, <2>1 DEF Joining, Live
  <2> QED BY <1>0, <2>0, <2>1, <2>2 DEF Links
<1>5. ASSUME NEW c \in Conn, register_machine(c) PROVE Links'
  <2>1. /\ handler[c] = "joining" /\ handler' = [handler EXCEPT ![c] = "up"] /\ current' = c
        /\ work' = work /\ link' = link
    BY <1>5 DEF register_machine
  <2>2. Live(c) /\ \A d \in Conn : work[d] = Idle
    BY <2>1 DEF Live, Joining, Links
  <2>3. \A d \in Conn : ~Joining(d)' /\ (Live(d)' => d = c)
    BY <1>0, <2>1 DEF Live, Joining, Links
  <2> QED BY <1>0, <2>1, <2>2, <2>3 DEF Links
<1>6. ASSUME NEW c \in Conn, EndHandler(c) \/ unregister_machine(c) PROVE Links'
  <2>1. /\ current' \in {current, NoConn} /\ link' = link
        /\ \A d \in Conn : handler'[d] = handler[d] \/ handler'[d] \in {"ended", "gone"}
        /\ \A d \in Conn : (Joining(d)' <=> Joining(d))
    BY <1>0, <1>6 DEF EndHandler, unregister_machine, Joining
  <2>2. \A d \in Conn : Live(d)' => Live(d)
    BY <1>0, <2>1 DEF Live, Joining
  <2>3. ASSUME NEW d \in Conn, work'[d].type = "reconcile" PROVE handler'[d] = "up" /\ current' = d
    <3>1. handler[d] = "up" /\ current = d
      BY <1>3, <2>3
    <3>2. ~EndHandler(d)
      BY <1>0, <2>3 DEF EndHandler
    <3>3. ~unregister_machine(d)
      BY <3>1 DEF unregister_machine
    <3> QED BY <1>0, <1>6, <3>1, <3>2, <3>3 DEF EndHandler, unregister_machine
  <2>4. link' # NoConn /\ handler'[link'] = "up" => current' = link'
    <3>1. ASSUME link \in Conn, handler'[link] = "up" PROVE current' = link
      <4>1. handler[link] = "up" /\ current = link
        BY <2>1, <3>1, <1>0 DEF Links
      <4>2. ~unregister_machine(link)
        BY <4>1 DEF unregister_machine
      <4> QED BY <1>6, <4>1, <4>2 DEF EndHandler, unregister_machine
    <3> QED BY <2>1, <3>1 DEF TypeOK
  <2> QED BY <1>2, <1>3, <1>9, <1>10, <2>1, <2>2, <2>3, <2>4 DEF Links
<1>7. CASE RestartHub
  <2>1. \A c \in Conn : handler'[c] \in {"idle", "gone"} /\ work'[c] = Idle
    BY <1>7 DEF RestartHub
  <2>2. current' = NoConn
    BY <1>7 DEF RestartHub
  <2>3. link' = NoConn \/ link' \in Conn
    BY <1>7 DEF RestartHub, TypeOK
  <2> QED BY <1>0, <2>1, <2>2, <2>3 DEF Links, Live, Joining
<1>8. CASE UNCHANGED <<handler, current>> /\ link' \in {link, NoConn}
  <2>1. \A d \in Conn : (Joining(d)' <=> Joining(d)) /\ (Live(d)' <=> Live(d))
    BY <1>8 DEF Joining, Live
  <2> QED BY <1>2, <1>3, <1>8, <1>9, <1>10, <2>1 DEF Links
<1> QED BY <1>4, <1>5, <1>6, <1>7, <1>8, ConnectionStep

(* The hub learns of a terminal from its creation or from a report. *)
LEMMA NotedStep ==
    ASSUME TypeOK, RegistryAssumption, [Next]_vars, NEW t \in Terminal, ~Noted(t), Noted(t)'
    PROVE  \E c \in Conn : \/ TerminalCreated(c) /\ Head(inbox[c]).id = t
                           \/ Reconcile(c) /\ t \in work[c].ids
<1> USE DEF memory, database, requests, node
<1> SUFFICES ASSUME \A c \in Conn : /\ ~(TerminalCreated(c) /\ Head(inbox[c]).id = t)
                                    /\ ~(Reconcile(c) /\ t \in work[c].ids)
             PROVE  ~Noted(t)'
  OBVIOUS
<1>0. /\ work \in [Conn -> Work] /\ terminals \in [Terminal -> Places] /\ persisted \in [Terminal -> Places]
      /\ row \in [Terminal -> {"none", "active", "destroyed"}] /\ request \in [Terminal -> Request]
      /\ NoRequest.at = "none" /\ Idle.type = "idle"
      /\ terminals[t] = Absent /\ persisted[t] = Absent /\ row[t] # "active" /\ request[t].at # "stored"
      /\ \A c \in Conn : ~Does(c, "insert", t) /\ ~Old(c, t)
  BY DEF TypeOK, NoRequest, Idle, Noted, Kept
<1>1. \A c \in Conn : ~Does(c, "insert", t)' /\ ~Old(c, t)'
  BY <1>0, WorkStep DEF Does, Old
<1>2. ASSUME terminals'[t] = Absent, persisted'[t] = Absent, row'[t] # "active", request'[t].at # "stored"
      PROVE  ~Noted(t)'
  BY <1>1, <1>2 DEF Noted, Kept
<1>3. ASSUME NEW c \in Conn, Connect(c) \/ register_machine(c) \/ EndHandler(c) \/ unregister_machine(c)
      PROVE  ~Noted(t)'
  BY <1>0, <1>2, <1>3 DEF Connect, register_machine, EndHandler, unregister_machine, Stashed, Nobody
<1>4. ASSUME NEW c \in Conn, ControlTask(c) PROVE ~Noted(t)'
  <2>1. CASE TerminalCreated(c)
    BY <1>0, <1>2, <2>1 DEF TerminalCreated
  <2>2. CASE TerminalInserted(c)
    <3>1. work[c].id # t
      BY <1>0, <2>2 DEF TerminalInserted, Does
    <3> QED BY <1>0, <1>2, <2>2, <3>1 DEF TerminalInserted
  <2>3. CASE TerminalDestroyed(c)
    BY <1>0, <1>2, <2>3 DEF TerminalDestroyed
  <2>4. CASE DestroyRow(c)
    BY <1>0, <1>2, <2>4 DEF DestroyRow, mark_destroyed
  <2>5. CASE TerminalDied(c)
    BY <1>0, <1>2, <2>5 DEF TerminalDied, mark_destroyed
  <2>6. CASE PruneTab(c)
    BY <1>0, <1>2, <2>6 DEF PruneTab
  <2>7. CASE ExistingTerminals(c)
    BY <1>0, <1>2, <2>7 DEF ExistingTerminals, Nobody
  <2>8. CASE Reconcile(c)
    <3>1. t \notin work[c].ids
      BY <2>8
    <3> QED BY <1>0, <1>2, <2>8, <3>1 DEF Reconcile, ReconciledRows, mark_destroyed
  <2> QED BY <1>4, <2>1, <2>2, <2>3, <2>4, <2>5, <2>6, <2>7, <2>8 DEF ControlTask
<1>5. ASSUME NEW u \in Terminal, Http(u) PROVE ~Noted(t)'
  <2>1. CASE StoreTab(u)
    <3>1. CASE u = t
      BY <1>0, <1>2, <2>1, <3>1 DEF StoreTab
    <3>2. CASE u # t
      <4>1. request'[t] = request[t] /\ terminals'[t] = terminals[t] /\ persisted'[t] = persisted[t]
        BY <1>0, <2>1, <3>2 DEF StoreTab
      <4> QED BY <1>0, <1>2, <2>1, <4>1 DEF StoreTab
    <3> QED BY <3>1, <3>2
  <2>2. CASE SaveTab(u)
    <3>1. u # t
      BY <1>0, <2>2 DEF SaveTab
    <3>2. row'[t] = row[t] /\ request'[t] = request[t]
      BY <1>0, <2>2, <3>1 DEF SaveTab
    <3> QED BY <1>0, <1>2, <2>2, <3>2 DEF SaveTab
  <2>3. CASE CreateFails(u) \/ DestroyTerminal(u)
    BY <1>0, <1>2, <2>3 DEF CreateFails, DestroyTerminal
  <2>4. ASSUME NEW g \in Tab, OpenTab(u, g) PROVE ~Noted(t)'
    BY <1>0, <1>2, <2>4 DEF OpenTab
  <2>5. ASSUME NEW g \in Tab \cup {NoTab}, CreateTerminal(u, g) \/ ChooseTab(u, g) PROVE ~Noted(t)'
    BY <1>0, <1>2, <2>5 DEF CreateTerminal, ChooseTab
  <2> QED BY <1>5, <2>1, <2>2, <2>3, <2>4, <2>5 DEF Http
<1>6. ASSUME NEW u \in Terminal, SessionEnds(u) \/ WatcherReports(u) PROVE ~Noted(t)'
  BY <1>0, <1>2, <1>6 DEF SessionEnds, WatcherReports
<1>7. ASSUME NEW g \in Tab, DeleteTab(g) \/ clear_workspace_group_assignments(g) PROVE ~Noted(t)'
  BY <1>0, <1>2, <1>7 DEF DeleteTab, clear_workspace_group_assignments, Cleared, RegistryAssumption
<1>8. CASE NodeCreates \/ NodeDestroys \/ Leave \/ RestartNode \/ UNCHANGED vars
  BY <1>0, <1>2, <1>8 DEF NodeCreates, NodeDestroys, Leave, RestartNode, vars
<1>9. CASE RestartHub
  BY <1>0, <1>2, <1>9 DEF RestartHub, Nobody
<1>10. CASE \E c \in Conn : \/ Connect(c) \/ register_machine(c) \/ EndHandler(c)
                            \/ unregister_machine(c) \/ ControlTask(c)
  BY <1>3, <1>4, <1>10
<1> QED BY <1>5, <1>6, <1>7, <1>8, <1>9, <1>10 DEF Next

(* Only a terminal that the hub has noted is put into a tab. *)
(* A row that is not active gets no tab until a request assigns one. *)
LEMMA RowTabFree ==
    ASSUME TypeOK, RegistryAssumption, [Next]_vars, NEW t \in Terminal, row[t] # "active", rowTab[t] = NoTab
    PROVE  rowTab'[t] = NoTab \/ SaveTab(t)
<1> USE DEF memory, database, requests, node
<1>0. rowTab \in [Terminal -> Tab \cup {NoTab}]
  BY DEF TypeOK
<1>1. ASSUME NEW c \in Conn, Connect(c) \/ register_machine(c) \/ EndHandler(c) \/ unregister_machine(c)
      PROVE  rowTab'[t] = NoTab
  BY <1>1 DEF Connect, register_machine, EndHandler, unregister_machine
<1>2. ASSUME NEW c \in Conn, ControlTask(c) PROVE rowTab'[t] = NoTab
  BY <1>2 DEF ControlTask, TerminalCreated, TerminalInserted, TerminalDestroyed, DestroyRow,
              TerminalDied, PruneTab, ExistingTerminals, Reconcile, Prune
<1>3. ASSUME NEW u \in Terminal, Http(u) PROVE rowTab'[t] = NoTab \/ SaveTab(t)
  <2>1. CASE SaveTab(u) /\ u # t
    BY <1>0, <2>1 DEF SaveTab
  <2> QED BY <1>3, <2>1 DEF Http, CreateTerminal, CreateFails, OpenTab, ChooseTab, StoreTab, DestroyTerminal
<1>4. ASSUME NEW u \in Terminal, SessionEnds(u) \/ WatcherReports(u) PROVE rowTab'[t] = NoTab
  BY <1>4 DEF SessionEnds, WatcherReports
<1>5. ASSUME NEW g \in Tab, DeleteTab(g) \/ clear_workspace_group_assignments(g) PROVE rowTab'[t] = NoTab
  BY <1>5 DEF DeleteTab, clear_workspace_group_assignments
<1>6. CASE NodeCreates \/ NodeDestroys \/ Leave \/ RestartNode \/ UNCHANGED vars
  BY <1>6 DEF NodeCreates, NodeDestroys, Leave, RestartNode, vars
<1>7. CASE RestartHub
  <2>1. PICK opened \in [Ungrouped -> Tab \ usedTabs] :
          rowTab' = [u \in Terminal |->
                IF migrate_ungrouped_terminals_into_tabs(opened)[u] \in tabs'
                THEN migrate_ungrouped_terminals_into_tabs(opened)[u] ELSE NoTab]
    BY <1>7 DEF RestartHub
  <2> QED BY <1>0, <2>1 DEF migrate_ungrouped_terminals_into_tabs, Ungrouped
<1>8. CASE \E c \in Conn : \/ Connect(c) \/ register_machine(c) \/ EndHandler(c)
                            \/ unregister_machine(c) \/ ControlTask(c)
  BY <1>1, <1>2, <1>8
<1> QED BY <1>3, <1>4, <1>5, <1>6, <1>7, <1>8 DEF Next

LEMMA RowTabStep ==
    ASSUME TypeOK, RegistryAssumption, [Next]_vars, NEW t \in Terminal, ~Noted(t), rowTab[t] = NoTab
    PROVE  rowTab'[t] = NoTab
BY RowTabFree DEF Noted, SaveTab

(* Between a report and its handling: the live connection has a session    *)
(* in the report or announces its creation after it, and what is announced *)
(* is new to the hub.                                                      *)
Newborn ==
    \A c \in Conn : Live(c) =>
        \A t \in Terminal :
            /\ Says(c, "TerminalCreated", t) => ~Noted(t) /\ ~Reported(c, t) /\ rowTab[t] = NoTab
            /\ Waiting(c) /\ t \in sessions => Reported(c, t) \/ Says(c, "TerminalCreated", t)

LEMMA LiveStep ==
    ASSUME TypeOK, RegistryAssumption, Lag = "none", Links, [Next]_vars, NEW c \in Conn, Live(c)'
    PROVE  Connect(c) \/ (Live(c) /\ ~Connect(c) /\ ~EndHandler(c) /\ ~RestartHub)
<1> USE DEF memory, database, requests, node
<1>0. handler \in [Conn -> {"idle", "joining", "up", "ended", "gone"}] /\ NoConn \notin Conn
  BY DEF TypeOK, RegistryAssumption
<1>1. ~EndHandler(c)
  BY <1>0 DEF EndHandler, Live, Joining
<1>2. ~RestartHub
  BY <1>0 DEF RestartHub, Live, Joining
<1>3. ASSUME NEW d \in Conn, Connect(d) PROVE d = c
  <2>1. handler' = [handler EXCEPT ![d] = "joining"] /\ \A e \in Conn : handler[e] # "joining"
    BY <1>3 DEF Connect, Prompt
  <2> QED BY <1>0, <2>1 DEF Live, Joining
<1>4. ASSUME NEW d \in Conn, register_machine(d) PROVE Live(c)
  <2>1. handler[d] = "joining" /\ handler' = [handler EXCEPT ![d] = "up"] /\ current' = d
    BY <1>4 DEF register_machine
  <2> QED BY <1>0, <2>1 DEF Live, Joining, Links
<1>5. ASSUME NEW d \in Conn, EndHandler(d) \/ unregister_machine(d) PROVE Live(c)
  <2>1. /\ current' \in {current, NoConn}
        /\ \A e \in Conn : handler'[e] = handler[e] \/ handler'[e] \in {"ended", "gone"}
        /\ \A e \in Conn : (Joining(e)' <=> Joining(e))
    BY <1>0, <1>5 DEF EndHandler, unregister_machine, Joining
  <2> QED BY <1>0, <2>1 DEF Live, Joining
<1>6. ASSUME UNCHANGED <<handler, current>> PROVE Live(c)
  BY <1>6 DEF Live, Joining
<1> QED BY <1>1, <1>2, <1>3, <1>4, <1>5, <1>6, ConnectionStep

(* A live connection that takes a message is the one that takes it. *)
LEMMA LiveHandles ==
    ASSUME RegistryAssumption, Lag = "none", Links, NEW c \in Conn, Live(c), NEW d \in Conn,
           MayHandle(d) \/ work[d].type = "reconcile"
    PROVE  c = d
BY DEF MayHandle, InTime, Live, Joining, Links, Idle

(* While its report is to be handled, a connection handles nothing else. *)
LEMMA ReportHead ==
    ASSUME TypeOK, WellSent, NEW c \in Conn, Waiting(c), work[c] = Idle
    PROVE  /\ inbox[c] # <<>> /\ Head(inbox[c]).type = "ExistingTerminals"
           /\ \A m \in Elems(inbox[c]) : m.type = "ExistingTerminals" => m = Head(inbox[c])
<1>1. PICK i \in 1..Len(inbox[c]) : inbox[c][i].type = "ExistingTerminals"
  BY DEF Waiting, Elems, Idle
<1>2. inbox[c] \in Seq(Message)
  BY DEF TypeOK
<1>3. inbox[c] # <<>>
  BY <1>1, <1>2
<1>4. Head(inbox[c]) = inbox[c][1]
  BY <1>2, <1>3
<1>5. i = 1
  BY <1>1 DEF WellSent, ReportFirst
<1>6. \A m \in Elems(inbox[c]) : m.type = "ExistingTerminals" => m = inbox[c][1]
  BY DEF WellSent, ReportFirst, Elems
<1> QED BY <1>1, <1>3, <1>4, <1>5, <1>6

LEMMA CreatesUnborn ==
    ASSUME TypeOK, RegistryAssumption, Births, NodeCreates
    PROVE  link \in Conn /\ Head(orders[link]).id \in Terminal /\ Unborn(Head(orders[link]).id)
<1>1. /\ link \in Conn /\ Elems(orders[link]) = Elems(orders'[link]) \cup {Head(orders[link])}
      /\ Head(orders[link]).type = "CreateTerminal" /\ Head(orders[link]).id \in Terminal
  BY Obeyed DEF NodeCreates
<1>2. Asks(link, "CreateTerminal", Head(orders[link]).id)
  BY <1>1 DEF Asks
<1> QED BY <1>1, <1>2 DEF Births

LEMMA ReportedStep ==
    ASSUME TypeOK, RegistryAssumption, [Next]_vars, NEW c \in Conn, ~Connect(c)
    PROVE  /\ \A t \in Terminal : Reported(c, t)' => Reported(c, t)
           /\ Waiting(c)' => Waiting(c)
<1>1. \A m \in Elems(inbox'[c]) : m.type = "ExistingTerminals" => m \in Elems(inbox[c])
  BY MessagesStep DEF Sends
<1>2. ExistingTerminals(c) => /\ Head(inbox[c]) \in Elems(inbox[c])
                              /\ Head(inbox[c]).type = "ExistingTerminals"
  BY Took DEF ExistingTerminals
<1>3. work'[c].type = "reconcile" =>
        \/ work[c].type = "reconcile" /\ work'[c].ids = work[c].ids
        \/ ExistingTerminals(c) /\ work'[c].ids = Head(inbox[c]).ids
  BY WorkStep DEF Idle
<1> QED BY <1>1, <1>2, <1>3 DEF Reported, Waiting

LEMMA NewbornKept ==
    ASSUME TypeOK, RegistryAssumption, Lag = "none", Births, WellSent, Links, Newborn, [Next]_vars,
           TypeOK', Links', WellSent'
    PROVE  Newborn'
<1> USE DEF memory, database, requests, node
<1> SUFFICES ASSUME NEW c \in Conn, Live(c)', NEW t \in Terminal
             PROVE  /\ Says(c, "TerminalCreated", t)' => ~Noted(t)' /\ ~Reported(c, t)' /\ rowTab'[t] = NoTab
                    /\ Waiting(c)' /\ t \in sessions' => Reported(c, t)' \/ Says(c, "TerminalCreated", t)'
  BY DEF Newborn
<1>1. CASE Connect(c)
  <2> DEFINE r == [type |-> "ExistingTerminals", ids |-> sessions]
  <2>1. inbox'[c] = <<r>> /\ Elems(<<r>>) = {r} /\ sessions' = sessions
    BY <1>1, OneElem DEF Connect, TypeOK
  <2>2. ~Says(c, "TerminalCreated", t)'
    BY <2>1 DEF Says
  <2>3. t \in sessions' => Reported(c, t)'
    BY <2>1 DEF Reported
  <2> QED BY <2>2, <2>3
<1>2. CASE Live(c) /\ ~Connect(c) /\ ~EndHandler(c) /\ ~RestartHub
  <2>0. /\ Says(c, "TerminalCreated", t) => ~Noted(t) /\ ~Reported(c, t) /\ rowTab[t] = NoTab
        /\ Waiting(c) /\ t \in sessions => Reported(c, t) \/ Says(c, "TerminalCreated", t)
    BY <1>2 DEF Newborn
  <2>1. ASSUME Says(c, "TerminalCreated", t)'
        PROVE  ~Noted(t)' /\ ~Reported(c, t)' /\ rowTab'[t] = NoTab
    <3>1. CASE NodeCreates /\ Head(orders[link]).id = t
      <4>1. ~Noted(t) /\ ~Reported(c, t) /\ rowTab[t] = NoTab
        BY <3>1, CreatesUnborn DEF Unborn, Mentioned
      <4>2. ~Noted(t)' /\ rowTab'[t] = NoTab
        BY <3>1, <4>1 DEF NodeCreates, Noted, Kept, Old, Does
      <4> QED BY <1>2, <4>1, <4>2, ReportedStep
    <3>2. CASE ~(NodeCreates /\ Head(orders[link]).id = t)
      <4>1. Says(c, "TerminalCreated", t)
        BY <1>2, <2>1, <3>2, MessagesStep DEF Says, Sends
      <4>2. ~Reported(c, t)' /\ rowTab'[t] = NoTab
        BY <1>2, <2>0, <4>1, ReportedStep, RowTabStep
      <4>3. ASSUME NEW d \in Conn, TerminalCreated(d), Head(inbox[d]).id = t PROVE FALSE
        <5>1. c = d
          BY <1>2, <4>3, LiveHandles DEF TerminalCreated, Take
        <5>2. /\ inbox[c] \in Seq(Message) /\ inbox[c] # <<>> /\ inbox'[c] = Tail(inbox[c])
              /\ Head(inbox[c]).type = "TerminalCreated"
          BY <4>3, <5>1, Took DEF TerminalCreated
        <5>3. Once(inbox[c], "TerminalCreated", t)
          BY DEF WellSent
        <5> QED BY <2>1, <4>3, <5>1, <5>2, <5>3, OnceTail DEF Says
      <4>4. ASSUME NEW d \in Conn, Reconcile(d), t \in work[d].ids PROVE FALSE
        <5>1. c = d
          BY <1>2, <4>4, LiveHandles DEF Reconcile
        <5> QED BY <2>0, <4>1, <4>4, <5>1 DEF Reconcile, Reported
      <4> QED BY <2>0, <4>1, <4>2, <4>3, <4>4, NotedStep
    <3> QED BY <3>1, <3>2
  <2>2. ASSUME Waiting(c)', t \in sessions'
        PROVE  Reported(c, t)' \/ Says(c, "TerminalCreated", t)'
    <3>1. Waiting(c)
      BY <1>2, <2>2, ReportedStep
    <3>2. CASE NodeCreates /\ Head(orders[link]).id = t
      <4>1. link = c /\ Hears
        BY <1>2, <3>2, CreatesUnborn DEF Links, Live, Joining, Hears, RegistryAssumption
      <4>2. [type |-> "TerminalCreated", id |-> t] \in Elems(inbox'[c])
        <5> DEFINE m == [type |-> "TerminalCreated", id |-> t]
        <5>1. m \in Message
          BY DEF Message
        <5>2. Tell(m)
          BY <3>2 DEF NodeCreates
        <5> HIDE DEF m
        <5>3. m \in Elems(inbox'[c])
          BY <4>1, <5>1, <5>2, Told
        <5> QED BY <5>3 DEF m
      <4> QED BY <4>2 DEF Says
    <3>3. CASE t \in sessions
      <4>1. Reported(c, t) \/ Says(c, "TerminalCreated", t)
        BY <2>0, <3>1, <3>3
      <4>2. CASE MayHandle(c) /\ inbox'[c] = Tail(inbox[c]) /\ ControlTask(c)
        <5>1. work[c] = Idle
          BY <4>2 DEF MayHandle
        <5>2. /\ inbox[c] # <<>> /\ Head(inbox[c]).type = "ExistingTerminals"
              /\ \A m \in Elems(inbox[c]) : m.type = "ExistingTerminals" => m = Head(inbox[c])
          BY <3>1, <5>1, ReportHead
        <5>3. ExistingTerminals(c)
          BY <4>2, <5>1, <5>2 DEF ControlTask, TerminalCreated, TerminalInserted, TerminalDestroyed,
             DestroyRow, TerminalDied, PruneTab, Reconcile, Take, Idle
        <5>4. work'[c].type = "reconcile" /\ work'[c].ids = Head(inbox[c]).ids
          <6>1. work' = [work EXCEPT ![c] = [type |-> "reconcile", ids |-> Head(inbox[c]).ids, old |-> persisted]]
            BY <5>3 DEF ExistingTerminals
          <6> QED BY <6>1 DEF TypeOK
        <5>5. Elems(inbox[c]) = Elems(inbox'[c]) \cup {Head(inbox[c])}
          BY <5>3, Took DEF ExistingTerminals
        <5>6. CASE Reported(c, t)
          BY <5>1, <5>2, <5>4, <5>6 DEF Reported, Idle
        <5>7. CASE Says(c, "TerminalCreated", t)
          BY <5>2, <5>5, <5>7 DEF Says
        <5> QED BY <4>1, <5>6, <5>7
      <4>3. CASE inbox'[c] = inbox[c] \/ \E m \in Message : inbox'[c] = Append(inbox[c], m)
        <5>1. Elems(inbox[c]) \subseteq Elems(inbox'[c])
          <6>1. inbox[c] \in Seq(Message)
            BY DEF TypeOK
          <6>2. ASSUME NEW m \in Message, inbox'[c] = Append(inbox[c], m)
                PROVE  Elems(inbox[c]) \subseteq Elems(inbox'[c])
            BY <6>1, <6>2, AppendElems
          <6> QED BY <4>3, <6>2
        <5>2. CASE work[c].type = "reconcile" /\ t \in work[c].ids
          <6>1. work'[c] = work[c] \/ work'[c] = Idle
            <7>1. ~MayHandle(c)
              BY <5>2 DEF MayHandle, Idle
            <7>2. /\ ~TerminalCreated(c) /\ ~TerminalDestroyed(c) /\ ~TerminalDied(c)
                  /\ ~ExistingTerminals(c)
              BY <7>1 DEF TerminalCreated, TerminalDestroyed, TerminalDied, ExistingTerminals, Take
            <7> QED BY <7>2, WorkStep
          <6>2. ASSUME work'[c] = Idle PROVE FALSE
            <7>1. PICK m \in Elems(inbox'[c]) : m.type = "ExistingTerminals"
              BY <2>2, <6>2 DEF Waiting, Idle
            <7>2. m \in Elems(inbox[c])
              BY <1>2, <7>1, MessagesStep DEF Sends
            <7> QED BY <5>2, <7>1, <7>2 DEF Links
          <6> QED BY <5>2, <6>1, <6>2 DEF Reported
        <5> QED BY <4>1, <5>1, <5>2 DEF Reported, Says
      <4> QED BY <1>2, <4>2, <4>3, InboxStep
    <3> QED BY <2>2, <3>2, <3>3, SessionsStep
  <2> QED BY <2>1, <2>2
<1> QED BY <1>1, <1>2, LiveStep

-----------------------------------------------------------------------------
(* Inductive when handlers keep up: what is asked, under way, announced and *)
(* reported agrees with the node's sessions.                                *)
RunningInv == TypeOK /\ Births /\ Deaths /\ WellSent /\ Links /\ Newborn

LEMMA RunningInit ==
    ASSUME RegistryAssumption, Init
    PROVE  RunningInv
<1>1. TypeOK
  BY RegistryTypesInit
<1>2. /\ \A c \in Conn : /\ inbox[c] = <<>> /\ orders[c] = <<>> /\ work[c] = Idle
                         /\ handler[c] = "idle"
      /\ current = NoConn /\ link = NoConn /\ sessions = {} /\ NoRequest.at = "none"
      /\ \A t \in Terminal : /\ terminals[t] = Absent /\ persisted[t] = Absent /\ row[t] = "none"
                             /\ request[t] = NoRequest /\ rowTab[t] = NoTab
  BY DEF Init, Nobody, NoRequest
<1>3. ASSUME NEW t \in Terminal PROVE Unborn(t)
  BY <1>2, NoElems DEF Unborn, Noted, Kept, Old, Does, Mentioned, Says, Asks, Reported, Idle
<1>4. Births
  BY <1>2, <1>3, NoElems DEF Births, Asks, Once
<1>5. Deaths
  BY <1>2 DEF Deaths
<1>6. WellSent
  BY <1>2, NoElems DEF WellSent, ReportFirst, Once, BornFirst
<1>7. Links /\ Newborn
  BY <1>2 DEF Links, Newborn, Live, Joining, Idle
<1> QED BY <1>1, <1>4, <1>5, <1>6, <1>7 DEF RunningInv

LEMMA RunningNext ==
    ASSUME RegistryAssumption, Lag = "none", RunningInv, [Next]_vars
    PROVE  RunningInv'
<1>1. TypeOK /\ Births /\ Deaths /\ WellSent /\ Links /\ Newborn
  BY DEF RunningInv
<1>2. TypeOK' /\ Births' /\ Deaths' /\ WellSent' /\ Links'
  BY <1>1, RegistryTypesNext, BirthsKept, DeathsKept, WellSentKept, LinksKept
<1>3. Newborn'
  BY <1>1, <1>2, NewbornKept
<1> QED BY <1>2, <1>3 DEF RunningInv

(* Reconciliation never finds a running terminal missing from a report.    *)
LEMMA RunningStays ==
    ASSUME RegistryAssumption, Lag = "none", RunningInv, [Next]_vars
    PROVE  DestroysOnlyDead
<1> USE DEF memory, database, requests, node
<1> SUFFICES ASSUME NEW t \in Terminal, t \in alive, row[t] = "active", row'[t] # "active"
             PROVE  \E c \in Conn : inbox'[c] # inbox[c]
                                    /\ Head(inbox[c]) = [type |-> "TerminalDied", id |-> t]
  BY DEF DestroysOnlyDead, RunningInv, TypeOK
<1>0. /\ TypeOK /\ t \in sessions /\ Noted(t)
      /\ row \in [Terminal -> {"none", "active", "destroyed"}]
  BY DEF RunningInv, TypeOK, Noted
<1>1. ASSUME NEW c \in Conn, DestroyRow(c) PROVE FALSE
  <2>1. Does(c, "destroy", t)
    BY <1>0, <1>1 DEF DestroyRow, mark_destroyed, Does
  <2> QED BY <1>0, <2>1 DEF RunningInv, Deaths
<1>2. ASSUME NEW c \in Conn, TerminalDied(c)
      PROVE  inbox'[c] # inbox[c] /\ Head(inbox[c]) = [type |-> "TerminalDied", id |-> t]
  <2>1. Head(inbox[c]).id = t
    BY <1>0, <1>2 DEF TerminalDied, mark_destroyed
  <2>2. inbox'[c] # inbox[c] /\ Head(inbox[c]) \in Message /\ Head(inbox[c]).type = "TerminalDied"
    BY <1>0, <1>2, Took DEF TerminalDied
  <2> QED BY <2>1, <2>2, MessageKinds
<1>3. ASSUME NEW c \in Conn, Reconcile(c) PROVE FALSE
  <2>1. work[c].type = "reconcile" /\ t \notin work[c].ids /\ Old(c, t)
    BY <1>0, <1>3 DEF Reconcile, ReconciledRows, mark_destroyed, Present, Old
  <2>2. Live(c) /\ Waiting(c) /\ \A m \in Elems(inbox[c]) : m.type # "ExistingTerminals"
    BY <2>1 DEF RunningInv, Links, Live, Waiting, Idle
  <2>3. ~Reported(c, t)
    BY <2>1, <2>2 DEF Reported
  <2>4. Says(c, "TerminalCreated", t)
    BY <1>0, <2>2, <2>3 DEF RunningInv, Newborn
  <2> QED BY <1>0, <2>2, <2>4 DEF RunningInv, Newborn
<1>4. ASSUME NEW c \in Conn, ControlTask(c)
      PROVE  inbox'[c] # inbox[c] /\ Head(inbox[c]) = [type |-> "TerminalDied", id |-> t]
  <2>1. CASE TerminalCreated(c) \/ TerminalDestroyed(c) \/ PruneTab(c) \/ ExistingTerminals(c)
    BY <1>0, <2>1 DEF TerminalCreated, TerminalDestroyed, PruneTab, ExistingTerminals
  <2>2. CASE TerminalInserted(c)
    BY <1>0, <2>2 DEF TerminalInserted
  <2> QED BY <1>1, <1>2, <1>3, <1>4, <2>1, <2>2 DEF ControlTask
<1>5. ASSUME NEW c \in Conn, Connect(c) \/ register_machine(c) \/ EndHandler(c) \/ unregister_machine(c)
      PROVE  FALSE
  BY <1>0, <1>5 DEF Connect, register_machine, EndHandler, unregister_machine
<1>6. ASSUME NEW u \in Terminal, Http(u) PROVE FALSE
  <2>1. CASE SaveTab(u)
    BY <1>0, <2>1 DEF SaveTab
  <2> QED BY <1>0, <1>6, <2>1 DEF Http, CreateTerminal, CreateFails, OpenTab, ChooseTab, StoreTab,
                                  DestroyTerminal
<1>7. ASSUME NEW u \in Terminal, SessionEnds(u) \/ WatcherReports(u) PROVE FALSE
  BY <1>0, <1>7 DEF SessionEnds, WatcherReports
<1>8. ASSUME NEW g \in Tab, DeleteTab(g) \/ clear_workspace_group_assignments(g) PROVE FALSE
  BY <1>0, <1>8 DEF DeleteTab, clear_workspace_group_assignments
<1>9. ~(NodeCreates \/ NodeDestroys \/ Leave \/ RestartNode \/ RestartHub \/ UNCHANGED vars)
  BY <1>0 DEF NodeCreates, NodeDestroys, Leave, RestartNode, RestartHub, vars
<1>10. \E c \in Conn : ControlTask(c)
  BY <1>5, <1>6, <1>7, <1>8, <1>9 DEF Next
<1> QED BY <1>4, <1>10

(* However often machine and hub restart and reconnect, wherever messages  *)
(* break off, and for any number of terminals: while handlers keep up with *)
(* the node's connections, the row of a running terminal is destroyed only *)
(* by a report of its death.                                               *)
THEOREM RunningKept ==
    ASSUME Lag = "none"
    PROVE  Spec => AliveNotDestroyed
<1>1. Init => RunningInv
  BY RunningInit, RegistryAssumption
<1>2. RunningInv /\ [Next]_vars => RunningInv'
  BY RunningNext, RegistryAssumption
<1>3. RunningInv /\ [Next]_vars => [DestroysOnlyDead]_vars
  BY RunningStays, RegistryAssumption
<1> QED BY <1>1, <1>2, <1>3, PTL DEF Spec, AliveNotDestroyed

-----------------------------------------------------------------------------
(* Where the hub has a terminal *)

(* Some map of the hub's has t in tab g (or in no tab). *)
At(t, g) ==
    \/ terminals[t] = g \/ persisted[t] = g
    \/ \E c \in Conn : work[c].type = "reconcile" /\ work[c].old[t] = g

LEMMA KeptAt ==
    ASSUME TypeOK, RegistryAssumption, NEW t \in Terminal
    PROVE  Kept(t) <=> \E g \in Tab \cup {NoTab} : At(t, g)
<1>1. \A c \in Conn : work[c].type = "reconcile" => work[c].old[t] \in Places
  BY WorkKinds DEF TypeOK
<1> QED BY <1>1 DEF TypeOK, Kept, Old, At, Places, RegistryAssumption

(* How a terminal gets where it is. *)
LEMMA AtStep ==
    ASSUME TypeOK, RegistryAssumption, [Next]_vars, NEW t \in Terminal, NEW g \in Tab \cup {NoTab}, At(t, g)'
    PROVE  \/ At(t, g)
           \/ \E c \in Conn : TerminalCreated(c) /\ Head(inbox[c]).id = t /\ g = NoTab
           \/ \E c \in Conn : Reconcile(c) /\ t \in work[c].ids /\ g = Restored(t, work[c].old)
           \/ /\ StoreTab(t) /\ g = request[t].tab
              /\ terminals[t] # Absent \/ persisted[t] # Absent
           \/ \E h \in Tab : clear_workspace_group_assignments(h) /\ At(t, h) /\ g = NoTab
           \/ RestartHub /\ g = persisted'[t]
<1> USE DEF memory, database, requests, node
<1> DEFINE Goal ==
           \/ At(t, g)
           \/ \E c \in Conn : TerminalCreated(c) /\ Head(inbox[c]).id = t /\ g = NoTab
           \/ \E c \in Conn : Reconcile(c) /\ t \in work[c].ids /\ g = Restored(t, work[c].old)
           \/ /\ StoreTab(t) /\ g = request[t].tab
              /\ terminals[t] # Absent \/ persisted[t] # Absent
           \/ \E h \in Tab : clear_workspace_group_assignments(h) /\ At(t, h) /\ g = NoTab
           \/ RestartHub /\ g = persisted'[t]
<1> SUFFICES Goal
  OBVIOUS
<1>0. /\ work \in [Conn -> Work] /\ terminals \in [Terminal -> Places] /\ persisted \in [Terminal -> Places]
      /\ g # Absent /\ Idle.type = "idle"
  BY DEF TypeOK, Idle, RegistryAssumption
(* A half handled report keeps what it took from the stash. *)
<1>1. ASSUME NEW c \in Conn, work'[c].type = "reconcile", work'[c].old[t] = g PROVE At(t, g)
  BY <1>0, <1>1, WorkStep DEF At
<1>2. ASSUME terminals'[t] \in {terminals[t], persisted[t], Absent}, persisted'[t] \in {terminals[t], persisted[t], Absent}
      PROVE  Goal
  BY <1>0, <1>1, <1>2 DEF At
<1>3. ASSUME NEW c \in Conn, Connect(c) \/ register_machine(c) \/ EndHandler(c) \/ unregister_machine(c)
      PROVE  Goal
  <2>1. /\ terminals'[t] \in {terminals[t], Absent} /\ persisted'[t] \in {terminals[t], persisted[t]}
    BY <1>3 DEF Connect, register_machine, EndHandler, unregister_machine, Stashed, Nobody
  <2> HIDE DEF Goal
  <2> QED BY <1>2, <2>1
<1>4. ASSUME NEW c \in Conn, ControlTask(c) PROVE Goal
  <2>1. CASE TerminalCreated(c)
    <3>1. persisted'[t] = persisted[t]
          /\ (terminals'[t] = terminals[t] \/ (Head(inbox[c]).id = t /\ terminals'[t] = NoTab))
      BY <1>0, <2>1 DEF TerminalCreated
    <3> QED BY <1>1, <2>1, <3>1 DEF At
  <2>2. CASE Reconcile(c)
    <3>1. persisted'[t] = persisted[t]
          /\ (terminals'[t] = terminals[t]
              \/ (t \in work[c].ids /\ terminals'[t] = Restored(t, work[c].old)))
      BY <1>0, <2>2 DEF Reconcile
    <3> QED BY <1>1, <2>2, <3>1 DEF At
  <2>3. CASE TerminalInserted(c) \/ DestroyRow(c) \/ PruneTab(c)
    BY <1>2, <2>3 DEF TerminalInserted, DestroyRow, PruneTab
  <2>4. CASE TerminalDestroyed(c)
    BY <1>0, <1>2, <2>4 DEF TerminalDestroyed
  <2>5. CASE TerminalDied(c)
    BY <1>0, <1>2, <2>5 DEF TerminalDied
  <2>6. CASE ExistingTerminals(c)
    BY <1>2, <2>6 DEF ExistingTerminals, Nobody
  <2> HIDE DEF Goal
  <2> QED BY <1>4, <2>1, <2>2, <2>3, <2>4, <2>5, <2>6 DEF ControlTask
<1>5. ASSUME NEW u \in Terminal, Http(u) PROVE Goal
  <2>1. CASE StoreTab(u)
    <3>1. CASE u = t
      <4>1. CASE UNCHANGED <<terminals, persisted>>
        BY <1>2, <4>1
      <4>2. CASE terminals[t] # Absent /\ terminals' = [terminals EXCEPT ![t] = request[t].tab] /\ UNCHANGED persisted
        <5>1. terminals'[t] = request[t].tab
          BY <1>0, <4>2
        <5> QED BY <1>1, <2>1, <3>1, <4>2, <5>1 DEF At
      <4>3. CASE persisted[t] # Absent /\ persisted' = [persisted EXCEPT ![t] = request[t].tab] /\ UNCHANGED terminals
        <5>1. persisted'[t] = request[t].tab
          BY <1>0, <4>3
        <5> QED BY <1>1, <2>1, <3>1, <4>3, <5>1 DEF At
      <4> HIDE DEF Goal
      <4> QED BY <2>1, <3>1, <4>1, <4>2, <4>3 DEF StoreTab
    <3>2. CASE u # t
      <4>1. terminals'[t] = terminals[t] /\ persisted'[t] = persisted[t]
        BY <1>0, <2>1, <3>2 DEF StoreTab
      <4> HIDE DEF Goal
      <4> QED BY <1>2, <4>1
    <3> QED BY <3>1, <3>2
  <2>2. CASE UNCHANGED <<terminals, persisted>>
    BY <1>2, <2>2
  <2>3. StoreTab(u) \/ UNCHANGED <<terminals, persisted>>
    BY <1>5 DEF Http, CreateTerminal, CreateFails, OpenTab, ChooseTab, SaveTab, DestroyTerminal
  <2> HIDE DEF Goal
  <2> QED BY <2>1, <2>2, <2>3
<1>6. ASSUME NEW u \in Terminal, SessionEnds(u) \/ WatcherReports(u) PROVE Goal
  BY <1>2, <1>6 DEF SessionEnds, WatcherReports
<1>7. ASSUME NEW h \in Tab, DeleteTab(h) PROVE Goal
  BY <1>2, <1>7 DEF DeleteTab
<1>8. ASSUME NEW h \in Tab, clear_workspace_group_assignments(h) PROVE Goal
  <2>1. /\ terminals'[t] = IF terminals[t] = h THEN NoTab ELSE terminals[t]
        /\ persisted'[t] = IF persisted[t] = h THEN NoTab ELSE persisted[t]
    BY <1>8 DEF clear_workspace_group_assignments, Cleared
  <2> QED BY <1>1, <1>8, <2>1 DEF At
<1>9. CASE NodeCreates \/ NodeDestroys \/ Leave \/ RestartNode \/ UNCHANGED vars
  BY <1>2, <1>9 DEF NodeCreates, NodeDestroys, Leave, RestartNode, vars
<1>10. CASE RestartHub
  <2>1. terminals'[t] = Absent
    BY <1>10 DEF RestartHub, Nobody
  <2>2. \A c \in Conn : work'[c] = Idle
    BY <1>10 DEF RestartHub
  <2> QED BY <1>0, <1>10, <2>1, <2>2 DEF At
<1> HIDE DEF Goal
<1>11. CASE \E c \in Conn : \/ Connect(c) \/ register_machine(c) \/ EndHandler(c)
                            \/ unregister_machine(c) \/ ControlTask(c)
  BY <1>3, <1>4, <1>11
<1> QED BY <1>5, <1>6, <1>7, <1>8, <1>9, <1>10, <1>11 DEF Next

(* How the state of a row changes. *)
LEMMA RowStep ==
    ASSUME TypeOK, RegistryAssumption, [Next]_vars, NEW t \in Terminal, row'[t] # row[t]
    PROVE  \/ row'[t] = "active"
           \/ \E c \in Conn : DestroyRow(c) /\ Does(c, "destroy", t)
           \/ \E c \in Conn : TerminalDied(c) /\ current # NoConn /\ Head(inbox[c]).id = t
           \/ \E c \in Conn : /\ Reconcile(c) /\ current # NoConn
                              /\ work[c].old[t] # Absent /\ t \notin work[c].ids
<1> USE DEF memory, database, requests, node
<1> DEFINE Goal ==
           \/ row'[t] = "active"
           \/ \E c \in Conn : DestroyRow(c) /\ Does(c, "destroy", t)
           \/ \E c \in Conn : TerminalDied(c) /\ current # NoConn /\ Head(inbox[c]).id = t
           \/ \E c \in Conn : /\ Reconcile(c) /\ current # NoConn
                              /\ work[c].old[t] # Absent /\ t \notin work[c].ids
<1> SUFFICES Goal
  OBVIOUS
<1>0. row \in [Terminal -> {"none", "active", "destroyed"}]
  BY DEF TypeOK
<1>1. ASSUME NEW c \in Conn, Connect(c) \/ register_machine(c) \/ EndHandler(c) \/ unregister_machine(c)
      PROVE  row' = row
  BY <1>1 DEF Connect, register_machine, EndHandler, unregister_machine
<1>2. ASSUME NEW c \in Conn, ControlTask(c) PROVE Goal
  <2>1. CASE DestroyRow(c)
    <3>1. Does(c, "destroy", t)
      BY <2>1 DEF DestroyRow, mark_destroyed, Does
    <3> QED BY <2>1, <3>1
  <2>2. CASE TerminalDied(c)
    BY <2>2 DEF TerminalDied, mark_destroyed
  <2>3. CASE Reconcile(c)
    <3>1. row'[t] = "active" \/ (current # NoConn /\ work[c].old[t] # Absent /\ t \notin work[c].ids)
      BY <2>3 DEF Reconcile, ReconciledRows, mark_destroyed, Present
    <3> QED BY <2>3, <3>1
  <2>4. CASE TerminalInserted(c)
    BY <1>0, <2>4 DEF TerminalInserted
  <2>5. CASE TerminalCreated(c) \/ TerminalDestroyed(c) \/ PruneTab(c) \/ ExistingTerminals(c)
    BY <2>5 DEF TerminalCreated, TerminalDestroyed, PruneTab, ExistingTerminals
  <2> HIDE DEF Goal
  <2> QED BY <1>2, <2>1, <2>2, <2>3, <2>4, <2>5 DEF ControlTask
<1>3. ASSUME NEW u \in Terminal, Http(u) PROVE row'[t] \in {row[t], "active"}
  <2>1. CASE SaveTab(u)
    BY <1>0, <2>1 DEF SaveTab
  <2> QED BY <1>3, <2>1 DEF Http, CreateTerminal, CreateFails, OpenTab, ChooseTab, StoreTab, DestroyTerminal
<1>4. ASSUME NEW u \in Terminal, SessionEnds(u) \/ WatcherReports(u) PROVE row' = row
  BY <1>4 DEF SessionEnds, WatcherReports
<1>5. ASSUME NEW g \in Tab, DeleteTab(g) \/ clear_workspace_group_assignments(g) PROVE row' = row
  BY <1>5 DEF DeleteTab, clear_workspace_group_assignments
<1>6. ~(NodeCreates \/ NodeDestroys \/ Leave \/ RestartNode \/ RestartHub \/ UNCHANGED vars)
  BY DEF NodeCreates, NodeDestroys, Leave, RestartNode, RestartHub, vars
<1>7. CASE \E c \in Conn : \/ Connect(c) \/ register_machine(c) \/ EndHandler(c)
                           \/ unregister_machine(c) \/ ControlTask(c)
  BY <1>1, <1>2, <1>7
<1> QED BY <1>3, <1>4, <1>5, <1>6, <1>7 DEF Next

LEMMA NoReportLeft ==
    ASSUME TypeOK, WellSent, NEW c \in Conn, NEW type, Take(c, type), type # "ExistingTerminals"
    PROVE  ~Waiting(c) /\ \A t \in Terminal : ~Reported(c, t)
<1>1. work[c] = Idle /\ Head(inbox[c]).type # "ExistingTerminals"
  BY DEF Take, MayHandle
<1>2. ~Waiting(c)
  BY <1>1, ReportHead
<1> QED BY <1>2 DEF Waiting, Reported

LEMMA WaitingEnds ==
    ASSUME TypeOK, RegistryAssumption, WellSent, [Next]_vars, NEW c \in Conn, Waiting(c), ~Waiting(c)'
    PROVE  Reconcile(c) \/ EndHandler(c) \/ RestartHub
<1> USE DEF memory, database, requests, node
<1>1. CASE work[c].type = "reconcile"
  <2>1. ~MayHandle(c)
    BY <1>1 DEF MayHandle, Idle
  <2>2. /\ ~TerminalCreated(c) /\ ~TerminalDestroyed(c) /\ ~TerminalDied(c) /\ ~ExistingTerminals(c)
        /\ ~TerminalInserted(c) /\ ~DestroyRow(c) /\ ~PruneTab(c)
    BY <1>1, <2>1 DEF TerminalCreated, TerminalDestroyed, TerminalDied, ExistingTerminals, Take,
                      TerminalInserted, DestroyRow, PruneTab
  <2>3. work'[c] # work[c]
    BY <1>1 DEF Waiting
  <2> QED BY <2>2, <2>3, WorkStep
<1>2. CASE work[c].type # "reconcile"
  <2>1. PICK m \in Elems(inbox[c]) : m.type = "ExistingTerminals"
    BY <1>2 DEF Waiting
  <2>2. m \notin Elems(inbox'[c])
    BY <2>1 DEF Waiting
  <2>3. inbox[c] \in Seq(Message)
    BY DEF TypeOK
  <2>4. ~Connect(c)
    <3>1. SUFFICES ASSUME Connect(c) PROVE FALSE
      OBVIOUS
    <3> DEFINE r == [type |-> "ExistingTerminals", ids |-> sessions]
    <3>2. inbox'[c] = <<r>> /\ Elems(<<r>>) = {r}
      BY <3>1, OneElem DEF Connect, TypeOK
    <3> QED BY <3>2 DEF Waiting
  <2>5. ASSUME NEW n \in Message, inbox'[c] = Append(inbox[c], n) PROVE FALSE
    BY <2>1, <2>2, <2>3, <2>5, AppendElems
  <2>6. ASSUME MayHandle(c), inbox'[c] = Tail(inbox[c]), ControlTask(c) PROVE FALSE
    <3>1. work[c] = Idle
      BY <2>6 DEF MayHandle
    <3>2. Head(inbox[c]).type = "ExistingTerminals"
      BY <3>1, ReportHead
    <3>3. ExistingTerminals(c)
      BY <2>6, <3>1, <3>2 DEF ControlTask, TerminalCreated, TerminalInserted, TerminalDestroyed,
         DestroyRow, TerminalDied, PruneTab, Reconcile, Take, Idle
    <3>4. work' = [work EXCEPT ![c] = [type |-> "reconcile", ids |-> Head(inbox[c]).ids, old |-> persisted]]
      BY <3>3 DEF ExistingTerminals
    <3>5. work'[c].type = "reconcile"
      BY <3>4 DEF TypeOK
    <3> QED BY <3>5 DEF Waiting
  <2> QED BY <2>1, <2>2, <2>4, <2>5, <2>6, InboxStep
<1> QED BY <1>1, <1>2

(* The stash and the map of the connection are never both in use, and      *)
(* neither is while a report is half handled.                              *)
Maps ==
    /\ current = NoConn => terminals = Nobody
    /\ terminals = Nobody \/ persisted = Nobody
    /\ \A c \in Conn : handler[c] = "up" /\ current = c =>
          IF Waiting(c) THEN terminals = Nobody ELSE persisted = Nobody
    /\ \A c \in Conn : work[c].type = "reconcile" => terminals = Nobody /\ persisted = Nobody

LEMMA MapsKept ==
    ASSUME TypeOK, RegistryAssumption, Lag = "none", WellSent, Links, Maps, [Next]_vars, Links'
    PROVE  Maps'
<1> USE DEF memory, database, requests, node
<1>0. /\ handler \in [Conn -> {"idle", "joining", "up", "ended", "gone"}] /\ NoConn \notin Conn
      /\ terminals \in [Terminal -> Places] /\ persisted \in [Terminal -> Places]
      /\ current \in Conn \cup {NoConn} /\ work \in [Conn -> Work]
      /\ Nobody \in [Terminal -> Places] /\ \A t \in Terminal : Nobody[t] = Absent
  BY DEF TypeOK, RegistryAssumption, Nobody, Places
(* What only changes the maps while it keeps who has none. *)
<1>1. ASSUME UNCHANGED <<handler, current>>, \A c \in Conn : ~Reconcile(c) /\ ~ExistingTerminals(c),
             ~RestartHub,
             terminals = Nobody => terminals' = Nobody, persisted = Nobody => persisted' = Nobody
      PROVE  Maps'
  <2>1. ASSUME NEW c \in Conn, handler[c] = "up", current = c PROVE Waiting(c)' <=> Waiting(c)
    <3>1. ~Connect(c) /\ ~EndHandler(c)
      BY <1>0, <1>1, <2>1 DEF Connect, EndHandler
    <3> QED BY <1>1, <3>1, ReportedStep, WaitingEnds
  <2>2. ASSUME NEW c \in Conn, work'[c].type = "reconcile" PROVE work[c].type = "reconcile"
    BY <1>1, <2>2, WorkStep DEF Idle
  <2> QED BY <1>1, <2>1, <2>2 DEF Maps
<1>2. ASSUME NEW c \in Conn, Connect(c) PROVE Maps'
  <2>1. /\ handler' = [handler EXCEPT ![c] = "joining"] /\ UNCHANGED <<memory, work>>
        /\ \A d \in Conn \ {c} : inbox'[d] = inbox[d]
    BY <1>2 DEF Connect, TypeOK
  <2>2. \A d \in Conn : handler'[d] = "up" => handler[d] = "up" /\ (Waiting(d)' <=> Waiting(d))
    BY <1>0, <2>1 DEF Waiting
  <2> QED BY <2>1, <2>2 DEF Maps
<1>3. ASSUME NEW c \in Conn, register_machine(c) PROVE Maps'
  <2>1. /\ handler[c] = "joining" /\ current' = c /\ terminals' = Nobody /\ UNCHANGED <<work, inbox>>
    BY <1>3 DEF register_machine
  <2>2. Waiting(c) /\ \A d \in Conn : work[d] = Idle
    BY <2>1 DEF Links, Joining
  <2>3. Waiting(c)'
    BY <2>1, <2>2 DEF Waiting
  <2> QED BY <1>0, <2>1, <2>2, <2>3 DEF Maps, Idle
<1>4. ASSUME NEW c \in Conn, EndHandler(c) PROVE Maps'
  <2>1. /\ handler' = [handler EXCEPT ![c] = "ended"] /\ UNCHANGED memory
        /\ \A d \in Conn \ {c} : inbox'[d] = inbox[d] /\ work'[d] = work[d]
        /\ work'[c] \in {work[c], Idle}
    BY <1>0, <1>4 DEF EndHandler, TypeOK
  <2>2. \A d \in Conn : handler'[d] = "up" => handler[d] = "up" /\ (Waiting(d)' <=> Waiting(d))
    BY <1>0, <2>1 DEF Waiting
  <2> QED BY <2>1, <2>2 DEF Maps, Idle
<1>5. ASSUME NEW c \in Conn, unregister_machine(c) PROVE Maps'
  <2>1. /\ handler[c] = "ended" /\ handler' = [handler EXCEPT ![c] = "gone"] /\ UNCHANGED <<work, inbox>>
        /\ \/ current = c /\ current' = NoConn /\ terminals' = Nobody
           \/ UNCHANGED memory
    BY <1>5 DEF unregister_machine
  <2>2. \A d \in Conn : handler'[d] = "up" => handler[d] = "up" /\ (Waiting(d)' <=> Waiting(d))
    BY <1>0, <2>1 DEF Waiting
  <2>3. CASE current = c /\ current' = NoConn /\ terminals' = Nobody
    <3>1. \A d \in Conn : work'[d].type # "reconcile"
      BY <1>0, <2>3 DEF Links
    <3> QED BY <1>0, <2>3, <3>1 DEF Maps
  <2>4. CASE UNCHANGED memory
    BY <2>1, <2>2, <2>4 DEF Maps
  <2> QED BY <2>1, <2>3, <2>4
<1>6. ASSUME NEW c \in Conn, ControlTask(c), UNCHANGED persisted, persisted = Nobody, ~Waiting(c)',
             current = c
      PROVE  Maps'
  <2>1. UNCHANGED <<handler, current>>
    BY <1>6 DEF ControlTask, TerminalCreated, TerminalInserted, TerminalDestroyed, DestroyRow,
                TerminalDied, PruneTab, ExistingTerminals, Reconcile
  <2>2. \A d \in Conn : work'[d].type # "reconcile"
    BY <1>0, <1>6, <2>1 DEF Links, Waiting
  <2> QED BY <1>0, <1>6, <2>1, <2>2 DEF Maps
<1>7. ASSUME NEW c \in Conn, NEW type, ControlTask(c), Take(c, type), type # "ExistingTerminals", UNCHANGED persisted
      PROVE  Maps'
  <2>1. handler[c] = "up" /\ current = c /\ ~Connect(c)
    BY <1>7 DEF Take, MayHandle, InTime, Connect
  <2>2. ~Waiting(c) /\ ~Waiting(c)'
    BY <1>7, <2>1, NoReportLeft, ReportedStep
  <2> QED BY <1>6, <1>7, <2>1, <2>2 DEF Maps
<1>8. ASSUME NEW c \in Conn, ExistingTerminals(c) PROVE Maps'
  <2>1. Take(c, "ExistingTerminals") /\ persisted' = Nobody /\ UNCHANGED <<handler, current, terminals>>
    BY <1>8 DEF ExistingTerminals
  <2>2. handler[c] = "up" /\ current = c /\ Head(inbox[c]) \in Elems(inbox[c])
        /\ Head(inbox[c]).type = "ExistingTerminals"
    BY <2>1, Took DEF Take, MayHandle, InTime
  <2>3. terminals = Nobody
    BY <2>2 DEF Maps, Waiting
  <2> QED BY <2>1, <2>3 DEF Maps
<1>9. ASSUME NEW c \in Conn, Reconcile(c) PROVE Maps'
  <2>1. /\ work[c].type = "reconcile" /\ work' = [work EXCEPT ![c] = Idle] /\ UNCHANGED <<persisted, inbox>>
    BY <1>9 DEF Reconcile
  <2>2. ~Waiting(c)'
    BY <1>0, <2>1 DEF Waiting, Links, Idle
  <2> QED BY <1>6, <1>9, <2>1, <2>2 DEF ControlTask, Links, Maps
<1>10. ASSUME NEW c \in Conn, TerminalInserted(c) \/ DestroyRow(c) \/ PruneTab(c) PROVE Maps'
  <2>1. UNCHANGED <<handler, current, terminals, persisted, inbox>>
    BY <1>10 DEF TerminalInserted, DestroyRow, PruneTab
  <2>2. \A d \in Conn : work'[d].type = "reconcile" <=> work[d].type = "reconcile"
    BY <1>0, <1>10 DEF TerminalInserted, DestroyRow, PruneTab, Idle
  <2>3. \A d \in Conn : Waiting(d)' <=> Waiting(d)
    BY <2>1, <2>2 DEF Waiting
  <2> QED BY <2>1, <2>2, <2>3 DEF Maps
<1>11. ASSUME NEW c \in Conn, ControlTask(c) PROVE Maps'
  <2>1. CASE TerminalCreated(c)
    BY <1>7, <1>11, <2>1 DEF TerminalCreated
  <2>2. CASE TerminalDestroyed(c)
    BY <1>7, <1>11, <2>2 DEF TerminalDestroyed
  <2>3. CASE TerminalDied(c)
    BY <1>7, <1>11, <2>3 DEF TerminalDied
  <2> QED BY <1>8, <1>9, <1>10, <1>11, <2>1, <2>2, <2>3 DEF ControlTask
<1>12. CASE RestartHub
  BY <1>12 DEF RestartHub, Maps, Idle
<1>13. ASSUME NEW u \in Terminal, Http(u), ~RestartHub, \A c \in Conn : ~Reconcile(c) /\ ~ExistingTerminals(c)
       PROVE  Maps'
  <2>1. UNCHANGED <<handler, current>>
    BY <1>13 DEF Http, CreateTerminal, CreateFails, OpenTab, ChooseTab, StoreTab, SaveTab, DestroyTerminal
  <2>2. /\ terminals = Nobody => terminals' = Nobody
        /\ persisted = Nobody => persisted' = Nobody
    <3>1. CASE StoreTab(u)
      BY <1>0, <3>1 DEF StoreTab
    <3> QED BY <1>13, <3>1 DEF Http, CreateTerminal, CreateFails, OpenTab, ChooseTab, SaveTab, DestroyTerminal
  <2> QED BY <1>1, <1>13, <2>1, <2>2
<1>14. ASSUME NEW g \in Tab, DeleteTab(g) \/ clear_workspace_group_assignments(g), ~RestartHub,
              \A c \in Conn : ~Reconcile(c) /\ ~ExistingTerminals(c)
       PROVE  Maps'
  <2>1. UNCHANGED <<handler, current>>
    BY <1>14 DEF DeleteTab, clear_workspace_group_assignments
  <2>2. Cleared(Nobody, g) = Nobody
    BY DEF Cleared, Nobody, RegistryAssumption
  <2>3. /\ terminals = Nobody => terminals' = Nobody
        /\ persisted = Nobody => persisted' = Nobody
    BY <1>14, <2>2 DEF DeleteTab, clear_workspace_group_assignments
  <2> QED BY <1>1, <1>14, <2>1, <2>3
<1>15. ASSUME \/ NodeCreates \/ NodeDestroys \/ Leave \/ RestartNode \/ UNCHANGED vars
              \/ \E u \in Terminal : SessionEnds(u) \/ WatcherReports(u),
              ~RestartHub, \A c \in Conn : ~Reconcile(c) /\ ~ExistingTerminals(c)
       PROVE  Maps'
  <2>1. UNCHANGED <<handler, current, terminals, persisted>>
    BY <1>15 DEF NodeCreates, NodeDestroys, Leave, RestartNode, vars, SessionEnds, WatcherReports
  <2> QED BY <1>1, <1>15, <2>1
<1>16. CASE \E c \in Conn : \/ Connect(c) \/ register_machine(c) \/ EndHandler(c)
                            \/ unregister_machine(c) \/ ControlTask(c)
  BY <1>2, <1>3, <1>4, <1>5, <1>11, <1>16
<1>17. CASE ~(\E c \in Conn : ControlTask(c)) /\ ~RestartHub
  <2>1. \A c \in Conn : ~Reconcile(c) /\ ~ExistingTerminals(c)
    BY <1>17 DEF ControlTask
  <2> QED BY <1>13, <1>14, <1>15, <1>16, <1>17, <2>1 DEF Next
<1> QED BY <1>12, <1>16, <1>17

-----------------------------------------------------------------------------
(* What the hub has, with what is on its way to it, is the node's sessions *)

Heard(t) ==
    /\ \/ handler[link] = "up" /\ terminals[t] # Absent
       \/ Says(link, "TerminalCreated", t) \/ Reported(link, t)
    /\ \A type \in Ends : ~Says(link, type, t)

KnowsTruth ==
    /\ \A t \in Terminal :
          t \notin asked \/ (\E c \in Conn : Asks(c, "CreateTerminal", t)) => t \notin reported
    /\ link # NoConn => alive \cap reported = {}
    /\ link # NoConn /\ Hears => \A t \in Terminal : t \in sessions \ reported <=> Heard(t)

LEMMA ReportedBorn ==
    ASSUME TypeOK, RegistryAssumption, Births, KnowsTruth, [Next]_vars, NEW t \in Terminal,
           t \notin asked' \/ (\E c \in Conn : Asks(c, "CreateTerminal", t)')
    PROVE  t \notin reported'
<1> USE DEF memory, database, requests, node
<1>1. t \notin asked \/ (\E c \in Conn : Asks(c, "CreateTerminal", t))
  BY CreateOrders
<1>2. t \notin reported /\ t \notin sessions
  BY <1>1 DEF KnowsTruth, Births, Unborn
<1>3. ASSUME NEW c \in Conn, Connect(c) \/ register_machine(c) \/ EndHandler(c) \/ unregister_machine(c)
      PROVE  t \notin reported'
  BY <1>2, <1>3 DEF Connect, register_machine, EndHandler, unregister_machine
<1>4. ASSUME NEW c \in Conn, ControlTask(c) PROVE t \notin reported'
  BY <1>2, <1>4 DEF ControlTask, TerminalCreated, TerminalInserted, TerminalDestroyed, DestroyRow,
              TerminalDied, PruneTab, ExistingTerminals, Reconcile
<1>5. ASSUME NEW u \in Terminal, Http(u) \/ SessionEnds(u) \/ WatcherReports(u) PROVE t \notin reported'
  BY <1>2, <1>5 DEF Http, CreateTerminal, CreateFails, OpenTab, ChooseTab, StoreTab, SaveTab,
              DestroyTerminal, SessionEnds, WatcherReports
<1>6. ASSUME NEW g \in Tab, DeleteTab(g) \/ clear_workspace_group_assignments(g) PROVE t \notin reported'
  BY <1>2, <1>6 DEF DeleteTab, clear_workspace_group_assignments
<1>7. CASE NodeCreates \/ NodeDestroys \/ Leave \/ RestartNode \/ RestartHub \/ UNCHANGED vars
  BY <1>2, <1>7 DEF NodeCreates, NodeDestroys, Leave, RestartNode, RestartHub, vars
<1> QED BY <1>3, <1>4, <1>5, <1>6, <1>7 DEF Next

LEMMA AliveUnreported ==
    ASSUME TypeOK, RegistryAssumption, Births, KnowsTruth, [Next]_vars, link' # NoConn
    PROVE  alive' \cap reported' = {}
<1> USE DEF memory, database, requests, node
<1>0. link # NoConn => alive \cap reported = {}
  BY DEF KnowsTruth
<1>1. ASSUME NEW c \in Conn, Connect(c) \/ register_machine(c) \/ EndHandler(c) \/ unregister_machine(c)
      PROVE  alive' \cap reported' = {}
  BY <1>0, <1>1 DEF Connect, register_machine, EndHandler, unregister_machine
<1>2. ASSUME NEW c \in Conn, ControlTask(c) PROVE alive' \cap reported' = {}
  BY <1>0, <1>2 DEF ControlTask, TerminalCreated, TerminalInserted, TerminalDestroyed, DestroyRow,
              TerminalDied, PruneTab, ExistingTerminals, Reconcile
<1>3. ASSUME NEW u \in Terminal, Http(u) \/ SessionEnds(u) \/ WatcherReports(u) PROVE alive' \cap reported' = {}
  BY <1>0, <1>3 DEF Http, CreateTerminal, CreateFails, OpenTab, ChooseTab, StoreTab, SaveTab,
              DestroyTerminal, SessionEnds, WatcherReports
<1>4. ASSUME NEW g \in Tab, DeleteTab(g) \/ clear_workspace_group_assignments(g) PROVE alive' \cap reported' = {}
  BY <1>0, <1>4 DEF DeleteTab, clear_workspace_group_assignments
<1>5. CASE NodeCreates
  <2>1. /\ link \in Conn /\ Elems(orders[link]) = Elems(orders'[link]) \cup {Head(orders[link])}
        /\ Head(orders[link]).type = "CreateTerminal" /\ Head(orders[link]).id \in Terminal
    BY <1>5, Obeyed DEF NodeCreates
  <2>2. Asks(link, "CreateTerminal", Head(orders[link]).id)
    BY <2>1 DEF Asks
  <2>3. Head(orders[link]).id \notin reported
    BY <2>1, <2>2 DEF KnowsTruth
  <2> QED BY <1>0, <1>5, <2>1, <2>3 DEF NodeCreates, RegistryAssumption
<1>6. CASE NodeDestroys \/ Leave \/ RestartNode \/ RestartHub \/ UNCHANGED vars
  BY <1>0, <1>6 DEF NodeDestroys, Leave, RestartNode, RestartHub, vars
<1> QED BY <1>1, <1>2, <1>3, <1>4, <1>5, <1>6 DEF Next

LEMMA HearsTruth ==
    ASSUME TypeOK, RegistryAssumption, Lag = "none", Births, WellSent, Links, KnowsTruth, [Next]_vars,
           link' # NoConn, Hears', NEW t \in Terminal
    PROVE  t \in sessions' \ reported' <=> Heard(t)'
<1> USE DEF memory, database, requests, node
<1> DEFINE Goal == t \in sessions' \ reported' <=> Heard(t)'
<1> SUFFICES Goal
  OBVIOUS
<1>0. /\ handler \in [Conn -> {"idle", "joining", "up", "ended", "gone"}] /\ NoConn \notin Conn
      /\ terminals \in [Terminal -> Places] /\ persisted \in [Terminal -> Places] /\ Absent \notin Tab \cup {NoTab}
      /\ work \in [Conn -> Work] /\ inbox \in [Conn -> Seq(Message)] /\ Idle.type = "idle"
      /\ rowTab \in [Terminal -> Tab \cup {NoTab}] /\ request \in [Terminal -> Request]
      /\ link \in Conn \cup {NoConn}
  BY DEF TypeOK, RegistryAssumption, Idle
<1>1. ASSUME NEW c \in Conn, Connect(c) PROVE Goal
  <2> DEFINE r == [type |-> "ExistingTerminals", ids |-> sessions]
  <2>1. inbox'[c] = <<r>> /\ Elems(<<r>>) = {r} /\ sessions' = sessions /\ reported' = {} /\ link' = c
        /\ handler'[c] = "joining" /\ work'[c] = Idle
    BY <1>0, <1>1, OneElem DEF Connect, Prompt
  <2>2. r.type = "ExistingTerminals" /\ r.ids = sessions
    OBVIOUS
  <2> HIDE DEF r
  <2>3. ~Says(c, "TerminalCreated", t)' /\ \A type \in Ends : ~Says(c, type, t)'
    BY <2>1, <2>2 DEF Says, Ends
  <2>4. Reported(c, t)' <=> t \in sessions
    BY <1>0, <2>1, <2>2 DEF Reported
  <2> QED BY <2>1, <2>3, <2>4 DEF Heard, Says, Reported
(* From here on the node stays where it was. *)
<1> DEFINE Stays0 == link \in Conn /\ link' = link /\ Hears
<1>2. ASSUME Stays0 PROVE t \in sessions \ reported <=> Heard(t)
  BY <1>0, <1>2 DEF KnowsTruth
<1>3. ASSUME Stays0, handler'[link] = handler[link], UNCHANGED <<sessions, reported>>,
             handler[link] = "up" => (terminals'[t] # Absent <=> terminals[t] # Absent),
             \A type \in {"TerminalCreated"} \cup Ends : Says(link, type, t)' <=> Says(link, type, t),
             Reported(link, t)' <=> Reported(link, t)
      PROVE  Goal
  BY <1>2, <1>3 DEF Heard
<1>4. ASSUME Stays0, handler'[link] = handler[link], UNCHANGED <<sessions, reported>>,
             handler[link] = "up" => (terminals'[t] # Absent <=> terminals[t] # Absent),
             inbox'[link] = inbox[link], work'[link] = work[link]
      PROVE  Goal
  <2>1. /\ \A type \in {"TerminalCreated"} \cup Ends : Says(link, type, t)' <=> Says(link, type, t)
        /\ Reported(link, t)' <=> Reported(link, t)
    BY <1>4 DEF Says, Reported
  <2> QED BY <1>3, <1>4, <2>1
<1>5. ASSUME NEW c \in Conn, register_machine(c) PROVE Goal
  <2>1. /\ handler[c] = "joining" /\ handler' = [handler EXCEPT ![c] = "up"] /\ terminals' = Nobody
        /\ UNCHANGED <<work, inbox, node>>
    BY <1>5 DEF register_machine
  <2>2. link = c
    BY <1>0, <2>1 DEF Links, Live, Joining
  <2>3. Heard(t)' <=> Heard(t)
    BY <1>0, <2>1, <2>2 DEF Heard, Says, Reported, Nobody
  <2> QED BY <1>2, <2>1, <2>2, <2>3 DEF Hears
<1>6. ASSUME NEW c \in Conn, EndHandler(c) \/ unregister_machine(c) PROVE Goal
  <2>1. link' = link /\ link \in Conn /\ UNCHANGED <<sessions, reported>>
    BY <1>0, <1>6 DEF EndHandler, unregister_machine
  <2>2. c # link
    BY <1>0, <1>6, <2>1 DEF EndHandler, unregister_machine, Hears
  <2>3. handler'[link] = handler[link] /\ inbox'[link] = inbox[link] /\ work'[link] = work[link]
    BY <1>0, <1>6, <2>1, <2>2 DEF EndHandler, unregister_machine
  <2>4. handler[link] = "up" => terminals' = terminals
    BY <1>0, <1>6, <2>1, <2>2 DEF EndHandler, unregister_machine, Links
  <2> HIDE DEF Goal
  <2> QED BY <1>4, <2>1, <2>3, <2>4 DEF Hears
<1>7. ASSUME NEW c \in Conn, ControlTask(c) PROVE Goal
  <2>0. /\ UNCHANGED <<handler, link, sessions, reported>> /\ link \in Conn /\ Stays0
        /\ \A d \in Conn \ {c} : inbox'[d] = inbox[d] /\ work'[d] = work[d]
    <3>1. UNCHANGED <<handler, link, sessions, reported>> /\ (inbox' = inbox \/ inbox' = [inbox EXCEPT ![c] = Tail(inbox[c])])
      BY <1>7 DEF ControlTask, TerminalCreated, TerminalInserted, TerminalDestroyed, DestroyRow,
                  TerminalDied, PruneTab, ExistingTerminals, Reconcile, Take
    <3>2. \A d \in Conn \ {c} : work'[d] = work[d]
      BY <1>0, <1>7 DEF ControlTask, TerminalCreated, TerminalInserted, TerminalDestroyed, DestroyRow,
                  TerminalDied, PruneTab, ExistingTerminals, Reconcile
    <3> QED BY <1>0, <3>1, <3>2 DEF Hears
  <2>1. ASSUME MayHandle(c) \/ work[c].type = "reconcile"
        PROVE  c = link /\ handler[link] = "up" /\ current = link
    BY <1>0, <2>0, <2>1 DEF MayHandle, InTime, Hears, Links, Joining
  <2>2. ASSUME NEW type, Take(c, type)
        PROVE  /\ c = link /\ Head(inbox[c]).type = type
               /\ \A k \in {"TerminalCreated"} \cup Ends :
                     Says(link, k, t) <=> Says(link, k, t)' \/ (type = k /\ Head(inbox[c]).id = t)
    <3>1. c = link
      BY <2>1, <2>2 DEF Take
    <3>2. Elems(inbox[c]) = Elems(inbox'[c]) \cup {Head(inbox[c])} /\ Head(inbox[c]).type = type
      BY <2>2, Took
    <3> QED BY <2>0, <3>1, <3>2 DEF Says
  <2>3. ASSUME NEW type, Take(c, type), type # "ExistingTerminals", work'[c].type # "reconcile"
        PROVE  ~Reported(link, t) /\ ~Reported(link, t)'
    <3>1. c = link /\ ~Reported(c, t)
      BY <2>2, <2>3, NoReportLeft
    <3>2. ~Connect(c)
      BY <2>3 DEF Take, MayHandle, Connect
    <3> QED BY <2>0, <3>1, <3>2, ReportedStep
  <2>4. CASE TerminalCreated(c)
    <3>1. Take(c, "TerminalCreated") /\ work'[c].type # "reconcile"
      BY <1>0, <2>4 DEF TerminalCreated
    <3>2. ~Reported(link, t) /\ ~Reported(link, t)' /\ c = link
      BY <2>2, <2>3, <3>1
    <3>3. \A k \in Ends : Says(link, k, t)' <=> Says(link, k, t)
      BY <2>2, <3>1 DEF Ends
    <3>4. Says(link, "TerminalCreated", t) <=> Says(link, "TerminalCreated", t)' \/ Head(inbox[c]).id = t
      BY <2>2, <3>1
    <3>5. terminals'[t] = IF Head(inbox[c]).id = t THEN NoTab ELSE terminals[t]
      BY <1>0, <2>1, <2>4, <3>1 DEF TerminalCreated, Take
    <3>6. handler[link] = "up"
      BY <2>1, <3>1 DEF Take
    <3>7. Heard(t)' <=> Heard(t)
      BY <1>0, <2>0, <3>2, <3>3, <3>4, <3>5, <3>6 DEF Heard
    <3> QED BY <1>2, <2>0, <3>7
  <2>5. CASE TerminalDestroyed(c) \/ TerminalDied(c)
    <3>1. PICK type \in Ends : Take(c, type)
      BY <2>5 DEF TerminalDestroyed, TerminalDied, Ends
    <3>2. work'[c].type # "reconcile" /\ type # "ExistingTerminals" /\ type # "TerminalCreated"
      <4>1. type # "ExistingTerminals" /\ type # "TerminalCreated"
        BY DEF Ends
      <4>2. ~ExistingTerminals(c)
        BY <2>2, <3>1, <4>1 DEF ExistingTerminals
      <4>3. work[c] = Idle
        BY <3>1 DEF Take, MayHandle
      <4> QED BY <1>0, <4>1, <4>2, <4>3, WorkStep
    <3>3. ~Reported(link, t) /\ ~Reported(link, t)' /\ c = link
      BY <2>2, <2>3, <3>1, <3>2
    <3>4. Says(link, "TerminalCreated", t)' <=> Says(link, "TerminalCreated", t)
      BY <2>2, <3>1, <3>2
    <3>5. terminals'[t] = IF Head(inbox[c]).id = t THEN Absent ELSE terminals[t]
      BY <1>0, <2>1, <2>5, <3>1 DEF TerminalDestroyed, TerminalDied, Take
    <3>6. CASE Head(inbox[c]).id = t
      <4>1. Says(link, type, t)
        BY <2>2, <3>1, <3>6 DEF Ends
      <4>2. ~Says(link, "TerminalCreated", t)'
        <5>1. SUFFICES ASSUME NEW i \in 1..Len(Tail(inbox[c])), Tail(inbox[c])[i].type = "TerminalCreated",
                              Tail(inbox[c])[i].id = t
                       PROVE  FALSE
          <6>1. inbox'[link] = Tail(inbox[c]) /\ c = link
            BY <3>1, <3>3, Took
          <6>2. ASSUME Says(link, "TerminalCreated", t)'
                PROVE  \E i \in 1..Len(Tail(inbox[c])) : /\ Tail(inbox[c])[i].type = "TerminalCreated"
                                                         /\ Tail(inbox[c])[i].id = t
            <7>1. PICK m \in Elems(Tail(inbox[c])) : m.type = "TerminalCreated" /\ m.id = t
              <8> HIDE DEF Goal
              <8>1. Elems(inbox'[link']) = Elems(Tail(inbox[c]))
                BY <2>0, <6>1
              <8> QED BY <6>2, <8>1 DEF Says
            <7>2. PICK i \in 1..Len(Tail(inbox[c])) : m = Tail(inbox[c])[i]
              BY ONLY <7>1 DEF Elems
            <7> QED BY ONLY <7>1, <7>2
          <6> HIDE DEF Goal, Says
          <6> QED BY <6>2
        <5>2. inbox[c] \in Seq(Message) /\ inbox[c] # <<>> /\ Head(inbox[c]).type = type
          BY <3>1, Took
        <5>3. Tail(inbox[c])[i] = inbox[c][i + 1] /\ Head(inbox[c]) = inbox[c][1]
              /\ 1 \in 1..Len(inbox[c]) /\ i + 1 \in 1..Len(inbox[c]) /\ ~(i + 1 < 1)
          BY <5>2, TailElems
        <5>4. BornFirst(inbox[c], t)
          BY DEF WellSent
        <5>5. inbox[c][1].type \in Ends /\ inbox[c][1].id = t
          BY <3>6, <5>2, <5>3
        <5>6. inbox[c][i + 1].type = "TerminalCreated" /\ inbox[c][i + 1].id = t
          BY <5>1, <5>3
        <5>7. i + 1 < 1
          BY <5>3, <5>4, <5>5, <5>6 DEF BornFirst
        <5> QED BY <5>3, <5>7
      <4>3. ~Heard(t)
        BY <4>1 DEF Heard
      <4>4. ~Heard(t)'
        BY <2>0, <3>3, <3>5, <3>6, <4>2 DEF Heard
      <4> QED BY <1>2, <2>0, <4>3, <4>4
    <3>7. CASE Head(inbox[c]).id # t
      <4>1. \A k \in Ends : Says(link, k, t)' <=> Says(link, k, t)
        BY <2>2, <3>1, <3>7
      <4> QED BY <1>3, <2>0, <3>3, <3>4, <3>5, <3>7, <4>1
    <3> QED BY <3>6, <3>7
  <2>6. CASE ExistingTerminals(c)
    <3>1. Take(c, "ExistingTerminals") /\ terminals' = terminals /\ c = link
      BY <2>2, <2>6 DEF ExistingTerminals
    <3>2. \A k \in {"TerminalCreated"} \cup Ends : Says(link, k, t)' <=> Says(link, k, t)
      BY <2>2, <3>1 DEF Ends
    <3>3. ~Connect(c) /\ work[c] = Idle
      BY <3>1 DEF Take, MayHandle, Connect
    <3>4. Reported(c, t) => Reported(c, t)'
      <4>1. SUFFICES ASSUME NEW m \in Elems(inbox[c]), m.type = "ExistingTerminals", t \in m.ids
                     PROVE  Reported(c, t)'
        BY <1>0, <3>3 DEF Reported
      <4>2. m = Head(inbox[c])
        BY <3>3, <4>1, ReportHead DEF Waiting
      <4>3. work'[c] = [type |-> "reconcile", ids |-> Head(inbox[c]).ids, old |-> persisted]
        BY <1>0, <2>6 DEF ExistingTerminals
      <4> QED BY <4>1, <4>2, <4>3 DEF Reported
    <3>5. Reported(link, t)' <=> Reported(link, t)
      BY <2>0, <3>1, <3>3, <3>4, ReportedStep
    <3> QED BY <1>3, <2>0, <3>1, <3>2, <3>5
  <2>7. CASE Reconcile(c)
    <3>1. /\ work[c].type = "reconcile" /\ work'[c] = Idle /\ inbox' = inbox
          /\ c = link /\ current = link /\ handler[link] = "up"
      BY <1>0, <2>1, <2>7 DEF Reconcile
    <3>2. \A m \in Elems(inbox[link]) : m.type # "ExistingTerminals"
      BY <3>1 DEF Links
    <3>3. (Reported(link, t) <=> t \in work[c].ids) /\ ~Reported(link, t)'
      BY <1>0, <2>0, <3>1, <3>2 DEF Reported
    <3>4. terminals'[t] # Absent <=> t \in work[c].ids \/ terminals[t] # Absent
      <4>1. terminals'[t] = IF t \in work[c].ids THEN Restored(t, work[c].old) ELSE terminals[t]
        BY <1>0, <2>7, <3>1 DEF Reconcile
      <4>2. Restored(t, work[c].old) # Absent
        BY <1>0 DEF Restored
      <4> QED BY <4>1, <4>2
    <3>5. \A k \in {"TerminalCreated"} \cup Ends : Says(link, k, t)' <=> Says(link, k, t)
      BY <2>0, <3>1 DEF Says
    <3>6. Heard(t)' <=> Heard(t)
      BY <2>0, <3>1, <3>3, <3>4, <3>5 DEF Heard
    <3> QED BY <1>2, <2>0, <3>6
  <2>8. CASE TerminalInserted(c) \/ DestroyRow(c) \/ PruneTab(c)
    <3>1. /\ UNCHANGED <<inbox, terminals>> /\ work[c].type # "reconcile" /\ work'[c] = Idle
      BY <1>0, <2>8 DEF TerminalInserted, DestroyRow, PruneTab
    <3>2. Reported(link, t)' <=> Reported(link, t)
      BY <1>0, <2>0, <3>1 DEF Reported
    <3>3. \A k \in {"TerminalCreated"} \cup Ends : Says(link, k, t)' <=> Says(link, k, t)
      BY <2>0, <3>1 DEF Says
    <3> QED BY <1>3, <2>0, <3>1, <3>2, <3>3
  <2> HIDE DEF Goal
  <2> QED BY <1>7, <2>4, <2>5, <2>6, <2>7, <2>8 DEF ControlTask
<1>8. ASSUME NEW u \in Terminal, Http(u) PROVE Goal
  <2>1. UNCHANGED <<handler, inbox, work, node>>
    BY <1>8 DEF Http, CreateTerminal, CreateFails, OpenTab, ChooseTab, StoreTab, SaveTab, DestroyTerminal
  <2>2. terminals'[t] # Absent <=> terminals[t] # Absent
    <3>1. CASE StoreTab(u)
      <4>1. request[u].tab # Absent
        BY <1>0 DEF Request
      <4> QED BY <1>0, <3>1, <4>1 DEF StoreTab
    <3> QED BY <1>8, <3>1 DEF Http, CreateTerminal, CreateFails, OpenTab, ChooseTab, SaveTab, DestroyTerminal
  <2> HIDE DEF Goal
  <2> QED BY <1>0, <1>4, <2>1, <2>2 DEF Hears
<1>9. ASSUME NEW g \in Tab, DeleteTab(g) \/ clear_workspace_group_assignments(g) PROVE Goal
  <2>1. UNCHANGED <<handler, inbox, work, node>>
    BY <1>9 DEF DeleteTab, clear_workspace_group_assignments
  <2>2. terminals'[t] # Absent <=> terminals[t] # Absent
    BY <1>0, <1>9 DEF DeleteTab, clear_workspace_group_assignments, Cleared
  <2> HIDE DEF Goal
  <2> QED BY <1>0, <1>4, <2>1, <2>2 DEF Hears
<1>10. ASSUME NEW m \in Message, m.type \in {"TerminalCreated"} \cup Ends, Tell(m),
              UNCHANGED <<handler, memory, work, link>>, link \in Conn,
              IF m.type = "TerminalCreated" /\ m.id = t
              THEN t \in sessions' \ reported' /\ \A k \in Ends : ~Says(link, k, t)
              ELSE IF m.id = t THEN t \notin sessions' \ reported'
              ELSE t \in sessions' \ reported' <=> t \in sessions \ reported
       PROVE  Goal
  <2>1. Elems(inbox'[link]) = Elems(inbox[link]) \cup {m}
    BY <1>10, Told DEF Hears
  <2>2. \A k \in {"TerminalCreated"} \cup Ends :
           Says(link, k, t)' <=> Says(link, k, t) \/ (m.type = k /\ m.id = t)
    BY <1>10, <2>1 DEF Says
  <2>3. Reported(link, t)' <=> Reported(link, t)
    BY <1>10, <2>1 DEF Reported, Ends
  <2>4. (t \in sessions \ reported <=> Heard(t)) /\ handler[link] = handler'[link]
    BY <1>2, <1>10 DEF Hears
  <2>5. CASE m.type = "TerminalCreated" /\ m.id = t
    BY <1>10, <2>2, <2>5 DEF Heard, Ends
  <2>6. CASE m.type \in Ends /\ m.id = t
    BY <1>10, <2>2, <2>6 DEF Heard, Ends
  <2>7. CASE m.id # t
    BY <1>10, <2>2, <2>3, <2>4, <2>7 DEF Heard
  <2> QED BY <1>10, <2>5, <2>6, <2>7
<1> DEFINE k == Head(orders[link])
<1>11. CASE NodeCreates
  <2> DEFINE m == [type |-> "TerminalCreated", id |-> k.id]
  <2>1. /\ link \in Conn /\ k.id \in Terminal /\ Unborn(k.id)
        /\ Asks(link, "CreateTerminal", k.id)
    <3>1. Elems(orders[link]) = Elems(orders'[link]) \cup {k} /\ k.type = "CreateTerminal"
      BY <1>11, Obeyed DEF NodeCreates
    <3> QED BY <1>11, <3>1, CreatesUnborn DEF Asks
  <2>2. m \in Message /\ m.type = "TerminalCreated" /\ m.id = k.id
    BY <2>1 DEF Message
  <2>3. k.id \notin reported
    BY <2>1 DEF KnowsTruth
  <2>4. \A e \in Ends : ~Says(link, e, k.id)
    BY <2>1 DEF Unborn, Mentioned, Ends
  <2>5. Tell(m) /\ sessions' = sessions \cup {k.id} /\ UNCHANGED <<handler, memory, work, link, reported>>
    BY <1>11 DEF NodeCreates
  <2> HIDE DEF m, k, Goal
  <2> QED BY <1>10, <2>1, <2>2, <2>3, <2>4, <2>5
<1>12. CASE NodeDestroys
  <2> DEFINE m == [type |-> "TerminalDestroyed", id |-> k.id]
  <2>1. link \in Conn /\ k.id \in Terminal
    BY <1>12, Obeyed DEF NodeDestroys
  <2>2. m \in Message /\ m.type = "TerminalDestroyed" /\ m.id = k.id /\ m.type \in Ends
    BY <2>1 DEF Message, Ends
  <2>3. Tell(m) /\ sessions' = sessions \ {k.id} /\ UNCHANGED <<handler, memory, work, link, reported>>
    BY <1>12 DEF NodeDestroys
  <2> HIDE DEF m, k, Goal
  <2> QED BY <1>10, <2>1, <2>2, <2>3
<1>13. ASSUME NEW u \in Terminal, WatcherReports(u) PROVE Goal
  <2> DEFINE m == [type |-> "TerminalDied", id |-> u]
  <2>1. m \in Message /\ m.type = "TerminalDied" /\ m.id = u /\ m.type \in Ends
    BY DEF Message, Ends
  <2>2. Tell(m) /\ reported' = reported \cup {u} /\ UNCHANGED <<handler, memory, work, link, sessions>>
        /\ link \in Conn
    BY <1>0, <1>13 DEF WatcherReports
  <2> HIDE DEF m, Goal
  <2> QED BY <1>10, <2>1, <2>2
<1>14. ASSUME NEW u \in Terminal, SessionEnds(u) PROVE Goal
  BY <1>0, <1>4, <1>14 DEF SessionEnds, Hears
<1>15. CASE Leave \/ RestartNode \/ RestartHub
  <2>1. CASE Leave
    BY <1>0, <2>1 DEF Leave, Hears
  <2>2. CASE RestartNode
    BY <1>0, <2>2 DEF RestartNode, Hears
  <2>3. CASE RestartHub
    BY <1>0, <2>3 DEF RestartHub, Hears
  <2> QED BY <1>15, <2>1, <2>2, <2>3
<1>16. CASE UNCHANGED vars
  BY <1>0, <1>4, <1>16 DEF vars, Hears
<1> HIDE DEF Goal
<1>17. CASE \E c \in Conn : \/ Connect(c) \/ register_machine(c) \/ EndHandler(c)
                            \/ unregister_machine(c) \/ ControlTask(c)
  BY <1>1, <1>5, <1>6, <1>7, <1>17
<1> QED BY <1>8, <1>9, <1>11, <1>12, <1>13, <1>14, <1>15, <1>16, <1>17 DEF Next

LEMMA KnowsTruthKept ==
    ASSUME TypeOK, RegistryAssumption, Lag = "none", Births, WellSent, Links, KnowsTruth, [Next]_vars
    PROVE  KnowsTruth'
BY ReportedBorn, AliveUnreported, HearsTruth DEF KnowsTruth

-----------------------------------------------------------------------------
(* What the hub lists has an active row *)

(* How a terminal comes to be one that the hub has. *)
LEMMA KeptStep ==
    ASSUME TypeOK, RegistryAssumption, [Next]_vars, TypeOK', NEW t \in Terminal, Kept(t)'
    PROVE  \/ Kept(t) /\ ~RestartHub
           \/ \E c \in Conn : TerminalCreated(c) /\ Head(inbox[c]).id = t
           \/ \E c \in Conn : Reconcile(c) /\ t \in work[c].ids
           \/ RestartHub /\ row[t] = "active" /\ row' = row
<1>0. CASE RestartHub
  <2>1. /\ terminals' = Nobody /\ \A c \in Conn : work'[c] = Idle
        /\ row' = row /\ (row[t] # "active" => persisted'[t] = Absent)
    BY <1>0 DEF RestartHub
  <2>2. row[t] = "active"
    BY <2>1 DEF Kept, Old, Nobody, Idle
  <2> QED BY <1>0, <2>1, <2>2
<1>1. CASE ~RestartHub
  <2>0. \A c \in Conn : work'[c] \in Work
    BY DEF TypeOK
  <2>1. \A c \in Conn : work'[c].type = "reconcile" => work'[c].old[t] \in Places
    BY <2>0, WorkKinds
  <2>2. PICK g \in Tab \cup {NoTab} : At(t, g)'
    BY <2>1 DEF TypeOK, Kept, Old, At, Places, RegistryAssumption
  <2>3. \A h \in Tab \cup {NoTab} : At(t, h) => Kept(t)
    BY KeptAt
  <2>4. terminals[t] # Absent \/ persisted[t] # Absent => Kept(t)
    BY DEF Kept
  <2>5. CASE At(t, g) \/ \E h \in Tab : At(t, h)
    BY <1>1, <2>3, <2>5
  <2>6. CASE terminals[t] # Absent \/ persisted[t] # Absent
    BY <1>1, <2>4, <2>6
  <2>7. \/ At(t, g) \/ \E h \in Tab : At(t, h)
        \/ \E c \in Conn : TerminalCreated(c) /\ Head(inbox[c]).id = t
        \/ \E c \in Conn : Reconcile(c) /\ t \in work[c].ids
        \/ terminals[t] # Absent \/ persisted[t] # Absent
    BY <1>1, <2>2, AtStep
  <2> QED BY <1>1, <2>5, <2>6, <2>7
<1> QED BY <1>0, <1>1

(* A message that ends a terminal takes it from the hub. *)
LEMMA TakenAway ==
    ASSUME TypeOK, RegistryAssumption, Lag = "none", WellSent, Links, Maps, NEW c \in Conn,
           TerminalDestroyed(c) \/ TerminalDied(c), current # NoConn,
           NEW t \in Terminal, Head(inbox[c]).id = t
    PROVE  ~Kept(t)'
<1> USE DEF memory, database, requests, node
<1>1. PICK type : Take(c, type) /\ type # "ExistingTerminals"
  BY DEF TerminalDestroyed, TerminalDied
<1>2. /\ handler[c] = "up" /\ current = c /\ work[c] = Idle
  BY <1>1 DEF Take, MayHandle, InTime
<1>3. persisted = Nobody
  BY <1>1, <1>2, NoReportLeft DEF Maps
<1>4. /\ persisted' = persisted /\ terminals' = [terminals EXCEPT ![t] = Absent]
      /\ \A d \in Conn \ {c} : work'[d] = work[d]
      /\ work'[c].type # "reconcile"
  BY <1>2 DEF TerminalDestroyed, TerminalDied, TypeOK
<1>5. \A d \in Conn : work'[d].type # "reconcile"
  BY <1>2, <1>4 DEF Links
<1>6. terminals'[t] = Absent /\ persisted'[t] = Absent
  BY <1>2, <1>3, <1>4 DEF Nobody, TypeOK
<1> QED BY <1>5, <1>6 DEF Kept, Old

(* What the hub has is remembered in an active row, or is about to be; an  *)
(* ended terminal is no longer in a map, a new one has no tab.             *)
Listed(t) ==
    /\ Kept(t) => row[t] = "active" \/ \E c \in Conn : Does(c, "insert", t)
    /\ \A c \in Conn : Does(c, "destroy", t) => ~Kept(t)
    /\ \A c \in Conn : Does(c, "insert", t) => row[t] = "active" \/ rowTab[t] = NoTab
Listing == \A t \in Terminal : Listed(t)

(* Only the task that is at work can take or handle a message. *)
LEMMA OneTask ==
    ASSUME RegistryAssumption, Lag = "none", Links, NEW c \in Conn, work[c] # Idle,
           NEW d \in Conn
    PROVE  ~MayHandle(d) /\ (work[d] # Idle => d = c)
BY DEF Links, MayHandle, InTime, RegistryAssumption

LEMMA InsertUntabbed ==
    ASSUME TypeOK, RegistryAssumption, Lag = "none", Links, Newborn, Listing, [Next]_vars,
           NEW t \in Terminal, NEW c \in Conn, Does(c, "insert", t)'
    PROVE  row'[t] = "active" \/ rowTab'[t] = NoTab
<1>1. CASE TerminalCreated(c) /\ Head(inbox[c]).id = t
  <2>1. /\ Live(c) /\ Head(inbox[c]) \in Elems(inbox[c]) /\ Head(inbox[c]).type = "TerminalCreated"
        /\ UNCHANGED database
    BY <1>1, Took DEF TerminalCreated, Take, MayHandle, InTime, Live, Joining
  <2> QED BY <1>1, <2>1 DEF Newborn, Says, database
<1>2. CASE Does(c, "insert", t) /\ ~RestartHub
  <2>1. work[c] # Idle
    BY <1>2 DEF Does, Idle
  <2>2. row[t] = "active" => row'[t] = "active"
    <3>1. ASSUME NEW d \in Conn, DestroyRow(d) \/ TerminalDied(d) \/ Reconcile(d) PROVE FALSE
      BY <1>2, <2>1, <3>1, OneTask DEF Does, DestroyRow, TerminalDied, Take, Reconcile, Idle
    <3> QED BY <3>1, RowStep
  <2>3. row[t] # "active" => row'[t] = "active" \/ rowTab'[t] = NoTab
    <3>1. SaveTab(t) => row'[t] = "active"
      BY DEF SaveTab, TypeOK
    <3> QED BY <1>2, <3>1, RowTabFree DEF Listing, Listed
  <2> QED BY <2>2, <2>3
<1>3. Does(c, "insert", t)' => work'[c] # Idle /\ work'[c].type = "insert"
  BY DEF Does, Idle
<1>4. ~RestartHub
  BY <1>3 DEF RestartHub
<1> QED BY <1>1, <1>2, <1>3, <1>4, WorkStep DEF Does

LEMMA EndedNotKept ==
    ASSUME TypeOK, RegistryAssumption, Lag = "none", WellSent, Links, Maps, Listing, [Next]_vars, TypeOK',
           NEW t \in Terminal, NEW c \in Conn, Does(c, "destroy", t)'
    PROVE  ~Kept(t)'
<1>1. CASE TerminalDestroyed(c) /\ current # NoConn /\ Head(inbox[c]).id = t
  BY <1>1, TakenAway
<1>2. CASE Does(c, "destroy", t) /\ ~RestartHub
  <2>1. work[c] # Idle /\ work[c].type = "destroy" /\ ~Kept(t)
    BY <1>2 DEF Does, Idle, Listing, Listed
  <2>2. ASSUME NEW d \in Conn, TerminalCreated(d) \/ Reconcile(d) PROVE FALSE
    BY <2>1, <2>2, OneTask DEF TerminalCreated, Take, Reconcile, Idle
  <2> QED BY <1>2, <2>1, <2>2, KeptStep
<1>3. Does(c, "destroy", t)' => work'[c] # Idle /\ work'[c].type = "destroy"
  BY DEF Does, Idle
<1>4. ~RestartHub
  BY <1>3 DEF RestartHub
<1> QED BY <1>1, <1>2, <1>3, <1>4, WorkStep DEF Does

LEMMA KeptActive ==
    ASSUME TypeOK, RegistryAssumption, Lag = "none", WellSent, Links, Maps, Listing, [Next]_vars, TypeOK',
           NEW t \in Terminal, Kept(t)'
    PROVE  row'[t] = "active" \/ \E c \in Conn : Does(c, "insert", t)'
<1>1. CASE RestartHub /\ row[t] = "active" /\ row' = row
  BY <1>1
<1>2. ASSUME NEW c \in Conn, TerminalCreated(c), Head(inbox[c]).id = t PROVE Does(c, "insert", t)'
  BY <1>2 DEF TerminalCreated, Does, TypeOK
<1>3. ASSUME NEW c \in Conn, Reconcile(c) PROVE row'[t] = "active"
  <2>1. work[c].type = "reconcile" /\ current = c /\ work[c] # Idle
    BY <1>3 DEF Reconcile, Links, Idle
  <2>2. row' = ReconciledRows(work[c].ids, work[c].old)
    BY <1>3, <2>1 DEF Reconcile, RegistryAssumption
  <2>3. \A d \in Conn : ~Does(d, "insert", t)
    BY <2>1, OneTask DEF Does, Idle
  <2>4. Old(c, t) => row[t] = "active"
    BY <2>1, <2>3 DEF Old, Kept, Listing, Listed
  <2>5. CASE t \in work[c].ids
    BY <2>1, <2>2, <2>4, <2>5 DEF ReconciledRows, mark_destroyed, Old
  <2>6. CASE t \notin work[c].ids
    <3>1. terminals = Nobody /\ persisted = Nobody
      BY <2>1 DEF Maps
    <3>2. terminals'[t] = Absent /\ persisted'[t] = Absent
      BY <1>3, <2>1, <2>6, <3>1 DEF Reconcile, RegistryAssumption, Nobody
    <3>3. \A d \in Conn : work'[d].type # "reconcile"
      BY <1>3, <2>1, OneTask DEF Reconcile, Idle, TypeOK
    <3> QED BY <3>2, <3>3 DEF Kept, Old
  <2> QED BY <2>5, <2>6
<1>4. ASSUME Kept(t), ~RestartHub, \A c \in Conn : ~Reconcile(c)
      PROVE  row'[t] = "active" \/ \E c \in Conn : Does(c, "insert", t)'
  <2>1. CASE row[t] = "active"
    <3>1. ASSUME NEW c \in Conn, DestroyRow(c), Does(c, "destroy", t) PROVE FALSE
      BY <1>4, <3>1 DEF Listing, Listed
    <3>2. ASSUME NEW c \in Conn, TerminalDied(c), current # NoConn, Head(inbox[c]).id = t PROVE FALSE
      BY <3>2, TakenAway
    <3> QED BY <1>4, <2>1, <3>1, <3>2, RowStep
  <2>2. ASSUME NEW c \in Conn, Does(c, "insert", t)
        PROVE  row'[t] = "active" \/ Does(c, "insert", t)'
    <3>1. work[c] # Idle /\ work[c].type = "insert" /\ ~MayHandle(c)
      BY <2>2, OneTask DEF Does, Idle
    <3>2. ~TerminalCreated(c) /\ ~TerminalDestroyed(c) /\ ~TerminalDied(c) /\ ~ExistingTerminals(c)
          /\ ~DestroyRow(c) /\ ~PruneTab(c) /\ ~Reconcile(c)
      BY <3>1 DEF TerminalCreated, TerminalDestroyed, TerminalDied, ExistingTerminals, Take,
                  DestroyRow, PruneTab, Reconcile
    <3>3. TerminalInserted(c) => row'[t] = "active"
      BY <2>2 DEF TerminalInserted, Does, TypeOK
    <3>4. EndHandler(c) => work'[c] = work[c]
      BY <3>1 DEF EndHandler, TypeOK
    <3> QED BY <1>4, <2>2, <3>2, <3>3, <3>4, WorkStep DEF Does
  <2> QED BY <1>4, <2>1, <2>2 DEF Listing, Listed
<1> QED BY <1>1, <1>2, <1>3, <1>4, KeptStep

LEMMA ListingKept ==
    ASSUME TypeOK, RegistryAssumption, Lag = "none", WellSent, Links, Newborn, Maps, Listing, [Next]_vars, TypeOK'
    PROVE  Listing'
BY InsertUntabbed, EndedNotKept, KeptActive DEF Listing, Listed

-----------------------------------------------------------------------------
(* Tabs agree, in memory and in the rows *)

(* A tab id is used once: what names a tab names one that was opened, and  *)
(* a tab that was deleted does not come back.                              *)
Used ==
    /\ \A t \in Terminal, g \in Tab : At(t, g) => g \in usedTabs
    /\ \A t \in Terminal : request[t].tab \in usedTabs \cup {NoTab}
    /\ tabs \subseteq usedTabs /\ deleting \subseteq usedTabs \ tabs

LEMMA TabsStep ==
    ASSUME TypeOK, RegistryAssumption, RowsNameTabs, Used, [Next]_vars
    PROVE  /\ usedTabs \subseteq usedTabs' /\ tabs' \cap usedTabs \subseteq tabs
           /\ tabs' \subseteq usedTabs' /\ deleting' \subseteq usedTabs' \ tabs'
<1> USE DEF memory, database, requests, node
<1> DEFINE Goal == /\ usedTabs \subseteq usedTabs' /\ tabs' \cap usedTabs \subseteq tabs
                   /\ tabs' \subseteq usedTabs' /\ deleting' \subseteq usedTabs' \ tabs'
<1> SUFFICES Goal
  OBVIOUS
<1>1. tabs \subseteq usedTabs /\ deleting \subseteq usedTabs \ tabs
  BY DEF Used
<1>2. ASSUME tabs' \subseteq tabs, deleting' \subseteq deleting, UNCHANGED usedTabs PROVE Goal
  BY <1>1, <1>2
<1>3. ASSUME NEW c \in Conn, \/ Connect(c) \/ register_machine(c) \/ EndHandler(c)
                             \/ unregister_machine(c) \/ ControlTask(c)
      PROVE  Goal
  <2>1. CASE DestroyRow(c) \/ PruneTab(c) \/ Reconcile(c)
    BY <1>2, <2>1 DEF DestroyRow, PruneTab, Reconcile, Prune
  <2>2. CASE ControlTask(c) /\ ~(DestroyRow(c) \/ PruneTab(c) \/ Reconcile(c))
    BY <1>2, <2>2 DEF ControlTask, TerminalCreated, TerminalInserted, TerminalDestroyed,
                      TerminalDied, ExistingTerminals
  <2>3. CASE Connect(c) \/ register_machine(c) \/ EndHandler(c) \/ unregister_machine(c)
    BY <1>2, <2>3 DEF Connect, register_machine, EndHandler, unregister_machine
  <2> HIDE DEF Goal
  <2> QED BY <1>3, <2>1, <2>2, <2>3
<1>4. ASSUME NEW t \in Terminal, Http(t) PROVE Goal
  <2>1. ASSUME NEW g \in Tab, OpenTab(t, g) PROVE Goal
    BY <1>1, <2>1 DEF OpenTab
  <2>2. CASE SaveTab(t)
    BY <1>2, <2>2 DEF SaveTab
  <2>3. CASE UNCHANGED <<tabs, deleting, usedTabs>>
    BY <1>2, <2>3
  <2>4. \/ SaveTab(t) \/ \E g \in Tab : OpenTab(t, g)
        \/ UNCHANGED <<tabs, deleting, usedTabs>>
    BY <1>4 DEF Http, CreateTerminal, CreateFails, ChooseTab, StoreTab, DestroyTerminal
  <2> HIDE DEF Goal
  <2> QED BY <2>1, <2>2, <2>3, <2>4
<1>5. ASSUME NEW t \in Terminal, SessionEnds(t) \/ WatcherReports(t) PROVE Goal
  BY <1>2, <1>5 DEF SessionEnds, WatcherReports
<1>6. ASSUME NEW g \in Tab, DeleteTab(g) PROVE Goal
  BY <1>1, <1>6 DEF DeleteTab
<1>7. ASSUME NEW g \in Tab, clear_workspace_group_assignments(g) PROVE Goal
  BY <1>2, <1>7 DEF clear_workspace_group_assignments
<1>8. CASE NodeCreates \/ NodeDestroys \/ Leave \/ RestartNode \/ UNCHANGED vars
  BY <1>2, <1>8 DEF NodeCreates, NodeDestroys, Leave, RestartNode, vars
<1>9. CASE RestartHub
  <2>1. PICK opened \in [Ungrouped -> Tab \ usedTabs] :
          /\ tabs' = delete_empty_auto_tabs(tabs \cup {opened[t] : t \in Ungrouped},
                                            migrate_ungrouped_terminals_into_tabs(opened))
          /\ usedTabs' = usedTabs \cup {opened[t] : t \in Ungrouped}
    BY <1>9 DEF RestartHub
  <2>2. \A t \in Ungrouped : opened[t] \notin usedTabs
    BY <2>1
  <2>3. tabs' \subseteq tabs \cup {opened[t] : t \in Ungrouped} /\ deleting' = {}
    BY <1>9, <2>1 DEF delete_empty_auto_tabs, RestartHub
  <2> QED BY <1>1, <2>1, <2>2, <2>3
<1> HIDE DEF Goal
<1> QED BY <1>3, <1>4, <1>5, <1>6, <1>7, <1>8, <1>9 DEF Next

(* Only the terminal's own request moves its row to another tab. *)
LEMMA RowTabMoves ==
    ASSUME TypeOK, RegistryAssumption, RowsNameTabs, [Next]_vars, NEW t \in Terminal,
           ~SaveTab(t), ~RestartHub
    PROVE  \/ rowTab'[t] = rowTab[t]
           \/ rowTab'[t] = NoTab /\ rowTab[t] \in Tab \ tabs'
<1> USE DEF memory, database, requests, node
<1> DEFINE Goal == \/ rowTab'[t] = rowTab[t]
                   \/ rowTab'[t] = NoTab /\ rowTab[t] \in Tab \ tabs'
<1> SUFFICES Goal
  OBVIOUS
<1>0. rowTab \in [Terminal -> Tab \cup {NoTab}] /\ tabs \subseteq Tab /\ NoTab \notin Tab
  BY DEF TypeOK, RegistryAssumption
<1>1. ASSUME NEW gs, NEW rows, Prune(gs, rows) PROVE Goal
  BY <1>0, <1>1 DEF Prune
<1>2. ASSUME NEW c \in Conn, \/ Connect(c) \/ register_machine(c) \/ EndHandler(c)
                             \/ unregister_machine(c) \/ ControlTask(c)
      PROVE  Goal
  <2>1. CASE UNCHANGED rowTab
    BY <2>1
  <2>2. DestroyRow(c) \/ PruneTab(c) \/ Reconcile(c) => UNCHANGED rowTab \/ \E gs, rows : Prune(gs, rows)
    BY DEF DestroyRow, PruneTab, Reconcile
  <2>3. UNCHANGED rowTab \/ DestroyRow(c) \/ PruneTab(c) \/ Reconcile(c)
    BY <1>2 DEF Connect, register_machine, EndHandler, unregister_machine, ControlTask, TerminalCreated,
                TerminalInserted, TerminalDestroyed, TerminalDied, ExistingTerminals
  <2> HIDE DEF Goal
  <2> QED BY <1>1, <2>1, <2>2, <2>3
<1>3. ASSUME NEW u \in Terminal, Http(u) PROVE Goal
  <2>1. CASE SaveTab(u)
    <3>1. u # t
      BY <2>1
    <3> QED BY <1>0, <2>1, <3>1 DEF SaveTab
  <2>2. CASE UNCHANGED rowTab
    BY <2>2
  <2>3. SaveTab(u) \/ UNCHANGED rowTab
    BY <1>3 DEF Http, CreateTerminal, CreateFails, OpenTab, ChooseTab, StoreTab, DestroyTerminal
  <2> HIDE DEF Goal
  <2> QED BY <2>1, <2>2, <2>3
<1>4. ASSUME NEW u \in Terminal, SessionEnds(u) \/ WatcherReports(u) PROVE Goal
  BY <1>4 DEF SessionEnds, WatcherReports
<1>5. ASSUME NEW g \in Tab, DeleteTab(g) \/ clear_workspace_group_assignments(g) PROVE Goal
  BY <1>0, <1>5 DEF DeleteTab, clear_workspace_group_assignments
<1>6. CASE NodeCreates \/ NodeDestroys \/ Leave \/ RestartNode \/ UNCHANGED vars
  BY <1>6 DEF NodeCreates, NodeDestroys, Leave, RestartNode, vars
<1> HIDE DEF Goal
<1> QED BY <1>2, <1>3, <1>4, <1>5, <1>6 DEF Next

(* How the request about a terminal goes on. *)
LEMMA RequestStep ==
    ASSUME TypeOK, RegistryAssumption, Births, [Next]_vars, NEW t \in Terminal
    PROVE  \/ UNCHANGED failed /\ request'[t] = request[t]
           \/ /\ request[t].at # "stored" /\ request'[t].at # "stored" /\ UNCHANGED failed
              /\ request'[t].tab \in {request[t].tab, NoTab} \cup tabs \cup usedTabs'
           \/ StoreTab(t) /\ UNCHANGED failed
           \/ SaveTab(t)
           \/ \E u \in Terminal : u # t /\ SaveTab(u) /\ request'[t] = request[t]
                                  /\ (t \in failed' <=> t \in failed)
           \/ RestartHub
<1> USE DEF memory, database, requests, node
<1> DEFINE Goal ==
           \/ UNCHANGED failed /\ request'[t] = request[t]
           \/ /\ request[t].at # "stored" /\ request'[t].at # "stored" /\ UNCHANGED failed
              /\ request'[t].tab \in {request[t].tab, NoTab} \cup tabs \cup usedTabs'
           \/ StoreTab(t) /\ UNCHANGED failed
           \/ SaveTab(t)
           \/ \E u \in Terminal : u # t /\ SaveTab(u) /\ request'[t] = request[t]
                                  /\ (t \in failed' <=> t \in failed)
           \/ RestartHub
<1> SUFFICES Goal
  OBVIOUS
<1>0. request \in [Terminal -> Request]
  BY DEF TypeOK
<1>1. ASSUME NEW c \in Conn, TerminalInserted(c) PROVE Goal
  <2> DEFINE u == work[c].id
             r == request[u]
             at == IF r.at # "creating" THEN r.at ELSE IF r.tab = NoTab THEN "created" ELSE "chosen"
  <2>1. request' = [request EXCEPT ![u] = [r EXCEPT !.at = at]] /\ UNCHANGED failed
    BY <1>1 DEF TerminalInserted
  <2> HIDE DEF u, r, at
  <2>2. CASE u # t
    BY <1>0, <2>1, <2>2
  <2>3. CASE u = t
    <3>1. request'[t] = [r EXCEPT !.at = at] /\ r = request[t] /\ r \in Request
      BY <1>0, <2>1, <2>3 DEF r
    <3>2. CASE r.at # "creating"
      <4>1. [r EXCEPT !.at = at] = r
        BY <3>1, <3>2 DEF at, Request
      <4> QED BY <2>1, <3>1, <4>1
    <3>3. CASE r.at = "creating"
      <4>1. /\ [r EXCEPT !.at = at].at \in {"created", "chosen"}
            /\ [r EXCEPT !.at = at].tab = r.tab
        BY <3>1, <3>3 DEF at, Request
      <4> QED BY <2>1, <3>1, <3>3, <4>1
    <3> QED BY <3>2, <3>3
  <2> QED BY <2>2, <2>3
<1>2. CASE UNCHANGED <<request, failed>>
  BY <1>2
<1>3. ASSUME NEW c \in Conn, \/ Connect(c) \/ register_machine(c) \/ EndHandler(c)
                             \/ unregister_machine(c) \/ ControlTask(c)
      PROVE  Goal
  <2>1. UNCHANGED <<request, failed>> \/ TerminalInserted(c)
    BY <1>3 DEF Connect, register_machine, EndHandler, unregister_machine, ControlTask, TerminalCreated,
                DestroyRow, PruneTab, Reconcile, TerminalDestroyed, TerminalDied, ExistingTerminals
  <2> HIDE DEF Goal
  <2> QED BY <1>1, <1>2, <2>1
<1>4. ASSUME NEW u \in Terminal, NEW q, request' = [request EXCEPT ![u] = q], UNCHANGED failed,
             request[u].at # "stored", q.at # "stored",
             q.tab \in {request[u].tab, NoTab} \cup tabs \cup usedTabs'
      PROVE  Goal
  BY <1>0, <1>4
<1>5. ASSUME NEW u \in Terminal, Http(u) PROVE Goal
  <2>1. CASE SaveTab(u)
    <3>1. request' = [request EXCEPT ![u] = NoRequest] /\ (failed' = failed \ {u} \/ failed' = failed \cup {u})
      BY <2>1 DEF SaveTab
    <3>2. u # t => request'[t] = request[t] /\ (t \in failed' <=> t \in failed)
      BY <1>0, <3>1
    <3> QED BY <2>1, <3>2
  <2>2. CASE StoreTab(u)
    BY <1>0, <2>2 DEF StoreTab
  <2>3. CASE CreateFails(u)
    BY <1>4, <2>3 DEF CreateFails, NoRequest
  <2>4. ASSUME NEW g \in Tab, OpenTab(u, g) PROVE Goal
    BY <1>4, <2>4 DEF OpenTab
  <2>5. ASSUME NEW g \in Tab \cup {NoTab}, CreateTerminal(u, g) PROVE Goal
    <3>1. request[u].at # "stored"
      BY <2>5 DEF CreateTerminal, Births, Unborn, Noted
    <3> QED BY <1>4, <2>5, <3>1 DEF CreateTerminal, HasRoom
  <2>6. ASSUME NEW g \in Tab \cup {NoTab}, ChooseTab(u, g) PROVE Goal
    BY <1>4, <2>6 DEF ChooseTab, HasRoom
  <2>7. CASE DestroyTerminal(u)
    BY <1>2, <2>7 DEF DestroyTerminal
  <2> HIDE DEF Goal
  <2> QED BY <1>5, <2>1, <2>2, <2>3, <2>4, <2>5, <2>6, <2>7 DEF Http
<1>6. ASSUME NEW u \in Terminal, SessionEnds(u) \/ WatcherReports(u) PROVE Goal
  BY <1>6 DEF SessionEnds, WatcherReports
<1>7. ASSUME NEW g \in Tab, DeleteTab(g) \/ clear_workspace_group_assignments(g) PROVE Goal
  BY <1>7 DEF DeleteTab, clear_workspace_group_assignments
<1>8. CASE NodeCreates \/ NodeDestroys \/ Leave \/ RestartNode \/ UNCHANGED vars
  BY <1>8 DEF NodeCreates, NodeDestroys, Leave, RestartNode, vars
<1> HIDE DEF Goal
<1> QED BY <1>3, <1>5, <1>6, <1>7, <1>8 DEF Next, Goal

(* A restart groups the active terminals and keeps the tabs they are in. *)
LEMMA RestartGroups ==
    ASSUME TypeOK, RegistryAssumption, RowsNameTabs, RestartHub, NEW t \in Terminal
    PROVE  /\ terminals'[t] = Absent /\ \A c \in Conn : work'[c] = Idle
           /\ row[t] # "active" => persisted'[t] = Absent
           /\ row[t] = "active" => persisted'[t] = rowTab'[t] /\ rowTab'[t] \in tabs'
           /\ request'[t] = NoRequest
<1>1. PICK opened \in [Ungrouped -> Tab \ usedTabs] :
        LET grouped == migrate_ungrouped_terminals_into_tabs(opened)
            new == {opened[u] : u \in Ungrouped}
        IN  /\ tabs' = delete_empty_auto_tabs(tabs \cup new, grouped)
            /\ rowTab' = [u \in Terminal |-> IF grouped[u] \in tabs' THEN grouped[u] ELSE NoTab]
            /\ persisted' = [u \in Terminal |-> IF row[u] = "active" THEN grouped[u] ELSE Absent]
  BY DEF RestartHub
<1> DEFINE grouped == migrate_ungrouped_terminals_into_tabs(opened)
           new == {opened[u] : u \in Ungrouped}
<1>2. /\ terminals'[t] = Absent /\ \A c \in Conn : work'[c] = Idle
      /\ request'[t] = NoRequest
  BY DEF RestartHub, Nobody
<1>3. ASSUME row[t] = "active" PROVE grouped[t] \in tabs'
  <2>1. grouped[t] \in tabs \cup new
    BY <1>3 DEF migrate_ungrouped_terminals_into_tabs, Ungrouped, RowsNameTabs
  <2> HIDE DEF grouped, new
  <2>2. tabs' = delete_empty_auto_tabs(tabs \cup new, grouped)
    BY <1>1 DEF grouped, new
  <2> QED BY <1>3, <2>1, <2>2 DEF delete_empty_auto_tabs
<1> QED BY <1>1, <1>2, <1>3

LEMMA UsedKept ==
    ASSUME TypeOK, RegistryAssumption, RowsNameTabs, Births, Used, [Next]_vars, TypeOK', RowsNameTabs'
    PROVE  Used'
<1>1. /\ usedTabs \subseteq usedTabs' /\ tabs' \cap usedTabs \subseteq tabs
      /\ tabs' \subseteq usedTabs' /\ deleting' \subseteq usedTabs' \ tabs'
      /\ tabs \subseteq usedTabs
      /\ \A t \in Terminal : request[t].tab \in usedTabs \cup {NoTab}
  BY TabsStep DEF Used
<1>2. ASSUME NEW t \in Terminal, NEW g \in Tab, At(t, g)' PROVE g \in usedTabs'
  <2>1. CASE At(t, g)
    BY <1>1, <2>1 DEF Used
  <2>2. CASE g = NoTab
    BY <2>2 DEF RegistryAssumption
  <2>3. ASSUME NEW c \in Conn, Reconcile(c), g = Restored(t, work[c].old) PROVE g \in usedTabs'
    <3>1. CASE g = rowTab[t]
      BY <1>1, <2>2, <3>1 DEF RowsNameTabs
    <3>2. CASE g = work[c].old[t]
      BY <2>1, <2>3, <3>2 DEF At, Reconcile
    <3> QED BY <2>3, <3>1, <3>2 DEF Restored
  <2>4. CASE g = request[t].tab
    BY <1>1, <2>2, <2>4
  <2>5. CASE RestartHub /\ g = persisted'[t]
    <3>1. g \in tabs'
      BY <2>5, RestartGroups DEF RegistryAssumption
    <3> QED BY <1>1, <3>1
  <2> QED BY <1>2, <2>1, <2>2, <2>3, <2>4, <2>5, AtStep
<1>3. ASSUME NEW t \in Terminal PROVE request'[t].tab \in usedTabs' \cup {NoTab}
  <2>1. CASE StoreTab(t)
    <3>1. request'[t].tab \in {request[t].tab, NoTab}
      BY <2>1 DEF StoreTab, NoRequest, TypeOK
    <3> QED BY <1>1, <3>1
  <2>2. CASE SaveTab(t) \/ RestartHub
    <3>1. request'[t] = NoRequest
      BY <2>2, RestartGroups DEF SaveTab, TypeOK
    <3> QED BY <3>1 DEF NoRequest
  <2> QED BY <1>1, <2>1, <2>2, RequestStep
<1> QED BY <1>1, <1>2, <1>3 DEF Used

(* How a terminal may leave the hub's maps. *)
LEMMA KeptLost ==
    ASSUME TypeOK, RegistryAssumption, Links, Maps, [Next]_vars, NEW t \in Terminal, Kept(t), ~Kept(t)'
    PROVE  \/ RestartHub
           \/ \E c \in Conn : \/ TerminalDestroyed(c) \/ TerminalDied(c) \/ Reconcile(c)
                              \/ EndHandler(c) /\ work[c].type = "reconcile"
<1> USE DEF memory, database, requests, node
<1> SUFFICES ASSUME ~RestartHub,
                    \A c \in Conn : /\ ~TerminalDestroyed(c) /\ ~TerminalDied(c) /\ ~Reconcile(c)
                                    /\ ~(EndHandler(c) /\ work[c].type = "reconcile")
             PROVE  Kept(t)'
  OBVIOUS
<1>0. /\ terminals \in [Terminal -> Places] /\ persisted \in [Terminal -> Places] /\ work \in [Conn -> Work]
      /\ request \in [Terminal -> Request] /\ Idle.type = "idle"
      /\ Absent \notin Tab \cup {NoTab} /\ NoConn \notin Conn
      /\ terminals[t] # Absent \/ persisted[t] # Absent \/ \E c \in Conn : Old(c, t)
  BY DEF TypeOK, RegistryAssumption, Idle, Kept
<1>1. ASSUME terminals[t] # Absent => terminals'[t] # Absent,
             persisted[t] # Absent => persisted'[t] # Absent,
             \A c \in Conn : work[c].type = "reconcile" => work'[c] = work[c]
      PROVE  Kept(t)'
  BY <1>0, <1>1 DEF Kept, Old
<1>2. ASSUME persisted' = Stashed, \A c \in Conn : work'[c] = work[c] PROVE Kept(t)'
  <2>1. terminals[t] # Absent => Present(terminals) # {}
    BY DEF Present
  <2>2. persisted[t] # Absent => terminals = Nobody
    BY DEF Maps, Nobody
  <2>3. Present(Nobody) = {}
    BY DEF Present, Nobody
  <2>4. terminals[t] # Absent \/ persisted[t] # Absent => persisted'[t] # Absent
    BY <1>2, <2>1, <2>2, <2>3 DEF Stashed, Nobody
  <2> QED BY <1>0, <1>2, <2>4 DEF Kept, Old
<1>3. ASSUME NEW c \in Conn, Connect(c) \/ register_machine(c) \/ EndHandler(c) \/ unregister_machine(c)
      PROVE  Kept(t)'
  <2>1. CASE Connect(c)
    BY <1>1, <2>1 DEF Connect
  <2>2. CASE register_machine(c)
    <3>1. CASE current = NoConn
      <4>1. terminals[t] = Absent
        BY <3>1 DEF Maps, Nobody
      <4> QED BY <1>1, <2>2, <3>1, <4>1 DEF register_machine
    <3>2. CASE current # NoConn
      BY <1>2, <2>2, <3>2 DEF register_machine
    <3> QED BY <3>1, <3>2
  <2>3. CASE EndHandler(c)
    <3>1. work' = work
      BY <1>0, <2>3 DEF EndHandler
    <3> QED BY <1>1, <2>3, <3>1 DEF EndHandler
  <2>4. CASE unregister_machine(c)
    <3>1. UNCHANGED work /\ (persisted' = Stashed \/ UNCHANGED memory)
      BY <2>4 DEF unregister_machine
    <3> QED BY <1>1, <1>2, <3>1
  <2> QED BY <1>3, <2>1, <2>2, <2>3, <2>4
<1>4. ASSUME NEW c \in Conn, ControlTask(c) PROVE Kept(t)'
  <2>1. CASE TerminalCreated(c)
    <3>1. work[c] = Idle /\ persisted' = persisted /\ (terminals'[t] = terminals[t] \/ terminals'[t] = NoTab)
          /\ \A d \in Conn \ {c} : work'[d] = work[d]
      BY <1>0, <2>1 DEF TerminalCreated, Take, MayHandle
    <3> QED BY <1>0, <1>1, <3>1
  <2>2. CASE TerminalInserted(c) \/ DestroyRow(c) \/ PruneTab(c)
    <3>1. /\ UNCHANGED memory /\ work[c].type # "reconcile"
          /\ \A d \in Conn \ {c} : work'[d] = work[d]
      BY <1>0, <2>2 DEF TerminalInserted, DestroyRow, PruneTab
    <3> QED BY <1>1, <3>1
  <2>3. CASE ExistingTerminals(c)
    <3>1. /\ UNCHANGED terminals /\ work[c] = Idle
          /\ work'[c].type = "reconcile" /\ work'[c].old = persisted
          /\ \A d \in Conn \ {c} : work'[d] = work[d]
      BY <1>0, <2>3 DEF ExistingTerminals, Take, MayHandle
    <3> QED BY <1>0, <3>1 DEF Kept, Old
  <2> QED BY <1>4, <2>1, <2>2, <2>3 DEF ControlTask
<1>5. ASSUME NEW u \in Terminal, Http(u) PROVE Kept(t)'
  <2>1. CASE StoreTab(u)
    <3>1. request[u].tab # Absent
      BY <1>0 DEF Request
    <3>2. /\ terminals[t] # Absent => terminals'[t] # Absent
          /\ persisted[t] # Absent => persisted'[t] # Absent
      BY <1>0, <2>1, <3>1 DEF StoreTab
    <3> QED BY <1>1, <2>1, <3>2 DEF StoreTab
  <2>2. StoreTab(u) \/ UNCHANGED <<terminals, persisted, work>>
    BY <1>5 DEF Http, CreateTerminal, CreateFails, OpenTab, ChooseTab, SaveTab, DestroyTerminal
  <2> QED BY <1>1, <2>1, <2>2
<1>6. ASSUME NEW u \in Terminal, SessionEnds(u) \/ WatcherReports(u) PROVE Kept(t)'
  BY <1>1, <1>6 DEF SessionEnds, WatcherReports
<1>7. ASSUME NEW g \in Tab, DeleteTab(g) \/ clear_workspace_group_assignments(g) PROVE Kept(t)'
  <2>1. /\ terminals[t] # Absent => terminals'[t] # Absent
        /\ persisted[t] # Absent => persisted'[t] # Absent
        /\ UNCHANGED work
    BY <1>0, <1>7 DEF DeleteTab, clear_workspace_group_assignments, Cleared
  <2> QED BY <1>1, <2>1
<1>8. CASE NodeCreates \/ NodeDestroys \/ Leave \/ RestartNode \/ UNCHANGED vars
  BY <1>1, <1>8 DEF NodeCreates, NodeDestroys, Leave, RestartNode, vars
<1>9. CASE \E c \in Conn : \/ Connect(c) \/ register_machine(c) \/ EndHandler(c)
                           \/ unregister_machine(c) \/ ControlTask(c)
  BY <1>3, <1>4, <1>9
<1> QED BY <1>5, <1>6, <1>7, <1>8, <1>9 DEF Next

(* Memory and row agree on the tab of t, or memory names a deleted one. *)
Agrees(t, g) == g = rowTab[t] \/ (g \in Tab \ tabs /\ rowTab[t] = NoTab)

(* Once no assignment is between memory and database, the two agree, and   *)
(* while one is, memory has what it assigns.  A reconnect does not come    *)
(* between: the terminal is still in a map when its report is handled.     *)
Assigned ==
    \A t \in Terminal :
        /\ \A g \in Tab \cup {NoTab} : At(t, g) =>
              IF request[t].at = "stored"
              THEN g = request[t].tab \/ (g = NoTab /\ request[t].tab \notin tabs)
              ELSE t \in failed \/ Agrees(t, g)
        /\ \A c \in Conn : request[t].at = "stored" /\ Live(c) /\ Waiting(c) => Kept(t)

(* Steps that leave the row to itself keep what agrees. *)
LEMMA AgreesKept ==
    ASSUME TypeOK, RegistryAssumption, RowsNameTabs, Used, [Next]_vars, NEW t \in Terminal,
           NEW g \in usedTabs \cup {NoTab}, ~SaveTab(t), ~RestartHub, Agrees(t, g)
    PROVE  Agrees(t, g)'
<1>1. tabs' \cap usedTabs \subseteq tabs
  BY TabsStep
<1>2. \/ rowTab'[t] = rowTab[t]
      \/ rowTab'[t] = NoTab /\ rowTab[t] \in Tab \ tabs'
  BY RowTabMoves
<1>3. NoTab \notin Tab /\ usedTabs \subseteq Tab
  BY DEF TypeOK, RegistryAssumption
<1> QED BY <1>1, <1>2, <1>3 DEF Agrees

LEMMA StoredKept ==
    ASSUME TypeOK, RegistryAssumption, Lag = "none", WellSent, Links, Births, Maps, Assigned, [Next]_vars,
           NEW t \in Terminal, NEW c \in Conn, request'[t].at = "stored", Live(c)', Waiting(c)'
    PROVE  Kept(t)'
<1> USE DEF memory, database, requests, node
<1>1. CASE Connect(c)
  BY <1>1 DEF Connect, Prompt
<1>2. CASE ~Connect(c) /\ StoreTab(t)
  <2>1. request[t].tab # Absent
    BY DEF TypeOK, Request, RegistryAssumption
  <2> QED BY <1>2, <2>1 DEF StoreTab, Kept, NoRequest, TypeOK
<1>3. CASE ~Connect(c) /\ ~StoreTab(t)
  <2>1. Live(c) /\ Waiting(c) /\ ~EndHandler(c) /\ ~RestartHub
    BY <1>3, LiveStep, ReportedStep
  <2>2. request[t].at = "stored"
    <3>1. ~SaveTab(t)
      BY DEF SaveTab, NoRequest, TypeOK
    <3> QED BY <1>3, <2>1, <3>1, RequestStep
  <2>3. Kept(t)
    BY <2>1, <2>2 DEF Assigned
  <2>4. ASSUME NEW d \in Conn, TerminalDestroyed(d) \/ TerminalDied(d) PROVE FALSE
    <3>1. MayHandle(d) /\ \E type : Take(d, type) /\ type # "ExistingTerminals"
      BY <2>4 DEF TerminalDestroyed, TerminalDied, Take
    <3> QED BY <2>1, <3>1, LiveHandles, NoReportLeft
  <2>5. ASSUME NEW d \in Conn, Reconcile(d) PROVE FALSE
    <3>1. work[d].type = "reconcile" /\ work' = [work EXCEPT ![d] = Idle] /\ inbox' = inbox
      BY <2>5 DEF Reconcile
    <3>2. d = c
      BY <2>1, <3>1, LiveHandles
    <3>3. work'[d].type # "reconcile" /\ \A m \in Elems(inbox'[d]) : m.type # "ExistingTerminals"
      BY <3>1 DEF Links, Idle, TypeOK
    <3> QED BY <3>2, <3>3 DEF Waiting
  <2>6. ASSUME NEW d \in Conn, EndHandler(d), work[d].type = "reconcile" PROVE FALSE
    BY <2>1, <2>6, LiveHandles
  <2> QED BY <2>1, <2>3, <2>4, <2>5, <2>6, KeptLost
<1> QED BY <1>1, <1>2, <1>3

(* An assignment that is stored is in the one map that has the terminal. *)
LEMMA StoredAt ==
    ASSUME TypeOK, RegistryAssumption, Maps, NEW t \in Terminal, NEW g \in Tab \cup {NoTab},
           StoreTab(t), request'[t].at = "stored", At(t, g)'
    PROVE  g = request'[t].tab
<1> USE DEF memory, database, requests, node
<1>0. /\ terminals \in [Terminal -> Places] /\ persisted \in [Terminal -> Places]
      /\ request \in [Terminal -> Request] /\ NoRequest.at = "none" /\ g # Absent
  BY DEF TypeOK, NoRequest, RegistryAssumption
<1>1. terminals[t] # Absent \/ persisted[t] # Absent
  BY <1>0 DEF StoreTab
<1>2. \A c \in Conn : work'[c].type # "reconcile"
  BY <1>1 DEF StoreTab, Maps, Nobody
<1>3. request'[t].tab = request[t].tab
  BY <1>0, <1>1 DEF StoreTab
<1>4. CASE terminals[t] # Absent
  <2>1. persisted[t] = Absent
    BY <1>4 DEF Maps, Nobody
  <2>2. terminals'[t] = request[t].tab /\ persisted'[t] = Absent
    BY <1>0, <1>4, <2>1 DEF StoreTab
  <2> QED BY <1>0, <1>2, <1>3, <2>2 DEF At
<1>5. CASE terminals[t] = Absent
  <2>1. persisted'[t] = request[t].tab /\ terminals'[t] = Absent
    BY <1>0, <1>1, <1>5 DEF StoreTab
  <2> QED BY <1>0, <1>2, <1>3, <2>1 DEF At
<1> QED BY <1>4, <1>5

LEMMA WhileStored ==
    ASSUME TypeOK, RegistryAssumption, Lag = "none", RowsNameTabs, Births, WellSent, Links, Newborn, Maps,
           Used, Assigned, [Next]_vars, TypeOK',
           NEW t \in Terminal, NEW g \in Tab \cup {NoTab}, request'[t].at = "stored", At(t, g)'
    PROVE  g = request'[t].tab \/ (g = NoTab /\ request'[t].tab \notin tabs')
<1> USE DEF memory, database, requests, node
<1>1. CASE StoreTab(t)
  BY <1>1, StoredAt
<1>2. CASE ~StoreTab(t)
  <2>1. ~SaveTab(t) /\ ~RestartHub
    <3>1. SaveTab(t) \/ RestartHub => request'[t] = NoRequest
      BY RestartGroups DEF SaveTab, TypeOK
    <3> QED BY <3>1 DEF NoRequest
  <2>2. request'[t] = request[t] /\ request[t].at = "stored"
    BY <1>2, <2>1, RequestStep
  <2> DEFINE q == request[t].tab
  <2>3. q \notin tabs => q \notin tabs'
    <3>1. usedTabs \subseteq usedTabs' /\ tabs' \cap usedTabs \subseteq tabs
      BY TabsStep
    <3>2. q \in usedTabs \cup {NoTab}
      BY DEF Used
    <3>3. tabs' \subseteq Tab /\ NoTab \notin Tab
      BY DEF TypeOK, RegistryAssumption
    <3> QED BY <3>1, <3>2, <3>3
  <2>4. CASE At(t, g)
    BY <2>2, <2>3, <2>4 DEF Assigned
  <2>5. ASSUME NEW c \in Conn, TerminalCreated(c), Head(inbox[c]).id = t PROVE FALSE
    <3>1. Live(c) /\ Head(inbox[c]) \in Elems(inbox[c]) /\ Head(inbox[c]).type = "TerminalCreated"
      BY <2>5, Took DEF TerminalCreated, Take, MayHandle, InTime, Live, Joining
    <3> QED BY <2>2, <2>5, <3>1 DEF Newborn, Says, Noted
  <2>6. ASSUME NEW c \in Conn, Reconcile(c), g = Restored(t, work[c].old) PROVE At(t, g)
    <3>1. work[c].type = "reconcile" /\ work[c] # Idle
      BY <2>6 DEF Reconcile, Idle
    <3>2. Live(c) /\ Waiting(c)
      BY <3>1 DEF Links, Live, Waiting
    <3>3. Kept(t) /\ terminals = Nobody /\ persisted = Nobody
      BY <2>2, <3>1, <3>2 DEF Assigned, Maps
    <3>4. PICK d \in Conn : Old(d, t)
      BY <3>3 DEF Kept, Nobody
    <3>5. d = c
      BY <3>1, <3>4 DEF Links, Old, Idle
    <3> QED BY <2>6, <3>4, <3>5 DEF Restored, Old, At
  <2>7. ASSUME NEW h \in Tab, clear_workspace_group_assignments(h), At(t, h), g = NoTab
        PROVE  q \notin tabs'
    <3>1. h = q
      BY <2>2, <2>7 DEF Assigned, RegistryAssumption
    <3>2. h \notin tabs /\ tabs' = tabs
      BY <2>7 DEF clear_workspace_group_assignments, Used
    <3> QED BY <3>1, <3>2
  <2> QED BY <1>2, <2>1, <2>2, <2>4, <2>5, <2>6, <2>7, AtStep
<1> QED BY <1>1, <1>2

LEMMA AfterSaved ==
    ASSUME TypeOK, RegistryAssumption, Lag = "none", RowsNameTabs, Births, WellSent, Links, Newborn, Maps,
           Used, Assigned, [Next]_vars, TypeOK',
           NEW t \in Terminal, NEW g \in Tab \cup {NoTab}, request'[t].at # "stored", At(t, g)', t \notin failed'
    PROVE  Agrees(t, g)'
<1> USE DEF memory, database, requests, node
<1>0. /\ rowTab \in [Terminal -> Tab \cup {NoTab}] /\ NoTab \notin Tab /\ Absent \notin Tab \cup {NoTab}
      /\ tabs \subseteq usedTabs /\ usedTabs \subseteq Tab
  BY DEF TypeOK, RegistryAssumption, Used
<1>1. CASE RestartHub
  <2>1. persisted'[t] = g
    BY <1>0, <1>1, RestartGroups DEF At, Idle
  <2>2. rowTab'[t] = g
    BY <1>0, <1>1, <2>1, RestartGroups
  <2> QED BY <2>2 DEF Agrees
<1>2. CASE SaveTab(t)
  <2> DEFINE q == request[t].tab
             moved == [rowTab EXCEPT ![t] = q]
             empty == {f \in {request[t].from} \cap (tabs \ {q}) :
                          \A u \in Terminal : row'[u] = "active" => moved[u] # f}
  <2>1. request[t].at = "stored" /\ UNCHANGED <<terminals, persisted, work>>
    BY <1>2 DEF SaveTab
  <2>2. /\ q \in tabs \cup {NoTab}
        /\ rowTab' = [u \in Terminal |-> IF moved[u] \in empty THEN NoTab ELSE moved[u]]
    BY <1>2 DEF SaveTab
  <2>3. moved[t] = q /\ q \notin empty
    BY <1>0
  <2>4. rowTab'[t] = q
    BY <2>2, <2>3
  <2>5. At(t, g)
    BY <2>1 DEF At
  <2>6. g = q \/ (g = NoTab /\ q \notin tabs)
    BY <2>1, <2>5 DEF Assigned
  <2> QED BY <2>2, <2>4, <2>6 DEF Agrees
<1>3. CASE ~RestartHub /\ ~SaveTab(t)
  <2>1. t \notin failed
    BY <1>3, RequestStep
  <2>2. CASE StoreTab(t)
    <3>1. request'[t] = NoRequest /\ UNCHANGED <<terminals, persisted, work>>
          /\ terminals[t] = Absent /\ persisted[t] = Absent
      BY <2>2 DEF StoreTab, TypeOK
    <3>2. PICK c \in Conn : work[c].type = "reconcile" /\ work[c].old[t] = g
      BY <1>0, <3>1 DEF At
    <3>3. At(t, g) /\ request[t].at # "stored"
      BY <2>2, <3>2 DEF At, StoreTab
    <3>4. Agrees(t, g) /\ g \in usedTabs \cup {NoTab}
      BY <2>1, <3>3 DEF Assigned, Used
    <3> QED BY <1>3, <3>4, AgreesKept
  <2>3. CASE ~StoreTab(t)
    <3>1. request[t].at # "stored"
      BY <1>3, <2>3, RequestStep
    <3>2. ASSUME NEW h \in Tab \cup {NoTab}, At(t, h) PROVE Agrees(t, h) /\ h \in usedTabs \cup {NoTab}
      BY <2>1, <3>1, <3>2 DEF Assigned, Used
    <3>3. CASE At(t, g)
      BY <1>3, <3>2, <3>3, AgreesKept
    <3>4. ASSUME NEW c \in Conn, TerminalCreated(c), Head(inbox[c]).id = t, g = NoTab PROVE Agrees(t, g)'
      <4>1. Live(c) /\ Head(inbox[c]) \in Elems(inbox[c]) /\ Head(inbox[c]).type = "TerminalCreated"
        BY <3>4, Took DEF TerminalCreated, Take, MayHandle, InTime, Live, Joining
      <4>2. rowTab[t] = NoTab
        BY <3>4, <4>1 DEF Newborn, Says
      <4> QED BY <3>4, <4>2 DEF Agrees, TerminalCreated
    <3>5. ASSUME NEW c \in Conn, Reconcile(c), g = Restored(t, work[c].old) PROVE Agrees(t, g)'
      <4>1. CASE g = rowTab[t]
        <5>1. Agrees(t, g) /\ g \in usedTabs \cup {NoTab}
          BY <1>0, <4>1 DEF Agrees, RowsNameTabs
        <5> QED BY <1>3, <5>1, AgreesKept
      <4>2. CASE g = work[c].old[t]
        BY <3>3, <3>5, <4>2 DEF At, Reconcile
      <4> QED BY <3>5, <4>1, <4>2 DEF Restored
    <3>6. ASSUME NEW h \in Tab, clear_workspace_group_assignments(h), At(t, h), g = NoTab
          PROVE  Agrees(t, g)'
      <4>1. Agrees(t, h) /\ h \notin tabs /\ UNCHANGED rowTab
        BY <3>2, <3>6 DEF clear_workspace_group_assignments, Used
      <4>2. rowTab[t] = NoTab
        BY <1>0, <4>1 DEF Agrees, RowsNameTabs
      <4> QED BY <3>6, <4>1, <4>2 DEF Agrees
    <3> QED BY <1>3, <2>3, <3>3, <3>4, <3>5, <3>6, AtStep
  <2> QED BY <2>2, <2>3
<1> QED BY <1>1, <1>2, <1>3

LEMMA AssignedKept ==
    ASSUME TypeOK, RegistryAssumption, Lag = "none", RowsNameTabs, Births, WellSent, Links, Newborn, Maps,
           Used, Assigned, [Next]_vars, TypeOK'
    PROVE  Assigned'
BY WhileStored, AfterSaved, StoredKept DEF Assigned

-----------------------------------------------------------------------------
(* Inductive when handlers keep up: what makes the registry sound once     *)
(* things settle.                                                          *)
SoundInv ==
    RunningInv /\ RowsNameTabs /\ KnowsTruth /\ Maps /\ Listing /\ Used /\ Assigned

LEMMA SoundInit ==
    ASSUME RegistryAssumption, Init
    PROVE  SoundInv
<1>1. RunningInv
  BY RunningInit
<1>2. /\ \A c \in Conn : inbox[c] = <<>> /\ orders[c] = <<>> /\ work[c] = Idle /\ handler[c] = "idle"
      /\ current = NoConn /\ link = NoConn /\ terminals = Nobody /\ persisted = Nobody
      /\ \A t \in Terminal : row[t] = "none" /\ rowTab[t] = NoTab /\ request[t] = NoRequest
      /\ tabs = {} /\ deleting = {} /\ reported = {}
      /\ NoRequest.at = "none" /\ NoRequest.tab = NoTab /\ Idle.type = "idle"
      /\ \A t \in Terminal : Nobody[t] = Absent
  BY DEF Init, Nobody, NoRequest, Idle
<1>3. RowsNameTabs
  BY DEF Init, RowsNameTabs
<1>4. KnowsTruth
  BY <1>2 DEF KnowsTruth
<1>5. Maps
  BY <1>2 DEF Maps
<1>6. \A t \in Terminal : ~Kept(t) /\ \A g \in Tab \cup {NoTab} : ~At(t, g)
  BY <1>2 DEF Kept, Old, At, RegistryAssumption
<1>7. Listing
  BY <1>2, <1>6 DEF Listing, Listed, Does
<1>8. Used
  BY <1>2, <1>6 DEF Used
<1>9. Assigned
  BY <1>2, <1>6 DEF Assigned
<1> QED BY <1>1, <1>3, <1>4, <1>5, <1>7, <1>8, <1>9 DEF SoundInv

LEMMA SoundNext ==
    ASSUME RegistryAssumption, Lag = "none", SoundInv, [Next]_vars
    PROVE  SoundInv'
<1>1. /\ TypeOK /\ Births /\ Deaths /\ WellSent /\ Links /\ Newborn
      /\ RunningInv /\ RowsNameTabs /\ KnowsTruth /\ Maps /\ Listing /\ Used /\ Assigned
  BY DEF SoundInv, RunningInv
<1>2. RunningInv' /\ TypeOK' /\ Links' /\ RowsNameTabs'
  BY <1>1, RunningNext, StepKeeps DEF RunningInv
<1>3. KnowsTruth' /\ Maps' /\ Listing'
  BY <1>1, <1>2, KnowsTruthKept, MapsKept, ListingKept
<1>4. Used' /\ Assigned'
  BY <1>1, <1>2, UsedKept, AssignedKept
<1> QED BY <1>2, <1>3, <1>4 DEF SoundInv

(* What the invariant says once nothing is under way. *)
LEMMA SoundSettles ==
    ASSUME RegistryAssumption, SoundInv
    PROVE  RegistryIsSound
<1>1. TypeOK /\ KnowsTruth /\ Listing /\ Assigned
  BY DEF SoundInv, RunningInv
<1>2. ASSUME Settled PROVE Present(terminals) = alive
  <2>1. /\ link \in Conn /\ Hears /\ handler[link] = "up" /\ inbox[link] = <<>> /\ work[link] = Idle
        /\ alive \subseteq sessions /\ sessions \subseteq Terminal /\ sessions \ alive \subseteq reported
    BY <1>1, <1>2 DEF Settled, TypeOK, Hears
  <2>2. ASSUME NEW t \in Terminal PROVE Heard(t) <=> terminals[t] # Absent
    BY <2>1, NoElems DEF Heard, Says, Reported, Idle
  <2>3. alive \cap reported = {} /\ \A t \in Terminal : t \in sessions \ reported <=> Heard(t)
    BY <1>1, <1>2, <2>1 DEF Settled, KnowsTruth
  <2> QED BY <2>1, <2>2, <2>3 DEF Present
<1>3. ASSUME Settled, NEW t \in Present(terminals) PROVE row[t] = "active"
  <2>1. t \in Terminal /\ Kept(t)
    BY <1>3 DEF Present, Kept
  <2>2. \A c \in Conn : ~Does(c, "insert", t)
    BY <1>3 DEF Settled, Does, Idle
  <2> QED BY <1>1, <2>1, <2>2 DEF Listing, Listed
<1>4. ASSUME Settled, NEW t \in Present(terminals) \ failed
      PROVE  terminals[t] = rowTab[t] \/ terminals[t] \in Tab \ tabs
  <2>1. t \in Terminal /\ terminals[t] \in Tab \cup {NoTab} /\ request[t].at = "none"
    BY <1>1, <1>4 DEF Present, Settled, TypeOK, Places
  <2>2. At(t, terminals[t])
    BY DEF At
  <2> QED BY <1>1, <1>4, <2>1, <2>2 DEF Assigned, Agrees
<1> QED BY <1>1, <1>2, <1>3, <1>4 DEF RegistryIsSound, HubKnowsNode, ListedIsActive, TabsSurvive

(* However often machine and hub restart and reconnect, wherever messages  *)
(* break off, whatever requests are under way, and for any number of       *)
(* terminals, tabs and connections: while handlers keep up with the node's *)
(* connections, a hub that has settled lists exactly the terminals that    *)
(* run, has an active row for each, and agrees with itself on their tabs.  *)
THEOREM RegistrySound ==
    ASSUME Lag = "none"
    PROVE  Spec => []RegistryIsSound
<1>1. Init => SoundInv
  BY SoundInit, RegistryAssumption
<1>2. SoundInv /\ [Next]_vars => SoundInv'
  BY SoundNext, RegistryAssumption
<1>3. SoundInv => RegistryIsSound
  BY SoundSettles, RegistryAssumption
<1> QED BY <1>1, <1>2, <1>3, PTL DEF Spec

=============================================================================
