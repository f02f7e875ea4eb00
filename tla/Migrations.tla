----------------------------- MODULE Migrations -----------------------------
(***************************************************************************)
(* init_db (db/mod.rs): what the hub does to its database every time it    *)
(* starts, over a database any older release may have left.  No statement  *)
(* is inside a transaction, so the process can die after any of them and   *)
(* the next start begins again at the first, with nothing remembered.      *)
(*                                                                         *)
(* SchemaPlan lists the statements: those of the schema come first, then   *)
(* three changes of the rows: layouts of the scrollable strip become split *)
(* trees, terminals without a tab get one per directory, and empty tabs    *)
(* the hub had opened go.                                                  *)
(***************************************************************************)
EXTENDS SchemaPlan, Naturals, FiniteSets, TLC

CONSTANTS
    Rows,        \* terminals that may be alive in the database
    CwdOf,       \* terminal -> its directory
    UserTab,     \* a tab the user made
    NewTabs,     \* ids the hub can give to tabs
    NoneYet,     \* no tab, no layout
    MaxOldTables,\* tables an older release left without their new columns
    MaxDeaths

VARIABLES
    schema,      \* table -> its added columns; its domain, the tables
    tabOf,       \* live terminal -> workspace_group_id
    openTabs,    \* rows of workspace_groups -> auto_created
    layoutKey,   \* directory -> group_key of its saved layout, or NoneYet
    legacy,      \* the scrollable layout: see LegacyStates
    at,          \* the statement to run next
    ungrouped,   \* migrate_ungrouped_terminals_into_tabs: rows still to do
    groupIds,    \* and the tabs it opened so far, by directory
    hub,         \* "starting" or "serving"
    deaths

migrationVars == <<schema, tabOf, openTabs, layoutKey, legacy, at, ungrouped,
                   groupIds, hub, deaths>>

Dirs == {CwdOf[t] : t \in Rows}

(* A legacy layout is two columns of the row: "strip" while only the old     *)
(* form is there, "both" once the tree is written too, then "tree"; "broken" *)
(* cannot be read and is cleared unconverted, as is, wrongly, "lost".        *)
LegacyStates == {"none", "strip", "both", "tree", "broken", "cleared", "lost"}

-----------------------------------------------------------------------------
OldSchemas ==
    {[t \in DOMAIN Added \ gone |-> IF t \in old THEN {} ELSE Added[t]] :
        gone, old \in {S \in SUBSET DOMAIN Added : Cardinality(S) <= MaxOldTables}}

MigrationInit ==
    /\ schema \in OldSchemas
    /\ LET hasTabs == /\ "workspace_groups" \in DOMAIN schema
                      /\ "terminal_sessions" \in DOMAIN schema
                      /\ schema["terminal_sessions"] # {}
       IN /\ openTabs = IF hasTabs THEN UserTab :> FALSE ELSE <<>>
          /\ \E live \in SUBSET Rows :
               /\ "terminal_sessions" \in DOMAIN schema \/ live = {}
               /\ tabOf \in [live -> IF hasTabs THEN {UserTab, NoneYet} ELSE {NoneYet}]
    /\ layoutKey \in [Dirs -> Dirs \cup {NoneYet}]
    /\ \A d \in Dirs : layoutKey[d] \in {d, NoneYet}
    /\ legacy \in {"none", "strip", "broken"}
    /\ at = 1
    /\ ungrouped = <<>> /\ groupIds = <<>>
    /\ hub = "starting"
    /\ deaths = 0

(* A statement that does not find its table or its columns fails, and main    *)
(* ends: the hub stays at it.                                                 *)
Now == Statements[at]
Finds == Now.op \in {"create", "scrollable", "clear"} \/ Now.table \in DOMAIN schema
HasColumns == Now.cols \subseteq schema[Now.table]
Runs(op) == hub = "starting" /\ at <= Len(Statements) /\ Now.op = op
Onward == at' = at + 1

(* CREATE TABLE IF NOT EXISTS *)
create_table ==
    /\ Runs("create")
    /\ schema' = IF Now.table \in DOMAIN schema THEN schema
                 ELSE schema @@ (Now.table :> Now.cols)
    /\ Onward
    /\ UNCHANGED <<tabOf, openTabs, layoutKey, legacy, ungrouped, groupIds, hub, deaths>>

(* CREATE INDEX IF NOT EXISTS, over columns the table must have. *)
create_index ==
    /\ Runs("index")
    /\ Finds /\ HasColumns
    /\ Onward
    /\ UNCHANGED <<schema, tabOf, openTabs, layoutKey, legacy, ungrouped, groupIds, hub, deaths>>

(* column_exists, and ALTER TABLE ... ADD COLUMN if it does not. *)
add_column ==
    /\ Runs("alter")
    /\ Finds
    /\ schema' = [schema EXCEPT ![Now.table] = @ \cup Now.cols]
    /\ Onward
    /\ UNCHANGED <<tabOf, openTabs, layoutKey, legacy, ungrouped, groupIds, hub, deaths>>

(* migrate_scrollable_workspace_layouts: every readable layout is written    *)
(* as a tree, ...                                                            *)
Converted == IF legacy = "strip" THEN "both" ELSE legacy
migrate_scrollable_workspace_layouts ==
    /\ Runs("scrollable")
    /\ legacy' = Converted
    /\ Onward
    /\ UNCHANGED <<schema, tabOf, openTabs, layoutKey, ungrouped, groupIds, hub, deaths>>

(* ... then the old form of all of them is cleared. *)
Cleared == CASE legacy = "both" -> "tree" [] legacy = "broken" -> "cleared"
             [] legacy = "strip" -> "lost" [] OTHER -> legacy
clear_scrollable ==
    /\ Runs("clear")
    /\ legacy' = Cleared
    /\ Onward
    /\ UNCHANGED <<schema, tabOf, openTabs, layoutKey, ungrouped, groupIds, hub, deaths>>

(* migrate_ungrouped_terminals_into_tabs lists the live terminals without a  *)
(* tab (in some order), ...                                                  *)
Orders(S) == {s \in [1..Cardinality(S) -> S] :
                 \A i, j \in DOMAIN s : i # j => s[i] # s[j]}
list_ungrouped(order) ==
    /\ Runs("list")
    /\ Finds /\ HasColumns
    /\ order \in Orders({t \in DOMAIN tabOf : tabOf[t] = NoneYet})
    /\ ungrouped' = order
    /\ groupIds' = <<>>
    /\ Onward
    /\ UNCHANGED <<schema, tabOf, openTabs, layoutKey, legacy, hub, deaths>>

(* ... opens a tab for the directory of the next one ...                     *)
create_auto_workspace_group(w) ==
    LET d == CwdOf[Head(ungrouped)]
    IN /\ Runs("tabs") /\ Finds /\ HasColumns
       /\ ungrouped # <<>>
       /\ d \notin DOMAIN groupIds
       /\ w \in NewTabs \ DOMAIN openTabs
       /\ openTabs' = openTabs @@ (w :> TRUE)
       /\ groupIds' = groupIds @@ (d :> [tab |-> w, moved |-> FALSE])
       /\ UNCHANGED <<schema, tabOf, layoutKey, legacy, at, ungrouped, hub, deaths>>

(* ... takes the layout the clients had saved for the directory over ...     *)
move_layout ==
    LET d == CwdOf[Head(ungrouped)]
    IN /\ Runs("tabs")
       /\ ungrouped # <<>>
       /\ d \in DOMAIN groupIds /\ ~groupIds[d].moved
       /\ layoutKey' = [layoutKey EXCEPT ![d] = IF @ = d THEN groupIds[d].tab ELSE @]
       /\ groupIds' = [groupIds EXCEPT ![d].moved = TRUE]
       /\ UNCHANGED <<schema, tabOf, openTabs, legacy, at, ungrouped, hub, deaths>>

(* ... and puts the terminal into it. *)
assign_terminal ==
    LET t == Head(ungrouped)
    IN /\ Runs("tabs")
       /\ ungrouped # <<>>
       /\ CwdOf[t] \in DOMAIN groupIds /\ groupIds[CwdOf[t]].moved
       /\ tabOf' = [tabOf EXCEPT ![t] = groupIds[CwdOf[t]].tab]
       /\ ungrouped' = Tail(ungrouped)
       /\ UNCHANGED <<schema, openTabs, layoutKey, legacy, at, groupIds, hub, deaths>>

all_assigned ==
    /\ Runs("tabs")
    /\ ungrouped = <<>>
    /\ Onward
    /\ UNCHANGED <<schema, tabOf, openTabs, layoutKey, legacy, ungrouped, groupIds, hub, deaths>>

(* delete_empty_auto_tabs: a tab the user made or renamed is left alone. *)
Empty(w) == \A t \in DOMAIN tabOf : tabOf[t] # w
EmptyAutoTabs == {w \in DOMAIN openTabs : openTabs[w] /\ Empty(w)}
delete_empty_auto_tabs ==
    /\ Runs("prune")
    /\ Finds /\ HasColumns
    /\ openTabs' = [w \in DOMAIN openTabs \ EmptyAutoTabs |-> openTabs[w]]
    /\ Onward
    /\ UNCHANGED <<schema, tabOf, layoutKey, legacy, ungrouped, groupIds, hub, deaths>>

(* Machines are marked offline and the hub goes on. *)
init_db_ends ==
    /\ hub = "starting" /\ at > Len(Statements)
    /\ hub' = "serving"
    /\ UNCHANGED <<schema, tabOf, openTabs, layoutKey, legacy, at, ungrouped, groupIds, deaths>>

(* The process dies, or is stopped and started again later. *)
Dies ==
    /\ deaths < MaxDeaths
    /\ deaths' = deaths + 1
    /\ hub' = "starting"
    /\ at' = 1
    /\ ungrouped' = <<>> /\ groupIds' = <<>>
    /\ UNCHANGED <<schema, tabOf, openTabs, layoutKey, legacy>>

MigrationStep ==
    \/ create_table \/ create_index \/ add_column
    \/ migrate_scrollable_workspace_layouts \/ clear_scrollable
    \/ \E S \in SUBSET Rows : \E order \in Orders(S) : list_ungrouped(order)
    \/ \E w \in NewTabs : create_auto_workspace_group(w)
    \/ move_layout \/ assign_terminal \/ all_assigned
    \/ delete_empty_auto_tabs \/ init_db_ends

MigrationNext == MigrationStep \/ Dies

MigrationSpec == MigrationInit /\ [][MigrationNext]_migrationVars

-----------------------------------------------------------------------------
(* Whatever release left the database and wherever earlier starts died, no  *)
(* statement of init_db finds its table or a column missing: the hub comes  *)
(* up on every old database (the order of init_db).                         *)
EveryStatementRuns ==
    hub = "starting" /\ at <= Len(Statements) =>
        Finds /\ (Now.op \in {"index", "list", "tabs", "prune"} => HasColumns)

(* A hub that is up has every table and column, a tab that exists for every *)
(* live terminal, and no scrollable layout that was cleared before it was   *)
(* converted, however often a start died half way (init_db,                 *)
(* migrate_ungrouped_terminals_into_tabs, delete_empty_auto_tabs).          *)
NothingIsMissing ==
    hub = "serving" =>
        /\ schema = Added
        /\ \A t \in DOMAIN tabOf : tabOf[t] \in DOMAIN openTabs
        /\ legacy \in {"none", "tree", "cleared"}

(* "Carrying its saved pane layout over" (db/mod.rs:467): a directory whose *)
(* terminals were given tabs has its layout in one of them.  A start that   *)
(* died after the layout was moved and before a terminal was put into the   *)
(* tab is excepted: the tab is then deleted as empty, with the layout.      *)
LayoutIsCarriedOver ==
    hub = "serving" /\ deaths = 0 =>
        \A d \in Dirs : layoutKey[d] \in NewTabs => layoutKey[d] \in DOMAIN openTabs

(* Every old database becomes a whole new one: the hub comes up, and then   *)
(* nothing is missing.                                                      *)
MigrationsEnd == EveryStatementRuns /\ NothingIsMissing /\ LayoutIsCarriedOver
=============================================================================
