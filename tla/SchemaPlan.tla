----------------------------- MODULE SchemaPlan -----------------------------
(***************************************************************************)
(* The statements init_db (db/mod.rs) runs, in their order, and the        *)
(* columns each of them makes, reads or writes.  A column is named only    *)
(* when some release added it to a table that already existed; the columns *)
(* a table always had are not.                                             *)
(***************************************************************************)
EXTENDS Sequences

(* Columns that ALTER TABLE adds, by table. *)
Added ==
    [agent_run_requests |-> {"answered_at", "answer"},
     agent_runs |-> {"progress_done", "progress_total", "progress_current", "report_kind",
                     "report_text", "report_link", "report_at", "label", "external_ref"},
     api_tokens |-> {"access"},
     integrations |-> {"pairing_code"},
     webhook_run_state |-> {"title"},
     terminal_sessions |-> {"workspace_group_id", "title_source", "opened_by_kind",
                            "opened_by_label"},
     workspace_groups |-> {"auto_created"},
     machines |-> {"production"},
     agent_sessions |-> {"available_models", "current_model_id", "requested_model_id"}]

Create(table, cols) == [op |-> "create", table |-> table, cols |-> cols]
Index(table) == [op |-> "index", table |-> table, cols |-> {}]
Alter(table, col) == [op |-> "alter", table |-> table, cols |-> {col}]

(* Mutant of FirstTables: an index is made before its table. *)
IndexFirst ==
    <<Create("machines", {}), Index("workspace_groups"),
      Create("workspace_groups", {"auto_created"}), Create("api_tokens", {}),
      Index("api_tokens"), Create("terminal_sessions", Added.terminal_sessions),
      Index("terminal_sessions")>>

(* The first batch.  Of the columns releases added, a new table has those   *)
(* its CREATE TABLE names; the others follow by ALTER TABLE.                *)
FirstTables ==
    <<Create("machines", {}), Create("workspace_groups", {"auto_created"}),
      Create("api_tokens", {}), Index("api_tokens"), Index("workspace_groups"),
      Create("terminal_sessions", Added.terminal_sessions), Index("terminal_sessions")>>
AgentTables ==
    <<Create("agent_sessions", {}), Index("agent_sessions"),
      Create("agent_runs", {}), Index("agent_runs"),
      Create("agent_run_requests", {}), Index("agent_run_requests")>>
RunColumns ==
    <<Alter("agent_run_requests", "answered_at"), Alter("agent_run_requests", "answer"),
      Alter("agent_runs", "progress_done"), Alter("agent_runs", "progress_total"),
      Alter("agent_runs", "progress_current"), Alter("agent_runs", "report_kind"),
      Alter("agent_runs", "report_text"), Alter("agent_runs", "report_link"),
      Alter("agent_runs", "report_at")>>
IntegrationTables ==
    <<Alter("api_tokens", "access"), Create("integrations", {}),
      Create("webhook_run_state", {}), Alter("integrations", "pairing_code"),
      Alter("webhook_run_state", "title")>>
LaterColumns ==
    <<Alter("agent_runs", "label"), Alter("agent_runs", "external_ref"),
      Alter("terminal_sessions", "workspace_group_id"),
      Alter("terminal_sessions", "title_source"),
      Alter("terminal_sessions", "opened_by_kind"),
      Alter("terminal_sessions", "opened_by_label"),
      Alter("workspace_groups", "auto_created"), Alter("machines", "production"),
      Alter("agent_sessions", "available_models"),
      Alter("agent_sessions", "current_model_id"),
      Alter("agent_sessions", "requested_model_id")>>

(* The changes of rows, with the added columns they read or write.          *)
RowChanges ==
    <<[op |-> "scrollable", table |-> "workspace_layouts", cols |-> {}],
      [op |-> "clear", table |-> "workspace_layouts", cols |-> {}],
      [op |-> "list", table |-> "terminal_sessions", cols |-> {"workspace_group_id"}],
      [op |-> "tabs", table |-> "workspace_groups", cols |-> {"auto_created"}],
      [op |-> "prune", table |-> "workspace_groups", cols |-> {"auto_created"}]>>

SchemaStatements ==
    FirstTables \o AgentTables \o RunColumns \o IntegrationTables \o LaterColumns

Statements == SchemaStatements \o RowChanges
=============================================================================
