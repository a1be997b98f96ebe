----------------------------- MODULE MCMigration -----------------------------
\* The list of migration.py without the entries that repeat another's shape: the columns of
\* version 3, 6 before 5, the unguarded column of version 8, two versions 18 around version 19,
\* which rebuilds the table of version 7, and the tables of version 28, which only it creates.
EXTENDS Migration, TLC

Entry(version, adds) ==
    [version |-> version, adds |-> adds, needs |-> {}, copies |-> {}, guarded |-> TRUE]
Alters(version, column, table) ==
    [Entry(version, {column}) EXCEPT !.needs = {table}, !.copies = {table}]

MCMigrations ==
    <<Entry(1, {"schema_versions"}), Alters(3, "yaml_step_id", "wf_steps"),
      Entry(6, {"wf_memory"}), Entry(5, {"wf_seen_store"}), Entry(7, {"wf_stories"}),
      [Alters(8, "config_json", "wf_steps") EXCEPT !.copies = {"wf_steps", "yaml_step_id"},
                                                   !.guarded = FALSE],
      Entry(18, {"wf_citation_map"}),
      Alters(19, "narrative_summary", "wf_stories"),
      Entry(18, {"wf_entity_dictionary"}), Entry(28, {"wf_schedule_meta"})>>

MCEnsured == {"wf_steps", "yaml_step_id", "wf_memory", "wf_seen_store", "wf_stories",
              "wf_citation_map", "narrative_summary", "wf_entity_dictionary"}
MCStepColumns == {"config_json"}
=============================================================================
