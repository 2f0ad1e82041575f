------------------------- MODULE MCServerLifecycle -------------------------
(***************************************************************************)
(* ServerLifecycle for TLC.  Every counter in it is bounded by the sets    *)
(* below: each caller calls stop() once, each operation arrives once.      *)
(***************************************************************************)
EXTENDS ServerLifecycle

\* Whatever their number, plugins differ in what they have to drain.
MCPlugins == {"drains", "reports"}
MCDrainPlugins == {"drains"}
MCSignals == {"SIGINT", "SIGTERM"}
MCSchemaManager == "schemaManager"
=============================================================================
