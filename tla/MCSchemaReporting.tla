------------------------- MODULE MCSchemaReporting -------------------------
(***************************************************************************)
(* SchemaManager and the schema reporting plugin for TLC.  MaxVersion      *)
(* bounds the schemas of the gateway.                                      *)
(***************************************************************************)
EXTENDS SchemaReporting

MCPlugins == {"reporter", "listener"}
MCModes == {"schema", "gateway", "oldGateway", "bareGateway"}
=============================================================================
