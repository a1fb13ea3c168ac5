-------------------------- MODULE MCServerStartup ---------------------------
(* Instances of ServerStartup for TLC: one server for the launcher, two for *)
(* the refusal.  (Their safety is checked together with a client, in        *)
(* MCLoggingSystem.)                                                        *)
EXTENDS ServerStartup
=============================================================================
