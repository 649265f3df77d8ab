---------------------------- MODULE MCServerDaemon ----------------------------
(* Small instances of ServerDaemon for TLC.                                *)
EXTENDS ServerDaemon
=============================================================================
