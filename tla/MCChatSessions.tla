-------------------------- MODULE MCChatSessions --------------------------
(* Small instances of ChatSessions for TLC. No symmetry: the configuration *)
(* checks a liveness property.                                             *)
EXTENDS ChatSessions
=============================================================================
