---------------------------- MODULE MCSystemBus ----------------------------
(***************************************************************************)
(* Two connections, one topic besides the dummy, one publisher, and a      *)
(* buffer of two messages.                                                 *)
(***************************************************************************)
EXTENDS SystemBus
=============================================================================
