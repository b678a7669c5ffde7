---------------------------- MODULE MCLinkQueue ----------------------------
(* LinkQueue on small instances. *)
EXTENDS LinkQueue
=============================================================================
