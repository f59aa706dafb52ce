---------------------------- MODULE MCProcessTree ----------------------------
(* The tree of PLfork.c, which is small enough as it is.                   *)
EXTENDS ProcessTree

MCProcesses == DOMAIN PLfork
=============================================================================
