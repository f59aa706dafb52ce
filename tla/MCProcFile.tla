----------------------------- MODULE MCProcFile -----------------------------
(* Both modules, two readers, and a clock that wraps while they read.      *)
EXTENDS ProcFile

MCPrograms == {"seconds", "hello"}
=============================================================================
