------------------------------- MODULE MCShell -------------------------------
(* A ring of three commands, room for three arguments a command, and two   *)
(* processes.  The lines: one command for the foreground, one for the      *)
(* background with all the tokens there is room for, one whose ampersand   *)
(* is beyond them, one with an ampersand in its middle that is the last    *)
(* token there is room for, one that becomes "exit" when it is cut, and    *)
(* the lines the shell handles itself.                                     *)
EXTENDS Shell

MCCommands == {<<"ls">>, <<"make", "all", "&">>, <<"cp", "a", "b", "&">>,
               <<"cp", "a", "&", "b">>, <<"exit", "">>}
MCLines    == MCCommands \cup {Empty, Exit, History, Last}
==============================================================================
