---------------------------- MODULE MCScriptReload ----------------------------
(* The projects that ScriptReload is checked in.                               *)
EXTENDS ScriptReload

\* A script that is no tool script and always well, over a longer time.
Calm == [unreadable |-> {}, uncompilable |-> {}, faulty |-> {}, tools |-> {FALSE},
          allowed |-> {}, maxTime |-> 5]

\* Contents 3 can not be read, 2 not be compiled or initialized.
Troubled == [unreadable |-> {3}, uncompilable |-> {2}, faulty |-> {2}, tools |-> BOOLEAN,
             allowed |-> {"same second", "scene", "autosave", "unwatched"}, maxTime |-> 4]

Both == {Calm, Troubled}

\* Contents 2 can not be compiled, or the script is loaded past the cache as well.
Refused == {[Calm EXCEPT !.uncompilable = {2}]}
Reimported == {[Calm EXCEPT !.allowed = {"reimport"}]}
=============================================================================
