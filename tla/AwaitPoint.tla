------------------------------ MODULE AwaitPoint ------------------------------
(***************************************************************************)
(* What `await` promises of one suspended execution, whatever lists,       *)
(* reference counts and signals bring it about.  A point waits on behalf   *)
(* of an owner: the script whose function awaits and, unless the function  *)
(* is static, the instance it runs on.                                     *)
(*                                                                         *)
(*   - A point that waits has a loaded script and a live instance: what    *)
(*     takes the owner away takes the point away in the same step.         *)
(*   - It is resumed at most once, and only while its owner is there.      *)
(*   - It is never handed to another owner.                                *)
(*                                                                         *)
(* FunctionState implements this specification.                            *)
(***************************************************************************)

CONSTANTS States,     \* the points
          Scripts,
          Instances,
          None        \* no owner; no instance

VARIABLES waiting,    \* waiting[s]: the owner of a point that waits, or None
          running,    \* the points that are being resumed
          loaded,     \* the scripts that exist
          alive       \* the instances that exist

vars == <<waiting, running, loaded, alive>>

Owner == [script : Scripts, instance : Instances \cup {None}]

Sound(o, ls, as) == o.script \in ls /\ o.instance \in as \cup {None}

Init ==
  /\ waiting = [s \in States |-> None]
  /\ running = {}
  /\ loaded = Scripts
  /\ alive = Instances

Next ==
  /\ waiting' \in [States -> Owner \cup {None}]
  /\ running' \subseteq States
  /\ \A s \in States : waiting'[s] # None =>
       /\ Sound(waiting'[s], loaded', alive')
       /\ s \notin running \cup running'
       /\ waiting[s] \in {None, waiting'[s]}
  /\ \A s \in running' \ running :
       /\ waiting[s] # None
       /\ Sound(waiting[s], loaded, alive)

Spec == Init /\ [][Next]_vars
=============================================================================
