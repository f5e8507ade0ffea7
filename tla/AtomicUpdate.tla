---------------------------- MODULE AtomicUpdate ----------------------------
(***************************************************************************)
(* What a self-update promises, whatever is renamed, recorded, killed and  *)
(* recovered to bring it about.                                            *)
(*                                                                         *)
(*   - There is one intact copy of the plugin in force, at all times.      *)
(*   - It changes in a single step, to a release that some editor asked    *)
(*     for when it ran an older one.                                       *)
(*   - Editors that give up or are killed, the repair of what they left    *)
(*     and a restart change nothing.                                       *)
(*   - An editor that starts runs the release in force.                    *)
(*                                                                         *)
(* UpdaterInstall implements this as long as no editor opens in the middle *)
(* of another one's update.                                                *)
(***************************************************************************)
EXTENDS Integers

CONSTANTS Editors, Versions, First

VARIABLES installed,  \* the copy in force: its release, and whether it is whole
          wanted,     \* wanted[e]: the release that editor e installs, in a set
          running     \* running[e]: the release that editor e has loaded

vars == <<installed, wanted, running>>

Intact(v) == [version |-> v, whole |-> TRUE]

Init ==
  /\ installed = Intact(First)
  /\ wanted = [e \in Editors |-> {}]
  /\ running = [e \in Editors |-> First]

Start(e) ==
  /\ wanted[e] = {}
  /\ running' = [running EXCEPT ![e] = installed.version]
  /\ UNCHANGED <<installed, wanted>>

Ask(e, v) ==
  /\ wanted[e] = {}
  /\ v > running[e]
  /\ wanted' = [wanted EXCEPT ![e] = {v}]
  /\ UNCHANGED <<installed, running>>

GiveUp(e) ==
  /\ wanted' = [wanted EXCEPT ![e] = {}]
  /\ UNCHANGED <<installed, running>>

Commit(e, v) ==
  /\ wanted[e] = {v}
  /\ installed' = Intact(v)
  /\ wanted' = [wanted EXCEPT ![e] = {}]
  /\ UNCHANGED running

Next ==
  \E e \in Editors :
    \/ Start(e) \/ GiveUp(e)
    \/ \E v \in Versions : Ask(e, v) \/ Commit(e, v)

Spec == Init /\ [][Next]_vars
=============================================================================
