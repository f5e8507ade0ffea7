---------------------------- MODULE MCFunctionFlow ----------------------------
(* The setups that FunctionFlow is checked with. *)
EXTENDS FunctionFlow

Setup(palette, most, converge, cyclic, waived) ==
    [palette |-> palette, wires |-> most, converge |-> converge, cyclic |-> cyclic, waived |-> waived]

Twigs == {"step", "return"}

\* Loops in loops, with breaks, sequences and branches.
Nests == <<{"for", "sequence", "branch"}, {"for", "step", "branch"}, {"for", "step"}, Twigs>>

\* The other nodes with several ways out.
Blocks == <<{"match", "while", "for"}, {"while", "switch", "random"}, {"step", "branch"}, Twigs>>

\* Branches in branches.
Forks == <<{"branch"}, {"branch", "random", "step"}, {"branch", "step"}, {"branch", "step", "return"}, Twigs>>

\* Wires that lead back.
Cycles == <<{"branch", "sequence", "step"}, {"branch", "for", "step"}, {"branch", "step"}>>

AllSetups == {Setup(Nests, 4, FALSE, FALSE, {}), Setup(Nests, 5, TRUE, FALSE, {}),
              Setup(Blocks, 4, TRUE, FALSE, {}), Setup(Forks, 6, TRUE, FALSE, {}),
              Setup(Cycles, 4, TRUE, TRUE, {})}

\* One for every condition that is waived.
OwnLoop == {Setup(<<{"for"}, {"while"}, {"step"}, {"step"}>>, 4, FALSE, FALSE, {"own loop"})}
Once == {Setup(<<{"sequence"}, {"for"}, {"step"}, {"step"}>>, 5, FALSE, FALSE, {"loop once"})}
Body == {Setup(<<{"for"}, {"step"}>>, 4, TRUE, FALSE, {"body"})}
Ends == {Setup(<<{"switch"}, {"step"}>>, 4, TRUE, FALSE, {"ends"})}
RandomEnds == {Setup(<<{"random"}, {"step"}>>, 6, TRUE, FALSE, {"random"})}
Breaks == {Setup(<<{"for"}, {"branch"}>>, 4, TRUE, FALSE, {"break"})}
After == {Setup(<<{"for"}, {"for"}, {"step"}>>, 4, TRUE, FALSE, {})}
=============================================================================
