---------------------------- MODULE MCScriptCache ----------------------------
(* Instances of ScriptCache with three scripts.                                *)
EXTENDS ScriptCache

Uses == {<<>>} \cup {<<s>> : s \in Scripts}

\* Files that are well as far as one file goes.
Plain == [extends : Scripts \cup {None}, uses : Uses, fault : {"none"}]

\* Files that only extend.
Bare == {x \in Plain : x.uses = <<>>}

\* Files with an error of their own that extend others.
Faulty == [extends : Scripts \cup {None}, uses : {<<>>}, fault : Faults]

\* Files that extend others, or are faulty.
Failing == Bare \cup {x \in Faulty : x.extends = None}

\* Files that extend at most one other and mention at most one.
Mentioning == {x \in Plain : x.uses = <<>> \/ x.extends = None}

\* Files that extend one other or mention one, with or without an error of their own.
Mixed == {x \in [extends : Scripts \cup {None}, uses : Uses, fault : {"none", "member"}] :
              x.uses = <<>> \/ x.extends = None}

World(contents, most) == [contents |-> contents, edits |-> most]

AllWorlds == {World(Plain, 0), World(Faulty, 0), World(Mentioning, 1), World(Failing, 1)}

\* Worlds in which HonestAnswer and BasesEnd fail.
CircleOfMentions == {World(Mixed, 0)}
TwoEdits == {World(Bare, 2)}

\* The order of Scripts matters to nothing.
Renamings == Permutations(Scripts)
=============================================================================
