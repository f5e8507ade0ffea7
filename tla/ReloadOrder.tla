----------------------------- MODULE ReloadOrder -----------------------------
(* OScriptLanguage::_reload_scripts (language.cpp): a set of scripts is to be  *)
(* reloaded, and with them every script that inherits from one of them.  All   *)
(* scripts are sorted by "is a base of", then one pass collects those asked    *)
(* for and those whose base has been collected.                                *)
(*                                                                             *)
(* "Is a base of" is a partial order: two scripts it does not relate need not  *)
(* relate alike to a third one, as the sort takes for granted.                 *)
EXTENDS Naturals, Sequences, FiniteSets, SequencesExt

CONSTANTS Scripts, NoBase     \* at most 16 scripts: the engine sorts them by insertion

VARIABLES base,      \* OScript::base
          asked,     \* p_scripts
          scripts,   \* the list that is sorted, then walked
          sorted,    \* how many of its first elements have been inserted
          marked,    \* how many elements the pass has seen
          reload     \* to_reload, in the order of its insertions

vars == <<base, asked, scripts, sorted, marked, reload>>

\* The bases of s, nearest first, as OScriptDepSort walks them.
Bases(s) ==
    LET up[n \in 0 .. Cardinality(Scripts)] ==
            IF n = 0 THEN {base[s]} ELSE up[n - 1] \cup {base[t] : t \in up[n - 1] \cap Scripts}
    IN  up[Cardinality(Scripts)] \cap Scripts

TypeOK ==
    /\ base \in [Scripts -> Scripts \cup {NoBase}]
    /\ asked \subseteq Scripts
    /\ scripts \in Seq(Scripts) /\ ToSet(scripts) = Scripts /\ IsInjective(scripts)
    /\ sorted \in 1 .. Len(scripts)
    /\ marked \in 0 .. Len(scripts)
    /\ reload \in Seq(Scripts) /\ IsInjective(reload)

\* The list of a language is in no order: a script enters it when it is made.
Init ==
    /\ base \in [Scripts -> Scripts \cup {NoBase}]
    /\ \A s \in Scripts : s \notin Bases(s)
    /\ asked \in (SUBSET Scripts) \ {{}}
    /\ scripts \in SetToSeqs(Scripts)
    /\ sorted = 1
    /\ marked = 0
    /\ reload = <<>>

-----------------------------------------------------------------------------
(* Actions                                                                     *)

\* OScriptDepSort
IsBaseOf(s, t) == s \in Bases(t)

\* SortArray::linear_insert of the engine, which sorts at most 16 elements: the
\* next element goes to the front if it is less than the first one, and else to
\* the left for as long as it is less than its neighbour.
Insert ==
    /\ sorted < Len(scripts)
    /\ LET s    == scripts[sorted + 1]
           rest == Remove(scripts, s)
           to   == IF IsBaseOf(s, scripts[1]) THEN 1
                   ELSE CHOOSE k \in 1 .. sorted + 1 :
                          /\ \A j \in k .. sorted : IsBaseOf(s, scripts[j])
                          /\ k = 1 \/ ~IsBaseOf(s, scripts[k - 1])
       IN  scripts' = InsertAt(rest, to, s)
    /\ sorted' = sorted + 1
    /\ UNCHANGED <<base, asked, marked, reload>>

\* One turn of the loop that fills to_reload.
Mark ==
    /\ sorted = Len(scripts)
    /\ marked < Len(scripts)
    /\ LET s == scripts[marked + 1]
       IN  reload' = IF s \in asked \/ base[s] \in ToSet(reload) THEN Append(reload, s) ELSE reload
    /\ marked' = marked + 1
    /\ UNCHANGED <<base, asked, scripts, sorted>>

Next == Insert \/ Mark

Spec == Init /\ [][Next]_vars

-----------------------------------------------------------------------------
(* Properties                                                                  *)

\* language.cpp:56 "parent must be reloaded first": no script is reloaded before
\* one of its bases, for it takes over its base's members.
ParentsFirst ==
    \A i, j \in 1 .. Len(reload) : IsBaseOf(reload[i], reload[j]) => i < j

\* A script that inherits from one that is reloaded is reloaded too.
DerivedReloaded ==
    marked = Len(scripts) =>
        \A s \in Scripts : Bases(s) \cap asked # {} => s \in ToSet(reload)
=============================================================================
