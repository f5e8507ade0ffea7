----------------------------- MODULE ScriptCache -----------------------------
(* How orchestrations that extend and mention each other are loaded: the cache *)
(* of scripts and of parsers (script_cache.cpp), the steps of a parser that    *)
(* ask for other scripts (analyzer.cpp), the reload of a script (script.cpp)   *)
(* and the part of its compilation that reaches other scripts (compiler.cpp).  *)
(*                                                                             *)
(* All of it runs under one lock, and calls itself through other files. A      *)
(* request is one action here; the operators below take the state of the cache *)
(* as a record and return it as the call leaves it. The field err is what the  *)
(* call returns: TRUE when it failed.                                          *)
EXTENDS Naturals, Sequences, FiniteSets, SequencesExt, FiniteSetsExt

CONSTANTS Scripts,      \* the paths
          None,
          Worlds,       \* projects to consider: [contents, edits], what a file
                        \* may hold, and bound: how often files change outside
          MaxParsers    \* bound: parsers that exist at one time

ASSUME NoneAssumption == None \notin Scripts

\* What is wrong with a file, or the graph read from it: it cannot be read as a
\* graph, its graph does not parse, a member does not resolve, or the static
\* initializer fails, in a script that may run.
Faults == {"none", "load", "parse", "member", "init"}
Files == [extends : Scripts \cup {None}, uses : Seq(Scripts), fault : Faults]

ASSUME WorldsAssumption == \A w \in Worlds : w.contents \subseteq Files /\ w.edits \in Nat

VARIABLES world,    \* one of Worlds
          file,     \* the content of each file
          cache,    \* the record the operators work on, see Caches
          answer,   \* the last request and its result, [script, update, err]; None if
                    \* there was none since a file has changed
          edits,    \* files changed so far
          circled   \* files have led to each other in a circle

vars == <<world, file, cache, answer, edits, circled>>

Ids == 1 .. MaxParsers

(* A parser reference with its parser: the file it read, its status, the       *)
(* result of its last step, the kind of the base of its class and its parser,  *)
(* the parsers it keeps (depended_parsers), the number of its errors and       *)
(* whether its interface has been resolved.                                    *)
Parsers == [path : Scripts, content : world.contents \cup {None}, status : 0 .. 2, result : BOOLEAN,
            kind : {"unset", "resolving", "native", "class"}, base : Ids \cup {None},
            held : SUBSET Ids, errors : Nat, solved : BOOLEAN]

(* A script object: the file it was last given, the graph it keeps in memory,  *)
(* whether the time it has stamped is that of the file (a changed file has     *)
(* another), the source it last compiled, _valid, and its base.                *)
ScriptObjects == [source : world.contents \cup {None}, graph : world.contents \cup {None},
                  stamped : BOOLEAN, compiled : world.contents \cup {None},
                  valid : BOOLEAN, base : Scripts \cup {None}]

(* p: the parsers that exist; map: _parser_map; inverse: inverse dependencies; *)
(* depends: _dependencies; full, shallow: the two caches of scripts; script:   *)
(* the objects; busy: their flag reloading; tried: those rebuilt since a file  *)
(* has changed; own: the parsers on the stack of a reload; hung: a walk along  *)
(* the bases of a class would never end; stale: a reload of this request has   *)
(* seen another file as it once was; err: the last call failed.                *)
Caches == [p : UNION {[I -> Parsers] : I \in SUBSET Ids}, map : [Scripts -> Ids \cup {None}],
           inverse : [Scripts -> SUBSET Scripts], depends : [Scripts -> Seq(Scripts)],
           full : SUBSET Scripts, shallow : SUBSET Scripts, script : [Scripts -> ScriptObjects],
           busy : SUBSET Scripts, tried : SUBSET Scripts, own : SUBSET Ids,
           hung : BOOLEAN, stale : BOOLEAN, err : BOOLEAN]

EmptyCache ==
    [p |-> <<>>, map |-> [s \in Scripts |-> None], inverse |-> [s \in Scripts |-> {}],
     depends |-> [s \in Scripts |-> <<>>], full |-> {}, shallow |-> {},
     script |-> [s \in Scripts |-> [source |-> None, graph |-> None, stamped |-> FALSE,
                                    compiled |-> None, valid |-> FALSE, base |-> None]],
     busy |-> {}, tried |-> {}, own |-> {}, hung |-> FALSE, stale |-> FALSE, err |-> FALSE]

\* What is reached from the set S by the steps of next.
RECURSIVE Closure(_, _)
Closure(next, S) ==
    LET more == (UNION {next[x] : x \in S}) \ S
    IN  IF more = {} THEN S ELSE Closure(next, S \cup more)

\* The scripts that s reaches through what the files extend and, if asked, mention.
Leads(f, s, mentions) ==
    ({f[s].extends} \ {None}) \cup (IF mentions THEN ToSet(f[s].uses) ELSE {})
Reach(f, s, mentions) ==
    LET next == [t \in Scripts |-> Leads(f, t, mentions)]
    IN  Closure(next, next[s])
Circle(f) == \E s \in Scripts : s \in Reach(f, s, TRUE)

Init ==
    /\ world \in Worlds
    /\ file \in [Scripts -> world.contents]
    /\ cache = EmptyCache
    /\ answer = None
    /\ edits = 0
    /\ circled = Circle(file)

-----------------------------------------------------------------------------
(* Parsers                                                                     *)

\* References of parsers are counted: who is held by none is gone, and with it its hold.
RECURSIVE Collect(_)
Collect(c) ==
    LET held == UNION {c.p[i].held : i \in DOMAIN c.p}
        gone == DOMAIN c.p \ (held \cup c.own)
    IN  IF gone = {} THEN c
        ELSE Collect([c EXCEPT !.p = [i \in DOMAIN c.p \ gone |-> c.p[i]],
                               !.map = [s \in Scripts |-> IF c.map[s] \in gone THEN None ELSE c.map[s]]])

\* A new parser of script s, kept by its maker.
Free(c) == Min(Ids \ DOMAIN c.p)
WithParser(c, s, content) ==
    [c EXCEPT !.p = [i \in DOMAIN c.p \cup {Free(c)} |->
        IF i = Free(c)
        THEN [path |-> s, content |-> content, status |-> 0, result |-> TRUE, kind |-> "unset",
              base |-> None, held |-> {}, errors |-> 0, solved |-> FALSE]
        ELSE c.p[i]]]

\* As RemoveParser would be, did it not go on to who depends on the script.
MutantRemoveParser(c, s) == [c EXCEPT !.map[s] = None, !.inverse[s] = {}]

\* OScriptCache::remove_parser
RECURSIVE RemoveParser(_, _)
RemoveParser(c, s) ==
    FoldSet(LAMBDA t, d : RemoveParser(d, t),
            [c EXCEPT !.map[s] = None, !.inverse[s] = {}], c.inverse[s])

\* owner will be asked to load s when it is compiled.
Needs(c, s, owner) ==
    IF owner \in {None, s} \/ s \in ToSet(c.depends[owner]) THEN c
    ELSE [c EXCEPT !.depends[owner] = Append(@, s)]

\* OScriptCache::get_parser without its raise_status
GetParser(c, s, owner) ==
    LET d == IF owner \in {None, s} THEN c
             ELSE [Needs(c, s, owner) EXCEPT !.inverse[s] = @ \cup {owner}]
    IN  IF d.map[s] # None THEN d
        ELSE [WithParser(d, s, None) EXCEPT !.map[s] = Free(d)]

\* OScriptParser::get_depended_parser_for; Depended is what it returns.
Depended(c, i, s) == CHOOSE j \in c.p[i].held : c.p[j].path = s
Depend(c, i, s) ==
    IF \E j \in c.p[i].held : c.p[j].path = s THEN c
    ELSE LET d == GetParser(c, s, c.p[i].path)
         IN  [d EXCEPT !.p[i].held = @ \cup {d.map[s]}]

\* The classes from that of parser i on, along their bases.
BaseChain(c, i) == Closure([j \in DOMAIN c.p |-> {c.p[j].base} \ {None}], {i})
\* The walk along them ends.
WalkEnds(c, i) == \E j \in BaseChain(c, i) : c.p[j].base = None

\* push_error
Failed(c, i) == [c EXCEPT !.p[i].errors = @ + 1, !.err = TRUE]

-----------------------------------------------------------------------------
(* The steps of a parser                                                       *)

RECURSIVE Raise(_, _, _)

\* As Inheritance would be, did it not look at the bases of the base.
MutantCyclic(c, i, e) == c.p[e].path = c.p[i].path

\* The check for cyclic inheritance of a class i that extends e.
Cyclic(c, i, e) == \E j \in BaseChain(c, e) : c.p[j].path = c.p[i].path

\* OScriptAnalyzer::resolve_class_inheritance of the parser's own class: the
\* inheritance of the base is solved first.
Extend(c, i, e) ==
    IF c.err \/ Cyclic(c, i, e) THEN Failed(c, i)
    ELSE [c EXCEPT !.p[i].kind = "class", !.p[i].base = e, !.err = FALSE,
                   !.hung = @ \/ ~WalkEnds(c, e)]
FindBase(c, i, s) == Extend(Raise(c, Depended(c, i, s), 2), i, Depended(c, i, s))
Inheritance(c, i) ==
    LET extends == c.p[i].content.extends
    IN  CASE c.p[i].kind = "resolving" -> Failed(c, i)
          [] c.p[i].kind \in {"native", "class"} -> [c EXCEPT !.err = FALSE]
          [] c.p[i].kind = "unset" /\ extends = None -> [c EXCEPT !.p[i].kind = "native", !.err = FALSE]
          [] c.p[i].kind = "unset" /\ extends # None ->
                FindBase(Depend([c EXCEPT !.p[i].kind = "resolving"], i, extends), i, extends)

\* A parser reads its file, then looks for the base of its class.
Parse(c, i) ==
    LET content == file[c.p[i].path]
    IN  [c EXCEPT !.p[i].status = 1, !.p[i].content = content,
                  !.p[i].result = content.fault \notin {"load", "parse"}]
Told(c, i) == [c EXCEPT !.p[i].result = ~c.err]
Solve(c, i) == Told(Inheritance([c EXCEPT !.p[i].status = 2], i), i)

\* OScriptParserRef::raise_status; nobody asks for more than the second step.
Raise(c, i, target) ==
    IF target < c.p[i].status THEN [c EXCEPT !.err = FALSE]
    ELSE IF target = c.p[i].status \/ ~c.p[i].result THEN [c EXCEPT !.err = ~c.p[i].result]
    ELSE Raise(IF c.p[i].status = 0 THEN Parse(c, i) ELSE Solve(c, i), i, target)

\* A type that a member names: the other script's inheritance is solved.
Charged(c, i) == IF c.err THEN Failed(c, i) ELSE c
Named(c, i, s) == Charged(Raise(c, Depended(c, i, s), 2), i)
Mention(c, i, s) == IF s = c.p[i].path THEN c ELSE Named(Depend(c, i, s), i, s)

\* resolve_class_interface and resolve_class_body: first those of the base, once.
\* The class fails when its base gains errors meanwhile.
RECURSIVE Interface(_, _)
Inherited(c, i, b, before) == IF c.p[b].errors > before THEN Failed(c, i) ELSE c
OfBase(c, i, b) ==
    IF b = None THEN c ELSE Inherited(Interface(Raise(c, b, 1), b), i, b, c.p[b].errors)
Members(c, i) ==
    FoldLeft(LAMBDA x, s : Mention(x, i, s), OfBase(c, i, c.p[i].base), c.p[i].content.uses)
Resolved(c, i) ==
    IF c.err THEN c
    ELSE IF c.p[i].content.fault = "member" THEN Failed(Members(c, i), i) ELSE Members(c, i)
Interface(c, i) ==
    IF c.p[i].solved THEN c ELSE Resolved(Inheritance([c EXCEPT !.p[i].solved = TRUE], i), i)

\* OScriptAnalyzer::analyze: without errors the scripts that were mentioned are
\* solved at last.
SolveHeld(c, i) == FoldSet(LAMBDA j, x : Raise(x, j, 2), c, c.p[i].held)
Judged(c, i) == [c EXCEPT !.err = c.p[i].errors > 0]
SolveRest(c, i) == IF c.p[i].errors > 0 THEN Judged(c, i) ELSE Judged(SolveHeld(c, i), i)
AnalyzeRest(c, i) == IF c.err THEN c ELSE SolveRest(Interface(c, i), i)
Analyze(c, i) == AnalyzeRest(Inheritance(c, i), i)

-----------------------------------------------------------------------------
(* Scripts                                                                     *)

\* load_source_code and set_source: a file that differs from the last one is
\* taken over with its time, or with none where the object has no path yet.
SetSource(c, s, known) ==
    IF c.script[s].source = file[s] THEN c
    ELSE [c EXCEPT !.script[s].source = file[s], !.script[s].stamped = known]

\* OScriptCache::get_shallow_script
Shallow(c, s, owner) ==
    LET d == Needs(c, s, owner)
        g == GetParser(SetSource(d, s, FALSE), s, None)
        r == Raise([g EXCEPT !.own = @ \cup {g.map[s]}], g.map[s], 1)
    IN  IF s \in c.full \cup c.shallow THEN [d EXCEPT !.err = FALSE]
        ELSE Collect([r EXCEPT !.own = c.own, !.shallow = @ \cup {s}])

(* OScriptCompiler::prepare_compilation of script s by class i: the scripts    *)
(* that are begun and those that are done are parsing_classes, parsed_classes. *)
RECURSIVE Prepare(_, _, _, _)
Prepared(c, s, i) ==
    [FoldLeft(LAMBDA x, t : Shallow(x, t, s), c, SelectSeq(c.p[i].content.uses, LAMBDA t : t # s))
        EXCEPT !.err = FALSE]
BasePrepared(c, failed, s, i) ==
    IF failed \/ c.err THEN [c EXCEPT !.err = TRUE]
    ELSE Prepared([c EXCEPT !.script[s].base = c.p[c.p[i].base].path], s, i)
PrepareBase(c, s, i, begun) ==
    LET b == c.p[i].base
        q == c.p[b].path
    IN  BasePrepared(IF c.script[q].valid THEN c ELSE Prepare(c, q, b, begun \cup {s}), c.err, s, i)
Prepare(c, s, i, begun) ==
    LET d == [c EXCEPT !.script[s].base = None]
    IN  IF s \in begun \/ c.p[i].kind \in {"unset", "resolving"} THEN [c EXCEPT !.err = TRUE]
        ELSE IF c.p[i].base = None THEN Prepared(d, s, i)
        ELSE PrepareBase(Shallow(d, c.p[c.p[i].base].path, s), s, i, begun)

RECURSIVE Full(_, _, _)

\* As FinishCompiling would be, did it not ask for what the script depends on.
MutantFinishCompiling(c, s) ==
    [c EXCEPT !.full = @ \cup {s}, !.shallow = @ \ {s}, !.err = FALSE, !.depends[s] = <<>>]

\* OScriptCache::finish_compiling
FinishCompiling(c, s) ==
    LET d == [c EXCEPT !.full = @ \cup {s}, !.shallow = @ \ {s}, !.err = FALSE]
        Next1(x, t) == LET r == Full(x, t, FALSE) IN [r EXCEPT !.err = @ \/ x.err]
    IN  [FoldLeft(Next1, d, d.depends[s]) EXCEPT !.depends[s] = <<>>]

\* OScriptCompiler::compile
Finish(c, s) == IF c.err THEN c ELSE FinishCompiling([c EXCEPT !.script[s].valid = TRUE], s)
Compile(c, s, i) == IF c.err THEN c ELSE Finish(Prepare(c, s, i, {}), s)

\* What parser i has seen of other files is not what is in them now.
Outdated(c, i) ==
    LET seen == Closure([j \in DOMAIN c.p |-> c.p[j].held], {i}) \ {i}
    IN  \E j \in seen : c.p[j].content \notin {None, file[c.p[j].path]}

(* OScript::_reload from the moment the parser of the file is known to be      *)
(* current.  A first graph is read from the file; later only the time tells    *)
(* whether it is read anew, and what cannot be read leaves the old one.        *)
WithGraph(c, s) ==
    LET script == c.script[s]
        read == script.graph = None \/ (~script.stamped /\ file[s].fault # "load")
    IN  [c EXCEPT !.script[s].graph = IF read THEN file[s] ELSE @, !.script[s].stamped = TRUE]
Released(c, i, own) == Collect([c EXCEPT !.own = own, !.stale = @ \/ Outdated(c, i)])
Build(c, s) ==
    LET i == Free(c)
        w == [WithParser(c, s, c.script[s].graph) EXCEPT !.own = @ \cup {i}, !.p[i].status = 2]
    IN  IF c.script[s].graph.fault = "parse" THEN [c EXCEPT !.err = TRUE]
        ELSE Released(Compile(Analyze(w, i), s, i), i, c.own)

(* Where the first graph cannot be read, and where the static initializer      *)
(* fails, the flag stays set; any other way out resets it.                     *)
Ended(c, s) == [c EXCEPT !.busy = @ \ {s}]
Stamped(c, s) ==
    CASE c.err -> Ended(c, s)
      [] ~c.err /\ c.script[s].graph.fault = "init" -> [c EXCEPT !.err = TRUE]
      [] OTHER -> Ended([c EXCEPT !.script[s].compiled = c.script[s].source], s)
Rebuild(c, s) ==
    IF c.script[s].graph = None /\ file[s].fault = "load" THEN [c EXCEPT !.err = TRUE]
    ELSE Stamped(Build(WithGraph(c, s), s), s)

\* OScript::_reload
Reload(c, s) ==
    LET source == c.script[s].source
        d == IF c.map[s] # None /\ c.p[c.map[s]].content # source THEN Collect(RemoveParser(c, s)) ELSE c
    IN  IF s \in c.busy THEN [c EXCEPT !.err = FALSE]
        ELSE IF c.script[s].valid /\ source = c.script[s].compiled THEN [d EXCEPT !.err = FALSE]
        ELSE Rebuild([d EXCEPT !.busy = @ \cup {s}, !.tried = @ \cup {s}, !.script[s].valid = FALSE], s)

\* OScriptCache::get_full_script
Full(c, s, update) ==
    LET d == IF s \in c.full THEN c ELSE Shallow(c, s, None)
        e == IF update THEN SetSource(d, s, TRUE) ELSE d
    IN  IF s \in c.full /\ ~update THEN [c EXCEPT !.err = FALSE]
        ELSE [Reload(e, s) EXCEPT !.full = @ \cup {s}, !.shallow = @ \ {s}]

-----------------------------------------------------------------------------
(* Requests                                                                    *)

Ask(s, update) ==
    LET c == Full([cache EXCEPT !.stale = FALSE], s, update)
    IN  /\ cache' = c
        /\ answer' = [script |-> s, update |-> update, err |-> c.err]
        /\ UNCHANGED <<world, file, edits, circled>>

\* The engine loads a script it does not have yet.
Request(s) == s \notin cache.full /\ Ask(s, FALSE)

\* The editor loads a script past the engine's cache, whether it has it or not.
Reread(s) == Ask(s, TRUE)

\* A file changes outside, and with it its time.
Edit(s) ==
    /\ edits < world.edits
    /\ \E content \in world.contents \ {file[s]} : file' = [file EXCEPT ![s] = content]
    /\ edits' = edits + 1
    /\ circled' = (circled \/ Circle(file'))
    /\ cache' = [cache EXCEPT !.script[s].stamped = FALSE, !.tried = {}]
    /\ answer' = None
    /\ UNCHANGED world

Next == \E s \in Scripts : Request(s) \/ Reread(s) \/ Edit(s)

Spec == Init /\ [][Next]_vars

-----------------------------------------------------------------------------
(* Properties                                                                  *)

TypeOK ==
    /\ file \in [Scripts -> world.contents]
    /\ DOMAIN cache.p \subseteq Ids
    /\ \A i \in DOMAIN cache.p : cache.p[i] \in Parsers
    /\ cache.map \in [Scripts -> DOMAIN cache.p \cup {None}]
    /\ cache.inverse \in [Scripts -> SUBSET Scripts]
    /\ \A s \in Scripts : cache.depends[s] \in Seq(Scripts) /\ IsInjective(cache.depends[s])
    /\ cache.script \in [Scripts -> ScriptObjects]
    /\ cache.full \subseteq Scripts /\ cache.shallow \subseteq Scripts \ cache.full
    /\ cache.busy \subseteq Scripts /\ cache.tried \subseteq Scripts /\ cache.own = {}
    /\ edits \in 0 .. world.edits

(* What is in the map of parsers depends on parsers in the map only: removing  *)
(* one removes all that have been worked out with it.                          *)
DependsOnCurrent ==
    \A s \in Scripts : cache.map[s] # None =>
        \A j \in cache.p[cache.map[s]].held : cache.map[cache.p[j].path] = j

(* No class has a circle of bases anywhere behind it: the walks along bases in *)
(* the analyzer (analyzer.cpp:1580, 1313) always end.                          *)
WalksEnd == ~cache.hung

(* A script whose files lead into a circle of inheritance is refused, whatever *)
(* was loaded before it and has left its parsers behind; no walk is endless.   *)
InCircle(s) == \E t \in Reach(file, s, FALSE) \cup {s} : t \in Reach(file, t, FALSE)
CyclesRefused ==
    /\ TypeOK
    /\ WalksEnd
    /\ edits = 0 => \A s \in Scripts : InCircle(s) => ~cache.script[s].valid

(* When all files a script leads to are well, it is loaded, and with it all of *)
(* them, in any order of requests, also when they mention each other.          *)
Sound(s) ==
    \A t \in Reach(file, s, TRUE) \cup {s} : file[t].fault = "none" /\ ~InCircle(t)
WellLoaded ==
    edits = 0 => \A s \in cache.full : Sound(s) =>
        \A t \in Reach(file, s, TRUE) \cup {s} : t \in cache.full /\ cache.script[t].valid

(* A request that is answered without an error has built its script, unless    *)
(* its reload was left once with the flag set, which every later reload takes  *)
(* for one that runs. Nor is it built on a base that was found wanting: if     *)
(* both were rebuilt since a file has changed, and the base from its file, the *)
(* base is valid, whatever the order. While files lead to each other in a      *)
(* circle the code does not keep this.                                         *)
Stuck(s) == s \in cache.busy
Built(s) == cache.script[s].valid \/ Stuck(s)
Wanting(b) == b \in cache.tried /\ cache.script[b].graph = file[b] /\ ~Built(b)
BuiltAnswer ==
    answer # None /\ ~answer.err =>
        /\ Built(answer.script)
        /\ answer.script \in cache.tried /\ cache.script[answer.script].base # None =>
              ~Wanting(cache.script[answer.script].base)
HonestAnswer == ~circled => BuiltAnswer

(* Requests are answered right: what is well is loaded with all it leads to,   *)
(* and what is answered without an error is built.                             *)
AnswersRight == WellLoaded /\ HonestAnswer

(* While no files have led to each other in a circle, a reload sees every file *)
(* but its own as it is: no parser outlives the request that made it, and what *)
(* is kept of others is what the map names.                                    *)
SeesFiles == DependsOnCurrent /\ (~circled => ~cache.stale)

(* The bases of scripts form no circle.                                        *)
BasesEnd ==
    \A s \in Scripts :
        LET next == [t \in Scripts |-> {cache.script[t].base} \ {None}]
        IN  s \notin Closure(next, next[s])

(* script_cache.cpp:374, p_update_from_disk: a script that is asked for from   *)
(* the disk and answered without an error has the graph of its file.           *)
ReadAnew ==
    answer # None /\ ~answer.err /\ answer.update =>
        cache.script[answer.script].graph = file[answer.script]

(* script.cpp:716 "Check condition but reset flag before early return": no     *)
(* reload is taken for running when none runs.                                 *)
NoneStuck == cache.busy = {}

=============================================================================
