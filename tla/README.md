# Redotchestrator in TLA+

Redotchestrator (`src/`) is a visual scripting language for the Godot/Redot
engine: a C++ extension library that brings a document format (orchestrations), a
parser, analyzer, compiler and virtual machine for it, a graph editor inside
the engine's editor, and a self-updating editor plugin. This directory holds
TLA+ modules for the parts of it whose correctness depends on the order in
which things happen, the TLC configurations that check them, and proofs about
them for TLAPS. `PROJECT.json` relates every definition to source lines.

## How to run

    tlc -workers 2 -config UpdaterInstall.cfg UpdaterInstall.tla
    tlc -workers 2 -config RerouteGraph.cfg   MCRerouteGraph.tla
    tlc -workers 2 -config FunctionState.cfg  MCFunctionState.tla
    tlapm UpdaterInstall_proofs.tla

and likewise for the other `.cfg` files and `*_proofs.tla` modules.

| run | module / cfg | question | result |
|---|---|---|---|
| updater | UpdaterInstall / UpdaterInstall.cfg | does an intact plugin survive kills, failed operations and editors that open inside an install, is an update atomic, and does every recorded one end? | holds, 470,053 states |
| release_feed | MCReleaseFeed / ReleaseFeed.cfg | is what the picker installs what both lists said of it, and does what it offers settle on what is online? | holds, 663,252 states |
| reroute | MCRerouteGraph / RerouteGraph.cfg | do edits of reroutes keep the wires acyclic, single and joined? | holds, 19,726 states |
| function_state | MCFunctionState / FunctionState.cfg | is a suspended execution resumed at most once, intact, and freed in the end, whatever is reloaded or freed meanwhile, and does whoever awaits it wait for something that goes on? | holds, 185,572 states |
| call_stack | CallStack / CallStack.cfg | do the debugger's levels and the depth counter agree with the native stack across await and resume? | holds, 93,515 states |
| reload_order_four | ReloadOrder / ReloadOrderFour.cfg | are bases reloaded before what derives from them? | violated |
| script_cache | MCScriptCache / ScriptCache.cfg | are circles of inheritance refused, everything else loaded, answers without an error true and other scripts' files seen as they are, in any order of requests? | holds, 222,532 states |
| store | MCOrchestrationStore / OrchestrationStore.cfg | do the tables of an orchestration agree after any sequence of edits, pastes, saves and reloads? | holds, 325,288 states |
| dynamic_pins | DynamicPins / DynamicPins.cfg | do wires stay with their pins when pins come and go? | holds, 56,489 states |
| reload | MCScriptReload / ScriptReload.cfg | does a tab show the file it claims to show, is no edit lost unasked, and is every change noticed? | holds, 159,432 states |
| orphan_repair | OrphanRepair / OrphanRepair.cfg | is a damaged document in order after its repair, and nothing lost that was in order? | holds, 79,092 states |
| flow | MCFunctionFlow / FunctionFlow.cfg | do the statements of a function do what its wires show? | holds under the conditions of `Tidy`, 355,885 states |

Every other `.cfg` shows a statement that TLC refutes; see "Statements the code
breaks". Where `TypeOK` is not listed in a `.cfg` it is a conjunct of one of the
invariants that are (`OneSwap`, `PickerCurrent`, `DepthCounts`, `CyclesRefused`,
`WellFormed`, `WellWired`, `TabShowsFile`, `Repaired`, `SameNodes`).

## Inventory

Paths are below `src/src/`. "Hard" is what makes a part hard to test.

| component | state | operations | talks to | hard | correct when |
|---|---|---|---|---|---|
| update installation and recovery (`editor/updater`) | directories `orchestrator`, `.redotchestrator-update-backup`, `...-stage-<id>` and the transaction record below `addons/` | `_install`, `recover_update` | the file system, other editor processes | kills between two renames, failed operations, several editors | an intact plugin is always on disk, an update is all or nothing, nothing stays pending |
| release feed and version picker (`editor/updater`) | release table, manifests, picker state | two HTTP requests, merge, hourly timer | installer | answers in any order, overlapping refreshes | an offered release has the manifest and archive of that release |
| archive and signature checks (`editor/updater`) | none | parse, digest, verify | installer | malformed input | pure functions |
| reroute graph (`orchestration/nodes/reroute`, `node_pin`, `editor/graph/graph_panel`) | wires, types of reroutes | link, unlink, insert, dissolve, duplicate, remove | store, graph editor | callbacks that retype pins inside a link that is not finished | no loop, single wires, flow does not branch, kinds do not mix |
| orchestration store (`orchestration/`) | nodes, graphs, functions, variables, signals, connections, ids | add, remove, rename, duplicate, load repair | editor, parser, serializers | ids and names held in several tables, undo of partial duplicates | every reference resolves, ids are unique, functions own their graphs |
| node library (`orchestration/nodes`) | per-node settings | describe pins, react to pin changes | store | breadth, not interleaving | per node |
| serialization (`orchestration/serialization`) | none across calls | read, write, text and binary | store | round trips | load(save(x)) = x |
| script object and reload (`script/script`) | source, orchestration, compiled state, `reloading`, modification stamps | set_source, load, reload, reload_from_file | cache, compiler, editor | early returns that leave flags set, edits deferred across frames | compiled state is that of the source it claims |
| script cache (`script/script_cache`) | shallow and full scripts, parser references, dependency tables | get, remove, raise status, finish compiling | parser, analyzer, compiler | cyclic dependencies, failures cached as success | a status says what has been done |
| parser, analyzer, compiler (`script/parser`, `script/compiler`) | per compilation | translate | cache, VM | recursion through other scripts | sequential |
| virtual machine (`script/script_vm`) | stack of a call | `call` | instances, function states | await, depth limit | see next |
| suspended executions (`compiled_function`, `script_vm`, `script_instance`, `script`) | `OScriptFunctionState` objects, `pending_func_states` of script and instance, connections | await, resume, cancel | engine signals, VM, reload | signals, reloads and frees in any order, circles of references | resumed once, only while owner and function exist; not leaked |
| instances and placeholders (`script/script_instance`) | instance sets per script | create, convert, free | engine threads | locks | each object has one live instance |
| language and server (`script/language`, `script_server`) | script list, debug call stack, global classes | reload scripts, enter/exit function | all | reload order | stack balanced, registry current |
| editor panel and tabs (`editor/editor`) | open tabs, modification times, dialogs | save, reload, test times | script object | external edits racing with saves | no edit is lost silently |
| graph editor, plugins, dialogs (`editor/...`) | widgets | user interface | store, panel | | |
| engine interface (`api`, `common`, `core`) | extension database | conversions | all | | |
| release tooling, build, tests | none | | | | |

`PROJECT.json` lists the same components with their files, and the hazards of
the code, each at its line with the properties that cover it or the reason why
none does yet.

## What is modelled

### UpdaterInstall, AtomicUpdate

One module: the four names below `addons/` are the shared state (`target`,
`backup`, `stage`, `record`), every editor is a process whose `pc` is its place
in `_install` (`Reserve`, `Extract`, `CheckEvidence`, `CreateRecord`,
`WriteRecord`, `BackUp`, `Activate`, `Rollback`, `RemoveRecord`, `CleanUp`) or
in `recover_update` (`ReadRecord`, `Probe`, `Restore`, `Confirm`,
`Discard`, `Forget`; `remove_tree` is two steps, because it deletes file by
file). Each file operation is one step. Any operation may fail for a reason of
its own and any process may be killed between two steps; `MaxFaults` bounds
how often. A tree is a version and whether it is whole; checksums and archive
parsing are the success or failure of `Extract`.

`Pinning` is the platform: on Windows `UpdateDirectoryLock` holds the staging
root open without FILE_SHARE_DELETE, elsewhere nothing holds it. `overlaps`
counts how often an editor opened while another one installed. No code prevents
that. What holds only while it has not happened says so (`overlaps = 0`);
with two editors and no failure `IntactSomewhere` and `NoPartialPlugin` hold
also when it has, because the stage is pinned. `AtomicUpdate` is the promise in
the abstract: one intact copy of the plugin is in force, it changes in one step, to a
release that an editor asked for, and starting, giving up, being killed and
recovering change nothing. `UpdaterInstall` implements it (`Atomic`) with the
copy in force being the addon directory or, where there is none, the backup, and an
editor wanting what it installs until it activates the stage or gives up.
An editor that still runs an old release may replace one that is newer than what it
asks for; the promise is only that it asked for something newer than itself. With `Pinning` = FALSE the latter
fails (`UpdaterPosix.cfg`), and so it does with three editors, pinned or not: the
first is still deleting the backup of an old update, the second has moved the
addon directory to that very name, and the third restores what is left
(`WholePlugin`). The proof attempt found this; the run has two editors.

*Bounds.* Two editors are needed for any interleaving (a third one is left to the
proofs, which cover the others for any number, and to `WholePlugin`), three versions for an
update that follows an update, two stages for two installs at once, two faults
for a failed activation whose rollback fails or a kill in a recovery from a kill;
an overlap counts as one of them.

*Fairness* (`FairSpec`). Once begun, `_install` and
`recover_update` run straight through (weak fairness of `Install`, `Recover`).
That a user reopens the project (weak, `Launch`), closes an idle editor at
some time (strong, `Quit`: it is disabled while the editor is busy), and follows
the message of a failed rollback (weak, `ManualRestore`) is an assumption
about people; without it an update stays pending for as long as nobody restarts.

### RerouteGraph

The wires of one graph and the stored type of each reroute. Every operation of
the editor is one action that performs all of the links and unlinks the code
does, and these are functions from a state to the set of states it may leave
(`Link`, `Unlink`, `Attach`, `Cascade`, `Removed`, `Inserted`, `Dissolved`), so
that the callbacks which retype reroutes in the middle of a link are part of
it. Where the code takes the first wire of its connection set the model allows
any, as the order is that of node ids. `Downstream` is the least closed set
rather than a recursion: TLAPS can reason about it.

*Bounds.* Three reroutes: the smallest chain in which a walk of one step
misses a loop (that is the mutant of `WouldCreateCycle`). One pin of each kind:
an execution output that changes its successor and a data input that changes
its source need one. Four wires: a chain
of three reroutes from end to end, or a chain of two that branches; the proofs
hold for any number. All data pins have one type, so no conversion node is ever
inserted, and wires between two ordinary pins are made by dissolving only.

### FunctionState, AwaitPoint

`AwaitPoint` is what `await` promises, without lists or counts: a suspended
point has an owner (script and instance); while it waits, the owner exists; it
is resumed at most once; it never changes owners. `FunctionState` is the
code: objects with their function pointer, saved stack, membership in the two
lists, connection, and the state they pass `completed` on for. An execution of
`call()` is a process at one of three places: the state is claimed but its
stack not taken over (`resume` has released the lock), running, and completing
(after `completed.emit`, before `resume` goes on). Emission is in two steps as in the
engine: the callbacks are collected and one-shot connections end (`Emit`,
`Return`), then each is made (`Callback`) or comes too late (`Refuse`).
References are modelled by what they do: after each step the objects that
nothing refers to are gone (`Settled`), where a variable, a pending callback, an
execution and a connected signal refer to a state, a connection to a state's
`completed` lives as long as that state, and a stack refers to the state whose
result it awaits. So a circle of references is a leak in the model as well.
`FunctionState!Implements` is the refinement: a state waits in `AwaitPoint`
exactly when `resume` would let it go on.

*Assumptions.* No instance is freed and no script recompiled or destroyed while
one of its calls is under way (guards of `FreeInstance`, `Reload`, `Unload`):
on one thread the engine locks an object during a call, and the code takes
no lock of its own between the check in `resume` and the call. Object ids
are not used again. `_clear_connections` followed by `_clear_stack` is one step,
as both happen under the language's lock. `~OScript` is one step.

`disrupted` is a history variable for one property, `Awaited`: it records that
something cut an execution short (a cancellation, a lost emitter, the depth
limit, resumption by hand) or that a state was awaited which had been resumed
before or was kept beyond its call. Until then whoever awaits a function waits for one that has not
ended. Nothing in the repository says what should happen to the awaiter afterwards.

*Bounds.* Three states are a caller that awaits a function
that awaits again; two executions are one that completes and one it resumes;
`MaxHeld` = 1 lets one state be resumed by hand or awaited late. One
script, one instance and one signal are enough because states of different
owners meet only in `completed` and in reference counts.

### ReleaseFeed

Two lists live on two servers (`online`, and `history` for what was ever said
there). Each feed has a request of its own: it is started, answered with what is
online at that moment, fails, or times out; `_process_releases` runs after each
answer and joins whatever both lists hold (`Matched`). The picker keeps rows,
filter, selection and download of its own. An entry is a tag (its order is that of
versions), a build that stands for asset and digest, and a mark; pre-release
mark and unstable build number are one mark, `preview`. `Verified` says of
whatever gets installed that one list named the build and the other trusted it,
not necessarily at one moment.

*Observed, not judged:* changing the filter clears the selection but leaves the
buttons enabled; reopening the dialog lists all releases though the filter says
"Stable only"; Close cancels a download only while its body is received; a
second request while one is under way reports a failure though the first goes on.

*Fairness:* the timer, the servers' answers and `settings_changed` go on (weak
fairness of each). Requests time out after 30 s and the timer fires every hour,
so two pairs never overlap. *Bounds:* at first a release and a preview are
listed by both; then one change (an asset replaced, an entry withdrawn, the
setting turned) and one failure happen at any time between requests, answers,
selections and downloads. `PreviewsWanted` needs three changes to fail: a list
is emptied, the setting turned, and an answer that still finds nothing.

### CallStack, ReloadOrder

`CallStack` has the native stack (`frames`), the counter `call_depth` and the
debugger's `levels` of one thread. A coroutine stands for all the states of
one asynchronous call, because they share one `completed`. `Finish` is the
part of `call()` that lowers the depth, destroys the stack and emits; `Leave`
is its return after the emission, and whoever awaits is called in between.
`MAX_CALL_DEPTH` is 2048 (112 with MSVC); here it is 3, with four coroutines:
one more than fit. `enter_function` compares `unlikely(size)` with its limit, and
what that is depends on the compiler: 0 or 1 with `__builtin_expect`, where a
limit above one never takes effect, the size itself with MSVC, where it does. Both are
initial states (`builtin`). A call at the limit enters without pushing a level and
pops one all the same; `over` remembers that it has happened since the native
stack was last empty. `Balanced` says what remains: the levels that are there
lie in frames that run, in order (`LevelsLive`), they are the whole native stack until `over`,
and `over` needs MSVC or a limit of 0 or 1. The limit is 2 here, so that it takes effect
within three frames.

`ReloadOrder` is `_reload_scripts`: the sort of the script list by
`ScriptSortAscending` (insertion sort, as godot-cpp sorts up to 16 elements),
then the walk. Every order of the list, every inheritance and every set of
asked scripts is an initial state. With three scripts (`Scripts = {a, b, c}` in
the cfg) both properties hold, with four both fail; the run states the one a comment
promises. Only soft reloads reach the function.

### ScriptCache

One request is one action, because all of it runs under one lock: operators
pass the cache as a record through parsing, the ladder of inheritance and
interface, preparing and compiling, as the code's recursion does. A file is
what it extends, what it mentions, and its fault: it may not be readable, its graph may
not parse, a member may not resolve, a static initializer may fail. A script object keeps
the graph of its first load; `_reload` compiles that one (`WithGraph`) and reads the file anew only when
the time it has stamped is another than the file's, and `set_source` has just stamped a
file that differs (`SetSource`), so that a script read again after it was changed outside compiles its old
graph (`ReadAnew`, refuted), while the parsers of others read the new file. A first graph that
cannot be read, and a static initializer that fails, leave `reloading` set (`busy`, `NoneStuck` refuted). Only `PARSED` and
`INHERITANCE_SOLVED` are ever asked of another script's parser, so interface
and body are one step. `WalksEnd` and `BasesEnd` are about walks along
bases, which the code does in a dozen places without a guard against circles.
Files that do not exist, inner classes and edits inside the editor are left out.

*Bounds.* Three scripts: the smallest circle with an entry from outside. One
run covers four worlds: any files that are well and never change, files with
a fault of their own, files that are well of which one changes once, and faulty files of which
one changes once, into a faulty one or a mended one. A changed file has a new time.
`HonestAnswer` is conditional: once a circle of files exists a kept error is reported only once. Nor does it
speak of a script that is stuck with its flag, of one that was not rebuilt since a file has changed, or of a base
that failed on what its file was (`Wanting`): a base that was mended outside stays
invalid in the cache of loaded scripts, and the next script is built on it without an error. `SeesFiles`
is about the files of other scripts.
With circles, abandoned parsers are never freed; `MaxParsers` = 9 is not reached
within the edits allowed here.

### OrchestrationStore, OrphanRepair

The document's tables as the code keeps them, redundancies included: a node is
in `nodes` and in its graph's set, a function in `functions`, in its graph's set
and in its entry node. Every operation of the panel that changes them is one
action (create, rename, remove, duplicate, collapse, expand, override, promote).
`CopyState` is `copy_state` with what it clears and what it does not.

The clipboard is one for all graphs of the editor (graph_clipboard.h:48). A
copied node belongs to no graph and no table, but listens: it takes the new name of
what it uses, and outlives its removal, while the buffer keeps the name of the moment of the
copy. `Clip` is that pair of names, `key` and `name`, and whether the node still
listens (`live`: not once what it uses was removed or loaded anew). A paste
creates what is missing by the first name and places a node that uses the second
(`PasteUse`), or looks a function up by it (`PasteCall`, `PasteCallCreating`, `PasteEvent`),
so a copy whose function or variable has got another name also creates the old one,
unasked. When the second name is declared by nobody the node has strayed and the model stops;
`UsesDeclared` excepts that paste alone, and `PasteDeclares`, the
code's own promise, is among the statements TLC refutes. One node is
on the clipboard, it is pasted in the document it was copied from, a created function may or
may not have a result, and not modelled are a call copied after its function is gone and
declarations that differ, with which the code skips the node.

*Constraints:* `Small` bounds what is edited further (larger documents are
reached and checked), and `Sound` leaves out edits of graphs that hold ids of nodes that
are gone, which only the graphs that `copy_state` leaves behind lead to; removing
all nodes of such a graph (graph.cpp:372) never ends. Names and guids are
symmetric. `Budget` bounds what a document holds that was never saved,
`SavedBudget` one that is going to be loaded again; what is on the clipboard counts (`Held`),
so that every kind is pasted within the bounds, each also after what it uses was
renamed, and variables and signals after it was removed as well.
`RemovedFunctionUncalled` speaks of the time before the first reload. After one it is
false, though only with more than the run's bounds allow: save a function with
a call of it, remove the function, create a graph whose first node gets the entry's
id, and reload. `copy_state` leaves that graph behind, with the entry's
id in its set; removing the graph removes the entry and not the calls.

`OrphanRepair` is `_fix_orphans`: one visit per node, in every order, then the
removal of orphans, then that of connections with an end that is gone. Graphs keep the ids of
nodes that are gone, in the code as here. Initial states are all files
with three ids and two graphs: three nodes are the least in which one orphan
hangs on another. Its names are apart from the store's, so that the proofs
about a document on its way into the store and in it are one module.

### DynamicPins

One node of ten layouts that covers every node kind whose pins come and go,
and wires that know ports only. Elements have identities, wires do not: the
properties follow an element's wires through `adjust_connections`,
`unlink_all` and rebuilds. The dialogue's first choice takes over the wire of its single output
(exempted in `KeepsWires`); the layout "call" is exempted from
`NoDanglingWire` and `OneWirePerPin`: a call that becomes impure breaks both.
Ports are bytes (`% 256` where the code stores them), so `LimitAssumption` says
that at most 128 elements fit: a dictionary has two pins for each. The code has no such
limit; what a node with more pins does is not claimed here.

### ScriptReload

One script, its file, a tab. Contents are numbers; `script` has the graph, the
source as last read, its time, the hash compiled last and the flag
`reloading`. Settings are drawn at first: one is plain, in the other contents may
be unreadable, not compile or fail to initialize, and `Allowed` names the
disturbances admitted (two writes in one second, saved scenes, autosave,
loads past the cache, changes that no tab is open for); the run admits all at once but those loads. `TabShowsFile` says what
holds in the plain one (`Plain`), also that everything compiles: what is left of a script that does not
compile is not read again (ScriptDiscard.cfg). `EditsKept` and `ChangeNoticed`
hold in both; `EditsKept` exempts loads past the resource cache, which take the
mark off edits (ScriptReimport.cfg).
*Fairness:* the deferred call runs and the editor window gets the focus some time (weak).
*Observed:* a script that did not compile is not reloaded afterwards; reopening a
closed tab whose file changed shows the cached graph and stamps it current;
`copy_state` does not copy the tool flag.

### FunctionFlow

A function graph is drawn node by node, then compiled by the parser's
operators (`Successors`, the order and the merge points of FlowOrder, `BuildStatements`), and
then the wires and the statements are followed side by side, with the same
decision at each node. `SameNodes` says they come to the same nodes.
`Tidy` collects the conditions under which this holds; each is waived in one of
the `Flow*.cfg`. Node 1 is the one the function entry leads to. Branch, chance and type cast are one kind,
and so are the switches and dialogue. A break wired outside its loop is excluded.
*Bounds:* four or five nodes and up to six wires are enough for loops in
loops, ways that cross, and merge points inside merge points.

`FlowOrder` is the part of the analyzer that knows nodes and wires only:
the depth first search for back edges, the topological sort without them, and the
pass that looks for a merge point. It takes any graph, `succ[n]` being the nodes
at the outputs of node `n`; FunctionFlow uses it for each graph it compiles.
The search and the sort are written as functions of the number of steps, one for each
wire that is looked at and each node that is left or handled, so that TLC evaluates
them and TLAPS can prove about them.
*Observed:* for an event the list is of all nodes of the event graph
(`_collect_graph_nodes`), while the search begins at that event. A cycle that
only another event leads to keeps its nodes and all behind them out of the list
(`LinearOrderComplete`), and ways of this event that meet at such a node have no
merge point. FunctionFlow draws graphs of one entry, where this cannot happen. Its
nodes have at most six ways out: that there are two searches for a merge point, one for
more than 64 ways (`MaskBits`), concerns FlowOrder and its theorems only.

## What is proved

TLAPS proves, for every value of the constants:

* **UpdaterInstall_proofs**: `TypeCorrect` without any condition;
  `IntactCopySafe`, `WholeApart`, `NoOrphanBackupSafe`, `OneSwapSafe`,
  `BackupSpentSafe`, `AtomicSafe` as long as no editor has opened inside an install
  (`overlaps = 0`). None of these invariants is inductive:
  that the backup is whole when `Activate` runs depends on which of the names a
  process at each place may rely on. `IInv` says so: no recovery runs beside an
  install (`Apart`), two installers have two stages (`OwnStages`), the record is
  that of the one process between its creation and removal (`HolderRecord`), the
  stage is whole once it is checked (`VerifiedStage`), `backup` and `target` are
  absent where the swap needs them to be (`SwapProgress`), and a recovery knows what its probe saw (`RecoveryKnows`).
  `AtomicSafe` is the refinement of AtomicUpdate, step by step: with `TaggedStage`
  (a checked stage holds the release that was asked for) the activation is a
  `Commit`, a reservation is an `Ask`, an opening a `Start`, and whatever else
  happens leaves the copy in force and is a `GiveUp` or a stutter.
  `IntactSomewhereSafe` and `NoPartialPluginSafe` are about editors that do cross,
  where `Pinning` holds and nothing fails, and for two editors: `Crossing` says that a checked
  stage is whole (`VerifiedStage`), that a stage being deleted is no installer's
  (`DiscardedApart`), that the plugin is away only between the two renames
  (`AwayToReturn`), and that a backup which is not whole is being deleted
  (`BackupWhole`): the one who could restore it would be the third editor.
* **Graph_proofs**, of RerouteGraph: `TypeCorrect`, `ReroutesAcyclicSafe`,
  `SingleWireSafe`, `RewireKeepsEndsSafe`. The lemmas are about `Downstream` as
  a least closed set: a wire added where `WouldCreateCycle` is false
  leaves nothing downstream of itself, and removing wires only shrinks it; the
  proofs go through the operations as functions of states, one lemma each.
  Of FlowOrder, for every graph with any number of nodes and wires: a back edge
  closes a cycle with edges that are none (`BackEdgesOnCycles`); the back edges are all that
  has to be left out (`NoCycleLeft`); the list is complete exactly if the entry
  leads to every cycle (`LinearOrderComplete`); the back edges are the edges that lead
  backwards in it (`LinearOrderForward`); the merge point of up to 64 ways out is the first node of the list
  that all of them lead to (`MergePointFirst`); and that of more ways, for which the code takes the first element of a
  hash set, is some node that they all lead to (`MergePointShared`). Each of the two loops has an
  invariant: `Searched` says that the nodes the search has left can be ranked so
  that only back edges lead upwards, and that the edges it went down lead along its active path;
  `Ordered` says that degrees count the wires not looked at and that a node is
  queued when none is left. The number of steps is shown to be enough (`SearchEnds`, `OrderEnds`),
  so that the theorems are about the functions TLC evaluates, not about a relation.
  "Leads to" is defined by closed sets (`Leads`). The
  library's induction theorems are not used: `LeastNumber`, from the
  well-founded order of the subsets of an interval, gives a least
  counterexample wherever an induction is needed.
* **FunctionState_proofs**: `TypeCorrect`, `IntactSafe`, `StackOwnedSafe`,
  `OneCurrentSafe`, `NoLeakSafe`, `AwaitedSafe`, and `ImplementsSafe`:
  FunctionState implements AwaitPoint. The inductive invariant adds to the types that the lists hold only
  what is there (`Listed`), that a cancelled state refers to nothing and waits
  for nothing (`Clean`), that an execution has its script, its instance and its
  state, which is in no list (`Executing`), one current state per awaited call
  (`Single`), and that something refers to every object (`Grounded`). `Intact`
  alone is not inductive: that a listed state still has its stack follows from
  `Executing`, and `NoLeak` needs `Clean` and `Grounded`. All but `Grounded` are
  stated of any value of `state`, so that one lemma covers what every action
  does last, letting go of what nothing refers to (`Settled`): the sets of
  objects that keep themselves alive are closed under union. For the refinement
  a step has only to keep owners and to add no list (`Follows`), and executions
  to begin with states that could be resumed (`Begins`). For `AwaitedSafe` the invariant
  is strengthened while nothing is disrupted (`Waited`): variables hold first
  states of executions (`First`), a state that could be resumed has a callback,
  a signal or an operand to keep what it waits for (`Due`), and nobody waits for
  an execution that has emitted (`Emitted`). Assumed: the constants
  are typed, signals are not states, and `None` is neither of them nor a record
  of the model.

* **ReleaseFeed_proofs**: `VerifiedSafe` and `PickerCurrentSafe`. What is
  installed goes back to an offer of some moment, so the invariant says of every
  offer, row, selection and download that both lists have vouched for it at some
  time (`Vouched`), and of what an editor has heard that it was said (`Heard`).
* **CallStack_proofs**: `DepthCountsSafe` and `BalancedSafe`, for any limits, both
  readings of `unlikely` and any number of coroutines. For the second, that a
  level is put on or taken off is looked at apart from what the frames do (`LevelPutOn`,
  `LevelTakenOff`), and an empty native stack has no level left (`NoFrameNoLevel`).
* **OrchestrationStore_proofs**: `WellFormedSafe`, `UsesDeclaredSafe` and
  `RemovedFunctionUncalledSafe`, for documents of any size. Three lemmas of any tables carry the edits: nodes taken
  away (`Shrunk`), nodes added to one graph with perhaps a function that one of
  them owns (`Grown`), nodes moved (`GraphsMoved`); a collapse is two of the second
  and one of the third. The invariant is `Well` (types, owners, declared uses) of the
  tables and of the file unless a node has strayed, `ClipOK` (what the
  clipboard may hold), and `Tidy` (each node, wire and function has its graph)
  until the first reload; it adds to `WellFormed` that event graphs hold no
  function entries, without which a removed event graph could take the entry
  of a function that has a graph elsewhere. `Editable` is assumed: after a reload,
  steps are taken only while graphs hold nodes that are there, the `Sound` of the
  run. What a copy of a node that is gone would be is not modelled.
  For `RemovedFunctionUncalledSafe` each edit is shown to keep a function with a graph,
  under whatever name, or to take its calls with it (`EditUncalls`); for the reload `GuidsSaved`
  is needed: a function the file does not have was given a guid that is new to the file.
  Of the repair, `RepairedSafe` and `PlacedKeptSafe` hold for files with any
  number of nodes and graphs: `Settled`, `OrphansApart` and `Phases` say how far the
  single pass has put the file in order.
* **DynamicPins_proofs**: `WellWiredSafe` and `KeepsWiresSafe`, for any number of
  elements that ports tell apart, any number of wires and every layout. The
  invariant is that elements are told apart (`Named`) and, at a node that is no call, that
  wires are `Sound`. Both theorems go through one relation of
  the wires before and after to the pins before and after (`Carried`): each
  wire comes from one at the same pin, and none is lost whose pin remains. It implies
  what either theorem needs (`CarriedSound`, and that the wires drawn are those
  drawn still), and is shown of `adjust_connections` for one row of pins, from the position and the
  number of the pins taken out, and then layout by layout. A call that becomes a
  getter's keeps its wires on the elements too, which is `KeepsWires` for calls.
  That an argument added to a call moves no wire needs a part of the invariant of
  its own (`Within`): no wire enters a call behind the pin of its last argument,
  so that the pin the new argument gets has no wire yet; when the last argument
  goes and the call loses its execution pins with it, `unlink_all` and the shift are what keep this.
* **ScriptReload_proofs**: `EditsKeptSafe`, under all disturbances, from the types and
  `Sound` (what is edited or compiled has a graph, and a graph a source), and
  `TabShowsFileSafe`. For that `InStep` says that what was written outside is
  newer than the tab's time until it was shown, and that otherwise a graph without
  edits is the file's; that a reload after a save reads nothing is in the lemma
  `PlainSaved`, that one from the file reads it in `PlainFromFile`.

Model-checked only: `PendingResolved`, `EventuallyOffered` and `ChangeNoticed`
(liveness); ScriptCache and what FunctionFlow adds to FlowOrder, whose operators are recursive, as
the parser, the compiler and the loading of scripts are, and whose properties are about what
the recursion returns; and ReloadOrder and the statements the code breaks. Out of the
prover's reach are liveness under fairness, ENABLED, and what an operator that
calls itself returns for every tree of statements or chain of scripts.

## Findings

*reload_order_four.* The comparison that sorts the scripts relates a script to
its bases only and is no order a sort can use: with unrelated scripts between
them a derived script may stay in front of its base. language.cpp:56 says "parent
must be reloaded first". `PROJECT.json` has the quotation.

## Statements the code breaks

TLC refutes each of these. The statement is defined beside the properties of its
module. Where a `.cfg` is named, run that one; else put the statement in place of
the properties of the module's own `.cfg`, with `Budget` and `SavedBudget` 5 in
OrchestrationStore. None of them is claimed to hold anywhere here.

| statement | how | what the code does |
|---|---|---|
| `NoPartialPlugin` | UpdaterPosix.cfg | Where the stage is not pinned, an editor that opens between the writing of the record and the activation removes the stage while the installer renames it to the addon directory. |
| `WholePlugin` | UpdaterInstall.cfg with `Editors` of three and `MaxFaults` 1 | An editor that still deletes the backup of an old update damages that of the next one, which a third editor restores. |
| `PreviewsWanted` | ReleasePreview.cfg | Previews stay on offer after the setting was turned off, as long as one of the two lists is empty. |
| `ControlUnbranched` | RerouteBranch.cfg | A reroute that fans out while untyped becomes a control reroute with all of its outputs. |
| `NoMixedWire` | RerouteMixed.cfg | Dissolving such a reroute links its neighbours unasked. |
| `NestingBounded` | CallStack.cfg | A resumed call ends, lowers the depth, and emits; who awaits it is resumed on top of it and not counted. |
| `LocalsAlive` | CallStack.cfg | The level of a call that emits is shown with destroyed values. |
| `LevelsBounded` | CallStack.cfg | With `__builtin_expect`, `unlikely(size) >= limit` compares 0 or 1 with the limit. |
| `NoUnderflow` | CallStack.cfg | With MSVC, a call at the limit pushes no level and pops that of another call. |
| `BuiltAnswer` | CacheBase.cfg | An error of a base kept in a circle of mentions is reported once only. |
| `BasesEnd` | CacheSwap.cfg | A script read again keeps the base its old graph names, and a base that is valid is not prepared again: two scripts become each other's base. |
| `ReadAnew` | ScriptCache.cfg | A script read again after it was changed outside compiles the graph it had. |
| `NoneStuck` | ScriptCache.cfg | A first graph that cannot be read, or a failing static initializer, leaves `reloading` set. |
| `OneEntryPerFunction` | OrchestrationStore.cfg | A duplicated event begins the function of its original. |
| `EventsInEventGraphs` | OrchestrationStore.cfg | Collapsing an event moves it into a function graph. |
| `NamesDisjoint` | OrchestrationStore.cfg | A promoted variable may have the name of a function. |
| `PasteDeclares` | OrchestrationStore.cfg | "Create missing variables" (graph_clipboard.cpp:127) goes by the name a variable had when its node was copied; rename it, remove it and paste, and the node uses a name nobody declares. |
| `ReloadReplacesGraphs` | OrchestrationStore.cfg | `copy_state` does not clear the graphs. |
| `KindKept` | DynamicPinsCall.cfg | A getter's call gets execution pins; its wires do not move. |
| `ReloadReadsFile` | ScriptReload.cfg | A tool script changed outside keeps its old graph. |
| `FlagReset` | ScriptReload.cfg | A first load that fails leaves `reloading` set for ever. |
| `OutsideChangeShown` | ScriptReload.cfg | A save overwrites an outside change whose reload is queued. |
| `CompiledIsShown` | ScriptReload.cfg | A save that restores earlier contents does not compile them. |
| `ClosedIsClean` | ScriptReload.cfg | Close and save closes without the save. |
| `ShowsFile` | ScriptDiscard.cfg | Edits that do not compile and are discarded stay in the graph, which is shown as the file's when it is opened again. |
| `EditsSurvive` | ScriptReimport.cfg | A load past the cache of a file changed outside unmarks the user's edits. |
| `ReAdded` | OrphanRepair.cfg | Orphans are visited once, in the order of the file. |
| `SameNodes` | FlowOwnLoop.cfg | A break from within a nested loop leaves that one only. |
| `SameNodes` | FlowLoopOnce.cfg | A loop written twice in one scope begins as broken. |
| `SameNodes` | FlowBody.cfg | A node wired to body and completed is not run in the body. |
| `SameNodes` | FlowSwitch.cfg | A switch without a case goes on where its cases meet. |
| `SameNodes` | FlowRandom.cfg | What a random node's outputs meet at is not run. |
| `CyclesOnly` | FlowBreak.cfg | A branch with both outputs to a break is refused as a cycle. |
| `NoneUnreachable` | FlowAfter.cfg | A loop with a break behind a loop is refused as unreachable. |

## Plan

Done: UpdaterInstall, ReleaseFeed, RerouteGraph, OrchestrationStore, OrphanRepair,
DynamicPins, FunctionFlow with FlowOrder, ScriptCache, ScriptReload, ReloadOrder, CallStack,
FunctionState with AwaitPoint, UpdaterInstall with AtomicUpdate, and proofs for all but
FunctionFlow (but its FlowOrder), ScriptCache and ReloadOrder. Left:

1. The registry of global classes, and the instance sets of scripts.

## What is not modelled

User interface, engine conversions, release tooling and the build keep no state
that other parts' correctness depends on. The serializers and type inference
are sequential functions of their input. The opcodes of the virtual machine between two
awaits compute values and are not told apart by any property here.
