---------------------------- MODULE ModuleLoader ----------------------------
(***************************************************************************)
(* The lazy loading of modules (src/src/index.rs): the roots come and go,  *)
(* and handlers load the modules they need, each with a JoinSet of tasks   *)
(* that parse the files, while the flags they test and set are shared.     *)
(*                                                                         *)
(* A call is one handler's load_module, or its load_modules_dependent_on,  *)
(* which runs one load_module per dependent.  A call runs until it awaits  *)
(* a task of a JoinSet: `polled' is the branch being polled, or NoBranch.  *)
(***************************************************************************)
EXTENDS ModuleGraph, Sequences

CONSTANTS
  FilesPerModule,  \* the files of a module, its manifest included
  Unreadable,      \* those whose task fails
  MaxCalls,        \* bound: the calls handlers make
  Concurrency,     \* handlers in flight
  MaxCancels,      \* bound: calls dropped by a timeout or $/cancelRequest
  MaxRemovals      \* bound: configuration changes that remove a root

Files == {<<e[1], e[2], i>> : e \in Entries, i \in 1..FilesPerModule}
FilesOf(E) == {f \in Files : <<f[1], f[2]>> \in E}
Calls == 1..MaxCalls

ASSUME LoaderAssumption ==
  /\ FilesPerModule \in Nat \ {0} /\ Unreadable \subseteq Files
  /\ MaxCalls \in Nat /\ Concurrency \in Nat \ {0}
  /\ MaxCancels \in Nat /\ MaxRemovals \in Nat
  /\ Acyclic

NoBranch == <<0, Base>>

VARIABLES
  workspaces,  \* the roots the configuration asks for
  roots,       \* those the index has: its map of modules
  loaded,      \* the entries whose `loaded' is set
  complete,    \* the entries whose `loaded_dependents' is set
  cache,       \* transitive_deps_cache: {} where it has no entry
  unloaded,    \* unloaded_auto_install: the missing modules, {} for no entry
  indexed,     \* the files whose output was appended since their root was added
  call,        \* what each call is for, and how far it is
  stack,       \* the load_module activations of each branch of each call
  polled,      \* the branch being polled
  cancels,     \* calls dropped so far
  removals     \* configuration changes so far that removed a root

flags == <<loaded, complete>>
config == <<workspaces, roots, removals>>
vars == <<workspaces, roots, loaded, complete, cache, unloaded, indexed, call, stack, polled,
          cancels, removals>>

InFlight == {c \in Calls : call[c].state = "running"}
Branches == Calls \X Modules
Active == {b \in Branches : stack[b] # <<>>}
Top(b) == stack[b][Len(stack[b])]
Ended(c) == call[c].pending = {} /\ \A m \in Modules : stack[<<c, m>>] = <<>>
\* Every handler in flight awaits a task.
Awaiting == polled = NoBranch /\ \A c \in InFlight : call[c].pending = {} /\ ~Ended(c)

LoadedNames == {e[2] : e \in loaded}

-----------------------------------------------------------------------------
(* find_auto_install_modules                                               *)

Resolve(R, known, m) == IF known[m] # {} THEN known[m] ELSE Closure(R, m)

\* The modules it looks at, given the names that are loaded.
Considered(R, names) == (AutoInstall \cap Available(R)) \ names
\* Mutant: only a module's own list of dependencies is looked at.
Missing_DirectOnly(R, known, m) == DependenciesOf(R, m) \ Available(R)
Missing(R, known, m) == (Resolve(R, known, m) \ {m}) \ Available(R)
Installable(R, known, names) ==
  {m \in Considered(R, names) : Missing(R, known, m) = {} /\ Resolve(R, known, m) \ {m} \subseteq names}

\* It fills the cache, and notes the modules that miss a dependency.
FindAutoInstall(R, known, names) ==
  /\ cache' = [m \in Modules |-> IF m \in Considered(R, names) THEN Resolve(R, known, m) ELSE known[m]]
  /\ unloaded' = [m \in Modules |->
                   IF m \in Considered(R, names) /\ Missing(R, known, m) # {}
                     THEN Missing(R, known, m) ELSE unloaded[m]]

Uncached == [m \in Modules |-> {}]

-----------------------------------------------------------------------------
(* The roots                                                               *)

\* A handler runs that has not called load_module, or never does.
Runs == Awaiting /\ Cardinality(InFlight) < Concurrency

FilesUnder(R) == FilesOf(EntriesOf(R))

\* Mutant: the cache is not cleared.
AddRoot_KeepsCache(r) ==
  /\ Runs /\ r \notin roots
  /\ roots' = roots \cup {r}
  /\ FindAutoInstall(roots', cache, {})
  /\ indexed' = indexed \ FilesUnder({r})
  /\ UNCHANGED <<workspaces, flags, call, stack, polled, cancels, removals>>

\* add_root, for a workspace folder or for the file of a document.
AddRoot(r) ==
  /\ Runs /\ r \notin roots
  /\ roots' = roots \cup {r}
  /\ FindAutoInstall(roots', Uncached, {})
  /\ indexed' = indexed \ FilesUnder({r})
  /\ UNCHANGED <<workspaces, flags, call, stack, polled, cancels, removals>>

\* initialized has added the workspace folders and released root_setup.
SetUp == workspaces \subseteq roots

\* Mutant: the flags of the roots that go are kept.
ChangeConfiguration_KeepsFlags(added) ==
  LET asked == workspaces \cup added
      kept == roots \cap asked
      new == asked \ roots
  IN /\ Runs /\ SetUp
     /\ kept = roots \/ removals < MaxRemovals
     /\ removals' = IF kept = roots THEN removals ELSE removals + 1
     /\ workspaces' = asked
     /\ roots' = kept \cup new
     /\ indexed' = indexed \ FilesUnder(new)
     /\ IF new = {} THEN UNCHANGED <<cache, unloaded>> ELSE FindAutoInstall(roots', Uncached, {})
     /\ UNCHANGED <<flags, call, stack, polled, cancels>>

\* did_change_configuration, after the client answered: the roots that are
\* not workspaces go, and what has become one (bound: at most one root) is
\* added.
ChangeConfiguration(added) ==
  LET asked == workspaces \cup added
      kept == roots \cap asked
      new == asked \ roots
  IN /\ Runs /\ SetUp
     /\ kept = roots \/ removals < MaxRemovals
     /\ removals' = IF kept = roots THEN removals ELSE removals + 1
     /\ workspaces' = asked
     /\ roots' = kept \cup new
     /\ loaded' = loaded \cap EntriesOf(kept)
     /\ complete' = complete \cap EntriesOf(kept)
     /\ indexed' = indexed \ FilesUnder(new)
     /\ IF new = {} THEN UNCHANGED <<cache, unloaded>> ELSE FindAutoInstall(roots', Uncached, {})
     /\ UNCHANGED <<call, stack, polled, cancels>>

-----------------------------------------------------------------------------
(* load_module                                                             *)

\* It returns at once when no root has m, or its flag is set.
Loads(m) == m \in Available(roots) /\ EntryOf(roots, m) \notin loaded

\* Mutant: a dependency's tasks are spawned whether its flag is set or not.
Claimed_NoExchange(m) == {EntryOf(roots, d) : d \in Closure(roots, m) \cap Available(roots)}
\* The entries it marks loaded: m's, and those of its dependencies, that the
\* compare_exchange finds clear.
Claimed(m) == {EntryOf(roots, d) : d \in Closure(roots, m) \cap Available(roots)} \ loaded

Activation(m) == [module |-> m, tasks |-> FilesOf(Claimed(m)), autos |-> {}, joining |-> TRUE]

\* It runs up to its first await, a task of its JoinSet.
Load(b, m, below) ==
  \/ /\ Loads(m)
     /\ loaded' = loaded \cup Claimed(m)
     /\ stack' = [stack EXCEPT ![b] = Append(below, Activation(m))]
     /\ polled' = NoBranch
  \/ /\ ~Loads(m)
     /\ stack' = [stack EXCEPT ![b] = below]
     /\ polled' = IF below = <<>> THEN NoBranch ELSE b
     /\ UNCHANGED loaded

Replace(b, frame) == [stack EXCEPT ![b][Len(stack[b])] = frame]

\* A task of b's JoinSet has ended: it is b's turn, or b is woken.
Joins(b, f) ==
  /\ Top(b).joining /\ f \in Top(b).tasks
  /\ polled = b \/ Awaiting

\* Mutant: a failure ends the loop, and the other tasks with it.
JoinNext_StopsAtFailure(b, f) ==
  /\ Joins(b, f)
  /\ stack' = Replace(b, [Top(b) EXCEPT !.tasks = IF f \in Unreadable THEN {} ELSE @ \ {f}])
  /\ indexed' = IF f \in Unreadable THEN indexed ELSE indexed \cup {f}
  /\ polled' = IF f \in Unreadable \/ Top(b).tasks = {f} THEN b ELSE NoBranch
  /\ UNCHANGED <<config, flags, cache, unloaded, call, cancels>>

\* Mutant: what failed is tried again.
JoinNext_RetriesFailure(b, f) ==
  /\ Joins(b, f)
  /\ stack' = Replace(b, [Top(b) EXCEPT !.tasks = @ \ ({f} \ Unreadable)])
  /\ indexed' = IF f \in Unreadable THEN indexed ELSE indexed \cup {f}
  /\ polled' = IF Top(b).tasks = {f} \ Unreadable THEN b ELSE NoBranch
  /\ UNCHANGED <<config, flags, cache, unloaded, call, cancels>>

\* Its output is appended, or its failure is logged.
JoinNext(b, f) ==
  /\ Joins(b, f)
  /\ stack' = Replace(b, [Top(b) EXCEPT !.tasks = @ \ {f}])
  /\ indexed' = IF f \in Unreadable THEN indexed ELSE indexed \cup {f}
  /\ polled' = IF Top(b).tasks = {f} THEN b ELSE NoBranch
  /\ UNCHANGED <<config, flags, cache, unloaded, call, cancels>>

\* Mutant: the auto_install modules are sought among those this call loaded.
JoinedAll_OwnModules(b) ==
  LET names == LoadedNames \cap Closure(roots, Top(b).module) IN
  /\ polled = b /\ Top(b).joining /\ Top(b).tasks = {}
  /\ FindAutoInstall(roots, cache, names)
  /\ stack' = Replace(b, [Top(b) EXCEPT !.joining = FALSE, !.autos = Installable(roots, cache, names)])
  /\ UNCHANGED <<config, flags, indexed, call, polled, cancels>>

\* All tasks have ended: the auto_install modules that can be loaded now.
JoinedAll(b) ==
  /\ polled = b /\ Top(b).joining /\ Top(b).tasks = {}
  /\ FindAutoInstall(roots, cache, LoadedNames)
  /\ stack' = Replace(b, [Top(b) EXCEPT !.joining = FALSE,
                                        !.autos = Installable(roots, cache, LoadedNames)])
  /\ UNCHANGED <<config, flags, indexed, call, polled, cancels>>

\* The next of them is loaded, by a nested activation.
AutoLoad(b, m) ==
  /\ polled = b /\ ~Top(b).joining /\ m \in Top(b).autos
  /\ unloaded' = [unloaded EXCEPT ![m] = {}]
  /\ Load(b, m, Replace(b, [Top(b) EXCEPT !.autos = @ \ {m}])[b])
  /\ UNCHANGED <<config, complete, cache, indexed, call, cancels>>

\* The activation returns to the one that awaits it, or the branch ends.
Return(b) ==
  LET below == SubSeq(stack[b], 1, Len(stack[b]) - 1) IN
  /\ polled = b /\ ~Top(b).joining /\ Top(b).autos = {}
  /\ stack' = [stack EXCEPT ![b] = below]
  /\ polled' = IF below = <<>> THEN NoBranch ELSE b
  /\ UNCHANGED <<config, flags, cache, unloaded, indexed, call, cancels>>

-----------------------------------------------------------------------------
(* The calls                                                               *)

Idle == {c \in Calls : call[c].state = "idle"}
Opening == \E c \in InFlight : call[c].kind = "open"
\* The next call, of a handler that root_setup let through: did_open keeps it
\* blocked while it loads.
MayCall(c) == Runs /\ SetUp /\ ~Opening /\ c \in Idle /\ \A d \in Idle : c <= d

Starts(c, kind, m, pending) ==
  call' = [call EXCEPT ![c] = [kind |-> kind, entry |-> EntryOf(roots, m), pending |-> pending,
                               state |-> "running"]]

\* load_modules_for_document, by on_change for did_open.
LoadForDocument(c, m) ==
  /\ MayCall(c) /\ m \in Available(roots)
  /\ Starts(c, "open", m, {m})
  /\ UNCHANGED <<config, flags, cache, unloaded, indexed, stack, polled, cancels>>

\* Mutant: only the modules that depend on m directly are loaded.
LoadDependents_DirectOnly(c, m) ==
  /\ MayCall(c) /\ m \in Available(roots) /\ EntryOf(roots, m) \notin complete
  /\ Starts(c, "dependents", m, {e[2] : e \in {x \in EntriesOf(roots) : m \in Dependencies(x)}})
  /\ UNCHANGED <<config, flags, cache, unloaded, indexed, stack, polled, cancels>>

\* load_modules_dependent_on, by completion and references.
LoadDependents(c, m) ==
  /\ MayCall(c) /\ m \in Available(roots) /\ EntryOf(roots, m) \notin complete
  /\ Starts(c, "dependents", m, Dependents(roots, m))
  /\ UNCHANGED <<config, flags, cache, unloaded, indexed, stack, polled, cancels>>

\* The first poll of one of the load_module the call makes: all of them get
\* theirs before the handler awaits.
StartBranch(c, m) ==
  /\ polled = NoBranch /\ m \in call[c].pending
  /\ call' = [call EXCEPT ![c].pending = @ \ {m}]
  /\ Load(<<c, m>>, m, <<>>)
  /\ UNCHANGED <<config, complete, cache, unloaded, indexed, cancels>>

\* The last of them has ended.
Finish(c) ==
  /\ polled = NoBranch /\ Ended(c)
  /\ call' = [call EXCEPT ![c].state = "done"]
  /\ complete' = IF call[c].kind = "dependents" THEN complete \cup ({call[c].entry} \cap EntriesOf(roots))
                                                ELSE complete
  /\ UNCHANGED <<config, loaded, cache, unloaded, indexed, stack, polled, cancels>>

\* Mutant: its tasks stay.
Cancel_KeepsTasks(c) ==
  /\ Awaiting /\ cancels < MaxCancels
  /\ call' = [call EXCEPT ![c].state = "dropped"]
  /\ cancels' = cancels + 1
  /\ UNCHANGED <<config, flags, cache, unloaded, indexed, stack, polled>>

\* The handler is dropped while it awaits: its JoinSets abort their tasks.
Cancel(c) ==
  /\ Awaiting /\ cancels < MaxCancels
  /\ call' = [call EXCEPT ![c].state = "dropped"]
  /\ stack' = [b \in Branches |-> IF b[1] = c THEN <<>> ELSE stack[b]]
  /\ cancels' = cancels + 1
  /\ UNCHANGED <<config, flags, cache, unloaded, indexed, polled>>

-----------------------------------------------------------------------------

Init ==
  /\ workspaces \in SUBSET Roots /\ roots = {}
  /\ loaded = {} /\ complete = {} /\ indexed = {}
  /\ cache = Uncached /\ unloaded = [m \in Modules |-> {}]
  /\ call = [c \in Calls |-> [kind |-> "open", entry |-> <<>>, pending |-> {}, state |-> "idle"]]
  /\ stack = [b \in Branches |-> <<>>]
  /\ polled = NoBranch /\ cancels = 0 /\ removals = 0

\* What a call in flight does, without the handlers' other steps.
Progress ==
  \/ \E b \in Active :
       \/ \E f \in Top(b).tasks : JoinNext(b, f)
       \/ JoinedAll(b)
       \/ \E m \in Top(b).autos : AutoLoad(b, m)
       \/ Return(b)
  \/ \E c \in InFlight : Finish(c) \/ \E m \in call[c].pending : StartBranch(c, m)

Next ==
  \/ Progress
  \/ \E r \in Roots : AddRoot(r)
  \/ \E added \in {{}} \cup {{r} : r \in Roots} : ChangeConfiguration(added)
  \/ \E c \in Calls :
       \/ \E m \in Modules : LoadForDocument(c, m) \/ LoadDependents(c, m)
       \/ c \in InFlight /\ Cancel(c)

Spec == Init /\ [][Next]_vars

\* The tasks end, and one that has ended wakes the handler that joins it.
FairSpec == Spec /\ WF_vars(Progress)

-----------------------------------------------------------------------------
(* Properties                                                              *)

\* Every variable has its type; a branch is active only for a call in flight.
TypeOK ==
  /\ workspaces \subseteq Roots /\ roots \subseteq Roots
  /\ loaded \subseteq EntriesOf(roots) /\ complete \subseteq EntriesOf(roots)
  /\ cache \in [Modules -> SUBSET Modules] /\ unloaded \in [Modules -> SUBSET Modules]
  /\ indexed \subseteq Files
  /\ \A c \in Calls :
       /\ call[c].kind \in {"open", "dependents"} /\ call[c].pending \subseteq Modules
       /\ call[c].state \in {"idle", "running", "done", "dropped"}
  /\ \A b \in Branches : \A i \in 1..Len(stack[b]) :
       /\ stack[b][i].module \in Modules /\ stack[b][i].autos \subseteq Modules
       /\ stack[b][i].tasks \subseteq Files /\ stack[b][i].joining \in BOOLEAN
  /\ \A b \in Active : b[1] \in InFlight
  /\ polled \in Active \cup {NoBranch}
  /\ cancels \in 0..MaxCancels /\ removals \in 0..MaxRemovals

Activations == UNION {{<<b, i>> : i \in 1..Len(stack[b])} : b \in Branches}
Tasks(x) == stack[x[1]][x[2]].tasks
InProgress == UNION {Tasks(x) : x \in Activations}

\* Whatever handlers load at the same time, are dropped or add roots, no file
\* is read by two of them, or read again once it is in the index: its models
\* would be declared twice.  (Removing a root while it loads ends this.)
ReadOnce ==
  removals = 0 => /\ \A x, y \in Activations : x # y => Tasks(x) \cap Tasks(y) = {}
                  /\ InProgress \cap indexed = {}

\* What is marked as loaded is in the index or on its way there, for the
\* handlers that return at once because of the mark: unless a call was dropped.
NothingStranded ==
  cancels = 0 => FilesOf(loaded) \subseteq indexed \cup InProgress \cup Unreadable

\* Where references and completion have been told that the modules that
\* depend on theirs are loaded, all of them are in the index or on their way
\* there.  (CHANGELOG.md: "Load all dependents for codebase-wide searches".)
DependentsIndexed ==
  \A e \in complete :
    FilesOf({EntryOf(roots, d) : d \in Dependents(roots, e[2])})
      \subseteq indexed \cup InProgress \cup Unreadable

\* Once every handler is done, there is no auto_install module left whose
\* dependencies have all been loaded, by whichever handlers.
AutoInstallComplete ==
  InFlight = {} /\ cancels = 0 /\ loaded # {} =>
    \A m \in AutoInstall \cap Available(roots) :
      Closure(roots, m) \ {m} \subseteq LoadedNames => m \in LoadedNames

\* The cache of transitive dependencies says what they are among the roots
\* there are now, unless remove_root, which keeps it, has taken one away.
\* (index.rs:78: "to avoid recalculation".)
CacheCurrent ==
  removals = 0 => \A m \in Modules : cache[m] # {} => cache[m] = Closure(roots, m)

\* An auto_install module that has not been loaded and misses a dependency,
\* direct or not, is noted with all it misses, for the diagnostics of the models
\* it would extend, while no root has been removed (which looks for none).
MissingNoted ==
  removals = 0 => \A m \in (AutoInstall \cap Available(roots)) \ LoadedNames :
    LET missing == (Closure(roots, m) \ {m}) \ Available(roots)
    IN missing # {} => unloaded[m] = missing

\* A handler that loads modules is not kept waiting: whatever fails and
\* whatever else is loading, its call ends.
CallsReturn == \A c \in Calls : (c \in InFlight) ~> (c \notin InFlight)

=============================================================================
