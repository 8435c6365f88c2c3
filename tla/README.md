# Verification of odoo-lsp

TLA+ models of the odoo language server (`src/src/*.rs`), checked with TLC, and
theorems about them checked with the TLA+ proof system. Paths below are those of
the repository's `src/` crate unless they begin with another directory; line
numbers are in `PROJECT.json` ("map"), one entry per definition.

## 1. The system

One process serves one editor over standard input and output. `main.rs` builds
a tower service around `Backend`; every request and notification becomes one
future, and the transport drives at most `concurrency_level(2)` of them in one
task, through `buffer_unordered`. So two handlers never run at the same instant,
but each await in one is a place where the other runs.

### Components

| Component | State | Operations | Correct when |
|---|---|---|---|
| Request handlers (`server.rs`) | what each handler holds across its awaits: a blocker, a cloned rope, a cloned semaphore | `initialized`, `did_open`, `did_change`, `did_close`, `did_save`, configuration and folder changes, about twelve requests | edits are applied once and in order; a request sees the edits made before it; nothing panics |
| Semaphore (`utils.rs`) | `should_wait`, tokio's `Notify` | `block`, `block_unchecked`, `wait`, `Blocker::drop` | one blocker at a time; every waiter is released; `block` after `wait` never panics |
| Open documents (`backend.rs`) | `document_map`, `ast_map` | `on_change`, `update_ast`, `clear_diagnostics` | text is the client's; the tree is the text's; closed documents are gone |
| Transport (`main.rs`, `utils/catch_panic.rs`) | handlers in flight, deadlines | admission, polling, `TimeoutLayer` (30 s), `$/cancelRequest`, `CatchPanic` | a dropped handler leaves nothing blocked |
| Module graph (`index.rs`, `index/module.rs`) | roots, module entries, manifests | lookups by name, transitive dependencies, dependents, `find_dependency_chain` | searches agree with reachability and end |
| Module loader (`index.rs`) | `loaded`, `loaded_dependents`, `transitive_deps_cache`, `unloaded_auto_install`, one `JoinSet` per `load_module` | `add_root`, `add_root_for_file`, `remove_root`, `load_module`, `load_modules_for_document`, `load_modules_dependent_on`, `find_auto_install_modules` | every file is indexed once; what is marked loaded gets indexed; what depends on a module is found |
| Workspaces, configuration (`backend.rs`, `config.rs`) | workspaces, capabilities, settings | `init_workspaces`, `on_change_config`, `ensure_nonoverlapping_roots` | roots are those asked for and do not overlap |
| Diagnostics (`python/diagnostics.rs`, `backend.rs`) | `diagnostics_cache`, `damage_zone`, `record_ranges` | incremental re-diagnosis, push, clear | every range is re-examined that an edit can have changed; the last push wins |
| Record index (`record.rs`, `index/record.rs`) | a map and four indices: by model, inherited view, view model, prefix | `Record::from_reader`, `template`, `menuitem`; `insert`, `append` | each record of a file is found with its own attributes and range; the indices agree |
| Model index (`model.rs`) | entries: base, descendants, ancestors, fields and methods once asked for | `append`, `populate_properties`, `resolve_mapped`, `resolve_related_field`, `update_models`, `delete_marked_entries` | properties are those of the classes of the model and of its ancestors; a save is reflected; recursion ends |
| Templates (`template.rs`, `index/template.rs`) | a stack of tags, the current name and mode | `gather_templates`, `append` | each template gets its own name, parent and mode |
| Python analysis (`analyze.rs`, `analyze/scope.rs`) | scopes while a walk lasts; per method a cache of results and a mark while it is evaluated; `ast_cache` | `type_of`, `build_scope`, `walk_scope`, `eval_method_rtype` | a type is one that some value has; variables are those of the blocks around; evaluation ends and answers what the source says |
| XML features (`xml.rs`) | `record_ranges`; the machine of `gather_refs` | `update_xml`, `record_slice`, `gather_refs` | what the cursor is on is found, wherever it is |
| Python features (`python.rs`) | none of their own | `update_models`, `did_save_python`; queries over syntax trees | |
| Components, JavaScript features | none of their own | queries over syntax trees that read the indices | |
| Interner (`index/symbol.rs`), stdio, CLI, utilities, editor extensions, build tools | none of interest | | |

### How they interact

`initialized` adds the workspace folders and releases `root_setup`, a semaphore
created blocked. `did_open` waits for it, blocks it to its own end, inserts the
document, awaits a search for the document's root, and calls `on_change`, which
blocks the document's own semaphore, awaits `load_modules_for_document` and
analyses. `did_change` waits for both; `did_close` for the document's only;
requests for `root_setup` and, most of them, the document. `completion` and
`references` also await `load_modules_dependent_on`. `load_module` claims
modules with a `compare_exchange` on `loaded`, spawns a task per file, appends
the outputs as they arrive, and then loads the `auto_install` modules that have
become installable, recursively.

### What is hard here

* A handler checks a flag, awaits, and acts as though it still held
  (`wait()` then `block()`; the rope cloned before `load_modules_for_document`).
* `wait()` returns on a notification without reading the flag again.
* The order of edits is not enforced anywhere: it follows from the order of
  wakeups and of admission, and from there being only two slots.
* A handler can be dropped at any await, by the timeout or by `$/cancelRequest`.
* Flags are set before the work they announce is done.
* Caches (`transitive_deps_cache`, `unloaded_auto_install`, `loaded_dependents`,
  the fields of a model, the results of methods, `ast_cache`, `diagnostics_cache`)
  outlive what they were computed from.
* What a model is depends on several files that are read in any order, at any
  time, and edited in between.
* The readers of XML and the walk over a method are machines that carry what they
  saw from one token or node to the next.
* Recursion over data that users write (dependencies, ancestors, related fields,
  methods that call each other) has no general guard against circles.

`PROJECT.json` ("hazards") lists each at the line where it bites, with the
properties that would catch it or the reason why there is none yet.

## 2. The modules

| Module | What it is |
|---|---|
| `DocumentText` | messages that carry text, and texts made of them |
| `DocumentStore` | abstract: what the server promises of open documents |
| `LanguageServer` | handlers, semaphores, open documents, transport |
| `MCLanguageServer` | its instances for TLC |
| `LanguageServerProofs` | theorems about its types and semaphores |
| `DocumentOrder` | why messages take effect in order: the invariants behind texts, trees and answers |
| `DocumentOrderProofs` | theorems about them, and the refinement of `DocumentStore` |
| `ModuleGraph` | modules, roots, and what depends on what |
| `ModuleLoader` | roots and flags, and handlers that load modules |
| `MCModuleLoader` | its instances for TLC |
| `ModuleLoaderProofs` | theorems about it |
| `ModelIndex` | the index of models: append, populate, merge, save, remove |
| `MCModelIndex` | its instances for TLC |
| `ModelIndexLemmas` | what its operators keep |
| `ModelIndexProofs` | theorems about it |
| `ModelQueryProofs` | the theorem that a query finds the fields that are declared |
| `ModuleSearch` | the searches of the module graph as they are run |
| `XmlReader` | records and templates from the tokens of an XML file; `record_slice` |
| `RecordIndex` | the indices of records and templates |
| `XmlCursor` | `gather_refs`: what the cursor is on |
| `TypeEval` | scopes, and the types of expressions |
| `ScopeWalk` | the walk over a method that collects its variables |
| `MethodEval` | what methods return, with the objects that models share |
| `Diagnosis` | the damage zone and the cache of diagnostics |
| `DiagnosisProofs` | theorems about the cache |
| `Loops` | lemmas about loops of any number of rounds, for the proofs |
| `XmlTree`, `XmlPlaces`, `PythonValues` | references: what a document says, and what an expression may be, told by its tree |
| `Readers` | writes documents, graphs, methods, dictionaries and expressions step by step, and compares |
| `MCAnalysis` | the instance of `Readers`, `MethodEval` and `Diagnosis` for TLC |

### `LanguageServer`

A message is its place in `sent`, and the handler of message `h` is `h`. `pc[h]`
is the await a handler is suspended at, or the point it runs from next:

| `pc` | place in the code |
|---|---|
| `queued`, `entry` | not admitted; admitted and not polled, or before its first await |
| `regcap`, `roots` | `initialized` awaits `register_capability`; adds the folders |
| `rootwait`, `gate` | in `root_setup.wait()`; just past it |
| `wdp`, `insert` | `did_open` awaits `WorkDoneProgressCreate`; inserts the document |
| `addroot` | in `add_root_for_file` |
| `load` | in `load_modules_for_document` or `load_modules_dependent_on` |
| `docwait`, `opened` | in the wait of `await_did_open_document!`; past it |
| `done`, `empty`, `failed` | completed; answered nothing; `on_change` returned an error |
| `blockPanic`, `missingPanic` | panicked in `Semaphore::block`; on a document it expected |
| `dropped` | timed out or cancelled |

`running` is the handler being polled: it moves alone until it completes or is
suspended, so one action is a stretch of code without a suspension. An await
that may be ready at once (`Await`) runs on or suspends. `ready` is the queue of
woken futures of `FuturesUnordered`, first in, first out, which is what the order
of edits rests on; `Notify::notify_waiters` enqueues all its waiters, in any
order (`Orders`), and marks them `notified`. Dropping what a handler holds is
part of `Leave`, the last thing every handler does, however it ends: completed,
failed, panicked (`CatchPanic` unwinds it) or dropped.

`DocumentText` represents a rope by the message that last gave the whole text
(`base`) and the deltas applied since (`edits`): what the properties can tell
apart, a missing, doubled, reordered or misapplied edit, is told apart, and
characters are not. A message carries one change. `docs[d].inst` is the
`did_open` that made the entry, so the document's semaphore is `inst`, and a
handler that cloned it (`arc`) may hold that of an entry since replaced.

Clients are legal ones: `Send` names only open documents and opens only closed
ones. A client may send at any time between two polls, cancel a request, and
leave the server's own requests unanswered.

Modelled from their use and marked external: the scheduling of
`buffer_unordered` and `FuturesUnordered`, the order of notifications, wakers,
cancellation, and the client.

### `ModuleGraph` and `ModuleLoader`

`ModuleGraph` says what the graph functions return, as least closed sets:
`Closure` (a module and all it depends on), `Dependents`, `Home` (every lookup by
name stops at the first root that has it, in the map's order, `Rank`), `base`
added implicitly where the root has it. `DependsOn` and `NeededBy` are written as
constant relations so that TLC computes them once.

`ModuleLoader` has a call per handler that loads. A call runs one branch per
`load_module` it makes concurrently; a branch is a stack of activations, for
`load_module` calls itself for `auto_install` modules. An activation keeps the
tasks of its `JoinSet` and the candidates it has yet to load. A call is polled
until it awaits `join_next` (`polled`). `AddRoot` is `add_root`, with its clearing
of the cache and its call of `find_auto_install_modules`; `ChangeConfiguration` is
what `did_change_configuration` does to the roots; `Cancel` drops a call, whose
`JoinSet`s abort their tasks while the flags stay.

Not shared with `LanguageServer` but consistent with it: `did_open` holds
`root_setup` while it loads, so no other call starts meanwhile (`MayCall`), and
none starts before the workspace folders are added (`SetUp`).

### `ModelIndex`

A file is a sequence of classes, and its place in a file stands for a class's
range, which is where it is looked up again when the file has changed. Entries
have the places of the base and of the descendants, ancestors as a sequence that
grows, and fields and methods once `populate_properties` was asked for them. A
method is its sequence of places, and a place is active as long as it is found
again in a save (`TrackedMinLoc`). The order in which `index_models` lists the
classes of a file is that of a hash map: any (`IndexModels`); the order in which
`Method::merge` goes through files is one that the instance fixes (`Hashed`).
`Load` appends one file's models, as `load_module` does when a task ends; `Save` is
`did_save_python`'s part; `Query` and `Resolve` are what requests do.

`Reconfigure` is what `did_change_configuration` does to the index, of a root that it
removes or of none: `remove_root` marks, and `delete_marked_entries` runs in any
case. Its loop holds the shard of the model it is at for writing and looks the
ancestors up in the same map, so it waits for itself where one of them is in that
shard. `shard` says which models share one: it depends on how symbols hash, and is
chosen once (`Shardings`). `RemoveRoot` is the step where the call ends, `RemoveRootHangs`
the one where it does not (`locked`); nothing is said of the server after that.
`index_models` takes both. That the code ends here is false, as soon as a model and
an ancestor of it share a shard: of thousands of models in four shards, some do.

The recursion is call by call. `stack` has the activations of
`populate_properties`: `Begin` takes what the model had and is at its ancestors,
`Descend` calls for the next one, `Inherit` merges one that is there, `Finish` reads
the model's own classes and returns to the activation below. `asked` has the paths
that `resolve_related_field` and `resolve_mapped` are following, `save` what
`update_models` has yet to read again. None of this awaits, so whatever else the
server does waits until it is `Idle`; and what an activation sees of another's
half-made work is in the model: the entry of a model at work has no fields. The
code recurses without end where an activation comes back to a model at work, or a
path to a field that is being followed: `overflow`, which ends the process.

### `ModuleSearch`

`resolve_transitive_dependencies`, `find_dependency_chain` and
`discover_dependents_of` with their stacks, their memo and the path they are on. A
root is a function from its modules to their dependencies, in the order that a
lookup by name visits the roots.

### `XmlReader`, `RecordIndex`, `XmlCursor`

A document is a sequence of tokens: the start of a tag, an attribute, the end of a
tag, a close, a text, the error at which the tokenizer stops. A token's number is
its offset. `XmlReader` is the machine that takes one token at a time: `mode` is
the function that has the tokenizer (`add_root_xml` or `update_xml`, `from_reader`,
`template`, `menuitem`, `gather_templates`). An id with a dot in it (`Dotted`) loses the
module it names (`Unqualified`), whichever that is, and the record is filed under the
module of the file; a record that is inherited from is named with its module, that
of the file if it says none (`Qualified`). `RecordIndex` has what is done with
the result. `XmlCursor` is the loop of `gather_refs`, with the variables of
templates that `insert_in_scope` types with `TypeEval`. A cursor is in the name or
the value of a token or in the gap behind it.

### `TypeEval`, `ScopeWalk`, `MethodEval`

An expression is a record whose `n` is the kind of its syntax node; a method body
is the sequence of its named nodes in preorder, each with a start and an end, which
is all that `walk_scope` looks at. `W` is the world: the models with their fields
and methods, the records, and what the methods return. `MethodEval` models the
last: `ref` says which `Method` object (an `Arc`) each model's method is, so
that sharing, `Arc::make_mut` and the mark `pending_eval` can be told apart. A
request evaluates without an await, so an evaluation is one step.

### `Diagnosis`

A document is a sequence of top-level statements, a statement a sequence of
places that are fine, name a record or a model that does not exist, or import
one. `Change` is a `did_change` of one or more edits, `Save` and `Pull` the other
two that diagnose; `mode` is one of the three ways in which a client and a
document have it done: with each change, on saves (more than
`DIAGNOSTICS_LINE_LIMIT` lines), or on request.

### `Readers` and the references

The functions above are pure or nearly so, and their inputs are what somebody
writes. `Readers` has a variable for each and an action that adds an element, an
entry, a statement or a part to it; its invariants compare what the code makes of
it, after each step, with what it says: `XmlTree` and `XmlPlaces` tell the records,
templates and references of a document by recursion over its tree, where the code
has tokens; `PythonValues` has the values that an expression may have;
`VariablesAt` finds the variables of a place by recursion over blocks, where the
code walks over nodes; `Reachable` is a least fixed point, where the code has
stacks. `MCAnalysis` puts these, `MethodEval` and `Diagnosis` side by side: `part`
says which is at work in a behaviour. They share no state, so they are not
interleaved.

## 3. What is checked

Production concurrency (2) unless said otherwise. Deadlock is not checked: the
server may have handled all the client sends, and calls are bounded.

| Run | Instance | Shows |
|---|---|---|
| `server_session` | two documents in the workspace, six messages, `code_action` (which never waits), one timeout | `NoBlockPanic`, `NoMissingDocument`, `TextFaithful`, `AnalysisFresh`, `SettledInSync`, `ClosedForgotten`, `ReadsOwnWrites`; `OrderInv`, the invariant the proofs use, even though `initialized` or a `did_open` is dropped; the store refines `DocumentStore` (`StoreSpec`) |
| `server_liveness` | two documents, one whose root `did_open` has to search for and one of an unknown language; `completion`, `references` and `goto_definition`; four messages, as many timeouts, a client that may never answer | `EveryMessageHandled`, `RootReleased`; `GateInv` and `RootExclusive` with handlers dropped at every await |
| `loader_one_root` | five modules, a diamond with an `auto_install` module and one above it; a file that fails; two calls | `NothingStranded`, `DependentsIndexed`, `AutoInstallComplete`, `CallsReturn` |
| `loader_two_roots` | a module in both roots, a dependency across them and one that no root has; one call dropped, one root removed | `ReadOnce`, `CacheCurrent`, `MissingNoted`, `NothingStranded` |
| `index_models` | two models in two files of two roots, four and five contents of them; both in one shard or not; two saves, one configuration change | `QueryComplete`, `SaveReflected`, `PlacesDistinct`, `CrashOnlyOnCircle` |
| `analysis` | see below | `RecordsRead`, `KeptWhileTyping`, `CursorFound` of XML documents; `SearchesAgree` of module graphs; `BlocksScoped`, `DictRemembered`, `TypeSound` of methods; `NothingLeftPending`, `NoReentry`, `AnswersRight` of evaluations; `DiagnosticsCurrent`, `OnceEach` of diagnostics |

Violations, each a disagreement of the code with what it says of itself:

| Run | What happens |
|---|---|
| `server_close_overtakes` | `did_close` waits for the document's setup, which `did_open` has not begun while it searches for a root. The document is removed, and `on_change` panics on "(on_change) did not build document". |
| `server_harness_block` | With the test harness's four slots, two `did_open` are notified together, the first blocks, and the second, which did call `wait()`, panics in `block()` with the message that one should call `wait()` first. |
| `server_escaped_path` | `ast_map` is looked up by the URI's path and written by the file path. For a path with an escape, every delta fails with "got delta but no ast". |
| `loader_cancelled` | One root, which stays. A handler is dropped, by a timeout or cancelled, while it loads: its modules stay marked loaded and their tasks are aborted. The next call finds nothing to do and sets `loaded_dependents`. |
| `index_unread` | A model is asked about, then a file with a class of it is loaded: `populate_properties`, which "populates all of its properties", returns early and never reads the class. |
| `templates_named` | "t-name IFF t-inherit not specified or t-inherit-mode=extension, otherwise t-inherit", says the doc of `TemplateName`; an extension with both is named by its `t-inherit`. The property is false in two more ways: of a primary template with both, and of one with only a `t-name` after an extension, which is dropped, for `base` is not reset and it is taken for an extension of nothing. |

### Bounds

* **Documents.** Handlers of different documents meet only at `root_setup` and at
  the slots; a second document is enough for one `did_open` to wait for another.
* **Messages** (`MaxMessages`). A session of one document (open, edit, close, open
  again, edit) takes six with `initialized`: the shortest in which a message of an
  earlier session could reach a later one. Two slots hold two handlers, and the
  third message in line is admitted when one ends, so four messages already show
  every admission race.
* **Timeouts.** One in `server_session`: `initialized`, or any handler of the session. In
  `server_liveness` as many as there are messages, so that the bound never
  withholds one.
* **Calls and files.** Two handlers in flight is what the transport allows; one
  file per module, since an activation's tasks are already several (one per
  module it claims). One dropped call and one removed root
  (none in `loader_cancelled`, which has one root).
* **Models.** Two models, two fields and a method in two files: enough for a base
  with an extension in its own or the other file, an heir with an override, a base
  that becomes an heir of its heir, a related field to itself, and a file that
  loses what it had. The map has four shards; of two models all that matters is
  whether they share one. Two saves, so that what the first left behind meets the second.
* **Documents and expressions.** Two elements of about thirty, and two of a dozen in
  a view or template, are adjacent or nested: what one element leaves behind in a
  machine with a bounded number of flags meets the next. Two statements of
  fifty-six, loops in loops in loops among them; three writes to a dictionary;
  expressions of three levels, so that each way to make a container meets each way
  to take it apart.
* **Module graphs.** Two roots, three entries, up to two dependencies of each: a
  chain, a circle, a diamond's sides, and a module of both roots.
* **Evaluations.** Two models of which one inherits from the other, two methods, two
  versions of each file, five requests or saves. **Edits.** Two, in one change or
  two, of two documents.

### What the properties leave out

`ReadOnce`, `CacheCurrent` and `MissingNoted` hold as long as no root has been
removed: `remove_root` neither aborts the tasks of its modules nor clears the
cache. `MissingNoted` is about modules that are not loaded yet: what is loaded is
forgotten from the notes, and a root that is added while the loading awaits may
take one of its dependencies away. `NothingStranded` and `AutoInstallComplete` leave out dropped calls,
which `loader_cancelled` is about. `SettledInSync` leaves out sessions with a
timeout, which gives messages up. `server_session` has
`Progress` FALSE: a `did_open` that awaits the answer to its progress request has
not inserted its document yet, `did_close` finds nothing to remove, and the
document is inserted after it was closed. `ClosedForgotten` is false of that, and
`TextFaithful` too if the `did_open` of the next session is then dropped. That a
`did_open` which is dropped at that await releases `root_setup` is `RootReleased`'s part, in
`server_liveness`, and no other run's. With more than
two slots, edits may be applied out of order.

The request of `server_session` is `code_action`, the one that reads without waiting; that
the others read what the client wrote before them is proved (`AnswersReadOwnWrites`).

`Semaphore::wait` is said to wait "for a maximum of `WAIT_LIMIT`", but it loops
while its flag is set: the model has `WaitLimitElapses` as a wakeup that makes
the waiter look again, and no more.

The same goes for the analysis, where some of what one would expect is false, and
the exception is named where the property is stated:

* `QueryComplete` is about a model none of whose ancestors was asked about before,
  while nothing was saved and the configuration did not change: a class that is loaded later is not read
  (`index_unread`), and a configuration change takes back the ancestors whose module
  is not loaded. `SaveReflected` is about a model with one class in the file: of two
  that extend one model, the second takes out what the first put in.
* `CrashOnlyOnCircle` allows the crash where contents that were ever indexed have a
  circle: ancestors stay after a save, so an old one counts.
* `RecordsRead` and `CursorFound` are about documents as XML allows them. In `XmlTree` a
  template says itself whether it is an extension, by its own `t-inherit-mode`, where
  the code goes by the last word said in the file: `RecordsRead` and `KeptWhileTyping`
  compare templates in documents where the two are the same (`ModesSaid`), an extension
  saying its mode after its parent, and whatever follows it saying what it is. The
  others are dropped or misnamed. Which of its two names a template with a parent has is
  as in the code, for the rest of the index goes by it; `templates_named` has the doc's
  word on both.
* A record of another module is under the file's, as the code files it.
  `CursorFound` follows the code where an attribute decides by what came before it
  (`type` of a button, `position` of a field): the documents have them in the order
  that the code expects, as its own comment says of `position`. The variables of a place
  are those of all that is before it, ended elements too, as in the code.
* `BlocksScoped` is about methods where no more loops end at once than there are
  nodes before something is bound (`Paced`), and, for the variables of a place,
  about places that are not last in a loop with more behind it (`Overrun`).
* `TypeSound` asks for some value that is of the type; a container counts by one of
  its elements, and a number as a key may be of a type named by its text, as the code
  names it. Left out of the expressions are those that the code types otherwise than
  Python: `enumerate` and `tuple` of anything but a recordset, `grouped` by a path of
  more than one name, a field of a record by subscript, and `read` of a relation.
* `DictRemembered` follows the code in that a keyword that comes first is no
  argument of `update`.
* `NothingLeftPending` allows a method to stay pending where two models share it and
  both were evaluated; `AnswersRight` leaves those out, and circles.
* `DiagnosticsCurrent` is about diagnoses of edits in one statement that move nothing
  behind it (`drifted`): after others the cache is stale until the next time all is
  looked at. `OnceEach` leaves out imports, which are found, and listed, again each
  time.

### Fairness

`LiveSpec` assumes that the executor admits and polls what it can and that a
polled handler moves (weak fairness); that work which ends is noticed (strong
fairness, since the handler is only woken between polls, and stays so); and that
a handler that awaits the client's answer gets it or is dropped by the 30 second
timeout. That `WAIT_LIMIT` elapses is *not* assumed, so `EveryMessageHandled`
shows that the notifications alone release every waiter. `RootReleased` is
checked without dynamic registration (`Registers` FALSE): where `initialized` is
dropped while it awaits `register_capability`, it has no blocker yet whose drop
would clear `root_setup`, and the flag stays set for good.

`FairSpec` assumes weak fairness of `Progress`, the steps of calls in flight: tasks
end, and the executor polls who joins them. It does not choose among branches,
and nothing of the environment (roots, cancellations) is fair.

## 4. What is proved

`LanguageServerProofs` proves, for all documents, clients and bounds, from the
three named assumptions on the constants in `LanguageServer` and the one in
`DocumentText`:

* `TypeCorrect`: `Spec => []TypeOK`.
* `RootIsExclusive`: `Spec => []RootExclusive`, for *any* `Concurrency`. At most
  one handler holds a blocker on `root_setup`, and the flag is set while one does,
  so no `Blocker::drop` opens the gate under another holder. Its induction needs
  `BlockerInv`: which kinds of handlers reach which points (`Stages`), that the
  poll queue holds handlers in flight, each once (`Queueing`), and that before
  `initialized` takes its blocker by `block_unchecked`, which does not check, the
  flag is set from the start and nobody holds it (`RootFromStart`).
  `block_unchecked` is safe for that reason only. `SetupHeld` says the same of the
  documents' semaphores.
* `BlockNeverPanics`: if `Concurrency <= 2`, `Spec => []NoBlockPanic`. `wait()` does
  not look at the flag again when it is notified, so this does not follow from
  the semaphore. `GateOpen` is the reason: of two handlers, when one lets go of
  the blocker and the other is its waiter, that waiter is at the head of the
  poll queue and nothing else can run before it, so the flag is still clear
  when it goes on; and a handler past the gate has not awaited since. With three
  slots, two waiters are notified at once and the argument fails, as
  `server_harness_block` shows with four.

The argument is one lemma per handler group and per invariant (`...Types`,
`...Blockers`, `...Gate`), over two general lemmas: what holds when a handler moves
without letting go of anything (`Move...`), and when it leaves (`Leave...`).
`GateInv` is also an invariant of `server_liveness`.

`DocumentOrderProofs` proves what the server promises of documents, for all
documents, sessions, timeouts and numbers of messages. It is about two slots
(`Concurrency <= 2`) and a client that is not asked for progress (`Progress`
FALSE); section 3 says what goes wrong otherwise. `GateStaysOpen`,
`Spec => []GateInv`, needs the first only.

* `MessagesInOrder`: `Spec => []OrderInv`. `OrderInv` is the inductive invariant of all
  that follows, and is checked by `server_session`.
* `TextsAreFaithful` (`TextFaithful`) and `AnswersReadOwnWrites` (`ReadsOwnWrites`): no
  edit is lost, repeated or reordered, and a request reads every edit sent before
  it, whatever is dropped meanwhile.
* `ClosedAreForgotten` (`ClosedForgotten`).
* `TreesAreFresh` (`AnalysisFresh`) and `SettlesInSync` (`SettledInSync`), where no path
  is escaped in its URI (`Encoded = {}`); `server_escaped_path` is the other case.
* `DocumentsAreFound` (`NoMissingDocument`), where `initialized` finds a root for every
  document and `did_open` knows its language (`Docs \subseteq Supported \cap
  Workspace`). Where a root is searched for, `server_close_overtakes` is the
  counterexample; a document of an unknown language is never inserted, and the next
  edit of it does not find it.
* `HandlersImplementStore`: `Spec => StoreSpec`. Each step of the handlers is a step of
  `DocumentStore` or changes no text, nor what decides which messages follow a text
  (`Follower`).

Nothing in the code orders edits, so the heart of the argument is whose turn it is
(`TurnInv`). Handlers are polled first in the order of their messages
(`EntryOrder`); one that waits is held up by an older handler, or was notified and is
the next to move (`WaitersInTurn`); so no handler gets past its first await before those
of older messages have had their effect (`InTurn`). Until `initialized` has added
the roots, nothing passes `root_setup` (`Starting`); if it was dropped before that,
nothing ever does, and what the conjuncts after `Starting` say is vacuous.
`DocumentInv` then says what the
store holds, by the messages whose turn is over: the text has all of its session's
edits up to the latest (`Sessions`), what was opened and not closed is there
(`Held`), what is parsed is the text (`Parsed`), and it is parsed when `did_open`
has ended (`Analysed`). The client is a legal one by its own invariant
(`LegalClient`).

`ModuleLoaderProofs` proves, for every graph of modules and roots, any number of
calls and any bounds, from the assumptions on the constants in `ModuleGraph` and
`ModuleLoader`:

* `TypesCorrect`: `Spec => []TypeOK`. Its invariant `TypeInv` adds that only a call in
  flight has activations on its stack, that an activation which has joined its tasks
  has none left, and that a branch still to be started has no activation.
* `FilesReadOnce`: `Spec => []ReadOnce`. `load_module` marks all that it claims before
  its first await, so two calls never claim one entry. `ReadInv` is the invariant:
  a file that some task reads is of a marked entry, is not in the index, and belongs
  to one activation only. Dropping a call takes no mark back, which keeps this
  true and is why `loader_cancelled` fails.
* `NothingLeftOut`: `Spec => []NothingStranded`, by the other direction (`StrandInv`):
  a file of a marked entry is in the index or being read. No root is kept from being
  removed here.
* `CacheIsCurrent` and `MissingIsNoted`: `Spec => []CacheCurrent` and
  `Spec => []MissingNoted`, together (`CacheInv`, `NotedInv`), since what is noted is
  computed from the cache. The roots change in steps that look for auto_install
  modules again with an empty cache; between them only a mark, which takes the
  module out of the property, removes a note.
* `DependentsAreIndexed` and `AutoInstallIsComplete`: `DependentsIndexed` and
  `AutoInstallComplete` while no root has been removed (and, for the first, no call
  dropped), where every root is a workspace folder or there is one root
  (`RootsGiven`). A search that has ended is not repeated for a root that is added
  later by `add_root_for_file`, so the roots have to be complete before the first
  handler loads (`RootsComplete`): `root_setup` sees to that for the workspace
  folders. `SearchInv`: what a search has yet to start or has marked is all that
  depends on the module. `AutoInv`: a module that could be installed now is a
  candidate of an activation, or one that still joins its tasks will look for it,
  for whoever claims the last dependency looks after claiming.

The argument goes over what a step does to the tasks (`Effects`): nothing, or one
ends (`Reads`), or a module's are spawned (`Spawns`), or a dropped call's are aborted
(`Aborts`), or the roots change (`Moves`); each invariant is shown once per effect
rather than once per action. `HomeFound`, on which the graph's lemmas rest, is the
existence of a first root that has a module, from the well-foundedness of Nat.

`DiagnosisProofs` proves `NothingListedTwice`, `DiagnosisSpec => []OnceEach`, for documents,
edits and modes of any kind and number: what `diagnose_python` keeps lies outside
of the statement that it looks through again (`KeptOrFound`), so `OnceEach` is
inductive as it stands. `DiagnosticsFollow` proves `DiagnosisSpec => []DiagnosticsCurrent`. The
offset of a statement is a sum over those before it, so it stays while their
lengths do (`SameStarts`); the zone of edits of one statement that move nothing is
inside it, and so is found in it and nowhere else. `FollowsInv` is the invariant: while
nothing has moved, the zone is inside what the edits touched, and outside of the
touched statements the cache has what there is to find, even between two
diagnoses. A statement that was touched is looked through again, so it holds there too.

`ModelIndexProofs` proves, for files, contents, models, fields, methods and roots of any
number, with `ModelAssumption` on what classes may say:

* `IndexTypes`: `Spec => []TypeOK`.
* `OverridesDistinct`: `Spec => []PlacesDistinct`. It is not inductive: `add_override` goes by the
  last place of the file, and `merge` by the first run of them, so that a class that
  is in a second run of its file would be listed again. What is, is that the places
  of a file are one run, in which no class is twice (`Tidy`); it has to hold of what
  activations have collected, too, and of each round of the loops over places, files
  and classes.
* `RecursionEnds`: `Spec => []CrashOnlyOnCircle`. The ancestors of each entry, however often
  appended, are those that classes of an indexed file give it (`TableInv`), and the
  activations are called one for the other (`StackInv`), so coming back to a model
  closes a circle of what the files say; likewise the paths of related fields, since
  merging, inheriting and settling change no path (`KnownFields`, `AskedInv`). The files
  have to be those that were indexed: an entry has only places of files that were
  indexed as they are now (`IndexedPlaces`), since every save indexes what it writes.

A configuration change that does not end is a step too, which leaves part of the loop
done, so these theorems hold of it as well; `LocksInv` adds the types of `shard` and
`locked`.

`IInv` is the conjunction of these parts, and `ModelIndexLemmas` has the operators one by
one. Every loop is a recursive function of its round; `Loops` proves once that what
holds before a loop and is kept by each round holds after it (the least round where
it fails is not the first, and the one before it keeps it), which needs no induction
over data.

`ModelQueryProofs` proves `QueriesComplete`, `Spec => QueryComplete`, for the same constants. Two
more invariants hold beside `IInv` until a file is saved or the configuration changes (`Fresh`):

* `FiledInv`: an entry has the places of its model's classes in the files that were read,
  except for bases after the first, which `append` drops, and the ancestors that
  those classes name, no others (`FiledEntry`).
* `QueryInv`: an activation has collected the fields of the ancestors that it is done with,
  and none but theirs (`Collected`); a model that was worked out since the request
  came has the fields that it should (`Answers`). Both are about models whose ancestors
  have one base each and were not worked out when the request came (`Certain`), which
  is the condition of `QueryComplete` on the model asked about, and passes on to its
  ancestors (`CertainParents`). For other models they are false: `index_unread` shows
  one that was worked out too early.

`AncestorsOf` is the least set closed under the parents of its members, so it is the model
itself and the ancestors of its parents (`AncestorsUnfold`), and what a model should
have is what its classes declare and what its parents should have
(`DeclaredUnfold`): what `Finish` adds to what `Inherit` and earlier calls collected is
just the first. No induction on the depth of the recursion is needed, since each
activation takes what the one above it has finished with.

Only model-checked: liveness and anything that needs fairness (`EveryMessageHandled`,
`RootReleased`, the loader's `CallsReturn`), which is out of the proof system's reach.
`SaveReflected` of `ModelIndex` is about fields left over from what a file had before, and
needs an account of which old content each field came from.
The readers and evaluations of `analysis` (`RecordsRead`,
`KeptWhileTyping`, `CursorFound`, `SearchesAgree`, `BlocksScoped`, `DictRemembered`, `TypeSound`,
`NothingLeftPending`, `NoReentry`, `AnswersRight`) are recursive over trees that users write,
with `RECURSIVE` operators, about which the proof system cannot reason, and the
machines of `XmlReader`, `XmlCursor` and `ScopeWalk` are compared with references that
recurse over the same data; that the two agree for every input would need
induction over data.

## 5. What is not modelled

* Tree-sitter and the XML tokenizer: the analysis is given expressions, named nodes
  and tokens. The queries that find classes, fields, imports and calls in a syntax
  tree are abstracted to what they capture.
* What requests make of the reference or type that was found: completion items,
  hover texts, locations, symbols, code actions. They read the indices and change
  nothing.
* Components and JavaScript: extraction into maps without further state.
* In `model.rs`, docstrings and details of fields; in `analyze.rs`, parameters with
  defaults, lambdas passed as values, `determine_scope` and the display of types; in
  `xml.rs`, groups in comma-separated values, `@type` comments and attributes that
  are not finished; in `diagnostics.rs`, manifests and mapped fields.
* `init_workspaces`, `on_change_config`, `ensure_nonoverlapping_roots`, `symbol`,
  `execute_command`, `did_change_watched_files`.
* The order in which pushed diagnostics reach the client, which nothing in the code
  decides, and what `remove_root` leaves in the record index.
* Pure input and output, argument parsing, the editor extensions and build tools.
  The interner is represented by model values.

`PROJECT.json` ("components") gives the state of each part.

## 6. Plan

What is left, in order of the risk of what it covers.

1. Proofs: `SaveReflected`, from where each field was found;
   `SearchesAgree`, with the stacks of `ModuleSearch` as recursive functions.
2. Composition: what `load_module` appends, in `ModelIndex` and `RecordIndex`, with the
   loader's flags, so that what a removed root leaves behind can be stated.
3. `Workspaces`: `init_workspaces`, `on_change_config`, `ensure_nonoverlapping_roots`.
4. The mapped and manifest diagnostics, `determine_scope`, and groups in
   comma-separated values.
5. The remaining handlers: `symbol`, `execute_command`, `did_change_watched_files`.
