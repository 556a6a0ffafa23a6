# Surtr: a TLA+ model of the runtime and the interactive tools

Surtr is a language with an actor-like process runtime.  Its tool chain is a
pipeline of crates: Spire (parser), Sigil (names), Scar (types), Forge (code
generation) and Eldr (virtual machine), driven by Rune (command line) and Xldr
(REPL and TUI), with `surtr-analysis` and `surtr-lsp` for editors.  Most of it
is sequential.  This project models the parts that are not, or that keep state
which must agree: where several tasks, two threads, several operating system
processes, or several compiler sessions and a VM take turns.

All paths below are relative to `src/`.

## 1. Inventory

| Part | State | Operations | Hard part | Module |
|---|---|---|---|---|
| Eldr processes (`crates/eldr/src/vm.rs`, `vm/process_continuation.rs`) | process bodies, execution records, futures, detached tasks | spawn, call, state get/store, ReplyLater, Stop, failure, abort, reclaim, timeout | cooperative tasks in 256-reduction quanta over a snapshot of ready ids; stop, failure and deadline race with started executions | `ProcessContract`, `ProcessLifecycle` |
| Supervisors and worker sets (same files) | child table, worker sets, refill flags | spawn, adopt, create, reserve/submit, broadcast, refill | init callbacks interleave with stops; cursor and snapshot over a changing list | `WorkerPool` |
| Singleton start (same files) | flights with waiters, init tasks | start, join, retry, await, release | shared initialisation with a deadline; inits that wait for each other | `SingletonInit` |
| Handlers, file sinks (`vm/handler_bindings.rs`) | counted contexts, descriptors, write queues | acquire, share, derive, release, write | descriptors are not rolled back, their owners are | `HandlerBindings` |
| Chunk execution (`vm.rs`, `interactive.rs`) | loaded image, process runtime, checkpoint | push, verify, append, boot, commit, roll back | several failure points after the image has changed | `ChunkSession` |
| Forge session (`crates/forge/src/codegen.rs`) | bases of the next chunk | generate, checkpoint, roll back | must stay in step with the VM | `ChunkSession`, `ReplEngine` |
| REPL engine (`crates/xldr/src/repl/logic/core.rs`) with what Sigil and Scar keep between lines | name, type and code sessions, replay lists | line, `:reload`, preload | three sessions and a VM number the same functions | `ReplEngine` |
| TUI and completion worker (`crates/xldr/src/repl/ui`) | modes, buffers, list, generations, mailbox | keys, submit, poll, worker loop, close | two threads, late answers, lost wake-ups | `TuiSession` |
| Run cache and semantic caches (`crates/rune/src/run_cache.rs`, `compile.rs`, `crates/xldr/src/lib.rs`) | cache files, lock files | load, lock, build, store | processes share files and die at any step | `ArtifactCache` |
| Futures (`vm.rs`) | futures, deadline queue | resolve, time out, wait for any | deadlock detection, hidden results | partly, in the above |
| Line REPL, loader, Rune commands, parse cache, analysis service, LSP, parser, resolver, typechecker, code generator, opcodes, builtins, diagnostics | values, or state of one thread | functions | unbounded data | section 5 |

`PROJECT.json` lists the components one by one with their status, and the
hazards at the line where they bite.

## 2. Modules

```
ProcessContract <-- refined by -- ProcessLifecycle
      ^
      +-- extended by -- WorkerPool
                             ^-- PoolCreationProofs <-- PoolRequestProofs <-- WorkerPoolProofs

ChunkSession  <-- ChunkSessionProofs        TuiSession <-- TuiSessionProofs
ArtifactCache <-- ArtifactCacheTypes <-- ArtifactReadProofs <-- ArtifactBuildProofs
SingletonInit     HandlerBindings     ReplEngine
```

Each specification has an `MC...` module that adds the symmetry sets and the
constants that configurations name; `ProcessContract` is checked through the
modules built on it.  Operators marked *Mutant* are altered copies of the
definition that follows them; they are not part of any specification and serve
to show that a property can fail.

### ProcessContract

What the runtime promises of one process: `Allocate`, `Begin`, `RequestStop`,
`Finish`, `Crash`.  A request begins only while the process accepts; Stop
closes the door; the body goes away in the step that ends the last request.

### ProcessLifecycle

The implementation.  `live`, `born`, `wait` and `cancelling` are the detached
tasks (clients, wrappers, callbacks of ReplyLater, error builders), `todo` and
`current` the snapshot of `drive_ready_detached_tasks` and the task whose turn
it is, `abort` the loop of its Failed arm.  A turn is a sequence of actions of
the current task (`TakeRunnable`/`TakeResumed`, then `ReadState`, `Call`,
`Store`, `ReplyLater`, ...), ended by `Yield` (quantum used up), a wait, `Exit`
or a failure.  So a quantum may end between any two runtime calls, which is
what the reduction counter allows.  Nested rounds run inside an abort.

The value of a process is the execution that stored it.  A caller may get one
turn without effect before it waits; this is harmless and keeps `Call` one
step.

### WorkerPool

Extends the contract, so a worker's own requests are those of
`ProcessContract`.  A set is created one init callback at a time (`BuildOne`,
`BuildFail`), hands out members by a cursor (`Reserve`), and loses a member in
the step that reclaims it (`End`, `Leave`), which starts a refill task
(`RefillStart`, `RefillOne`).  The task ends early in three ways: its init traps
(`RefillTrap`), which clears the set's flag in `refilling_worker_sets`, returns
an `Err` (`RefillErr`), or never starts (`StartSpawn`), which both leave the
flag set.  The id of a set stands for its
creation; workers of a creation under way are known to nobody else.  Child
lists are sets, because a child occurs once.  `Without` is `Vec::retain` for a
list without repetitions (`MembersAreLive` shows there are none).  Answers to a
broadcast may come at any time, more often than the runtime delivers them.

### SingletonInit

A process declared as a singleton is initialised on first use
(`docs/dev/ProcessRuntime_spec.md`, from line 170).  `runtime` is the part of
the process runtime concerned: which singletons are up, the flights with their
waiters, the init task of each (its stage, the time left, the retry delay), and
who waits for whom.  Requests (`Ask`, `Boot`, `BodyAsk`) start a flight or join
one; the init task calls the callback (`ResumeInit`, `CallbackReturn`), which
may answer ready, pending, pending with a delay, or an error, and may itself
ask for a singleton, its own included.  `Tick` passes time, only when nothing
can run.  An error that leaves a task restores the checkpoint when a chunk is
in the foreground (`FailWith`) and is only reported otherwise.  Deadlines are
kept as time left, so that a rollback restores both ends of the interval.

### HandlerBindings

`rt` holds contexts with their counts and sinks, `by_target`, the write queues,
processes and tasks with the context each owns; it is what a checkpoint saves.
Of the rest, the identity counters are never taken back and the descriptors in
`active` are taken back from the checkpoint when a chunk fails (`Escape`).
`lost` counts the references of failed executions that the error of another
task cut off before they released: nobody will release these, and the file
stays open.  A flush that fails in running code is
an error of that code, in the driver it escapes.  A task call with a derived
context is one of the ways to start a task and has no action of its own; an
init starts no process; the shutdown at the end of a batch `run()` and clones
of a VM are left out.  (`docs/dev/ProcessRuntime_spec.md`, the table at line
1086, gives the rules of file handlers.)

### ChunkSession

A host with a `ForgeSession` pushes chunks into an `InteractiveVm`.  Phases:
generated, refused (policy, verifier, base mismatch), appended, booting,
running, then commit or rollback.  A table entry is the chunk it came from.
`runtime.processes` are the ids given out; stopping is not part of this module.
`boot_failures` is left out because the rollback of the push always restores
it.  In the REPL a trap in an entered chunk ends the UI loop, so a push after a
failed push on the same VM is a behaviour of the `InteractiveVm`/`ReplEngine`
interface (and of what tests do with it), not of a session at the terminal.

### ReplEngine

`eng` is the engine: what Sigil knows of each name (`scope`, `decl`), what Scar
does (`env`: the index of a name; `tmpl`: generic definitions by index;
`cache`: instances by name and type; `next`: the next index), the function
tables of Forge and of the VM, and the definitions and lines kept for
`:reload`.  A function is its name, its version and its type; it calls at most
one other (`Callee`).  A table entry records which function it is, which one it
was written to call (`wants`) and which index it calls (`callee`), so that a
wrong renumbering shows.  A line goes through `resolve`, `typecheck`,
`codegen_chunk_repl_result` and the run; each stage can fail
(`StageFails`, `RuntimeFails`, `InspectFails`, `MainError`, `RenderFails`) with
the rollback that belongs to it, and `Commit` reconciles indices
(`normalize_function_table`, `rekey_specializable_defs`).  `handle_reload`
builds a new engine beside the old one.  History numbering, imports, completion
and documentation tables, commands that only show something and `:save` are
left out.  `ensure_specialized_def` is recursive in the code and a RECURSIVE
operator here.

### TuiSession

The TUI thread (`UiLoop` and one action per kind of key) and the worker
(`WorkerCheck`, `WorkerPush`), with a mailbox and a condition variable.  A
position is a text with a cursor and an edit goes to any position; a context is
a version of the engine's scope.  The UI hands the worker what the engine has
cached (`Schedule`): a committed line renews the cache (`Commit`), a reload puts
an engine without one in its place (`Reload`), after which nothing is handed
over any more.  Lock-protected sections are single actions.
`PollOne` takes one result, so the worker may queue another in between.  The
computation of candidates returns; a panic of the worker is not modelled.
Command names are typed whole.

### ArtifactCache

Operating system processes that load an artifact, or build and store it.  A
file is a few blocks, each holding the key it was written for; `dir` says which
file a path leads to, so a reader keeps the file it opened while another
replaces it.  The two semantic caches check the key in the file and take a file
lock on a miss, then look again; the run cache does neither, its path is the
key, and a file that does not decode is removed.  Where a rename fails the file
is copied (`StartCopy`, `Copy`), which is not atomic.  `Kill`, `LockFails`,
`StoreFails` and `MachineCrash` are the faults; a compile error ends a process
like a kill.  An artifact is determined by its key.  Any rename may fail, for any
number of processes (`copies`), also on the path of the standard library's
snapshot, which all keys share (`Shared`); every other path is named after its
key.  Caches inside one process
and read errors other than a missing file are left out.
(`docs/dev/テスト方針.md`, lines 260 and 261, and `docs/dev/Xldr_spec.md:93`
describe the caches.)

## 3. Runs

| Run | Configuration | Shows |
|---|---|---|
| `lifecycle` | ProcessLifecycle.cfg | 2 processes, 2 executions, 2 clients: the abort loop always finds work, scheduled tasks stay ready, no execution loses its task and no caller its answer, stored before replied, replies settle once, and the contract is implemented |
| `lifecycle_live` | ProcessLifecycleLive.cfg | stopping processes are reclaimed, callers wake |
| `worker_pool` | WorkerPool.cfg | 5 pids, one set, two supervisors: members have bodies and occur once, target kept, child table exact, a broadcast passes nobody over |
| `worker_pool_live` | WorkerPoolLive.cfg | a set of 2 returns to its target unless its refill fails; every accepting member gets its turn |
| `singleton_init` | SingletonInit.cfg | 2 singletons, 2 background tasks, 2 chunks: waiters are counted and flights removed, one initialisation at a time, retries within the deadline; every initialisation and every foreground request ends, who waits for a singleton that came up gets it |
| `handlers` | HandlerBindings.cfg | a process with 2 files, 2 tasks, 2 chunks: references are those of owners, a descriptor is open exactly while it is owned, writes keep their turn |
| `chunk_session` | ChunkSession.cfg | 2 chunks of up to 2 items, 3 pids: the image is what was committed, sessions in step but for the dbg templates, live ids not reissued, plan up |
| `repl_engine` | ReplEngine.cfg | 4 lines of up to 2 items with a preload: every function calls what it was written to call, the four sessions agree at the prompt, a reload rebuilds or restores |
| `tui_session` | TuiSession.cfg | lists belong to mode, the scope last handed over and request; requests are answered, leaving joins the worker |
| `artifact_cache` | ArtifactCache.cfg | 3 processes, 3 paths, 2 keys, 2 blocks: a hit is one's own artifact unless another key's is copied over it while it is read without the lock, published files are whole, nobody builds what is there, faults heal, everybody ends |
| `finished_once` | FinishedOnce.cfg | *violated*: an execution may be finished twice |
| `uses_reach_latest` | UsesReachLatest.cfg | *violated*: a call of a redefined generic function may reach the old definition |

Each violated property states a sentence of the documentation or a comment;
`findings` in `PROJECT.json` quotes it.  In `uses_reach_latest` the user
defines a generic `g` and a `t` that calls it, shadows `g` with a value,
defines `g` again, and enters a line that calls `t` and then `g` at one type:
`t` makes an instance of the old `g`, which the cache, keyed by a unique id
that old and new `g` share, returns for the new one.

### Other divergences

Met while modelling, each between the code and a sentence about it.  The models
follow the code; no run is spent on them, and the properties say what they
leave out.

* A failed push leaves the chunk's `dbg_templates` in the image:
  `rollback_to_checkpoint` cuts every other table.  The Forge session has rolled
  its base back, so every later chunk is refused ("Chunk dbg template base
  mismatch").  `docs/dev/EldrVM_spec.md:123` says that a failed push does not
  change the VM.  `ImageIsCommitted` leaves out this table; `SessionInStep` says
  how far it may drift, and that no chunk runs on wrong bases.
* A failed boot restores the allocator of pids, against
  `docs/dev/EldrVM_spec.md:166`.  Handles are compared by identity, so an old
  one is refused; only the number is used again.
* `execute_chunk` does not append a chunk's `supervisor_overrides` to the boot
  plan, which `extend_runtime_boot_plan` in Forge does
  (`docs/dev/ProcessRuntime_spec.md:899`).
* In the TUI, Tab applies the visible list also to an input edited since it was
  computed (`ui/tui/update.rs:195`; the test at `update.rs:464` says stale
  completions should not overwrite newer input).
* An init that fails while the REPL pumps background tasks leaves its flight
  behind: the error ends the pump before the flight is tidied.  Later requests
  join it; those in the foreground end with an error (`RequestsEnd`), those in
  the background wait.
* A generic name redefined as an ordinary function may later be given the index
  of an instance of its old version, which carries the same name.  In the model
  a name stays generic or ordinary.
* `:reload` does not bring back definitions entered on a line with other
  statements, and fails with "Duplicate top-level definition" when a name was
  shadowed and defined again, or when a preload script has a definition after
  its first other statement (`docs/dev/Xldr_spec.md:217` and `:243`).
  `ReloadRebuilds` speaks of the lines that were kept.

Seen on the way: the TUI's command list offers `vars`, `imported`, `defs`,
`history`, `reload` and `clear` (`ui/tui/update.rs:130`), which
`submit_command` answers with "unknown command"; the plain line REPL takes an
empty line for the end of input (`ui/cli.rs:737`).

A refill that fails leaves its set short.  After a trap the next member that
stops starts another (`remove_worker_from_sets`, `vm.rs:2950`, is the only place
that does), unless none is left.  After an `Err`, or when the worker's handler
bindings cannot be opened, the set is never refilled again: a standalone task
has no call site, so building the error value fails (`language_error_outcome`,
`vm.rs:3505`) and the `?` in `process_continuation.rs:526` passes by the line
that clears the flag.  `docs/dev/ProcessRuntime_spec.md:658` has the target
restored without a reconcile loop in user code.

After a `:reload`, typed with a blank before it, the completion worker keeps the
scope of the engine that was replaced: the new engine's cache is empty
(`core.rs:986`) and only a full one is renewed (`core.rs:2817`).  `ScopeAsSent`
speaks of the scope last handed over.

The snapshot of the standard library is looked at first without the lock
(`xldr/src/lib.rs:845`).  Where a rename fails and a build of another version is
copied over the file meanwhile (`lib.rs:998`), the reader may put together the
first blocks of one artifact and the last ones of another, and checks no more
than schema and key; two lockless copies may leave such a file behind.
`HitIsOwn` and `FaultsHeal` name these cases and hold in all others.

### Bounds

* Lifecycle: two executions are enough for one to fail while the other is in
  any stage, to stop a process while it is called, and for a process to call
  another; a second client makes queues of callers and competing rounds.
* Worker pool: five pids let a set of two lose a member, lose another during
  the refill, and have a single worker beside it.  The liveness run has four
  pids and no symmetry: a set of two that is refilled twice.
* Singletons: two make a circle of inits and a self-request; two tasks, one of
  them with a deadline, join a flight and are cancelled from it; a time-out of
  2 with delays of 0, 1, 2 and 3 puts retries before, at and past the deadline;
  a second chunk comes after a rollback.
* Handlers: three sinks and three contexts let a file be closed and opened
  again under a new identity and a binding be shared and derived; two tasks are
  a writer and one that waits, or an execution and a task that outlives it.
* Chunks: two pushes after the loaded image cover fail-then-push and
  push-then-replace; two items per chunk cover a table together with a boot
  entry or a function.
* REPL: four lines of two items suffice to define, shadow, redefine and call;
  an ordinary function calls a generic one, which calls an ordinary one.  The
  violated run has two generic functions instead.  `StdTemplates`, the number
  of generic definitions loaded before the first line, is 12, more than the
  functions a session of this size emits, as in the real library.
  `SessionsAgree` fails with 1: two instances of one template made at a table
  position that is also the old number of an instance put that instance in the
  template's place.  So a session that emits more functions than the library
  has templates may get there; shorter ones do not.
* TUI: four generations are a cancelled, a replaced and an answered request with
  a new scope between; `generation` saturates only at 2^64 in the code.  Three
  scopes are the first one, a committed one and one after a reload.
* Caches: three processes are a holder, one that waits and one that comes later
  or ignores the lock; two blocks are the least that can be torn.  None, one or
  two of the renames fail, on the shared path for both keys or for one.  The
  proofs cover every number.

Deadlock is not checked: processes may all be stopped, chunks or lines used up,
the REPL or the TUI left, every cache user done, and then nothing is to be done.

### Fairness

* Lifecycle: weak fairness of the driver (one thread that keeps running) and
  strong fairness of a task's progress: handlers and clients return if given
  turns for ever.  A handler that loops for ever would keep its process, as in
  the code.
* Worker pool: weak fairness of each set's refill: a ready detached task is
  resumed and an init callback ends, one way or the other.
* Singletons: weak fairness of time, of the foreground's wait, of each init
  task, waiter and unwinding, and of tasks ending.  Callbacks owe nothing: an
  init that never returns is ended by its deadline.
* TUI: weak fairness of the UI loop (`event::poll` returns after 100 ms) and of
  the worker thread.  Keys are never forced.
* Caches: weak fairness of each process's own steps: the operating system runs
  everybody.  Faults are never forced.

## 4. Proofs

Checked by TLAPS for every value of the constants.

* **PoolCreationProofs, PoolRequestProofs, WorkerPoolProofs.** The first
  begins with the contract: `ContractInv` (types, `ReclaimedOnTime`,
  `OneTarget`) is inductive as it stands and gives `Reclamation`,
  `RequestsHaveOneTarget` and `NeverReopened`.  The rest is one argument about
  worker pools, split by kind of action.  `PoolInv` adds to types, contract
  invariant, `MembersAreLive`, `TargetKept` and `ChildTableExact` two facts.
  `Reach`: what user code, sets and broadcasts name has been allocated, so a
  fresh worker is nobody's member.  `Sizes`: how far a set under construction
  or refill may be; a refill task has the set's flag, so there is at most one,
  which keeps the target from being exceeded, and a flag without a task is that
  of a refill that failed.  There is one lemma per action; `WithoutFacts`
  says what removal does to a list.  `MembersSafe`, `TargetSafe`,
  `ChildTableSafe`, and `PoolImplementsContract`: every pool step is a step of
  the contract, so the contract's theorems hold of every worker.
* **ChunkSessionProofs.** `AllocatorInv` orders the three allocators (before
  the push, before the boot, now) and puts every process below its allocator;
  the order is what makes restoring an older runtime safe.  `LiveIdsSafe`,
  `HighWaterSafe`.
* **TuiSessionProofs.** `TuiInv` adds types and three facts to the properties.
  `Below`: nothing under way is newer than the controller's generation.
  `CurrentIsLast`: what carries the current generation is the last request,
  asked in insert mode with tab completion on and computed in the scope handed
  over last.  `ScopeOnItsWay`: while the engine's cache is full, that scope is
  the engine's.  Cancelling makes
  everything under way old, after which a handler may change mode, input and
  scope (`QuietKeeps`).  `ListSafe`, `ScopeSafe`, `AnswerSafe`.
* **ArtifactCacheTypes, ArtifactReadProofs, ArtifactBuildProofs.** Types and
  who holds a lock (`CacheTypes`).  `Owned`: a path and a descriptor lead to a
  file made for that path.  `Published`: what is linked has been stored, and
  until a crash or a copy it is whole (`PublishedIsWhole`).  `Looked`: who builds alone under
  the lock has seen that the artifact is missing, and nobody else can have put
  it there since (`BuildsAreNeeded`).  `Pure`: where the copies to a path are of
  one key, or all lock calls succeed, a file holds blocks of one key, because a
  copy begins by cutting it; and a reader whose first block is its own reads on
  in its own artifact unless another key's is copied.  With the key check, the
  names of the other paths, and `Looked` for reads under the lock, this is
  `HitsAreOwn`.  Each part is proved inductive from the
  ones before it; together they are `CacheInv`.

Assumptions are those named in the modules: bounds are natural numbers, special
values differ from ordinary ones, worker strategies are integers (negative ones
included; `decode_worker_strategy` refuses them), and for the caches that all
paths but the shared ones are named after keys.

Only model-checked: liveness under fairness and anything about ENABLED, which
TLAPS does not treat here; everything about `ProcessLifecycle`, its refinement
of the contract included; `SingletonInit` and `HandlerBindings`;
`BroadcastCovers` and `FaultsHeal`; of `ChunkSession` all but the allocator; and
`ReplEngine`, whose RECURSIVE operator keeps it from the prover.  No induction
over data is used.  The types of worker pools, TUI and caches are proved and
not checked again by TLC.

## 5. Not modelled

The modules stand for about 5,900 of the roughly 235,000 lines of
implementation: most of the concurrent and stateful core, and a small part of the
whole.  The rest is left out for these reasons.

* **Functions over unbounded data**: parser, name resolution, type inference,
  lowering to opcodes, the opcodes themselves, the builtins, formatting of
  diagnostics.  A small instance would be a toy grammar or type system, and
  what such code gets wrong depends on the shape of large inputs; the state
  Sigil, Scar and Forge keep between lines is in `ReplEngine`.
* **One thread, one call after another**: the loader and project runner, Rune's
  commands, the analysis service and the language server.  Their order of steps
  is their text.
* **The parse cache** (`crates/surtr-analysis/src/parse_cache.rs`) parses
  between two critical sections, but an entry is reused only after comparing
  the complete input under the lock, so the race costs at most a second parse.
* **The line REPL**: a thread reads stdin into a channel that a loop polls
  between background deadlines.  What the loop drives is in `ReplEngine`,
  `SingletonInit` and `TuiSession`.
* **Future combinators, sleeping, the order of the deadline queue, remote
  process contexts, cleanups that run user code inside the driver**: the last
  of these hides the result of a future until the cleanup has ended, a hazard
  no property covers.  They need values of user code in the state of every
  task, and the lifecycle instance is at the limit of what TLC explores without
  them.
* **The standard library in Surtr and the editor extensions**: not Rust; they
  use the builtins and the language server.
