----------------------------- MODULE TuiSession -----------------------------
(***************************************************************************)
(* The terminal UI of the REPL and its completion worker: two threads, a   *)
(* mailbox under a mutex and a condition variable                          *)
(* (crates/xldr/src/repl/ui/completion.rs, ui/tui/mod.rs, ui/tui/update.rs *)
(* and ui/tui/app.rs).  The UI thread polls results, draws and handles one *)
(* key; the worker takes the newest request and the newest completion      *)
(* context, computes candidates without holding the lock and queues them.  *)
(*                                                                         *)
(* A position stands for a text with its cursor, a context for a version   *)
(* of the engine's scope.  Results, docs and scrolling are left out.       *)
(***************************************************************************)
EXTENDS Integers, Sequences

CONSTANTS
  Position,      \* (text, cursor) pairs of the input buffer
  NoPosition,
  Empty,         \* the empty buffer
  Start,         \* positions whose cursor is at 0
  Blank,         \* positions whose text is empty when trimmed
  Askable,       \* positions for which should_request holds
  Typed,         \* command texts the user enters
  NoText,        \* the empty one of them
  MaxGeneration, \* bound on current_generation
  MaxContext     \* bound on the versions of the scope

ASSUME TuiAssumption ==
  /\ Empty \in Position /\ Empty \in Blank /\ NoPosition \notin Position
  /\ Start \subseteq Position /\ Blank \subseteq Position /\ Askable \subseteq Position
  /\ NoText \in Typed
  /\ MaxGeneration \in Nat /\ MaxContext \in Nat

VARIABLES
  ui,         \* where run_loop is
  focus,      \* app.focus
  mode,       \* app.input_mode
  tab,        \* app.tab_completion_mode
  input,      \* app.input
  command,    \* app.command
  shown,      \* what kind of list app.completion shows
  shownFor,   \* the result behind a list of candidates
  generation, \* completion_controller.current_generation
  requested,  \* completion_controller.last_requested
  visible,    \* completion_controller.visible_generation, 0 for None
  scope,      \* version of the engine's scope
  cache,      \* the version in completion_context_cache, 0 for None
  pending,    \* mailbox.pending
  nextScope,  \* mailbox.pending_context, 0 for None
  ready,      \* mailbox.ready
  closed,     \* mailbox.closed
  worker,     \* where worker_loop is
  job,        \* the request being computed
  known       \* the worker's context

appVars == <<focus, mode, tab, input, command>>
listVars == <<shown, shownFor>>
controlVars == <<generation, requested, visible>>
engineVars == <<scope, cache>>
boxVars == <<pending, nextScope, ready, closed>>
workerVars == <<worker, job, known>>
vars == <<ui, appVars, listVars, controlVars, engineVars, boxVars, workerVars>>

Requests == [key : Position \cup {NoPosition}, gen : Nat]
Results == [key : Position \cup {NoPosition}, gen : Nat, scope : Nat]

\* Generations start at 1, so 0 marks that there is none.
NoRequest == [key |-> NoPosition, gen |-> 0]
NoResult == [key |-> NoPosition, gen |-> 0, scope |-> 0]

TypeOK ==
  /\ ui \in {"Poll", "Event", "Closing", "Joining", "Gone"}
  /\ focus \in {"Input", "Results", "Docs"} /\ mode \in {"Insert", "Command"}
  /\ tab \in BOOLEAN /\ closed \in BOOLEAN
  /\ input \in Position /\ command \in Typed
  /\ shown \in {"None", "Input", "Command"} /\ shownFor \in Results
  /\ generation \in Nat /\ requested \in Position \cup {NoPosition} /\ visible \in Nat
  /\ scope \in Nat /\ cache \in Nat /\ nextScope \in Nat /\ known \in Nat
  /\ pending \in Requests /\ job \in Requests /\ ready \in Seq(Results)
  /\ worker \in {"Checking", "Waiting", "Computing", "Done"}

\* run_loop builds and caches the engine's context and hands it to the worker.
Init ==
  /\ ui = "Poll" /\ focus = "Input" /\ mode = "Insert" /\ tab = FALSE
  /\ input = Empty /\ command = NoText /\ shown = "None" /\ shownFor = NoResult
  /\ generation = 0 /\ requested = NoPosition /\ visible = 0 /\ scope = 1 /\ cache = 1
  /\ pending = NoRequest /\ nextScope = 0 /\ ready = <<>> /\ closed = FALSE
  /\ worker = "Checking" /\ job = NoRequest /\ known = 1

-----------------------------------------------------------------------------
\* The commands the completion list of the input pane offers.
Advertised == {"q", "help", "doc", "error", "stacktrace", "sig", "info", "type", "facet", "save",
               "vars", "imported", "defs", "history", "reload", "clear", "v"}

\* The commands submit_command passes on to the engine.
EngineCommands == {"help", "save", "doc", "error", "stacktrace", "sig", "info", "type", "facet", "v"}

\* command_completions for a whole name: of two names only "v" and "vars"
\* share a prefix.
Candidates(text) == {name \in Advertised : text \in {NoText, name} \/ <<text, name>> = <<"v", "vars">>}

\* notify_one wakes the worker if it waits.
Notify == worker' = IF worker = "Waiting" THEN "Checking" ELSE worker

\* cancel_pending: whatever is under way is out of date now.
Cancel ==
  /\ generation < MaxGeneration
  /\ generation' = generation + 1
  /\ requested' = NoPosition
  /\ visible' = 0

\* Mutant: the request reuses the current generation.
SubmitSameGeneration(key) ==
  IF key = requested
  THEN UNCHANGED <<controlVars, pending, worker>>
  ELSE /\ requested' = key
       /\ pending' = [key |-> key, gen |-> generation]
       /\ Notify
       /\ UNCHANGED <<generation, visible>>

\* Mutant: the worker is not woken.
SubmitSilently(key) ==
  IF key = requested
  THEN UNCHANGED <<controlVars, pending, worker>>
  ELSE /\ generation < MaxGeneration
       /\ generation' = generation + 1
       /\ requested' = key
       /\ pending' = [key |-> key, gen |-> generation + 1]
       /\ UNCHANGED <<visible, worker>>

\* submit_if_changed: a new request replaces the one the worker has not
\* taken yet.
Submit(key) ==
  IF key = requested
  THEN UNCHANGED <<controlVars, pending, worker>>
  ELSE /\ generation < MaxGeneration
       /\ generation' = generation + 1
       /\ requested' = key
       /\ pending' = [key |-> key, gen |-> generation + 1]
       /\ Notify
       /\ UNCHANGED visible

\* The engine commits a line: a cached context is built anew, none is built
\* where there was none.
Commit ==
  /\ scope < MaxContext
  /\ scope' = scope + 1
  /\ cache' = IF cache = 0 THEN 0 ELSE scope'

\* :reload installs an engine that has not been asked for a context yet.
Reload ==
  /\ scope < MaxContext
  /\ scope' = scope + 1
  /\ cache' = 0

\* After the engine has handled a line: schedule_context_refresh with the
\* cached context, if there is one.
Schedule ==
  IF cache' # 0 THEN nextScope' = cache' /\ Notify ELSE UNCHANGED <<nextScope, worker>>

CommandList(text) == shown' = IF Candidates(text) # {} THEN "Command" ELSE "None"

\* refresh_completion, after the handler has set mode, tab and the buffers.
Refresh ==
  /\ IF mode' = "Command"
     THEN CommandList(command') /\ UNCHANGED <<controlVars, pending, worker>>
     ELSE IF ~ tab'
     THEN shown' = "None" /\ UNCHANGED <<controlVars, pending, worker>>
     ELSE IF input' \in Askable
     THEN Submit(input') /\ UNCHANGED shown
     ELSE Cancel /\ shown' = "None" /\ UNCHANGED <<pending, worker>>
  /\ UNCHANGED <<shownFor, engineVars, nextScope, ready, closed, job, known>>

-----------------------------------------------------------------------------
\* poll_completion, one result: only one of the current generation is
\* accepted, and an answer without candidates or signature hides the list.
PollOne ==
  /\ ui = "Poll" /\ ready # <<>>
  /\ ready' = Tail(ready)
  /\ IF Head(ready).gen = generation
     THEN /\ visible' = generation
          /\ \E kind \in {"None", "Input"} : shown' = kind
          /\ shownFor' = Head(ready)
     ELSE UNCHANGED <<visible, listVars>>
  /\ UNCHANGED <<ui, appVars, generation, requested, engineVars, pending, nextScope, closed, workerVars>>

PollDone ==
  /\ ui = "Poll" /\ ready = <<>>
  /\ ui' = "Event"
  /\ UNCHANGED <<appVars, listVars, controlVars, engineVars, boxVars, workerVars>>

\* The 100 ms pass, or an event comes that changes nothing modelled here:
\* a resize, Up and Down, Esc with nothing to close, Enter on a blank line.
Idle ==
  /\ ui = "Event"
  /\ ui' = "Poll"
  /\ UNCHANGED <<appVars, listVars, controlVars, engineVars, boxVars, workerVars>>

\* Ctrl-C, or reading the terminal fails: run_loop is left.
Leave ==
  /\ ui = "Event"
  /\ ui' = "Closing"
  /\ UNCHANGED <<appVars, listVars, controlVars, engineVars, boxVars, workerVars>>

\* A key for the input pane.
Key == ui = "Event" /\ focus = "Input"

\* Tab on a visible list: Completion::apply, with an item or with none.
ApplyKey ==
  /\ Key /\ shown # "None"
  /\ IF mode = "Insert"
     THEN /\ input' \in Position
          /\ UNCHANGED command
     ELSE /\ command' \in Candidates(command) \cap Typed
          /\ UNCHANGED input
  /\ shown' = "None"
  /\ ui' = "Poll"
  /\ UNCHANGED <<focus, mode, tab, shownFor, controlVars, engineVars, boxVars, workerVars>>

\* Tab without a list asks for one.
TabKey ==
  /\ Key /\ shown = "None" /\ mode = "Insert"
  /\ tab' = TRUE
  /\ UNCHANGED <<focus, mode, input, command>>
  /\ Refresh
  /\ ui' = "Poll"

\* Tab and BackTab wherever they change the pane.
FocusKey ==
  /\ ui = "Event"
  /\ focus' \in {"Input", "Results", "Docs"} \ {focus}
  /\ focus = "Input" /\ focus' = "Results" => shown = "None" /\ mode = "Command"
  /\ ui' = "Poll"
  /\ UNCHANGED <<mode, tab, input, command, listVars, controlVars, engineVars, boxVars, workerVars>>

\* Left, Right, Backspace and the characters that are inserted.
EditKey ==
  /\ Key
  /\ IF mode = "Insert" THEN input' \in Position /\ UNCHANGED command
                        ELSE command' \in Typed /\ UNCHANGED input
  /\ UNCHANGED <<focus, mode, tab>>
  /\ Refresh
  /\ ui' = "Poll"

\* Mutant: Esc forgets what is under way.
EscKeyKeepsPending ==
  /\ Key /\ mode = "Insert" /\ (tab \/ shown # "None")
  /\ tab' = FALSE
  /\ shown' = "None"
  /\ ui' = "Poll"
  /\ UNCHANGED <<focus, mode, input, command, shownFor, controlVars, engineVars, boxVars, workerVars>>

\* Esc in insert mode.
EscKey ==
  /\ Key /\ mode = "Insert" /\ (tab \/ shown # "None")
  /\ tab' = FALSE
  /\ shown' = "None"
  /\ Cancel
  /\ ui' = "Poll"
  /\ UNCHANGED <<focus, mode, input, command, shownFor, engineVars, boxVars, workerVars>>

\* ":" at the start of the line.
ColonKey ==
  /\ Key /\ mode = "Insert" /\ input \in Start
  /\ mode' = "Command" /\ command' = NoText /\ tab' = FALSE
  /\ Cancel
  /\ CommandList(NoText)
  /\ ui' = "Poll"
  /\ UNCHANGED <<focus, input, shownFor, engineVars, boxVars, workerVars>>

\* What leaves command mode: Esc, a second ":" and Enter.
BackToInsert ==
  /\ Key /\ mode = "Command"
  /\ mode' = "Insert" /\ command' = NoText /\ tab' = FALSE
  /\ shown' = "None"
  /\ Cancel
  /\ UNCHANGED <<focus, input, shownFor, engineVars, pending, ready, closed, job, known>>

LeaveCommandKey ==
  /\ BackToInsert
  /\ ui' = "Poll"
  /\ UNCHANGED <<nextScope, worker>>

\* Enter in command mode: submit_command.  The commands of the other panes
\* and unknown ones change nothing modelled here.
CommandKey ==
  /\ BackToInsert /\ command # NoText
  /\ \/ /\ command \in {"q", "quit"}
        /\ ui' = "Closing"
        /\ UNCHANGED <<nextScope, worker>>
     \/ /\ command \in EngineCommands
        /\ Schedule
        /\ ui' \in {"Poll", "Closing"}
     \/ /\ command \notin {"q", "quit"} \cup EngineCommands
        /\ ui' = "Poll"
        /\ UNCHANGED <<nextScope, worker>>

\* Enter in insert mode: submit_input.  The engine may commit the line, and
\* with it a new scope, may reload (a ":" after a blank is text), and may ask
\* to exit.
SubmitKey ==
  /\ Key /\ mode = "Insert" /\ input \notin Blank
  /\ input' = Empty /\ tab' = FALSE
  /\ shown' = "None"
  /\ Cancel
  /\ Commit \/ Reload \/ UNCHANGED engineVars
  /\ Schedule
  /\ ui' \in {"Poll", "Closing"}
  /\ UNCHANGED <<focus, mode, command, shownFor, pending, ready, closed, job, known>>

\* Mutant: the worker is not woken to see that the mailbox is closed.
CloseSilently ==
  /\ ui = "Closing"
  /\ closed' = TRUE
  /\ ui' = "Joining"
  /\ UNCHANGED <<appVars, listVars, controlVars, engineVars, pending, nextScope, ready, workerVars>>

\* Drop for BackgroundReplCompletionProvider.
Close ==
  /\ ui = "Closing"
  /\ closed' = TRUE
  /\ Notify
  /\ ui' = "Joining"
  /\ UNCHANGED <<appVars, listVars, controlVars, engineVars, pending, nextScope, ready, job, known>>

Join ==
  /\ ui = "Joining" /\ worker = "Done"
  /\ ui' = "Gone"
  /\ UNCHANGED <<appVars, listVars, controlVars, engineVars, boxVars, workerVars>>

-----------------------------------------------------------------------------
\* Mutant: a request is taken before a context that came with it.
WorkerCheckRequestFirst ==
  /\ worker = "Checking"
  /\ \/ /\ closed
        /\ worker' = "Done"
        /\ UNCHANGED <<pending, nextScope, job, known>>
     \/ /\ ~ closed /\ pending = NoRequest /\ nextScope = 0
        /\ worker' = "Waiting"
        /\ UNCHANGED <<pending, nextScope, job, known>>
     \/ /\ ~ closed /\ pending # NoRequest
        /\ pending' = NoRequest /\ job' = pending
        /\ worker' = "Computing"
        /\ UNCHANGED <<nextScope, known>>
     \/ /\ ~ closed /\ pending = NoRequest /\ nextScope # 0
        /\ known' = nextScope /\ nextScope' = 0
        /\ worker' = "Checking"
        /\ UNCHANGED <<pending, job>>
  /\ UNCHANGED <<ui, appVars, listVars, controlVars, engineVars, ready, closed>>

\* worker_loop with the lock held: the mailbox is looked at before waiting,
\* and context and request are taken together.
WorkerCheck ==
  /\ worker = "Checking"
  /\ \/ /\ closed
        /\ worker' = "Done"
        /\ UNCHANGED <<pending, nextScope, job, known>>
     \/ /\ ~ closed /\ pending = NoRequest /\ nextScope = 0
        /\ worker' = "Waiting"
        /\ UNCHANGED <<pending, nextScope, job, known>>
     \/ /\ ~ closed /\ (pending # NoRequest \/ nextScope # 0)
        /\ pending' = NoRequest /\ nextScope' = 0
        /\ job' = pending
        /\ known' = IF nextScope # 0 THEN nextScope ELSE known
        /\ worker' = IF pending # NoRequest THEN "Computing" ELSE "Checking"
  /\ UNCHANGED <<ui, appVars, listVars, controlVars, engineVars, ready, closed>>

\* Condition variables may wake up for no reason.
SpuriousWake ==
  /\ worker = "Waiting"
  /\ worker' = "Checking"
  /\ UNCHANGED <<ui, appVars, listVars, controlVars, engineVars, boxVars, job, known>>

WorkerPush ==
  /\ worker = "Computing"
  /\ ready' = Append(ready, [key |-> job.key, gen |-> job.gen, scope |-> known])
  /\ job' = NoRequest
  /\ worker' = "Checking"
  /\ UNCHANGED <<ui, appVars, listVars, controlVars, engineVars, pending, nextScope, closed, known>>

UiLoop == PollOne \/ PollDone \/ Idle \/ Close \/ Join

WorkerLoop == WorkerCheck \/ WorkerPush

Next ==
  \/ UiLoop \/ WorkerLoop \/ SpuriousWake
  \/ Leave \/ ApplyKey \/ TabKey \/ FocusKey \/ EditKey \/ EscKey \/ ColonKey
  \/ LeaveCommandKey \/ CommandKey \/ SubmitKey

Spec == Init /\ [][Next]_vars

\* event::poll returns after its timeout, and both threads are scheduled.
FairSpec == Spec /\ WF_vars(UiLoop) /\ WF_vars(WorkerLoop)

-----------------------------------------------------------------------------
(* Candidates for the input are on the screen only in insert mode with tab *)
(* completion on: an answer that arrives after Esc, Enter or ":" is never  *)
(* shown over what the user does then.                                     *)
ListBelongs == shown = "Input" => mode = "Insert" /\ tab

\* The context the worker has or takes with its next request.
Latest == IF nextScope # 0 THEN nextScope ELSE known

(* The candidates on the screen were computed in the context that the UI   *)
(* sent last, although the worker learns of it through the mailbox, and as *)
(* long as the engine caches its context that is the current scope: no     *)
(* list misses a binding of a line committed before it.  After :reload the *)
(* cache is empty, nothing is sent any more and every list comes from the  *)
(* scope before the reload.                                                *)
ScopeAsSent ==
  shown = "Input" => shownFor.scope = Latest /\ (cache # 0 => Latest = scope)

(* An answer accepted for the current generation answers the request that  *)
(* submit_if_changed remembers as the last one.                            *)
AnswerIsForRequest ==
  shown = "Input" /\ visible = generation => shownFor.key = requested

(* The worker thread is always joined: leaving the TUI never hangs on a    *)
(* worker that sleeps on the condition variable.                           *)
LeaveEnds == ui \in {"Closing", "Joining"} ~> ui = "Gone"

(* The last request is answered unless it is cancelled or replaced: no     *)
(* wake-up is lost between the check of the mailbox and the wait.          *)
RequestAnswered ==
  \A g \in 1..MaxGeneration :
    generation = g /\ requested # NoPosition
      ~> visible = g \/ generation # g \/ ui \notin {"Poll", "Event"}
=============================================================================
