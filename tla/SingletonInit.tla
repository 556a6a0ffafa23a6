--------------------------- MODULE SingletonInit ----------------------------
(***************************************************************************)
(* Initialisation of singleton processes on first use                      *)
(* (crates/eldr/src/vm/process_continuation.rs, start_singleton and        *)
(* SingletonInit, and wait_for_any_future of vm.rs).  Requests for one     *)
(* singleton share a flight: a future, the number of its waiters and a     *)
(* task that calls the process's init until it is ready, fails or the      *)
(* deadline passes.  Requests come from the chunk in the foreground (its   *)
(* boot plan and its body), from background tasks, and from inits, also    *)
(* of the singleton itself.                                                *)
(*                                                                         *)
(* An error that escapes a task reaches whoever drives the tasks.  A chunk *)
(* fails with it and the whole process runtime is restored from the        *)
(* checkpoint; the REPL's background pump only reports it.                 *)
(*                                                                         *)
(* A deadline is kept as the time left to it.  current_tick_ms belongs to  *)
(* the process runtime, so a rollback restores both ends of the interval.  *)
(***************************************************************************)
EXTENDS Naturals, FiniteSets, Sequences

CONSTANTS
  Names,          \* singleton processes
  Standby,        \* those whose init may answer Pending
  Tasks,          \* background tasks
  Timed,          \* those whose completion has a deadline
  Fg,             \* the chunk in the foreground
  Plan,           \* runtime_boot_plan.singletons
  BootTimeout,    \* init_timeout_ms of its entries
  DefaultTimeout, \* default_init_timeout_ms
  InitialRetry,   \* pending_initial_retry_ms
  MaxRetry,       \* pending_max_retry_ms
  Hints,          \* durations an init passes to PendingAfter
  MaxChunks,      \* bound on the chunks pushed
  NoName, NoFlight, NoCheckpoint

ASSUME SingletonAssumption ==
  /\ IsFiniteSet(Names) /\ IsFiniteSet(Tasks)
  /\ Standby \subseteq Names /\ Timed \subseteq Tasks /\ Plan \in Seq(Names)
  /\ Names \cap Tasks = {} /\ Fg \notin Names \cup Tasks
  /\ NoName \notin Names
  /\ NoFlight \notin [waiters : Nat, ready : BOOLEAN]
  /\ {BootTimeout, DefaultTimeout, InitialRetry, MaxRetry, MaxChunks} \cup Hints \subseteq Nat

\* Whoever can wait for a flight; the init callback of n is called n.
Requesters == Names \cup Tasks \cup {Fg}

VARIABLES
  runtime,    \* process_runtime, see TypeOK
  checkpoint, \* VmCheckpoint.process_runtime of the chunk being pushed
  chunk,      \* 0 between chunks, else the next entry of Plan, Len(Plan) + 1 in the body
  pushed      \* chunks pushed so far

vars == <<runtime, checkpoint, chunk, pushed>>

Smaller(a, b) == IF a <= b THEN a ELSE b

NoInit == [stage |-> "none", left |-> 0, retry |-> 0, sleep |-> 0]
Outside == [state |-> "off", on |-> NoName]

\* What an init callback can return: Ready(state) (or a plain state), Pending,
\* PendingAfter(d) or Err.
Outcomes == {<<"ready">>, <<"pending">>, <<"err">>} \cup {<<"after", d>> : d \in Hints}

InitRuntime ==
  [up |-> {}, failed |-> {},
   flight |-> [n \in Names |-> NoFlight],
   init |-> [n \in Names |-> NoInit],
   future |-> [n \in Names |-> <<"none">>],
   who |-> [r \in Requesters |-> Outside],
   expired |-> {}]

Init ==
  /\ runtime = InitRuntime
  /\ checkpoint = NoCheckpoint
  /\ chunk = 0
  /\ pushed = 0

Set(rt, r, s, n) == [rt EXCEPT !.who[r] = [state |-> s, on |-> n]]

\* Its completion future is settled by a deadline: the task is cancelled the
\* next time it is driven.
Cancelled(rt, r) ==
  \/ r \in rt.expired
  \/ r \in Names /\ rt.future[r] = <<"cancelled">>

Running(r) == runtime.who[r].state = "run" /\ ~Cancelled(runtime, r)

\* A future is visible once it is resolved and the task that produces it is gone.
CallbackVisible(rt, n) ==
  rt.future[n] \notin {<<"none">>, <<"running">>} /\ rt.who[n].state = "off"

\* The singleton task of n has something to do.
InitReady(rt, n) ==
  \/ rt.init[n].stage = "start"
  \/ rt.init[n].stage = "callback" /\ CallbackVisible(rt, n)
  \/ rt.init[n].stage = "sleep" /\ rt.init[n].sleep = 0

FlightReady(rt, n) == rt.flight[n] # NoFlight /\ rt.flight[n].ready

Waits(r) == runtime.who[r].state = "await"
Awake(r) == Waits(r) /\ FlightReady(runtime, runtime.who[r].on)

\* An error leaves the driver of the tasks: the chunk rolls back, the
\* background pump keeps what the failing task left behind.
FailWith(rt) ==
  /\ runtime' = IF chunk = 0 THEN rt ELSE checkpoint
  /\ chunk' = 0
  /\ checkpoint' = NoCheckpoint
  /\ UNCHANGED pushed

Continue(rt) == runtime' = rt /\ UNCHANGED <<checkpoint, chunk, pushed>>

-----------------------------------------------------------------------------
(* start_singleton and the flight *)

Join(rt, r, n) == [Set(rt, r, "await", n) EXCEPT !.flight[n].waiters = @ + 1]

Start(rt, r, n, timeout) ==
  [Set(rt, r, "await", n) EXCEPT
     !.flight[n] = [waiters |-> 1, ready |-> FALSE],
     !.init[n] = [stage |-> "start", left |-> timeout, retry |-> InitialRetry, sleep |-> 0]]

\* A request that finds the singleton down: it joins the flight or starts one.
Request(rt, r, n, timeout) ==
  IF rt.flight[n] # NoFlight THEN Join(rt, r, n) ELSE Start(rt, r, n, timeout)

\* Mutant: the last one to leave removes the flight, resolved or not.
ReleaseEarly(rt, n) ==
  LET left == rt.flight[n].waiters - 1 IN
  [rt EXCEPT !.flight[n] = IF left = 0 THEN NoFlight ELSE [@ EXCEPT !.waiters = left]]

\* release_singleton_waiter: the last one to leave a resolved flight removes it.
Release(rt, n) ==
  LET left == rt.flight[n].waiters - 1 IN
  [rt EXCEPT !.flight[n] = IF left = 0 /\ @.ready THEN NoFlight ELSE [@ EXCEPT !.waiters = left]]

\* complete_runtime_task for a flight: resolved, and removed when abandoned.
Complete(rt, n) ==
  [rt EXCEPT !.init[n] = NoInit,
             !.flight[n] = IF @.waiters = 0 THEN NoFlight ELSE [@ EXCEPT !.ready = TRUE]]

\* r asks for n: nothing to do when it is up, an error when its boot failed.
Ask(r, n, timeout) ==
  /\ Running(r)
  /\ n \notin runtime.up
  /\ IF n \in runtime.failed
       THEN FailWith(Set(runtime, r, "off", NoName))
       ELSE Continue(Request(runtime, r, n, timeout))

TaskAsk(r) == r # Fg /\ \E n \in Names : Ask(r, n, DefaultTimeout)

\* Mutant: background waiters are not resumed.
ResumeForegroundOnly(r) ==
  /\ r = Fg /\ Awake(r)
  /\ runtime' = Set(Release(runtime, runtime.who[r].on), r, "run", NoName)
  /\ chunk' = IF chunk <= Len(Plan) THEN chunk + 1 ELSE chunk
  /\ UNCHANGED <<checkpoint, pushed>>

\* SingletonAwait resumes with the PID.
ResumeWaiter(r) ==
  /\ Awake(r) /\ ~Cancelled(runtime, r)
  /\ runtime' = Set(Release(runtime, runtime.who[r].on), r, "run", NoName)
  /\ chunk' = IF r = Fg /\ chunk <= Len(Plan) THEN chunk + 1 ELSE chunk
  /\ UNCHANGED <<checkpoint, pushed>>

\* Mutant: a cancelled waiter does not release its flight.
UnwindSilently(r) ==
  /\ Cancelled(runtime, r) /\ runtime.who[r].state # "off"
  /\ Continue([Set(runtime, r, "off", NoName) EXCEPT !.expired = @ \ {r}])

\* Cancellation unwinds the task's continuations: a SingletonAwait on the way
\* releases its flight.
Unwind(r) ==
  /\ Cancelled(runtime, r) /\ runtime.who[r].state # "off"
  /\ LET who == runtime.who[r]
         rt == IF who.state = "await" THEN Release(runtime, who.on) ELSE runtime
     IN Continue([Set(rt, r, "off", NoName) EXCEPT !.expired = @ \ {r}])

-----------------------------------------------------------------------------
(* The task of a flight: SingletonInit::resume *)

Timeout(n) == FailWith([runtime EXCEPT !.failed = @ \cup {n}, !.init[n] = NoInit,
                                       !.future[n] = <<"none">>])

StartCallback(n) ==
  Continue([Set(runtime, n, "run", NoName) EXCEPT
              !.init[n].stage = "callback", !.future[n] = <<"running">>])

\* Mutant: the delay is not cut at the deadline.
DelayPastDeadline(i, outcome) ==
  IF outcome = <<"pending">> THEN Smaller(i.retry, MaxRetry) ELSE outcome[2]

\* Pending doubles the delay up to the maximum; no delay passes the deadline.
Delay(i, outcome) ==
  Smaller(IF outcome = <<"pending">> THEN Smaller(i.retry, MaxRetry) ELSE outcome[2], i.left)

Retry(i, outcome) ==
  LET delay == Delay(i, outcome) IN
  [i EXCEPT !.stage = IF delay = 0 THEN "start" ELSE "sleep",
            !.sleep = delay,
            !.retry = IF outcome = <<"pending">> THEN Smaller(2 * @, MaxRetry) ELSE @]

Receive(n) ==
  LET outcome == runtime.future[n]
      rt == [runtime EXCEPT !.future[n] = <<"none">>]
  IN CASE outcome = <<"ready">> -> Continue(Complete([rt EXCEPT !.up = @ \cup {n}], n))
       [] outcome = <<"err">> ->
            FailWith([rt EXCEPT !.failed = @ \cup {n}, !.init[n] = NoInit])
       [] OTHER -> Continue([rt EXCEPT !.init[n] = Retry(@, outcome)])

\* Mutant: the deadline is not looked at.
ResumeInitNoDeadline(n) ==
  /\ InitReady(runtime, n)
  /\ IF runtime.init[n].stage = "callback" /\ runtime.future[n] # <<"cancelled">>
       THEN Receive(n)
       ELSE StartCallback(n)

ResumeInit(n) ==
  /\ InitReady(runtime, n)
  /\ IF runtime.init[n].left = 0 THEN Timeout(n)
     ELSE IF runtime.init[n].stage = "callback" THEN Receive(n)
     ELSE StartCallback(n)

-----------------------------------------------------------------------------
(* Init callbacks and background tasks *)

\* The callback returns: its completion future is resolved.
CallbackReturn(n) ==
  /\ Running(n)
  /\ \E o \in Outcomes :
       /\ n \in Standby \/ o \in {<<"ready">>, <<"err">>}
       /\ Continue([Set(runtime, n, "off", NoName) EXCEPT !.future[n] = o])

\* A task or callback raises a runtime error; a callback's future stays
\* running and falls due at the deadline.
Raise(r) ==
  /\ r # Fg /\ Running(r)
  /\ FailWith(Set(runtime, r, "off", NoName))

Finish(t) == Running(t) /\ Continue(Set(runtime, t, "off", NoName))

\* The deadline of a timed task passes.
Expire(t) ==
  /\ t \notin runtime.expired /\ runtime.who[t].state # "off"
  /\ Continue([runtime EXCEPT !.expired = @ \cup {t}])

\* poll_runtime_deadlines: time passes, due init callbacks are cancelled.
Less(x) == IF x = 0 THEN 0 ELSE x - 1

Due(rt) ==
  [rt EXCEPT !.init = [n \in Names |-> [rt.init[n] EXCEPT !.left = Less(@), !.sleep = Less(@)]],
             !.future = [n \in Names |->
                           IF rt.future[n] = <<"running">> /\ rt.init[n].left <= 1
                             THEN <<"cancelled">> ELSE rt.future[n]]]

HasDeadline(rt) ==
  \/ \E n \in Names : rt.future[n] = <<"running">> \/ rt.init[n].sleep > 0
  \/ \E t \in Timed : rt.who[t].state # "off" /\ t \notin rt.expired

Tick == Due(runtime) # runtime /\ Continue(Due(runtime))

-----------------------------------------------------------------------------
(* The foreground *)

\* push_atomic: checkpoint, earlier boot failures forgotten, the plan booted again.
StartChunk ==
  /\ chunk = 0 /\ pushed < MaxChunks
  /\ checkpoint' = runtime
  /\ runtime' = [Set(runtime, Fg, "run", NoName) EXCEPT !.failed = {}]
  /\ chunk' = 1
  /\ pushed' = pushed + 1

Boot ==
  /\ chunk \in 1..Len(Plan) /\ Running(Fg)
  /\ \/ Ask(Fg, Plan[chunk], BootTimeout)
     \/ /\ Plan[chunk] \in runtime.up
        /\ chunk' = chunk + 1
        /\ UNCHANGED <<runtime, checkpoint, pushed>>

InBody == chunk = Len(Plan) + 1 /\ Running(Fg)

BodyAsk == InBody /\ \E n \in Names : Ask(Fg, n, DefaultTimeout)

Launch(t) ==
  /\ InBody /\ runtime.who[t].state = "off"
  /\ Continue(Set(runtime, t, "run", NoName))

EndChunk ==
  /\ InBody
  /\ runtime' = Set(runtime, Fg, "off", NoName)
  /\ chunk' = 0
  /\ checkpoint' = NoCheckpoint
  /\ UNCHANGED pushed

FailChunk == InBody /\ FailWith(runtime)

\* has_runnable_background_work
Runnable(rt) ==
  \/ \E n \in Names : InitReady(rt, n)
  \/ \E r \in Names \cup Tasks :
       /\ rt.who[r].state # "off"
       /\ rt.who[r].state = "run" \/ Cancelled(rt, r) \/ FlightReady(rt, rt.who[r].on)

\* wait_for_any_future: nothing runs and nothing is due, so the wait is an error.
Suspended ==
  /\ Waits(Fg) /\ ~Awake(Fg)
  /\ ~Runnable(runtime) /\ ~HasDeadline(runtime)
  /\ FailWith(runtime)

Next ==
  \/ StartChunk \/ Boot \/ BodyAsk \/ EndChunk \/ FailChunk \/ Suspended \/ Tick
  \/ \E n \in Names : ResumeInit(n) \/ CallbackReturn(n)
  \/ \E t \in Tasks : Launch(t) \/ Finish(t)
  \/ \E t \in Timed : Expire(t)
  \/ \E r \in Requesters : TaskAsk(r) \/ ResumeWaiter(r) \/ Unwind(r) \/ Raise(r)

\* Tasks are driven in rounds that give every ready one its turn, the clock
\* moves past every deadline, and background code ends or waits.  The init
\* callbacks owe nothing.
Fairness ==
  /\ WF_vars(Tick) /\ WF_vars(Suspended)
  /\ \A n \in Names : WF_vars(ResumeInit(n))
  /\ \A t \in Tasks : WF_vars(Finish(t) \/ Raise(t))
  /\ \A t \in Timed : WF_vars(Expire(t))
  /\ \A r \in Requesters : WF_vars(ResumeWaiter(r)) /\ WF_vars(Unwind(r))

Spec == Init /\ [][Next]_vars
FairSpec == Spec /\ Fairness

-----------------------------------------------------------------------------
(* Properties *)

Flights == {NoFlight} \cup [waiters : Nat, ready : BOOLEAN]
Times == 0..(BootTimeout + DefaultTimeout)
InitStages == {"none", "start", "callback", "sleep"}
Runtimes ==
  [up : SUBSET Names, failed : SUBSET Names,
   flight : [Names -> Flights],
   init : [Names -> [stage : InitStages, left : Times, retry : Nat, sleep : Nat]],
   future : [Names -> Outcomes \cup {<<"none">>, <<"running">>, <<"cancelled">>}],
   who : [Requesters -> [state : {"off", "run", "await"}, on : Names \cup {NoName}]],
   expired : SUBSET Timed]

\* Values stay in their ranges: in particular no release takes a waiter that a
\* flight does not have ("singleton init waiter count underflow"), and a retry
\* is never scheduled past the deadline, which PendingAfter does not extend.
TypeOK ==
  /\ runtime \in Runtimes
  /\ checkpoint \in Runtimes \cup {NoCheckpoint}
  /\ chunk \in 0..(Len(Plan) + 1)
  /\ pushed \in 0..MaxChunks
  /\ \A n \in Names : runtime.init[n].sleep <= runtime.init[n].left

\* Everyone suspended in a SingletonAwait for n.
Waiting(rt, n) == {r \in Requesters : rt.who[r].state = "await" /\ rt.who[r].on = n}

\* release_singleton_waiter always finds a flight, and its count is the number
\* of those who have still to release it: across joins, resumptions,
\* cancellations, failing inits and rollbacks.  Once a singleton is up its
\* flight stays only for those who have not picked up the PID yet; the last of
\* them, or the completion itself, removes it.
FlightsAccounted ==
  \A n \in Names :
    IF runtime.flight[n] = NoFlight
      THEN Waiting(runtime, n) = {}
      ELSE /\ runtime.flight[n].waiters = Cardinality(Waiting(runtime, n))
           /\ runtime.flight[n].ready <=> n \in runtime.up
           /\ runtime.flight[n].ready => runtime.flight[n].waiters > 0

\* A singleton is initialised at most once: while its init runs it has no PID,
\* and its callback runs only for an init that is waiting for it.
OneInitialisation ==
  \A n \in Names :
    /\ runtime.init[n].stage # "none" =>
         n \notin runtime.up /\ runtime.flight[n] # NoFlight /\ ~runtime.flight[n].ready
    /\ runtime.who[n].state # "off" => runtime.init[n].stage = "callback"

\* Every initialisation ends, by success, failure, deadline or rollback, also
\* when inits wait for each other or for themselves and when a callback never
\* returns.
InitEnds == \A n \in Names :
  (runtime.init[n].stage # "none") ~> (runtime.init[n].stage = "none")

\* A request in the foreground ends with the PID or with an error, also when
\* the flight it joined has nobody left to complete it; and whoever waits for
\* a singleton that came up stops waiting.
RequestsEnd ==
  /\ Waits(Fg) ~> ~Waits(Fg)
  /\ \A r \in Requesters : Awake(r) ~> ~Awake(r)

=============================================================================
