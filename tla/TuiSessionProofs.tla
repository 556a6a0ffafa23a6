-------------------------- MODULE TuiSessionProofs --------------------------
(* Proofs about TuiSession, for any set of inputs and any bounds. *)
EXTENDS TuiSession, TLAPS

\* Nothing under way is newer than the controller's generation.
Below ==
  /\ pending.gen <= generation /\ job.gen <= generation /\ visible <= generation
  /\ \A i \in DOMAIN ready : ready[i].gen <= generation

\* The cache holds the engine's scope or nothing, and while it holds it the
\* worker has that scope, or takes it with its next request.
ScopeOnItsWay == scope # 0 /\ cache \in {0, scope} /\ (cache # 0 => Latest = scope)

\* Whatever carries the current generation was asked for in insert mode with
\* tab completion on, is the last request, and is computed in the scope that
\* was sent last.
CurrentIsLast ==
  /\ pending # NoRequest /\ pending.gen = generation
       => mode = "Insert" /\ tab /\ pending.key = requested
  /\ worker = "Computing" /\ job.gen = generation
       => mode = "Insert" /\ tab /\ job.key = requested /\ known = Latest
  /\ \A i \in DOMAIN ready : ready[i].gen = generation
       => mode = "Insert" /\ tab /\ ready[i].key = requested /\ ready[i].scope = Latest

TuiInv ==
  /\ TypeOK /\ Below /\ ScopeOnItsWay /\ CurrentIsLast
  /\ ListBelongs /\ ScopeAsSent /\ AnswerIsForRequest

(* Generations are numbers, wherever a request or a result is kept.        *)
LEMMA Generations ==
  ASSUME TypeOK
  PROVE  /\ generation \in Nat /\ visible \in Nat /\ pending.gen \in Nat /\ job.gen \in Nat
         /\ \A i \in DOMAIN ready : ready[i].gen \in Nat
<1>1. /\ generation \in Nat /\ visible \in Nat /\ pending \in Requests /\ job \in Requests
      /\ \A i \in DOMAIN ready : ready[i] \in Results
  BY DEF TypeOK
<1>2. (\A r \in Requests : r.gen \in Nat) /\ (\A r \in Results : r.gen \in Nat)
  BY Zenon DEF Requests, Results
<1> QED BY <1>1, <1>2, Zenon

\* TypeOK in two halves.
App ==
  /\ ui \in {"Poll", "Event", "Closing", "Joining", "Gone"}
  /\ focus \in {"Input", "Results", "Docs"} /\ mode \in {"Insert", "Command"}
  /\ tab \in BOOLEAN /\ closed \in BOOLEAN
  /\ input \in Position /\ command \in Typed

Rest ==
  /\ shown \in {"None", "Input", "Command"} /\ shownFor \in Results
  /\ generation \in Nat /\ requested \in Position \cup {NoPosition} /\ visible \in Nat
  /\ scope \in Nat /\ cache \in Nat /\ nextScope \in Nat /\ known \in Nat
  /\ pending \in Requests /\ job \in Requests /\ ready \in Seq(Results)
  /\ worker \in {"Checking", "Waiting", "Computing", "Done"}

(* The session starts in a state that satisfies its invariant.             *)
LEMMA TuiInitially == Init => TuiInv
<1> SUFFICES ASSUME Init PROVE TuiInv
    BY Zenon
<1>0. NoRequest \in Requests /\ NoResult \in Results
  BY Zenon DEF Requests, Results, NoRequest, NoResult
<1>1. Empty \in Position /\ NoText \in Typed
  BY TuiAssumption, Zenon
<1>2. TypeOK
  <2>1. App
    BY <1>1, Zenon DEF Init, App
  <2>2. Rest
    BY <1>0 DEF Init, Rest
  <2> QED BY <2>1, <2>2, Zenon DEF App, Rest, TypeOK
<1> QED
  BY <1>2 DEF Init, TuiInv, Below, Latest, ScopeOnItsWay, CurrentIsLast, ListBelongs, ScopeAsSent,
              AnswerIsForRequest, NoRequest

\* What a cancellation leaves behind, whatever else the handler does.
Quiet ==
  /\ generation' = generation + 1 /\ requested' = NoPosition /\ visible' = 0
  /\ shown' # "Input"
  /\ pending' = pending /\ ready' = ready /\ job' = job /\ known' = known
  /\ scope' # 0 /\ cache' \in {0, scope'}
  /\ \/ nextScope' = nextScope /\ (cache' # 0 => cache' = cache /\ scope' = scope)
     \/ nextScope' = scope' /\ cache' = scope'
  /\ worker' \in {worker, "Checking"} /\ (worker = "Computing" => worker' = worker)

(* After cancel_pending nothing under way carries the current generation,  *)
(* so the handler may change mode, tab, input and scope.                   *)
LEMMA QuietKeeps ==
  ASSUME TuiInv, TypeOK', Quiet
  PROVE  TuiInv'
<1>1. /\ generation \in Nat /\ pending.gen \in Nat /\ job.gen \in Nat
      /\ \A i \in DOMAIN ready : ready[i].gen \in Nat
  BY Generations, Zenon DEF TuiInv
<1>2. /\ generation' = generation + 1 /\ visible' = 0
      /\ pending' = pending /\ ready' = ready /\ job' = job
  BY Zenon DEF Quiet
<1>3. /\ pending.gen <= generation /\ job.gen <= generation
      /\ \A i \in DOMAIN ready : ready[i].gen <= generation
  BY Zenon DEF TuiInv, Below
<1>4. Below'
  BY <1>1, <1>2, <1>3 DEF Below
<1>5. /\ pending.gen # generation' /\ job.gen # generation'
      /\ \A i \in DOMAIN ready : ready[i].gen # generation'
  BY <1>1, <1>2, <1>3
<1>6. CurrentIsLast'
  BY <1>2, <1>5, Zenon DEF Latest, CurrentIsLast
<1>7. ScopeOnItsWay'
  BY Zenon DEF Latest, TuiInv, ScopeOnItsWay, Quiet
<1> QED
  BY <1>4, <1>6, <1>7, Zenon DEF Latest, TuiInv, Quiet, ListBelongs, ScopeAsSent, AnswerIsForRequest

(* Every step keeps the types.                                             *)
LEMMA TypeKept == TypeOK /\ [Next]_vars => TypeOK'
<1> SUFFICES ASSUME TypeOK, [Next]_vars PROVE TypeOK'
    BY Zenon
<1> USE DEF TypeOK
<1>0. NoRequest \in Requests
  BY Zenon DEF NoRequest, Requests
<1>13. Empty \in Position /\ NoText \in Typed
  BY TuiAssumption, Zenon
<1>1. CASE UNCHANGED vars
  BY <1>1 DEF vars, engineVars, appVars, listVars, controlVars, boxVars, workerVars
<1>2. CASE PollOne
  <2>1. Head(ready) \in Results /\ Tail(ready) \in Seq(Results)
    BY <1>2 DEF PollOne
  <2> QED BY <1>2, <2>1 DEF engineVars, PollOne, appVars, listVars, workerVars
<1>3. CASE PollDone \/ Idle \/ Leave \/ Join \/ Close \/ SpuriousWake \/ FocusKey
  <2>1. CASE PollDone \/ Idle \/ Leave \/ Join
    BY <2>1 DEF engineVars, PollDone, Idle, Leave, Join, appVars, listVars, controlVars, boxVars, workerVars
  <2>2. CASE Close
    BY <2>2, Zenon DEF engineVars, Close, Notify, appVars, listVars, controlVars
  <2>3. CASE SpuriousWake
    BY <2>3 DEF engineVars, SpuriousWake, appVars, listVars, controlVars, boxVars
  <2>4. CASE FocusKey
    BY <2>4 DEF engineVars, FocusKey, listVars, controlVars, boxVars, workerVars
  <2> QED BY <1>3, <2>1, <2>2, <2>3, <2>4, Zenon
<1>4. CASE ApplyKey
  BY <1>4, Zenon DEF engineVars, ApplyKey, Key, controlVars, boxVars, workerVars
<1>5. ASSUME Refresh, input' \in Position
      PROVE  /\ shown' \in {"None", "Input", "Command"} /\ shownFor' \in Results
             /\ generation' \in Nat /\ requested' \in Position \cup {NoPosition} /\ visible' \in Nat
             /\ scope' \in Nat /\ cache' \in Nat /\ nextScope' \in Nat /\ known' \in Nat
             /\ pending' \in Requests /\ job' \in Requests /\ ready' \in Seq(Results)
             /\ closed' \in BOOLEAN /\ worker' \in {"Checking", "Waiting", "Computing", "Done"}
  BY <1>5 DEF engineVars, Refresh, CommandList, Submit, Cancel, Notify, Requests, controlVars
<1>6. CASE TabKey \/ EditKey
  BY <1>5, <1>6, Zenon DEF TabKey, EditKey, Key
<1>7. CASE EscKey \/ ColonKey
  <2>1. App'
    BY <1>7, <1>13, Zenon DEF engineVars, App, EscKey, ColonKey, Key, Cancel, CommandList, boxVars, workerVars
  <2>2. Rest'
    BY <1>7, <1>13 DEF engineVars, Rest, EscKey, ColonKey, Key, Cancel, CommandList, boxVars, workerVars
  <2> QED BY <2>1, <2>2, Zenon DEF App, Rest
<1>8. CASE LeaveCommandKey
  <2>1. App'
    BY <1>8, <1>13, Zenon DEF engineVars, App, LeaveCommandKey, BackToInsert, Key, Cancel
  <2>2. Rest'
    BY <1>8, <1>13 DEF engineVars, Rest, LeaveCommandKey, BackToInsert, Key, Cancel
  <2> QED BY <2>1, <2>2 DEF App, Rest
<1>9. CASE CommandKey
  <2>1. App'
    BY <1>9, <1>13, Zenon DEF engineVars, App, CommandKey, BackToInsert, Key, Cancel, Schedule, Notify
  <2>2. Rest'
    BY <1>9, <1>13 DEF engineVars, Rest, CommandKey, BackToInsert, Key, Cancel, Schedule, Notify
  <2> QED BY <2>1, <2>2 DEF App, Rest
<1>10. CASE SubmitKey
  <2>1. App'
    BY <1>10, <1>13, Zenon DEF engineVars, App, SubmitKey, Key, Cancel, Schedule, Commit, Reload, Notify
  <2>2. Rest'
    BY <1>10, <1>13 DEF engineVars, Rest, SubmitKey, Key, Cancel, Schedule, Commit, Reload, Notify
  <2> QED BY <2>1, <2>2 DEF App, Rest
<1>11. CASE WorkerCheck
  BY <1>0, <1>11 DEF engineVars, WorkerCheck, appVars, listVars, controlVars
<1>12. CASE WorkerPush
  <2>1. [key |-> job.key, gen |-> job.gen, scope |-> known] \in Results
    BY Zenon DEF Requests, Results
  <2> QED BY <1>0, <1>12, <2>1 DEF engineVars, WorkerPush, appVars, listVars, controlVars
<1> QED
  BY <1>1, <1>2, <1>3, <1>4, <1>6, <1>7, <1>8, <1>9, <1>10, <1>11, <1>12, Zenon
     DEF Next, UiLoop, WorkerLoop

(* Steps that leave the controller, the mailbox and the worker's job alone *)
(* and at most hide the list.                                              *)
LEMMA StillKeeps ==
  ASSUME TuiInv, TypeOK',
         UNCHANGED <<mode, tab, shownFor, controlVars, scope, cache, pending, nextScope, ready, job, known>>,
         shown' \in {shown, "None", "Command"}, worker' = "Computing" => worker = "Computing"
  PROVE  TuiInv'
<1>1. UNCHANGED <<generation, requested, visible>>
  BY Zenon DEF controlVars
<1> QED
  BY <1>1, Zenon DEF Latest, TuiInv, Below, ScopeOnItsWay, CurrentIsLast, ListBelongs, ScopeAsSent,
              AnswerIsForRequest, NoRequest

(* A result that is polled is shown only if it answers the last request.   *)
LEMMA PollKeeps ==
  ASSUME TuiInv, TypeOK', PollOne
  PROVE  TuiInv'
<1>1. /\ UNCHANGED <<mode, tab, generation, requested, scope, cache, pending, nextScope, worker, job, known>>
      /\ ready' = Tail(ready) /\ ready # <<>> /\ ready \in Seq(Results)
  BY Zenon DEF engineVars, PollOne, appVars, workerVars, TuiInv, TypeOK
<1>2. /\ 1 \in DOMAIN ready /\ Head(ready) = ready[1]
      /\ \A i \in DOMAIN ready' : i + 1 \in DOMAIN ready /\ ready'[i] = ready[i + 1]
  BY <1>1
<1>3. CASE Head(ready).gen = generation
  <2>1. /\ visible' = generation /\ shownFor' = ready[1]
        /\ ready[1].key = requested /\ ready[1].scope = Latest /\ mode = "Insert" /\ tab
    BY <1>2, <1>3, Zenon DEF engineVars, Latest, PollOne, TuiInv, CurrentIsLast
  <2>2. generation \in Nat
    BY Zenon DEF TuiInv, TypeOK
  <2>3. Below'
    BY <1>1, <1>2, <2>1, <2>2 DEF TuiInv, Below
  <2>4. CurrentIsLast' /\ ScopeOnItsWay'
    BY <1>1, <1>2 DEF Latest, TuiInv, CurrentIsLast, ScopeOnItsWay, NoRequest
  <2> QED
    BY <1>1, <2>1, <2>3, <2>4, Zenon
       DEF Latest, TuiInv, ScopeOnItsWay, ListBelongs, ScopeAsSent, AnswerIsForRequest
<1>4. CASE Head(ready).gen # generation
  <2>1. UNCHANGED <<visible, shown, shownFor>>
    BY <1>4, Zenon DEF engineVars, PollOne, listVars
  <2>2. Below'
    BY <1>1, <1>2, <2>1, Zenon DEF TuiInv, Below
  <2>3. CurrentIsLast' /\ ScopeOnItsWay'
    BY <1>1, <1>2 DEF Latest, TuiInv, CurrentIsLast, ScopeOnItsWay, NoRequest
  <2> QED BY <1>1, <2>1, <2>2, <2>3, Zenon DEF Latest, TuiInv, ListBelongs, ScopeAsSent, AnswerIsForRequest
<1> QED BY <1>3, <1>4, Zenon

(* refresh_completion after a key: a new request is newer than everything  *)
(* under way and replaces what the controller remembers.                   *)
LEMMA RefreshKeeps ==
  ASSUME TuiInv, TypeOK', Refresh, mode' = mode, tab' = tab \/ (tab' /\ mode = "Insert")
  PROVE  TuiInv'
<1>1. UNCHANGED <<shownFor, scope, cache, nextScope, ready, job, known>>
  BY Zenon DEF Refresh, engineVars
<1>2. CASE mode' = "Command"
  <2>1. UNCHANGED <<controlVars, pending, worker>> /\ shown' \in {"None", "Command"} /\ tab' = tab
    BY <1>2, Zenon DEF engineVars, Refresh, CommandList
  <2> QED BY <1>1, <2>1, StillKeeps, Zenon
<1>3. CASE mode' # "Command" /\ ~ tab'
  <2>1. UNCHANGED <<controlVars, pending, worker>> /\ shown' = "None" /\ tab' = tab
    BY <1>3, Zenon DEF engineVars, Refresh, TuiInv, TypeOK
  <2> QED BY <1>1, <2>1, StillKeeps, Zenon
<1>4. CASE mode' # "Command" /\ tab' /\ input' \notin Askable
  <2>1. Quiet
    BY <1>1, <1>4, Zenon DEF engineVars, Refresh, Cancel, Quiet, TuiInv, ScopeOnItsWay
  <2> QED BY <2>1, QuietKeeps, Zenon
<1>5. CASE mode' # "Command" /\ tab' /\ input' \in Askable
  <2>1. Submit(input') /\ shown' = shown /\ mode = "Insert" /\ mode' = "Insert" /\ tab'
    BY <1>5, Zenon DEF engineVars, Refresh, TuiInv, TypeOK
  <2>2. CASE input' = requested
    <3>1. UNCHANGED <<generation, requested, visible, pending, worker>>
      BY <2>1, <2>2, Zenon DEF Submit, controlVars
    <3>2. Below' /\ ScopeOnItsWay'
      BY <1>1, <3>1, Zenon DEF Latest, TuiInv, Below, ScopeOnItsWay
    <3>3. CurrentIsLast'
      BY <1>1, <2>1, <3>1, Zenon DEF Latest, TuiInv, CurrentIsLast, NoRequest
    <3> QED
      BY <1>1, <2>1, <3>1, <3>2, <3>3, Zenon DEF Latest, TuiInv, ListBelongs, ScopeAsSent, AnswerIsForRequest
  <2>3. CASE input' # requested
    <3>1. /\ generation' = generation + 1 /\ requested' = input' /\ visible' = visible
          /\ pending' = [key |-> input', gen |-> generation + 1]
          /\ worker' \in {worker, "Checking"}
      BY <2>1, <2>3, Zenon DEF Submit, Notify
    <3>2. /\ generation \in Nat /\ visible \in Nat /\ job.gen \in Nat
          /\ \A i \in DOMAIN ready : ready[i].gen \in Nat
      BY Generations, Zenon DEF TuiInv
    <3>3. /\ pending'.gen = generation + 1 /\ pending'.key = requested'
      BY <3>1, Zenon
    <3>4. /\ job.gen <= generation /\ visible <= generation
          /\ \A i \in DOMAIN ready : ready[i].gen <= generation
      BY Zenon DEF TuiInv, Below
    <3>5. Below' /\ job.gen # generation' /\ visible' # generation'
          /\ \A i \in DOMAIN ready : ready[i].gen # generation'
      BY <1>1, <3>1, <3>2, <3>3, <3>4 DEF Below
    <3>6. CurrentIsLast' /\ ScopeOnItsWay'
      BY <1>1, <2>1, <3>3, <3>5, Zenon DEF Latest, TuiInv, CurrentIsLast, ScopeOnItsWay
    <3> QED
      BY <1>1, <2>1, <3>5, <3>6, Zenon DEF Latest, TuiInv, ListBelongs, ScopeAsSent, AnswerIsForRequest
  <2> QED BY <2>2, <2>3, Zenon
<1> QED BY <1>2, <1>3, <1>4, <1>5, Zenon

(* The worker takes context and request together, so what it computes for  *)
(* the last request is computed in the scope sent last.                    *)
LEMMA WorkerKeeps ==
  ASSUME TuiInv, TypeOK', WorkerCheck \/ WorkerPush
  PROVE  TuiInv'
<1>1. /\ UNCHANGED <<mode, tab, shown, shownFor, generation, requested, visible, scope, cache>>
      /\ generation \in Nat /\ Latest' = Latest
  BY Zenon DEF Latest, engineVars, WorkerCheck, WorkerPush, workerVars, appVars, listVars,
               controlVars, TuiInv, TypeOK
<1>2. ListBelongs' /\ ScopeAsSent' /\ AnswerIsForRequest'
  BY <1>1, Zenon DEF TuiInv, ListBelongs, ScopeAsSent, AnswerIsForRequest
<1>3. CASE WorkerCheck
  <2>1. ready' = ready
    BY <1>3, Zenon DEF WorkerCheck
  <2>2. CASE pending' = pending /\ UNCHANGED <<nextScope, job, known>>
    <3>1. worker' # "Computing"
      BY <1>3, <2>2, Zenon DEF WorkerCheck
    <3> QED
      BY <1>1, <1>2, <2>1, <2>2, <3>1, Zenon DEF Latest, TuiInv, Below, ScopeOnItsWay,
                                                         CurrentIsLast, NoRequest
  <2>3. CASE /\ pending' = NoRequest /\ nextScope' = 0 /\ job' = pending
             /\ known' = (IF nextScope # 0 THEN nextScope ELSE known)
             /\ worker' = (IF pending # NoRequest THEN "Computing" ELSE "Checking")
    <3>1. known' = Latest /\ Latest' = Latest /\ ScopeOnItsWay'
      BY <1>1, <2>3, Zenon DEF Latest, TuiInv, ScopeOnItsWay
    <3>2. Below'
      BY <1>1, <2>1, <2>3 DEF TuiInv, Below, NoRequest
    <3>3. CurrentIsLast'
      BY <1>1, <2>1, <2>3, <3>1, Zenon DEF Latest, TuiInv, CurrentIsLast, NoRequest
    <3> QED BY <1>2, <3>1, <3>2, <3>3, Zenon DEF TuiInv
  <2> QED BY <1>3, <2>2, <2>3, Zenon DEF WorkerCheck
<1>4. CASE WorkerPush
  <2> DEFINE r == [key |-> job.key, gen |-> job.gen, scope |-> known]
  <2>1. /\ worker = "Computing" /\ worker' = "Checking" /\ job' = NoRequest
        /\ ready' = Append(ready, r) /\ UNCHANGED <<pending, nextScope, known>>
    BY <1>4, Zenon DEF WorkerPush
  <2>2. ready \in Seq(Results) /\ job \in Requests /\ known \in Nat
    BY Zenon DEF TuiInv, TypeOK
  <2>3. r.gen = job.gen /\ r.key = job.key /\ r.scope = known /\ NoRequest.gen = 0
    BY Zenon DEF NoRequest
  <2>4. \A i \in DOMAIN ready' : (i \in DOMAIN ready /\ ready'[i] = ready[i]) \/ ready'[i] = r
    BY <2>1, <2>2
  <2> HIDE DEF r
  <2>5. Below' /\ ScopeOnItsWay'
    BY <1>1, <2>1, <2>3, <2>4 DEF Latest, TuiInv, Below, ScopeOnItsWay
  <2>6. CurrentIsLast'
    BY <1>1, <2>1, <2>3, <2>4 DEF Latest, TuiInv, CurrentIsLast, NoRequest
  <2> QED BY <1>2, <2>5, <2>6, Zenon DEF TuiInv
<1> QED BY <1>3, <1>4, Zenon

(* Every step of the two threads keeps the invariant.                      *)
LEMMA TuiInductive == TuiInv /\ [Next]_vars => TuiInv'
<1> SUFFICES ASSUME TuiInv, [Next]_vars PROVE TuiInv'
    BY Zenon
<1>0. TypeOK'
  BY TypeKept, Zenon DEF TuiInv
<1>1. CASE UNCHANGED vars
  BY <1>0, <1>1, StillKeeps, Zenon DEF vars, engineVars, appVars, listVars, controlVars, boxVars, workerVars
<1>2. CASE PollDone \/ Idle \/ Leave \/ Join \/ FocusKey \/ Close \/ SpuriousWake \/ ApplyKey
  <2>1. /\ UNCHANGED <<mode, tab, shownFor, controlVars, scope, cache, pending, nextScope, ready, job, known>>
        /\ shown' \in {shown, "None", "Command"}
    BY <1>2, Zenon DEF engineVars, PollDone, Idle, Leave, Join, FocusKey, Close, SpuriousWake, ApplyKey, appVars,
                listVars, boxVars, workerVars
  <2>2. worker' = "Computing" => worker = "Computing"
    BY <1>2, Zenon DEF engineVars, PollDone, Idle, Leave, Join, FocusKey, Close,
                          SpuriousWake, ApplyKey, Notify, workerVars
  <2> QED BY <1>0, <2>1, <2>2, StillKeeps, Zenon
<1>3. CASE PollOne
  BY <1>0, <1>3, PollKeeps, Zenon
<1>4. CASE TabKey \/ EditKey
  BY <1>0, <1>4, RefreshKeeps, Zenon DEF TabKey, EditKey
<1>5. CASE EscKey \/ ColonKey \/ LeaveCommandKey \/ CommandKey \/ SubmitKey
  <2>1. scope # 0 /\ scope \in Nat /\ cache \in {0, scope}
    BY Zenon DEF Latest, TuiInv, ScopeOnItsWay, TypeOK
  <2>2. ASSUME EscKey \/ ColonKey PROVE Quiet
    BY <2>1, <2>2, Zenon DEF engineVars, EscKey, ColonKey, Cancel, CommandList, boxVars, workerVars, Quiet
  <2>3. ASSUME LeaveCommandKey PROVE Quiet
    BY <2>1, <2>3, Zenon DEF engineVars, LeaveCommandKey, BackToInsert, Cancel, Quiet
  <2>4. ASSUME CommandKey PROVE Quiet
    <3>1. /\ generation' = generation + 1 /\ requested' = NoPosition /\ visible' = 0
          /\ shown' = "None" /\ UNCHANGED <<scope, cache, pending, ready, job, known>>
      BY <2>4, Zenon DEF engineVars, CommandKey, BackToInsert, Cancel
    <3>2. /\ nextScope' = nextScope \/ (nextScope' = cache /\ cache # 0)
          /\ worker' \in {worker, "Checking"} /\ (worker = "Computing" => worker' = worker)
      BY <2>4, <3>1, Zenon DEF CommandKey, Schedule, Notify
    <3> QED BY <2>1, <3>1, <3>2, Zenon DEF Quiet
  <2>5. ASSUME SubmitKey PROVE Quiet
    <3>1. /\ generation' = generation + 1 /\ requested' = NoPosition /\ visible' = 0
          /\ shown' = "None" /\ UNCHANGED <<pending, ready, job, known>>
      BY <2>5, Zenon DEF engineVars, SubmitKey, Cancel
    <3>2. scope' # 0 /\ cache' \in {0, scope'}
      BY <2>1, <2>5 DEF SubmitKey, Commit, Reload, engineVars
    <3>3. \/ cache' = 0 /\ nextScope' = nextScope /\ worker' = worker
          \/ cache' # 0 /\ nextScope' = cache' /\ Notify
      BY <2>5, Zenon DEF engineVars, SubmitKey, Schedule
    <3>4. worker' \in {worker, "Checking"} /\ (worker = "Computing" => worker' = worker)
      BY <3>3, Zenon DEF Notify
    <3> QED BY <3>1, <3>2, <3>3, <3>4, Zenon DEF Quiet
  <2>6. Quiet
    BY <1>5, <2>2, <2>3, <2>4, <2>5, Zenon
  <2> QED BY <1>0, <2>6, QuietKeeps, Zenon
<1>6. CASE WorkerCheck \/ WorkerPush
  BY <1>0, <1>6, WorkerKeeps, Zenon
<1> QED
  BY <1>1, <1>2, <1>3, <1>4, <1>5, <1>6, Zenon DEF Next, UiLoop, WorkerLoop

(* The invariant holds in every state of the session.                      *)
THEOREM TuiInvariance == Spec => []TuiInv
BY TuiInitially, TuiInductive, PTL DEF Spec

(* A late answer is never shown over what the user does after Esc, Enter   *)
(* or ":": candidates are on the screen only in insert mode with tab       *)
(* completion on.                                                          *)
THEOREM ListSafe == Spec => []ListBelongs
<1>1. TuiInv => ListBelongs
  BY Zenon DEF TuiInv
<1> QED BY <1>1, TuiInvariance, PTL

(* The candidates on the screen come from the context sent last, whatever  *)
(* the order of requests, refreshes and answers, and so from the engine's  *)
(* current scope as long as the engine caches its context: that is, until  *)
(* the first :reload.                                                      *)
THEOREM ScopeSafe == Spec => []ScopeAsSent
<1>1. TuiInv => ScopeAsSent
  BY Zenon DEF TuiInv
<1> QED BY <1>1, TuiInvariance, PTL

(* What is accepted for the current generation answers the last request.   *)
THEOREM AnswerSafe == Spec => []AnswerIsForRequest
<1>1. TuiInv => AnswerIsForRequest
  BY Zenon DEF TuiInv
<1> QED BY <1>1, TuiInvariance, PTL
=============================================================================
