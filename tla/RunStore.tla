------------------------------ MODULE RunStore ------------------------------
(***************************************************************************)
(* The run registry of one api process (api/runstore.py): runs are started *)
(* by handlers on the event-loop thread, executed and persisted by worker  *)
(* threads of a bounded pool, recorded in event channels (EventLog) and    *)
(* evicted oldest first.                                                   *)
(*                                                                         *)
(* A worker never touches the event lists: it posts callbacks to the loop  *)
(* (call_soon_threadsafe), which runs them in order.  Callbacks of two     *)
(* runs touch different entries, so posted keeps the order of each run     *)
(* only.  The nine stages of the pipeline are NStages steps, each with one *)
(* event; what a stage computes is not modelled here.                      *)
(***************************************************************************)
EXTENDS EventLog, FiniteSets

CONSTANTS
  Run,                \* run ids
  Generator,          \* the generators a request may name
  Ollama,             \* the one that needs a model server
  Stub,               \* the deterministic stub it degrades to
  NStages,            \* bound on the events of a pipeline
  Threads,            \* size of the worker pool
  MAX_RETAINED_RUNS,
  MaxFaults           \* bound on raised errors and lost clients

Happened(name, k) == <<name, k>>
RunStarted == Happened("run.started", 0)
StageEvent(k) == Happened("stage", k)
RunCompleted == Happened("run.completed", 0)
RunFailed == Happened("run.failed", 0)
RunEvent == {RunStarted, RunCompleted, RunFailed} \cup {StageEvent(k) : k \in 1..NStages}

(* A results dict: what F9 ran on, and whether the mapper was degraded.    *)
Results == [generator_name : Generator, semantic_unavailable : BOOLEAN]

(* One run of the registry; status none is a run not started yet.  The     *)
(* events and queues of the entry are the channel of the run.              *)
RunEntry ==
  [status : {"none", "running", "completed", "failed"}, generator : Generator,
   results : Results \cup {None}, artifacts : BOOLEAN, db_run_id : BOOLEAN,
   eval_run_id : BOOLEAN, error : BOOLEAN, persist_error : BOOLEAN]

(* The outcome of the worker's future, which resumes drive(). *)
Returned == Happened("thread.returned", 0)
Raised == Happened("thread.raised", 0)

ASSUME RegistryAssumption ==
  /\ Run \subseteq Channel
  /\ RunEvent \subseteq Event
  /\ Terminal \cap RunEvent = {RunCompleted, RunFailed}
  /\ Stub \in Generator
  /\ None \notin Results
  /\ NStages \in Nat
  /\ Threads \in Nat \ {0}
  /\ MAX_RETAINED_RUNS \in Nat \ {0}
  /\ MaxFaults \in Nat

VARIABLES
  registry,  \* _runs: run ids in insertion order
  entry,     \* the RunEntry of each run
  worker,    \* where the worker thread of each run stands
  stage,     \* events its pipeline has emitted
  mapper,    \* the mapper it was given
  output,    \* its results dict, before the entry holds it
  posted,    \* callbacks it posted to the loop and the loop has not run
  cache,     \* _MAPPER_CACHE
  db,        \* the rows of runs and eval_runs
  faults     \* history: faults so far

runVars == <<registry, entry, worker, stage, mapper, output, posted, cache, db, faults>>
vars == <<logVars, runVars>>

NoRun == [status |-> "none", generator |-> Stub, results |-> None, artifacts |-> FALSE,
          db_run_id |-> FALSE, eval_run_id |-> FALSE, error |-> FALSE, persist_error |-> FALSE]

Init ==
  /\ LogInit
  /\ registry = <<>>
  /\ entry = [r \in Run |-> NoRun]
  /\ worker = [r \in Run |-> "none"]
  /\ stage = [r \in Run |-> 0]
  /\ mapper = [r \in Run |-> "none"]
  /\ output = [r \in Run |-> None]
  /\ posted = [r \in Run |-> <<>>]
  /\ cache = "empty"
  /\ db = [runs |-> {}, evals |-> {}]
  /\ faults = 0

SpendFault == faults < MaxFaults /\ faults' = faults + 1

Registered == {registry[i] : i \in DOMAIN registry}

-----------------------------------------------------------------------------
(* start_run, on the loop thread, without an await. *)

(* _evict_old_runs: what stays of the registry. *)
Kept(runs) ==
  IF Len(runs) > MAX_RETAINED_RUNS
  THEN SubSeq(runs, Len(runs) - MAX_RETAINED_RUNS + 1, Len(runs))
  ELSE runs

(* Mutant: an evicted run is freed and stays registered. *)
StartRunKeepsEvicted(r, g) ==
  /\ entry[r].status = "none"
  /\ registry' = Append(registry, r)
  /\ LET kept == Kept(registry')
         evicted == Registered \ {kept[i] : i \in DOMAIN kept}
         fresh == [NoRun EXCEPT !.status = "running", !.generator = g]
     IN  /\ entry' = [q \in Run |-> IF q \in evicted THEN [entry[q] EXCEPT !.artifacts = FALSE]
                                    ELSE IF q = r THEN fresh ELSE entry[q]]
         /\ Record(r, RunStarted, evicted)
  /\ worker' = [worker EXCEPT ![r] = "queued"]
  /\ UNCHANGED <<stage, mapper, output, posted, cache, db, faults>>

(* Registration, eviction of the oldest runs (their artifacts and event    *)
(* lists are freed, whatever their status) and run.started.                *)
StartRun(r, g) ==
  /\ entry[r].status = "none"
  /\ registry' = Kept(Append(registry, r))
  /\ LET evicted == Registered \ {registry'[i] : i \in DOMAIN registry'}
         fresh == [NoRun EXCEPT !.status = "running", !.generator = g]
     IN  /\ entry' = [q \in Run |-> IF q \in evicted THEN [entry[q] EXCEPT !.artifacts = FALSE]
                                    ELSE IF q = r THEN fresh ELSE entry[q]]
         /\ Record(r, RunStarted, evicted)
  /\ worker' = [worker EXCEPT ![r] = "queued"]
  /\ UNCHANGED <<stage, mapper, output, posted, cache, db, faults>>

-----------------------------------------------------------------------------
(* _execute_and_persist, on the worker thread. *)

OnThread(r) == worker[r] \notin {"none", "queued", "ended"}

Goto(r, where) == worker' = [worker EXCEPT ![r] = where]
Post(r, callback) == posted' = [posted EXCEPT ![r] = Append(@, callback)]

(* asyncio.to_thread: the pool has a free thread. *)
TakeThread(r) ==
  /\ worker[r] = "queued"
  /\ Cardinality({q \in Run : OnThread(q)}) < Threads
  /\ Goto(r, "mapper")
  /\ UNCHANGED <<logVars, registry, entry, stage, mapper, output, posted, cache, db, faults>>

(* Mutant: only a mapper that could be built is cached. *)
GetMapperRetries(r) ==
  /\ worker[r] = "mapper"
  /\ \E built \in IF cache = "full" THEN {"full"} ELSE {"full", "degraded"} :
       /\ cache' = IF built = "full" THEN "full" ELSE cache
       /\ mapper' = [mapper EXCEPT ![r] = built]
  /\ Goto(r, "pipeline")
  /\ UNCHANGED <<logVars, registry, entry, stage, output, posted, db, faults>>

(* get_mapper, under _MAPPER_LOCK: built once, the outcome cached, also    *)
(* when the semantic stack is unavailable.                                 *)
GetMapper(r) ==
  /\ worker[r] = "mapper"
  /\ \E built \in IF cache = "empty" THEN {"full", "degraded"} ELSE {cache} :
       /\ cache' = built
       /\ mapper' = [mapper EXCEPT ![r] = built]
  /\ Goto(r, "pipeline")
  /\ UNCHANGED <<logVars, registry, entry, stage, output, posted, db, faults>>

(* A stage of pipeline.execute calls the sink. *)
EmitStage(r) ==
  /\ worker[r] = "pipeline"
  /\ stage[r] < NStages
  /\ stage' = [stage EXCEPT ![r] = @ + 1]
  /\ Post(r, StageEvent(stage[r] + 1))
  /\ UNCHANGED <<logVars, registry, entry, worker, mapper, output, cache, db, faults>>

(* Mutant: the thread records the event itself, past the loop's queue. *)
EmitCompletedDirectly(r) ==
  /\ worker[r] = "pipeline"
  /\ stage[r] = NStages
  /\ \E g \in {entry[r].generator, Stub} :
       output' = [output EXCEPT ![r] = [generator_name |-> g, semantic_unavailable |-> FALSE]]
  /\ Record(r, RunCompleted, {})
  /\ Goto(r, "store")
  /\ UNCHANGED <<registry, entry, stage, mapper, posted, cache, db, faults>>

(* The last stage emits run.completed, while the results are still local   *)
(* to the thread.  F9 ran on the requested generator, or degraded to the   *)
(* stub because the model server was unavailable.                          *)
EmitCompleted(r) ==
  /\ worker[r] = "pipeline"
  /\ stage[r] = NStages
  /\ \E g \in {entry[r].generator, Stub} :
       output' = [output EXCEPT ![r] = [generator_name |-> g, semantic_unavailable |-> FALSE]]
  /\ Post(r, RunCompleted)
  /\ Goto(r, "store")
  /\ UNCHANGED <<logVars, registry, entry, stage, mapper, cache, db, faults>>

(* Building the mapper or a stage raises. *)
PipelineRaises(r) ==
  /\ \/ worker[r] = "mapper" /\ cache = "empty"
     \/ worker[r] = "pipeline"
  /\ SpendFault
  /\ Goto(r, "raised")
  /\ UNCHANGED <<logVars, registry, entry, stage, mapper, output, posted, cache, db>>

(* entry.artifacts = artifacts: also in an entry that was evicted. *)
StoreArtifacts(r) ==
  /\ worker[r] = "store"
  /\ output' = [output EXCEPT ![r].semantic_unavailable = (mapper[r] = "degraded")]
  /\ entry' = [entry EXCEPT ![r].artifacts = TRUE]
  /\ Goto(r, "results")
  /\ UNCHANGED <<logVars, registry, stage, mapper, posted, cache, db, faults>>

StoreResults(r) ==
  /\ worker[r] = "results"
  /\ entry' = [entry EXCEPT ![r].results = output[r]]
  /\ Goto(r, "persist")
  /\ UNCHANGED <<logVars, registry, stage, mapper, output, posted, cache, db, faults>>

(* persist_run: one transaction; the entry gets its id. *)
PersistRun(r) ==
  /\ worker[r] = "persist"
  /\ db' = [db EXCEPT !.runs = @ \cup {r}]
  /\ entry' = [entry EXCEPT ![r].db_run_id = TRUE]
  /\ Goto(r, "eval")
  /\ UNCHANGED <<logVars, registry, stage, mapper, output, posted, cache, faults>>

(* The row of eval_runs: tagged with the model the request named, or with  *)
(* the generator of the results when it named the stub.                    *)
EvalRow(r) ==
  [run |-> r,
   model_tag |-> IF entry[r].generator = Ollama THEN Ollama
                 ELSE entry[r].results.generator_name]

WriteEvalRun(r) ==
  /\ worker[r] = "eval"
  /\ db' = [db EXCEPT !.evals = @ \cup {EvalRow(r)}]
  /\ entry' = [entry EXCEPT ![r].eval_run_id = TRUE]
  /\ Goto(r, "returned")
  /\ UNCHANGED <<logVars, registry, stage, mapper, output, posted, cache, faults>>

(* Mutant: the error is not caught. *)
PersistFailsRaises(r) ==
  /\ worker[r] \in {"persist", "eval"}
  /\ SpendFault
  /\ Goto(r, "raised")
  /\ UNCHANGED <<logVars, registry, entry, stage, mapper, output, posted, cache, db>>

(* Mutant: the error is swallowed. *)
PersistFailsSilently(r) ==
  /\ worker[r] \in {"persist", "eval"}
  /\ SpendFault
  /\ Goto(r, "returned")
  /\ UNCHANGED <<logVars, registry, entry, stage, mapper, output, posted, cache, db>>

(* Either write raises: rolled back, or committed and the reply was lost.  *)
PersistFails(r) ==
  /\ worker[r] \in {"persist", "eval"}
  /\ \/ UNCHANGED db
     \/ worker[r] = "persist" /\ db' = [db EXCEPT !.runs = @ \cup {r}]
     \/ worker[r] = "eval" /\ db' = [db EXCEPT !.evals = @ \cup {EvalRow(r)}]
  /\ entry' = [entry EXCEPT ![r].persist_error = TRUE]
  /\ SpendFault
  /\ Goto(r, "returned")
  /\ UNCHANGED <<logVars, registry, stage, mapper, output, posted, cache>>

(* Mutant: the outcome of a thread that raised is dropped. *)
EndThreadForgetsError(r) ==
  /\ worker[r] \in {"returned", "raised"}
  /\ IF worker[r] = "returned" THEN Post(r, Returned) ELSE UNCHANGED posted
  /\ Goto(r, "ended")
  /\ UNCHANGED <<logVars, registry, entry, stage, mapper, output, cache, db, faults>>

(* The thread is done: its future wakes the task of drive(), after the     *)
(* callbacks the thread posted before.                                     *)
EndThread(r) ==
  /\ worker[r] \in {"returned", "raised"}
  /\ Post(r, IF worker[r] = "returned" THEN Returned ELSE Raised)
  /\ Goto(r, "ended")
  /\ UNCHANGED <<logVars, registry, entry, stage, mapper, output, cache, db, faults>>

-----------------------------------------------------------------------------
(* The loop runs the oldest callback of the run. *)

(* _append, called through call_soon_threadsafe. *)
Deliver(r) ==
  /\ posted[r] # <<>>
  /\ Head(posted[r]) \notin {Returned, Raised}
  /\ Record(r, Head(posted[r]), {})
  /\ posted' = [posted EXCEPT ![r] = Tail(@)]
  /\ UNCHANGED <<registry, entry, worker, stage, mapper, output, cache, db, faults>>

(* Mutant: the status flips as soon as the results are there. *)
ResumeEarly(r) ==
  /\ entry[r].status = "running"
  /\ entry[r].results # None
  /\ entry' = [entry EXCEPT ![r].status = "completed"]
  /\ UNCHANGED <<logVars, registry, worker, stage, mapper, output, posted, cache, db, faults>>

(* Mutant: a failed run is recorded in its status only. *)
ResumeMute(r) ==
  /\ posted[r] # <<>>
  /\ Head(posted[r]) \in {Returned, Raised}
  /\ posted' = [posted EXCEPT ![r] = Tail(@)]
  /\ entry' = [entry EXCEPT ![r].status = IF Head(posted[r]) = Returned THEN "completed"
                                                                       ELSE "failed"]
  /\ UNCHANGED <<logVars, registry, worker, stage, mapper, output, cache, db, faults>>

(* drive() resumes: the status flips; a failure is also an event. *)
Resume(r) ==
  /\ posted[r] # <<>>
  /\ posted' = [posted EXCEPT ![r] = Tail(@)]
  /\ \/ /\ Head(posted[r]) = Returned
        /\ entry' = [entry EXCEPT ![r].status = "completed"]
        /\ UNCHANGED logVars
     \/ /\ Head(posted[r]) = Raised
        /\ entry' = [entry EXCEPT ![r].status = "failed", ![r].error = TRUE]
        /\ Record(r, RunFailed, {})
  /\ UNCHANGED <<registry, worker, stage, mapper, output, cache, db, faults>>

(* GET /api/stream/run/{run_id}: an unknown or evicted run is a 404. *)
OpenRun(s) ==
  /\ \E r \in Registered : Open(s, r)
  /\ UNCHANGED runVars

Stream(s) == Generate(s) /\ UNCHANGED runVars

Leave(s) ==
  /\ Disconnect(s)
  /\ SpendFault
  /\ UNCHANGED <<registry, entry, worker, stage, mapper, output, posted, cache, db>>

Work(r) ==
  \/ GetMapper(r) \/ EmitStage(r) \/ EmitCompleted(r) \/ PipelineRaises(r)
  \/ StoreArtifacts(r) \/ StoreResults(r) \/ PersistRun(r) \/ WriteEvalRun(r)
  \/ PersistFails(r) \/ EndThread(r)

Loop(r) == Deliver(r) \/ Resume(r)

(* A new run gets an id nobody knows yet (uuid4). *)
Unused == {r \in Run : entry[r].status = "none"}
FreshId == CHOOSE r \in Run : r \in Unused

(* POST /api/intake/run, and POST /api/evaluation/reproduce with the stub. *)
Start == Unused # {} /\ \E g \in Generator : StartRun(FreshId, g)

Next ==
  \/ Start
  \/ \E r \in Run : TakeThread(r) \/ Work(r) \/ Loop(r)
  \/ \E s \in Subscriber : OpenRun(s) \/ Stream(s) \/ Leave(s)

Spec == Init /\ [][Next]_vars

(* Threads run, the pool serves its waiters in turn, the loop runs its     *)
(* callbacks and a connected client reads its stream.                      *)
Fairness ==
  /\ \A r \in Run : SF_vars(TakeThread(r)) /\ WF_vars(Work(r)) /\ WF_vars(Loop(r))
  /\ \A s \in Subscriber : WF_vars(Stream(s))

FairSpec == Spec /\ Fairness
-----------------------------------------------------------------------------
(***************************************************************************)
(* Properties.                                                             *)
(***************************************************************************)
Places == {"none", "queued", "mapper", "pipeline", "store", "results", "persist", "eval",
           "returned", "raised", "ended"}

(* The registered runs and the state of their threads (runstore.py). *)
RunTypeOK ==
  /\ registry \in Seq(Run)
  /\ entry \in [Run -> RunEntry]
  /\ worker \in [Run -> Places]
  /\ stage \in [Run -> 0..NStages]
  /\ mapper \in [Run -> {"none", "full", "degraded"}]
  /\ output \in [Run -> Results \cup {None}]
  /\ posted \in [Run -> Seq(RunEvent \cup {Returned, Raised})]
  /\ cache \in {"empty", "full", "degraded"}
  /\ faults \in Nat
  /\ db \in [runs : SUBSET Run, evals : SUBSET [run : Run, model_tag : Generator]]
TypeOK == LogTypeOK /\ RunTypeOK

(* runstore.py:281, "the events list is complete when status flips": a run *)
(* whose status is final has recorded its one terminal event, the matching *)
(* one, and records nothing after a terminal event, although the worker    *)
(* posts the events and the loop flips the status.                         *)
CompleteWhenFlipped ==
  \A r \in Run :
    /\ \A i \in DOMAIN emitted[r] : emitted[r][i] \in Terminal => i = Len(emitted[r])
    /\ entry[r].status = "completed" =>
         emitted[r] # <<>> /\ emitted[r][Len(emitted[r])] = RunCompleted
    /\ entry[r].status = "failed" =>
         emitted[r] # <<>> /\ emitted[r][Len(emitted[r])] = RunFailed

(* A registered run that says completed can be read: _completed_entry of   *)
(* the networks and cases routers finds artifacts and results, and never   *)
(* answers 409 "is completed", although eviction clears artifacts while    *)
(* worker threads set them.                                                *)
CompletedIsServed ==
  \A r \in Registered :
    entry[r].status = "completed" => entry[r].artifacts /\ entry[r].results # None

(* "persist_error reports the failure honestly instead of pretending the   *)
(* rows landed" (runstore.py:20): an id in the entry means its row is in   *)
(* the database, and a completed run without persist_error has both.       *)
PersistedAsReported ==
  \A r \in Run :
    /\ entry[r].db_run_id => r \in db.runs
    /\ entry[r].eval_run_id => \E e \in db.evals : e.run = r
    /\ entry[r].status = "completed" /\ ~entry[r].persist_error =>
         entry[r].db_run_id /\ entry[r].eval_run_id

(* Every run of a process is mapped by the same stack (the cache of        *)
(* get_mapper): two results never disagree on semantic_unavailable.        *)
OneMapperPerProcess ==
  \A r, q \in Run :
    entry[r].results # None /\ entry[q].results # None =>
      entry[r].results.semantic_unavailable = entry[q].results.semantic_unavailable

(* Every recorded run is over some time later, also when it was evicted    *)
(* while it ran and when the pool was full when it started.                *)
RunEnds ==
  \A r \in Run : entry[r].status = "running" ~> entry[r].status \in {"completed", "failed"}

(* A stream that was given the channel from its first event ends, also     *)
(* when its run is evicted while it replays or tails.                      *)
RetainedStreamEnds ==
  \A s \in Subscriber :
    phase[s] = "accepted" ~> phase[s] \in {"closed", "gone"} \/ base[s] > 0

(* Every stream ends: "the stream ends after run.completed (or run.failed)"    *)
(* (api/sse.py:15).                                                        *)
StreamEnds ==
  \A s \in Subscriber : phase[s] = "accepted" ~> phase[s] \in {"closed", "gone"}

(* The comment of _write_eval_run (eval/harness.py:69): "a stub (or        *)
(* stub-degraded) run is never tagged with the Ollama model name".         *)
TagIsHonest ==
  \A e \in db.evals : entry[e.run].results.generator_name = Stub => e.model_tag # Ollama
-----------------------------------------------------------------------------
(* The inductive invariant behind the first four of these, and behind the  *)
(* implementation of LogSpec.                                              *)

(* q ends with end, and before it nothing is over.                         *)
Plain(e) == e \notin Terminal \cup {Returned, Raised}
Ends(q, end) ==
  /\ Len(q) >= Len(end)
  /\ \A i \in 1 .. Len(end) : q[Len(q) - Len(end) + i] = end[i]
  /\ \A i \in 1 .. (Len(q) - Len(end)) : Plain(q[i])

Before == {"queued", "mapper", "pipeline", "raised"}
After == {"store", "results", "persist", "eval", "returned"}

Persisted(en) == en.persist_error \/ (en.db_run_id /\ en.eval_run_id)
Answerable(en) == en.results \in Results /\ Persisted(en)

(* What the events recorded (em) and the callbacks posted (po) of a run    *)
(* amount to, where its worker is w and its entry is en.                   *)
Tells(w, en, em, po) ==
  /\ w = "none" => en.status = "none" /\ em = <<>> /\ po = <<>>
  /\ w \in Before => en.status = "running" /\ Ends(em \o po, <<>>)
  /\ w \in After => en.status = "running" /\ Ends(em \o po, <<RunCompleted>>)
  /\ w = "ended" =>
       \/ /\ en.status = "running" /\ po # <<>>
          /\ \/ Ends(em \o po, <<RunCompleted, Returned>>) /\ Answerable(en)
             \/ Ends(em \o po, <<Raised>>)
       \/ en.status = "completed" /\ po = <<>> /\ Ends(em, <<RunCompleted>>) /\ Answerable(en)
       \/ en.status = "failed" /\ po = <<>> /\ Ends(em, <<RunFailed>>)
StoryInv == \A r \in Run : Tells(worker[r], entry[r], emitted[r], posted[r])

(* What the entry and the thread hold where the worker is.                 *)
Written(w, en) ==
  /\ w \in {"persist", "eval", "returned"} => en.results \in Results
  /\ w = "eval" => en.db_run_id
  /\ w = "returned" => Persisted(en)
WrittenInv == \A r \in Run : Written(worker[r], entry[r])

Mapped(res, m) == res \in Results => m # "none" /\ res.semantic_unavailable = (m = "degraded")
MapperInv ==
  \A r \in Run :
    /\ mapper[r] # "none" => mapper[r] = cache
    /\ worker[r] \in {"pipeline"} \cup After => mapper[r] # "none"
    /\ worker[r] \in {"store", "results"} => output[r] \in Results
    /\ worker[r] = "results" => Mapped(output[r], mapper[r])
    /\ Mapped(entry[r].results, mapper[r])

ServedInv ==
  \A r \in Registered :
    worker[r] = "results" \/ entry[r].results \in Results => entry[r].artifacts

RowsInv ==
  \A r \in Run :
    /\ entry[r].db_run_id => r \in db.runs
    /\ entry[r].eval_run_id => \E e \in db.evals : e.run = r

RunInv ==
  /\ LogInv /\ RunTypeOK
  /\ StoryInv /\ WrittenInv /\ MapperInv /\ ServedInv /\ RowsInv
=============================================================================
