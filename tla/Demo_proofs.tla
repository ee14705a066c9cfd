----------------------------- MODULE Demo_proofs -----------------------------
(***************************************************************************)
(* What the demo narrates, writes and streams is true of its run, of the   *)
(* audit chain and of its channel, for every number of demos, runs and     *)
(* streams.                                                                *)
(***************************************************************************)
EXTENDS Demo, RunStore_proofs

LEMMA DemoNames ==
  /\ {DemoStarted, DemoCompleted, DemoFailed} \subseteq Event
  /\ \A k \in 2..5 : Beat(k) \in Event /\ Beat(k) \notin Terminal
  /\ DemoStarted \notin Terminal
  /\ DemoFailed \in Terminal /\ DemoCompleted \in Terminal
  /\ DemoStarted # DemoFailed
<1>1. Terminal \cap DemoEvent = {DemoCompleted, DemoFailed} /\ DemoEvent \subseteq Event
  BY DemoAssumption
<1>2. /\ {DemoStarted, DemoCompleted, DemoFailed} \subseteq DemoEvent
      /\ \A k \in 2..5 : Beat(k) \in DemoEvent
  BY DEF DemoEvent
<1>3. /\ DemoStarted \notin {DemoCompleted, DemoFailed}
      /\ \A k \in 2..5 : Beat(k) \notin {DemoCompleted, DemoFailed}
  BY DEF DemoStarted, DemoCompleted, DemoFailed, Beat, Happened
<1> QED BY <1>1, <1>2, <1>3

(* What DemoInv says of one demo.                                          *)
LEMMA OfDemo ==
  ASSUME DemoInv, NEW d \in DemoId
  PROVE  /\ d \in Channel /\ d \notin Run /\ emitted[d] \in Seq(Event)
         /\ emitted \in [Channel -> Seq(Event)] /\ stored \in [Channel -> Seq(Event)]
         /\ demo \in [DemoId -> [status : {"none", "running", "completed", "failed"},
                                 run : Run \cup {None},
                                 at : {"none", "start", "intake", "appending", "appended",
                                       "collapse", "trail", "packet", "custody", "ended"},
                                 link : {"none", "ok", "failed", "no edges"}]]
         /\ Narrative(d, demo[d], RunOf(d), emitted[d], rejected)
BY DemoAssumption DEF DemoInv, RunInv, LogInv, LogTypeOK, DemosTypeOK, NarrativeInv

(* A demo whose task has not ended may record.                             *)
LEMMA NotOver ==
  ASSUME DemoInv, NEW d \in DemoId, demo[d].at # "ended"
  PROVE  ~Ended(d)
BY OfDemo DEF Narrative, Ended

-----------------------------------------------------------------------------
(* Runs.                                                                   *)

(* A run that completed stays completed.                                   *)
LEMMA CompletedStays ==
  ASSUME RunInv, Next, NEW r \in Run, entry[r].status = "completed"
  PROVE  entry'[r].status = "completed"
<1>1. entry \in [Run -> RunEntry] /\ posted[r] = <<>> /\ entry[r] \in RunEntry
  <2>1. posted[r] = <<>>
    BY OfRun DEF Tells, Places, Before, After
  <2> QED BY <2>1, OfRun DEF RunInv, RunTypeOK
<1>2. ASSUME NEW q \in Run, NEW g \in Generator, StartRun(q, g)
      PROVE  entry'[r].status = "completed"
  <2>1. q # r
    BY <1>2 DEF StartRun
  <2> DEFINE evicted == Registered \ {registry'[i] : i \in DOMAIN registry'}
  <2>2. entry'[r] = entry[r] \/ entry'[r] = [entry[r] EXCEPT !.artifacts = FALSE]
    BY <1>2, <2>1 DEF StartRun
  <2> QED BY <1>1, <2>2 DEF RunEntry
<1>3. CASE Start
  <2>1. FreshId \in Run
    BY <1>3 DEF Start, FreshId, Unused
  <2> QED BY <1>2, <1>3, <2>1 DEF Start
<1>4. ASSUME NEW q \in Run, TakeThread(q) \/ Work(q) \/ Loop(q)
      PROVE  entry'[r].status = "completed"
  <2>1. CASE Resume(q)
    <3>1. q # r
      BY <1>1, <2>1 DEF Resume
    <3> QED BY <1>1, <2>1, <3>1 DEF Resume
  <2>2. CASE TakeThread(q) \/ GetMapper(q) \/ EmitStage(q) \/ EmitCompleted(q)
             \/ PipelineRaises(q) \/ EndThread(q) \/ Deliver(q)
    BY <2>2 DEF TakeThread, GetMapper, EmitStage, EmitCompleted, PipelineRaises, EndThread,
         Deliver
  <2>3. CASE StoreArtifacts(q) \/ StoreResults(q) \/ PersistRun(q) \/ WriteEvalRun(q)
             \/ PersistFails(q)
    <3>1. \/ entry' = [entry EXCEPT ![q].artifacts = TRUE]
          \/ entry' = [entry EXCEPT ![q].results = output[q]]
          \/ entry' = [entry EXCEPT ![q].db_run_id = TRUE]
          \/ entry' = [entry EXCEPT ![q].eval_run_id = TRUE]
          \/ entry' = [entry EXCEPT ![q].persist_error = TRUE]
      BY <2>3 DEF StoreArtifacts, StoreResults, PersistRun, WriteEvalRun, PersistFails
    <3> QED BY <1>1, <3>1 DEF RunEntry
  <2> QED BY <1>4, <2>1, <2>2, <2>3 DEF Work, Loop
<1>5. ASSUME NEW s \in Subscriber, OpenRun(s) \/ Stream(s) \/ Leave(s)
      PROVE  entry'[r].status = "completed"
  BY <1>5 DEF OpenRun, Stream, Leave, runVars
<1> QED BY <1>3, <1>4, <1>5 DEF Next

(* A step of the registry leaves the channels of the demos alone.          *)
LEMMA RunLeavesDemos ==
  ASSUME RunInv, Start \/ \E r \in Run : TakeThread(r) \/ Work(r) \/ Loop(r)
  PROVE  /\ \A d \in DemoId : emitted'[d] = emitted[d] /\ stored'[d] = stored[d]
         /\ UNCHANGED <<phase, chan, base>>
<1>1. DemoId \subseteq Channel /\ DemoId \cap Run = {}
      /\ emitted \in [Channel -> Seq(Event)] /\ stored \in [Channel -> Seq(Event)]
  BY DemoAssumption DEF RunInv, LogInv, LogTypeOK
<1>2. ASSUME NEW r \in Run, NEW e, NEW Evicted \in SUBSET Run, Record(r, e, Evicted)
      PROVE  /\ \A d \in DemoId : emitted'[d] = emitted[d] /\ stored'[d] = stored[d]
             /\ UNCHANGED <<phase, chan, base>>
  BY <1>1, <1>2 DEF Record
<1>3. ASSUME NEW r \in Run, NEW g \in Generator, StartRun(r, g)
      PROVE  /\ \A d \in DemoId : emitted'[d] = emitted[d] /\ stored'[d] = stored[d]
             /\ UNCHANGED <<phase, chan, base>>
  <2> DEFINE evicted == Registered \ {registry'[i] : i \in DOMAIN registry'}
  <2>1. Record(r, RunStarted, evicted)
    BY <1>3 DEF StartRun
  <2>2. evicted \in SUBSET Run
    BY ElementOfSeq, LenProperties DEF Registered, RunInv, RunTypeOK
  <2> HIDE DEF evicted
  <2> QED BY <1>2, <2>1, <2>2
<1>4. ASSUME Start
      PROVE  /\ \A d \in DemoId : emitted'[d] = emitted[d] /\ stored'[d] = stored[d]
             /\ UNCHANGED <<phase, chan, base>>
  <2>1. FreshId \in Run
    BY <1>4 DEF Start, FreshId, Unused
  <2> QED BY <1>3, <1>4, <2>1 DEF Start
<1>5. ASSUME NEW r \in Run, Deliver(r) \/ Resume(r)
      PROVE  /\ \A d \in DemoId : emitted'[d] = emitted[d] /\ stored'[d] = stored[d]
             /\ UNCHANGED <<phase, chan, base>>
  BY <1>2, <1>5 DEF Deliver, Resume, logVars
<1>6. ASSUME NEW r \in Run, TakeThread(r) \/ Work(r)
      PROVE  /\ \A d \in DemoId : emitted'[d] = emitted[d] /\ stored'[d] = stored[d]
             /\ UNCHANGED <<phase, chan, base>>
  BY <1>6 DEF TakeThread, Work, GetMapper, EmitStage, EmitCompleted, PipelineRaises,
       StoreArtifacts, StoreResults, PersistRun, WriteEvalRun, PersistFails, EndThread, logVars
<1> QED BY <1>4, <1>5, <1>6 DEF Loop

(* A step of a demo's task leaves the runs alone.                          *)
LEMMA DemoLeavesRuns ==
  ASSUME RunInv, [LogNext]_logVars,
         UNCHANGED <<registry, entry, worker, stage, mapper, output, posted, cache, db>>,
         faults' \in Nat, \A r \in Run : emitted'[r] = emitted[r]
  PROVE  RunInv'
<1>1. LogInv'
  BY NextKeeps DEF RunInv
<1>2. RunTypeOK'
  BY DEF RunInv, RunTypeOK
<1>3. StoryInv'
  <2>1. \A r \in Run : Tells(worker'[r], entry'[r], emitted'[r], posted'[r])
    BY DEF RunInv, StoryInv
  <2> QED BY <2>1 DEF StoryInv
<1>4. WrittenInv' /\ MapperInv' /\ ServedInv' /\ RowsInv'
  BY DEF RunInv, WrittenInv, MapperInv, ServedInv, RowsInv, Registered
<1> QED BY <1>1, <1>2, <1>3, <1>4 DEF RunInv

(* What one record of a demo does.                                         *)
LEMMA DemoRecords ==
  ASSUME DemoInv, NEW d \in DemoId, NEW e \in Event, demo[d].at # "ended", Record(d, e, {})
  PROVE  /\ LogNext
         /\ emitted'[d] = Append(emitted[d], e) /\ stored'[d] = emitted'[d]
         /\ \A c \in Channel : c # d => emitted'[c] = emitted[c] /\ stored'[c] = stored[c]
         /\ UNCHANGED <<phase, chan, base>>
         /\ DOMAIN emitted'[d] = 1..(Len(emitted[d]) + 1) /\ Len(emitted[d]) \in Nat
         /\ DOMAIN emitted[d] = 1..Len(emitted[d])
         /\ \A i \in DOMAIN emitted[d] : emitted'[d][i] = emitted[d][i]
         /\ emitted'[d][Len(emitted[d]) + 1] = e
<1>1. /\ d \in Channel /\ emitted[d] \in Seq(Event) /\ stored[d] = emitted[d]
      /\ emitted \in [Channel -> Seq(Event)] /\ stored \in [Channel -> Seq(Event)]
  BY OfDemo DEF DemoInv, WholeInv
<1>2. LogNext
  BY <1>1, NotOver DEF LogNext
<1>3. /\ emitted'[d] = Append(emitted[d], e) /\ stored'[d] = emitted'[d]
      /\ \A c \in Channel : c # d => emitted'[c] = emitted[c] /\ stored'[c] = stored[c]
      /\ UNCHANGED <<phase, chan, base>>
  BY <1>1 DEF Record
<1>4. /\ Append(emitted[d], e) \in Seq(Event)
      /\ Len(Append(emitted[d], e)) = Len(emitted[d]) + 1 /\ Len(emitted[d]) \in Nat
      /\ \A i \in 1..Len(emitted[d]) : Append(emitted[d], e)[i] = emitted[d][i]
      /\ Append(emitted[d], e)[Len(emitted[d]) + 1] = e
  BY <1>1, AppendProperties, LenProperties
<1>5. /\ DOMAIN Append(emitted[d], e) = 1..(Len(emitted[d]) + 1)
      /\ DOMAIN emitted[d] = 1..Len(emitted[d])
  BY <1>1, <1>4, LenProperties
<1> QED BY <1>2, <1>3, <1>4, <1>5
-----------------------------------------------------------------------------
(* The demos.                                                              *)
DemoEntries ==
  [status : {"none", "running", "completed", "failed"},
   run : Run \cup {None},
   at : {"none", "start", "intake", "appending", "appended", "collapse", "trail", "packet",
         "custody", "ended"},
   link : {"none", "ok", "failed", "no edges"}]

(* A step of one demo's task keeps the invariant when its narrative does.  *)
LEMMA OneDemo ==
  ASSUME DemoInv, NEW d \in DemoId, RunInv', entry' = entry, demos' = demos,
         demo'[d] \in DemoEntries, demo' = [demo EXCEPT ![d] = demo'[d]],
         rejected' \subseteq rejected \cup {d}, \A c \in rejected : c \in rejected',
         \A c \in DemoId \ {d} : emitted'[c] = emitted[c] /\ stored'[c] = stored[c],
         stored'[d] = emitted'[d], UNCHANGED <<phase, chan, base>>,
         Narrative(d, demo'[d], entry[demo'[d].run], emitted'[d], rejected')
  PROVE  DemoInv'
<1>1. demo \in [DemoId -> DemoEntries] /\ demos \in Seq(DemoId) /\ rejected \subseteq DemoId
  BY DEF DemoInv, DemosTypeOK, DemoEntries
<1>2. demo' \in [DemoId -> DemoEntries] /\ \A c \in DemoId \ {d} : demo'[c] = demo[c]
  BY <1>1
<1>3. DemosTypeOK'
  BY <1>1, <1>2 DEF DemosTypeOK, DemoEntries
<1>4. \A c \in DemoId : Narrative(c, demo'[c], entry'[demo'[c].run], emitted'[c], rejected')
  <2>1. ASSUME NEW c \in DemoId \ {d}
        PROVE  Narrative(c, demo'[c], entry'[demo'[c].run], emitted'[c], rejected')
    <3>1. Narrative(c, demo[c], entry[demo[c].run], emitted[c], rejected)
      BY OfDemo DEF RunOf
    <3>2. (c \in rejected' => c \in rejected) /\ (c \in rejected => c \in rejected')
      OBVIOUS
    <3>3. Narrative(c, demo[c], entry[demo[c].run], emitted[c], rejected')
      BY <3>1, <3>2 DEF Narrative
    <3> QED BY <1>2, <3>3
  <2> QED BY <2>1
<1>5. NarrativeInv'
  BY <1>4 DEF NarrativeInv, RunOf
<1>6. WholeInv'
  BY DEF DemoInv, WholeInv
<1> QED BY <1>3, <1>5, <1>6 DEF DemoInv

(* The two ways a task takes a step: it records an event, or it does not.  *)
LEMMA RecordingKeeps ==
  ASSUME DemoInv, NEW d \in DemoId, NEW e \in Event, demo[d].at # "ended", Record(d, e, {}),
         UNCHANGED <<registry, entry, worker, stage, mapper, output, posted, cache, db>>,
         faults' \in Nat, UNCHANGED <<demos, rejected>>,
         demo'[d] \in DemoEntries, demo' = [demo EXCEPT ![d] = demo'[d]],
         Narrative(d, demo'[d], entry[demo'[d].run], emitted'[d], rejected)
  PROVE  DemoInv'
<1>1. /\ LogNext /\ stored'[d] = emitted'[d]
      /\ \A c \in Channel : c # d => emitted'[c] = emitted[c] /\ stored'[c] = stored[c]
      /\ UNCHANGED <<phase, chan, base>>
  BY DemoRecords
<1>2. Run \subseteq Channel /\ DemoId \subseteq Channel /\ d \notin Run
  BY RegistryAssumption, DemoAssumption
<1>3. RunInv'
  BY <1>1, <1>2, DemoLeavesRuns DEF DemoInv
<1> QED BY <1>1, <1>2, <1>3, OneDemo

LEMMA SilentKeeps ==
  ASSUME DemoInv, NEW d \in DemoId, UNCHANGED logVars,
         UNCHANGED <<registry, entry, worker, stage, mapper, output, posted, cache, db>>,
         faults' \in Nat, demos' = demos,
         rejected' \subseteq rejected \cup {d}, \A c \in rejected : c \in rejected',
         demo'[d] \in DemoEntries, demo' = [demo EXCEPT ![d] = demo'[d]],
         Narrative(d, demo'[d], entry[demo'[d].run], emitted[d], rejected')
  PROVE  DemoInv'
<1>1. UNCHANGED <<emitted, stored, phase, chan, base>> /\ [LogNext]_logVars
  BY DEF logVars
<1>2. RunInv'
  BY <1>1, DemoLeavesRuns DEF DemoInv
<1>3. stored'[d] = emitted'[d]
  BY <1>1 DEF DemoInv, WholeInv
<1> QED BY <1>1, <1>2, <1>3, OneDemo

LEMMA LastOrBefore ==
  ASSUME NEW n \in Nat, NEW i \in 1..(n + 1)
  PROVE  i = n + 1 \/ i \in 1..n
BY SMT

(* A demo that records e and moves on, its narrative unchanged otherwise.  *)
LEMMA Narrates ==
  ASSUME DemoInv, NEW d \in DemoId, NEW e \in Event, demo[d].at # "ended", Record(d, e, {}),
         NEW de \in DemoEntries, NEW en, de.status # "none", de.run \in Run, de.at # "none",
         de.at \in Opening => demo[d].at \in Opening /\ e = DemoStarted,
         de.at # "ended" => e \notin Terminal,
         de.at \in Quoting => en.status = "completed",
         de.at = "ended" => \/ en.status = "completed"
                            \/ demo[d].at \in Opening /\ e \in {DemoStarted, DemoFailed},
         de.at = "intake" => de.link = "none" /\ d \notin rejected,
         de.at \notin {"start", "appending"},
         de.link = "ok" => d \in rejected, de.link = "no edges" => d \notin rejected,
         d \in rejected => en.status = "completed"
  PROVE  Narrative(d, de, en, emitted'[d], rejected)
<1>1. /\ DOMAIN emitted'[d] = 1..(Len(emitted[d]) + 1) /\ Len(emitted[d]) \in Nat
      /\ DOMAIN emitted[d] = 1..Len(emitted[d])
      /\ \A i \in DOMAIN emitted[d] : emitted'[d][i] = emitted[d][i]
      /\ emitted'[d][Len(emitted[d]) + 1] = e
  BY DemoRecords
<1>2. \A i \in DOMAIN emitted'[d] : \/ emitted'[d][i] = e
                                    \/ i \in DOMAIN emitted[d] /\ emitted'[d][i] = emitted[d][i]
  BY <1>1, LastOrBefore
<1>3. /\ demo[d].at \in Opening => \A i \in DOMAIN emitted[d] : emitted[d][i] = DemoStarted
      /\ \A i \in DOMAIN emitted[d] : emitted[d][i] \notin Terminal
  BY OfDemo DEF Narrative
<1>4. de.at \in Opening => \A i \in DOMAIN emitted'[d] : emitted'[d][i] = DemoStarted
  BY <1>2, <1>3
<1>5. de.at # "ended" => \A i \in DOMAIN emitted'[d] : emitted'[d][i] \notin Terminal
  BY <1>2, <1>3
<1>6. de.at = "ended" =>
        \/ en.status = "completed"
        \/ \A i \in DOMAIN emitted'[d] : emitted'[d][i] \in {DemoStarted, DemoFailed}
  BY <1>2, <1>3
<1> QED BY <1>4, <1>5, <1>6 DEF Narrative

(* Each step of the task of a demo keeps the invariant.                    *)
LEMMA Status ==
  ASSUME DemoInv, NEW d \in DemoId
  PROVE  /\ demo[d] \in DemoEntries
         /\ demo[d].at # "none" => demo[d].status # "none" /\ demo[d].run \in Run
         /\ faults \in Nat /\ (SpendFault => faults' \in Nat)
<1>1. demo[d] \in DemoEntries
  BY OfDemo DEF DemoEntries
<1>2. demo[d].at # "none" => demo[d].status # "none" /\ demo[d].run \in Run
  BY OfDemo DEF Narrative
<1>3. faults \in Nat
  BY DEF DemoInv, RunInv, RunTypeOK
<1> QED BY <1>1, <1>2, <1>3 DEF SpendFault

LEMMA MoveOf ==
  ASSUME DemoInv, NEW d \in DemoId, NEW p \in {"intake", "appending", "collapse", "trail",
                                               "packet", "custody"},
         Move(d, p)
  PROVE  /\ demo'[d] \in DemoEntries /\ demo' = [demo EXCEPT ![d] = demo'[d]]
         /\ demo'[d].at = p /\ demo'[d].status = demo[d].status
         /\ demo'[d].run = demo[d].run /\ demo'[d].link = demo[d].link
<1>1. demo \in [DemoId -> DemoEntries] /\ demo[d] \in DemoEntries
  BY OfDemo DEF DemoEntries
<1>2. demo'[d] = [demo[d] EXCEPT !.at = p] /\ demo' = [demo EXCEPT ![d] = demo'[d]]
  BY <1>1 DEF Move
<1> QED BY <1>1, <1>2 DEF DemoEntries

LEMMA OpenNarrativeKeeps ==
  ASSUME DemoInv, NEW d \in DemoId, OpenNarrative(d)
  PROVE  DemoInv'
<1>1. /\ demo[d].at = "start" /\ Record(d, DemoStarted, {}) /\ Move(d, "intake")
      /\ UNCHANGED <<registry, entry, worker, stage, mapper, output, posted, cache, db>>
      /\ faults' = faults /\ UNCHANGED <<demos, rejected>>
  BY DEF OpenNarrative, At, runVars
<1>2. DemoStarted \in Event /\ DemoStarted \notin Terminal
  BY DemoNames
<1>3. /\ demo'[d] \in DemoEntries /\ demo' = [demo EXCEPT ![d] = demo'[d]]
      /\ demo'[d].at = "intake" /\ demo'[d].status = demo[d].status
      /\ demo'[d].run = demo[d].run /\ demo'[d].link = demo[d].link
  BY <1>1, MoveOf
<1>4. /\ demo[d].status # "none" /\ demo[d].run \in Run /\ faults' \in Nat
      /\ demo[d].link = "none" /\ d \notin rejected
  BY <1>1, Status, OfDemo DEF Narrative
<1>5. Narrative(d, demo'[d], entry[demo'[d].run], emitted'[d], rejected)
  BY <1>1, <1>2, <1>3, <1>4, Narrates DEF Opening, Quoting
<1> QED BY <1>1, <1>2, <1>3, <1>4, <1>5, RecordingKeeps

LEMMA BarrierKeeps ==
  ASSUME DemoInv, NEW d \in DemoId, Barrier(d)
  PROVE  DemoInv'
<1>1. /\ demo[d].at = "intake"
      /\ UNCHANGED <<registry, entry, worker, stage, mapper, output, posted, cache, db>>
      /\ faults' = faults /\ UNCHANGED <<demos, rejected>>
  BY DEF Barrier, At, runVars
<1>2. /\ demo[d].status # "none" /\ demo[d].run \in Run /\ faults' \in Nat
      /\ demo[d].link = "none" /\ d \notin rejected /\ demo[d] \in DemoEntries
      /\ demo \in [DemoId -> DemoEntries]
      /\ \A i \in DOMAIN emitted[d] : emitted[d][i] = DemoStarted
      /\ \A i \in DOMAIN emitted[d] : emitted[d][i] \notin Terminal
  BY <1>1, Status, OfDemo DEF Narrative, Opening, DemoEntries
<1>3. CASE /\ RunOf(d).status = "completed" /\ RunOf(d).artifacts
           /\ Move(d, "appending") /\ UNCHANGED logVars
  <2>1. /\ demo'[d] \in DemoEntries /\ demo' = [demo EXCEPT ![d] = demo'[d]]
        /\ demo'[d].at = "appending" /\ demo'[d].status = demo[d].status
        /\ demo'[d].run = demo[d].run /\ demo'[d].link = demo[d].link
    BY <1>3, MoveOf
  <2>2. Narrative(d, demo'[d], entry[demo'[d].run], emitted[d], rejected')
    BY <1>1, <1>2, <1>3, <2>1 DEF Narrative, RunOf, Opening
  <2> QED BY <1>1, <1>2, <1>3, <2>1, <2>2, SilentKeeps
<1>4. CASE /\ RunOf(d).status = "completed" /\ Record(d, Beat(2), {})
           /\ demo' = [demo EXCEPT ![d].at = "collapse", ![d].link = "no edges"]
  <2>1. demo'[d] = [demo[d] EXCEPT !.at = "collapse", !.link = "no edges"]
        /\ demo' = [demo EXCEPT ![d] = demo'[d]]
    BY <1>2, <1>4
  <2>2. /\ demo'[d] \in DemoEntries
        /\ demo'[d].at = "collapse" /\ demo'[d].status = demo[d].status
        /\ demo'[d].run = demo[d].run /\ demo'[d].link = "no edges"
    BY <1>2, <2>1 DEF DemoEntries
  <2>3. Beat(2) \in Event /\ Beat(2) \notin Terminal
    BY DemoNames
  <2>4. Narrative(d, demo'[d], entry[demo'[d].run], emitted'[d], rejected)
    BY <1>1, <1>2, <1>4, <2>2, <2>3, Narrates DEF RunOf, Opening, Quoting
  <2> QED BY <1>1, <1>2, <1>4, <2>1, <2>2, <2>3, <2>4, RecordingKeeps
<1>5. CASE /\ Record(d, DemoFailed, {})
           /\ demo' = [demo EXCEPT ![d].at = "ended", ![d].status = "failed"]
  <2>1. demo'[d] = [demo[d] EXCEPT !.at = "ended", !.status = "failed"]
        /\ demo' = [demo EXCEPT ![d] = demo'[d]]
    BY <1>2, <1>5
  <2>2. /\ demo'[d] \in DemoEntries
        /\ demo'[d].at = "ended" /\ demo'[d].status = "failed"
        /\ demo'[d].run = demo[d].run /\ demo'[d].link = "none"
    BY <1>2, <2>1 DEF DemoEntries
  <2>3. DemoFailed \in Event
    BY DemoNames
  <2>4. Narrative(d, demo'[d], entry[demo'[d].run], emitted'[d], rejected)
    BY <1>1, <1>2, <1>5, <2>2, <2>3, Narrates DEF Opening, Quoting
  <2> QED BY <1>1, <1>2, <1>5, <2>1, <2>2, <2>3, <2>4, RecordingKeeps
<1> QED BY <1>3, <1>4, <1>5 DEF Barrier

LEMMA AppendRejectionKeeps ==
  ASSUME DemoInv, NEW d \in DemoId, AppendRejection(d)
  PROVE  DemoInv'
<1>1. /\ demo[d].at = "appending" /\ UNCHANGED logVars
      /\ UNCHANGED <<registry, entry, worker, stage, mapper, output, posted, cache, db>>
      /\ demos' = demos /\ (faults' = faults \/ SpendFault)
  BY DEF AppendRejection, At, runVars, Fails
<1>2. /\ demo[d].status # "none" /\ demo[d].run \in Run /\ faults' \in Nat
      /\ RunOf(d).status = "completed" /\ demo[d] \in DemoEntries
      /\ demo \in [DemoId -> DemoEntries]
      /\ \A i \in DOMAIN emitted[d] : emitted[d][i] = DemoStarted
      /\ \A i \in DOMAIN emitted[d] : emitted[d][i] \notin Terminal
  <2>1. /\ demo[d].status # "none" /\ demo[d].run \in Run /\ faults' \in Nat
        /\ demo[d] \in DemoEntries
    BY <1>1, Status
  <2>2. demo \in [DemoId -> DemoEntries] /\ Narrative(d, demo[d], RunOf(d), emitted[d], rejected)
    BY OfDemo DEF DemoEntries
  <2> QED BY <1>1, <2>1, <2>2 DEF Narrative, Opening, Quoting
<1>3. PICK link \in {"ok", "failed"}, row \in BOOLEAN :
        /\ link = "ok" => row
        /\ rejected' = IF row THEN rejected \cup {d} ELSE rejected
        /\ demo' = [demo EXCEPT ![d].at = "appended", ![d].link = link]
  BY DEF AppendRejection
<1>4. demo'[d] = [demo[d] EXCEPT !.at = "appended", !.link = link]
      /\ demo' = [demo EXCEPT ![d] = demo'[d]]
  BY <1>2, <1>3
<1>5. /\ demo'[d] \in DemoEntries
      /\ demo'[d].at = "appended" /\ demo'[d].status = demo[d].status
      /\ demo'[d].run = demo[d].run /\ demo'[d].link = link
  BY <1>2, <1>4 DEF DemoEntries
<1>6. Narrative(d, demo'[d], entry[demo'[d].run], emitted[d], rejected')
  BY <1>2, <1>3, <1>5 DEF Narrative, RunOf
<1>7. rejected' \subseteq rejected \cup {d} /\ \A c \in rejected : c \in rejected'
  BY <1>3
<1> QED BY <1>1, <1>2, <1>4, <1>5, <1>6, <1>7, SilentKeeps

(* A beat is emitted, and the task goes on.                                *)
LEMMA BeatKeeps ==
  ASSUME DemoInv, NEW d \in DemoId, NEW k \in 2..5, Record(d, Beat(k), {}),
         NEW p \in {"collapse", "trail", "packet", "custody"}, Move(d, p),
         demo[d].at \in Quoting \ {"appending"}, UNCHANGED <<runVars, demos, rejected>>
  PROVE  DemoInv'
<1>1. /\ UNCHANGED <<registry, entry, worker, stage, mapper, output, posted, cache, db>>
      /\ faults' = faults /\ UNCHANGED <<demos, rejected>>
      /\ demo[d].at # "ended" /\ demo[d].at # "none"
  BY DEF runVars, Quoting
<1>2. /\ demo'[d] \in DemoEntries /\ demo' = [demo EXCEPT ![d] = demo'[d]]
      /\ demo'[d].at = p /\ demo'[d].status = demo[d].status
      /\ demo'[d].run = demo[d].run /\ demo'[d].link = demo[d].link
  BY MoveOf
<1>3. /\ demo[d].status # "none" /\ demo[d].run \in Run /\ faults' \in Nat
      /\ RunOf(d).status = "completed"
      /\ demo[d].link = "ok" => d \in rejected
      /\ demo[d].link = "no edges" => d \notin rejected
  BY <1>1, Status, OfDemo DEF Narrative, Quoting
<1>4. Beat(k) \in Event /\ Beat(k) \notin Terminal
  BY DemoNames
<1>5. Narrative(d, demo'[d], entry[demo'[d].run], emitted'[d], rejected)
  BY <1>1, <1>2, <1>3, <1>4, Narrates DEF RunOf, Opening
<1> QED BY <1>1, <1>2, <1>3, <1>4, <1>5, RecordingKeeps

(* The last event of a demo that reached its beats.                        *)
LEMMA EndKeeps ==
  ASSUME DemoInv, NEW d \in DemoId, NEW e \in {DemoCompleted, DemoFailed}, Record(d, e, {}),
         NEW st \in {"completed", "failed"},
         demo' = [demo EXCEPT ![d].at = "ended", ![d].status = st],
         demo[d].at \in Quoting, UNCHANGED <<demos, rejected>>, faults' \in Nat,
         UNCHANGED <<registry, entry, worker, stage, mapper, output, posted, cache, db>>
  PROVE  DemoInv'
<1>1. /\ demo[d].at # "ended" /\ demo[d].at # "none" /\ e \in Event
  BY DemoNames DEF Quoting
<1>2. /\ demo[d].run \in Run /\ demo[d] \in DemoEntries /\ demo \in [DemoId -> DemoEntries]
      /\ RunOf(d).status = "completed"
      /\ demo[d].link = "ok" => d \in rejected
      /\ demo[d].link = "no edges" => d \notin rejected
  BY <1>1, Status, OfDemo DEF Narrative, DemoEntries
<1>3. demo'[d] = [demo[d] EXCEPT !.at = "ended", !.status = st]
      /\ demo' = [demo EXCEPT ![d] = demo'[d]]
  BY <1>2
<1>4. /\ demo'[d] \in DemoEntries
      /\ demo'[d].at = "ended" /\ demo'[d].status = st
      /\ demo'[d].run = demo[d].run /\ demo'[d].link = demo[d].link
  BY <1>2, <1>3 DEF DemoEntries
<1>5. Narrative(d, demo'[d], entry[demo'[d].run], emitted'[d], rejected)
  BY <1>1, <1>2, <1>4, Narrates DEF RunOf, Opening, Quoting
<1> QED BY <1>1, <1>3, <1>4, <1>5, RecordingKeeps

LEMMA NarrateKeeps ==
  ASSUME DemoInv, NEW d \in DemoId, Narrate(d)
  PROVE  DemoInv'
<1>1. CASE ReportRejection(d)
  BY <1>1, BeatKeeps, 2 \in 2..5 DEF ReportRejection, At, Quoting
<1>2. CASE NextBeat(d)
  <2>1. 3 \in 2..5 /\ 4 \in 2..5 /\ 5 \in 2..5
    OBVIOUS
  <2>2. UNCHANGED <<runVars, demos, rejected>>
    BY <1>2 DEF NextBeat
  <2>3. CASE demo[d].at = "collapse" /\ Record(d, Beat(3), {}) /\ Move(d, "trail")
    BY <2>1, <2>2, <2>3, BeatKeeps DEF Quoting
  <2>4. CASE demo[d].at = "trail" /\ Record(d, Beat(4), {}) /\ Move(d, "packet")
    BY <2>1, <2>2, <2>4, BeatKeeps DEF Quoting
  <2>5. CASE demo[d].at = "packet" /\ Record(d, Beat(5), {}) /\ Move(d, "custody")
    BY <2>1, <2>2, <2>5, BeatKeeps DEF Quoting
  <2> QED BY <1>2, <2>3, <2>4, <2>5 DEF NextBeat, At
<1>3. CASE BeatRaises(d)
  BY <1>3, EndKeeps, Status DEF BeatRaises, At, Quoting, Fails
<1>4. CASE CompleteDemo(d)
  BY <1>4, EndKeeps, Status DEF CompleteDemo, At, Quoting, runVars
<1> QED BY <1>1, <1>2, <1>3, <1>4, OpenNarrativeKeeps, BarrierKeeps, AppendRejectionKeeps
     DEF Narrate
-----------------------------------------------------------------------------
(* The other steps: of the runs, of a demo that starts, of the streams.    *)
LEMMA NarrativeStays ==
  ASSUME NEW d, NEW de, NEW en, NEW en2, NEW em, NEW rows, Narrative(d, de, en, em, rows),
         de.run \in Run /\ en.status = "completed" => en2.status = "completed"
  PROVE  Narrative(d, de, en2, em, rows)
BY DEF Narrative, Quoting

LEMMA RunStepKeeps ==
  ASSUME DemoInv, RunStep
  PROVE  DemoInv'
<1>1. /\ Start \/ \E r \in Run : TakeThread(r) \/ Work(r) \/ Loop(r)
      /\ demos' = demos /\ demo' = demo /\ rejected' = rejected
  BY DEF RunStep, demoVars
<1>2. Next /\ RunInv
  BY <1>1 DEF Next, DemoInv
<1>3. RunInv'
  BY <1>2, RunNextKeeps
<1>4. /\ \A d \in DemoId : emitted'[d] = emitted[d] /\ stored'[d] = stored[d]
      /\ UNCHANGED <<phase, chan, base>>
  BY <1>1, <1>2, RunLeavesDemos
<1>5. \A d \in DemoId : Narrative(d, demo'[d], entry'[demo'[d].run], emitted'[d], rejected')
  <2>1. ASSUME NEW d \in DemoId
        PROVE  Narrative(d, demo[d], entry'[demo[d].run], emitted[d], rejected)
    <3>1. Narrative(d, demo[d], entry[demo[d].run], emitted[d], rejected)
      BY OfDemo DEF RunOf
    <3>2. demo[d].run \in Run /\ entry[demo[d].run].status = "completed" =>
            entry'[demo[d].run].status = "completed"
      BY <1>2, CompletedStays
    <3> QED BY <3>1, <3>2, NarrativeStays
  <2> QED BY <1>1, <1>4, <2>1
<1>6. NarrativeInv'
  BY <1>5 DEF NarrativeInv, RunOf
<1>7. DemosTypeOK' /\ WholeInv'
  BY <1>1, <1>4 DEF DemoInv, DemosTypeOK, WholeInv
<1> QED BY <1>3, <1>6, <1>7 DEF DemoInv

LEMMA KeptDemosType ==
  ASSUME NEW q \in Seq(DemoId)
  PROVE  KeptDemos(q) \in Seq(DemoId)
<1> DEFINE n == Len(q)
           lo == n - MAX_RETAINED_DEMOS + 1
<1>1. n \in Nat /\ MAX_RETAINED_DEMOS \in Nat \ {0}
  BY LenProperties, DemoAssumption
<1>2. CASE n > MAX_RETAINED_DEMOS
  <2>1. lo \in Int /\ n \in Int /\ \A i \in lo..n : i \in 1..n
    BY <1>1, <1>2
  <2>2. \A i \in lo..n : q[i] \in DemoId
    BY <2>1, ElementOfSeq
  <2>3. SubSeq(q, lo, n) \in Seq(DemoId)
    BY <2>1, <2>2, SubSeqProperties
  <2> QED BY <1>2, <2>3 DEF KeptDemos
<1>3. CASE ~(n > MAX_RETAINED_DEMOS)
  BY <1>3 DEF KeptDemos
<1> QED BY <1>2, <1>3

LEMMA StartDemoKeeps ==
  ASSUME DemoInv, NEW d \in DemoId, StartDemo(d)
  PROVE  DemoInv'
<1>1. /\ demo[d].status = "none" /\ Start
      /\ demos' = KeptDemos(Append(demos, d)) /\ rejected' = rejected
      /\ demo' = [demo EXCEPT ![d] = [NoDemo EXCEPT !.status = "running", !.run = FreshId,
                                                    !.at = "start"]]
  BY RegistryAssumption DEF StartDemo, Start
<1>2. Next /\ RunInv /\ FreshId \in Run
  BY <1>1 DEF Next, DemoInv, Start, FreshId, Unused
<1>3. RunInv'
  BY <1>2, RunNextKeeps
<1>4. /\ \A c \in DemoId : emitted'[c] = emitted[c] /\ stored'[c] = stored[c]
      /\ UNCHANGED <<phase, chan, base>>
  BY <1>1, <1>2, RunLeavesDemos
<1>5. /\ demo \in [DemoId -> DemoEntries] /\ demos \in Seq(DemoId) /\ rejected \subseteq DemoId
  BY DEF DemoInv, DemosTypeOK, DemoEntries
<1> DEFINE new == [NoDemo EXCEPT !.status = "running", !.run = FreshId, !.at = "start"]
<1>6. /\ new \in DemoEntries /\ new.status = "running" /\ new.run = FreshId
      /\ new.at = "start" /\ new.link = "none"
  BY <1>2 DEF NoDemo, DemoEntries
<1> HIDE DEF new
<1>7. /\ demo'[d] = new
      /\ \A c \in DemoId \ {d} : demo'[c] = demo[c]
      /\ demo' \in [DemoId -> DemoEntries]
  BY <1>1, <1>5, <1>6 DEF new
<1>8. \A c \in DemoId : Narrative(c, demo'[c], entry'[demo'[c].run], emitted'[c], rejected')
  <2>1. ASSUME NEW c \in DemoId, c # d
        PROVE  Narrative(c, demo'[c], entry'[demo'[c].run], emitted'[c], rejected')
    <3>1. Narrative(c, demo[c], entry[demo[c].run], emitted[c], rejected)
      BY OfDemo DEF RunOf
    <3>2. demo[c].run \in Run /\ entry[demo[c].run].status = "completed" =>
            entry'[demo[c].run].status = "completed"
      BY <1>2, CompletedStays
    <3>3. Narrative(c, demo[c], entry'[demo[c].run], emitted[c], rejected)
      BY <3>1, <3>2, NarrativeStays
    <3>4. demo'[c] = demo[c] /\ emitted'[c] = emitted[c] /\ rejected' = rejected
      BY <1>1, <1>4, <1>7, <2>1
    <3> QED BY <3>3, <3>4
  <2>2. Narrative(d, new, entry'[FreshId], emitted[d], rejected)
    <3>1. Narrative(d, demo[d], RunOf(d), emitted[d], rejected)
      BY OfDemo
    <3>2. /\ \A i \in DOMAIN emitted[d] : emitted[d][i] = DemoStarted
          /\ \A i \in DOMAIN emitted[d] : emitted[d][i] \notin Terminal
          /\ d \notin rejected
      BY <1>1, <3>1 DEF Narrative, Opening
    <3> QED BY <1>2, <1>6, <3>2 DEF Narrative, Opening, Quoting
  <2>3. Narrative(d, demo'[d], entry'[demo'[d].run], emitted'[d], rejected')
    BY <1>1, <1>4, <1>6, <1>7, <2>2
  <2> QED BY <2>1, <2>3
<1>9. NarrativeInv'
  BY <1>8 DEF NarrativeInv, RunOf
<1>10. DemosTypeOK'
  <2>1. demos' \in Seq(DemoId)
    <3>1. Append(demos, d) \in Seq(DemoId)
      BY <1>5, AppendProperties
    <3> QED BY <1>1, <3>1, KeptDemosType
  <2>2. demo' \in [DemoId -> DemoEntries]
    BY <1>7
  <2>3. rejected' \subseteq DemoId
    BY <1>1, <1>5
  <2> QED BY <2>1, <2>2, <2>3 DEF DemosTypeOK, DemoEntries
<1>11. WholeInv'
  BY <1>4 DEF DemoInv, WholeInv
<1> QED BY <1>3, <1>9, <1>10, <1>11 DEF DemoInv

LEMMA DemoStreamKeeps ==
  ASSUME DemoInv, NEW s \in Subscriber, OpenDemo(s) \/ DemoStream(s) \/ DemoLeave(s)
  PROVE  DemoInv'
<1>1. /\ UNCHANGED <<registry, entry, worker, stage, mapper, output, posted, cache, db>>
      /\ faults' \in Nat /\ UNCHANGED <<demos, demo, rejected>>
  <2>1. UNCHANGED <<registry, entry, worker, stage, mapper, output, posted, cache, db>>
        /\ (faults' = faults \/ SpendFault)
    BY DEF OpenDemo, DemoStream, DemoLeave, Stream, Leave, runVars
  <2>2. faults \in Nat /\ UNCHANGED <<demos, demo, rejected>>
    BY DEF OpenDemo, DemoStream, DemoLeave, demoVars, DemoInv, RunInv, RunTypeOK
  <2> QED BY <2>1, <2>2 DEF SpendFault
<1>2. /\ Open(s, chan'[s]) /\ chan'[s] \in DemoId
      \/ Generate(s)
      \/ Disconnect(s)
  <2>1. CASE OpenDemo(s)
    <3>1. demos \in Seq(DemoId) /\ chan \in [Subscriber -> Channel \cup {None}]
      BY DEF DemoInv, DemosTypeOK, RunInv, LogInv, LogTypeOK
    <3>2. PICK i \in DOMAIN demos : Open(s, demos[i])
      BY <2>1 DEF OpenDemo
    <3>3. demos[i] \in DemoId /\ chan'[s] = demos[i]
      BY <3>1, <3>2, ElementOfSeq, LenProperties DEF Open
    <3> QED BY <3>2, <3>3
  <2>2. CASE DemoStream(s) \/ DemoLeave(s)
    BY <2>2 DEF DemoStream, DemoLeave, Stream, Leave
  <2> QED BY <2>1, <2>2
<1>3. LogNext
  BY <1>2, DemoAssumption DEF LogNext
<1>4. emitted' = emitted /\ stored' = stored
  BY <1>2 DEF Open, Generate, Subscribe, Replay, StartTail, Forward, Close, Disconnect
<1>5. RunInv'
  BY <1>1, <1>3, <1>4, DemoLeavesRuns DEF DemoInv
<1>6. NarrativeInv' /\ DemosTypeOK'
  BY <1>1, <1>4 DEF DemoInv, DemosTypeOK, NarrativeInv, RunOf
<1>7. /\ phase \in [Subscriber -> {"idle", "accepted", "replay", "tail", "closed", "gone"}]
      /\ base \in [Subscriber -> Nat] /\ chan \in [Subscriber -> Channel \cup {None}]
      /\ \A t \in Subscriber : base[t] = 0 /\ (phase[t] # "idle" => chan[t] \in DemoId)
      /\ \A d \in DemoId : stored[d] = emitted[d]
      /\ \A d \in DemoId : Len(emitted[d]) \in Nat
  BY OfDemo, LenProperties DEF DemoInv, WholeInv, RunInv, LogInv, LogTypeOK
<1>8. \A t \in Subscriber : base'[t] = 0 /\ (phase'[t] # "idle" => chan'[t] \in DemoId)
  <2>1. CASE Open(s, chan'[s]) /\ chan'[s] \in DemoId
    BY <1>7, <2>1 DEF Open
  <2>2. CASE Subscribe(s)
    <3>1. phase[s] = "accepted" /\ chan[s] \in DemoId
      BY <1>7, <2>2 DEF Subscribe
    <3>2. Len(emitted[chan[s]]) - Len(stored[chan[s]]) = 0
      BY <1>7, <3>1
    <3> QED BY <1>7, <2>2, <3>1, <3>2 DEF Subscribe
  <2>3. CASE Replay(s) \/ StartTail(s) \/ Forward(s) \/ Close(s) \/ Disconnect(s)
    BY <1>7, <2>3 DEF Replay, StartTail, Forward, Close, Disconnect
  <2> QED BY <1>2, <2>1, <2>2, <2>3 DEF Generate
<1>9. WholeInv'
  BY <1>4, <1>7, <1>8 DEF WholeInv
<1> QED BY <1>5, <1>6, <1>9 DEF DemoInv

LEMMA DemoInitKeeps == DemoInit => DemoInv
<1> SUFFICES ASSUME DemoInit PROVE DemoInv
  OBVIOUS
<1>1. RunInv
  BY RunInitKeeps DEF DemoInit
<1>2. /\ \A d \in DemoId : emitted[d] = <<>> /\ stored[d] = <<>> /\ demo[d] = NoDemo
      /\ \A s \in Subscriber : base[s] = 0 /\ phase[s] = "idle"
      /\ rejected = {}
  BY DemoAssumption DEF DemoInit, Init, LogInit
<1>3. DemosTypeOK
  BY DEF DemoInit, DemosTypeOK, NoDemo
<1>4. \A d \in DemoId : Narrative(d, demo[d], RunOf(d), emitted[d], rejected)
  <2>1. ASSUME NEW d \in DemoId, NEW en PROVE Narrative(d, NoDemo, en, <<>>, {})
    BY DEF Narrative, NoDemo, Quoting
  <2> QED BY <1>2, <2>1
<1>5. WholeInv
  BY <1>2 DEF WholeInv
<1> QED BY <1>1, <1>3, <1>4, <1>5 DEF DemoInv, NarrativeInv

LEMMA DemoNextKeeps ==
  ASSUME DemoInv, [DemoNext]_allVars
  PROVE  DemoInv'
<1>1. CASE DemoNext
  BY <1>1, RunStepKeeps, StartDemoKeeps, NarrateKeeps, DemoStreamKeeps DEF DemoNext
<1>2. CASE UNCHANGED allVars
  <2>1. UNCHANGED vars /\ UNCHANGED logVars /\ UNCHANGED demoVars /\ UNCHANGED runVars
    BY <1>2 DEF allVars, vars
  <2>2. RunInv'
    BY <2>1, RunNextKeeps DEF DemoInv
  <2>3. DemosTypeOK' /\ NarrativeInv' /\ WholeInv'
    BY <2>1 DEF DemoInv, DemosTypeOK, NarrativeInv, WholeInv, RunOf, demoVars, logVars, runVars
  <2> QED BY <2>2, <2>3 DEF DemoInv
<1> QED BY <1>1, <1>2

(* The invariant of the demos over their runs, for every number of them    *)
(* and every size of the two registries (demo.py).                         *)
THEOREM DemoInvariance == DemoSpec => []DemoInv
<1>1. DemoInit => DemoInv
  BY DemoInitKeeps
<1>2. DemoInv /\ [DemoNext]_allVars => DemoInv'
  BY DemoNextKeeps
<1> QED BY <1>1, <1>2, PTL DEF DemoSpec

(* Everything said after beat 1 is about a run that completed (demo.py,    *)
(* the barrier of _orchestrate).                                           *)
THEOREM BeatsQuoteCompletedRuns == DemoSpec => []NarratesCompletedRun
<1>1. DemoInv => NarratesCompletedRun
  <2> SUFFICES ASSUME DemoInv, NEW d \in DemoId, NEW i \in DOMAIN emitted[d],
                      emitted[d][i] \notin {DemoStarted, DemoFailed}
               PROVE  RunOf(d).status = "completed"
    BY DEF NarratesCompletedRun
  <2>1. demo[d].at \in Opening \cup Quoting \cup {"ended"}
    BY OfDemo DEF Opening, Quoting
  <2> QED BY <2>1, OfDemo DEF Narrative
<1> QED BY <1>1, DemoInvariance, PTL

(* A rejection shown as done is a row of the chain, and no row is about a  *)
(* run that did not complete (demo.py, beat 2).                            *)
THEOREM RejectionsAreAudited == DemoSpec => []RejectionIsAudited
<1>1. DemoInv => RejectionIsAudited
  BY OfDemo DEF RejectionIsAudited, Narrative
<1> QED BY <1>1, DemoInvariance, PTL

(* A stream of beats that ended has shown every beat of its demo           *)
(* (api/routers/demo.py gen).                                              *)
THEOREM StreamsShowEveryBeat == DemoSpec => []EveryBeatShown
<1>1. DemoInv => EveryBeatShown
  <2> SUFFICES ASSUME DemoInv, NEW s \in Subscriber, phase[s] = "closed"
               PROVE  got[s] = emitted[chan[s]]
    BY DEF EveryBeatShown
  <2>1. got[s] = Suffix(emitted[chan[s]], 0) /\ chan[s] \in DemoId
    BY DEF DemoInv, RunInv, LogInv, ClosedIsComplete, Since, WholeInv
  <2>2. emitted[chan[s]] \in Seq(Event)
    BY <2>1, OfDemo
  <2> QED BY <2>1, <2>2, SuffixEnds
<1> QED BY <1>1, DemoInvariance, PTL
=============================================================================
