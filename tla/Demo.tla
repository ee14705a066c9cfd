-------------------------------- MODULE Demo --------------------------------
(***************************************************************************)
(* The five-beat demo over one real run (demo.py, api/routers/demo.py): a  *)
(* task of the event loop that starts a run, narrates it in its own event  *)
(* channel, appends one link rejection to the audit chain and quotes the   *)
(* finished run.                                                           *)
(*                                                                         *)
(* demo.started and the first beat are emitted in one step and are one     *)
(* event here.  Streams of the run channel are in RunStore; the streams    *)
(* here are those of the demo channel.                                     *)
(***************************************************************************)
EXTENDS RunStore

CONSTANTS
  DemoId,
  MAX_RETAINED_DEMOS

DemoStarted == Happened("demo.started", 1)
Beat(k) == Happened("demo.beat", k)
DemoCompleted == Happened("demo.completed", 0)
DemoFailed == Happened("demo.failed", 0)
DemoEvent == {DemoStarted, DemoCompleted, DemoFailed} \cup {Beat(k) : k \in 2..5}

ASSUME DemoAssumption ==
  /\ DemoId \subseteq Channel
  /\ DemoId \cap Run = {}
  /\ DemoEvent \subseteq Event
  /\ Terminal \cap DemoEvent = {DemoCompleted, DemoFailed}
  /\ MAX_RETAINED_DEMOS \in Nat \ {0}

VARIABLES
  demos,     \* _demos: demo ids in insertion order
  demo,      \* the DemoEntry of each demo, and where its task stands
  rejected   \* demos whose link rejection is a row of the audit chain

demoVars == <<demos, demo, rejected>>
allVars == <<vars, demoVars>>

(* link_rejected of beat 2: none yet, the row was appended, the append     *)
(* failed, or the run had no edge to reject.                               *)
NoDemo == [status |-> "none", run |-> None, at |-> "none", link |-> "none"]

DemoInit ==
  /\ Init
  /\ demos = <<>>
  /\ demo = [d \in DemoId |-> NoDemo]
  /\ rejected = {}

KeptDemos(ids) ==
  IF Len(ids) > MAX_RETAINED_DEMOS
  THEN SubSeq(ids, Len(ids) - MAX_RETAINED_DEMOS + 1, Len(ids))
  ELSE ids

(* start_demo: runstore.start_run does not await, so the run and the demo  *)
(* are registered in one step.  _evict_old_demos only forgets the entry.   *)
StartDemo(d) ==
  /\ demo[d].status = "none"
  /\ Unused # {}
  /\ StartRun(FreshId, Stub)
  /\ demos' = KeptDemos(Append(demos, d))
  /\ demo' = [demo EXCEPT ![d] = [NoDemo EXCEPT !.status = "running", !.run = FreshId,
                                                !.at = "start"]]
  /\ UNCHANGED rejected

Fails ==
  /\ SpendFault
  /\ UNCHANGED <<registry, entry, worker, stage, mapper, output, posted, cache, db>>

At(d, place) == demo[d].at = place
Move(d, place) == demo' = [demo EXCEPT ![d].at = place]

(* The task starts. *)
OpenNarrative(d) ==
  /\ At(d, "start")
  /\ Record(d, DemoStarted, {})
  /\ Move(d, "intake")
  /\ UNCHANGED <<runVars, demos, rejected>>

RunOf(d) == entry[demo[d].run]

(* Mutant: the run's task is not awaited. *)
BarrierSkipsWait(d) ==
  /\ At(d, "intake")
  /\ \/ /\ RunOf(d).artifacts
        /\ Move(d, "appending")
        /\ UNCHANGED logVars
     \/ /\ ~RunOf(d).artifacts
        /\ Record(d, Beat(2), {})
        /\ demo' = [demo EXCEPT ![d].at = "collapse", ![d].link = "no edges"]
  /\ UNCHANGED <<runVars, demos, rejected>>

(* The barrier: beat 1 dwelt and the run's task is done.  A run that did   *)
(* not complete fails the demo; a completed one has its strongest edge     *)
(* rejected, unless its artifacts were evicted meanwhile.                  *)
Barrier(d) ==
  /\ At(d, "intake")
  /\ \/ /\ RunOf(d).status = "completed" /\ RunOf(d).artifacts
        /\ Move(d, "appending")
        /\ UNCHANGED logVars
     \/ /\ RunOf(d).status = "completed" /\ ~RunOf(d).artifacts
        /\ Record(d, Beat(2), {})
        /\ demo' = [demo EXCEPT ![d].at = "collapse", ![d].link = "no edges"]
     \/ /\ RunOf(d).status = "failed"
        /\ Record(d, DemoFailed, {})
        /\ demo' = [demo EXCEPT ![d].at = "ended", ![d].status = "failed"]
  /\ UNCHANGED <<runVars, demos, rejected>>

(* Mutant: success is assumed before the append is awaited. *)
AppendOptimistic(d) ==
  /\ At(d, "appending")
  /\ demo' = [demo EXCEPT ![d].at = "appended", ![d].link = "ok"]
  /\ \E kept \in BOOLEAN : rejected' = IF kept THEN rejected \cup {d} ELSE rejected
  /\ UNCHANGED <<vars, demos>>

(* await repo.append_audit: appended, failed, or appended and the reply    *)
(* was lost; a failure is caught and becomes the content of the beat.      *)
AppendRejection(d) ==
  /\ At(d, "appending")
  /\ \E link \in {"ok", "failed"}, row \in BOOLEAN :
       /\ link = "ok" => row
       /\ rejected' = IF row THEN rejected \cup {d} ELSE rejected
       /\ demo' = [demo EXCEPT ![d].at = "appended", ![d].link = link]
       /\ IF link = "ok" THEN UNCHANGED runVars ELSE Fails
  /\ UNCHANGED <<logVars, demos>>

ReportRejection(d) ==
  /\ At(d, "appended")
  /\ Record(d, Beat(2), {})
  /\ Move(d, "collapse")
  /\ UNCHANGED <<runVars, demos, rejected>>

(* Beats 3, 4 and 5, each after the dwell of the one before. *)
NextBeat(d) ==
  /\ \/ At(d, "collapse") /\ Record(d, Beat(3), {}) /\ Move(d, "trail")
     \/ At(d, "trail") /\ Record(d, Beat(4), {}) /\ Move(d, "packet")
     \/ At(d, "packet") /\ Record(d, Beat(5), {}) /\ Move(d, "custody")
  /\ UNCHANGED <<runVars, demos, rejected>>

(* plant_fabrication raises in beat 4. *)
BeatRaises(d) ==
  /\ At(d, "trail")
  /\ Record(d, DemoFailed, {})
  /\ demo' = [demo EXCEPT ![d].at = "ended", ![d].status = "failed"]
  /\ Fails
  /\ UNCHANGED <<demos, rejected>>

(* Mutant: the end is a status, not an event. *)
CompleteDemoMute(d) ==
  /\ At(d, "custody")
  /\ demo' = [demo EXCEPT ![d].at = "ended", ![d].status = "completed"]
  /\ UNCHANGED <<vars, demos, rejected>>

CompleteDemo(d) ==
  /\ At(d, "custody")
  /\ Record(d, DemoCompleted, {})
  /\ demo' = [demo EXCEPT ![d].at = "ended", ![d].status = "completed"]
  /\ UNCHANGED <<runVars, demos, rejected>>

Narrate(d) ==
  \/ OpenNarrative(d) \/ Barrier(d) \/ AppendRejection(d) \/ ReportRejection(d)
  \/ NextBeat(d) \/ BeatRaises(d) \/ CompleteDemo(d)

(* GET /api/stream/demo/{demo_id} *)
OpenDemo(s) ==
  /\ \E i \in DOMAIN demos : Open(s, demos[i])
  /\ UNCHANGED <<runVars, demoVars>>

RunStep ==
  /\ Start \/ \E r \in Run : TakeThread(r) \/ Work(r) \/ Loop(r)
  /\ UNCHANGED demoVars

DemoStream(s) == Stream(s) /\ UNCHANGED demoVars

DemoLeave(s) == Leave(s) /\ UNCHANGED demoVars

DemoNext ==
  \/ RunStep
  \/ \E d \in DemoId : StartDemo(d) \/ Narrate(d)
  \/ \E s \in Subscriber : OpenDemo(s) \/ DemoStream(s) \/ DemoLeave(s)

DemoSpec == DemoInit /\ [][DemoNext]_allVars

(* As in RunStore; the dwells of the beats end. *)
DemoFairness ==
  /\ \A r \in Run : /\ SF_allVars(TakeThread(r) /\ UNCHANGED demoVars)
                    /\ WF_allVars(Work(r) /\ UNCHANGED demoVars)
                    /\ WF_allVars(Loop(r) /\ UNCHANGED demoVars)
  /\ \A d \in DemoId : WF_allVars(Narrate(d))
  /\ \A s \in Subscriber : WF_allVars(DemoStream(s))

DemoFairSpec == DemoSpec /\ DemoFairness
-----------------------------------------------------------------------------
(* The demos and where their tasks stand (demo.py, DemoEntry). *)
DemosTypeOK ==
  /\ demos \in Seq(DemoId)
  /\ demo \in [DemoId -> [status : {"none", "running", "completed", "failed"},
                          run : Run \cup {None},
                          at : {"none", "start", "intake", "appending", "appended", "collapse",
                                "trail", "packet", "custody", "ended"},
                          link : {"none", "ok", "failed", "no edges"}]]
  /\ rejected \subseteq DemoId
DemoTypeOK == TypeOK /\ DemosTypeOK

(* Everything the narrator says after beat 1 is about a run that           *)
(* completed: the beats that quote results and artifacts never run over a  *)
(* pipeline that is still working or has failed (demo.py, the barrier).    *)
NarratesCompletedRun ==
  \A d \in DemoId : \A i \in DOMAIN emitted[d] :
    emitted[d][i] \notin {DemoStarted, DemoFailed} => RunOf(d).status = "completed"

(* The rejection the audience is shown as done is a row of the audit       *)
(* chain; a demo that shows none because its run had no edge wrote none;   *)
(* and no demo ever writes one about a run that did not complete.          *)
RejectionIsAudited ==
  \A d \in DemoId :
    /\ Beat(2) \in {emitted[d][i] : i \in DOMAIN emitted[d]} /\ demo[d].link = "ok" =>
         d \in rejected
    /\ demo[d].link = "no edges" => d \notin rejected
    /\ d \in rejected => RunOf(d).status = "completed"

(* Every demo that starts is over some time later, in its status and in    *)
(* its channel, whatever becomes of its run.                               *)
DemoEnds ==
  \A d \in DemoId :
    demo[d].status = "running" ~>
      /\ demo[d].status \in {"completed", "failed"}
      /\ Ended(d)

(* Nothing clears the events of an evicted demo, so a stream of beats that *)
(* ended has shown every beat, also one that subscribed after newer demos  *)
(* pushed its demo out of the registry.                                    *)
EveryBeatShown ==
  \A s \in Subscriber : phase[s] = "closed" => got[s] = emitted[chan[s]]
-----------------------------------------------------------------------------
(* The inductive invariant behind these: where the task of a demo stands   *)
(* (de), its run (en), what it emitted (em) and the rows it wrote (rows).  *)
Opening == {"none", "start", "intake", "appending", "appended"}
Quoting == {"appending", "appended", "collapse", "trail", "packet", "custody"}

Narrative(d, de, en, em, rows) ==
  /\ de.status = "none" => de.at = "none"
  /\ de.at # "none" => de.run \in Run
  /\ de.at \in Opening => \A i \in DOMAIN em : em[i] = DemoStarted
  /\ de.at # "ended" => \A i \in DOMAIN em : em[i] \notin Terminal
  /\ de.at \in Quoting => en.status = "completed"
  /\ de.at = "ended" =>
       en.status = "completed" \/ \A i \in DOMAIN em : em[i] \in {DemoStarted, DemoFailed}
  /\ de.at \in {"none", "start", "intake", "appending"} => de.link = "none" /\ d \notin rows
  /\ de.link = "ok" => d \in rows
  /\ de.link = "no edges" => d \notin rows
  /\ d \in rows => en.status = "completed"
NarrativeInv == \A d \in DemoId : Narrative(d, demo[d], RunOf(d), emitted[d], rejected)

(* No event of a demo is ever dropped, and no stream missed one.           *)
WholeInv ==
  /\ \A d \in DemoId : stored[d] = emitted[d]
  /\ \A s \in Subscriber : base[s] = 0 /\ (phase[s] # "idle" => chan[s] \in DemoId)

DemoInv == RunInv /\ DemosTypeOK /\ NarrativeInv /\ WholeInv
=============================================================================
