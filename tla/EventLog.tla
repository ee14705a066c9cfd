------------------------------ MODULE EventLog ------------------------------
(***************************************************************************)
(* An event channel of the api process: the list of recorded events of one *)
(* run or demo, the queues of its subscribers, and the generator that      *)
(* serves one SSE stream (api/runstore.py and demo.py: _append, _emit,     *)
(* subscribe, unsubscribe; api/sse.py and api/routers/demo.py: gen).       *)
(*                                                                         *)
(* Recording, subscribing and reading a queue all run on the event-loop    *)
(* thread, each without an await in the middle, so each is one step.  A    *)
(* generator gives way between two events it yields.                       *)
(***************************************************************************)
EXTENDS Naturals, Sequences

CONSTANTS
  Channel,     \* runs (and demos)
  Subscriber,  \* SSE streams
  Event,       \* what may be recorded
  Terminal,    \* TERMINAL_EVENTS
  None         \* the stream has no channel yet

ASSUME TerminalAssumption == Terminal \subseteq Event
ASSUME NoneAssumption == None \notin Channel

VARIABLES
  stored,   \* entry.events of each channel
  emitted,  \* history: every event the channel ever recorded
  phase,    \* idle, accepted, replay, tail, closed or gone
  chan,     \* the channel each stream was opened on
  replay,   \* what is left of its snapshot
  queue,    \* its live queue
  base,     \* history: events the channel had dropped when it subscribed
  got       \* history: events forwarded to the client

logVars == <<stored, emitted, phase, chan, replay, queue, base, got>>

LogInit ==
  /\ stored = [c \in Channel |-> <<>>]
  /\ emitted = [c \in Channel |-> <<>>]
  /\ phase = [s \in Subscriber |-> "idle"]
  /\ chan = [s \in Subscriber |-> None]
  /\ replay = [s \in Subscriber |-> <<>>]
  /\ queue = [s \in Subscriber |-> <<>>]
  /\ base = [s \in Subscriber |-> 0]
  /\ got = [s \in Subscriber |-> <<>>]

(* The queue of s is in entry.queues: the generator is inside its try. *)
Subscribed(s, c) == phase[s] \in {"replay", "tail"} /\ chan[s] = c

SawTerminal(s) == \E i \in DOMAIN got[s] : got[s][i] \in Terminal

(* Mutant: the list that is iterated is the stored events, so only streams *)
(* that have finished their replay are in it.                              *)
RecordMissesReplay(c, e, Evicted) ==
  /\ stored' = [d \in Channel |-> IF d \in Evicted THEN <<>>
                                  ELSE IF d = c THEN Append(stored[d], e)
                                  ELSE stored[d]]
  /\ emitted' = [emitted EXCEPT ![c] = Append(@, e)]
  /\ queue' = [s \in Subscriber |-> IF chan[s] = c /\ phase[s] = "tail"
                                    THEN Append(queue[s], e) ELSE queue[s]]
  /\ UNCHANGED <<phase, chan, replay, base, got>>

(* The event is recorded and put in the queue of every subscriber.  The    *)
(* entries in Evicted leave the registry in the same step, before the      *)
(* event, and lose their list: their streams keep their queues.            *)
Record(c, e, Evicted) ==
  /\ stored' = [d \in Channel |-> IF d \in Evicted THEN <<>>
                                  ELSE IF d = c THEN Append(stored[d], e)
                                  ELSE stored[d]]
  /\ emitted' = [emitted EXCEPT ![c] = Append(@, e)]
  /\ queue' = [s \in Subscriber |-> IF Subscribed(s, c) THEN Append(queue[s], e)
                                                        ELSE queue[s]]
  /\ UNCHANGED <<phase, chan, replay, base, got>>

(* The handler of GET /api/stream/...: the entry was found. *)
Open(s, c) ==
  /\ phase[s] = "idle"
  /\ phase' = [phase EXCEPT ![s] = "accepted"]
  /\ chan' = [chan EXCEPT ![s] = c]
  /\ UNCHANGED <<stored, emitted, replay, queue, base, got>>

(* The generator starts, some time after the handler returned: snapshot    *)
(* and registration, with no await between them.                           *)
Subscribe(s) ==
  /\ phase[s] = "accepted"
  /\ phase' = [phase EXCEPT ![s] = "replay"]
  /\ replay' = [replay EXCEPT ![s] = stored[chan[s]]]
  /\ base' = [base EXCEPT ![s] = Len(emitted[chan[s]]) - Len(stored[chan[s]])]
  /\ UNCHANGED <<stored, emitted, chan, queue, got>>

(* for evt in snapshot *)
Replay(s) ==
  /\ phase[s] = "replay"
  /\ replay[s] # <<>>
  /\ got' = [got EXCEPT ![s] = Append(@, Head(replay[s]))]
  /\ replay' = [replay EXCEPT ![s] = Tail(@)]
  /\ UNCHANGED <<stored, emitted, phase, chan, queue, base>>

(* while not terminal *)
StartTail(s) ==
  /\ phase[s] = "replay"
  /\ replay[s] = <<>>
  /\ ~SawTerminal(s)
  /\ phase' = [phase EXCEPT ![s] = "tail"]
  /\ UNCHANGED <<stored, emitted, chan, replay, queue, base, got>>

(* queue.get() within KEEPALIVE_SECONDS; a keepalive changes nothing. *)
Forward(s) ==
  /\ phase[s] = "tail"
  /\ ~SawTerminal(s)
  /\ queue[s] # <<>>
  /\ got' = [got EXCEPT ![s] = Append(@, Head(queue[s]))]
  /\ queue' = [queue EXCEPT ![s] = Tail(@)]
  /\ UNCHANGED <<stored, emitted, phase, chan, replay, base>>

(* The loops are over: finally unsubscribe. *)
Close(s) ==
  /\ \/ phase[s] = "replay" /\ replay[s] = <<>>
     \/ phase[s] = "tail"
  /\ SawTerminal(s)
  /\ phase' = [phase EXCEPT ![s] = "closed"]
  /\ UNCHANGED <<stored, emitted, chan, replay, queue, base, got>>

(* The client goes away; a started generator unsubscribes, and what it     *)
(* held is garbage.                                                        *)
Disconnect(s) ==
  /\ phase[s] \in {"accepted", "replay", "tail"}
  /\ phase' = [phase EXCEPT ![s] = "gone"]
  /\ replay' = [replay EXCEPT ![s] = <<>>]
  /\ queue' = [queue EXCEPT ![s] = <<>>]
  /\ got' = [got EXCEPT ![s] = <<>>]
  /\ UNCHANGED <<stored, emitted, chan, base>>

Generate(s) == Subscribe(s) \/ Replay(s) \/ StartTail(s) \/ Forward(s) \/ Close(s)

(* Something is recorded, and only while the channel is not over. *)
Ended(c) == \E i \in DOMAIN emitted[c] : emitted[c][i] \in Terminal

LogNext ==
  \/ \E c \in Channel, e \in Event, Evicted \in SUBSET Channel :
       /\ c \notin Evicted
       /\ ~Ended(c)
       /\ Record(c, e, Evicted)
  \/ \E s \in Subscriber, c \in Channel : Open(s, c)
  \/ \E s \in Subscriber : Generate(s) \/ Disconnect(s)

LogSpec == LogInit /\ [][LogNext]_logVars
-----------------------------------------------------------------------------
Suffix(q, k) == SubSeq(q, k + 1, Len(q))

(* What stream s still has to forward. *)
Ahead(s) == replay[s] \o queue[s]

(* The events of its channel from the first one stored when s subscribed.  *)
Since(s) == Suffix(emitted[chan[s]], base[s])

LogTypeOK ==
  /\ stored \in [Channel -> Seq(Event)]
  /\ emitted \in [Channel -> Seq(Event)]
  /\ phase \in [Subscriber -> {"idle", "accepted", "replay", "tail", "closed", "gone"}]
  /\ chan \in [Subscriber -> Channel \cup {None}]
  /\ replay \in [Subscriber -> Seq(Event)]
  /\ queue \in [Subscriber -> Seq(Event)]
  /\ base \in [Subscriber -> Nat]
  /\ got \in [Subscriber -> Seq(Event)]

(* A live stream loses, repeats and reorders nothing: what it forwarded,   *)
(* then the rest of its snapshot, then its queue are exactly the events    *)
(* recorded since the first one it was given, whatever was recorded while  *)
(* it replayed and whether or not its run was evicted meanwhile.           *)
NothingLost ==
  \A s \in Subscriber : phase[s] \in {"replay", "tail"} =>
    got[s] \o Ahead(s) = Since(s)

(* A stream that closed by itself forwarded everything, up to and with the *)
(* terminal event, which is the last one of its run or demo.               *)
ClosedIsComplete ==
  \A s \in Subscriber : phase[s] = "closed" =>
    /\ got[s] = Since(s)
    /\ SawTerminal(s)
-----------------------------------------------------------------------------
(* The inductive invariant behind NothingLost and ClosedIsComplete. *)

(* The stored events are the latest ones, and nothing follows a terminal.  *)
StoredInv ==
  \A c \in Channel :
    /\ Len(stored[c]) <= Len(emitted[c])
    /\ stored[c] = Suffix(emitted[c], Len(emitted[c]) - Len(stored[c]))
    /\ \A i \in DOMAIN emitted[c] : emitted[c][i] \in Terminal => i = Len(emitted[c])

(* What a stream holds in each phase. *)
PhaseInv ==
  \A s \in Subscriber :
    /\ phase[s] # "idle" => chan[s] \in Channel
    /\ phase[s] \in {"idle", "accepted"} =>
         replay[s] = <<>> /\ queue[s] = <<>> /\ got[s] = <<>>
    /\ phase[s] = "tail" => replay[s] = <<>>
    /\ phase[s] \in {"replay", "tail", "closed"} => base[s] <= Len(emitted[chan[s]])

(* Together with the two properties: what every step of the loop keeps.    *)
LogInv ==
  /\ LogTypeOK
  /\ StoredInv
  /\ PhaseInv
  /\ NothingLost
  /\ ClosedIsComplete
=============================================================================
