---------------------------- MODULE RunStore_proofs ----------------------------
(***************************************************************************)
(* The registry implements the event channels (LogSpec) and keeps RunInv,  *)
(* for every number of runs, threads, stages, streams and faults.          *)
(***************************************************************************)
EXTENDS RunStore, EventLog_proofs

(* The events of a run and the outcomes of its thread are all different.   *)
LEMMA Names ==
  /\ {RunStarted, RunCompleted, RunFailed} \subseteq RunEvent
  /\ \A k \in 1..NStages : StageEvent(k) \in RunEvent
  /\ Plain(RunStarted) /\ \A k \in 1..NStages : Plain(StageEvent(k))
  /\ RunCompleted # RunFailed
  /\ RunCompleted \notin {Returned, Raised} /\ RunFailed \notin {Returned, Raised}
  /\ Returned # Raised
  /\ RunCompleted \in Terminal /\ RunFailed \in Terminal
  /\ RunEvent \subseteq Event
<1>1. Terminal \cap RunEvent = {RunCompleted, RunFailed} /\ RunEvent \subseteq Event
  BY RegistryAssumption
<1>2. /\ {RunStarted, RunCompleted, RunFailed} \subseteq RunEvent
      /\ \A k \in 1..NStages : StageEvent(k) \in RunEvent
  BY DEF RunEvent
<1>3. /\ RunCompleted # RunFailed /\ Returned # Raised
      /\ RunCompleted \notin {Returned, Raised} /\ RunFailed \notin {Returned, Raised}
      /\ RunStarted \notin {RunCompleted, RunFailed, Returned, Raised}
      /\ \A k \in 1..NStages : StageEvent(k) \notin {RunCompleted, RunFailed, Returned, Raised}
  BY DEF RunStarted, RunCompleted, RunFailed, Returned, Raised, StageEvent, Happened
<1> QED BY <1>1, <1>2, <1>3 DEF Plain
-----------------------------------------------------------------------------
(* Sequences that end in a given way.                                      *)

Story == Seq(Event \cup {Returned, Raised})

LEMMA StoryGrows ==
  ASSUME NEW q \in Story, NEW e \in Event \cup {Returned, Raised}
  PROVE  /\ Append(q, e) \in Story /\ Len(Append(q, e)) = Len(q) + 1 /\ Len(q) \in Nat
         /\ \A i \in 1..Len(q) : Append(q, e)[i] = q[i]
         /\ Append(q, e)[Len(q) + 1] = e
BY AppendProperties, LenProperties DEF Story

LEMMA PlainStep ==
  ASSUME NEW q \in Story, NEW e \in Event \cup {Returned, Raised}, Ends(q, <<>>), Plain(e)
  PROVE  Ends(Append(q, e), <<>>)
<1>1. \A i \in 1..(Len(q) + 1) : Plain(Append(q, e)[i])
  <2>1. \A i \in 1..Len(q) : Plain(q[i])
    BY StoryGrows DEF Ends
  <2> QED BY <2>1, StoryGrows
<1> QED BY <1>1, StoryGrows DEF Ends

LEMMA LastStep ==
  ASSUME NEW q \in Story, NEW e \in Event \cup {Returned, Raised}, Ends(q, <<>>)
  PROVE  Ends(Append(q, e), <<e>>)
<1>1. \A i \in 1..Len(q) : Plain(q[i])
  BY StoryGrows DEF Ends
<1> QED BY <1>1, StoryGrows DEF Ends

LEMMA SecondLastStep ==
  ASSUME NEW q \in Story, NEW d, NEW e \in Event \cup {Returned, Raised}, Ends(q, <<d>>)
  PROVE  Ends(Append(q, e), <<d, e>>)
<1>1. Len(q) >= 1 /\ q[Len(q)] = d /\ \A i \in 1..(Len(q) - 1) : Plain(q[i])
  BY StoryGrows DEF Ends
<1>2. Len(Append(q, e)) - 2 = Len(q) - 1 /\ Len(Append(q, e)) >= 2
  BY <1>1, StoryGrows
<1>3. \A i \in 1..(Len(q) - 1) : Append(q, e)[i] = q[i]
  BY <1>1, StoryGrows
<1>4. Append(q, e)[Len(q)] = d /\ Append(q, e)[Len(q) + 1] = e
  BY <1>1, StoryGrows
<1>5. \A i \in 1..2 : Append(q, e)[Len(q) - 1 + i] = <<d, e>>[i]
  BY <1>1, <1>4, StoryGrows
<1> QED BY <1>1, <1>2, <1>3, <1>5, StoryGrows DEF Ends

(* What was told is the recorded events followed by the posted callbacks.  *)
LEMMA Told ==
  ASSUME NEW a \in Story, NEW b \in Story
  PROVE  /\ a \o b \in Story /\ Len(a \o b) = Len(a) + Len(b)
         /\ Len(a) \in Nat /\ Len(b) \in Nat
         /\ \A i \in 1..Len(a) : (a \o b)[i] = a[i]
         /\ b # <<>> => /\ Len(b) >= 1 /\ Head(b) \in Event \cup {Returned, Raised}
                        /\ (a \o b)[Len(a) + 1] = Head(b)
                        /\ Tail(b) \in Story /\ Len(Tail(b)) = Len(b) - 1
                        /\ Append(a, Head(b)) \o Tail(b) = a \o b
         /\ \A e \in Event \cup {Returned, Raised} : a \o Append(b, e) = Append(a \o b, e)
<1> DEFINE S == Event \cup {Returned, Raised}
<1>1. a \in Seq(S) /\ b \in Seq(S)
  BY DEF Story
<1> HIDE DEF S
<1>2. /\ a \o b \in Seq(S) /\ Len(a \o b) = Len(a) + Len(b)
      /\ Len(a) \in Nat /\ Len(b) \in Nat
      /\ \A i \in 1..Len(a) : (a \o b)[i] = a[i]
      /\ \A i \in 1..Len(b) : (a \o b)[Len(a) + i] = b[i]
  BY <1>1, ConcatProperties, LenProperties
<1>3. \A e \in S : a \o Append(b, e) = Append(a \o b, e)
  BY <1>1, ConcatAppend
<1>4. ASSUME b # <<>>
      PROVE  /\ Len(b) >= 1 /\ Head(b) \in S /\ (a \o b)[Len(a) + 1] = Head(b)
             /\ Tail(b) \in Seq(S) /\ Len(Tail(b)) = Len(b) - 1
             /\ Append(a, Head(b)) \o Tail(b) = a \o b
  <2>1. Len(b) # 0 /\ Head(b) \in S /\ Tail(b) \in Seq(S) /\ Len(Tail(b)) = Len(b) - 1
    BY <1>1, <1>4, EmptySeq, HeadTailProperties
  <2>2. Head(b) = b[1]
    BY <1>1
  <2>3. 1 \in 1..Len(b) /\ Len(b) >= 1
    BY <1>2, <2>1
  <2>4. Append(a, Head(b)) \o Tail(b) = a \o b
    BY <1>1, <1>4, MoveHead
  <2> QED BY <1>2, <2>1, <2>2, <2>3, <2>4
<1> QED BY <1>2, <1>3, <1>4 DEF S, Story

(* One more callback is posted.                                            *)
LEMMA ToldMore ==
  ASSUME NEW a \in Story, NEW b \in Story, NEW e \in Event \cup {Returned, Raised}
  PROVE  a \o b \in Story /\ a \o Append(b, e) = Append(a \o b, e) /\ Append(b, e) # <<>>
<1>1. a \o b \in Story
  BY Told
<1>2. \A d \in Event \cup {Returned, Raised} : a \o Append(b, d) = Append(a \o b, d)
  BY Told
<1>3. Len(Append(b, e)) # 0 /\ Append(b, e) \in Story
  BY StoryGrows
<1>4. Append(b, e) # <<>>
  BY <1>3, EmptySeq
<1> QED BY <1>1, <1>2, <1>4

(* While nothing is over, no recorded event is terminal.                   *)
LEMMA NothingOver ==
  ASSUME NEW a \in Story, NEW b \in Story, Ends(a \o b, <<>>)
  PROVE  Ends(a, <<>>)
<1>1. \A i \in 1..(Len(a) + Len(b)) : Plain((a \o b)[i])
  BY Told DEF Ends
<1>2. \A i \in 1..Len(a) : Plain(a[i])
  BY <1>1, Told
<1> QED BY <1>2, Told DEF Ends

(* The callback about to run is told last, or something is told after it.  *)
LEMMA LastPending ==
  ASSUME NEW a \in Story, NEW b \in Story, b # <<>>, NEW d, Ends(a \o b, <<d>>)
  PROVE  /\ Ends(a, <<>>)
         /\ Plain(Head(b)) \/ (Head(b) = d /\ Tail(b) = <<>>)
<1> DEFINE q == a \o b
           n == Len(a)
           m == Len(b)
<1>1. /\ Len(q) = n + m /\ n \in Nat /\ m \in Nat /\ m >= 1
      /\ \A i \in 1..n : q[i] = a[i]
      /\ q[n + 1] = Head(b) /\ Tail(b) \in Story /\ Len(Tail(b)) = m - 1
  BY Told
<1>2. q[Len(q)] = d /\ \A i \in 1..(Len(q) - 1) : Plain(q[i])
  BY <1>1 DEF Ends
<1> HIDE DEF q, n, m
<1>3. \A i \in 1..n : Plain(a[i])
  BY <1>1, <1>2
<1>4. Ends(a, <<>>)
  BY <1>1, <1>3 DEF Ends, n
<1>5. CASE m = 1
  <2>1. Head(b) = d
    BY <1>1, <1>2, <1>5
  <2>2. Tail(b) = <<>>
    <3>1. Len(Tail(b)) = 0
      BY <1>1, <1>5
    <3> QED BY <1>1, <3>1, EmptySeq DEF Story
  <2> QED BY <1>4, <2>1, <2>2
<1>6. CASE m > 1
  BY <1>1, <1>2, <1>4, <1>6
<1> QED BY <1>1, <1>5, <1>6

LEMMA TwoPending ==
  ASSUME NEW a \in Story, NEW b \in Story, b # <<>>, NEW d, NEW e, Ends(a \o b, <<d, e>>)
  PROVE  \/ /\ Head(b) = e /\ Tail(b) = <<>>
            /\ Ends(a, <<d>>)
         \/ /\ Plain(Head(b)) \/ Head(b) = d
            /\ Tail(b) # <<>>
            /\ Ends(a, <<>>)
<1> DEFINE q == a \o b
           n == Len(a)
           m == Len(b)
<1>1. /\ Len(q) = n + m /\ n \in Nat /\ m \in Nat /\ m >= 1
      /\ \A i \in 1..n : q[i] = a[i]
      /\ q[n + 1] = Head(b) /\ Tail(b) \in Story /\ Len(Tail(b)) = m - 1
  BY Told
<1>2. /\ Len(q) >= 2 /\ q[Len(q) - 1] = d /\ q[Len(q)] = e
      /\ \A i \in 1..(Len(q) - 2) : Plain(q[i])
  <2>1. Len(q) >= 2 /\ \A i \in 1..2 : q[Len(q) - 2 + i] = <<d, e>>[i]
    BY <1>1 DEF Ends
  <2>2. q[Len(q) - 2 + 1] = d /\ q[Len(q) - 2 + 2] = e
    BY <2>1
  <2>3. Len(q) - 2 + 1 = Len(q) - 1 /\ Len(q) - 2 + 2 = Len(q)
    BY <1>1
  <2>4. \A i \in 1..(Len(q) - 2) : Plain(q[i])
    BY <1>1 DEF Ends
  <2> QED BY <2>1, <2>2, <2>3, <2>4
<1> HIDE DEF q, n, m
<1>3. CASE m = 1
  <2>1. Head(b) = e
    BY <1>1, <1>2, <1>3
  <2>2. Tail(b) = <<>>
    <3>1. Len(Tail(b)) = 0
      BY <1>1, <1>3
    <3> QED BY <1>1, <3>1, EmptySeq DEF Story
  <2>3. n >= 1 /\ a[n] = d /\ \A i \in 1..(n - 1) : Plain(a[i])
    BY <1>1, <1>2, <1>3
  <2>4. Ends(a, <<d>>)
    BY <1>1, <2>3 DEF Ends, n
  <2> QED BY <2>1, <2>2, <2>4
<1>4. CASE m > 1
  <2>1. \A i \in 1..n : Plain(a[i])
    BY <1>1, <1>2, <1>4
  <2>2. Ends(a, <<>>)
    BY <1>1, <2>1 DEF Ends, n
  <2>3. Plain(Head(b)) \/ Head(b) = d
    BY <1>1, <1>2, <1>4
  <2>4. Tail(b) # <<>>
    <3>1. Len(Tail(b)) # 0
      BY <1>1, <1>4
    <3>2. Len(<<>>) = 0
      OBVIOUS
    <3> QED BY <3>1, <3>2
  <2> QED BY <2>2, <2>3, <2>4
<1> QED BY <1>1, <1>3, <1>4
-----------------------------------------------------------------------------
(* What RunInv says of one run.                                            *)
LEMMA OfRun ==
  ASSUME RunInv, NEW r \in Run
  PROVE  /\ r \in Channel
         /\ emitted[r] \in Seq(Event) /\ emitted[r] \in Story
         /\ posted[r] \in Seq(RunEvent \cup {Returned, Raised}) /\ posted[r] \in Story
         /\ worker[r] \in Places
         /\ entry[r] \in RunEntry
         /\ Tells(worker[r], entry[r], emitted[r], posted[r])
<1>1. r \in Channel /\ RunEvent \subseteq Event
  BY RegistryAssumption
<1>2. emitted[r] \in Seq(Event) /\ posted[r] \in Seq(RunEvent \cup {Returned, Raised})
  BY <1>1 DEF RunInv, LogInv, LogTypeOK, RunTypeOK
<1>3. \A S, T, q : S \subseteq T /\ q \in Seq(S) => q \in Seq(T)
  OBVIOUS
<1>4. emitted[r] \in Story /\ posted[r] \in Story
  BY <1>1, <1>2, <1>3 DEF Story
<1> QED BY <1>1, <1>2, <1>4 DEF RunInv, RunTypeOK, StoryInv

(* The loop runs a callback that is not the thread's outcome: nothing that *)
(* was recorded is terminal, and the story stays the same.                 *)
LEMMA DeliverFacts ==
  ASSUME RunInv, NEW r \in Run, posted[r] # <<>>, Head(posted[r]) \notin {Returned, Raised}
  PROVE  /\ Head(posted[r]) \in Event /\ ~Ended(r)
         /\ Tail(posted[r]) \in Seq(RunEvent \cup {Returned, Raised})
         /\ Tells(worker[r], entry[r], Append(emitted[r], Head(posted[r])), Tail(posted[r]))
<1> DEFINE em == emitted[r]
           po == posted[r]
           w == worker[r]
           en == entry[r]
<1>1. /\ em \in Story /\ po \in Story /\ em \in Seq(Event)
      /\ po \in Seq(RunEvent \cup {Returned, Raised})
      /\ w \in Places /\ Tells(w, en, em, po)
  BY OfRun
<1>2. Head(po) \in RunEvent \cup {Returned, Raised}
      /\ Tail(po) \in Seq(RunEvent \cup {Returned, Raised})
  BY <1>1, HeadTailProperties
<1>3. Head(po) \in Event
  BY <1>2, Names
<1>4. Append(em, Head(po)) \o Tail(po) = em \o po
  BY <1>1, Told
<1> HIDE DEF em, po, w, en
<1>5. w \in Before \cup After \/ (w = "ended" /\ en.status = "running")
  BY <1>1 DEF Tells, Places, Before, After, po
<1>6. Ends(em, <<>>)
  <2>1. CASE w \in Before
    BY <1>1, <2>1, NothingOver DEF Tells
  <2>2. CASE w \in After
    BY <1>1, <2>2, LastPending DEF Tells, po
  <2>3. CASE w = "ended" /\ en.status = "running"
    <3>1. CASE Ends(em \o po, <<RunCompleted, Returned>>)
      BY <1>1, <3>1, TwoPending DEF po
    <3>2. CASE Ends(em \o po, <<Raised>>)
      BY <1>1, <3>2, LastPending DEF po
    <3> QED BY <1>1, <2>3, <3>1, <3>2 DEF Tells
  <2> QED BY <1>5, <2>1, <2>2, <2>3
<1>7. ~Ended(r)
  <2>1. \A i \in 1..Len(em) : em[i] \notin Terminal
    BY <1>6, <1>1, LenProperties DEF Ends, Plain, Story
  <2> QED BY <1>1, <2>1, LenProperties DEF Ended, em
<1>8. Tells(w, en, Append(em, Head(po)), Tail(po))
  <2>1. CASE w \in Before \cup After
    BY <1>4, <1>1, <2>1 DEF Tells, Before, After
  <2>2. CASE w = "ended" /\ en.status = "running"
    <3>1. CASE Ends(em \o po, <<RunCompleted, Returned>>) /\ Answerable(en)
      <4>1. Tail(po) # <<>>
        BY <1>1, <3>1, TwoPending DEF po
      <4> QED BY <1>4, <2>2, <3>1, <4>1 DEF Tells, Before, After
    <3>2. CASE Ends(em \o po, <<Raised>>)
      <4>1. Tail(po) # <<>>
        <5>2. Len(em \o po) = Len(em) + Len(po) /\ Len(em) \in Nat /\ Len(po) \in Nat
              /\ Len(po) >= 1 /\ (em \o po)[Len(em) + 1] = Head(po) /\ Len(Tail(po)) = Len(po) - 1
          BY <1>1, Told DEF po
        <5>3. (em \o po)[Len(em \o po)] = Raised
          BY <3>2, <5>2 DEF Ends
        <5>4. Len(po) # 1
          BY <5>2, <5>3 DEF po
        <5>5. Len(Tail(po)) # 0
          BY <5>2, <5>4
        <5> QED BY <5>5, EmptySeq
      <4> QED BY <1>4, <2>2, <3>2, <4>1 DEF Tells, Before, After
    <3> QED BY <1>1, <2>2, <3>1, <3>2 DEF Tells, Before, After
  <2> QED BY <1>5, <2>1, <2>2
<1> QED BY <1>2, <1>3, <1>7, <1>8 DEF em, po, w, en

(* The loop resumes drive(): everything else of the run has been recorded. *)
LEMMA ResumeFacts ==
  ASSUME RunInv, NEW r \in Run, posted[r] # <<>>, Head(posted[r]) \in {Returned, Raised}
  PROVE  /\ worker[r] = "ended" /\ Tail(posted[r]) = <<>> /\ entry[r].status = "running"
         /\ Head(posted[r]) = Returned =>
              Ends(emitted[r], <<RunCompleted>>) /\ Answerable(entry[r])
         /\ Head(posted[r]) = Raised => Ends(emitted[r], <<>>)
<1> DEFINE em == emitted[r]
           po == posted[r]
           w == worker[r]
           en == entry[r]
<1>1. em \in Story /\ po \in Story /\ w \in Places /\ Tells(w, en, em, po) /\ po # <<>>
  BY OfRun
<1>2. ~Plain(Head(po)) /\ Head(po) # RunCompleted
  BY Names DEF Plain
<1> HIDE DEF em, po, w, en
<1>3. w \notin Before
  <2>1. ASSUME Ends(em \o po, <<>>) PROVE FALSE
    <3>1. /\ Len(em \o po) = Len(em) + Len(po) /\ Len(em) \in Nat /\ Len(po) \in Nat
          /\ Len(po) >= 1 /\ (em \o po)[Len(em) + 1] = Head(po)
      BY <1>1, Told
    <3>2. \A i \in 1..Len(em \o po) : Plain((em \o po)[i])
      BY <2>1, <3>1 DEF Ends
    <3> QED BY <1>2, <3>1, <3>2
  <2> QED BY <1>1, <2>1 DEF Tells
<1>4. w \notin After
  BY <1>1, <1>2, LastPending DEF Tells
<1>5. w = "ended" /\ en.status = "running"
  BY <1>1, <1>3, <1>4 DEF Tells, Places, Before, After
<1>6. CASE Ends(em \o po, <<RunCompleted, Returned>>) /\ Answerable(en)
  <2>1. Head(po) = Returned /\ Tail(po) = <<>> /\ Ends(em, <<RunCompleted>>)
    BY <1>1, <1>2, <1>6, TwoPending
  <2> QED BY <1>5, <1>6, <2>1, Names DEF em, po, w, en
<1>7. CASE Ends(em \o po, <<Raised>>)
  <2>1. Head(po) = Raised /\ Tail(po) = <<>> /\ Ends(em, <<>>)
    BY <1>1, <1>2, <1>7, LastPending
  <2> QED BY <1>5, <2>1, Names DEF em, po, w, en
<1> QED BY <1>1, <1>5, <1>6, <1>7 DEF Tells
-----------------------------------------------------------------------------
(* Eviction keeps a suffix of the registered runs, never without the one   *)
(* just registered.                                                        *)
LEMMA KeptProperties ==
  ASSUME NEW q \in Seq(Run), NEW r \in Run
  PROVE  /\ Kept(Append(q, r)) \in Seq(Run)
         /\ \E i \in DOMAIN Kept(Append(q, r)) : Kept(Append(q, r))[i] = r
         /\ \A i \in DOMAIN Kept(Append(q, r)) :
              \/ Kept(Append(q, r))[i] = r
              \/ \E j \in DOMAIN q : Kept(Append(q, r))[i] = q[j]
<1> DEFINE a == Append(q, r)
           n == Len(q)
           M == MAX_RETAINED_RUNS
<1>1. /\ a \in Seq(Run) /\ Len(a) = n + 1 /\ n \in Nat /\ DOMAIN q = 1..n
      /\ \A i \in 1..n : a[i] = q[i]
      /\ a[n + 1] = r /\ M \in Nat /\ M >= 1
  BY AppendProperties, LenProperties, RegistryAssumption
<1>2. CASE n + 1 > M
  <2> DEFINE k == SubSeq(a, n + 1 - M + 1, n + 1)
  <2>1. Kept(a) = k
    BY <1>1, <1>2 DEF Kept
  <2>2. n + 1 - M + 1 \in Int /\ n + 1 \in Int /\ n + 1 - M + 1 <= n + 1
        /\ (n + 1) - (n + 1 - M + 1) + 1 = M /\ n + 1 - M + 1 >= 1
    BY <1>1, <1>2
  <2>3. \A i \in (n + 1 - M + 1)..(n + 1) : a[i] \in Run
    BY <1>1, <2>2
  <2>4. /\ k \in Seq(Run) /\ Len(k) = M
        /\ \A i \in 1..M : k[i] = a[(n + 1 - M + 1) + i - 1]
    <3> DEFINE lo == n + 1 - M + 1
               hi == n + 1
    <3>1. lo \in Int /\ hi \in Int /\ lo <= hi /\ hi - lo + 1 = M
          /\ \A i \in lo..hi : a[i] \in Run
      BY <2>2, <2>3
    <3> HIDE DEF lo, hi, a, M
    <3>2. /\ SubSeq(a, lo, hi) \in Seq(Run)
          /\ Len(SubSeq(a, lo, hi)) = IF lo <= hi THEN hi - lo + 1 ELSE 0
          /\ \A i \in 1..(hi - lo + 1) : SubSeq(a, lo, hi)[i] = a[lo + i - 1]
      BY <3>1, SubSeqProperties
    <3>3. /\ SubSeq(a, lo, hi) \in Seq(Run)
          /\ Len(SubSeq(a, lo, hi)) = M
          /\ \A i \in 1..M : SubSeq(a, lo, hi)[i] = a[lo + i - 1]
      BY <3>1, <3>2
    <3> QED BY <3>3 DEF lo, hi
  <2>5. DOMAIN k = 1..M
    BY <2>4, LenProperties
  <2> HIDE DEF k, a, n, M
  <2>6. k[M] = r /\ M \in 1..M
    BY <1>1, <1>2, <2>4
  <2>7. ASSUME NEW i \in 1..M PROVE k[i] = r \/ \E j \in 1..n : k[i] = q[j]
    <3>1. k[i] = a[(n + 1 - M + 1) + i - 1]
      BY <2>4
    <3>2. (n + 1 - M + 1) + i - 1 = n + 1 \/ (n + 1 - M + 1) + i - 1 \in 1..n
      BY <1>1, <1>2
    <3> QED BY <1>1, <3>1, <3>2
  <2>8. /\ k \in Seq(Run)
        /\ \E i \in DOMAIN k : k[i] = r
        /\ \A i \in DOMAIN k : k[i] = r \/ \E j \in DOMAIN q : k[i] = q[j]
    BY <1>1, <2>4, <2>5, <2>6, <2>7
  <2> QED BY <2>1, <2>8 DEF a
<1>3. CASE ~(n + 1 > M)
  <2>1. Kept(a) = a /\ DOMAIN a = 1..(n + 1)
    BY <1>1, <1>3, LenProperties DEF Kept
  <2> HIDE DEF a, n, M
  <2> QED BY <1>1, <2>1 DEF a
<1> QED BY <1>2, <1>3
-----------------------------------------------------------------------------
(* A run that the registry never saw has recorded and posted nothing.      *)
LEMMA UnseenFacts ==
  ASSUME RunInv, NEW r \in Run, entry[r].status = "none"
  PROVE  worker[r] = "none" /\ emitted[r] = <<>> /\ posted[r] = <<>> /\ ~Ended(r)
<1>1. worker[r] \in Places /\ Tells(worker[r], entry[r], emitted[r], posted[r])
  BY OfRun
<1>2. worker[r] = "none"
  BY <1>1 DEF Tells, Places, Before, After
<1> QED BY <1>1, <1>2 DEF Tells, Ended

(* A run whose thread raised had recorded no terminal event.               *)
LEMMA RaisedFacts ==
  ASSUME RunInv, NEW r \in Run, posted[r] # <<>>, Head(posted[r]) = Raised
  PROVE  ~Ended(r)
<1>1. Ends(emitted[r], <<>>) /\ emitted[r] \in Seq(Event)
  BY ResumeFacts, OfRun
<1> QED BY <1>1, LenProperties DEF Ends, Plain, Ended

(* Each step of the registry is a step of its event channels, or none.     *)
LEMMA RecordsLog ==
  ASSUME RunInv, Next
  PROVE  [LogNext]_logVars
<1>1. Run \subseteq Channel /\ RunStarted \in Event /\ RunFailed \in Event
  BY RegistryAssumption, Names
<1>2. ASSUME NEW c \in Channel, NEW e \in Event, NEW Evicted \in SUBSET Channel,
             c \notin Evicted, ~Ended(c), Record(c, e, Evicted)
      PROVE LogNext
  BY <1>2 DEF LogNext
<1>3. ASSUME NEW g \in Generator, NEW r \in Run, StartRun(r, g) PROVE LogNext
  <2> DEFINE evicted == Registered \ {registry'[i] : i \in DOMAIN registry'}
  <2>1. Record(r, RunStarted, evicted) /\ entry[r].status = "none"
    BY <1>3 DEF StartRun
  <2>2. registry \in Seq(Run) /\ registry' = Kept(Append(registry, r))
    BY <1>3 DEF StartRun, RunInv, RunTypeOK
  <2>3. r \in {registry'[i] : i \in DOMAIN registry'}
    BY <2>2, KeptProperties
  <2>4. evicted \subseteq Channel /\ r \notin evicted
    <3>1. Registered \subseteq Run
      BY <2>2, ElementOfSeq, LenProperties DEF Registered
    <3> QED BY <3>1, <2>3, <1>1
  <2>5. ~Ended(r)
    BY <2>1, UnseenFacts
  <2> HIDE DEF evicted
  <2> QED BY <1>1, <1>2, <2>1, <2>4, <2>5
<1>4. CASE Start
  <2>1. FreshId \in Run
    BY <1>4 DEF Start, FreshId, Unused
  <2> QED BY <1>3, <1>4, <2>1 DEF Start
<1>5. ASSUME NEW r \in Run, Deliver(r) PROVE LogNext
  BY <1>1, <1>2, <1>5, DeliverFacts DEF Deliver
<1>6. ASSUME NEW r \in Run, Resume(r) PROVE LogNext \/ UNCHANGED logVars
  BY <1>1, <1>2, <1>6, RaisedFacts DEF Resume
<1>7. ASSUME NEW r \in Run, TakeThread(r) \/ Work(r) PROVE UNCHANGED logVars
  BY <1>7 DEF TakeThread, Work, GetMapper, EmitStage, EmitCompleted, PipelineRaises,
       StoreArtifacts, StoreResults, PersistRun, WriteEvalRun, PersistFails, EndThread
<1>8. ASSUME NEW s \in Subscriber, OpenRun(s) \/ Stream(s) \/ Leave(s) PROVE LogNext
  <2>1. Registered \subseteq Channel
    <3>1. registry \in Seq(Run)
      BY DEF RunInv, RunTypeOK
    <3> QED BY <3>1, <1>1, ElementOfSeq, LenProperties DEF Registered
  <2> QED BY <2>1, <1>8 DEF OpenRun, Stream, Leave, LogNext
<1> QED BY <1>4, <1>5, <1>6, <1>7, <1>8 DEF Next, Loop

LEMMA LogInvKept ==
  ASSUME RunInv, Next
  PROVE  LogInv'
BY RecordsLog, NextKeeps DEF RunInv
-----------------------------------------------------------------------------
(* How a story goes on.                                                    *)

(* The entry changes in nothing the story depends on.                      *)
LEMMA SameStory ==
  ASSUME NEW w, NEW en, NEW en2, NEW em, NEW po, Tells(w, en, em, po),
         en2.status = en.status, Answerable(en) => Answerable(en2)
  PROVE  Tells(w, en2, em, po)
BY DEF Tells

(* The worker goes on without telling anything.                            *)
LEMMA GoOn ==
  ASSUME NEW w, NEW v, NEW en, NEW en2, NEW em, NEW po, Tells(w, en, em, po),
         en2.status = en.status,
         (w \in Before /\ v \in Before) \/ (w \in After /\ v \in After)
  PROVE  Tells(v, en2, em, po)
BY DEF Tells, Before, After

(* A stage is emitted.                                                     *)
LEMMA TellStage ==
  ASSUME NEW w \in Before, NEW en, NEW em \in Story, NEW po \in Story, Tells(w, en, em, po),
         NEW e \in Event, Plain(e)
  PROVE  Tells(w, en, em, Append(po, e))
<1>1. em \o Append(po, e) = Append(em \o po, e) /\ em \o po \in Story
  BY ToldMore
<1>2. Ends(em \o po, <<>>) /\ en.status = "running"
  BY DEF Tells
<1>3. Ends(em \o Append(po, e), <<>>)
  BY <1>1, <1>2, PlainStep
<1> QED BY <1>2, <1>3 DEF Tells, Before, After

(* The pipeline is over.                                                   *)
LEMMA TellCompleted ==
  ASSUME NEW w \in Before, NEW v \in After, NEW en, NEW em \in Story, NEW po \in Story,
         Tells(w, en, em, po)
  PROVE  Tells(v, en, em, Append(po, RunCompleted))
<1>0. RunCompleted \in Event
  BY Names
<1>1. em \o Append(po, RunCompleted) = Append(em \o po, RunCompleted) /\ em \o po \in Story
  BY <1>0, ToldMore
<1>2. Ends(em \o po, <<>>) /\ en.status = "running"
  BY DEF Tells
<1>3. Ends(em \o Append(po, RunCompleted), <<RunCompleted>>)
  BY <1>0, <1>1, <1>2, LastStep
<1> QED BY <1>2, <1>3 DEF Tells, Before, After

(* The thread returned, or raised.                                         *)
LEMMA TellReturned ==
  ASSUME NEW en, NEW em \in Story, NEW po \in Story, Tells("returned", en, em, po),
         Answerable(en)
  PROVE  Tells("ended", en, em, Append(po, Returned))
<1>0. Returned \in Event \cup {Returned, Raised}
  OBVIOUS
<1>1. /\ em \o Append(po, Returned) = Append(em \o po, Returned) /\ em \o po \in Story
      /\ Append(po, Returned) # <<>>
  BY <1>0, ToldMore
<1>2. Ends(em \o po, <<RunCompleted>>) /\ en.status = "running"
  BY DEF Tells, After
<1>3. Ends(em \o Append(po, Returned), <<RunCompleted, Returned>>)
  BY <1>1, <1>2, SecondLastStep
<1> QED BY <1>1, <1>2, <1>3 DEF Tells, Before, After

LEMMA TellRaised ==
  ASSUME NEW en, NEW em \in Story, NEW po \in Story, Tells("raised", en, em, po)
  PROVE  Tells("ended", en, em, Append(po, Raised))
<1>0. Raised \in Event \cup {Returned, Raised}
  OBVIOUS
<1>1. /\ em \o Append(po, Raised) = Append(em \o po, Raised) /\ em \o po \in Story
      /\ Append(po, Raised) # <<>>
  BY <1>0, ToldMore
<1>2. Ends(em \o po, <<>>) /\ en.status = "running"
  BY DEF Tells, Before
<1>3. Ends(em \o Append(po, Raised), <<Raised>>)
  BY <1>1, <1>2, LastStep
<1> QED BY <1>1, <1>2, <1>3 DEF Tells, Before, After
-----------------------------------------------------------------------------
(* A step that touches one run keeps the invariant when what it says of    *)
(* this run is kept: the rows are never removed, and the cache changes     *)
(* only while no run has a mapper.                                         *)
LEMMA OneRun ==
  ASSUME RunInv, NEW r \in Run,
         registry' = registry, emitted' \in [Channel -> Seq(Event)],
         \A q \in Run \ {r} :
           /\ entry'[q] = entry[q] /\ worker'[q] = worker[q] /\ mapper'[q] = mapper[q]
           /\ output'[q] = output[q] /\ emitted'[q] = emitted[q] /\ posted'[q] = posted[q],
         cache' = cache \/ cache = "empty",
         \A q \in db.runs : q \in db'.runs,
         \A e \in db.evals : e \in db'.evals,
         Tells(worker'[r], entry'[r], emitted'[r], posted'[r]),
         Written(worker'[r], entry'[r]),
         /\ mapper'[r] # "none" => mapper'[r] = cache'
         /\ worker'[r] \in {"pipeline"} \cup After => mapper'[r] # "none"
         /\ worker'[r] \in {"store", "results"} => output'[r] \in Results
         /\ worker'[r] = "results" => Mapped(output'[r], mapper'[r])
         /\ Mapped(entry'[r].results, mapper'[r]),
         worker'[r] = "results" \/ entry'[r].results \in Results =>
           entry'[r].artifacts \/ r \notin Registered,
         entry'[r].db_run_id => r \in db'.runs,
         entry'[r].eval_run_id => \E e \in db'.evals : e.run = r
  PROVE  StoryInv' /\ WrittenInv' /\ MapperInv' /\ ServedInv' /\ RowsInv'
<1>1. \A q \in Run : Tells(worker'[q], entry'[q], emitted'[q], posted'[q])
  BY DEF RunInv, StoryInv
<1>2. \A q \in Run : Written(worker'[q], entry'[q])
  BY DEF RunInv, WrittenInv
<1>3. ASSUME NEW q \in Run \ {r}
      PROVE  /\ mapper'[q] # "none" => mapper'[q] = cache'
             /\ worker'[q] \in {"pipeline"} \cup After => mapper'[q] # "none"
             /\ worker'[q] \in {"store", "results"} => output'[q] \in Results
             /\ worker'[q] = "results" => Mapped(output'[q], mapper'[q])
             /\ Mapped(entry'[q].results, mapper'[q])
  <2>1. mapper[q] \in {"none", "full", "degraded"} /\ (mapper[q] # "none" => mapper[q] = cache)
    BY DEF RunInv, RunTypeOK, MapperInv
  <2>2. mapper'[q] # "none" => mapper'[q] = cache'
    BY <2>1
  <2> QED BY <2>2 DEF RunInv, MapperInv
<1>4. \A q \in Registered : worker'[q] = "results" \/ entry'[q].results \in Results
                              => entry'[q].artifacts
  <2>1. Registered \subseteq Run
    BY ElementOfSeq, LenProperties DEF Registered, RunInv, RunTypeOK
  <2> QED BY <2>1 DEF RunInv, ServedInv
<1>5. \A q \in Run : /\ entry'[q].db_run_id => q \in db'.runs
                     /\ entry'[q].eval_run_id => \E e \in db'.evals : e.run = q
  BY DEF RunInv, RowsInv
<1>6. StoryInv'
  BY <1>1 DEF StoryInv
<1>7. WrittenInv'
  BY <1>2 DEF WrittenInv
<1>8. MapperInv'
  BY <1>3 DEF MapperInv
<1>9. ServedInv'
  BY <1>4 DEF ServedInv, Registered
<1>10. RowsInv'
  BY <1>5 DEF RowsInv
<1> QED BY <1>6, <1>7, <1>8, <1>9, <1>10
-----------------------------------------------------------------------------
(* RunInv, without the channels and the types.                            *)
Parts == StoryInv /\ WrittenInv /\ MapperInv /\ ServedInv /\ RowsInv

LEMMA OfRunToo ==
  ASSUME RunInv, NEW r \in Run
  PROVE  /\ Written(worker[r], entry[r])
         /\ mapper[r] \in {"none", "full", "degraded"} /\ cache \in {"empty", "full", "degraded"}
         /\ output[r] \in Results \cup {None} /\ stage[r] \in 0..NStages
         /\ mapper[r] # "none" => mapper[r] = cache
         /\ worker[r] \in {"pipeline"} \cup After => mapper[r] # "none"
         /\ worker[r] \in {"store", "results"} => output[r] \in Results
         /\ worker[r] = "results" => Mapped(output[r], mapper[r])
         /\ Mapped(entry[r].results, mapper[r])
         /\ worker[r] = "results" \/ entry[r].results \in Results =>
              entry[r].artifacts \/ r \notin Registered
         /\ entry[r].db_run_id => r \in db.runs
         /\ entry[r].eval_run_id => \E e \in db.evals : e.run = r
         /\ emitted \in [Channel -> Seq(Event)]
<1>1. Written(worker[r], entry[r])
  BY DEF RunInv, WrittenInv
<1>2. /\ mapper[r] \in {"none", "full", "degraded"} /\ cache \in {"empty", "full", "degraded"}
      /\ output[r] \in Results \cup {None} /\ stage[r] \in 0..NStages
      /\ emitted \in [Channel -> Seq(Event)]
  BY DEF RunInv, RunTypeOK, LogInv, LogTypeOK
<1>3. /\ mapper[r] # "none" => mapper[r] = cache
      /\ worker[r] \in {"pipeline"} \cup After => mapper[r] # "none"
      /\ worker[r] \in {"store", "results"} => output[r] \in Results
      /\ worker[r] = "results" => Mapped(output[r], mapper[r])
      /\ Mapped(entry[r].results, mapper[r])
  BY DEF RunInv, MapperInv
<1>4. /\ worker[r] = "results" \/ entry[r].results \in Results =>
           entry[r].artifacts \/ r \notin Registered
      /\ entry[r].db_run_id => r \in db.runs
      /\ entry[r].eval_run_id => \E e \in db.evals : e.run = r
  BY DEF RunInv, ServedInv, RowsInv
<1> QED BY <1>1, <1>2, <1>3, <1>4
-----------------------------------------------------------------------------
(* Each step of a thread and of the loop keeps the invariant.              *)

LEMMA TakeThreadKeeps ==
  ASSUME RunInv, NEW r \in Run, TakeThread(r)
  PROVE  RunTypeOK' /\ Parts'
<1>1. /\ worker[r] \in Places /\ emitted[r] \in Story /\ posted[r] \in Story
      /\ Tells(worker[r], entry[r], emitted[r], posted[r])
  BY OfRun
<1>2. /\ worker[r] = "queued" /\ worker'[r] = "mapper"
      /\ entry'[r] = entry[r]
      /\ mapper'[r] = mapper[r]
      /\ output'[r] = output[r]
      /\ posted'[r] = posted[r]
      /\ emitted' = emitted
      /\ cache' = cache
      /\ db' = db
      /\ registry' = registry
      /\ \A q \in Run \ {r} :
           /\ entry'[q] = entry[q] /\ worker'[q] = worker[q] /\ mapper'[q] = mapper[q]
           /\ output'[q] = output[q] /\ emitted'[q] = emitted[q] /\ posted'[q] = posted[q]
  BY  DEF TakeThread, Goto, Post, logVars, RunInv, RunTypeOK
<1>3. RunTypeOK'
  BY <1>2, Names DEF RunInv, RunTypeOK, TakeThread, Places, Goto, Post, SpendFault, Results
<1>4. Tells(worker'[r], entry'[r], emitted'[r], posted'[r])
  <2>1. worker[r] \in Before /\ worker'[r] \in Before
    BY <1>2 DEF Before
  <2>2. entry'[r].status = entry[r].status
    BY <1>2
  <2>3. Tells(worker'[r], entry'[r], emitted[r], posted[r])
    BY <1>1, <2>1, <2>2, GoOn
  <2> QED BY <1>2, <2>3
<1>5. Written(worker'[r], entry'[r]) /\ Mapped(entry'[r].results, mapper'[r])
  BY <1>2, OfRunToo DEF Written, Mapped, Persisted, After
<1>6. /\ mapper'[r] # "none" => mapper'[r] = cache'
      /\ worker'[r] \in {"pipeline"} \cup After => mapper'[r] # "none"
      /\ worker'[r] \in {"store", "results"} => output'[r] \in Results
      /\ worker'[r] = "results" => Mapped(output'[r], mapper'[r])
  BY <1>2, OfRunToo DEF After, Mapped
<1>7. /\ worker'[r] = "results" \/ entry'[r].results \in Results =>
           entry'[r].artifacts \/ r \notin Registered
      /\ entry'[r].db_run_id => r \in db'.runs
      /\ entry'[r].eval_run_id => \E e \in db'.evals : e.run = r
      /\ \A q \in db.runs : q \in db'.runs
      /\ \A e \in db.evals : e \in db'.evals
      /\ emitted' \in [Channel -> Seq(Event)]
  BY <1>2, OfRunToo
<1> QED BY <1>2, <1>3, <1>4, <1>5, <1>6, <1>7, OneRun DEF Parts

LEMMA GetMapperKeeps ==
  ASSUME RunInv, NEW r \in Run, GetMapper(r)
  PROVE  RunTypeOK' /\ Parts'
<1>1. /\ worker[r] \in Places /\ emitted[r] \in Story /\ posted[r] \in Story
      /\ Tells(worker[r], entry[r], emitted[r], posted[r])
  BY OfRun
<1>2. /\ worker[r] = "mapper" /\ worker'[r] = "pipeline"
      /\ mapper'[r] = cache' /\ (cache' = cache \/ cache = "empty")
      /\ cache = "empty" \/ cache \in {"full", "degraded"} => cache' \in {"full", "degraded"}
      /\ entry'[r] = entry[r]
      /\ output'[r] = output[r]
      /\ posted'[r] = posted[r]
      /\ emitted' = emitted
      /\ db' = db
      /\ registry' = registry
      /\ \A q \in Run \ {r} :
           /\ entry'[q] = entry[q] /\ worker'[q] = worker[q] /\ mapper'[q] = mapper[q]
           /\ output'[q] = output[q] /\ emitted'[q] = emitted[q] /\ posted'[q] = posted[q]
  BY  DEF GetMapper, Goto, Post, logVars, RunInv, RunTypeOK
<1>m. cache' \in {"full", "degraded"} /\ (mapper[r] # "none" => mapper'[r] = mapper[r])
  BY <1>2, OfRunToo
<1>3. RunTypeOK'
  BY <1>2, Names DEF RunInv, RunTypeOK, GetMapper, Places, Goto, Post, SpendFault, Results
<1>4. Tells(worker'[r], entry'[r], emitted'[r], posted'[r])
  <2>1. worker[r] \in Before /\ worker'[r] \in Before
    BY <1>2 DEF Before
  <2>2. entry'[r].status = entry[r].status
    BY <1>2
  <2>3. Tells(worker'[r], entry'[r], emitted[r], posted[r])
    BY <1>1, <2>1, <2>2, GoOn
  <2> QED BY <1>2, <2>3
<1>5. Written(worker'[r], entry'[r]) /\ Mapped(entry'[r].results, mapper'[r])
  BY <1>2, <1>m, OfRunToo DEF Written, Mapped, Persisted, After
<1>6. /\ mapper'[r] # "none" => mapper'[r] = cache'
      /\ worker'[r] \in {"pipeline"} \cup After => mapper'[r] # "none"
      /\ worker'[r] \in {"store", "results"} => output'[r] \in Results
      /\ worker'[r] = "results" => Mapped(output'[r], mapper'[r])
  BY <1>2, <1>m, OfRunToo DEF After, Mapped
<1>7. /\ worker'[r] = "results" \/ entry'[r].results \in Results =>
           entry'[r].artifacts \/ r \notin Registered
      /\ entry'[r].db_run_id => r \in db'.runs
      /\ entry'[r].eval_run_id => \E e \in db'.evals : e.run = r
      /\ \A q \in db.runs : q \in db'.runs
      /\ \A e \in db.evals : e \in db'.evals
      /\ emitted' \in [Channel -> Seq(Event)]
  BY <1>2, <1>m, OfRunToo
<1> QED BY <1>2, <1>3, <1>4, <1>5, <1>6, <1>7, <1>m, OneRun DEF Parts

LEMMA EmitStageKeeps ==
  ASSUME RunInv, NEW r \in Run, EmitStage(r)
  PROVE  RunTypeOK' /\ Parts'
<1>1. /\ worker[r] \in Places /\ emitted[r] \in Story /\ posted[r] \in Story
      /\ Tells(worker[r], entry[r], emitted[r], posted[r])
  BY OfRun
<1>2. /\ worker[r] = "pipeline" /\ worker' = worker
      /\ stage[r] \in 0..NStages /\ stage[r] < NStages
      /\ posted'[r] = Append(posted[r], StageEvent(stage[r] + 1))
      /\ entry'[r] = entry[r]
      /\ mapper'[r] = mapper[r]
      /\ output'[r] = output[r]
      /\ emitted' = emitted
      /\ cache' = cache
      /\ db' = db
      /\ registry' = registry
      /\ \A q \in Run \ {r} :
           /\ entry'[q] = entry[q] /\ worker'[q] = worker[q] /\ mapper'[q] = mapper[q]
           /\ output'[q] = output[q] /\ emitted'[q] = emitted[q] /\ posted'[q] = posted[q]
  BY  DEF EmitStage, Goto, Post, logVars, RunInv, RunTypeOK
<1>k. /\ StageEvent(stage[r] + 1) \in RunEvent /\ StageEvent(stage[r] + 1) \in Event
      /\ Plain(StageEvent(stage[r] + 1)) /\ stage[r] + 1 \in 0..NStages
  <2>1. stage[r] + 1 \in 1..NStages
    BY <1>2, RegistryAssumption
  <2> QED BY <2>1, Names
<1>p. posted'[r] \in Seq(RunEvent \cup {Returned, Raised})
  <2>1. posted[r] \in Seq(RunEvent \cup {Returned, Raised})
    BY OfRun
  <2>2. StageEvent(stage[r] + 1) \in RunEvent \cup {Returned, Raised}
    BY Names, <1>k
  <2> QED BY <1>2, <2>1, <2>2, AppendProperties
<1>3. RunTypeOK'
  BY <1>2, <1>k, <1>p, Names DEF RunInv, RunTypeOK, EmitStage, Places, Goto, Post, SpendFault, Results
<1>4. Tells(worker'[r], entry'[r], emitted'[r], posted'[r])
  BY <1>1, <1>2, <1>k, TellStage DEF Before
<1>5. Written(worker'[r], entry'[r]) /\ Mapped(entry'[r].results, mapper'[r])
  BY <1>2, OfRunToo DEF Written, Mapped, Persisted, After
<1>6. /\ mapper'[r] # "none" => mapper'[r] = cache'
      /\ worker'[r] \in {"pipeline"} \cup After => mapper'[r] # "none"
      /\ worker'[r] \in {"store", "results"} => output'[r] \in Results
      /\ worker'[r] = "results" => Mapped(output'[r], mapper'[r])
  BY <1>2, OfRunToo DEF After, Mapped
<1>7. /\ worker'[r] = "results" \/ entry'[r].results \in Results =>
           entry'[r].artifacts \/ r \notin Registered
      /\ entry'[r].db_run_id => r \in db'.runs
      /\ entry'[r].eval_run_id => \E e \in db'.evals : e.run = r
      /\ \A q \in db.runs : q \in db'.runs
      /\ \A e \in db.evals : e \in db'.evals
      /\ emitted' \in [Channel -> Seq(Event)]
  BY <1>2, OfRunToo
<1> QED BY <1>2, <1>3, <1>4, <1>5, <1>6, <1>7, OneRun DEF Parts

LEMMA EmitCompletedKeeps ==
  ASSUME RunInv, NEW r \in Run, EmitCompleted(r)
  PROVE  RunTypeOK' /\ Parts'
<1>1. /\ worker[r] \in Places /\ emitted[r] \in Story /\ posted[r] \in Story
      /\ Tells(worker[r], entry[r], emitted[r], posted[r])
  BY OfRun
<1>2. /\ worker[r] = "pipeline" /\ worker'[r] = "store"
      /\ posted'[r] = Append(posted[r], RunCompleted)
      /\ entry'[r] = entry[r]
      /\ mapper'[r] = mapper[r]
      /\ emitted' = emitted
      /\ cache' = cache
      /\ db' = db
      /\ registry' = registry
      /\ \A q \in Run \ {r} :
           /\ entry'[q] = entry[q] /\ worker'[q] = worker[q] /\ mapper'[q] = mapper[q]
           /\ output'[q] = output[q] /\ emitted'[q] = emitted[q] /\ posted'[q] = posted[q]
  BY  DEF EmitCompleted, Goto, Post, logVars, RunInv, RunTypeOK
<1>o. output'[r] \in Results
  <2>1. entry[r].generator \in Generator /\ Stub \in Generator
    BY OfRun, RegistryAssumption DEF RunEntry
  <2>2. PICK g \in {entry[r].generator, Stub} :
          output' = [output EXCEPT ![r] = [generator_name |-> g, semantic_unavailable |-> FALSE]]
    BY DEF EmitCompleted
  <2>3. output'[r] = [generator_name |-> g, semantic_unavailable |-> FALSE]
    BY <2>2 DEF RunInv, RunTypeOK
  <2>4. [generator_name |-> g, semantic_unavailable |-> FALSE] \in Results
    BY <2>1 DEF Results
  <2> QED BY <2>3, <2>4
<1>p. posted'[r] \in Seq(RunEvent \cup {Returned, Raised})
  <2>1. posted[r] \in Seq(RunEvent \cup {Returned, Raised})
    BY OfRun
  <2>2. RunCompleted \in RunEvent \cup {Returned, Raised}
    BY Names
  <2> QED BY <1>2, <2>1, <2>2, AppendProperties
<1>3. RunTypeOK'
  BY <1>2, <1>o, <1>p, Names DEF RunInv, RunTypeOK, EmitCompleted, Places, Goto, Post, SpendFault, Results
<1>4. Tells(worker'[r], entry'[r], emitted'[r], posted'[r])
  BY <1>1, <1>2, TellCompleted DEF Before, After
<1>5. Written(worker'[r], entry'[r]) /\ Mapped(entry'[r].results, mapper'[r])
  BY <1>2, <1>o, OfRunToo DEF Written, Mapped, Persisted, After
<1>6. /\ mapper'[r] # "none" => mapper'[r] = cache'
      /\ worker'[r] \in {"pipeline"} \cup After => mapper'[r] # "none"
      /\ worker'[r] \in {"store", "results"} => output'[r] \in Results
      /\ worker'[r] = "results" => Mapped(output'[r], mapper'[r])
  BY <1>2, <1>o, OfRunToo DEF After, Mapped
<1>7. /\ worker'[r] = "results" \/ entry'[r].results \in Results =>
           entry'[r].artifacts \/ r \notin Registered
      /\ entry'[r].db_run_id => r \in db'.runs
      /\ entry'[r].eval_run_id => \E e \in db'.evals : e.run = r
      /\ \A q \in db.runs : q \in db'.runs
      /\ \A e \in db.evals : e \in db'.evals
      /\ emitted' \in [Channel -> Seq(Event)]
  BY <1>2, <1>o, OfRunToo
<1> QED BY <1>2, <1>3, <1>4, <1>5, <1>6, <1>7, <1>o, OneRun DEF Parts

LEMMA PipelineRaisesKeeps ==
  ASSUME RunInv, NEW r \in Run, PipelineRaises(r)
  PROVE  RunTypeOK' /\ Parts'
<1>1. /\ worker[r] \in Places /\ emitted[r] \in Story /\ posted[r] \in Story
      /\ Tells(worker[r], entry[r], emitted[r], posted[r])
  BY OfRun
<1>2. /\ worker[r] \in {"mapper", "pipeline"} /\ worker'[r] = "raised"
      /\ entry'[r] = entry[r]
      /\ mapper'[r] = mapper[r]
      /\ output'[r] = output[r]
      /\ posted'[r] = posted[r]
      /\ emitted' = emitted
      /\ cache' = cache
      /\ db' = db
      /\ registry' = registry
      /\ \A q \in Run \ {r} :
           /\ entry'[q] = entry[q] /\ worker'[q] = worker[q] /\ mapper'[q] = mapper[q]
           /\ output'[q] = output[q] /\ emitted'[q] = emitted[q] /\ posted'[q] = posted[q]
  BY  DEF PipelineRaises, Goto, Post, logVars, RunInv, RunTypeOK
<1>3. RunTypeOK'
  BY <1>2, Names DEF RunInv, RunTypeOK, PipelineRaises, Places, Goto, Post, SpendFault, Results
<1>4. Tells(worker'[r], entry'[r], emitted'[r], posted'[r])
  <2>1. worker[r] \in Before /\ worker'[r] \in Before
    BY <1>2 DEF Before
  <2>2. entry'[r].status = entry[r].status
    BY <1>2
  <2>3. Tells(worker'[r], entry'[r], emitted[r], posted[r])
    BY <1>1, <2>1, <2>2, GoOn
  <2> QED BY <1>2, <2>3
<1>5. Written(worker'[r], entry'[r]) /\ Mapped(entry'[r].results, mapper'[r])
  BY <1>2, OfRunToo DEF Written, Mapped, Persisted, After
<1>6. /\ mapper'[r] # "none" => mapper'[r] = cache'
      /\ worker'[r] \in {"pipeline"} \cup After => mapper'[r] # "none"
      /\ worker'[r] \in {"store", "results"} => output'[r] \in Results
      /\ worker'[r] = "results" => Mapped(output'[r], mapper'[r])
  BY <1>2, OfRunToo DEF After, Mapped
<1>7. /\ worker'[r] = "results" \/ entry'[r].results \in Results =>
           entry'[r].artifacts \/ r \notin Registered
      /\ entry'[r].db_run_id => r \in db'.runs
      /\ entry'[r].eval_run_id => \E e \in db'.evals : e.run = r
      /\ \A q \in db.runs : q \in db'.runs
      /\ \A e \in db.evals : e \in db'.evals
      /\ emitted' \in [Channel -> Seq(Event)]
  BY <1>2, OfRunToo
<1> QED BY <1>2, <1>3, <1>4, <1>5, <1>6, <1>7, OneRun DEF Parts

LEMMA StoreArtifactsKeeps ==
  ASSUME RunInv, NEW r \in Run, StoreArtifacts(r)
  PROVE  RunTypeOK' /\ Parts'
<1>1. /\ worker[r] \in Places /\ emitted[r] \in Story /\ posted[r] \in Story
      /\ Tells(worker[r], entry[r], emitted[r], posted[r])
  BY OfRun
<1>2. /\ worker[r] = "store" /\ worker'[r] = "results"
      /\ entry'[r] = [entry[r] EXCEPT !.artifacts = TRUE]
      /\ output'[r] = [output[r] EXCEPT !.semantic_unavailable = (mapper[r] = "degraded")]
      /\ mapper'[r] = mapper[r]
      /\ posted'[r] = posted[r]
      /\ emitted' = emitted
      /\ cache' = cache
      /\ db' = db
      /\ registry' = registry
      /\ \A q \in Run \ {r} :
           /\ entry'[q] = entry[q] /\ worker'[q] = worker[q] /\ mapper'[q] = mapper[q]
           /\ output'[q] = output[q] /\ emitted'[q] = emitted[q] /\ posted'[q] = posted[q]
  BY  DEF StoreArtifacts, Goto, Post, logVars, RunInv, RunTypeOK
<1>e. entry'[r] \in RunEntry
  BY <1>2, OfRun DEF RunEntry
<1>f. /\ entry'[r].status = entry[r].status /\ entry'[r].results = entry[r].results
      /\ entry'[r].db_run_id = entry[r].db_run_id /\ entry'[r].eval_run_id = entry[r].eval_run_id
      /\ entry'[r].persist_error = entry[r].persist_error /\ entry'[r].artifacts
  BY <1>2, OfRun DEF RunEntry
<1>o. output'[r] \in Results /\ output'[r].semantic_unavailable = (mapper[r] = "degraded")
  BY <1>2, OfRunToo DEF Results
<1>3. RunTypeOK'
  BY <1>2, <1>e, <1>o, Names DEF RunInv, RunTypeOK, StoreArtifacts, Places, Goto, Post, SpendFault, Results
<1>4. Tells(worker'[r], entry'[r], emitted'[r], posted'[r])
  <2>1. worker[r] \in After /\ worker'[r] \in After
    BY <1>2 DEF After
  <2>2. entry'[r].status = entry[r].status
    BY <1>2, <1>f
  <2>3. Tells(worker'[r], entry'[r], emitted[r], posted[r])
    BY <1>1, <2>1, <2>2, GoOn
  <2> QED BY <1>2, <2>3
<1>5. Written(worker'[r], entry'[r]) /\ Mapped(entry'[r].results, mapper'[r])
  BY <1>2, <1>f, <1>o, OfRunToo DEF Written, Mapped, Persisted, After
<1>6. /\ mapper'[r] # "none" => mapper'[r] = cache'
      /\ worker'[r] \in {"pipeline"} \cup After => mapper'[r] # "none"
      /\ worker'[r] \in {"store", "results"} => output'[r] \in Results
      /\ worker'[r] = "results" => Mapped(output'[r], mapper'[r])
  BY <1>2, <1>f, <1>o, OfRunToo DEF After, Mapped
<1>7. /\ worker'[r] = "results" \/ entry'[r].results \in Results =>
           entry'[r].artifacts \/ r \notin Registered
      /\ entry'[r].db_run_id => r \in db'.runs
      /\ entry'[r].eval_run_id => \E e \in db'.evals : e.run = r
      /\ \A q \in db.runs : q \in db'.runs
      /\ \A e \in db.evals : e \in db'.evals
      /\ emitted' \in [Channel -> Seq(Event)]
  BY <1>2, <1>f, <1>o, OfRunToo
<1> QED BY <1>2, <1>3, <1>4, <1>5, <1>6, <1>7, <1>f, <1>o, OneRun DEF Parts

LEMMA StoreResultsKeeps ==
  ASSUME RunInv, NEW r \in Run, StoreResults(r)
  PROVE  RunTypeOK' /\ Parts'
<1>1. /\ worker[r] \in Places /\ emitted[r] \in Story /\ posted[r] \in Story
      /\ Tells(worker[r], entry[r], emitted[r], posted[r])
  BY OfRun
<1>2. /\ worker[r] = "results" /\ worker'[r] = "persist"
      /\ entry'[r] = [entry[r] EXCEPT !.results = output[r]]
      /\ mapper'[r] = mapper[r]
      /\ output'[r] = output[r]
      /\ posted'[r] = posted[r]
      /\ emitted' = emitted
      /\ cache' = cache
      /\ db' = db
      /\ registry' = registry
      /\ \A q \in Run \ {r} :
           /\ entry'[q] = entry[q] /\ worker'[q] = worker[q] /\ mapper'[q] = mapper[q]
           /\ output'[q] = output[q] /\ emitted'[q] = emitted[q] /\ posted'[q] = posted[q]
  BY  DEF StoreResults, Goto, Post, logVars, RunInv, RunTypeOK
<1>e. entry'[r] \in RunEntry
  BY <1>2, OfRun, OfRunToo DEF RunEntry
<1>f. /\ entry'[r].status = entry[r].status /\ entry'[r].results = output[r]
      /\ entry'[r].db_run_id = entry[r].db_run_id /\ entry'[r].eval_run_id = entry[r].eval_run_id
      /\ entry'[r].persist_error = entry[r].persist_error /\ entry'[r].artifacts = entry[r].artifacts
  BY <1>2, OfRun DEF RunEntry
<1>3. RunTypeOK'
  BY <1>2, <1>e, Names DEF RunInv, RunTypeOK, StoreResults, Places, Goto, Post, SpendFault, Results
<1>4. Tells(worker'[r], entry'[r], emitted'[r], posted'[r])
  <2>1. worker[r] \in After /\ worker'[r] \in After
    BY <1>2 DEF After
  <2>2. entry'[r].status = entry[r].status
    BY <1>2, <1>f
  <2>3. Tells(worker'[r], entry'[r], emitted[r], posted[r])
    BY <1>1, <2>1, <2>2, GoOn
  <2> QED BY <1>2, <2>3
<1>5. Written(worker'[r], entry'[r]) /\ Mapped(entry'[r].results, mapper'[r])
  BY <1>2, <1>f, OfRunToo DEF Written, Mapped, Persisted, After
<1>6. /\ mapper'[r] # "none" => mapper'[r] = cache'
      /\ worker'[r] \in {"pipeline"} \cup After => mapper'[r] # "none"
      /\ worker'[r] \in {"store", "results"} => output'[r] \in Results
      /\ worker'[r] = "results" => Mapped(output'[r], mapper'[r])
  BY <1>2, <1>f, OfRunToo DEF After, Mapped
<1>7. /\ worker'[r] = "results" \/ entry'[r].results \in Results =>
           entry'[r].artifacts \/ r \notin Registered
      /\ entry'[r].db_run_id => r \in db'.runs
      /\ entry'[r].eval_run_id => \E e \in db'.evals : e.run = r
      /\ \A q \in db.runs : q \in db'.runs
      /\ \A e \in db.evals : e \in db'.evals
      /\ emitted' \in [Channel -> Seq(Event)]
  BY <1>2, <1>f, OfRunToo
<1> QED BY <1>2, <1>3, <1>4, <1>5, <1>6, <1>7, <1>f, OneRun DEF Parts

LEMMA PersistRunKeeps ==
  ASSUME RunInv, NEW r \in Run, PersistRun(r)
  PROVE  RunTypeOK' /\ Parts'
<1>1. /\ worker[r] \in Places /\ emitted[r] \in Story /\ posted[r] \in Story
      /\ Tells(worker[r], entry[r], emitted[r], posted[r])
  BY OfRun
<1>2. /\ worker[r] = "persist" /\ worker'[r] = "eval"
      /\ entry'[r] = [entry[r] EXCEPT !.db_run_id = TRUE]
      /\ db' = [db EXCEPT !.runs = @ \cup {r}]
      /\ mapper'[r] = mapper[r]
      /\ output'[r] = output[r]
      /\ posted'[r] = posted[r]
      /\ emitted' = emitted
      /\ cache' = cache
      /\ registry' = registry
      /\ \A q \in Run \ {r} :
           /\ entry'[q] = entry[q] /\ worker'[q] = worker[q] /\ mapper'[q] = mapper[q]
           /\ output'[q] = output[q] /\ emitted'[q] = emitted[q] /\ posted'[q] = posted[q]
  BY  DEF PersistRun, Goto, Post, logVars, RunInv, RunTypeOK
<1>e. entry'[r] \in RunEntry
  BY <1>2, OfRun DEF RunEntry
<1>f. /\ entry'[r].status = entry[r].status /\ entry'[r].results = entry[r].results
      /\ entry'[r].artifacts = entry[r].artifacts /\ entry'[r].db_run_id
      /\ entry'[r].eval_run_id = entry[r].eval_run_id /\ entry'[r].persist_error = entry[r].persist_error
  BY <1>2, OfRun DEF RunEntry
<1>d. /\ db.runs \in SUBSET Run /\ db.evals \in SUBSET [run : Run, model_tag : Generator]
      /\ db \in [runs : SUBSET Run, evals : SUBSET [run : Run, model_tag : Generator]]
  BY DEF RunInv, RunTypeOK
<1>b. /\ db'.runs = db.runs \cup {r} /\ db'.evals = db.evals
      /\ db' \in [runs : SUBSET Run, evals : SUBSET [run : Run, model_tag : Generator]]
  BY <1>2, <1>d
<1>3. RunTypeOK'
  BY <1>2, <1>e, <1>b, Names DEF RunInv, RunTypeOK, PersistRun, Places, Goto, Post, SpendFault, Results
<1>4. Tells(worker'[r], entry'[r], emitted'[r], posted'[r])
  <2>1. worker[r] \in After /\ worker'[r] \in After
    BY <1>2 DEF After
  <2>2. entry'[r].status = entry[r].status
    BY <1>2, <1>f
  <2>3. Tells(worker'[r], entry'[r], emitted[r], posted[r])
    BY <1>1, <2>1, <2>2, GoOn
  <2> QED BY <1>2, <2>3
<1>5. Written(worker'[r], entry'[r]) /\ Mapped(entry'[r].results, mapper'[r])
  BY <1>2, <1>f, <1>b, OfRunToo DEF Written, Mapped, Persisted, After
<1>6. /\ mapper'[r] # "none" => mapper'[r] = cache'
      /\ worker'[r] \in {"pipeline"} \cup After => mapper'[r] # "none"
      /\ worker'[r] \in {"store", "results"} => output'[r] \in Results
      /\ worker'[r] = "results" => Mapped(output'[r], mapper'[r])
  BY <1>2, <1>f, <1>b, OfRunToo DEF After, Mapped
<1>7. /\ worker'[r] = "results" \/ entry'[r].results \in Results =>
           entry'[r].artifacts \/ r \notin Registered
      /\ entry'[r].db_run_id => r \in db'.runs
      /\ entry'[r].eval_run_id => \E e \in db'.evals : e.run = r
      /\ \A q \in db.runs : q \in db'.runs
      /\ \A e \in db.evals : e \in db'.evals
      /\ emitted' \in [Channel -> Seq(Event)]
  BY <1>2, <1>f, <1>b, OfRunToo
<1> QED BY <1>2, <1>3, <1>4, <1>5, <1>6, <1>7, <1>f, <1>b, OneRun DEF Parts

LEMMA WriteEvalRunKeeps ==
  ASSUME RunInv, NEW r \in Run, WriteEvalRun(r)
  PROVE  RunTypeOK' /\ Parts'
<1>1. /\ worker[r] \in Places /\ emitted[r] \in Story /\ posted[r] \in Story
      /\ Tells(worker[r], entry[r], emitted[r], posted[r])
  BY OfRun
<1>2. /\ worker[r] = "eval" /\ worker'[r] = "returned"
      /\ entry'[r] = [entry[r] EXCEPT !.eval_run_id = TRUE]
      /\ db' = [db EXCEPT !.evals = @ \cup {EvalRow(r)}]
      /\ mapper'[r] = mapper[r]
      /\ output'[r] = output[r]
      /\ posted'[r] = posted[r]
      /\ emitted' = emitted
      /\ cache' = cache
      /\ registry' = registry
      /\ \A q \in Run \ {r} :
           /\ entry'[q] = entry[q] /\ worker'[q] = worker[q] /\ mapper'[q] = mapper[q]
           /\ output'[q] = output[q] /\ emitted'[q] = emitted[q] /\ posted'[q] = posted[q]
  BY  DEF WriteEvalRun, Goto, Post, logVars, RunInv, RunTypeOK
<1>e. entry'[r] \in RunEntry
  BY <1>2, OfRun DEF RunEntry
<1>f. /\ entry'[r].status = entry[r].status /\ entry'[r].results = entry[r].results
      /\ entry'[r].artifacts = entry[r].artifacts /\ entry'[r].eval_run_id
      /\ entry'[r].db_run_id = entry[r].db_run_id /\ entry'[r].persist_error = entry[r].persist_error
  BY <1>2, OfRun DEF RunEntry
<1>d. /\ db.runs \in SUBSET Run /\ db.evals \in SUBSET [run : Run, model_tag : Generator]
      /\ db \in [runs : SUBSET Run, evals : SUBSET [run : Run, model_tag : Generator]]
  BY DEF RunInv, RunTypeOK
<1>v. EvalRow(r) \in [run : Run, model_tag : Generator] /\ EvalRow(r).run = r
  <2>1. entry[r].results \in Results /\ entry[r].generator \in Generator
    BY <1>2, OfRun, OfRunToo DEF Written, RunEntry
  <2>2. entry[r].results.generator_name \in Generator
    BY <2>1 DEF Results
  <2> QED BY <2>1, <2>2 DEF EvalRow
<1>b. /\ db'.runs = db.runs /\ db'.evals = db.evals \cup {EvalRow(r)}
      /\ db' \in [runs : SUBSET Run, evals : SUBSET [run : Run, model_tag : Generator]]
  BY <1>2, <1>d, <1>v
<1>3. RunTypeOK'
  BY <1>2, <1>e, <1>b, Names DEF RunInv, RunTypeOK, WriteEvalRun, Places, Goto, Post, SpendFault, Results
<1>4. Tells(worker'[r], entry'[r], emitted'[r], posted'[r])
  <2>1. worker[r] \in After /\ worker'[r] \in After
    BY <1>2 DEF After
  <2>2. entry'[r].status = entry[r].status
    BY <1>2, <1>f
  <2>3. Tells(worker'[r], entry'[r], emitted[r], posted[r])
    BY <1>1, <2>1, <2>2, GoOn
  <2> QED BY <1>2, <2>3
<1>5. Written(worker'[r], entry'[r]) /\ Mapped(entry'[r].results, mapper'[r])
  BY <1>2, <1>f, <1>v, <1>b, OfRunToo DEF Written, Mapped, Persisted, After
<1>6. /\ mapper'[r] # "none" => mapper'[r] = cache'
      /\ worker'[r] \in {"pipeline"} \cup After => mapper'[r] # "none"
      /\ worker'[r] \in {"store", "results"} => output'[r] \in Results
      /\ worker'[r] = "results" => Mapped(output'[r], mapper'[r])
  BY <1>2, <1>f, <1>v, <1>b, OfRunToo DEF After, Mapped
<1>7. /\ worker'[r] = "results" \/ entry'[r].results \in Results =>
           entry'[r].artifacts \/ r \notin Registered
      /\ entry'[r].db_run_id => r \in db'.runs
      /\ entry'[r].eval_run_id => \E e \in db'.evals : e.run = r
      /\ \A q \in db.runs : q \in db'.runs
      /\ \A e \in db.evals : e \in db'.evals
      /\ emitted' \in [Channel -> Seq(Event)]
  BY <1>2, <1>f, <1>v, <1>b, OfRunToo
<1> QED BY <1>2, <1>3, <1>4, <1>5, <1>6, <1>7, <1>f, <1>v, <1>b, OneRun DEF Parts

LEMMA PersistFailsKeeps ==
  ASSUME RunInv, NEW r \in Run, PersistFails(r)
  PROVE  RunTypeOK' /\ Parts'
<1>1. /\ worker[r] \in Places /\ emitted[r] \in Story /\ posted[r] \in Story
      /\ Tells(worker[r], entry[r], emitted[r], posted[r])
  BY OfRun
<1>2. /\ worker[r] \in {"persist", "eval"} /\ worker'[r] = "returned"
      /\ entry'[r] = [entry[r] EXCEPT !.persist_error = TRUE]
      /\ \/ db' = db
         \/ db' = [db EXCEPT !.runs = @ \cup {r}]
         \/ db' = [db EXCEPT !.evals = @ \cup {EvalRow(r)}]
      /\ mapper'[r] = mapper[r]
      /\ output'[r] = output[r]
      /\ posted'[r] = posted[r]
      /\ emitted' = emitted
      /\ cache' = cache
      /\ registry' = registry
      /\ \A q \in Run \ {r} :
           /\ entry'[q] = entry[q] /\ worker'[q] = worker[q] /\ mapper'[q] = mapper[q]
           /\ output'[q] = output[q] /\ emitted'[q] = emitted[q] /\ posted'[q] = posted[q]
  BY  DEF PersistFails, Goto, Post, logVars, RunInv, RunTypeOK
<1>e. entry'[r] \in RunEntry
  BY <1>2, OfRun DEF RunEntry
<1>f. /\ entry'[r].status = entry[r].status /\ entry'[r].results = entry[r].results
      /\ entry'[r].artifacts = entry[r].artifacts /\ entry'[r].persist_error
      /\ entry'[r].db_run_id = entry[r].db_run_id /\ entry'[r].eval_run_id = entry[r].eval_run_id
  BY <1>2, OfRun DEF RunEntry
<1>d. /\ db.runs \in SUBSET Run /\ db.evals \in SUBSET [run : Run, model_tag : Generator]
      /\ db \in [runs : SUBSET Run, evals : SUBSET [run : Run, model_tag : Generator]]
  BY DEF RunInv, RunTypeOK
<1>v. EvalRow(r) \in [run : Run, model_tag : Generator] /\ EvalRow(r).run = r
  <2>1. entry[r].results \in Results /\ entry[r].generator \in Generator
    BY <1>2, OfRun, OfRunToo DEF Written, RunEntry
  <2>2. entry[r].results.generator_name \in Generator
    BY <2>1 DEF Results
  <2> QED BY <2>1, <2>2 DEF EvalRow
<1>x. worker[r] \in After /\ worker'[r] \in After
  BY <1>2 DEF After
<1>b. /\ \A q \in db.runs : q \in db'.runs
      /\ \A e \in db.evals : e \in db'.evals
      /\ db' \in [runs : SUBSET Run, evals : SUBSET [run : Run, model_tag : Generator]]
  BY <1>2, <1>d, <1>v
<1>3. RunTypeOK'
  BY <1>2, <1>e, <1>b, Names DEF RunInv, RunTypeOK, PersistFails, Places, Goto, Post, SpendFault, Results
<1>4. Tells(worker'[r], entry'[r], emitted'[r], posted'[r])
  <2>1. /\ entry'[r].status = entry[r].status
        /\ emitted'[r] = emitted[r] /\ posted'[r] = posted[r]
    BY <1>2, <1>f
  <2>2. Tells(worker'[r], entry'[r], emitted[r], posted[r])
    BY <1>1, <1>x, <2>1, GoOn
  <2> QED BY <2>1, <2>2
<1>5. Written(worker'[r], entry'[r]) /\ Mapped(entry'[r].results, mapper'[r])
  BY <1>2, <1>f, <1>v, <1>b, OfRunToo DEF Written, Mapped, Persisted, After
<1>6. /\ mapper'[r] # "none" => mapper'[r] = cache'
      /\ worker'[r] \in {"pipeline"} \cup After => mapper'[r] # "none"
      /\ worker'[r] \in {"store", "results"} => output'[r] \in Results
      /\ worker'[r] = "results" => Mapped(output'[r], mapper'[r])
  BY <1>2, <1>f, <1>v, <1>b, OfRunToo DEF After, Mapped
<1>7. /\ worker'[r] = "results" \/ entry'[r].results \in Results =>
           entry'[r].artifacts \/ r \notin Registered
      /\ entry'[r].db_run_id => r \in db'.runs
      /\ entry'[r].eval_run_id => \E e \in db'.evals : e.run = r
      /\ \A q \in db.runs : q \in db'.runs
      /\ \A e \in db.evals : e \in db'.evals
      /\ emitted' \in [Channel -> Seq(Event)]
  BY <1>2, <1>f, <1>v, <1>b, OfRunToo
<1> QED BY <1>2, <1>3, <1>4, <1>5, <1>6, <1>7, <1>f, <1>v, <1>b, OneRun DEF Parts

LEMMA EndThreadKeeps ==
  ASSUME RunInv, NEW r \in Run, EndThread(r)
  PROVE  RunTypeOK' /\ Parts'
<1>1. /\ worker[r] \in Places /\ emitted[r] \in Story /\ posted[r] \in Story
      /\ Tells(worker[r], entry[r], emitted[r], posted[r])
  BY OfRun
<1>2. /\ worker[r] \in {"returned", "raised"} /\ worker'[r] = "ended"
      /\ posted'[r] = Append(posted[r], IF worker[r] = "returned" THEN Returned ELSE Raised)
      /\ entry'[r] = entry[r]
      /\ mapper'[r] = mapper[r]
      /\ output'[r] = output[r]
      /\ emitted' = emitted
      /\ cache' = cache
      /\ db' = db
      /\ registry' = registry
      /\ \A q \in Run \ {r} :
           /\ entry'[q] = entry[q] /\ worker'[q] = worker[q] /\ mapper'[q] = mapper[q]
           /\ output'[q] = output[q] /\ emitted'[q] = emitted[q] /\ posted'[q] = posted[q]
  BY  DEF EndThread, Goto, Post, logVars, RunInv, RunTypeOK
<1>g. worker[r] = "returned" => Answerable(entry[r])
  BY OfRunToo DEF Written, Answerable
<1>p. posted'[r] \in Seq(RunEvent \cup {Returned, Raised})
  <2>1. posted[r] \in Seq(RunEvent \cup {Returned, Raised})
    BY OfRun
  <2>2. (IF worker[r] = "returned" THEN Returned ELSE Raised) \in RunEvent \cup {Returned, Raised}
    BY Names
  <2> QED BY <1>2, <2>1, <2>2, AppendProperties
<1>3. RunTypeOK'
  BY <1>2, <1>p, Names DEF RunInv, RunTypeOK, EndThread, Places, Goto, Post, SpendFault, Results
<1>4. Tells(worker'[r], entry'[r], emitted'[r], posted'[r])
  BY <1>1, <1>2, <1>g, TellReturned, TellRaised
<1>5. Written(worker'[r], entry'[r]) /\ Mapped(entry'[r].results, mapper'[r])
  BY <1>2, OfRunToo DEF Written, Mapped, Persisted, After
<1>6. /\ mapper'[r] # "none" => mapper'[r] = cache'
      /\ worker'[r] \in {"pipeline"} \cup After => mapper'[r] # "none"
      /\ worker'[r] \in {"store", "results"} => output'[r] \in Results
      /\ worker'[r] = "results" => Mapped(output'[r], mapper'[r])
  BY <1>2, OfRunToo DEF After, Mapped
<1>7. /\ worker'[r] = "results" \/ entry'[r].results \in Results =>
           entry'[r].artifacts \/ r \notin Registered
      /\ entry'[r].db_run_id => r \in db'.runs
      /\ entry'[r].eval_run_id => \E e \in db'.evals : e.run = r
      /\ \A q \in db.runs : q \in db'.runs
      /\ \A e \in db.evals : e \in db'.evals
      /\ emitted' \in [Channel -> Seq(Event)]
  BY <1>2, OfRunToo
<1> QED BY <1>2, <1>3, <1>4, <1>5, <1>6, <1>7, OneRun DEF Parts

LEMMA DeliverKeeps ==
  ASSUME RunInv, NEW r \in Run, Deliver(r)
  PROVE  RunTypeOK' /\ Parts'
<1>1. /\ worker[r] \in Places /\ emitted[r] \in Story /\ posted[r] \in Story
      /\ Tells(worker[r], entry[r], emitted[r], posted[r])
  BY OfRun
<1>n. Next
  BY DEF Next, Loop
<1>l. emitted' \in [Channel -> Seq(Event)]
  BY LogInvKept, <1>n DEF LogInv, LogTypeOK
<1>r. r \in Channel /\ emitted \in [Channel -> Seq(Event)]
      /\ posted \in [Run -> Seq(RunEvent \cup {Returned, Raised})]
      /\ Run \subseteq Channel
  BY OfRun, OfRunToo, RegistryAssumption DEF RunInv, RunTypeOK
<1>s. emitted'[r] = Append(emitted[r], Head(posted[r])) /\ \A q \in Run \ {r} : emitted'[q] = emitted[q]
  BY <1>r DEF Deliver, Record
<1>2. /\ worker' = worker /\ posted[r] # <<>> /\ Head(posted[r]) \notin {Returned, Raised}
      /\ posted'[r] = Tail(posted[r])
      /\ emitted'[r] = Append(emitted[r], Head(posted[r]))
      /\ entry'[r] = entry[r]
      /\ mapper'[r] = mapper[r]
      /\ output'[r] = output[r]
      /\ cache' = cache
      /\ db' = db
      /\ registry' = registry
      /\ \A q \in Run \ {r} :
           /\ entry'[q] = entry[q] /\ worker'[q] = worker[q] /\ mapper'[q] = mapper[q]
           /\ output'[q] = output[q] /\ emitted'[q] = emitted[q] /\ posted'[q] = posted[q]
  BY <1>r, <1>s DEF Deliver, Goto, Post, logVars, RunInv, RunTypeOK
<1>p. posted'[r] \in Seq(RunEvent \cup {Returned, Raised})
  BY <1>2, DeliverFacts
<1>3. RunTypeOK'
  BY <1>2, <1>p, Names DEF RunInv, RunTypeOK, Deliver, Places, Goto, Post, SpendFault, Results
<1>4. Tells(worker'[r], entry'[r], emitted'[r], posted'[r])
  BY <1>2, DeliverFacts
<1>5. Written(worker'[r], entry'[r]) /\ Mapped(entry'[r].results, mapper'[r])
  BY <1>2, <1>l, OfRunToo DEF Written, Mapped, Persisted, After
<1>6. /\ mapper'[r] # "none" => mapper'[r] = cache'
      /\ worker'[r] \in {"pipeline"} \cup After => mapper'[r] # "none"
      /\ worker'[r] \in {"store", "results"} => output'[r] \in Results
      /\ worker'[r] = "results" => Mapped(output'[r], mapper'[r])
  BY <1>2, <1>l, OfRunToo DEF After, Mapped
<1>7. /\ worker'[r] = "results" \/ entry'[r].results \in Results =>
           entry'[r].artifacts \/ r \notin Registered
      /\ entry'[r].db_run_id => r \in db'.runs
      /\ entry'[r].eval_run_id => \E e \in db'.evals : e.run = r
      /\ \A q \in db.runs : q \in db'.runs
      /\ \A e \in db.evals : e \in db'.evals
      /\ emitted' \in [Channel -> Seq(Event)]
  BY <1>2, <1>l, OfRunToo
<1> QED BY <1>2, <1>3, <1>4, <1>5, <1>6, <1>7, <1>l, OneRun DEF Parts

LEMMA ResumeKeeps ==
  ASSUME RunInv, NEW r \in Run, Resume(r)
  PROVE  RunTypeOK' /\ Parts'
<1>1. /\ worker[r] \in Places /\ emitted[r] \in Story /\ posted[r] \in Story
      /\ Tells(worker[r], entry[r], emitted[r], posted[r])
  BY OfRun
<1>n. Next
  BY DEF Next, Loop
<1>l. emitted' \in [Channel -> Seq(Event)]
  BY LogInvKept, <1>n DEF LogInv, LogTypeOK
<1>r. r \in Channel /\ emitted \in [Channel -> Seq(Event)]
      /\ posted \in [Run -> Seq(RunEvent \cup {Returned, Raised})]
      /\ Run \subseteq Channel
  BY OfRun, OfRunToo, RegistryAssumption DEF RunInv, RunTypeOK
<1>s. /\ Head(posted[r]) = Returned => emitted' = emitted
      /\ Head(posted[r]) = Raised => emitted'[r] = Append(emitted[r], RunFailed)
      /\ \A q \in Run \ {r} : emitted'[q] = emitted[q]
  BY <1>r, Names DEF Resume, Record, logVars
<1>2. /\ worker' = worker /\ posted[r] # <<>> /\ Head(posted[r]) \in {Returned, Raised}
      /\ posted'[r] = Tail(posted[r])
      /\ \/ /\ Head(posted[r]) = Returned /\ emitted'[r] = emitted[r]
            /\ entry'[r] = [entry[r] EXCEPT !.status = "completed"]
         \/ /\ Head(posted[r]) = Raised /\ emitted'[r] = Append(emitted[r], RunFailed)
            /\ entry'[r] = [entry[r] EXCEPT !.status = "failed", !.error = TRUE]
      /\ mapper'[r] = mapper[r]
      /\ output'[r] = output[r]
      /\ cache' = cache
      /\ db' = db
      /\ registry' = registry
      /\ \A q \in Run \ {r} :
           /\ entry'[q] = entry[q] /\ worker'[q] = worker[q] /\ mapper'[q] = mapper[q]
           /\ output'[q] = output[q] /\ emitted'[q] = emitted[q] /\ posted'[q] = posted[q]
  BY <1>r, <1>s, Names DEF Resume, Goto, Post, logVars, RunInv, RunTypeOK
<1>p. posted'[r] \in Seq(RunEvent \cup {Returned, Raised})
  BY <1>2, OfRun, HeadTailProperties
<1>e. entry'[r] \in RunEntry
  BY <1>2, OfRun, Names DEF RunEntry
<1>f. /\ entry'[r].results = entry[r].results /\ entry'[r].artifacts = entry[r].artifacts
      /\ entry'[r].db_run_id = entry[r].db_run_id /\ entry'[r].eval_run_id = entry[r].eval_run_id
      /\ entry'[r].persist_error = entry[r].persist_error
      /\ Head(posted[r]) = Returned => entry'[r].status = "completed"
      /\ Head(posted[r]) = Raised => entry'[r].status = "failed"
  <2>1. entry[r] \in RunEntry /\ Returned # Raised
    BY OfRun, Names
  <2> QED BY <1>2, <2>1 DEF RunEntry
<1>3. RunTypeOK'
  BY <1>2, <1>e, <1>p, Names DEF RunInv, RunTypeOK, Resume, Places, Goto, Post, SpendFault, Results
<1>4. Tells(worker'[r], entry'[r], emitted'[r], posted'[r])
  <2>1. /\ worker[r] = "ended" /\ Tail(posted[r]) = <<>>
        /\ Head(posted[r]) = Returned =>
             Ends(emitted[r], <<RunCompleted>>) /\ Answerable(entry[r])
        /\ Head(posted[r]) = Raised => Ends(emitted[r], <<>>)
    BY <1>2, ResumeFacts
  <2>2. CASE Head(posted[r]) = Returned
    <3>1. Answerable(entry'[r]) /\ entry'[r].status = "completed" /\ emitted'[r] = emitted[r]
      BY <1>2, <1>f, <2>1, <2>2, Names DEF Answerable, Persisted
    <3> QED BY <1>2, <2>1, <2>2, <3>1 DEF Tells, Before, After
  <2>3. CASE Head(posted[r]) = Raised
    <3>1. Ends(Append(emitted[r], RunFailed), <<RunFailed>>)
      BY <1>1, <2>1, <2>3, Names, LastStep
    <3>2. emitted'[r] = Append(emitted[r], RunFailed) /\ entry'[r].status = "failed"
      BY <1>2, <1>f, <2>3, Names
    <3> QED BY <1>2, <2>1, <3>1, <3>2 DEF Tells, Before, After
  <2> QED BY <1>2, <2>2, <2>3
<1>5. Written(worker'[r], entry'[r]) /\ Mapped(entry'[r].results, mapper'[r])
  BY <1>2, <1>l, <1>f, OfRunToo DEF Written, Mapped, Persisted, After
<1>6. /\ mapper'[r] # "none" => mapper'[r] = cache'
      /\ worker'[r] \in {"pipeline"} \cup After => mapper'[r] # "none"
      /\ worker'[r] \in {"store", "results"} => output'[r] \in Results
      /\ worker'[r] = "results" => Mapped(output'[r], mapper'[r])
  BY <1>2, <1>l, <1>f, OfRunToo DEF After, Mapped
<1>7. /\ worker'[r] = "results" \/ entry'[r].results \in Results =>
           entry'[r].artifacts \/ r \notin Registered
      /\ entry'[r].db_run_id => r \in db'.runs
      /\ entry'[r].eval_run_id => \E e \in db'.evals : e.run = r
      /\ \A q \in db.runs : q \in db'.runs
      /\ \A e \in db.evals : e \in db'.evals
      /\ emitted' \in [Channel -> Seq(Event)]
  BY <1>2, <1>l, <1>f, OfRunToo
<1> QED BY <1>2, <1>3, <1>4, <1>5, <1>6, <1>7, <1>l, <1>f, OneRun DEF Parts

LEMMA StartRunKeeps ==
  ASSUME RunInv, NEW r \in Run, NEW g \in Generator, StartRun(r, g), Next
  PROVE  RunTypeOK' /\ Parts'
<1> DEFINE evicted == Registered \ {registry'[i] : i \in DOMAIN registry'}
           fresh == [NoRun EXCEPT !.status = "running", !.generator = g]
<1>1. /\ worker[r] = "none" /\ emitted[r] = <<>> /\ posted[r] = <<>> /\ r \in Channel
      /\ Run \subseteq Channel /\ emitted \in [Channel -> Seq(Event)]
      /\ worker \in [Run -> Places] /\ registry \in Seq(Run)
  BY UnseenFacts, OfRun, RegistryAssumption DEF StartRun, RunInv, LogInv, LogTypeOK, RunTypeOK
<1>2. registry' \in Seq(Run) /\ r \notin evicted
  <2>1. registry' = Kept(Append(registry, r))
    BY DEF StartRun
  <2>2. /\ registry' \in Seq(Run)
        /\ \E i \in DOMAIN registry' : registry'[i] = r
    BY <1>1, <2>1, KeptProperties
  <2> QED BY <2>2
<1>3. fresh \in RunEntry /\ fresh.status = "running" /\ fresh.results = None
      /\ ~fresh.db_run_id /\ ~fresh.eval_run_id
  BY RegistryAssumption DEF RunEntry, NoRun
<1>4. /\ entry' = [q \in Run |-> IF q \in evicted THEN [entry[q] EXCEPT !.artifacts = FALSE]
                                 ELSE IF q = r THEN fresh ELSE entry[q]]
      /\ Record(r, RunStarted, evicted)
      /\ worker' = [worker EXCEPT ![r] = "queued"]
      /\ UNCHANGED <<stage, mapper, output, posted, cache, db, faults>>
  BY DEF StartRun
<1>5. \A q \in Run : q # r =>
         /\ emitted'[q] = emitted[q] /\ worker'[q] = worker[q]
         /\ q \notin evicted => entry'[q] = entry[q]
         /\ q \in evicted => entry'[q] = [entry[q] EXCEPT !.artifacts = FALSE]
  BY <1>1, <1>4 DEF Record
<1>6. /\ emitted'[r] = Append(emitted[r], RunStarted) /\ worker'[r] = "queued"
      /\ entry'[r] = fresh
  BY <1>1, <1>2, <1>4 DEF Record
<1>7. \A q \in {registry'[i] : i \in DOMAIN registry'} : q = r \/ q \in Registered
  <2>1. registry' = Kept(Append(registry, r))
    BY DEF StartRun
  <2>2. \A i \in DOMAIN registry' :
          registry'[i] = r \/ \E j \in DOMAIN registry : registry'[i] = registry[j]
    BY <1>1, <2>1, KeptProperties
  <2> QED BY <2>2 DEF Registered
<1>8. Registered \subseteq Run /\ {registry'[i] : i \in DOMAIN registry'} \subseteq Run
  BY <1>1, <1>2, ElementOfSeq, LenProperties DEF Registered
<1>9. \A q \in {registry'[i] : i \in DOMAIN registry'} : q \notin evicted
  OBVIOUS
<1> HIDE DEF evicted, fresh
<1>a. \A q \in Run : q # r =>
         /\ entry'[q] \in RunEntry
         /\ entry'[q].status = entry[q].status /\ entry'[q].results = entry[q].results
         /\ entry'[q].db_run_id = entry[q].db_run_id /\ entry'[q].eval_run_id = entry[q].eval_run_id
         /\ entry'[q].persist_error = entry[q].persist_error
  <2> SUFFICES ASSUME NEW q \in Run, q # r
               PROVE  /\ entry'[q] \in RunEntry
                      /\ entry'[q].status = entry[q].status /\ entry'[q].results = entry[q].results
                      /\ entry'[q].db_run_id = entry[q].db_run_id
                      /\ entry'[q].eval_run_id = entry[q].eval_run_id
                      /\ entry'[q].persist_error = entry[q].persist_error
    OBVIOUS
  <2>1. entry[q] \in RunEntry
    BY OfRun
  <2>2. CASE q \in evicted
    BY <1>5, <2>1, <2>2 DEF RunEntry
  <2>3. CASE q \notin evicted
    BY <1>5, <2>1, <2>3
  <2> QED BY <2>2, <2>3
<1>b. RunTypeOK'
  <2>1. \A q \in Run : entry'[q] \in RunEntry
    BY <1>3, <1>6, <1>a
  <2>2. entry' \in [Run -> RunEntry]
    BY <1>4, <2>1
  <2>3. worker' \in [Run -> Places]
    BY <1>1, <1>4 DEF Places
  <2> QED BY <1>2, <1>4, <2>2, <2>3 DEF RunInv, RunTypeOK
<1>c. StoryInv'
  <2>1. ASSUME NEW q \in Run, q # r
        PROVE  Tells(worker'[q], entry'[q], emitted'[q], posted'[q])
    <3>1. Tells(worker[q], entry[q], emitted[q], posted[q])
      BY OfRun
    <3>2. Answerable(entry[q]) => Answerable(entry'[q])
      BY <1>a, <2>1 DEF Answerable, Persisted
    <3>3. Tells(worker[q], entry'[q], emitted[q], posted[q])
      BY <1>a, <2>1, <3>1, <3>2, SameStory
    <3> QED BY <1>4, <1>5, <2>1, <3>3
  <2>2. Tells(worker'[r], entry'[r], emitted'[r], posted'[r])
    <3>1. /\ Append(emitted[r], RunStarted) \in Story /\ RunStarted \in Event
          /\ Plain(RunStarted) /\ emitted[r] \in Story
      BY OfRun, Names, StoryGrows
    <3>2. Ends(<<>>, <<>>)
      BY DEF Ends
    <3>3. Ends(Append(emitted[r], RunStarted), <<>>)
      BY <1>1, <3>1, <3>2, PlainStep
    <3>4. emitted'[r] \o posted'[r] = Append(emitted[r], RunStarted)
      <4>1. posted'[r] = <<>> /\ emitted'[r] = Append(emitted[r], RunStarted)
        BY <1>1, <1>4, <1>6
      <4> HIDE DEF Story
      <4>2. emitted'[r] \in Seq(Event \cup {Returned, Raised})
        BY <3>1, <4>1 DEF Story
      <4> QED BY <4>1, <4>2, ConcatEmptySeq
    <3> QED BY <1>3, <1>6, <3>3, <3>4 DEF Tells, Before, After
  <2>3. \A q \in Run : Tells(worker'[q], entry'[q], emitted'[q], posted'[q])
    BY <2>1, <2>2
  <2> QED BY <2>3 DEF StoryInv
<1>d. WrittenInv'
  <2>1. ASSUME NEW q \in Run, q # r PROVE Written(worker'[q], entry'[q])
    <3>1. Written(worker[q], entry[q])
      BY OfRunToo
    <3> QED BY <1>5, <1>a, <2>1, <3>1 DEF Written, Persisted
  <2>2. Written(worker'[r], entry'[r])
    BY <1>6 DEF Written
  <2>3. \A q \in Run : Written(worker'[q], entry'[q])
    BY <2>1, <2>2
  <2> QED BY <2>3 DEF WrittenInv
<1>e. MapperInv'
  <2>1. ASSUME NEW q \in Run
        PROVE  /\ mapper'[q] # "none" => mapper'[q] = cache'
               /\ worker'[q] \in {"pipeline"} \cup After => mapper'[q] # "none"
               /\ worker'[q] \in {"store", "results"} => output'[q] \in Results
               /\ worker'[q] = "results" => Mapped(output'[q], mapper'[q])
               /\ Mapped(entry'[q].results, mapper'[q])
    <3>1. CASE q # r
      BY <1>4, <1>5, <1>a, <3>1, OfRunToo
    <3>2. CASE q = r
      <4>1. Mapped(entry'[r].results, mapper'[r])
        BY <1>3, <1>6, RegistryAssumption DEF Mapped
      <4> QED BY <1>4, <1>6, <3>2, <4>1, OfRunToo DEF After
    <3> QED BY <3>1, <3>2
  <2> QED BY <2>1 DEF MapperInv
<1>f. ServedInv'
  <2>1. ASSUME NEW q \in {registry'[i] : i \in DOMAIN registry'},
               worker'[q] = "results" \/ entry'[q].results \in Results
        PROVE  entry'[q].artifacts
    <3>1. q # r
      BY <1>3, <1>6, <2>1, RegistryAssumption
    <3>2. q \in Registered /\ q \in Run /\ q \notin evicted
      BY <1>7, <1>8, <1>9, <3>1
    <3> QED BY <1>5, <2>1, <3>1, <3>2 DEF RunInv, ServedInv
  <2> QED BY <2>1 DEF ServedInv, Registered
<1>g. RowsInv'
  <2>1. \A q \in Run : /\ entry'[q].db_run_id => q \in db'.runs
                       /\ entry'[q].eval_run_id => \E e \in db'.evals : e.run = q
    BY <1>3, <1>4, <1>6, <1>a, OfRunToo
  <2> QED BY <2>1 DEF RowsInv
<1> QED BY <1>b, <1>c, <1>d, <1>e, <1>f, <1>g DEF Parts

LEMMA StreamKeeps ==
  ASSUME RunInv, NEW s \in Subscriber, OpenRun(s) \/ Stream(s) \/ Leave(s)
  PROVE  RunTypeOK' /\ Parts'
<1>1. /\ UNCHANGED <<registry, entry, worker, stage, mapper, output, posted, cache, db>>
      /\ faults' \in Nat /\ emitted' = emitted
  <2>1. UNCHANGED <<registry, entry, worker, stage, mapper, output, posted, cache, db>>
    BY DEF OpenRun, Stream, Leave, runVars
  <2>2. faults' \in Nat
    BY DEF OpenRun, Stream, Leave, runVars, SpendFault, RunInv, RunTypeOK
  <2>3. emitted' = emitted
    BY DEF OpenRun, Stream, Leave, Open, Generate, Subscribe, Replay, StartTail, Forward, Close,
         Disconnect
  <2> QED BY <2>1, <2>2, <2>3
<1>2. RunTypeOK'
  BY <1>1 DEF RunInv, RunTypeOK
<1>3. Parts'
  BY <1>1 DEF RunInv, Parts, StoryInv, WrittenInv, MapperInv, ServedInv, RowsInv, Registered
<1> QED BY <1>2, <1>3

LEMMA RunInitKeeps == Init => RunInv
<1> SUFFICES ASSUME Init PROVE RunInv
  OBVIOUS
<1>1. LogInv
  BY InitKeeps DEF Init
<1>2. NoRun \in RunEntry /\ NoRun.status = "none" /\ NoRun.results = None
      /\ ~NoRun.db_run_id /\ ~NoRun.eval_run_id
  BY RegistryAssumption DEF NoRun, RunEntry
<1>3. RunTypeOK
  <2>1. registry \in Seq(Run) /\ posted \in [Run -> Seq(RunEvent \cup {Returned, Raised})]
    BY DEF Init
  <2>2. stage \in [Run -> 0..NStages]
    BY RegistryAssumption DEF Init
  <2> QED BY <1>2, <2>1, <2>2, RegistryAssumption DEF Init, RunTypeOK, Places
<1>4. \A q \in Run : /\ entry[q] = NoRun /\ worker[q] = "none" /\ emitted[q] = <<>>
                     /\ posted[q] = <<>> /\ mapper[q] = "none"
  BY RegistryAssumption DEF Init, LogInit
<1>5. StoryInv
  <2>1. \A q \in Run : Tells(worker[q], entry[q], emitted[q], posted[q])
    BY <1>2, <1>4 DEF Tells, Before, After
  <2> QED BY <2>1 DEF StoryInv
<1>6. WrittenInv
  BY <1>4 DEF WrittenInv, Written
<1>7. MapperInv
  BY <1>2, <1>4, RegistryAssumption DEF MapperInv, Mapped, After
<1>8. ServedInv
  BY DEF Init, ServedInv, Registered
<1>9. RowsInv
  BY <1>2, <1>4 DEF RowsInv
<1> QED BY <1>1, <1>3, <1>5, <1>6, <1>7, <1>8, <1>9 DEF RunInv

LEMMA RunNextKeeps ==
  ASSUME RunInv, [Next]_vars
  PROVE  RunInv'
<1>1. CASE Next
  <2>1. LogInv'
    BY <1>1, LogInvKept
  <2>2. ASSUME NEW r \in Run, NEW g \in Generator, StartRun(r, g) PROVE RunTypeOK' /\ Parts'
    BY <1>1, <2>2, StartRunKeeps
  <2>3. ASSUME Start PROVE RunTypeOK' /\ Parts'
    <3>1. FreshId \in Run
      BY <2>3 DEF Start, FreshId, Unused
    <3> QED BY <2>2, <2>3, <3>1 DEF Start
  <2>4. ASSUME NEW r \in Run, TakeThread(r) \/ Work(r) \/ Loop(r) PROVE RunTypeOK' /\ Parts'
    <3>1. CASE TakeThread(r)
      BY <3>1, TakeThreadKeeps
    <3>2. CASE Work(r)
      BY <3>2, GetMapperKeeps, EmitStageKeeps, EmitCompletedKeeps, PipelineRaisesKeeps,
         StoreArtifactsKeeps, StoreResultsKeeps, PersistRunKeeps, WriteEvalRunKeeps,
         PersistFailsKeeps, EndThreadKeeps DEF Work
    <3>3. CASE Loop(r)
      BY <3>3, DeliverKeeps, ResumeKeeps DEF Loop
    <3> QED BY <2>4, <3>1, <3>2, <3>3
  <2>5. ASSUME NEW s \in Subscriber, OpenRun(s) \/ Stream(s) \/ Leave(s)
        PROVE  RunTypeOK' /\ Parts'
    BY <2>5, StreamKeeps
  <2>6. \/ Start
        \/ \E r \in Run : TakeThread(r) \/ Work(r) \/ Loop(r)
        \/ \E s \in Subscriber : OpenRun(s) \/ Stream(s) \/ Leave(s)
    BY <1>1 DEF Next
  <2>7. RunTypeOK' /\ Parts'
    BY <2>3, <2>4, <2>5, <2>6
  <2> QED BY <2>1, <2>7 DEF RunInv, Parts
<1>2. CASE UNCHANGED vars
  <2>1. UNCHANGED logVars /\ UNCHANGED runVars
    BY <1>2 DEF vars
  <2>2. LogInv'
    BY <2>1, NextKeeps DEF RunInv
  <2>3. RunTypeOK'
    BY <2>1 DEF RunInv, RunTypeOK, runVars
  <2>4. Parts'
    BY <2>1 DEF RunInv, Parts, StoryInv, WrittenInv, MapperInv, ServedInv, RowsInv, Registered,
         runVars, logVars
  <2> QED BY <2>2, <2>3, <2>4 DEF RunInv, Parts
<1> QED BY <1>1, <1>2

(* The invariant of the registry, for every number of runs, threads,       *)
(* stages, streams and faults, and every size of the registry              *)
(* (runstore.py).                                                          *)
THEOREM RunInvariance == Spec => []RunInv
<1>1. Init => RunInv
  BY RunInitKeeps
<1>2. RunInv /\ [Next]_vars => RunInv'
  BY RunNextKeeps
<1> QED BY <1>1, <1>2, PTL DEF Spec

(* The registry, its threads and its evictions use the event channels as   *)
(* LogSpec allows: nothing is recorded in a run that is over, and every    *)
(* theorem about the streams holds of the runs (runstore.py _append).      *)
THEOREM ImplementsChannels == Spec => LogSpec
<1>1. Init => LogInit
  BY DEF Init
<1>2. RunInv /\ [Next]_vars => [LogNext]_logVars
  BY RecordsLog DEF vars
<1> QED BY <1>1, <1>2, RunInvariance, PTL DEF Spec, LogSpec

(* The streams of the runs lose, repeat and reorder nothing (runstore.py   *)
(* subscribe and _append, sse.py).                                         *)
THEOREM RunStreamsLoseNothing == Spec => []NothingLost
BY ImplementsChannels, StreamsLoseNothing, PTL

LEMMA StoryIsComplete == RunInv => CompleteWhenFlipped
<1> SUFFICES ASSUME RunInv, NEW r \in Run
             PROVE  /\ \A i \in DOMAIN emitted[r] :
                          emitted[r][i] \in Terminal => i = Len(emitted[r])
                    /\ entry[r].status = "completed" =>
                         emitted[r] # <<>> /\ emitted[r][Len(emitted[r])] = RunCompleted
                    /\ entry[r].status = "failed" =>
                         emitted[r] # <<>> /\ emitted[r][Len(emitted[r])] = RunFailed
  BY DEF CompleteWhenFlipped
<1>1. /\ r \in Channel /\ emitted[r] \in Story /\ worker[r] \in Places
      /\ Tells(worker[r], entry[r], emitted[r], posted[r])
  BY OfRun
<1>2. \A i \in DOMAIN emitted[r] : emitted[r][i] \in Terminal => i = Len(emitted[r])
  BY <1>1 DEF RunInv, LogInv, StoredInv
<1>3. ASSUME NEW e, Ends(emitted[r], <<e>>)
      PROVE  emitted[r] # <<>> /\ emitted[r][Len(emitted[r])] = e
  <2>1. Len(emitted[r]) >= 1 /\ emitted[r][Len(emitted[r])] = e
    BY <1>1, <1>3, LenProperties DEF Ends, Story
  <2> QED BY <1>1, <2>1, EmptySeq DEF Story
<1>4. /\ entry[r].status = "completed" => Ends(emitted[r], <<RunCompleted>>)
      /\ entry[r].status = "failed" => Ends(emitted[r], <<RunFailed>>)
  BY <1>1 DEF Tells, Places, Before, After
<1> QED BY <1>2, <1>3, <1>4

(* The story of a run whose status is final ends with its one terminal     *)
(* event (runstore.py:281).                                                *)
THEOREM EventsAreComplete == Spec => []CompleteWhenFlipped
BY RunInvariance, StoryIsComplete, PTL

LEMMA CompletedHoldsResults == RunInv => CompletedIsServed
<1> SUFFICES ASSUME RunInv, NEW r \in Registered, entry[r].status = "completed"
             PROVE  entry[r].artifacts /\ entry[r].results # None
  BY DEF CompletedIsServed
<1>1. r \in Run
  BY ElementOfSeq, LenProperties DEF Registered, RunInv, RunTypeOK
<1>2. Answerable(entry[r])
  BY <1>1, OfRun DEF Tells, Places, Before, After
<1> QED BY <1>1, <1>2, RegistryAssumption DEF Answerable, RunInv, ServedInv

(* A registered run that says completed is served: eviction frees what a   *)
(* worker stores only of runs that nobody can ask for (runstore.py         *)
(* _evict_old_runs, cases.py _completed_entry).                            *)
THEOREM CompletedRunsAreServed == Spec => []CompletedIsServed
BY RunInvariance, CompletedHoldsResults, PTL

LEMMA RowsAsReported == RunInv => PersistedAsReported
<1> SUFFICES ASSUME RunInv, NEW r \in Run
             PROVE  /\ entry[r].db_run_id => r \in db.runs
                    /\ entry[r].eval_run_id => \E e \in db.evals : e.run = r
                    /\ entry[r].status = "completed" /\ ~entry[r].persist_error =>
                         entry[r].db_run_id /\ entry[r].eval_run_id
  BY DEF PersistedAsReported
<1>1. entry[r].status = "completed" => Answerable(entry[r])
  BY OfRun DEF Tells, Places, Before, After
<1> QED BY <1>1, OfRunToo DEF Answerable, Persisted

(* What the entry says of the rows is true, and a completed run reports    *)
(* the rows it misses (runstore.py:20).                                    *)
THEOREM RowsAreReported == Spec => []PersistedAsReported
BY RunInvariance, RowsAsReported, PTL

LEMMA SameMapper == RunInv => OneMapperPerProcess
<1> SUFFICES ASSUME RunInv, NEW r \in Run, NEW q \in Run,
                    entry[r].results # None, entry[q].results # None
             PROVE  entry[r].results.semantic_unavailable = entry[q].results.semantic_unavailable
  BY DEF OneMapperPerProcess
<1>1. entry[r].results \in Results /\ entry[q].results \in Results
  BY OfRun DEF RunEntry
<1> QED BY <1>1, OfRunToo DEF Mapped

(* All runs of a process are mapped by the same stack (runstore.py         *)
(* get_mapper).                                                            *)
THEOREM RunsShareTheMapper == Spec => []OneMapperPerProcess
BY RunInvariance, SameMapper, PTL
=============================================================================
