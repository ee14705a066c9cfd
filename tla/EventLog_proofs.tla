-------------------------- MODULE EventLog_proofs ---------------------------
(***************************************************************************)
(* Proofs about EventLog: a stream of events loses, repeats and reorders   *)
(* nothing, for any number of channels, streams and events.                *)
(***************************************************************************)
EXTENDS EventLog, SequenceTheorems, TLAPS

(* What a suffix is, element by element. *)
LEMMA SuffixProperties ==
  ASSUME NEW S, NEW q \in Seq(S), NEW k \in Nat, k <= Len(q)
  PROVE  /\ Suffix(q, k) \in Seq(S)
         /\ Len(Suffix(q, k)) = Len(q) - k
         /\ \A i \in 1..(Len(q) - k) : Suffix(q, k)[i] = q[k + i]
<1>1. Len(q) \in Nat /\ \A i \in 1..Len(q) : q[i] \in S
  BY LenProperties, ElementOfSeq
<1>2. \A i \in (k + 1)..Len(q) : q[i] \in S
  BY <1>1
<1>3. /\ SubSeq(q, k + 1, Len(q)) \in Seq(S)
      /\ Len(SubSeq(q, k + 1, Len(q))) =
           IF k + 1 <= Len(q) THEN Len(q) - (k + 1) + 1 ELSE 0
      /\ \A i \in 1..(Len(q) - (k + 1) + 1) :
           SubSeq(q, k + 1, Len(q))[i] = q[(k + 1) + i - 1]
  <2>1. k + 1 \in Int /\ Len(q) \in Int
    BY <1>1
  <2> QED BY <2>1, <1>2, SubSeqProperties
<1>4. Len(q) - (k + 1) + 1 = Len(q) - k
  BY <1>1
<1>5. Len(Suffix(q, k)) = Len(q) - k
  BY <1>1, <1>3 DEF Suffix
<1>6. ASSUME NEW i \in 1..(Len(q) - k) PROVE Suffix(q, k)[i] = q[k + i]
  <2>1. (k + 1) + i - 1 = k + i
    BY <1>1
  <2> QED BY <1>3, <1>4, <2>1 DEF Suffix
<1> QED BY <1>3, <1>5, <1>6 DEF Suffix

(* The whole sequence and the empty one are suffixes. *)
LEMMA SuffixEnds ==
  ASSUME NEW S, NEW q \in Seq(S)
  PROVE  Suffix(q, 0) = q /\ Suffix(q, Len(q)) = <<>>
<1>1. Len(q) \in Nat
  BY LenProperties
<1>2. Suffix(q, 0) = q
  BY SubSeqFull DEF Suffix
<1>3. Suffix(q, Len(q)) = <<>>
  BY <1>1, SubSeqEmpty DEF Suffix
<1> QED BY <1>2, <1>3

(* Recording an event extends every suffix of what was recorded. *)
LEMMA SuffixAppend ==
  ASSUME NEW S, NEW q \in Seq(S), NEW e \in S, NEW k \in Nat, k <= Len(q)
  PROVE  Suffix(Append(q, e), k) = Append(Suffix(q, k), e)
<1> DEFINE l == Suffix(Append(q, e), k)
           r == Append(Suffix(q, k), e)
<1>1. Len(q) \in Nat
  BY LenProperties
<1>2. /\ Append(q, e) \in Seq(S)
      /\ Len(Append(q, e)) = Len(q) + 1
      /\ \A i \in 1..Len(q) : Append(q, e)[i] = q[i]
      /\ Append(q, e)[Len(q) + 1] = e
  BY AppendProperties
<1>3. /\ l \in Seq(S)
      /\ Len(l) = Len(q) + 1 - k
      /\ \A i \in 1..(Len(q) + 1 - k) : l[i] = Append(q, e)[k + i]
  <2>1. k <= Len(Append(q, e)) /\ Len(Append(q, e)) - k = Len(q) + 1 - k
    BY <1>1, <1>2
  <2>2. /\ l \in Seq(S)
        /\ Len(l) = Len(Append(q, e)) - k
        /\ \A i \in 1..(Len(Append(q, e)) - k) : l[i] = Append(q, e)[k + i]
    BY <2>1, <1>2, SuffixProperties
  <2> QED BY <2>1, <2>2
<1>4. /\ Suffix(q, k) \in Seq(S)
      /\ Len(Suffix(q, k)) = Len(q) - k
      /\ \A i \in 1..(Len(q) - k) : Suffix(q, k)[i] = q[k + i]
  BY SuffixProperties
<1>5. /\ r \in Seq(S)
      /\ Len(r) = Len(q) - k + 1
      /\ \A i \in 1..(Len(q) - k) : r[i] = Suffix(q, k)[i]
      /\ r[Len(q) - k + 1] = e
  BY <1>4, AppendProperties
<1> HIDE DEF l, r
<1>6. ASSUME NEW i \in 1..Len(l) PROVE l[i] = r[i]
  <2>1. CASE i <= Len(q) - k
    <3>1. i \in 1..(Len(q) - k) /\ k + i \in 1..Len(q) /\ i \in 1..(Len(q) + 1 - k)
      BY <1>1, <1>3, <2>1
    <3> QED BY <3>1, <1>2, <1>3, <1>4, <1>5
  <2>2. CASE i = Len(q) - k + 1
    <3>1. k + i = Len(q) + 1 /\ i \in 1..(Len(q) + 1 - k)
      BY <1>1, <1>3, <2>2
    <3>2. l[i] = e
      BY <3>1, <1>2, <1>3
    <3>3. r[i] = e
      BY <2>2, <1>5
    <3> QED BY <3>2, <3>3
  <2>3. \A n \in Nat : n = Len(q) + 1 - k /\ i \in 1..n =>
           i <= Len(q) - k \/ i = Len(q) - k + 1
    BY <1>1
  <2>4. Len(q) + 1 - k \in Nat
    BY <1>1
  <2> QED BY <2>1, <2>2, <2>3, <2>4, <1>3
<1>7. Len(l) = Len(r)
  BY <1>1, <1>3, <1>5
<1>a. l = r
  BY <1>3, <1>5, <1>6, <1>7, SeqEqual
<1> QED BY <1>a DEF l, r

(* An event put at the end of the queue comes last. *)
LEMMA ConcatAppend ==
  ASSUME NEW S, NEW a \in Seq(S), NEW b \in Seq(S), NEW e \in S
  PROVE  a \o Append(b, e) = Append(a \o b, e)
<1>1. <<e>> \in Seq(S) /\ a \o b \in Seq(S)
  BY ConcatProperties
<1>2. Append(b, e) = b \o <<e>>
  BY AppendIsConcat
<1>3. Append(a \o b, e) = (a \o b) \o <<e>>
  BY <1>1, AppendIsConcat
<1> QED BY <1>1, <1>2, <1>3, ConcatAssociative

(* Forwarding moves an event from what is ahead to what was forwarded. *)
LEMMA MoveHead ==
  ASSUME NEW S, NEW a \in Seq(S), NEW b \in Seq(S), b # <<>>
  PROVE  Append(a, Head(b)) \o Tail(b) = a \o b
<1>1. Head(b) \in S /\ Tail(b) \in Seq(S)
  BY HeadTailProperties
<1>2. <<Head(b)>> \in Seq(S)
  BY <1>1
<1>3. b = <<Head(b)>> \o Tail(b)
  <2>1. Len(b) \in Nat \ {0}
    BY EmptySeq
  <2>2. Len(Tail(b)) = Len(b) - 1 /\ \A i \in 1..Len(Tail(b)) : Tail(b)[i] = b[i + 1]
    BY HeadTailProperties
  <2>3. /\ <<Head(b)>> \o Tail(b) \in Seq(S)
        /\ Len(<<Head(b)>> \o Tail(b)) = 1 + Len(Tail(b))
        /\ \A i \in 1..(1 + Len(Tail(b))) : (<<Head(b)>> \o Tail(b))[i] =
             IF i <= 1 THEN <<Head(b)>>[i] ELSE Tail(b)[i - 1]
    BY <1>1, <1>2, ConcatProperties, Len(<<Head(b)>>) = 1
  <2>4. Head(b) = b[1]
    BY <2>1, SMT
  <2>5. ASSUME NEW i \in 1..Len(b) PROVE b[i] = (<<Head(b)>> \o Tail(b))[i]
    <3>1. CASE i = 1
      BY <3>1, <2>1, <2>2, <2>3, <2>4
    <3>2. CASE i # 1
      <4>1. i - 1 \in 1..Len(Tail(b)) /\ i \in 1..(1 + Len(Tail(b))) /\ ~(i <= 1)
        BY <3>2, <2>1, <2>2
      <4>2. Tail(b)[i - 1] = b[i]
        BY <4>1, <2>1, <2>2
      <4> QED BY <4>1, <4>2, <2>3
    <3> QED BY <3>1, <3>2
  <2>6. Len(b) = Len(<<Head(b)>> \o Tail(b))
    BY <2>1, <2>2, <2>3
  <2> QED BY <2>3, <2>5, <2>6, SeqEqual
<1>4. Append(a, Head(b)) = a \o <<Head(b)>>
  BY <1>1, AppendIsConcat
<1> QED BY <1>1, <1>2, <1>3, <1>4, ConcatAssociative
-----------------------------------------------------------------------------
(* A stream that forwarded a terminal event has its channel ended. *)
LEMMA ForwardedTerminalEnds ==
  ASSUME LogTypeOK, NEW s \in Subscriber, chan[s] \in Channel,
         base[s] <= Len(emitted[chan[s]]), got[s] = Since(s), SawTerminal(s)
  PROVE  Ended(chan[s])
<1> DEFINE q == emitted[chan[s]]
<1>1. q \in Seq(Event) /\ base[s] \in Nat /\ got[s] \in Seq(Event)
  BY DEF LogTypeOK
<1>2. /\ Len(Since(s)) = Len(q) - base[s]
      /\ \A i \in 1..(Len(q) - base[s]) : Since(s)[i] = q[base[s] + i]
  BY <1>1, SuffixProperties DEF Since
<1>3. PICK i \in DOMAIN got[s] : got[s][i] \in Terminal
  BY DEF SawTerminal
<1>4. i \in 1..(Len(q) - base[s])
  BY <1>1, <1>2, <1>3, LenProperties
<1>5. q[base[s] + i] \in Terminal
  BY <1>2, <1>3, <1>4
<1>6. base[s] + i \in DOMAIN q
  <2>1. DOMAIN q = 1..Len(q) /\ Len(q) \in Nat
    BY <1>1, LenProperties
  <2> QED BY <1>1, <1>4, <2>1
<1> QED BY <1>5, <1>6 DEF Ended

(* Recording an event, with or without an eviction. *)
LEMMA RecordKeeps ==
  ASSUME LogInv, NEW c \in Channel, NEW e \in Event, NEW Evicted \in SUBSET Channel,
         c \notin Evicted, ~Ended(c), Record(c, e, Evicted)
  PROVE  LogInv'
<1> USE DEF LogInv
<1>0. /\ \A q \in Seq(Event) : /\ Append(q, e) \in Seq(Event)
                                /\ Len(Append(q, e)) = Len(q) + 1
                                /\ Len(q) \in Nat
      /\ \A q \in Seq(Event), k \in Nat : k <= Len(q) =>
           Suffix(Append(q, e), k) = Append(Suffix(q, k), e)
  BY AppendProperties, LenProperties, SuffixAppend
<1>a. \A a, b \in Seq(Event) : a \o Append(b, e) = Append(a \o b, e)
  BY ConcatAppend
<1>1. \A d \in Channel :
        /\ emitted[d] \in Seq(Event) /\ stored[d] \in Seq(Event)
        /\ emitted'[d] = IF d = c THEN Append(emitted[c], e) ELSE emitted[d]
        /\ stored'[d] = IF d \in Evicted THEN <<>>
                        ELSE IF d = c THEN Append(stored[c], e) ELSE stored[d]
  BY DEF LogTypeOK, Record
<1>2. /\ UNCHANGED <<phase, chan, replay, base, got>>
      /\ \A s \in Subscriber :
           queue'[s] = IF Subscribed(s, c) THEN Append(queue[s], e) ELSE queue[s]
  BY DEF Record
<1>3. LogTypeOK'
  <2>1. stored' \in [Channel -> Seq(Event)]
    <3>1. \A d \in Channel : stored'[d] \in Seq(Event)
      BY <1>0, <1>1, EmptySeq
    <3> QED BY <3>1 DEF Record
  <2>2. emitted' \in [Channel -> Seq(Event)]
    <3>1. \A d \in Channel : emitted'[d] \in Seq(Event)
      BY <1>0, <1>1
    <3> QED BY <3>1 DEF Record, LogTypeOK
  <2>3. queue' \in [Subscriber -> Seq(Event)]
    <3>1. \A s \in Subscriber : queue'[s] \in Seq(Event)
      BY <1>0, <1>2, ZenonT(30) DEF LogTypeOK
    <3> QED BY <3>1 DEF Record
  <2> QED BY <2>1, <2>2, <2>3, <1>2 DEF LogTypeOK
<1>4. StoredInv'
  <2> SUFFICES ASSUME NEW d \in Channel
               PROVE  /\ Len(stored'[d]) <= Len(emitted'[d])
                      /\ stored'[d] = Suffix(emitted'[d], Len(emitted'[d]) - Len(stored'[d]))
                      /\ \A i \in DOMAIN emitted'[d] :
                           emitted'[d][i] \in Terminal => i = Len(emitted'[d])
    BY DEF StoredInv, Suffix
  <2>1. /\ Len(emitted[d]) \in Nat /\ Len(stored[d]) \in Nat
        /\ Len(stored[d]) <= Len(emitted[d])
        /\ stored[d] = Suffix(emitted[d], Len(emitted[d]) - Len(stored[d]))
        /\ \A i \in DOMAIN emitted[d] : emitted[d][i] \in Terminal => i = Len(emitted[d])
    BY <1>1, LenProperties DEF StoredInv
  <2>2. CASE d \in Evicted
    <3>1. stored'[d] = <<>> /\ emitted'[d] = emitted[d] /\ Len(stored'[d]) = 0
      BY <1>1, <2>2, EmptySeq
    <3>2. Len(emitted[d]) - 0 = Len(emitted[d])
      BY <2>1
    <3> QED BY <1>1, <2>1, <3>1, <3>2, SuffixEnds
  <2>3. CASE d = c
    <3> DEFINE k == Len(emitted[d]) - Len(stored[d])
    <3>1. emitted'[d] = Append(emitted[d], e) /\ stored'[d] = Append(stored[d], e)
      BY <1>1, <2>3
    <3>2. Len(emitted'[d]) = Len(emitted[d]) + 1 /\ Len(stored'[d]) = Len(stored[d]) + 1
      BY <1>0, <1>1, <3>1
    <3>3. k \in Nat /\ k <= Len(emitted[d]) /\ Len(emitted'[d]) - Len(stored'[d]) = k
      <4>1. \A m, n \in Nat : m <= n =>
              n - m \in Nat /\ n - m <= n /\ (n + 1) - (m + 1) = n - m
        OBVIOUS
      <4> QED BY <2>1, <3>2, <4>1
    <3>4. stored'[d] = Suffix(emitted'[d], k)
      <4>1. stored[d] = Suffix(emitted[d], k)
        BY <2>1
      <4> HIDE DEF k
      <4> QED BY <1>0, <1>1, <3>1, <3>3, <4>1
    <3>5. ASSUME NEW i \in DOMAIN emitted'[d], emitted'[d][i] \in Terminal
          PROVE  i = Len(emitted'[d])
      <4>1. i \in 1..(Len(emitted[d]) + 1)
        BY <1>1, <3>1, <3>2, <3>5, AppendProperties, LenProperties
      <4>2. CASE i \in 1..Len(emitted[d])
        <5>1. emitted[d][i] \in Terminal /\ i \in DOMAIN emitted[d]
          BY <1>1, <3>1, <3>5, <4>2, AppendProperties, LenProperties
        <5> QED BY <5>1, <2>3 DEF Ended
      <4>3. \A n \in Nat : i \in 1..(n + 1) => i \in 1..n \/ i = n + 1
        OBVIOUS
      <4>4. i \in 1..Len(emitted[d]) \/ i = Len(emitted[d]) + 1
        BY <4>1, <4>3, <2>1
      <4> QED BY <4>2, <4>4, <3>2
    <3>6. Len(stored'[d]) <= Len(emitted'[d])
      <4>1. \A m, n \in Nat : m <= n => m + 1 <= n + 1
        OBVIOUS
      <4> QED BY <2>1, <3>2, <4>1
    <3> QED BY <3>3, <3>4, <3>5, <3>6
  <2>4. CASE d \notin Evicted /\ d # c
    BY <1>1, <2>1, <2>4
  <2> QED BY <2>2, <2>3, <2>4
<1>5. PhaseInv'
  <2>1. ASSUME NEW s \in Subscriber, phase[s] \in {"replay", "tail", "closed"}
        PROVE  base[s] <= Len(emitted'[chan[s]])
    <3>1. chan[s] \in Channel /\ base[s] \in Nat /\ base[s] <= Len(emitted[chan[s]])
      BY <2>1 DEF PhaseInv, LogTypeOK
    <3>2. Len(emitted'[chan[s]]) \in {Len(emitted[chan[s]]), Len(emitted[chan[s]]) + 1}
      BY <1>0, <1>1, <3>1
    <3>3. Len(emitted[chan[s]]) \in Nat
      BY <1>1, <3>1, LenProperties
    <3> QED BY <3>1, <3>2, <3>3
  <2>2. \A s \in Subscriber : phase[s] \in {"idle", "accepted"} => queue'[s] = queue[s]
    BY <1>2 DEF Subscribed
  <2> QED BY <1>2, <2>1, <2>2 DEF PhaseInv
<1>6. NothingLost'
  <2> SUFFICES ASSUME NEW s \in Subscriber, phase[s] \in {"replay", "tail"}
               PROVE  got[s] \o (replay[s] \o queue'[s]) = Suffix(emitted'[chan[s]], base[s])
    BY <1>2 DEF NothingLost, Ahead, Since, Suffix
  <2>1. /\ got[s] \o (replay[s] \o queue[s]) = Suffix(emitted[chan[s]], base[s])
        /\ chan[s] \in Channel /\ base[s] \in Nat /\ base[s] <= Len(emitted[chan[s]])
        /\ got[s] \in Seq(Event) /\ replay[s] \in Seq(Event) /\ queue[s] \in Seq(Event)
    BY DEF NothingLost, Ahead, Since, PhaseInv, LogTypeOK
  <2>2. CASE chan[s] = c
    <3>1. queue'[s] = Append(queue[s], e) /\ emitted'[chan[s]] = Append(emitted[chan[s]], e)
      BY <1>1, <1>2, <2>2 DEF Subscribed
    <3>4. got[s] \o (replay[s] \o Append(queue[s], e))
            = Append(got[s] \o (replay[s] \o queue[s]), e)
      <4>1. replay[s] \o Append(queue[s], e) = Append(replay[s] \o queue[s], e)
        BY <2>1, <1>a
      <4>2. replay[s] \o queue[s] \in Seq(Event)
        BY <2>1, ConcatProperties
      <4>3. got[s] \o Append(replay[s] \o queue[s], e)
              = Append(got[s] \o (replay[s] \o queue[s]), e)
        BY <2>1, <1>a, <4>2
      <4> QED BY <4>1, <4>3
    <3>5. Suffix(emitted'[chan[s]], base[s]) = Append(Suffix(emitted[chan[s]], base[s]), e)
      BY <1>0, <1>1, <2>1, <3>1, SMTT(20)
    <3> QED BY <2>1, <3>1, <3>4, <3>5
  <2>3. CASE chan[s] # c
    <3>1. queue'[s] = queue[s] /\ emitted'[chan[s]] = emitted[chan[s]]
      BY <1>1, <1>2, <2>1, <2>3 DEF Subscribed
    <3> QED BY <2>1, <3>1
  <2> QED BY <2>2, <2>3
<1>7. ClosedIsComplete'
  <2> SUFFICES ASSUME NEW s \in Subscriber, phase[s] = "closed"
               PROVE  got[s] = Suffix(emitted'[chan[s]], base[s]) /\ SawTerminal(s)
    BY <1>2 DEF ClosedIsComplete, Since, Suffix, SawTerminal
  <2>1. got[s] = Since(s) /\ SawTerminal(s)
    BY DEF ClosedIsComplete
  <2>2. chan[s] \in Channel /\ base[s] <= Len(emitted[chan[s]])
    BY DEF PhaseInv
  <2>3. chan[s] # c
    BY <2>1, <2>2, ForwardedTerminalEnds
  <2>4. emitted'[chan[s]] = emitted[chan[s]]
    BY <1>1, <2>2, <2>3
  <2> QED BY <2>1, <2>4 DEF Since
<1> QED BY <1>3, <1>4, <1>5, <1>6, <1>7

(* A stream is opened on a channel it is told nothing about yet. *)
LEMMA OpenKeeps ==
  ASSUME LogInv, NEW s \in Subscriber, NEW c \in Channel, Open(s, c)
  PROVE  LogInv'
<1> USE DEF LogInv
<1>1. /\ UNCHANGED <<stored, emitted, replay, queue, base, got>>
      /\ phase[s] = "idle"
      /\ phase' = [phase EXCEPT ![s] = "accepted"]
      /\ chan' = [chan EXCEPT ![s] = c]
  BY DEF Open
<1>2. LogTypeOK'
  BY <1>1 DEF LogTypeOK
<1>3. StoredInv'
  BY <1>1 DEF StoredInv, Suffix
<1>4. \A z \in Subscriber : z # s => phase'[z] = phase[z] /\ chan'[z] = chan[z]
  BY <1>1 DEF LogTypeOK
<1>5. phase'[s] = "accepted" /\ chan'[s] = c
  BY <1>1 DEF LogTypeOK
<1>6. PhaseInv'
  BY <1>1, <1>4, <1>5 DEF PhaseInv
<1>7. NothingLost'
  BY <1>1, <1>4, <1>5 DEF NothingLost, Ahead, Since, Suffix
<1>8. ClosedIsComplete'
  BY <1>1, <1>4, <1>5 DEF ClosedIsComplete, Since, Suffix, SawTerminal
<1> QED BY <1>2, <1>3, <1>6, <1>7, <1>8

(* The snapshot is the suffix of the channel that is still stored. *)
LEMMA SubscribeKeeps ==
  ASSUME LogInv, NEW s \in Subscriber, Subscribe(s)
  PROVE  LogInv'
<1> USE DEF LogInv
<1> DEFINE c == chan[s]
<1>1. /\ UNCHANGED <<stored, emitted, chan, queue, got>>
      /\ phase[s] = "accepted"
      /\ phase' = [phase EXCEPT ![s] = "replay"]
      /\ replay' = [replay EXCEPT ![s] = stored[c]]
      /\ base' = [base EXCEPT ![s] = Len(emitted[c]) - Len(stored[c])]
  BY DEF Subscribe
<1>2. c \in Channel /\ queue[s] = <<>> /\ got[s] = <<>>
  BY <1>1 DEF PhaseInv
<1>3. /\ stored[c] \in Seq(Event) /\ emitted[c] \in Seq(Event)
      /\ Len(emitted[c]) \in Nat /\ Len(stored[c]) \in Nat
      /\ Len(stored[c]) <= Len(emitted[c])
      /\ stored[c] = Suffix(emitted[c], Len(emitted[c]) - Len(stored[c]))
  BY <1>2, LenProperties DEF LogTypeOK, StoredInv
<1>4. /\ Len(emitted[c]) - Len(stored[c]) \in Nat
      /\ Len(emitted[c]) - Len(stored[c]) <= Len(emitted[c])
  <2>1. \A m, n \in Nat : m <= n => n - m \in Nat /\ n - m <= n
    OBVIOUS
  <2> QED BY <1>3, <2>1
<1>5. LogTypeOK'
  <2>1. base' \in [Subscriber -> Nat]
    BY <1>1, <1>4 DEF LogTypeOK
  <2>2. replay' \in [Subscriber -> Seq(Event)]
    BY <1>1, <1>3 DEF LogTypeOK
  <2> QED BY <1>1, <2>1, <2>2 DEF LogTypeOK
<1>6. StoredInv'
  BY <1>1 DEF StoredInv, Suffix
<1>7. \A z \in Subscriber : z # s =>
        phase'[z] = phase[z] /\ replay'[z] = replay[z] /\ base'[z] = base[z]
  BY <1>1 DEF LogTypeOK
<1>8. /\ phase'[s] = "replay" /\ replay'[s] = stored[c]
      /\ base'[s] = Len(emitted[c]) - Len(stored[c])
  BY <1>1 DEF LogTypeOK
<1>9. PhaseInv'
  BY <1>1, <1>2, <1>4, <1>7, <1>8, ZenonT(30) DEF PhaseInv
<1>10. NothingLost'
  <2>1. stored[c] \o <<>> = stored[c] /\ <<>> \o stored[c] = stored[c]
    BY <1>3, ConcatEmptySeq
  <2>2. got'[s] \o (replay'[s] \o queue'[s]) = Suffix(emitted'[chan'[s]], base'[s])
    BY <1>1, <1>2, <1>3, <1>8, <2>1
  <2> QED BY <1>1, <1>7, <2>2 DEF NothingLost, Ahead, Since, Suffix
<1>11. ClosedIsComplete'
  BY <1>1, <1>7, <1>8 DEF ClosedIsComplete, Since, Suffix, SawTerminal
<1> QED BY <1>5, <1>6, <1>9, <1>10, <1>11

(* An event of the snapshot is forwarded. *)
LEMMA ReplayKeeps ==
  ASSUME LogInv, NEW s \in Subscriber, Replay(s)
  PROVE  LogInv'
<1> USE DEF LogInv
<1>1. /\ UNCHANGED <<stored, emitted, phase, chan, queue, base>>
      /\ phase[s] = "replay" /\ replay[s] # <<>>
      /\ got' = [got EXCEPT ![s] = Append(@, Head(replay[s]))]
      /\ replay' = [replay EXCEPT ![s] = Tail(@)]
  BY DEF Replay
<1>2. /\ got[s] \in Seq(Event) /\ replay[s] \in Seq(Event) /\ queue[s] \in Seq(Event)
      /\ Head(replay[s]) \in Event /\ Tail(replay[s]) \in Seq(Event)
  BY <1>1, HeadTailProperties DEF LogTypeOK
<1>3. Append(got[s], Head(replay[s])) \in Seq(Event)
  BY <1>2, AppendProperties
<1>4. LogTypeOK'
  BY <1>1, <1>2, <1>3 DEF LogTypeOK
<1>5. StoredInv'
  BY <1>1 DEF StoredInv, Suffix
<1>6. \A z \in Subscriber : z # s => got'[z] = got[z] /\ replay'[z] = replay[z]
  BY <1>1 DEF LogTypeOK
<1>7. /\ got'[s] = Append(got[s], Head(replay[s]))
      /\ replay'[s] = Tail(replay[s])
  BY <1>1 DEF LogTypeOK
<1>8. PhaseInv'
  BY <1>1, <1>6 DEF PhaseInv
<1>9. NothingLost'
  <2>1. Append(got[s], Head(replay[s])) \o Tail(replay[s]) = got[s] \o replay[s]
    BY <1>1, <1>2, MoveHead
  <2>2. \A a, b, d \in Seq(Event) : (a \o b) \o d = a \o (b \o d)
    BY ConcatAssociative
  <2>3. got'[s] \o (replay'[s] \o queue[s]) = got[s] \o (replay[s] \o queue[s])
    <3>1. got'[s] \o (Tail(replay[s]) \o queue[s])
            = (got'[s] \o Tail(replay[s])) \o queue[s]
      <4>1. got'[s] \in Seq(Event)
        BY <1>3, <1>7
      <4> QED BY <4>1, <1>2, <2>2, Zenon
    <3>2. got[s] \o (replay[s] \o queue[s]) = (got[s] \o replay[s]) \o queue[s]
      BY <1>2, <2>2, Zenon
    <3> QED BY <1>7, <2>1, <3>1, <3>2
  <2>4. got[s] \o (replay[s] \o queue[s]) = Suffix(emitted[chan[s]], base[s])
    BY <1>1 DEF NothingLost, Ahead, Since
  <2> QED BY <1>1, <1>6, <2>3, <2>4 DEF NothingLost, Ahead, Since, Suffix
<1>10. ClosedIsComplete'
  BY <1>1, <1>6 DEF ClosedIsComplete, Since, Suffix, SawTerminal
<1> QED BY <1>4, <1>5, <1>8, <1>9, <1>10

LEMMA StartTailKeeps ==
  ASSUME LogInv, NEW s \in Subscriber, StartTail(s)
  PROVE  LogInv'
<1> USE DEF LogInv
<1>1. /\ UNCHANGED <<stored, emitted, chan, replay, queue, base, got>>
      /\ phase[s] = "replay" /\ replay[s] = <<>>
      /\ phase' = [phase EXCEPT ![s] = "tail"]
  BY DEF StartTail
<1>2. LogTypeOK'
  BY <1>1 DEF LogTypeOK
<1>3. StoredInv'
  BY <1>1 DEF StoredInv, Suffix
<1>4. phase'[s] = "tail" /\ \A z \in Subscriber : z # s => phase'[z] = phase[z]
  BY <1>1 DEF LogTypeOK
<1>5. PhaseInv'
  BY <1>1, <1>4 DEF PhaseInv
<1>6. NothingLost'
  BY <1>1, <1>4 DEF NothingLost, Ahead, Since, Suffix
<1>7. ClosedIsComplete'
  BY <1>1, <1>4 DEF ClosedIsComplete, Since, Suffix, SawTerminal
<1> QED BY <1>2, <1>3, <1>5, <1>6, <1>7

(* A live event is forwarded. *)
LEMMA ForwardKeeps ==
  ASSUME LogInv, NEW s \in Subscriber, Forward(s)
  PROVE  LogInv'
<1> USE DEF LogInv
<1>1. /\ UNCHANGED <<stored, emitted, phase, chan, replay, base>>
      /\ phase[s] = "tail" /\ queue[s] # <<>>
      /\ got' = [got EXCEPT ![s] = Append(@, Head(queue[s]))]
      /\ queue' = [queue EXCEPT ![s] = Tail(@)]
  BY DEF Forward
<1>2. /\ got[s] \in Seq(Event) /\ queue[s] \in Seq(Event) /\ replay[s] = <<>>
      /\ Head(queue[s]) \in Event /\ Tail(queue[s]) \in Seq(Event)
  BY <1>1, HeadTailProperties DEF LogTypeOK, PhaseInv
<1>3. Append(got[s], Head(queue[s])) \in Seq(Event)
  BY <1>2, AppendProperties
<1>4. LogTypeOK'
  BY <1>1, <1>2, <1>3 DEF LogTypeOK
<1>5. StoredInv'
  BY <1>1 DEF StoredInv, Suffix
<1>6. \A z \in Subscriber : z # s => got'[z] = got[z] /\ queue'[z] = queue[z]
  BY <1>1 DEF LogTypeOK
<1>7. got'[s] = Append(got[s], Head(queue[s])) /\ queue'[s] = Tail(queue[s])
  BY <1>1 DEF LogTypeOK
<1>8. PhaseInv'
  BY <1>1, <1>6 DEF PhaseInv
<1>9. NothingLost'
  <2>1. Append(got[s], Head(queue[s])) \o Tail(queue[s]) = got[s] \o queue[s]
    BY <1>1, <1>2, MoveHead
  <2>2. \A a \in Seq(Event) : <<>> \o a = a
    BY ConcatEmptySeq
  <2>3. got'[s] \o (replay[s] \o queue'[s]) = got[s] \o (replay[s] \o queue[s])
    BY <1>2, <1>7, <2>1, <2>2
  <2>4. got[s] \o (replay[s] \o queue[s]) = Suffix(emitted[chan[s]], base[s])
    BY <1>1 DEF NothingLost, Ahead, Since
  <2> QED BY <1>1, <1>6, <2>3, <2>4 DEF NothingLost, Ahead, Since, Suffix
<1>10. ClosedIsComplete'
  BY <1>1, <1>6 DEF ClosedIsComplete, Since, Suffix, SawTerminal
<1> QED BY <1>4, <1>5, <1>8, <1>9, <1>10

(* A stream that forwarded a terminal event has nothing ahead of it.       *)
LEMMA TerminalIsLast ==
  ASSUME LogInv, NEW s \in Subscriber, phase[s] \in {"replay", "tail"},
         replay[s] = <<>>, SawTerminal(s)
  PROVE  queue[s] = <<>>
<1> DEFINE q == emitted[chan[s]]
           g == got[s]
           r == queue[s]
<1>1. /\ chan[s] \in Channel /\ q \in Seq(Event) /\ g \in Seq(Event) /\ r \in Seq(Event)
      /\ base[s] \in Nat /\ base[s] <= Len(q)
  BY DEF LogInv, LogTypeOK, PhaseInv
<1>2. g \o r = Suffix(q, base[s])
  <2>1. <<>> \o r = r
    BY <1>1, ConcatEmptySeq
  <2> QED BY <2>1 DEF LogInv, NothingLost, Ahead, Since
<1>3. /\ Len(g \o r) = Len(g) + Len(r)
      /\ \A i \in 1..(Len(g) + Len(r)) :
           (g \o r)[i] = IF i <= Len(g) THEN g[i] ELSE r[i - Len(g)]
  <2>1. \A a, b \in Seq(Event) :
          /\ Len(a \o b) = Len(a) + Len(b)
          /\ \A i \in 1..(Len(a) + Len(b)) :
               (a \o b)[i] = IF i <= Len(a) THEN a[i] ELSE b[i - Len(a)]
    BY ConcatProperties
  <2> HIDE DEF g, r
  <2> QED BY <1>1, <2>1
<1>4. /\ Len(Suffix(q, base[s])) = Len(q) - base[s]
      /\ \A i \in 1..(Len(q) - base[s]) : Suffix(q, base[s])[i] = q[base[s] + i]
  BY <1>1, SuffixProperties
<1>5. Len(q) \in Nat /\ Len(g) \in Nat /\ Len(r) \in Nat
  BY <1>1, LenProperties
<1>6. Len(g) + Len(r) = Len(q) - base[s]
  BY <1>2, <1>3, <1>4
<1>7. PICK i \in DOMAIN g : g[i] \in Terminal
  BY DEF SawTerminal
<1>8. i \in 1..Len(g)
  BY <1>1, <1>7, LenProperties
<1>9. \A l, m, n, b \in Nat : m + n = l - b /\ i \in 1..m =>
        /\ i \in 1..(m + n) /\ i \in 1..(l - b) /\ i <= m /\ b + i \in 1..l
        /\ b + i = l => n = 0
  OBVIOUS
<1>10. /\ i \in 1..(Len(g) + Len(r)) /\ i \in 1..(Len(q) - base[s]) /\ i <= Len(g)
       /\ base[s] + i \in 1..Len(q)
       /\ base[s] + i = Len(q) => Len(r) = 0
  <2> HIDE DEF q, g, r
  <2> QED BY <1>1, <1>5, <1>6, <1>8, <1>9
<1>11. q[base[s] + i] \in Terminal
  BY <1>2, <1>3, <1>4, <1>7, <1>10
<1>12. base[s] + i = Len(q)
  <2>1. base[s] + i \in DOMAIN q
    BY <1>1, <1>10, LenProperties
  <2> QED BY <1>1, <1>11, <2>1 DEF LogInv, StoredInv
<1> QED BY <1>1, <1>10, <1>12, EmptySeq

LEMMA CloseKeeps ==
  ASSUME LogInv, NEW s \in Subscriber, Close(s)
  PROVE  LogInv'
<1> USE DEF LogInv
<1>1. /\ UNCHANGED <<stored, emitted, chan, replay, queue, base, got>>
      /\ phase[s] \in {"replay", "tail"} /\ replay[s] = <<>>
      /\ SawTerminal(s)
      /\ phase' = [phase EXCEPT ![s] = "closed"]
  BY DEF Close, PhaseInv
<1>2. LogTypeOK'
  BY <1>1 DEF LogTypeOK
<1>3. StoredInv'
  BY <1>1 DEF StoredInv, Suffix
<1>4. phase'[s] = "closed" /\ \A z \in Subscriber : z # s => phase'[z] = phase[z]
  BY <1>1 DEF LogTypeOK
<1>5. PhaseInv'
  BY <1>1, <1>4 DEF PhaseInv
<1>6. NothingLost'
  BY <1>1, <1>4 DEF NothingLost, Ahead, Since, Suffix
<1>7. ClosedIsComplete'
  <2>1. queue[s] = <<>> /\ got[s] \o (replay[s] \o queue[s]) = Since(s)
    BY <1>1, TerminalIsLast DEF NothingLost, Ahead
  <2>2. got[s] \in Seq(Event) /\ <<>> \in Seq(Event)
    BY DEF LogTypeOK
  <2>3. got[s] \o (<<>> \o <<>>) = got[s]
    BY <2>2, ConcatEmptySeq
  <2>4. got[s] = Since(s)
    BY <1>1, <2>1, <2>3
  <2> QED BY <1>1, <1>4, <2>4 DEF ClosedIsComplete, Since, Suffix, SawTerminal
<1> QED BY <1>2, <1>3, <1>5, <1>6, <1>7

LEMMA DisconnectKeeps ==
  ASSUME LogInv, NEW s \in Subscriber, Disconnect(s)
  PROVE  LogInv'
<1> USE DEF LogInv
<1>1. /\ UNCHANGED <<stored, emitted, chan, base>>
      /\ phase[s] \in {"accepted", "replay", "tail"}
      /\ phase' = [phase EXCEPT ![s] = "gone"]
      /\ replay' = [replay EXCEPT ![s] = <<>>]
      /\ queue' = [queue EXCEPT ![s] = <<>>]
      /\ got' = [got EXCEPT ![s] = <<>>]
  BY DEF Disconnect
<1>2. LogTypeOK'
  BY <1>1, EmptySeq DEF LogTypeOK
<1>3. StoredInv'
  BY <1>1 DEF StoredInv, Suffix
<1>4. /\ phase'[s] = "gone" /\ replay'[s] = <<>>
      /\ \A z \in Subscriber : z # s =>
           /\ phase'[z] = phase[z] /\ replay'[z] = replay[z]
           /\ queue'[z] = queue[z] /\ got'[z] = got[z]
  BY <1>1 DEF LogTypeOK
<1>5. PhaseInv'
  BY <1>1, <1>4 DEF PhaseInv
<1>6. NothingLost'
  BY <1>1, <1>4 DEF NothingLost, Ahead, Since, Suffix
<1>7. ClosedIsComplete'
  BY <1>1, <1>4 DEF ClosedIsComplete, Since, Suffix, SawTerminal
<1> QED BY <1>2, <1>3, <1>5, <1>6, <1>7
-----------------------------------------------------------------------------
LEMMA InitKeeps ==
  ASSUME LogInit
  PROVE  LogInv
<1> USE DEF LogInit
<1>1. LogTypeOK
  BY EmptySeq DEF LogTypeOK
<1>2. StoredInv
  <2>1. <<>> \in Seq(Event) /\ Len(<<>>) = 0 /\ DOMAIN <<>> = {}
    BY EmptySeq
  <2>2. Suffix(<<>>, 0) = <<>>
    BY <2>1, SuffixEnds
  <2>3. \A c \in Channel : stored[c] = <<>> /\ emitted[c] = <<>>
    OBVIOUS
  <2>4. Len(<<>>) <= Len(<<>>) /\ Len(<<>>) - Len(<<>>) = 0
    BY <2>1
  <2> QED BY <2>1, <2>2, <2>3, <2>4 DEF StoredInv
<1>3. PhaseInv /\ NothingLost /\ ClosedIsComplete
  BY DEF PhaseInv, NothingLost, ClosedIsComplete
<1> QED BY <1>1, <1>2, <1>3 DEF LogInv

LEMMA NextKeeps ==
  ASSUME LogInv, [LogNext]_logVars
  PROVE  LogInv'
<1>1. CASE LogNext
  <2>1. ASSUME NEW c \in Channel, NEW e \in Event, NEW Evicted \in SUBSET Channel,
               c \notin Evicted, ~Ended(c), Record(c, e, Evicted)
        PROVE  LogInv'
    BY <2>1, RecordKeeps
  <2>2. ASSUME NEW s \in Subscriber, NEW c \in Channel, Open(s, c)
        PROVE  LogInv'
    BY <2>2, OpenKeeps
  <2>3. ASSUME NEW s \in Subscriber, Generate(s) \/ Disconnect(s)
        PROVE  LogInv'
    BY <2>3, SubscribeKeeps, ReplayKeeps, StartTailKeeps, ForwardKeeps, CloseKeeps,
       DisconnectKeeps DEF Generate
  <2> QED BY <1>1, <2>1, <2>2, <2>3 DEF LogNext
<1>2. CASE UNCHANGED logVars
  BY <1>2 DEF logVars, LogInv, LogTypeOK, StoredInv, PhaseInv, NothingLost, ClosedIsComplete,
     Ahead, Since, Suffix, SawTerminal
<1> QED BY <1>1, <1>2

(* The invariant of the channels, for every number of them, of streams and *)
(* of events, and for every eviction.                                      *)
THEOREM Invariance == LogSpec => []LogInv
<1>1. LogInit => LogInv
  BY InitKeeps
<1>2. LogInv /\ [LogNext]_logVars => LogInv'
  BY NextKeeps
<1> QED BY <1>1, <1>2, PTL DEF LogSpec

(* A live stream loses, repeats and reorders nothing (runstore.py          *)
(* subscribe and _append, sse.py gen).                                     *)
THEOREM StreamsLoseNothing == LogSpec => []NothingLost
<1>1. LogInv => NothingLost
  BY DEF LogInv
<1> QED BY <1>1, Invariance, PTL

(* A stream that ended by itself forwarded the terminal event and every    *)
(* event before it (sse.py gen).                                           *)
THEOREM ClosedStreamsAreComplete == LogSpec => []ClosedIsComplete
<1>1. LogInv => ClosedIsComplete
  BY DEF LogInv
<1> QED BY <1>1, Invariance, PTL
=============================================================================
