--------------------------- MODULE Pipeline_proofs ---------------------------
(***************************************************************************)
(* Proofs about Pipeline, for every bundle the generator can draw, every   *)
(* corpus, score table and answer of the model, every partition networkx   *)
(* may return, and every size and bound.                                   *)
(***************************************************************************)
EXTENDS Pipeline, DataTheorems, SequenceTheorems

(* A bundle as the generator leaves it, and as ingest does: complaints     *)
(* numbered from 0, those of a syndicate paid to a mule of its first layer *)
(* and naming no identifier of noise, those of noise naming only their own.*)
IsFraud(b, c) ==
  /\ c.synd \in Syndicates
  /\ \E j \in DOMAIN b.syndicates[c.synd].l1 : c.mule = b.syndicates[c.synd].l1[j]
  /\ \A x \in c.ids : x[1] # "SOLO"
IsNoise(c) ==
  /\ c.synd \in Int /\ c.synd < 0
  /\ c.ids = {Solo(c.id)} /\ c.mule = Solo(c.id)
IsComplaint(b, c) ==
  /\ c.amt \in Nat \ {0}
  /\ c.text \in [kind : Families, lang : Langs]
  /\ IsFraud(b, c) \/ IsNoise(c)
IsBundle(b) ==
  /\ b.complaints \in Seq(Complaints(b))
  /\ DOMAIN b.syndicates = Syndicates
  /\ \A s \in Syndicates :
       LET n == Len(b.syndicates[s].l1) IN n \in Nat /\ b.syndicates[s] = SyndicateTruth(s, n)
  /\ \A i \in DOMAIN b.complaints : b.complaints[i].id = i - 1 /\ IsComplaint(b, b.complaints[i])
  /\ b.money \subseteq LedgerEdges(b.syndicates)
IsHashed(b) == \A i \in DOMAIN b.complaints : b.complaints[i].intake_hash = Sha256(b.complaints[i])

(* The stage that leaves a field, and what it leaves there.                *)
FieldStage ==
  [bundle |-> 0, ner |-> 1, resolution |-> 2,
   networks |-> 3, edges |-> 3, communities |-> 3, metrics |-> 3,
   trails |-> 4, pct_traced |-> 4, progress |-> 4, triage |-> 5,
   mappings |-> 6, mapping_rows |-> 6,
   chain |-> 7, chain_verified |-> 7, tamper_detected |-> 7, f9 |-> 7, f9_degraded |-> 7,
   reply |-> 7, packet |-> 8, results |-> 9]
Fields(n) == {f \in DOMAIN FieldStage : FieldStage[f] <= n}

LinkedInv(a) ==
  /\ a.communities \in Communities(a.bundle) /\ a.networks \in NetworksOf(a.communities)
  /\ a.edges = Edges(a.bundle)
  /\ a.metrics = LinkMetrics(a.bundle, a.communities, a.networks)
TrailsInv(a) ==
  /\ a.trails = Trails(a.bundle) /\ a.progress = Progress(a.bundle)
  /\ a.pct_traced = Percent(TracedValue(a.bundle), TotalValue(a.bundle))
MappedInv(a, mapper) ==
  /\ a.mappings = [i \in DOMAIN a.bundle.complaints |-> MapComplaint(mapper, a.bundle.complaints[i])]
  /\ a.mapping_rows = MappingRows(mapper, a.mappings)
GateInv(a, generator) ==
  /\ IF generator = "stub" THEN a.reply = "none" ELSE a.reply \in Replies
  /\ a.f9 = RunGate(generator, a.reply).result
  /\ a.f9_degraded = RunGate(generator, a.reply).degraded
ChainInv(a) ==
  /\ a.chain = Chain /\ a.chain_verified = Verify(Chain)
  /\ a.tamper_detected = ~Verify(Tamper(Chain, TamperIndex))
PacketInv(a) == PacketError(a) = "none" /\ a.packet = Assemble(LargestCase(a))
ProductInv(a, req, n) ==
  /\ IsBundle(a.bundle)
  /\ n >= 1 => IsHashed(a.bundle)
  /\ n >= 3 => LinkedInv(a)
  /\ n >= 4 => TrailsInv(a)
  /\ n >= 5 => a.triage = TriageQueue(a.bundle)
  /\ n >= 6 => MappedInv(a, req.mapper)
  /\ n >= 7 => GateInv(a, req.generator) /\ ChainInv(a)
  /\ n >= 8 => PacketInv(a)
  /\ n >= 9 => a.results = ResultsOf(a)

(* How far the run is, what it has emitted and how it ended.               *)
Done == Len(stages)
Event == [stage : Range(EXECUTION_ORDER), event : {"stage.started", "stage.completed", "run.completed"}]
Ended(es) == \E i \in DOMAIN es : es[i].event = "run.completed"
ProgressInv ==
  /\ request.generator \in {"stub", "ollama"} /\ request.mapper \in {"full", "degraded"}
  /\ stages \in Seq(Range(EXECUTION_ORDER)) /\ Done \in 0..9
  /\ DOMAIN art = Fields(Done)
  /\ events \in Seq(Event)
  /\ Ended(events) <=> Done = 9
  /\ status = "completed" <=> Done = 9
  /\ status \notin {"running", "completed"} =>
       Done = 7 /\ PacketError(art) # "none" /\ status = PacketError(art)
PipelineInv == ProgressInv /\ ProductInv(art, request, Done)
-----------------------------------------------------------------------------
(* THE BUNDLE *)
LEMMA NumberedIs ==
  ASSUME NEW s, NEW n \in Nat, NEW x \in Numbered("MULE_L1", s, n)
  PROVE  \E j \in 1..n : x = L1(s, j - 1)
<1>1. PICK i \in 0 .. n - 1 : x = <<"MULE_L1", s, i>>
  BY DEF Numbered
<1>2. i + 1 \in 1..n /\ i = (i + 1) - 1
  OBVIOUS
<1>3. x = L1(s, (i + 1) - 1)
  BY <1>1, <1>2 DEF L1
<1>4. QED
  BY <1>2, <1>3

LEMMA TruthIs ==
  ASSUME NEW s, NEW n \in Nat
  PROVE  /\ Len(SyndicateTruth(s, n).l1) = n /\ DOMAIN SyndicateTruth(s, n).l1 = 1..n
         /\ \A j \in 1..n : SyndicateTruth(s, n).l1[j] = L1(s, j - 1)
BY DEF SyndicateTruth

LEMMA NoSolo ==
  ASSUME NEW s, NEW size, NEW ids \in IdSets(s, size), NEW x \in ids
  PROVE  x[1] # "SOLO"
<1>1. x \in PoolOf(s, size) \/ \E t \in Syndicates : x = PH(t, 0)
  BY DEF IdSets
<1>2. ASSUME NEW kind, kind # "SOLO", NEW n, x \in Numbered(kind, s, n) PROVE x[1] # "SOLO"
  BY <1>2 DEF Numbered
<1>3. CASE x \in PoolOf(s, size)
  BY <1>2, <1>3 DEF PoolOf
<1>4. CASE \E t \in Syndicates : x = PH(t, 0)
  BY <1>4 DEF PH
<1>5. QED
  BY <1>1, <1>3, <1>4

LEMMA ArchetypeIs == \A s \in Syndicates : Archetype(s) \in Families
<1> SUFFICES ASSUME NEW s \in Syndicates PROVE Archetype(s) \in Families
  OBVIOUS
<1>1. DOMAIN ARCHETYPES = 1..6 /\ Len(ARCHETYPES) = 6
  BY DEF ARCHETYPES
<1>2. s \in Nat
  BY SyntheticAssumption DEF Syndicates
<1>3. (s % 6) + 1 \in 1..6
  BY <1>2
<1>4. QED
  BY <1>1, <1>3 DEF Archetype, Families

LEMMA GeneratedIsBundle == \A b : Generated(b) => IsBundle(b)
<1> SUFFICES ASSUME NEW b, Generated(b) PROVE IsBundle(b)
  OBVIOUS
<1> DEFINE n == Len(b.complaints)
           k == n - NNoise
<1>1. /\ b.complaints \in Seq(Complaints(b))
      /\ DOMAIN b.syndicates = Syndicates /\ b.money \subseteq LedgerEdges(b.syndicates)
      /\ k >= 0
  BY DEF Generated, Complaints
<1>2. n \in Nat /\ DOMAIN b.complaints = 1..n /\ k \in Nat /\ k <= n
  BY <1>1, SyntheticAssumption
<1>3. PICK size \in [Syndicates -> [phones : PoolSizes.phones, devices : PoolSizes.devices,
                                     ips : PoolSizes.ips, l1 : PoolSizes.l1]] :
        /\ \A s \in Syndicates : b.syndicates[s] = SyndicateTruth(s, size[s].l1)
        /\ \A i \in 1..k : \E s \in Syndicates : FraudComplaint(b.complaints[i], s, size[s])
  BY DEF Generated
<1>4. \A s \in Syndicates : size[s].l1 \in Nat
  BY SyntheticAssumption
<1>5. \A s \in Syndicates :
        LET m == Len(b.syndicates[s].l1) IN m \in Nat /\ b.syndicates[s] = SyndicateTruth(s, m)
  BY <1>3, <1>4, TruthIs
<1>6. ASSUME NEW i \in 1..n
      PROVE  b.complaints[i].id = i - 1 /\ IsComplaint(b, b.complaints[i])
  <2> DEFINE c == b.complaints[i]
  <2>1. c.id = i - 1 /\ \E lang \in Langs : c.text = Narrative(c.synd, lang)
    BY <1>2 DEF Generated
  <2>2. CASE i <= k
    <3>1. PICK s \in Syndicates : FraudComplaint(c, s, size[s])
      BY <1>3, <2>2
    <3>2. c.synd = s /\ c.ids \in IdSets(s, size[s]) /\ c.mule \in Numbered("MULE_L1", s, size[s].l1)
          /\ c.amt \in Amounts
      BY <3>1 DEF FraudComplaint
    <3>3. PICK j \in 1..size[s].l1 : c.mule = L1(s, j - 1)
      BY <1>4, <3>2, NumberedIs
    <3>4. j \in DOMAIN b.syndicates[s].l1 /\ c.mule = b.syndicates[s].l1[j]
      BY <1>3, <1>4, <3>3, TruthIs
    <3>5. IsFraud(b, c)
      BY <3>2, <3>4, NoSolo DEF IsFraud
    <3>6. s \in Nat /\ ~(s < 0)
      BY SyntheticAssumption DEF Syndicates
    <3>7. c.text \in [kind : Families, lang : Langs]
      BY <2>1, <3>2, <3>6, ArchetypeIs DEF Narrative
    <3>8. c.amt \in Nat \ {0}
      BY <3>2, SyntheticAssumption
    <3>9. QED
      BY <2>1, <3>5, <3>7, <3>8 DEF IsComplaint
  <2>3. CASE i > k
    <3>1. i \in k + 1 .. n
      BY <1>2, <2>3
    <3>2. NoiseComplaint(c)
      BY <3>1 DEF Generated
    <3>3. c.synd = -1 - c.id /\ c.ids = {Solo(c.id)} /\ c.mule = Solo(c.id) /\ c.amt \in Amounts
      BY <3>2 DEF NoiseComplaint
    <3>4. c.synd \in Int /\ c.synd < 0
      BY <2>1, <3>3, <1>2
    <3>5. c.text \in [kind : Families, lang : Langs]
      BY <2>1, <3>4 DEF Narrative, Families
    <3>6. c.amt \in Nat \ {0}
      BY <3>3, SyntheticAssumption
    <3>7. QED
      BY <2>1, <3>3, <3>4, <3>5, <3>6 DEF IsComplaint, IsNoise
  <2>4. QED
    BY <1>2, <2>2, <2>3
<1>7. QED
  BY <1>1, <1>2, <1>5, <1>6 DEF IsBundle

LEMMA HashedIsBundle ==
  ASSUME NEW b, IsBundle(b)
  PROVE  IsBundle(Hashed(b)) /\ IsHashed(Hashed(b))
<1> DEFINE h == Hashed(b)
<1>1. /\ h.syndicates = b.syndicates /\ h.money = b.money
      /\ DOMAIN h.complaints = DOMAIN b.complaints
      /\ \A i \in DOMAIN b.complaints : h.complaints[i] = Received(b.complaints[i])
      /\ h.complaints = [i \in DOMAIN b.complaints |-> Received(b.complaints[i])]
  BY DEF Hashed
<1>2. Len(b.complaints) \in Nat /\ DOMAIN b.complaints = 1 .. Len(b.complaints)
  BY DEF IsBundle
<1>3. ASSUME NEW c
      PROVE  LET r == Received(c) IN
             /\ r.id = c.id /\ r.synd = c.synd /\ r.ids = c.ids /\ r.amt = c.amt
             /\ r.mule = c.mule /\ r.text = c.text /\ r.intake_hash = Sha256(r)
  BY DEF Received, Sha256
<1> HIDE DEF h
<1>4. h.complaints \in Seq(Complaints(h))
  <2>1. \A i \in 1 .. Len(b.complaints) : h.complaints[i] \in Complaints(h)
    BY <1>1, <1>2 DEF Complaints
  <2>2. h.complaints \in [1 .. Len(b.complaints) -> Complaints(h)]
    BY <1>1, <1>2, <2>1
  <2>3. QED
    BY <1>2, <2>2
<1>5. ASSUME NEW i \in DOMAIN b.complaints
      PROVE  /\ h.complaints[i].id = i - 1 /\ IsComplaint(h, h.complaints[i])
             /\ h.complaints[i].intake_hash = Sha256(h.complaints[i])
  <2>1. b.complaints[i].id = i - 1 /\ IsComplaint(b, b.complaints[i])
    BY DEF IsBundle
  <2> DEFINE c == b.complaints[i]
             r == h.complaints[i]
  <2>2. /\ r.id = c.id /\ r.synd = c.synd /\ r.ids = c.ids /\ r.amt = c.amt
        /\ r.mule = c.mule /\ r.text = c.text /\ r.intake_hash = Sha256(r)
    <3>1. r = Received(c)
      BY <1>1
    <3>2. QED
      BY <1>3, <3>1
  <2>3. IsComplaint(b, c) /\ c.id = i - 1
    BY <2>1
  <2> HIDE DEF c, r
  <2>4. IsFraud(b, c) => IsFraud(h, r)
    BY <1>1, <2>2 DEF IsFraud
  <2>5. IsNoise(c) => IsNoise(r)
    BY <2>2 DEF IsNoise
  <2>6. IsComplaint(h, r)
    BY <2>2, <2>3, <2>4, <2>5 DEF IsComplaint
  <2>7. QED
    BY <2>2, <2>3, <2>6 DEF c, r
<1>6. IsBundle(h) /\ IsHashed(h)
  BY <1>1, <1>4, <1>5 DEF IsBundle, IsHashed
<1>7. QED
  BY <1>6 DEF h

-----------------------------------------------------------------------------
(* THE STAGES: each leaves the fields of its own and keeps the others.     *)
LEMMA ExtendedIs ==
  ASSUME NEW r, NEW new
  PROVE  /\ DOMAIN Extended(r, new) = DOMAIN r \cup DOMAIN new
         /\ \A f \in DOMAIN r : Extended(r, new)[f] = r[f]
         /\ \A f \in DOMAIN new \ DOMAIN r : Extended(r, new)[f] = new[f]
BY DEF Extended

LEMMA ContextSame ==
  ASSUME NEW a, NEW c, NEW com, NEW synd,
         c.bundle = a.bundle, c.trails = a.trails, c.mappings = a.mappings, c.f9 = a.f9,
         c.chain = a.chain
  PROVE  CaseContext(c, com, synd) = CaseContext(a, com, synd)
<1> DEFINE members(b) == Keep(b.complaints, LAMBDA x : x.id \in com)
<1>1. members(c.bundle) = members(a.bundle)
  OBVIOUS
<1>2. PacketSections(c.mappings, com) = PacketSections(a.mappings, com)
  OBVIOUS
<1> HIDE DEF members
<1>3. ASSUME NEW z
      PROVE  CaseContext(z, com, synd) =
        [case |-> [case_id |-> synd, n_complaints |-> Len(members(z.bundle))],
         complaints |-> members(z.bundle),
         network |-> [syndicate |-> synd, size |-> Cardinality(com), members |-> com],
         trail |-> z.trails[synd], sections |-> PacketSections(z.mappings, com),
         corpus_v2 |-> [sec \in Range(CorpusV2) |-> sec], f9 |-> z.f9,
         custody_extract |-> z.chain, chain_head |-> z.chain[Len(z.chain)].hash]
  BY DEF CaseContext, members
<1>4. QED
  BY <1>1, <1>2, <1>3

LEMMA PacketSame ==
  ASSUME NEW a, NEW c, c.networks = a.networks,
         c.bundle = a.bundle, c.trails = a.trails, c.mappings = a.mappings, c.f9 = a.f9,
         c.chain = a.chain
  PROVE  LargestCase(c) = LargestCase(a) /\ PacketError(c) = PacketError(a)
<1>1. Largest(c.networks) = Largest(a.networks)
  OBVIOUS
<1>2. MajoritySyndicate(c.bundle, Largest(a.networks)) = MajoritySyndicate(a.bundle, Largest(a.networks))
  OBVIOUS
<1>3. LargestCase(c) = LargestCase(a)
  BY <1>1, <1>2, ContextSame DEF LargestCase
<1>4. QED
  BY <1>1, <1>2, <1>3 DEF PacketError

LEMMA ResultsSame ==
  ASSUME NEW a, NEW c, c.bundle = a.bundle, c.metrics = a.metrics, c.pct_traced = a.pct_traced,
         c.mapping_rows = a.mapping_rows, c.f9 = a.f9, c.f9_degraded = a.f9_degraded,
         c.chain = a.chain, c.chain_verified = a.chain_verified,
         c.tamper_detected = a.tamper_detected
  PROVE  ResultsOf(c) = ResultsOf(a)
BY DEF ResultsOf

LEMMA FieldsAt ==
  /\ {"bundle"} = Fields(0) /\ {"bundle", "ner"} = Fields(1)
  /\ \A n \in 1..8 : Fields(n + 1) = Fields(n) \cup {f \in DOMAIN FieldStage : FieldStage[f] = n + 1}
BY DEF Fields, FieldStage

Keeps(c, a, n) == \A f \in Fields(n) : c[f] = a[f]
LEMMA ProductCarry ==
  ASSUME NEW n \in 0..9, NEW a, NEW c, NEW req, ProductInv(a, req, n),
         Keeps(c, a, n)
  PROVE  ProductInv(c, req, n)
<1>0. \A f \in DOMAIN FieldStage : FieldStage[f] <= n => c[f] = a[f]
  BY DEF Fields, Keeps
<1>1. IsBundle(c.bundle) /\ (n >= 1 => IsHashed(c.bundle)) /\ c.bundle = a.bundle
  BY <1>0 DEF FieldStage, ProductInv
<1>2. n >= 3 => LinkedInv(c)
  BY <1>0, <1>1 DEF FieldStage, ProductInv, LinkedInv
<1>3. n >= 4 => TrailsInv(c)
  BY <1>0, <1>1 DEF FieldStage, ProductInv, TrailsInv
<1>4. n >= 5 => c.triage = TriageQueue(c.bundle)
  BY <1>0, <1>1 DEF FieldStage, ProductInv
<1>5. n >= 6 => MappedInv(c, req.mapper)
  BY <1>0, <1>1 DEF FieldStage, ProductInv, MappedInv
<1>6. n >= 7 => GateInv(c, req.generator) /\ ChainInv(c)
  BY <1>0, <1>1 DEF FieldStage, ProductInv, GateInv, ChainInv
<1>7. ASSUME n >= 7
      PROVE  LargestCase(c) = LargestCase(a) /\ PacketError(c) = PacketError(a)
  BY <1>0, <1>7, PacketSame DEF FieldStage
<1>8. n >= 8 => PacketInv(c)
  BY <1>0, <1>7 DEF FieldStage, ProductInv, PacketInv
<1>9. n >= 9 => ResultsOf(c) = ResultsOf(a)
  BY <1>0, <1>1, ResultsSame DEF FieldStage
<1>10. n >= 9 => c.results = ResultsOf(c)
  BY <1>0, <1>9 DEF FieldStage, ProductInv
<1>11. QED
  BY <1>1, <1>2, <1>3, <1>4, <1>5, <1>6, <1>8, <1>10 DEF ProductInv

(* The stage a run is at is the one after those it has completed.          *)
StageNumber ==
  [ingest |-> 1, entity_resolution |-> 2, linkage |-> 3, money_trail |-> 4, triage |-> 5,
   legal_mapping |-> 6, f9_audit |-> 7, packet |-> 8, signoff |-> 9]
LEMMA RunningAt ==
  ASSUME ProgressInv, NEW stage \in DOMAIN StageNumber, Running(stage)
  PROVE  /\ Done = StageNumber[stage] - 1 /\ stage \in Range(EXECUTION_ORDER)
         /\ status = "running"
<1>1. Done \in 0..9 /\ Done # 9 /\ stage = EXECUTION_ORDER[Done + 1] /\ status = "running"
  BY DEF ProgressInv, Running, Done
<1>2. DOMAIN EXECUTION_ORDER = 1..9 /\ \A i \in 1..9 : StageNumber[EXECUTION_ORDER[i]] = i
  BY DEF StageNumber, EXECUTION_ORDER
<1> DEFINE k == Done + 1
<1>3. k \in 1..9 /\ stage = EXECUTION_ORDER[k] /\ Done = k - 1
  BY <1>1
<1> HIDE DEF k
<1>4. stage \in Range(EXECUTION_ORDER)
  BY <1>2, <1>3 DEF Range
<1>5. StageNumber[stage] = k
  BY <1>2, <1>3
<1>6. QED
  BY <1>1, <1>3, <1>4, <1>5

LEMMA EmittedIs ==
  ASSUME NEW es \in Seq(Event), NEW new \in Seq(Event)
  PROVE  es \o new \in Seq(Event) /\ (Ended(es \o new) <=> Ended(es) \/ Ended(new))
<1> DEFINE m == Len(es)
           k == Len(new)
           all == es \o new
<1>1. /\ all \in Seq(Event) /\ Len(all) = m + k
      /\ \A i \in 1 .. m + k : all[i] = IF i <= m THEN es[i] ELSE new[i - m]
  BY ConcatProperties
<1>2. m \in Nat /\ k \in Nat /\ DOMAIN es = 1..m /\ DOMAIN new = 1..k
  OBVIOUS
<1> HIDE DEF all, m, k
<1>3. DOMAIN all = 1 .. m + k
  BY <1>1
<1>4. ASSUME NEW i \in DOMAIN all, all[i].event = "run.completed" PROVE Ended(es) \/ Ended(new)
  <2>1. CASE i <= m
    <3>1. i \in DOMAIN es /\ all[i] = es[i]
      BY <1>1, <1>2, <1>3, <2>1
    <3>2. QED
      BY <1>4, <3>1 DEF Ended
  <2>2. CASE ~(i <= m)
    <3>1. i - m \in DOMAIN new /\ all[i] = new[i - m]
      BY <1>1, <1>2, <1>3, <2>2
    <3>2. QED
      BY <1>4, <3>1 DEF Ended
  <2>3. QED
    BY <2>1, <2>2
<1>5. ASSUME NEW i \in DOMAIN es, es[i].event = "run.completed" PROVE Ended(all)
  <2>1. i \in DOMAIN all /\ all[i] = es[i]
    BY <1>1, <1>2, <1>3
  <2>2. QED
    BY <1>5, <2>1 DEF Ended
<1>6. ASSUME NEW i \in DOMAIN new, new[i].event = "run.completed" PROVE Ended(all)
  <2>1. i + m \in DOMAIN all /\ all[i + m] = new[i]
    BY <1>1, <1>2, <1>3
  <2>2. QED
    BY <1>6, <2>1 DEF Ended
<1>7. Ended(all) <=> Ended(es) \/ Ended(new)
  BY <1>4, <1>5, <1>6 DEF Ended
<1>8. QED
  BY <1>1, <1>7 DEF all

(* Any stage that only completes: what it emits is no end of the run.      *)
LEMMA CompleteKeeps ==
  ASSUME ProgressInv, ProductInv(art, request, Done),
         NEW stage \in DOMAIN StageNumber, NEW product, Complete(stage, product), status' = status,
         stage # "ingest", stage # "signoff",
         DOMAIN product = {f \in DOMAIN FieldStage : FieldStage[f] = StageNumber[stage]}
  PROVE  /\ ProgressInv'
         /\ Done' = StageNumber[stage] /\ request' = request
         /\ ProductInv(art', request', StageNumber[stage] - 1)
         /\ Keeps(art', art, StageNumber[stage] - 1)
         /\ \A f \in DOMAIN product : art'[f] = product[f]
<1>1. Done = StageNumber[stage] - 1 /\ stage \in Range(EXECUTION_ORDER) /\ status = "running"
  BY RunningAt DEF Complete
<1>2. Done \in 1..7
  BY <1>1 DEF StageNumber
<1>3. /\ stages' = Append(stages, stage) /\ request' = request /\ art' = Extended(art, product)
      /\ events' = events \o <<Started(stage), Completed(stage)>>
  BY DEF Complete
<1>4. stages \in Seq(Range(EXECUTION_ORDER)) /\ events \in Seq(Event) /\ DOMAIN art = Fields(Done)
      /\ request.generator \in {"stub", "ollama"} /\ request.mapper \in {"full", "degraded"}
  BY DEF ProgressInv
<1>5. stages' \in Seq(Range(EXECUTION_ORDER)) /\ Done' = Done + 1
  <2>1. stages' \in Seq(Range(EXECUTION_ORDER)) /\ Len(stages') = Len(stages) + 1
    BY <1>1, <1>3, <1>4
  <2>2. QED
    BY <2>1 DEF Done
<1>6. DOMAIN product = Fields(Done + 1) \ Fields(Done) /\ Fields(Done) \subseteq Fields(Done + 1)
  BY <1>1, <1>2 DEF Fields, FieldStage
<1>7. /\ DOMAIN art' = Fields(Done + 1)
      /\ Keeps(art', art, Done)
      /\ \A f \in DOMAIN product : art'[f] = product[f]
  <2>1. /\ DOMAIN art' = DOMAIN art \cup DOMAIN product
        /\ \A f \in DOMAIN art : art'[f] = art[f]
        /\ \A f \in DOMAIN product \ DOMAIN art : art'[f] = product[f]
    <3> DEFINE dom == DOMAIN art \cup DOMAIN product
               e == [f \in dom |-> IF f \in DOMAIN art THEN art[f] ELSE product[f]]
    <3>1. art' = e
      BY <1>3 DEF Extended
    <3>2. DOMAIN e = dom /\ \A f \in dom : e[f] = IF f \in DOMAIN art THEN art[f] ELSE product[f]
      OBVIOUS
    <3>3. DOMAIN art \subseteq dom /\ DOMAIN product \subseteq dom
      OBVIOUS
    <3> HIDE DEF e
    <3>4. /\ DOMAIN e = dom
          /\ \A f \in DOMAIN art : e[f] = art[f]
          /\ \A f \in DOMAIN product \ DOMAIN art : e[f] = product[f]
      BY <3>2, <3>3
    <3>5. QED
      BY <3>1, <3>4
  <2>2. QED
    BY <1>4, <1>6, <2>1 DEF Keeps
<1>8. Started(stage) \in Event /\ Completed(stage) \in Event
      /\ Started(stage).event # "run.completed" /\ Completed(stage).event # "run.completed"
  BY <1>1 DEF Started, Completed, Event
<1>9. events' \in Seq(Event) /\ ~Ended(events')
  <2>1. ~Ended(events)
    BY <1>2 DEF ProgressInv
  <2> DEFINE new == <<Started(stage), Completed(stage)>>
  <2>2. new \in Seq(Event) /\ ~Ended(new)
    BY <1>8 DEF Ended
  <2> HIDE DEF new
  <2>3. events' = events \o new
    BY <1>3 DEF new
  <2>4. QED
    BY <1>4, <2>1, <2>2, <2>3, EmittedIs
<1>10. ProgressInv'
  <2>1. Done' \in 0..9 /\ Done' # 9 /\ status' = "running"
    BY <1>1, <1>2, <1>5
  <2>2. (request.generator \in {"stub", "ollama"} /\ request.mapper \in {"full", "degraded"})'
    BY <1>3, <1>4
  <2>3. DOMAIN art' = Fields(Done')
    BY <1>5, <1>7
  <2>4. Ended(events)' <=> FALSE
    BY <1>9
  <2>5. QED
    BY <1>5, <1>9, <2>1, <2>2, <2>3, <2>4 DEF ProgressInv
<1>11. ProductInv(art', request', Done)
  BY <1>2, <1>3, <1>7, ProductCarry
<1>12. QED
  BY <1>1, <1>2, <1>3, <1>5, <1>7, <1>10, <1>11

LEMMA IngestKeeps == PipelineInv /\ Ingest => PipelineInv'
<1> SUFFICES ASSUME PipelineInv, Ingest PROVE PipelineInv'
  OBVIOUS
<1>1. ProgressInv /\ IsBundle(art.bundle)
  BY DEF PipelineInv, ProductInv
<1>2. Done = 0 /\ "ingest" \in Range(EXECUTION_ORDER) /\ status = "running"
  BY <1>1, RunningAt DEF Ingest, StageNumber
<1>3. /\ stages' = <<"ingest">> /\ request' = request /\ status' = status
      /\ events' = <<Started("ingest"), Completed("ingest")>>
      /\ art' = [bundle |-> Hashed(art.bundle), ner |-> NerCounts(art.bundle)]
  BY DEF Ingest
<1>4. stages' \in Seq(Range(EXECUTION_ORDER)) /\ Done' = 1
  <2>1. stages' \in Seq(Range(EXECUTION_ORDER)) /\ Len(stages') = 1
    BY <1>2, <1>3
  <2>2. QED
    BY <2>1 DEF Done
<1>5. events' \in Seq(Event) /\ ~Ended(events')
  <2>1. Started("ingest") \in Event /\ Completed("ingest") \in Event
    BY <1>2 DEF Started, Completed, Event
  <2>2. Started("ingest").event # "run.completed" /\ Completed("ingest").event # "run.completed"
    BY DEF Started, Completed
  <2>3. QED
    BY <1>3, <2>1, <2>2 DEF Ended
<1>6. DOMAIN art' = Fields(1)
  BY <1>3, FieldsAt
<1>7. ProgressInv'
  BY <1>1, <1>2, <1>3, <1>4, <1>5, <1>6 DEF ProgressInv
<1>8. IsBundle(art'.bundle) /\ IsHashed(art'.bundle)
  BY <1>1, <1>3, HashedIsBundle
<1>9. ProductInv(art', request', 1)
  BY <1>8 DEF ProductInv
<1>10. QED
  BY <1>4, <1>7, <1>9 DEF PipelineInv

LEMMA ResolutionKeeps == PipelineInv /\ EntityResolution => PipelineInv'
<1> SUFFICES ASSUME PipelineInv, EntityResolution PROVE PipelineInv'
  OBVIOUS
<1> DEFINE product == [resolution |-> Resolution(art.bundle)]
<1>1. Complete("entity_resolution", product) /\ status' = status
  BY DEF EntityResolution
<1>2. DOMAIN product = {f \in DOMAIN FieldStage : FieldStage[f] = StageNumber["entity_resolution"]}
  BY DEF FieldStage, StageNumber
<1> HIDE DEF product
<1>3. ProgressInv' /\ Done' = 2 /\ ProductInv(art', request', 1)
  BY <1>1, <1>2, CompleteKeeps DEF PipelineInv, StageNumber
<1>4. ProductInv(art', request', 2)
  BY <1>3 DEF ProductInv
<1>5. QED
  BY <1>3, <1>4 DEF PipelineInv

LEMMA LinkKeeps == PipelineInv /\ Link => PipelineInv'
<1> SUFFICES ASSUME PipelineInv, Link PROVE PipelineInv'
  OBVIOUS
<1>0. PICK p \in Communities(art.bundle) :
        \E networks \in NetworksOf(p) : Complete("linkage", LinkResult(art.bundle, p, networks))
  BY DEF Link
<1>1. PICK networks \in NetworksOf(p) : Complete("linkage", LinkResult(art.bundle, p, networks))
  BY <1>0
<1> DEFINE product == LinkResult(art.bundle, p, networks)
<1>2. Complete("linkage", product) /\ status' = status
  BY <1>1 DEF Link
<1>3. DOMAIN product = {f \in DOMAIN FieldStage : FieldStage[f] = StageNumber["linkage"]}
  BY DEF FieldStage, StageNumber, LinkResult
<1>4. /\ "networks" \in DOMAIN product /\ "edges" \in DOMAIN product
      /\ "communities" \in DOMAIN product /\ "metrics" \in DOMAIN product
      /\ product.networks = networks /\ product.edges = Edges(art.bundle)
      /\ product.communities = p /\ product.metrics = LinkMetrics(art.bundle, p, networks)
  BY DEF LinkResult
<1> HIDE DEF product
<1>5. /\ ProgressInv' /\ Done' = 3 /\ ProductInv(art', request', 2) /\ Keeps(art', art, 2)
      /\ \A f \in DOMAIN product : art'[f] = product[f]
  BY <1>2, <1>3, CompleteKeeps DEF PipelineInv, StageNumber
<1>6. art'.bundle = art.bundle
  BY <1>5 DEF Keeps, Fields, FieldStage
<1>7. /\ art'.networks = networks /\ art'.edges = Edges(art'.bundle)
      /\ art'.communities = p /\ art'.metrics = LinkMetrics(art'.bundle, p, networks)
  BY <1>4, <1>5, <1>6
<1>8. LinkedInv(art')
  BY <1>1, <1>6, <1>7 DEF LinkedInv
<1>9. ProductInv(art', request', 3)
  BY <1>5, <1>8 DEF ProductInv
<1>10. QED
  BY <1>5, <1>9 DEF PipelineInv

LEMMA MoneyKeeps == PipelineInv /\ FollowMoney => PipelineInv'
<1> SUFFICES ASSUME PipelineInv, FollowMoney PROVE PipelineInv'
  OBVIOUS
<1> DEFINE t == TrailResult(art.bundle)
           product == [trails |-> t.per_network, pct_traced |-> t.pct_traced, progress |-> t.progress]
<1>1. Complete("money_trail", product) /\ status' = status
  BY DEF FollowMoney
<1>2. DOMAIN product = {f \in DOMAIN FieldStage : FieldStage[f] = StageNumber["money_trail"]}
  BY DEF FieldStage, StageNumber
<1>3. /\ "trails" \in DOMAIN product /\ "pct_traced" \in DOMAIN product
      /\ "progress" \in DOMAIN product
      /\ product.trails = Trails(art.bundle) /\ product.progress = Progress(art.bundle)
      /\ product.pct_traced = Percent(TracedValue(art.bundle), TotalValue(art.bundle))
  BY DEF TrailResult
<1> HIDE DEF product
<1>4. /\ ProgressInv' /\ Done' = 4 /\ ProductInv(art', request', 3) /\ Keeps(art', art, 3)
      /\ \A f \in DOMAIN product : art'[f] = product[f]
  BY <1>1, <1>2, CompleteKeeps DEF PipelineInv, StageNumber
<1>5. art'.bundle = art.bundle
  BY <1>4 DEF Keeps, Fields, FieldStage
<1>6. TrailsInv(art')
  BY <1>3, <1>4, <1>5 DEF TrailsInv
<1>7. ProductInv(art', request', 4)
  BY <1>4, <1>6 DEF ProductInv
<1>8. QED
  BY <1>4, <1>7 DEF PipelineInv

LEMMA TriageKeeps == PipelineInv /\ Triage => PipelineInv'
<1> SUFFICES ASSUME PipelineInv, Triage PROVE PipelineInv'
  OBVIOUS
<1> DEFINE product == [triage |-> TriageQueue(art.bundle)]
<1>1. Complete("triage", product) /\ status' = status
  BY DEF Triage
<1>2. /\ DOMAIN product = {f \in DOMAIN FieldStage : FieldStage[f] = StageNumber["triage"]}
      /\ "triage" \in DOMAIN product /\ product.triage = TriageQueue(art.bundle)
  BY DEF FieldStage, StageNumber
<1> HIDE DEF product
<1>3. /\ ProgressInv' /\ Done' = 5 /\ ProductInv(art', request', 4) /\ Keeps(art', art, 4)
      /\ \A f \in DOMAIN product : art'[f] = product[f]
  BY <1>1, <1>2, CompleteKeeps DEF PipelineInv, StageNumber
<1>4. art'.bundle = art.bundle
  BY <1>3 DEF Keeps, Fields, FieldStage
<1>5. art'.triage = TriageQueue(art'.bundle)
  BY <1>2, <1>3, <1>4
<1>6. ProductInv(art', request', 5)
  BY <1>3, <1>5 DEF ProductInv
<1>7. QED
  BY <1>3, <1>6 DEF PipelineInv

LEMMA LegalKeeps == PipelineInv /\ LegalMap => PipelineInv'
<1> SUFFICES ASSUME PipelineInv, LegalMap PROVE PipelineInv'
  OBVIOUS
<1> DEFINE cs == art.bundle.complaints
           mappings == [i \in DOMAIN cs |-> MapComplaint(request.mapper, cs[i])]
           product == [mappings |-> mappings, mapping_rows |-> MappingRows(request.mapper, mappings)]
<1>1. Complete("legal_mapping", product) /\ status' = status
  BY DEF LegalMap
<1>2. /\ DOMAIN product = {f \in DOMAIN FieldStage : FieldStage[f] = StageNumber["legal_mapping"]}
      /\ "mappings" \in DOMAIN product /\ product.mappings = mappings
      /\ "mapping_rows" \in DOMAIN product
      /\ product.mapping_rows = MappingRows(request.mapper, mappings)
  BY DEF FieldStage, StageNumber
<1> HIDE DEF product
<1>3. /\ ProgressInv' /\ Done' = 6 /\ ProductInv(art', request', 5) /\ Keeps(art', art, 5)
      /\ \A f \in DOMAIN product : art'[f] = product[f] /\ request' = request
  BY <1>1, <1>2, CompleteKeeps DEF PipelineInv, StageNumber
<1>4. art'.bundle = art.bundle
  BY <1>3 DEF Keeps, Fields, FieldStage
<1>5. art'.mappings = mappings /\ art'.mapping_rows = MappingRows(request.mapper, mappings)
      /\ request' = request
  BY <1>2, <1>3
<1>6. MappedInv(art', request'.mapper)
  BY <1>4, <1>5 DEF MappedInv
<1>7. ProductInv(art', request', 6)
  BY <1>3, <1>6 DEF ProductInv
<1>8. QED
  BY <1>3, <1>7 DEF PipelineInv

LEMMA GateKeeps == PipelineInv /\ F9Audit => PipelineInv'
<1> SUFFICES ASSUME PipelineInv, F9Audit PROVE PipelineInv'
  OBVIOUS
<1> DEFINE asked == IF request.generator = "stub" THEN {"none"} ELSE Replies
<1>1. PICK reply \in asked :
        Complete("f9_audit",
          LET gate == RunGate(request.generator, reply)
          IN Extended(ChainFigures,
               [f9 |-> gate.result, f9_degraded |-> gate.degraded, reply |-> reply]))
  BY DEF F9Audit
<1> DEFINE gate == RunGate(request.generator, reply)
           figures == [f9 |-> gate.result, f9_degraded |-> gate.degraded, reply |-> reply]
           product == Extended(ChainFigures, figures)
<1>2. Complete("f9_audit", product) /\ status' = status
  BY <1>1 DEF F9Audit
<1>3. /\ DOMAIN ChainFigures = {"chain", "chain_verified", "tamper_detected"}
      /\ ChainFigures.chain = Chain /\ ChainFigures.chain_verified = Verify(Chain)
      /\ ChainFigures.tamper_detected = ~Verify(Tamper(Chain, TamperIndex))
  BY DEF ChainFigures
<1>4. /\ DOMAIN figures = {"f9", "f9_degraded", "reply"}
      /\ figures.f9 = gate.result /\ figures.f9_degraded = gate.degraded
      /\ figures.reply = reply
  OBVIOUS
<1>5. /\ DOMAIN product = DOMAIN ChainFigures \cup DOMAIN figures
      /\ \A f \in DOMAIN ChainFigures : product[f] = ChainFigures[f]
      /\ \A f \in DOMAIN figures \ DOMAIN ChainFigures : product[f] = figures[f]
  BY ExtendedIs
<1> HIDE DEF product, figures, gate
<1>6. /\ DOMAIN product = {f \in DOMAIN FieldStage : FieldStage[f] = StageNumber["f9_audit"]}
      /\ product.chain = Chain /\ product.chain_verified = Verify(Chain)
      /\ product.tamper_detected = ~Verify(Tamper(Chain, TamperIndex))
      /\ product.f9 = gate.result /\ product.f9_degraded = gate.degraded /\ product.reply = reply
  BY <1>3, <1>4, <1>5 DEF FieldStage, StageNumber
<1>7. /\ ProgressInv' /\ Done' = 7 /\ ProductInv(art', request', 6) /\ request' = request
      /\ \A f \in DOMAIN product : art'[f] = product[f]
  BY <1>2, <1>6, CompleteKeeps DEF PipelineInv, StageNumber
<1>8. ChainInv(art')
  BY <1>3, <1>5, <1>6, <1>7 DEF ChainInv
<1>9. art'.f9 = gate.result /\ art'.f9_degraded = gate.degraded /\ art'.reply = reply
  BY <1>3, <1>4, <1>5, <1>6, <1>7
<1>10. GateInv(art', request'.generator)
  BY <1>1, <1>7, <1>9 DEF GateInv, gate
<1>11. ProductInv(art', request', 7)
  BY <1>7, <1>8, <1>10 DEF ProductInv
<1>12. QED
  BY <1>7, <1>11 DEF PipelineInv

LEMMA PacketKeeps == PipelineInv /\ AssemblePacket => PipelineInv'
<1> SUFFICES ASSUME PipelineInv, AssemblePacket PROVE PipelineInv'
  OBVIOUS
<1> DEFINE product == [packet |-> Assemble(LargestCase(art))]
<1>1. Complete("packet", product) /\ status' = status /\ PacketError(art) = "none"
  BY DEF AssemblePacket
<1>2. /\ DOMAIN product = {f \in DOMAIN FieldStage : FieldStage[f] = StageNumber["packet"]}
      /\ "packet" \in DOMAIN product /\ product.packet = Assemble(LargestCase(art))
  BY DEF FieldStage, StageNumber
<1> HIDE DEF product
<1>3. /\ ProgressInv' /\ Done' = 8 /\ ProductInv(art', request', 7) /\ Keeps(art', art, 7)
      /\ \A f \in DOMAIN product : art'[f] = product[f]
  BY <1>1, <1>2, CompleteKeeps DEF PipelineInv, StageNumber
<1>4. /\ art'.bundle = art.bundle /\ art'.networks = art.networks /\ art'.trails = art.trails
      /\ art'.mappings = art.mappings /\ art'.f9 = art.f9 /\ art'.chain = art.chain
  BY <1>3 DEF Keeps, Fields, FieldStage
<1>5. LargestCase(art') = LargestCase(art) /\ PacketError(art') = PacketError(art)
  BY <1>4, PacketSame
<1>6. PacketInv(art')
  BY <1>1, <1>2, <1>3, <1>5 DEF PacketInv
<1>7. ProductInv(art', request', 8)
  BY <1>3, <1>6 DEF ProductInv
<1>8. QED
  BY <1>3, <1>7 DEF PipelineInv

LEMMA RaiseKeeps == PipelineInv /\ PacketRaises => PipelineInv'
<1> SUFFICES ASSUME PipelineInv, PacketRaises PROVE PipelineInv'
  OBVIOUS
<1>1. /\ Running("packet") /\ PacketError(art) # "none" /\ status' = PacketError(art)
      /\ events' = Append(events, Started("packet"))
      /\ request' = request /\ stages' = stages /\ art' = art
  BY DEF PacketRaises
<1>2. ProgressInv /\ ProductInv(art, request, Done)
  BY DEF PipelineInv
<1>3. Done = 7 /\ "packet" \in Range(EXECUTION_ORDER)
  BY <1>1, <1>2, RunningAt DEF StageNumber
<1>4. Done' = Done
  BY <1>1 DEF Done
<1>5. events' \in Seq(Event) /\ ~Ended(events')
  <2>1. events \in Seq(Event) /\ ~Ended(events)
    BY <1>2, <1>3 DEF ProgressInv
  <2>2. Started("packet") \in Event /\ Started("packet").event # "run.completed"
    BY <1>3 DEF Started, Event
  <2> DEFINE new == <<Started("packet")>>
  <2>3. new \in Seq(Event) /\ ~Ended(new)
    BY <2>2 DEF Ended
  <2>4. events' = events \o new
    BY <1>1, <2>1, <2>2, AppendIsConcat
  <2> HIDE DEF new
  <2>5. QED
    BY <2>1, <2>3, <2>4, EmittedIs
<1>6. status' \in {"no network found", "no ground-truth syndicate", "packet refused"}
  BY <1>1 DEF PacketError
<1>7. ProgressInv'
  <2>1. /\ request'.generator \in {"stub", "ollama"} /\ request'.mapper \in {"full", "degraded"}
        /\ stages' \in Seq(Range(EXECUTION_ORDER)) /\ Done' \in 0..9
        /\ DOMAIN art' = Fields(Done')
    BY <1>1, <1>2, <1>4 DEF ProgressInv
  <2>2. Done' = 7
    BY <1>3, <1>4
  <2>3. status' # "completed" /\ Done' # 9
    <3>1. status' # "completed"
      BY <1>6
    <3>2. Done' # 9
      BY <2>2
    <3>3. QED
      BY <3>1, <3>2
  <2>4. PacketError(art') # "none" /\ status' = PacketError(art')
    BY <1>1
  <2>5. QED
    BY <1>5, <2>1, <2>2, <2>3, <2>4 DEF ProgressInv
<1>8. ProductInv(art', request', Done')
  BY <1>1, <1>2, <1>4
<1>9. QED
  BY <1>7, <1>8 DEF PipelineInv

LEMMA SignoffKeeps == PipelineInv /\ Signoff => PipelineInv'
<1> SUFFICES ASSUME PipelineInv, Signoff PROVE PipelineInv'
  OBVIOUS
<1> DEFINE done == [stage |-> "signoff", event |-> "run.completed"]
           product == [results |-> ResultsOf(art)]
<1>1. /\ Running("signoff") /\ status' = "completed" /\ request' = request
      /\ stages' = Append(stages, "signoff")
      /\ events' = events \o <<Started("signoff"), Completed("signoff"), done>>
      /\ art' = Extended(art, product)
  BY DEF Signoff
<1>2. ProgressInv /\ ProductInv(art, request, Done)
  BY DEF PipelineInv
<1>3. Done = 8 /\ "signoff" \in Range(EXECUTION_ORDER)
  BY <1>1, <1>2, RunningAt DEF StageNumber
<1>4. stages' \in Seq(Range(EXECUTION_ORDER)) /\ Done' = 9
  <2>1. stages \in Seq(Range(EXECUTION_ORDER))
    BY <1>2 DEF ProgressInv
  <2>2. stages' \in Seq(Range(EXECUTION_ORDER)) /\ Len(stages') = Len(stages) + 1
    BY <1>1, <1>3, <2>1
  <2>3. Done' = Done + 1
    BY <2>2 DEF Done
  <2>4. QED
    BY <1>3, <2>2, <2>3
<1>5. events' \in Seq(Event) /\ Ended(events')
  <2>1. events \in Seq(Event)
    BY <1>2 DEF ProgressInv
  <2>2. done \in Event /\ done.event = "run.completed"
        /\ Started("signoff") \in Event /\ Completed("signoff") \in Event
    BY <1>3 DEF Started, Completed, Event
  <2> HIDE DEF done
  <2> DEFINE new == <<Started("signoff"), Completed("signoff"), done>>
  <2>3. new \in Seq(Event) /\ 3 \in DOMAIN new /\ new[3] = done
    BY <2>2
  <2>4. events' = events \o new
    BY <1>1
  <2> HIDE DEF new
  <2>5. Ended(new)
    BY <2>2, <2>3 DEF Ended
  <2>6. QED
    BY <2>1, <2>3, <2>4, <2>5, EmittedIs
<1>6. "results" \in DOMAIN product /\ DOMAIN product = {"results"} /\ product.results = ResultsOf(art)
  OBVIOUS
<1> HIDE DEF product
<1>7. DOMAIN art = Fields(8)
  BY <1>2, <1>3 DEF ProgressInv
<1>8. /\ DOMAIN art' = Fields(8) \cup {"results"} /\ Keeps(art', art, 8)
      /\ art'.results = ResultsOf(art)
  <2> DEFINE e == Extended(art, product)
  <2>1. /\ DOMAIN e = DOMAIN art \cup DOMAIN product
        /\ \A f \in DOMAIN art : e[f] = art[f]
        /\ \A f \in DOMAIN product \ DOMAIN art : e[f] = product[f]
    BY ExtendedIs
  <2> HIDE DEF e
  <2>2. art' = e
    BY <1>1 DEF e
  <2>3. "results" \notin Fields(8)
    BY DEF Fields, FieldStage
  <2>4. QED
    BY <1>6, <1>7, <2>1, <2>2, <2>3 DEF Keeps
<1>9. DOMAIN art' = Fields(9)
  BY <1>8 DEF Fields, FieldStage
<1>10. ProgressInv'
  BY <1>1, <1>2, <1>4, <1>5, <1>9 DEF ProgressInv
<1>11. ProductInv(art', request', 8)
  BY <1>1, <1>2, <1>3, <1>8, ProductCarry
<1>12. /\ art'.bundle = art.bundle /\ art'.metrics = art.metrics
       /\ art'.pct_traced = art.pct_traced /\ art'.mapping_rows = art.mapping_rows
       /\ art'.f9 = art.f9 /\ art'.f9_degraded = art.f9_degraded
       /\ art'.chain = art.chain /\ art'.chain_verified = art.chain_verified
       /\ art'.tamper_detected = art.tamper_detected
  BY <1>8 DEF Keeps, Fields, FieldStage
<1>13. ResultsOf(art') = ResultsOf(art)
  BY <1>12, ResultsSame
<1>14. ProductInv(art', request', 9)
  BY <1>8, <1>11, <1>13 DEF ProductInv
<1>15. QED
  BY <1>4, <1>10, <1>14 DEF PipelineInv

LEMMA StutterKeeps == PipelineInv /\ UNCHANGED vars => PipelineInv'
BY DEF PipelineInv, ProgressInv, ProductInv, Done, vars

LEMMA PipelineInit == Init => PipelineInv
<1> SUFFICES ASSUME Init PROVE PipelineInv
  OBVIOUS
<1>1. PICK in \in Inputs :
        /\ request = [generator |-> in.generator, mapper |-> in.mapper]
        /\ art = [bundle |-> in.bundle]
  BY DEF Init
<1>2. Generated(in.bundle) /\ in.generator \in {"stub", "ollama"} /\ in.mapper \in {"full", "degraded"}
  BY PipelineAssumption
<1>3. stages = <<>> /\ events = <<>> /\ status = "running" /\ Done = 0
  BY DEF Init, Done
<1>4. DOMAIN art = Fields(Done)
  BY <1>1, <1>3, FieldsAt
<1>5. ~Ended(events)
  BY <1>3 DEF Ended
<1>6. ProgressInv
  BY <1>1, <1>2, <1>3, <1>4, <1>5 DEF ProgressInv
<1>7. IsBundle(art.bundle)
  BY <1>1, <1>2, GeneratedIsBundle
<1>8. ProductInv(art, request, Done)
  BY <1>3, <1>7 DEF ProductInv
<1>9. QED
  BY <1>6, <1>8 DEF PipelineInv

(* Whatever the libraries and the model answer, a run is at the stage its  *)
(* fields say, and each field holds what its stage computes.               *)
THEOREM PipelineIsInductive == Spec => []PipelineInv
<1>1. PipelineInv /\ [Next]_vars => PipelineInv'
  BY IngestKeeps, ResolutionKeeps, LinkKeeps, MoneyKeeps, TriageKeeps, LegalKeeps, GateKeeps,
     PacketKeeps, RaiseKeeps, SignoffKeeps, StutterKeeps DEF Next
<1>2. QED
  BY PipelineInit, <1>1, PTL DEF Spec

-----------------------------------------------------------------------------
(* THE NETWORKS *)
(* A complaint is found by its number.                                     *)
IsIndexed(b) ==
  /\ Ids(b) = 0 .. Len(b.complaints) - 1 /\ IsFiniteSet(Ids(b)) /\ Ids(b) \subseteq Nat
  /\ Len(b.complaints) \in Nat /\ Cardinality(Ids(b)) = Len(b.complaints)
  /\ \A id \in Ids(b) :
       /\ id + 1 \in DOMAIN b.complaints
       /\ Complaint(b, id) = b.complaints[id + 1] /\ Complaint(b, id).id = id
       /\ Complaint(b, id) \in Complaints(b) /\ IsComplaint(b, Complaint(b, id))
  /\ \A c \in Complaints(b) : c.id \in Ids(b) /\ Complaint(b, c.id) = c
LEMMA BundleIndexed == \A b : IsBundle(b) => IsIndexed(b)
<1> SUFFICES ASSUME NEW b, IsBundle(b) PROVE IsIndexed(b)
  OBVIOUS
<1> DEFINE n == Len(b.complaints)
<1>1. n \in Nat /\ DOMAIN b.complaints = 1..n
  BY DEF IsBundle
<1>2. \A i \in 1..n : b.complaints[i].id = i - 1 /\ IsComplaint(b, b.complaints[i])
  BY <1>1 DEF IsBundle
<1> HIDE DEF n
<1>3. Ids(b) = 0 .. n - 1
  <2>1. ASSUME NEW id \in Ids(b) PROVE id \in 0 .. n - 1
    <3>1. PICK c \in Complaints(b) : c.id = id
      BY DEF Ids
    <3>2. PICK i \in 1..n : c = b.complaints[i]
      BY <1>1, <3>1 DEF Complaints
    <3>3. QED
      BY <1>1, <1>2, <3>1, <3>2
  <2>2. ASSUME NEW id \in 0 .. n - 1 PROVE id \in Ids(b)
    <3>1. id + 1 \in 1..n /\ id = (id + 1) - 1
      BY <1>1
    <3>2. b.complaints[id + 1].id = id /\ b.complaints[id + 1] \in Complaints(b)
      BY <1>1, <1>2, <3>1 DEF Complaints
    <3>3. QED
      BY <3>2 DEF Ids
  <2>3. QED
    BY <2>1, <2>2
<1>4. IsFiniteSet(0 .. n - 1) /\ Cardinality(0 .. n - 1) = n
  <2>1. n - 1 \in Int /\ 0 \in Int
    BY <1>1
  <2>2. /\ IsFiniteSet(0 .. n - 1)
        /\ Cardinality(0 .. n - 1) = IF 0 > n - 1 THEN 0 ELSE (n - 1) - 0 + 1
    BY <2>1, FS_Interval
  <2>3. QED
    BY <1>1, <2>2
<1>5. \A c, d \in Complaints(b) : c.id = d.id => c = d
  BY <1>1, <1>2 DEF Complaints
<1>6. ASSUME NEW id \in Ids(b)
      PROVE  /\ id + 1 \in DOMAIN b.complaints
             /\ Complaint(b, id) = b.complaints[id + 1] /\ Complaint(b, id).id = id
             /\ Complaint(b, id) \in Complaints(b) /\ IsComplaint(b, Complaint(b, id))
  <2>1. id + 1 \in 1..n /\ id = (id + 1) - 1
    BY <1>1, <1>3
  <2>2. b.complaints[id + 1].id = id /\ b.complaints[id + 1] \in Complaints(b)
        /\ IsComplaint(b, b.complaints[id + 1])
    BY <1>1, <1>2, <2>1 DEF Complaints
  <2>3. Complaint(b, id) = b.complaints[id + 1]
    BY <1>5, <2>2 DEF Complaint
  <2>4. QED
    BY <1>1, <2>1, <2>2, <2>3
<1>7. ASSUME NEW c \in Complaints(b) PROVE c.id \in Ids(b) /\ Complaint(b, c.id) = c
  <2>1. c.id \in Ids(b)
    BY DEF Ids
  <2>2. Complaint(b, c.id).id = c.id /\ Complaint(b, c.id) \in Complaints(b)
    BY <1>6, <2>1
  <2>3. QED
    BY <1>5, <2>1, <2>2
<1>8. 0 .. n - 1 \subseteq Nat
  BY <1>1
<1>9. QED
  BY <1>1, <1>3, <1>4, <1>6, <1>7, <1>8 DEF IsIndexed, n

(* Noise shares no identifier with any other complaint.                    *)
LEMMA NoiseAlone ==
  ASSUME NEW b, IsBundle(b), NEW i \in Ids(b), NEW j \in Ids(b), Linked(b, i, j)
  PROVE  IsFraud(b, Complaint(b, i)) /\ IsFraud(b, Complaint(b, j))
<1>1. /\ IsComplaint(b, Complaint(b, i)) /\ IsComplaint(b, Complaint(b, j))
      /\ Complaint(b, i).id = i /\ Complaint(b, j).id = j
  BY BundleIndexed DEF IsIndexed
<1>2. PICK x : x \in Complaint(b, i).ids /\ x \in Complaint(b, j).ids
  BY DEF Linked
<1>3. i # j
  BY DEF Linked
<1>4. ASSUME NEW c, IsNoise(c), x \in c.ids PROVE x = Solo(c.id) /\ x[1] = "SOLO"
  BY <1>4 DEF IsNoise, Solo
<1>5. \A k, l : Solo(k) = Solo(l) => k = l
  BY DEF Solo
<1>6. ASSUME NEW c, IsFraud(b, c), x \in c.ids PROVE x[1] # "SOLO"
  BY <1>6 DEF IsFraud
<1>7. QED
  BY <1>1, <1>2, <1>3, <1>4, <1>5, <1>6 DEF IsComplaint

(* A network as the stage finds it: at least two complaints, all of them   *)
(* of syndicates, and the larger networks first.                           *)
IsNetwork(b, com) ==
  /\ com \subseteq Ids(b) /\ IsFiniteSet(com)
  /\ Cardinality(com) \in Nat /\ Cardinality(com) >= 2
  /\ \A id \in com : IsFraud(b, Complaint(b, id))
IsNetworks(b, networks) ==
  /\ Len(networks) \in Nat /\ DOMAIN networks = 1 .. Len(networks)
  /\ \A i \in DOMAIN networks : IsNetwork(b, networks[i])
LEMMA ConnectedFraud ==
  ASSUME NEW b, IsBundle(b), NEW com \in SUBSET Ids(b), Connected(b, com),
         Cardinality(com) >= MinCommunitySize
  PROVE  IsNetwork(b, com)
<1>1. IsFiniteSet(com) /\ Cardinality(com) \in Nat
  BY BundleIndexed, FS_Subset, FS_CardinalityType DEF IsIndexed
<1>2. Cardinality(com) >= 2
  BY <1>1, LinkageAssumption
<1>3. ASSUME NEW id \in com PROVE IsFraud(b, Complaint(b, id))
  <2>1. Cardinality({id}) = 1
    BY FS_Singleton
  <2>2. {id} \in (SUBSET com) \ {{}, com}
    <3>1. {id} # com
      BY <1>2, <2>1
    <3>2. {id} # {} /\ {id} \in SUBSET com
      OBVIOUS
    <3>3. {id} \notin {{}, com}
      BY <3>1, <3>2, Zenon
    <3>4. QED
      BY <3>2, <3>3, Zenon
  <2>3. PICK i \in {id}, j \in com \ {id} : Linked(b, i, j)
    BY <2>2 DEF Connected
  <2>4. id \in Ids(b) /\ j \in Ids(b) /\ Linked(b, id, j)
    BY <2>3
  <2>5. QED
    BY <2>4, NoiseAlone
<1>4. QED
  BY <1>1, <1>2, <1>3 DEF IsNetwork

(* A partition of finitely many complaints has finitely many blocks.       *)
LEMMA PartitionIs ==
  ASSUME NEW b, IsBundle(b), NEW p \in Communities(b)
  PROVE  /\ IsFiniteSet(p) /\ p \subseteq SUBSET Ids(b)
         /\ \A com \in p : Connected(b, com)
<1>1. p \in Partitions(Ids(b)) /\ \A com \in p : Connected(b, com)
  BY DEF Communities
<1>2. IsFiniteSet(Ids(b))
  BY BundleIndexed DEF IsIndexed
<1> DEFINE S == Ids(b)
<1>3. PICK f \in [S -> S] : p = {{j \in S : f[j] = f[i]} : i \in S}
  BY <1>1 DEF Partitions
<1> DEFINE block == [i \in S |-> {j \in S : f[j] = f[i]}]
<1>4. p = {block[i] : i \in S}
  BY <1>3
<1>5. block \in Surjection(S, p)
  BY <1>4 DEF Surjection
<1>6. IsFiniteSet(p)
  BY <1>2, <1>5, FS_Surjection
<1>7. p \subseteq SUBSET S
  BY <1>3
<1>8. QED
  BY <1>1, <1>6, <1>7

LEMMA NetworksAre ==
  ASSUME NEW b, IsBundle(b), NEW p \in Communities(b), NEW networks \in NetworksOf(p)
  PROVE  IsNetworks(b, networks)
<1> DEFINE S == {com \in p : Cardinality(com) >= MinCommunitySize}
<1>1. IsFiniteSet(S) /\ Cardinality(S) \in Nat
  BY PartitionIs, FS_Subset, FS_CardinalityType
<1>2. networks \in [1..Cardinality(S) -> S]
  BY DEF NetworksOf, SetToSeqs
<1>3. \A com \in S : IsNetwork(b, com)
  BY PartitionIs, ConnectedFraud
<1> HIDE DEF S
<1>4. Len(networks) = Cardinality(S) /\ DOMAIN networks = 1..Cardinality(S)
  BY <1>1, <1>2
<1>5. QED
  BY <1>1, <1>2, <1>3, <1>4 DEF IsNetworks

LEMMA NetworkSeq ==
  ASSUME NEW b, IsBundle(b), NEW p \in Communities(b), NEW networks \in NetworksOf(p)
  PROVE  networks \in Seq(Range(networks))
<1> DEFINE S == {com \in p : Cardinality(com) >= MinCommunitySize}
<1>1. Cardinality(S) \in Nat
  BY PartitionIs, FS_Subset, FS_CardinalityType
<1>2. networks \in [1..Cardinality(S) -> S]
  BY DEF NetworksOf, SetToSeqs
<1> HIDE DEF S
<1>3. networks \in [1..Cardinality(S) -> Range(networks)]
  BY <1>2 DEF Range
<1>4. QED
  BY <1>1, <1>3

(* The majority of a network exists and is one of its members' syndicates. *)
Seen(b, com) == {Truth(b)[i] : i \in com} \cap Nat
IsMajority(b, com, s) ==
  /\ s \in Syndicates /\ s \in Seen(b, com)
  /\ \A t \in Seen(b, com) :
       Votes(b, com, s) > Votes(b, com, t) \/ (Votes(b, com, s) = Votes(b, com, t) /\ s <= t)
LEMMA VotesAreCounts ==
  ASSUME NEW com, IsFiniteSet(com), NEW b, NEW s
  PROVE  Votes(b, com, s) \in Nat
<1>1. {i \in com : Truth(b)[i] = s} \in SUBSET com
  OBVIOUS
<1>2. QED
  BY <1>1, FS_Subset, FS_CardinalityType DEF Votes

LEMMA MajorityIs ==
  ASSUME NEW b, IsBundle(b), NEW com, IsNetwork(b, com)
  PROVE  IsMajority(b, com, MajoritySyndicate(b, com))
<1>1. IsIndexed(b)
  BY BundleIndexed
<1>2. \A id \in com : id \in Ids(b) /\ Truth(b)[id] = Complaint(b, id).synd
                      /\ Truth(b)[id] \in Syndicates
  BY DEF IsNetwork, IsFraud, Truth
<1>3. Syndicates \subseteq Nat /\ IsFiniteSet(Syndicates)
  BY SyntheticAssumption, FS_Interval DEF Syndicates
<1>4. Seen(b, com) \subseteq Syndicates /\ Seen(b, com) # {}
  <2>1. Seen(b, com) \subseteq Syndicates
    BY <1>2 DEF Seen
  <2>2. com # {}
    BY FS_EmptySet DEF IsNetwork
  <2>3. QED
    BY <1>2, <1>3, <2>1, <2>2 DEF Seen
<1>5. IsFiniteSet(Seen(b, com)) /\ Seen(b, com) \subseteq Int
  <2>1. Seen(b, com) \in SUBSET Syndicates
    BY <1>4
  <2>2. IsFiniteSet(Seen(b, com))
    BY <1>3, <2>1, FS_Subset
  <2>3. Seen(b, com) \subseteq Int
    BY DEF Seen
  <2>4. QED
    BY <2>2, <2>3
<1> DEFINE v == [s \in Seen(b, com) |-> Votes(b, com, s)]
<1>6. \A s \in Seen(b, com) : v[s] \in Int /\ v[s] = Votes(b, com, s)
  BY VotesAreCounts DEF IsNetwork
<1> HIDE DEF v
<1>7. \E s \in Seen(b, com) : \A t \in Seen(b, com) : v[s] > v[t] \/ (v[s] = v[t] /\ s <= t)
  BY <1>4, <1>5, <1>6, BestExists
<1>8. \E s \in Seen(b, com) : \A t \in Seen(b, com) :
        Votes(b, com, s) > Votes(b, com, t) \/ (Votes(b, com, s) = Votes(b, com, t) /\ s <= t)
  BY <1>6, <1>7
<1>9. MajoritySyndicate(b, com) =
        CHOOSE s \in Seen(b, com) : \A t \in Seen(b, com) :
          Votes(b, com, s) > Votes(b, com, t) \/ (Votes(b, com, s) = Votes(b, com, t) /\ s <= t)
  BY <1>4 DEF MajoritySyndicate, Seen
<1>10. QED
  BY <1>4, <1>8, <1>9 DEF IsMajority

LEMMA LargestIs ==
  ASSUME NEW b, NEW networks, IsNetworks(b, networks), networks # <<>>
  PROVE  \E i \in DOMAIN networks :
           /\ Largest(networks) = networks[i] /\ IsNetwork(b, Largest(networks))
           /\ \A j \in DOMAIN networks : Cardinality(networks[j]) <= Cardinality(networks[i])
<1> DEFINE D == DOMAIN networks
           v == [i \in D |-> Cardinality(networks[i])]
<1>1. D = 1 .. Len(networks) /\ Len(networks) \in Nat
  BY DEF IsNetworks
<1>2. D # {}
  BY <1>1
<1>3. IsFiniteSet(D) /\ D \subseteq Int
  BY <1>1, FS_Interval
<1>4. \A i \in D : v[i] \in Int /\ v[i] = Cardinality(networks[i])
  BY DEF IsNetworks, IsNetwork
<1> HIDE DEF v
<1>5. \E i \in D : \A j \in D : v[i] > v[j] \/ (v[i] = v[j] /\ i <= j)
  BY <1>2, <1>3, <1>4, BestExists
<1>6. \E i \in D : \A j \in D :
         Cardinality(networks[j]) < Cardinality(networks[i])
         \/ (Cardinality(networks[j]) = Cardinality(networks[i]) /\ i <= j)
  BY <1>4, <1>5
<1> DEFINE i == CHOOSE x \in D : \A j \in D :
                  Cardinality(networks[j]) < Cardinality(networks[x])
                  \/ (Cardinality(networks[j]) = Cardinality(networks[x]) /\ x <= j)
<1>7. i \in D /\ \A j \in D :
         Cardinality(networks[j]) < Cardinality(networks[i])
         \/ (Cardinality(networks[j]) = Cardinality(networks[i]) /\ i <= j)
  BY <1>6
<1>8. Largest(networks) = networks[i]
  BY DEF Largest
<1> HIDE DEF i
<1>9. \A j \in D : Cardinality(networks[j]) <= Cardinality(networks[i])
  BY <1>4, <1>7
<1>10. QED
  BY <1>7, <1>8, <1>9 DEF IsNetworks

-----------------------------------------------------------------------------
(* THE ORDER OF SECTIONS *)
LEMMA CorpusIs ==
  /\ IsFiniteSet(Range(CorpusV2)) /\ Len(CorpusV2) \in Nat /\ DOMAIN CorpusV2 = 1 .. Len(CorpusV2)
  /\ \A i, j \in DOMAIN CorpusV2 : CorpusV2[i] = CorpusV2[j] => i = j
<1>1. /\ Len(CorpusV2) \in Nat /\ DOMAIN CorpusV2 = 1 .. Len(CorpusV2)
      /\ CorpusV2 \in [1 .. Len(CorpusV2) -> Range(CorpusV2)]
      /\ \A i, j \in DOMAIN CorpusV2 : CorpusV2[i] = CorpusV2[j] => i = j
  BY LegalAssumption DEF IsInjective
<1>2. CorpusV2 \in Surjection(1 .. Len(CorpusV2), Range(CorpusV2))
  BY <1>1 DEF Surjection, Range
<1>3. IsFiniteSet(1 .. Len(CorpusV2))
  BY <1>1, FS_Interval
<1>4. QED
  BY <1>1, <1>2, <1>3, FS_Surjection

LEMMA KeysOrdered ==
  ASSUME NEW x \in Range(CorpusV2), NEW y \in Range(CorpusV2), NEW z \in Range(CorpusV2)
  PROVE  /\ ~KeyAfter(x, x)
         /\ KeyAfter(x, y) /\ KeyAfter(y, z) => KeyAfter(x, z)
         /\ x = y \/ KeyAfter(x, y) \/ KeyAfter(y, x)
<1>1. PICK i \in DOMAIN CorpusV2, j \in DOMAIN CorpusV2, k \in DOMAIN CorpusV2 :
        CorpusV2[i] = x /\ CorpusV2[j] = y /\ CorpusV2[k] = z
  BY DEF Range
<1>2. i \in Int /\ j \in Int /\ k \in Int
  BY CorpusIs
<1>3. KeyAfter(x, x) <=> i > i
  BY <1>1, CorpusIs DEF KeyAfter
<1>4. KeyAfter(x, y) <=> i > j
  BY <1>1, CorpusIs DEF KeyAfter
<1>5. KeyAfter(y, z) <=> j > k
  BY <1>1, CorpusIs DEF KeyAfter
<1>6. KeyAfter(x, z) <=> i > k
  BY <1>1, CorpusIs DEF KeyAfter
<1>7. KeyAfter(y, x) <=> j > i
  BY <1>1, CorpusIs DEF KeyAfter
<1>8. QED
  BY <1>1, <1>2, <1>3, <1>4, <1>5, <1>6, <1>7

(* Best score first, ties by the key, one way or the other.                *)
ByScore(S, v) ==
  {p \in S \X S : v[p[1]] > v[p[2]] \/ (v[p[1]] = v[p[2]] /\ KeyAfter(p[1], p[2]))}
ByCount(S, v) ==
  {p \in S \X S : v[p[1]] > v[p[2]] \/ (v[p[1]] = v[p[2]] /\ KeyAfter(p[2], p[1]))}
LEMMA ScoreOrder ==
  ASSUME NEW S \in SUBSET Range(CorpusV2), NEW v, \A x \in S : v[x] \in Int
  PROVE  StrictOrder(S, ByScore(S, v)) /\ StrictOrder(S, ByCount(S, v))
<1>1. ASSUME NEW x \in S, NEW y \in S
      PROVE  /\ <<x, y>> \in ByScore(S, v) <=> v[x] > v[y] \/ (v[x] = v[y] /\ KeyAfter(x, y))
             /\ <<x, y>> \in ByCount(S, v) <=> v[x] > v[y] \/ (v[x] = v[y] /\ KeyAfter(y, x))
  BY DEF ByScore, ByCount
<1>2. ASSUME NEW x \in S, NEW y \in S, NEW z \in S
      PROVE  /\ <<x, x>> \notin ByScore(S, v) /\ <<x, x>> \notin ByCount(S, v)
             /\ x = y \/ <<x, y>> \in ByScore(S, v) \/ <<y, x>> \in ByScore(S, v)
             /\ x = y \/ <<x, y>> \in ByCount(S, v) \/ <<y, x>> \in ByCount(S, v)
             /\ <<x, y>> \in ByScore(S, v) /\ <<y, z>> \in ByScore(S, v) => <<x, z>> \in ByScore(S, v)
             /\ <<x, y>> \in ByCount(S, v) /\ <<y, z>> \in ByCount(S, v) => <<x, z>> \in ByCount(S, v)
  <2>1. v[x] \in Int /\ v[y] \in Int /\ v[z] \in Int
    OBVIOUS
  <2>2. ~KeyAfter(x, x) /\ (x = y \/ KeyAfter(x, y) \/ KeyAfter(y, x))
    BY KeysOrdered
  <2>3. KeyAfter(x, y) /\ KeyAfter(y, z) => KeyAfter(x, z)
    BY KeysOrdered
  <2>4. KeyAfter(z, y) /\ KeyAfter(y, x) => KeyAfter(z, x)
    BY KeysOrdered
  <2>5. <<x, x>> \notin ByScore(S, v) /\ <<x, x>> \notin ByCount(S, v)
    BY <1>1, <2>1, <2>2
  <2>6. /\ x = y \/ <<x, y>> \in ByScore(S, v) \/ <<y, x>> \in ByScore(S, v)
        /\ x = y \/ <<x, y>> \in ByCount(S, v) \/ <<y, x>> \in ByCount(S, v)
    BY <1>1, <2>1, <2>2
  <2>7. <<x, y>> \in ByScore(S, v) /\ <<y, z>> \in ByScore(S, v) => <<x, z>> \in ByScore(S, v)
    BY <1>1, <2>1, <2>3
  <2>8. <<x, y>> \in ByCount(S, v) /\ <<y, z>> \in ByCount(S, v) => <<x, z>> \in ByCount(S, v)
    BY <1>1, <2>1, <2>4
  <2>9. QED
    BY <2>5, <2>6, <2>7, <2>8
<1>3. QED
  BY <1>2 DEF StrictOrder

(* The sections of a packet are those some member was mapped to.           *)
LEMMA SectionsAre ==
  ASSUME NEW mappings, NEW n \in Nat, DOMAIN mappings = 1..n, NEW com
  PROVE  LET sections == PacketSections(mappings, com) IN
         /\ \E k \in Nat : DOMAIN sections = 1..k
         /\ \A i \in DOMAIN sections :
              /\ sections[i] \in Range(CorpusV2)
              /\ SectionCount(mappings, com, sections[i]) > 0
<1> DEFINE v == [sec \in Range(CorpusV2) |-> SectionCount(mappings, com, sec)]
           S == {sec \in Range(CorpusV2) : SectionCount(mappings, com, sec) > 0}
           L == Listed(S, ByCount(S, v))
<1>1. IsFiniteSet(S) /\ S \in SUBSET Range(CorpusV2)
  BY CorpusIs, FS_Subset
<1>2. ASSUME NEW sec PROVE SectionCount(mappings, com, sec) \in Nat
  <2>1. IsFiniteSet(1..n)
    BY FS_Interval
  <2>2. {i \in DOMAIN mappings :
           mappings[i].complaint_id \in com /\ sec \in Range(mappings[i].sections)} \in SUBSET (1..n)
    OBVIOUS
  <2>3. QED
    BY <2>1, <2>2, FS_Subset, FS_CardinalityType DEF SectionCount
<1>3. \A sec \in S : v[sec] \in Int /\ v[sec] = SectionCount(mappings, com, sec)
  BY <1>2
<1>4. PacketSections(mappings, com) = L
  <2>1. {p \in S \X S :
           \/ SectionCount(mappings, com, p[1]) > SectionCount(mappings, com, p[2])
           \/ (SectionCount(mappings, com, p[1]) = SectionCount(mappings, com, p[2])
               /\ KeyAfter(p[2], p[1]))} = ByCount(S, v)
    BY <1>3 DEF ByCount
  <2>2. QED
    BY <2>1 DEF PacketSections, InOrder
<1> HIDE DEF S, v
<1>5. StrictOrder(S, ByCount(S, v))
  BY <1>1, <1>3, ScoreOrder
<1>6. IsListing(L, S, ByCount(S, v))
  BY <1>1, <1>5, ListedFacts
<1> HIDE DEF L
<1>7. Cardinality(S) \in Nat /\ L \in [1..Cardinality(S) -> S]
  BY <1>6 DEF IsListing
<1>8. \A sec \in S : sec \in Range(CorpusV2) /\ SectionCount(mappings, com, sec) > 0
  BY DEF S
<1>9. QED
  BY <1>4, <1>7, <1>8

(* A packet fails only for the want of a network.                          *)
LEMMA PacketFails ==
  ASSUME NEW a, NEW req, ProductInv(a, req, 7), PacketError(a) # "none"
  PROVE  a.networks = <<>> /\ PacketError(a) = "no network found" /\ a.metrics.networks_found = 0
<1>1. IsBundle(a.bundle) /\ LinkedInv(a) /\ MappedInv(a, req.mapper)
  BY DEF ProductInv
<1>2. IsNetworks(a.bundle, a.networks)
  BY <1>1, NetworksAre DEF LinkedInv
<1>3. CASE a.networks = <<>>
  BY <1>1, <1>3 DEF PacketError, LinkedInv, LinkMetrics
<1>4. CASE a.networks # <<>>
  <2> DEFINE com == Largest(a.networks)
             synd == MajoritySyndicate(a.bundle, com)
  <2>1. IsNetwork(a.bundle, com)
    BY <1>2, <1>4, LargestIs
  <2>2. IsMajority(a.bundle, com, synd)
    BY <1>1, <2>1, MajorityIs
  <2>3. synd # None
    BY <2>2, SyntheticAssumption DEF IsMajority, Syndicates, None
  <2> DEFINE c == LargestCase(a)
  <2>4. /\ REQUIRED_KEYS \subseteq DOMAIN c
        /\ c.sections = PacketSections(a.mappings, com)
        /\ DOMAIN c.corpus_v2 = Range(CorpusV2)
    BY DEF REQUIRED_KEYS, LargestCase, CaseContext
  <2>5. Len(a.bundle.complaints) \in Nat /\ DOMAIN a.mappings = 1 .. Len(a.bundle.complaints)
    BY <1>1 DEF IsBundle, MappedInv
  <2>6. \A i \in DOMAIN c.sections : c.sections[i] \in DOMAIN c.corpus_v2
    BY <2>4, <2>5, SectionsAre
  <2>7. CanAssemble(LargestCase(a))
    BY <2>4, <2>6 DEF CanAssemble, CanQuote
  <2>8. PacketError(a) = "none"
    BY <1>4, <2>3, <2>7 DEF PacketError
  <2>9. QED
    BY <2>8
<1>5. QED
  BY <1>3, <1>4

-----------------------------------------------------------------------------
(* WHAT A RUN SHOWS *)
LEMMA ProductDown ==
  ASSUME NEW a, NEW req, NEW n \in 0..9, NEW m \in 0..n, ProductInv(a, req, n)
  PROVE  ProductInv(a, req, m)
BY DEF ProductInv

LEMMA FieldsDone ==
  ASSUME PipelineInv
  PROVE  /\ Done \in 0..9
         /\ \A f \in DOMAIN FieldStage : f \in DOMAIN art <=> FieldStage[f] <= Done
BY DEF PipelineInv, ProgressInv, Fields

(* A run fails for one reason only, the want of a network, and announces   *)
(* run.completed exactly when it has a packet (pipeline.py, packet stage). *)
THEOREM RunsFailOnlyEmpty == Spec => []OnlyEmptyRunsFail
<1>1. ASSUME PipelineInv PROVE OnlyEmptyRunsFail
  <2>1. /\ Ended(events) <=> Done = 9
        /\ status \notin {"running", "completed"} =>
             Done = 7 /\ PacketError(art) # "none" /\ status = PacketError(art)
        /\ ProductInv(art, request, Done)
    BY <1>1 DEF PipelineInv, ProgressInv
  <2>2. /\ Done \in 0..9
        /\ "results" \in DOMAIN art <=> Done >= 9
        /\ "packet" \in DOMAIN art <=> Done >= 8
    BY <1>1, FieldsDone DEF FieldStage
  <2>3. status \notin {"running", "completed"} =>
          status = "no network found" /\ art.metrics.networks_found = 0
    BY <2>1, PacketFails
  <2>4. ASSUME Done >= 9 PROVE art.metrics.networks_found > 0
    <3>1. IsBundle(art.bundle) /\ LinkedInv(art) /\ PacketError(art) = "none"
      BY <2>1, <2>2, <2>4 DEF ProductInv, PacketInv
    <3>2. IsNetworks(art.bundle, art.networks)
      BY <3>1, NetworksAre DEF LinkedInv
    <3>3. art.networks # <<>>
      BY <3>1 DEF PacketError
    <3>4. art.networks \in Seq(Range(art.networks)) /\ art.metrics.networks_found = Len(art.networks)
      BY <3>1, <3>2, NetworkSeq DEF LinkedInv, LinkMetrics
    <3>5. QED
      BY <3>3, <3>4
  <2>5. (\E i \in DOMAIN events : events[i].event = "run.completed") <=> Done = 9
    BY <2>1 DEF Ended
  <2>6. (Done = 9 <=> Done >= 9) /\ (Done >= 9 => Done >= 8)
    BY <2>2
  <2>7. (\E i \in DOMAIN events : events[i].event = "run.completed") <=> "results" \in DOMAIN art
    BY <2>2, <2>5, <2>6
  <2>8. "results" \in DOMAIN art => "packet" \in DOMAIN art /\ art.metrics.networks_found > 0
    BY <2>2, <2>4, <2>6
  <2>9. QED
    BY <2>3, <2>7, <2>8 DEF OnlyEmptyRunsFail
<1>2. QED
  BY PipelineIsInductive, <1>1, PTL

-----------------------------------------------------------------------------
(* WHAT IS PERSISTED AND SERVED *)
(* The vote persist_run counts over the complaints is the one the network  *)
(* endpoint counts over the members.                                       *)
Voters(b, com) == {c.synd : c \in {d \in Complaints(b) : d.id \in com /\ d.synd >= 0}}
Ballots(b, com, s) == {c \in Complaints(b) : c.id \in com /\ c.synd = s}
LEMMA VotersAre ==
  ASSUME NEW b, IsBundle(b), NEW com, IsNetwork(b, com)
  PROVE  Voters(b, com) = Seen(b, com)
<1>1. IsIndexed(b)
  BY BundleIndexed
<1>2. ASSUME NEW s \in Voters(b, com) PROVE s \in Seen(b, com)
  <2>1. PICK c \in Complaints(b) : c.id \in com /\ c.synd >= 0 /\ s = c.synd
    BY DEF Voters
  <2>2. c.id \in Ids(b) /\ Complaint(b, c.id) = c
    BY <1>1, <2>1 DEF IsIndexed
  <2>3. Truth(b)[c.id] = s
    BY <2>1, <2>2 DEF Truth
  <2>4. IsFraud(b, c)
    BY <2>1, <2>2 DEF IsNetwork
  <2>5. s \in Nat
    BY <2>1, <2>4, SyntheticAssumption DEF IsFraud, Syndicates
  <2>6. QED
    BY <2>1, <2>3, <2>5 DEF Seen
<1>3. ASSUME NEW s \in Seen(b, com) PROVE s \in Voters(b, com)
  <2>1. PICK id \in com : s = Truth(b)[id]
    BY DEF Seen
  <2>2. s \in Nat /\ id \in Ids(b)
    BY DEF Seen, IsNetwork
  <2>3. s = Complaint(b, id).synd /\ Complaint(b, id) \in Complaints(b) /\ Complaint(b, id).id = id
    BY <1>1, <2>1, <2>2 DEF Truth, IsIndexed
  <2>4. s >= 0
    BY <2>2
  <2>5. QED
    BY <2>3, <2>4 DEF Voters
<1>4. QED
  BY <1>2, <1>3

LEMMA BallotsAre ==
  ASSUME NEW b, IsBundle(b), NEW com, IsNetwork(b, com), NEW s
  PROVE  Cardinality(Ballots(b, com, s)) = Votes(b, com, s)
<1>1. IsIndexed(b)
  BY BundleIndexed
<1> DEFINE I == {i \in com : Truth(b)[i] = s}
           f == [i \in I |-> Complaint(b, i)]
<1>2. IsFiniteSet(I)
  BY FS_Subset DEF IsNetwork
<1>3. \A i \in I : /\ f[i] = Complaint(b, i) /\ f[i] \in Complaints(b) /\ f[i].id = i
                   /\ f[i].synd = s /\ i \in com
  BY <1>1 DEF IsIndexed, IsNetwork, Truth
<1>4. \A c \in Ballots(b, com, s) : c.id \in I /\ f[c.id] = c
  BY <1>1 DEF IsIndexed, Ballots, Truth
<1> HIDE DEF I, f
<1>5. {f[i] : i \in I} = Ballots(b, com, s)
  <2>1. \A i \in I : f[i] \in Ballots(b, com, s)
    BY <1>3 DEF Ballots
  <2>2. QED
    BY <1>4, <2>1
<1>6. Cardinality(Ballots(b, com, s)) = Cardinality(I)
  BY <1>2, <1>3, <1>5, CardImage
<1>7. QED
  BY <1>6 DEF Votes, I

LEMMA RowIs ==
  ASSUME NEW a, NEW idx \in DOMAIN a.networks, IsBundle(a.bundle), IsNetwork(a.bundle, a.networks[idx])
  PROVE  NetworkRow(a, idx) =
           LET com == a.networks[idx]
               synd == MajoritySyndicate(a.bundle, com)
           IN [idx |-> idx, size |-> Cardinality(com), members |-> com,
               triage |-> RowOf(a.triage, synd), trail |-> RowOf(a.trails, synd)]
<1> DEFINE b == a.bundle
           com == a.networks[idx]
           m == MajoritySyndicate(b, com)
           best == {s \in Voters(b, com) : \A t \in Voters(b, com) :
                      Cardinality(Ballots(b, com, s)) >= Cardinality(Ballots(b, com, t))}
<1>1. IsMajority(b, com, m)
  BY MajorityIs
<1>2. best = {s \in Seen(b, com) : \A t \in Seen(b, com) : Votes(b, com, s) >= Votes(b, com, t)}
  BY VotersAre, BallotsAre
<1>3. \A s : Votes(b, com, s) \in Nat
  BY VotesAreCounts DEF IsNetwork
<1>4. Seen(b, com) \subseteq Nat
  BY DEF Seen
<1> HIDE DEF m, best
<1>5. m \in best
  BY <1>1, <1>2, <1>3 DEF IsMajority
<1>6. \A s \in best : m <= s /\ s \in Nat
  BY <1>1, <1>2, <1>3, <1>4 DEF IsMajority
<1>7. Min(best) = m
  BY <1>5, <1>6 DEF Min
<1>8. (IF best = {} THEN None ELSE Min(best)) = m
  BY <1>5, <1>7
<1> HIDE DEF com, b
<1>9. NetworkRow(a, idx) =
        LET synd == IF best = {} THEN None ELSE Min(best)
        IN [idx |-> idx, size |-> Cardinality(com), members |-> com,
            triage |-> RowOf(a.triage, synd), trail |-> RowOf(a.trails, synd)]
  BY DEF NetworkRow, best, Voters, Ballots, com, b
<1>10. QED
  BY <1>8, <1>9 DEF m, com, b

LEMMA RowFound ==
  ASSUME NEW rows, NEW synd, \E r \in Range(rows) : r.syndicate = synd,
         \A r \in Range(rows) : "syndicate" \in DOMAIN r
  PROVE  RowOf(rows, synd) # NoRow
<1>1. RowOf(rows, synd) \in Range(rows)
  BY DEF RowOf
<1>2. DOMAIN NoRow = {"none"}
  BY DEF NoRow
<1>3. QED
  BY <1>1, <1>2

LEMMA TrailIs ==
  ASSUME NEW b, NEW s
  PROVE  NetworkTrail(b, s).syndicate = s /\ "syndicate" \in DOMAIN NetworkTrail(b, s)
BY DEF NetworkTrail
LEMMA TrailSums ==
  ASSUME NEW b, NEW s
  PROVE  /\ NetworkTrail(b, s).total_amt = Value(FiledOf(b, s))
         /\ NetworkTrail(b, s).traced_amt = Value({c \in FiledOf(b, s) : Reachable(b, c)})
BY DEF NetworkTrail

LEMMA RoundedInt == \A n \in Int, d \in Nat \ {0} : Rounded(n, d) \in Int
BY DEF Rounded
LEMMA TermInt == \A n \in Int, d \in Nat : Term(n, d) \in Int
BY RoundedInt DEF Term

(* The complaints of a bundle, as the trails see them.                     *)
LEMMA FiledIs ==
  ASSUME NEW b, IsBundle(b)
  PROVE  /\ Filed(b) = Complaints(b) /\ IsFiniteSet(Filed(b))
         /\ \A c \in Filed(b) : c.amt \in Nat /\ c.amt > 0 /\ c.id \in Nat
         /\ \A c, d \in Filed(b) : c.id = d.id => c = d
<1>1. IsIndexed(b)
  BY BundleIndexed
<1>2. Filed(b) = Complaints(b)
  BY DEF Filed, Complaints
<1>3. \A c \in Complaints(b) : IsComplaint(b, c) /\ c.id \in Nat
  BY <1>1 DEF IsIndexed
<1> DEFINE f == b.complaints
           D == 1 .. Len(b.complaints)
<1>4. Complaints(b) = {f[i] : i \in D} /\ Len(b.complaints) \in Nat
  <2>1. DOMAIN b.complaints = D /\ Len(b.complaints) \in Nat
    BY DEF IsBundle
  <2>2. Complaints(b) = {f[i] : i \in DOMAIN b.complaints}
    BY DEF Complaints
  <2>3. QED
    BY <2>1, <2>2
<1>5. IsFiniteSet(Complaints(b))
  <2>1. IsFiniteSet(D)
    BY <1>4, FS_Interval
  <2> HIDE DEF f, D
  <2>2. IsFiniteSet({f[i] : i \in D})
    BY <2>1, ImageFinite
  <2>3. QED
    BY <1>4, <2>2
<1>6. \A c \in Complaints(b) : c.amt \in Nat /\ c.amt > 0
  BY <1>3 DEF IsComplaint
<1>7. \A c, d \in Complaints(b) : c.id = d.id => c = d
  BY <1>1 DEF IsIndexed
<1>8. QED
  BY <1>2, <1>3, <1>5, <1>6, <1>7

LEMMA IdsOf ==
  ASSUME NEW b, IsBundle(b), NEW C \in SUBSET Filed(b)
  PROVE  IsFiniteSet(C) /\ IsFiniteSet({c.id : c \in C}) /\ {c.id : c \in C} \subseteq Nat
<1> DEFINE f == [c \in C |-> c.id]
           S == {f[c] : c \in C}
<1>1. IsFiniteSet(C) /\ \A c \in C : c.id \in Nat
  BY FiledIs, FS_Subset
<1>2. IsFiniteSet(S)
  BY <1>1, ImageFinite
<1>3. S = {c.id : c \in C}
  OBVIOUS
<1>4. QED
  BY <1>1, <1>2, <1>3

LEMMA ValueIs ==
  ASSUME NEW C, IsFiniteSet(C), \A c \in C : c.amt \in Nat
  PROVE  Value(C) \in Nat
<1> DEFINE w == [c \in C |-> c.amt]
<1>1. Value(C) = SumFunctionOnSet(w, C)
  BY DEF Value, SumFunction
<1>2. SumFunctionOnSet(w, C) \in Nat
  BY SumNat
<1>3. QED
  BY <1>1, <1>2

LEMMA ScoreInt ==
  ASSUME NEW b, IsBundle(b), Filed(b) # {}, NEW s \in Syndicates
  PROVE  TriageScore(b, Trails(b)[s]).score \in Int
<1> DEFINE t == Trails(b)[s]
           truth == b.syndicates[s]
           expected == {<<truth.l1[i], truth.l2>> : i \in DOMAIN truth.l1} \cup {<<truth.l2, truth.cash>>}
           cids == {c.id : c \in FiledOf(b, s)}
           maxCid == Max({c.id : c \in Filed(b)})
           band == Term(t.total_amt, AmountBandCap)
           x == TriageInputs(b, t)
<1>1. t = NetworkTrail(b, s) /\ t.syndicate = s
  BY TrailIs DEF Trails, IsBundle
<1>2. FiledOf(b, s) \in SUBSET Filed(b) /\ {c \in FiledOf(b, s) : Reachable(b, c)} \in SUBSET Filed(b)
  BY DEF FiledOf
<1>3. \A C \in SUBSET Filed(b) : IsFiniteSet(C) /\ Value(C) \in Nat
  BY FiledIs, ValueIs, FS_Subset
<1>4. t.total_amt \in Nat /\ t.traced_amt \in Nat
  <2>1. /\ t.total_amt = Value(FiledOf(b, s))
        /\ t.traced_amt = Value({c \in FiledOf(b, s) : Reachable(b, c)})
    BY <1>1, TrailSums
  <2>2. QED
    BY <1>2, <1>3, <2>1
<1>5. Cardinality(cids) \in Nat /\ SumFunction([id \in cids |-> id]) \in Nat
  <2>1. IsFiniteSet(cids) /\ cids \subseteq Nat
    BY <1>2, IdsOf
  <2> HIDE DEF cids
  <2>2. \A id \in cids : [i \in cids |-> i][id] \in Nat
    BY <2>1
  <2>3. SumFunctionOnSet([i \in cids |-> i], cids) \in Nat
    BY <2>1, <2>2, SumNat
  <2>4. QED
    BY <2>1, <2>3, FS_CardinalityType DEF SumFunction
<1>6. maxCid \in Nat
  <2> DEFINE all == {c.id : c \in Filed(b)}
  <2>1. IsFiniteSet(all) /\ all \subseteq Nat /\ all # {}
    BY IdsOf
  <2> HIDE DEF all
  <2>2. \E m \in all : \A id \in all : m >= id
    <3>1. all \subseteq Int
      BY <2>1
    <3>2. QED
      BY <2>1, <3>1, GreatestExists
  <2>3. Max(all) \in all
    BY <2>2 DEF Max
  <2>4. QED
    BY <2>1, <2>3 DEF all
<1>7. Cardinality(expected) \in Nat /\ Cardinality(expected \cap b.money) \in Nat
  <2>1. IsFiniteSet(DOMAIN truth.l1)
    BY TruthIs, FS_Interval DEF IsBundle
  <2> DEFINE hop == [i \in DOMAIN truth.l1 |-> <<truth.l1[i], truth.l2>>]
             first == {hop[i] : i \in DOMAIN truth.l1}
  <2>2. IsFiniteSet(expected)
    <3>1. IsFiniteSet(first)
      BY <2>1, ImageFinite
    <3>2. IsFiniteSet(first \cup {<<truth.l2, truth.cash>>})
      BY <3>1, FS_AddElement
    <3>3. QED
      BY <3>2
  <2>3. QED
    BY <2>2, FS_Subset, FS_CardinalityType
<1>8. Cardinality(cids) * maxCid \in Nat
  BY <1>5, <1>6
<1>9. x = [trail_completeness |-> Term(Cardinality(expected \cap b.money), Cardinality(expected)),
           cashout_reached |-> Term(t.traced_amt, t.total_amt),
           recency |-> Term(SumFunction([id \in cids |-> id]), Cardinality(cids) * maxCid),
           amount_band |-> IF band > 10000 THEN 10000 ELSE band]
  BY <1>1 DEF TriageInputs
<1>10. band \in Int
  <2>1. t.total_amt \in Int /\ AmountBandCap \in Nat
    BY <1>4, TrailAssumption
  <2>2. QED
    BY <2>1, TermInt
<1> HIDE DEF t, truth, expected, cids, maxCid, band, x
<1>11. /\ x.trail_completeness \in Int /\ x.cashout_reached \in Int
       /\ x.recency \in Int /\ x.amount_band \in Int
  <2>1. /\ x.trail_completeness = Term(Cardinality(expected \cap b.money), Cardinality(expected))
        /\ x.cashout_reached = Term(t.traced_amt, t.total_amt)
        /\ x.recency = Term(SumFunction([id \in cids |-> id]), Cardinality(cids) * maxCid)
        /\ x.amount_band = IF band > 10000 THEN 10000 ELSE band
    BY <1>9
  <2>2. \A n, d \in Nat : Term(n, d) \in Int
    BY TermInt
  <2>3. x.amount_band \in Int
    BY <1>10, <2>1
  <2>4. QED
    BY <1>4, <1>5, <1>7, <1>8, <2>1, <2>2, <2>3
<1>12. TriageScore(b, t).score =
         Rounded(4 * x.trail_completeness + 3 * (10000 - x.cashout_reached)
                   + 2 * x.recency + x.amount_band, 10)
  BY DEF TriageScore, x
<1>13. TriageScore(b, t).score \in Int
  <2> DEFINE n == 4 * x.trail_completeness + 3 * (10000 - x.cashout_reached)
                    + 2 * x.recency + x.amount_band
  <2>1. n \in Int
    BY <1>11
  <2>2. TriageScore(b, t).score = Rounded(n, 10)
    BY <1>12
  <2> HIDE DEF n
  <2>3. QED
    BY <2>1, <2>2, RoundedInt
<1>14. QED
  BY <1>13 DEF t

LEMMA ScoreIs ==
  ASSUME NEW b, NEW s \in Syndicates, IsBundle(b)
  PROVE  /\ TriageScore(b, Trails(b)[s]).syndicate = s
         /\ "syndicate" \in DOMAIN TriageScore(b, Trails(b)[s])
<1>1. Trails(b)[s].syndicate = s
  BY TrailIs DEF Trails, IsBundle
<1>2. QED
  BY <1>1 DEF TriageScore

(* The queue holds the score of every syndicate.                           *)
LEMMA QueueIs ==
  ASSUME NEW b, IsBundle(b), Filed(b) # {}
  PROVE  Range(TriageQueue(b)) = {TriageScore(b, Trails(b)[s]) : s \in Syndicates}
<1> DEFINE score == [s \in Syndicates |-> TriageScore(b, Trails(b)[s])]
           S == {score[s] : s \in Syndicates}
           R == {p \in S \X S : p[1].score > p[2].score
                                \/ (p[1].score = p[2].score /\ p[1].syndicate < p[2].syndicate)}
           L == Listed(S, R)
<1>1. S = {TriageScore(b, Trails(b)[s]) : s \in Syndicates}
  OBVIOUS
<1>2. TriageQueue(b) = L
  <2>1. DOMAIN b.syndicates = Syndicates
    BY DEF IsBundle
  <2>2. QED
    BY <1>1, <2>1 DEF TriageQueue, InOrder
<1>3. Syndicates \subseteq Int /\ IsFiniteSet(Syndicates)
  BY SyntheticAssumption, FS_Interval DEF Syndicates
<1>4. \A s \in Syndicates : score[s].score \in Int /\ score[s].syndicate = s
  BY ScoreInt, ScoreIs
<1> HIDE DEF score
<1>5. IsFiniteSet(S)
  BY <1>3, ImageFinite
<1>6. \A x \in S : x.score \in Int /\ x.syndicate \in Int /\ x = score[x.syndicate]
  BY <1>3, <1>4
<1> HIDE DEF S
<1>7. \A x, y \in S :
        <<x, y>> \in R <=> x.score > y.score \/ (x.score = y.score /\ x.syndicate < y.syndicate)
  OBVIOUS
<1> HIDE DEF R
<1>8. StrictOrder(S, R)
  <2>1. \A x \in S : <<x, x>> \notin R
    BY <1>6, <1>7
  <2>2. ASSUME NEW x \in S, NEW y \in S PROVE x = y \/ <<x, y>> \in R \/ <<y, x>> \in R
    <3>1. x.syndicate = y.syndicate => x = y
      BY <1>6
    <3>2. x.score > y.score \/ y.score > x.score \/ x.score = y.score
      BY <1>6
    <3>3. x.syndicate < y.syndicate \/ y.syndicate < x.syndicate \/ x.syndicate = y.syndicate
      BY <1>6
    <3>4. QED
      BY <1>7, <3>1, <3>2, <3>3
  <2>3. ASSUME NEW x \in S, NEW y \in S, NEW z \in S, <<x, y>> \in R, <<y, z>> \in R
        PROVE  <<x, z>> \in R
    BY <1>6, <1>7, <2>3
  <2>4. QED
    BY <2>1, <2>2, <2>3 DEF StrictOrder
<1>9. IsListing(L, S, R)
  BY <1>5, <1>8, ListedFacts
<1> HIDE DEF L
<1>10. Cardinality(S) \in Nat /\ L \in [1..Cardinality(S) -> S]
       /\ \A x \in S : \E i \in 1..Cardinality(S) : L[i] = x
  BY <1>9 DEF IsListing
<1>11. Range(L) = S
  BY <1>10 DEF Range
<1>12. QED
  BY <1>1, <1>2, <1>11

(* The rows of the artifacts of a finished run.                            *)
LEMMA ServedRows ==
  ASSUME NEW a, NEW req, ProductInv(a, req, 9), NEW idx \in DOMAIN a.networks
  PROVE  LET row == NetworkRow(a, idx)
             net == NetworkOut(a, idx)
         IN /\ row.members \subseteq Ids(a.bundle)
            /\ \A c \in Complaints(a.bundle) : c.id \in row.members => c.synd >= 0
            /\ row.trail = net.trail /\ row.triage = net.triage
            /\ net.trail # NoRow /\ net.triage # NoRow
<1> DEFINE b == a.bundle
           com == a.networks[idx]
           synd == MajoritySyndicate(b, com)
<1>1. IsBundle(b) /\ LinkedInv(a) /\ a.trails = Trails(b) /\ a.triage = TriageQueue(b)
  BY DEF ProductInv, TrailsInv
<1>2. IsNetwork(b, com)
  BY <1>1, NetworksAre DEF IsNetworks, LinkedInv
<1>3. IsIndexed(b)
  BY <1>1, BundleIndexed
<1>4. synd \in Syndicates
  BY <1>1, <1>2, MajorityIs DEF IsMajority
<1>5. Filed(b) # {}
  <2>1. com # {}
    BY <1>2, FS_EmptySet DEF IsNetwork
  <2>2. QED
    BY <1>1, <1>2, <1>3, <2>1, FiledIs DEF IsNetwork, IsIndexed
<1>6. \A c \in Complaints(b) : c.id \in com => c.synd >= 0
  BY <1>2, <1>3, SyntheticAssumption DEF IsNetwork, IsFraud, IsIndexed, Syndicates
<1>7. RowOf(a.trails, synd) # NoRow
  <2>1. DOMAIN a.trails = Syndicates /\ \A s \in Syndicates : a.trails[s] = NetworkTrail(b, s)
    BY <1>1 DEF Trails, IsBundle
  <2>2. Range(a.trails) = {NetworkTrail(b, s) : s \in Syndicates}
    BY <2>1 DEF Range
  <2>3. \E r \in Range(a.trails) : r.syndicate = synd
    BY <1>4, <2>2, TrailIs
  <2>4. \A r \in Range(a.trails) : "syndicate" \in DOMAIN r
    BY <2>2, TrailIs
  <2>5. QED
    BY <2>3, <2>4, RowFound
<1>8. RowOf(a.triage, synd) # NoRow
  <2>1. Range(a.triage) = {TriageScore(b, Trails(b)[s]) : s \in Syndicates}
    BY <1>1, <1>5, QueueIs
  <2>2. \E r \in Range(a.triage) : r.syndicate = synd
    BY <1>1, <1>4, <2>1, ScoreIs
  <2>3. \A r \in Range(a.triage) : "syndicate" \in DOMAIN r
    BY <1>1, <2>1, ScoreIs
  <2>4. QED
    BY <2>2, <2>3, RowFound
<1>9. NetworkRow(a, idx) =
        [idx |-> idx, size |-> Cardinality(com), members |-> com,
         triage |-> RowOf(a.triage, synd), trail |-> RowOf(a.trails, synd)]
  BY <1>1, <1>2, RowIs
<1>10. /\ NetworkOut(a, idx).triage = RowOf(a.triage, synd)
       /\ NetworkOut(a, idx).trail = RowOf(a.trails, synd)
  BY DEF NetworkOut
<1>11. com \subseteq Ids(b)
  BY <1>2 DEF IsNetwork
<1> HIDE DEF com, synd
<1>12. QED
  BY <1>6, <1>7, <1>8, <1>9, <1>10, <1>11

LEMMA ServedBundle ==
  ASSUME NEW a, NEW req, ProductInv(a, req, 9)
  PROVE  LET db == PersistRows(a)
             served == ListNetworks(a)
         IN /\ db.links = served.edges
            /\ {c.ext_id : c \in db.complaints} = served.nodes
            /\ db.entity_mentions \subseteq served.nodes \X db.entities
            /\ Cardinality(db.complaints) = db.runs.metrics.n_complaints
<1> DEFINE b == a.bundle
           rows == {ComplaintRow(c) : c \in Complaints(b)}
           mentions == UNION {{<<c.id, x>> : x \in c.ids} : c \in Complaints(b)}
           found == Identifiers(b)
           links == {<<e[1], e[2], Weight(b, e[1], e[2])>> : e \in a.edges}
           nodes == Ids(b)
<1>1. IsBundle(b) /\ a.results = ResultsOf(a)
  BY DEF ProductInv
<1>2. {r.ext_id : r \in rows} = nodes
  <2>1. \A c \in Complaints(b) : ComplaintRow(c).ext_id = c.id
    BY DEF ComplaintRow
  <2>2. QED
    BY <2>1 DEF Ids
<1>3. mentions \subseteq nodes \X found
  BY DEF Ids, Identifiers
<1>4. Cardinality(rows) = a.results.n_complaints
  <2> DEFINE n == Len(b.complaints)
             D == 1..n
             f == [i \in D |-> ComplaintRow(b.complaints[i])]
  <2>1. n \in Nat /\ DOMAIN b.complaints = 1..n /\ \A i \in 1..n : b.complaints[i].id = i - 1
    BY <1>1 DEF IsBundle
  <2>2. Complaints(b) = {b.complaints[i] : i \in 1..n}
    BY <2>1 DEF Complaints
  <2>3. rows = {f[i] : i \in D}
    BY <2>2
  <2>4. \A i \in D : i \in Nat /\ f[i].ext_id = i - 1
    BY <2>1 DEF ComplaintRow
  <2>5. a.results.n_complaints = n
    BY <1>1 DEF ResultsOf
  <2>6. IsFiniteSet(D) /\ Cardinality(D) = n
    BY <2>1, CountUpTo
  <2> HIDE DEF n, D, f, rows
  <2>7. \A i, j \in D : f[i] = f[j] => i = j
    BY <2>4
  <2>8. Cardinality(rows) = Cardinality(D)
    BY <2>3, <2>6, <2>7, CardImage
  <2>9. QED
    BY <2>5, <2>6, <2>8
<1>5. /\ PersistRows(a).links = links /\ PersistRows(a).complaints = rows
      /\ PersistRows(a).entity_mentions = mentions /\ PersistRows(a).entities = found
      /\ PersistRows(a).runs.metrics = a.results
  BY DEF PersistRows
<1>6. ListNetworks(a).edges = links /\ ListNetworks(a).nodes = nodes
  BY DEF ListNetworks
<1> HIDE DEF rows, mentions, found, links, nodes
<1>7. QED
  BY <1>2, <1>3, <1>4, <1>5, <1>6

(* What persist_run writes is what the endpoints answer from memory; each  *)
(* network has its trail and triage row and no member of noise             *)
(* (db/persist.py, api/routers/networks.py).                               *)
THEOREM RowsAsServed == Spec => []PersistedAsServed
<1>1. ASSUME PipelineInv, status = "completed" PROVE PersistedAsServed
  <2> DEFINE db == PersistRows(art)
             served == ListNetworks(art)
  <2>1. ProductInv(art, request, 9)
    BY <1>1 DEF PipelineInv, ProgressInv
  <2>2. /\ db.links = served.edges
        /\ {c.ext_id : c \in db.complaints} = served.nodes
        /\ db.entity_mentions \subseteq served.nodes \X db.entities
        /\ Cardinality(db.complaints) = db.runs.metrics.n_complaints
    BY <2>1, ServedBundle
  <2>3. /\ DOMAIN db.networks = DOMAIN art.networks
        /\ \A idx \in DOMAIN art.networks : db.networks[idx] = NetworkRow(art, idx)
        /\ db.complaints = {ComplaintRow(c) : c \in Complaints(art.bundle)}
    BY DEF PersistRows
  <2>4. /\ served.nodes = Ids(art.bundle)
        /\ \A idx \in DOMAIN art.networks : served.networks[idx] = NetworkOut(art, idx)
    BY DEF ListNetworks
  <2>5. DOMAIN art.networks = 1 .. CaseFacts(art).networks_found
    <3>1. LinkedInv(art) /\ IsBundle(art.bundle) /\ art.results = ResultsOf(art)
      BY <2>1 DEF ProductInv
    <3>2. CaseFacts(art).networks_found = Len(art.networks)
      BY <3>1 DEF CaseFacts, ResultsOf, LinkedInv, LinkMetrics
    <3>3. QED
      BY <3>1, <3>2, NetworksAre DEF LinkedInv, IsNetworks
  <2>6. \A c : ComplaintRow(c).ext_id = c.id /\ ComplaintRow(c).synd = c.synd
    BY DEF ComplaintRow
  <2> HIDE DEF db, served
  <2>7. ASSUME NEW idx \in DOMAIN db.networks
        PROVE  LET row == db.networks[idx]
                   net == served.networks[idx]
               IN /\ row.members \subseteq served.nodes
                  /\ \A c \in db.complaints : c.ext_id \in row.members => c.synd >= 0
                  /\ row.trail = net.trail /\ row.triage = net.triage
                  /\ net.trail # NoRow /\ net.triage # NoRow
    <3>1. idx \in DOMAIN art.networks
      BY <2>3
    <3>2. /\ NetworkRow(art, idx).members \subseteq Ids(art.bundle)
          /\ \A c \in Complaints(art.bundle) :
               c.id \in NetworkRow(art, idx).members => c.synd >= 0
          /\ NetworkRow(art, idx).trail = NetworkOut(art, idx).trail
          /\ NetworkRow(art, idx).triage = NetworkOut(art, idx).triage
          /\ NetworkOut(art, idx).trail # NoRow /\ NetworkOut(art, idx).triage # NoRow
      BY <2>1, <3>1, ServedRows
    <3>3. db.networks[idx] = NetworkRow(art, idx) /\ served.networks[idx] = NetworkOut(art, idx)
      BY <2>3, <2>4, <3>1
    <3>4. \A c \in db.complaints : c.ext_id \in NetworkRow(art, idx).members => c.synd >= 0
      BY <2>3, <2>6, <3>2
    <3>5. QED
      BY <2>4, <3>2, <3>3, <3>4
  <2>8. DOMAIN db.networks = 1 .. CaseFacts(art).networks_found
    BY <2>3, <2>5
  <2>9. QED
    BY <2>2, <2>7, <2>8 DEF PersistedAsServed, db, served
<1>2. ASSUME PipelineInv PROVE PersistedAsServed
  BY <1>1, <1>2 DEF PersistedAsServed
<1>3. QED
  BY PipelineIsInductive, <1>2, PTL

-----------------------------------------------------------------------------
(* THE LABELS *)
(* The stub's claim at a place is the prototype's, and its gate agrees.    *)
LEMMA StubClaimIs ==
  ASSUME NEW k \in Nat
  PROVE  /\ Check("v1", StubClaim(k)) <=> k % 5 # 0
         /\ StubClaim(k).fabricated = "yes" <=> k % 5 = 0
<1> DEFINE phrase == Phrases[(k % Len(Phrases)) + 1]
<1>1. phrase \in Range(Phrases)
  <2>1. Len(Phrases) \in Nat /\ Len(Phrases) # 0 /\ DOMAIN Phrases = 1 .. Len(Phrases)
    BY F9Assumption
  <2>2. (k % Len(Phrases)) + 1 \in 1 .. Len(Phrases)
    BY <2>1
  <2>3. QED
    BY <2>1, <2>2 DEF Range
<1>2. /\ phrase = <<phrase[1], phrase[2]>> /\ phrase[1] \in SectionsOf.v1 /\ phrase[2] # Blank
      /\ phrase \in Verbatim.v1 /\ <<phrase[1], Paraphrase>> \notin Verbatim.v1
  BY <1>1, F9Assumption
<1> HIDE DEF phrase
<1>3. StubClaim(k) = IF k % 10 = 0 THEN Claim(InventedSection, "invented", "yes")
                     ELSE IF k % 5 = 0 THEN Claim(phrase[1], Paraphrase, "yes")
                     ELSE Claim(phrase[1], phrase[2], "no")
  BY DEF StubClaim, phrase
<1>4. k % 10 = 0 => k % 5 = 0
  OBVIOUS
<1>5. CASE k % 10 = 0
  BY <1>3, <1>4, <1>5, F9Assumption DEF Claim, Check
<1>6. CASE k % 10 # 0 /\ k % 5 = 0
  BY <1>2, <1>3, <1>6 DEF Claim, Check
<1>7. CASE k % 10 # 0 /\ k % 5 # 0
  BY <1>2, <1>3, <1>7 DEF Claim, Check
<1>8. QED
  BY <1>5, <1>6, <1>7

LEMMA ProtoClaimIs ==
  ASSUME NEW k \in 0 .. NClaims - 1
  PROVE  /\ k \in DOMAIN Reference!MockGenerate
         /\ Reference!ProtoGate(Reference!MockGenerate[k]) <=> k % 5 # 0
         /\ Reference!MockGenerate[k].fabricated = "yes" <=> k % 5 = 0
<1> DEFINE real == Phrases[(k % Len(Phrases)) + 1]
           claim == Reference!MockGenerate[k]
<1>0. k \in Nat
  BY F9Assumption
<1>1. real \in Range(Phrases)
  <2>1. Len(Phrases) \in Nat /\ Len(Phrases) # 0 /\ DOMAIN Phrases = 1 .. Len(Phrases)
    BY F9Assumption
  <2>2. (k % Len(Phrases)) + 1 \in 1 .. Len(Phrases)
    BY <1>0, <2>1
  <2>3. QED
    BY <2>1, <2>2 DEF Range
<1>2. /\ real = <<real[1], real[2]>> /\ real[1] \in CorpusV1 /\ real[2] # Blank
      /\ real \in Verbatim.v1 /\ <<real[1], Paraphrase>> \notin Verbatim.v1
      /\ \A v \in Verbatim.v1 : v = <<v[1], v[2]>>
  BY <1>1, F9Assumption, PipelineAssumption
<1> HIDE DEF real
<1>3. k \in DOMAIN Reference!MockGenerate
      /\ claim = CASE k % 5 # 0 -> [section |-> real[1], quote |-> real[2], fabricated |-> "no"]
          [] k % 10 = 0 -> [section |-> InventedSection, quote |-> "invented", fabricated |-> "yes"]
          [] OTHER -> [section |-> real[1], quote |-> "paraphrase", fabricated |-> "yes"]
  BY DEF Reference!MockGenerate, real
<1> HIDE DEF claim
<1>4. Reference!ProtoGate(claim) <=>
        /\ claim.section \in CorpusV1
        /\ claim.quote = "" \/ \E v \in Verbatim.v1 : v[1] = claim.section /\ v[2] = claim.quote
  BY DEF Reference!ProtoGate
<1>5. ASSUME k % 5 # 0
      PROVE  Reference!ProtoGate(claim) /\ claim.fabricated = "no"
  <2>1. claim = [section |-> real[1], quote |-> real[2], fabricated |-> "no"]
    BY <1>3, <1>5
  <2>2. claim.section = real[1] /\ claim.quote = real[2] /\ claim.fabricated = "no"
    BY <2>1
  <2>3. \E v \in Verbatim.v1 : v[1] = real[1] /\ v[2] = real[2]
    BY <1>2
  <2>4. QED
    BY <1>2, <1>4, <2>2, <2>3
<1>6. ASSUME k % 5 = 0
      PROVE  ~Reference!ProtoGate(claim) /\ claim.fabricated = "yes"
  <2>1. CASE k % 10 = 0
    <3>1. claim = [section |-> InventedSection, quote |-> "invented", fabricated |-> "yes"]
      BY <1>3, <1>6, <2>1
    <3>2. InventedSection \notin CorpusV1
      BY F9Assumption, PipelineAssumption
    <3>3. QED
      BY <1>4, <3>1, <3>2
  <2>2. CASE k % 10 # 0
    <3>1. claim = [section |-> real[1], quote |-> "paraphrase", fabricated |-> "yes"]
      BY <1>3, <1>6, <2>2
    <3>2. \A v \in Verbatim.v1 : ~(v[1] = real[1] /\ v[2] = "paraphrase")
      BY <1>2 DEF Paraphrase
    <3>3. QED
      BY <1>4, <3>1, <3>2
  <2>3. QED
    BY <2>1, <2>2
<1>7. /\ Reference!ProtoGate(claim) <=> k % 5 # 0
      /\ claim.fabricated = "yes" <=> k % 5 = 0
  BY <1>5, <1>6
<1>8. QED
  BY <1>3, <1>7 DEF claim

LEMMA GatesAgree == StubResult.passed = Cardinality(Reference!ProtoPassed) /\ StubResult.leaked = 0
<1> DEFINE verdicts == [i \in DOMAIN StubClaims |-> Verdict("v1", StubClaims[i])]
           P == {i \in DOMAIN verdicts : verdicts[i].verdict = "PASSED"}
           L == {i \in DOMAIN verdicts :
                   verdicts[i].verdict = "PASSED" /\ verdicts[i].claim.fabricated = "yes"}
           f == [i \in Nat \ {0} |-> i - 1]
           Q == Reference!ProtoPassed
<1>1. NClaims \in Nat
  BY F9Assumption
<1>2. /\ DOMAIN verdicts = 1..NClaims
      /\ \A i \in 1..NClaims : /\ verdicts[i] = Verdict("v1", StubClaim(i - 1))
                               /\ i - 1 \in Nat /\ i \in Nat \ {0}
  BY <1>1 DEF StubClaims
<1>3. StubResult.passed = Cardinality(P) /\ StubResult.leaked = Cardinality(L)
  BY DEF StubResult, Evaluate, CountWhere
<1> HIDE DEF verdicts
<1>4. \A i \in 1..NClaims :
        /\ verdicts[i].verdict = "PASSED" <=> (i - 1) % 5 # 0
        /\ verdicts[i].claim.fabricated = "yes" <=> (i - 1) % 5 = 0
  BY <1>2, StubClaimIs DEF Verdict
<1>5. L = {}
  BY <1>2, <1>4
<1>6. P = {i \in 1..NClaims : (i - 1) % 5 # 0}
  BY <1>2, <1>4
<1>7. Q = {k \in 0 .. NClaims - 1 : k % 5 # 0}
  <2>1. DOMAIN Reference!MockGenerate = 0 .. NClaims - 1
    BY DEF Reference!MockGenerate
  <2>2. QED
    BY <2>1, ProtoClaimIs DEF Reference!ProtoPassed
<1> HIDE DEF Q, P
<1>8. P \subseteq 1..NClaims /\ IsFiniteSet(P)
  BY <1>1, <1>6, CountUpTo, FS_Subset
<1>9. \A i \in P : f[i] = i - 1 /\ i \in Nat /\ f[i] \in Q
  BY <1>1, <1>6, <1>7
<1>10. \A k \in Q : k + 1 \in P /\ f[k + 1] = k
  <2>1. \A k \in Q : k \in Nat /\ k + 1 \in 1..NClaims /\ (k + 1) - 1 = k /\ k % 5 # 0
    BY <1>1, <1>7
  <2>2. QED
    BY <1>6, <2>1
<1> HIDE DEF f
<1>11. {f[i] : i \in P} = Q
  BY <1>9, <1>10
<1>12. \A i, j \in P : f[i] = f[j] => i = j
  BY <1>9
<1>13. Cardinality(Q) = Cardinality(P)
  BY <1>8, <1>11, <1>12, CardImage
<1>14. Cardinality({}) = 0
  BY FS_EmptySet
<1>15. QED
  BY <1>3, <1>5, <1>13, <1>14 DEF Q

(* Of a gate's verdicts: a passed claim is in the corpus, and only the     *)
(* stub's claims are known to be fabricated.                               *)
LEMMA VerdictIs ==
  ASSUME NEW version \in {"v1", "v2"}, NEW claim, Verdict(version, claim).verdict = "PASSED"
  PROVE  /\ Verdict(version, claim).claim = claim
         /\ <<claim.section, claim.quote>> \in Verbatim[version]
         /\ claim.section # EvidenceSection
<1>1. Check(version, claim)
  BY DEF Verdict
<1>2. SectionsOf[version] \subseteq OffenceV2
  BY PipelineAssumption, LegalAssumption
<1>3. QED
  BY <1>1, <1>2 DEF Verdict, Check, OffenceV2

PassedInCorpus(f9) ==
  \A v \in Range(f9.verdicts) : v.verdict = "PASSED" =>
    /\ <<v.claim.section, v.claim.quote>> \in Verbatim[f9.corpus_version]
    /\ v.claim.section # EvidenceSection
Honest(f9, version, stub) ==
  f9.is_stub = stub /\ f9.corpus_version = version /\ PassedInCorpus(f9)
LEMMA EvaluateIs ==
  ASSUME NEW version \in {"v1", "v2"}, NEW claims, NEW name, NEW stub
  PROVE  Honest(Evaluate(version, claims, name, stub), version, stub)
<1> DEFINE f9 == Evaluate(version, claims, name, stub)
<1>1. f9.is_stub = stub /\ f9.corpus_version = version
      /\ f9.verdicts = [i \in DOMAIN claims |-> Verdict(version, claims[i])]
  BY DEF Evaluate
<1> HIDE DEF f9
<1>2. \A v \in Range(f9.verdicts) : \E i \in DOMAIN claims : v = Verdict(version, claims[i])
  BY <1>1 DEF Range
<1>3. PassedInCorpus(f9)
  <2> SUFFICES ASSUME NEW v \in Range(f9.verdicts), v.verdict = "PASSED"
               PROVE  /\ <<v.claim.section, v.claim.quote>> \in Verbatim[version]
                      /\ v.claim.section # EvidenceSection
    BY <1>1 DEF PassedInCorpus
  <2>1. PICK i \in DOMAIN claims : v = Verdict(version, claims[i])
    BY <1>2
  <2>2. QED
    BY <2>1, VerdictIs
<1>4. QED
  BY <1>1, <1>3 DEF f9, Honest

LEMMA LiveLeaksNone == \A items : LiveResult(items).leaked = 0
<1> SUFFICES ASSUME NEW items PROVE LiveResult(items).leaked = 0
  OBVIOUS
<1> DEFINE claims == ParseClaims(items).claims
           verdicts == [i \in DOMAIN claims |-> Verdict("v2", claims[i])]
           L == {i \in DOMAIN verdicts :
                   verdicts[i].verdict = "PASSED" /\ verdicts[i].claim.fabricated = "yes"}
<1>1. LiveResult(items).leaked = Cardinality(L)
  BY DEF LiveResult, Evaluate, CountWhere
<1>2. \A i \in DOMAIN claims : claims[i].fabricated = "none"
  BY DEF ParseClaims, Claim
<1> HIDE DEF claims
<1>3. \A i \in DOMAIN verdicts : verdicts[i].claim.fabricated = "none"
  BY <1>2 DEF Verdict
<1> HIDE DEF verdicts
<1>4. L = {}
  BY <1>3
<1>5. QED
  BY <1>1, <1>4, FS_EmptySet

(* The figures of the gate say what ran and leak nothing.                  *)
GateHonest(generator, reply, gate) ==
  /\ gate.result.is_stub <=> generator = "stub" \/ reply = "unavailable"
  /\ gate.result.is_stub <=> gate.result.corpus_version = "v1"
  /\ gate.degraded <=> gate.result.is_stub /\ generator = "ollama"
  /\ gate.result.is_stub => gate.result = StubResult
  /\ gate.result.leaked = 0
  /\ gate.result.corpus_version \in {"v1", "v2"}
  /\ PassedInCorpus(gate.result)
LEMMA GateIsHonest ==
  ASSUME NEW generator \in {"stub", "ollama"}, NEW reply
  PROVE  GateHonest(generator, reply, RunGate(generator, reply))
<1> DEFINE gate == RunGate(generator, reply)
<1>1. /\ StubResult.is_stub = TRUE /\ StubResult.corpus_version = "v1"
      /\ PassedInCorpus(StubResult) /\ StubResult.leaked = 0
  <2>1. Honest(StubResult, "v1", TRUE)
    BY EvaluateIs DEF StubResult
  <2>2. QED
    BY <2>1, GatesAgree DEF Honest
<1>2. ASSUME NEW items
      PROVE  /\ LiveResult(items).is_stub = FALSE /\ LiveResult(items).corpus_version = "v2"
             /\ PassedInCorpus(LiveResult(items)) /\ LiveResult(items).leaked = 0
  <2>1. Honest(LiveResult(items), "v2", FALSE)
    BY EvaluateIs DEF LiveResult
  <2>2. QED
    BY <2>1, LiveLeaksNone DEF Honest
<1>3. CASE generator = "stub"
  <2>1. gate.result = StubResult /\ gate.degraded = FALSE
    BY <1>3 DEF RunGate
  <2> HIDE DEF gate
  <2>2. GateHonest(generator, reply, gate)
    BY <1>1, <1>3, <2>1 DEF GateHonest
  <2>3. QED
    BY <2>2 DEF gate
<1>4. CASE generator = "ollama" /\ reply = "unavailable"
  <2>1. gate.result = StubResult /\ gate.degraded = TRUE
    BY <1>4 DEF RunGate
  <2> HIDE DEF gate
  <2>2. GateHonest(generator, reply, gate)
    BY <1>1, <1>4, <2>1 DEF GateHonest
  <2>3. QED
    BY <2>2 DEF gate
<1>5. CASE generator = "ollama" /\ reply # "unavailable"
  <2>1. \E items : gate.result = LiveResult(items) /\ gate.degraded = FALSE
    BY <1>5 DEF RunGate
  <2> HIDE DEF gate
  <2>2. GateHonest(generator, reply, gate)
    BY <1>2, <1>5, <2>1 DEF GateHonest
  <2>3. QED
    BY <2>2 DEF gate
<1>6. QED
  BY <1>3, <1>4, <1>5

(* A mapping proposes offence sections only, on every path.                *)
LEMMA TopIs ==
  ASSUME NEW v, DOMAIN v \in SUBSET Range(CorpusV2), \A x \in DOMAIN v : v[x] \in Int
  PROVE  Range(Top(v)) \subseteq DOMAIN v
<1> DEFINE S == DOMAIN v
           L == Listed(S, ByScore(S, v))
           m == IF Len(L) < TopK THEN Len(L) ELSE TopK
<1>1. Top(v) = SubSeq(L, 1, m)
  BY DEF Top, Ranked, InOrder, ByScore
<1>2. IsFiniteSet(S) /\ StrictOrder(S, ByScore(S, v))
  BY CorpusIs, ScoreOrder, FS_Subset
<1>3. IsListing(L, S, ByScore(S, v))
  BY <1>2, ListedFacts
<1>4. Cardinality(S) \in Nat /\ L \in [1..Cardinality(S) -> S]
  BY <1>3 DEF IsListing
<1> HIDE DEF S, L
<1>5. L \in Seq(S) /\ Len(L) = Cardinality(S)
  BY <1>4
<1>6. m \in 0 .. Len(L)
  BY <1>4, <1>5 DEF TopK
<1> HIDE DEF m
<1>7. SubSeq(L, 1, m) \in Seq(S)
  BY <1>5, <1>6
<1>8. Range(SubSeq(L, 1, m)) \subseteq S
  BY <1>7 DEF Range
<1>9. QED
  BY <1>1, <1>8 DEF S

LEMMA ProposeIs ==
  ASSUME NEW allowed, NEW text
  PROVE  Range(Propose(allowed, text)) \subseteq allowed
<1> DEFINE found == {i \in DOMAIN RuleTable :
                       RuleTable[i][1] \in MatchedBy(text) /\ RuleTable[i][2] \in allowed}
           first == {i \in found : \A j \in found : RuleTable[j][2] = RuleTable[i][2] => i <= j}
           rows == AtPlaces(RuleTable, first)
<1>1. Propose(allowed, text) = [k \in DOMAIN rows |-> rows[k][2]]
  BY DEF Propose
<1>2. RuleTable \in Seq(Range(RuleTable))
  <2>1. DOMAIN RuleTable = 1..14 /\ RuleTable = [i \in 1..14 |-> RuleTable[i]]
    BY DEF RuleTable
  <2>2. PICK n \in Nat : n = 14
    OBVIOUS
  <2>3. RuleTable \in [1..n -> Range(RuleTable)]
    BY <2>1, <2>2 DEF Range
  <2>4. QED
    BY <2>3
<1>3. first \in SUBSET DOMAIN RuleTable
  OBVIOUS
<1>4. \A i \in first : RuleTable[i][2] \in allowed
  OBVIOUS
<1> HIDE DEF first
<1>5. Range(rows) = {RuleTable[i] : i \in first}
  BY <1>2, <1>3, AtPlacesSeq
<1> HIDE DEF rows
<1>6. \A k \in DOMAIN rows : rows[k][2] \in allowed
  BY <1>4, <1>5 DEF Range
<1>7. QED
  BY <1>1, <1>6 DEF Range

LEMMA ScoresAre ==
  ASSUME NEW text, Scored(text)
  PROVE  /\ Range(Top(Combined(OffenceV2, text))) \subseteq OffenceV2
         /\ Range(Top(Bm25Scores(OffenceV2, text))) \subseteq OffenceV2
         /\ Range(Top(CosineScores(OffenceV2, text))) \subseteq OffenceV2
<1> DEFINE O == OffenceV2
           all == {Bm25Of(text, j) : j \in O}
           maxRaw == Max(all)
<1>1. \A sec \in O : Bm25Of(text, sec) \in Nat /\ CosineOf(text, sec) \in Int
  BY DEF Scored, OffenceV2
<1>2. O \in SUBSET Range(CorpusV2) /\ O # {}
  BY LegalAssumption DEF OffenceV2
<1> HIDE DEF O
<1>3. maxRaw \in Int
  <2> DEFINE f == [j \in O |-> Bm25Of(text, j)]
  <2>1. all = {f[j] : j \in O}
    OBVIOUS
  <2>2. IsFiniteSet(O)
    BY <1>2, CorpusIs, FS_Subset
  <2>3. IsFiniteSet({f[j] : j \in O})
    BY <2>2, ImageFinite
  <2>4. all # {} /\ all \subseteq Int
    BY <1>1, <1>2
  <2>5. IsFiniteSet(all)
    BY <2>1, <2>3
  <2> HIDE DEF all
  <2>6. \E x \in all : \A y \in all : x >= y
    BY <2>4, <2>5, GreatestExists
  <2>7. Max(all) \in all
    BY <2>6 DEF Max
  <2>8. QED
    BY <2>4, <2>7
<1> DEFINE v == Combined(O, text)
<1>4. DOMAIN v = O /\ \A x \in O : v[x] \in Int
  <2>1. v = [k \in O |-> IF maxRaw = 0 THEN CosineOf(text, k)
                         ELSE 100 * Bm25Of(text, k) + maxRaw * CosineOf(text, k)]
    BY DEF Combined
  <2> HIDE DEF maxRaw
  <2>2. \A x \in O : 100 * Bm25Of(text, x) + maxRaw * CosineOf(text, x) \in Int
    BY <1>1, <1>3
  <2>3. QED
    BY <1>1, <2>1, <2>2
<1> HIDE DEF v
<1>5. Range(Top(v)) \subseteq O
  BY <1>2, <1>4, TopIs
<1> DEFINE w == Bm25Scores(O, text)
           x == CosineScores(O, text)
<1>6. DOMAIN w = O /\ \A sec \in O : w[sec] \in Int
  BY <1>1 DEF Bm25Scores
<1>7. DOMAIN x = O /\ \A sec \in O : x[sec] \in Int
  BY <1>1 DEF CosineScores
<1> HIDE DEF w, x
<1>8. Range(Top(w)) \subseteq O /\ Range(Top(x)) \subseteq O
  BY <1>2, <1>6, <1>7, TopIs
<1>9. QED
  BY <1>5, <1>8 DEF v, w, x, O

(* A mapping of a complaint: which paths it has, what they may propose,    *)
(* and when it is of high confidence.                                      *)
IsMapping(m, mapper) ==
  /\ DOMAIN m.paths = {"bm25", "rules"} \cup IF mapper = "full" THEN {"semantic"} ELSE {}
  /\ m.confidence = "HIGH" <=> Range(m.sections) \cap Range(m.paths.rules) # {}
  /\ \A path \in DOMAIN m.paths : EvidenceSection \notin Range(m.paths[path])
  /\ EvidenceSection \notin Range(m.sections)
LEMMA MappingIs ==
  ASSUME NEW mapper, NEW c, Scored(c.text)
  PROVE  IsMapping(MapComplaint(mapper, c), mapper)
<1> DEFINE m == MapComplaint(mapper, c)
           rules == Propose(OffenceV2, c.text)
           both == Top(Combined(OffenceV2, c.text))
           bm25 == Top(Bm25Scores(OffenceV2, c.text))
           semantic == Top(CosineScores(OffenceV2, c.text))
<1>1. EvidenceSection \notin OffenceV2
  BY DEF OffenceV2
<1>2. /\ EvidenceSection \notin Range(rules) /\ EvidenceSection \notin Range(both)
      /\ EvidenceSection \notin Range(bm25) /\ EvidenceSection \notin Range(semantic)
  BY <1>1, ScoresAre, ProposeIs
<1>3. CASE mapper = "full"
  <2>1. /\ m.sections = both /\ m.paths = [bm25 |-> bm25, semantic |-> semantic, rules |-> rules]
        /\ m.confidence = IF Range(rules) \cap Range(both) # {} THEN "HIGH" ELSE "LOW"
    BY <1>3 DEF MapComplaint, FullMap, SectionMapping
  <2> HIDE DEF m, rules, both, bm25, semantic
  <2>2. IsMapping(m, mapper)
    BY <1>2, <1>3, <2>1 DEF IsMapping
  <2>3. QED
    BY <2>2 DEF m
<1>4. CASE mapper # "full"
  <2>1. /\ m.sections = bm25 /\ m.paths = [bm25 |-> bm25, rules |-> rules]
        /\ m.confidence = IF Range(rules) \cap Range(bm25) # {} THEN "HIGH" ELSE "LOW"
    BY <1>4 DEF MapComplaint, Bm25RulesMap, SectionMapping
  <2> HIDE DEF m, rules, both, bm25, semantic
  <2>2. IsMapping(m, mapper)
    BY <1>2, <1>4, <2>1 DEF IsMapping
  <2>3. QED
    BY <2>2 DEF m
<1>5. QED
  BY <1>3, <1>4

LEMMA AddedField ==
  ASSUME NEW r, NEW new, "degraded" \in DOMAIN new, "degraded" \notin DOMAIN r
  PROVE  "degraded" \in DOMAIN Extended(r, new) /\ Extended(r, new).degraded = new.degraded
<1> DEFINE e == Extended(r, new)
<1>1. /\ DOMAIN e = DOMAIN r \cup DOMAIN new
      /\ \A f \in DOMAIN new \ DOMAIN r : e[f] = new[f]
  BY ExtendedIs
<1> HIDE DEF e
<1>2. "degraded" \in DOMAIN e /\ e["degraded"] = new["degraded"]
  BY <1>1
<1>3. QED
  BY <1>2 DEF e

LEMMA RowsDegraded ==
  ASSUME NEW mapper, NEW mappings
  PROVE  MappingRows(mapper, mappings).degraded = (mapper # "full")
<1> DEFINE low == CountWhere(mappings, LAMBDA m : m.confidence # "HIGH")
           run == [v1_floor |-> V1Floor, v2_bm25_ablation |-> V2Ablation,
                   run_high |-> Len(mappings) - low, run_low |-> low]
           rest == [degraded |-> FALSE,
                    routing_rate |-> <<FullStack.v2_full_stack.routed, Len(GoldenV1)>>]
           own == [degraded |-> TRUE, routing_rate |-> <<low, Len(mappings)>>]
<1>1. MappingRows(mapper, mappings) =
        IF mapper = "full" THEN Extended(run, Extended(FullStack, rest)) ELSE Extended(run, own)
  BY DEF MappingRows
<1>2. /\ DOMAIN run = {"v1_floor", "v2_bm25_ablation", "run_high", "run_low"}
      /\ DOMAIN FullStack = {"v2_full_stack", "extended_v2_full_stack"}
      /\ DOMAIN rest = {"degraded", "routing_rate"} /\ DOMAIN own = {"degraded", "routing_rate"}
      /\ rest.degraded = FALSE /\ own.degraded = TRUE
  BY DEF FullStack
<1> HIDE DEF run, rest, own
<1>3. Extended(run, own).degraded = TRUE
  BY <1>2, AddedField
<1> DEFINE more == Extended(FullStack, rest)
<1>4. "degraded" \in DOMAIN more /\ more.degraded = FALSE
  BY <1>2, AddedField
<1> HIDE DEF more
<1>5. Extended(run, more).degraded = FALSE
  BY <1>2, <1>4, AddedField
<1>6. QED
  BY <1>1, <1>3, <1>5 DEF more

(* The label of the gate.                                                  *)
LEMMA GateLabels ==
  ASSUME NEW a, NEW req, req.generator \in {"stub", "ollama"}, ProductInv(a, req, 7)
  PROVE  /\ a.f9.is_stub <=> req.generator = "stub" \/ a.reply = "unavailable"
         /\ a.f9.is_stub <=> a.f9.corpus_version = "v1"
         /\ a.f9_degraded <=> a.f9.is_stub /\ req.generator = "ollama"
         /\ a.f9.is_stub => a.f9.passed = Cardinality(Reference!ProtoPassed)
         /\ a.f9.leaked = 0
         /\ \A v \in Range(a.f9.verdicts) : v.verdict = "PASSED" =>
              /\ <<v.claim.section, v.claim.quote>> \in Verbatim[a.f9.corpus_version]
              /\ v.claim.section # EvidenceSection
<1> DEFINE gate == RunGate(req.generator, a.reply)
<1>1. a.f9 = gate.result /\ a.f9_degraded = gate.degraded
  BY DEF ProductInv, GateInv
<1>2. GateHonest(req.generator, a.reply, gate)
  BY GateIsHonest
<1> HIDE DEF gate
<1>3. a.f9.is_stub => a.f9.passed = Cardinality(Reference!ProtoPassed)
  BY <1>1, <1>2, GatesAgree DEF GateHonest
<1>4. PassedInCorpus(a.f9)
  BY <1>1, <1>2 DEF GateHonest
<1>5. QED
  BY <1>1, <1>2, <1>3, <1>4 DEF GateHonest, PassedInCorpus

LEMMA MappingLabels ==
  ASSUME NEW a, NEW req, ProductInv(a, req, 6), NEW m \in Range(a.mappings)
  PROVE  IsMapping(m, req.mapper) /\ a.mapping_rows.degraded = (req.mapper # "full")
<1>1. IsBundle(a.bundle) /\ MappedInv(a, req.mapper)
  BY DEF ProductInv
<1>2. PICK i \in DOMAIN a.bundle.complaints : m = MapComplaint(req.mapper, a.bundle.complaints[i])
  BY <1>1 DEF MappedInv, Range
<1>3. Scored(a.bundle.complaints[i].text)
  BY <1>1, PipelineAssumption DEF IsBundle, IsComplaint
<1>4. QED
  BY <1>1, <1>2, <1>3, MappingIs, RowsDegraded DEF MappedInv

(* The labels of a run say what ran (pipeline.py f9_audit and              *)
(* legal_mapping stages, engine/f9/gate.py, engine/legal/mapper.py).       *)
THEOREM LabelsHonest == Spec => []LabelledHonestly
<1>1. ASSUME PipelineInv PROVE LabelledHonestly
  <2>1. /\ request.generator \in {"stub", "ollama"} /\ request.mapper \in {"full", "degraded"}
        /\ ProductInv(art, request, Done)
    BY <1>1 DEF PipelineInv, ProgressInv
  <2>2. Done \in 0..9 /\ ("f9" \in DOMAIN art <=> Done >= 7) /\ ("mappings" \in DOMAIN art <=> Done >= 6)
    BY <1>1, FieldsDone DEF FieldStage
  <2>3. /\ "f9" \in DOMAIN art => ProductInv(art, request, 7)
        /\ "mappings" \in DOMAIN art => ProductInv(art, request, 6)
    BY <2>1, <2>2, ProductDown
  <2>4. "f9" \in DOMAIN art =>
          /\ art.f9.is_stub <=> request.generator = "stub" \/ art.reply = "unavailable"
          /\ art.f9.is_stub <=> art.f9.corpus_version = "v1"
          /\ art.f9_degraded <=> art.f9.is_stub /\ request.generator = "ollama"
          /\ art.f9.is_stub => art.f9.passed = Cardinality(Reference!ProtoPassed)
          /\ art.f9.leaked = 0
          /\ \A v \in Range(art.f9.verdicts) : v.verdict = "PASSED" =>
               /\ <<v.claim.section, v.claim.quote>> \in Verbatim[art.f9.corpus_version]
               /\ v.claim.section # EvidenceSection
    BY <2>1, <2>3, GateLabels
  <2>5. "mappings" \in DOMAIN art => \A m \in Range(art.mappings) :
          /\ art.mapping_rows.degraded <=> "semantic" \notin DOMAIN m.paths
          /\ m.confidence = "HIGH" <=> Range(m.sections) \cap Range(m.paths.rules) # {}
          /\ \A path \in DOMAIN m.paths : EvidenceSection \notin Range(m.paths[path])
          /\ EvidenceSection \notin Range(m.sections)
    <3> SUFFICES ASSUME "mappings" \in DOMAIN art, NEW m \in Range(art.mappings)
                 PROVE  /\ art.mapping_rows.degraded <=> "semantic" \notin DOMAIN m.paths
                        /\ m.confidence = "HIGH" <=> Range(m.sections) \cap Range(m.paths.rules) # {}
                        /\ \A path \in DOMAIN m.paths : EvidenceSection \notin Range(m.paths[path])
                        /\ EvidenceSection \notin Range(m.sections)
      OBVIOUS
    <3>1. IsMapping(m, request.mapper)
          /\ art.mapping_rows.degraded = (request.mapper # "full")
      BY <2>3, MappingLabels
    <3>2. "semantic" \in DOMAIN m.paths <=> request.mapper = "full"
      BY <3>1 DEF IsMapping
    <3>3. QED
      BY <3>1, <3>2 DEF IsMapping
  <2>6. QED
    BY <2>4, <2>5 DEF LabelledHonestly
<1>2. QED
  BY PipelineIsInductive, <1>1, PTL

-----------------------------------------------------------------------------
(* THE CHAIN OF CUSTODY *)
IsHashes(h, records, n) ==
  h = [i \in 0..n |-> IF i = 0 THEN GENESIS ELSE LinkHash(h[i - 1], records[i])]
LEMMA HashesExist == \A records : \A n \in Nat : \E h : IsHashes(h, records, n)
<1> SUFFICES ASSUME NEW records PROVE \A n \in Nat : \E h : IsHashes(h, records, n)
  OBVIOUS
<1> DEFINE G == {n \in Nat : \E h : IsHashes(h, records, n)}
<1>1. 0 \in G
  <2> DEFINE h == [i \in 0..0 |-> GENESIS]
  <2>1. IsHashes(h, records, 0)
    BY DEF IsHashes
  <2>2. QED
    BY <2>1
<1>2. ASSUME NEW n \in Nat, n \in G PROVE n + 1 \in G
  <2>1. PICK h : IsHashes(h, records, n)
    BY <1>2
  <2> DEFINE g == [i \in 0 .. n + 1 |-> IF i = n + 1 THEN LinkHash(h[n], records[n + 1]) ELSE h[i]]
  <2>2. \A i \in 0..n : h[i] = IF i = 0 THEN GENESIS ELSE LinkHash(h[i - 1], records[i])
    BY <2>1 DEF IsHashes
  <2>3. \A i \in 0 .. n + 1 : g[i] = IF i = 0 THEN GENESIS ELSE LinkHash(g[i - 1], records[i])
    <3>1. n + 1 \in 0 .. n + 1 /\ n + 1 # 0 /\ (n + 1) - 1 = n /\ n \in 0 .. n + 1 /\ n # n + 1
      OBVIOUS
    <3>2. g[n + 1] = LinkHash(g[n], records[n + 1])
      BY <3>1
    <3>3. ASSUME NEW i \in 0..n
          PROVE  g[i] = IF i = 0 THEN GENESIS ELSE LinkHash(g[i - 1], records[i])
      <4>1. i \in 0 .. n + 1 /\ i # n + 1 /\ g[i] = h[i]
        OBVIOUS
      <4>2. i # 0 => i - 1 \in 0 .. n + 1 /\ i - 1 # n + 1
        OBVIOUS
      <4>3. i # 0 => g[i - 1] = h[i - 1]
        BY <4>2
      <4> HIDE DEF g
      <4>4. QED
        BY <2>2, <4>1, <4>3
    <3>4. \A i \in 0 .. n + 1 : i = n + 1 \/ i \in 0..n
      OBVIOUS
    <3> HIDE DEF g
    <3>5. QED
      BY <3>1, <3>2, <3>3, <3>4
  <2>4. g = [i \in 0 .. n + 1 |-> g[i]]
    OBVIOUS
  <2> HIDE DEF g
  <2>5. IsHashes(g, records, n + 1)
    BY <2>3, <2>4 DEF IsHashes
  <2>6. QED
    BY <2>5
<1> HIDE DEF G
<1>3. \A n \in Nat : n \in G
  BY <1>1, <1>2, NatInduct
<1>4. QED
  BY <1>3 DEF G

(* A chain as build_chain makes it: every link hashes its record onto the  *)
(* hash before it.                                                         *)
IsChain(chain, records) ==
  /\ DOMAIN chain = 1 .. Len(records) /\ Len(chain) = Len(records)
  /\ \A i \in 1 .. Len(records) :
       /\ chain[i].rec = records[i] /\ chain[i].hash = LinkHash(Carried(chain, i), records[i])
       /\ {"rec", "hash"} \subseteq DOMAIN chain[i]
LEMMA ChainIs ==
  ASSUME NEW X, NEW records \in Seq(X)
  PROVE  IsChain(BuildChain(records), records)
<1> DEFINE n == Len(records)
           h == HashesOf(records)
           chain == BuildChain(records)
<1>1. n \in Nat /\ DOMAIN records = 1..n
  OBVIOUS
<1>2. IsHashes(h, records, n)
  <2>1. h = CHOOSE g : IsHashes(g, records, n)
    BY DEF HashesOf, IsHashes
  <2>2. QED
    BY <1>1, <2>1, HashesExist
<1> HIDE DEF h
<1>3. \A i \in 0..n : h[i] = IF i = 0 THEN GENESIS ELSE LinkHash(h[i - 1], records[i])
  BY <1>2 DEF IsHashes
<1>4. chain = [i \in 1..n |-> [rec |-> records[i], prev |-> h[i - 1], hash |-> h[i]]]
  BY <1>1 DEF BuildChain, h
<1> HIDE DEF chain
<1>5. ASSUME NEW i \in 1..n
      PROVE  /\ chain[i].rec = records[i] /\ chain[i].hash = LinkHash(Carried(chain, i), records[i])
             /\ {"rec", "hash"} \subseteq DOMAIN chain[i]
  <2>1. chain[i] = [rec |-> records[i], prev |-> h[i - 1], hash |-> h[i]]
    BY <1>4
  <2>2. i \in 0..n /\ i # 0 /\ i - 1 \in 0..n
    BY <1>1
  <2>3. h[i] = LinkHash(h[i - 1], records[i])
    BY <1>3, <2>2
  <2>4. Carried(chain, i) = h[i - 1]
    <3>1. CASE i = 1
      <4>1. h[0] = GENESIS
        BY <1>1, <1>3
      <4>2. QED
        BY <3>1, <4>1 DEF Carried
    <3>2. CASE i # 1
      <4>1. i - 1 \in 1..n
        BY <1>1, <3>2
      <4>2. chain[i - 1].hash = h[i - 1]
        BY <1>4, <4>1
      <4>3. QED
        BY <3>2, <4>2 DEF Carried
    <3>3. QED
      BY <3>1, <3>2
  <2>5. QED
    BY <2>1, <2>3, <2>4
<1>6. DOMAIN chain = 1..n
  BY <1>4
<1>7. chain \in Seq(Range(chain))
  <2>1. chain \in [1..n -> Range(chain)]
    BY <1>4 DEF Range
  <2>2. QED
    BY <1>1, <2>1
<1>8. Len(chain) = n
  BY <1>1, <1>6, <1>7
<1>9. QED
  BY <1>5, <1>6, <1>8 DEF IsChain, chain

(* A chain verifies as built; one altered record is found at its place,    *)
(* whatever comes after it (engine/custody/chain.py, verify and            *)
(* find_break).                                                            *)
LEMMA ChainVerifies ==
  ASSUME NEW X, NEW records \in Seq(X)
  PROVE  Verify(BuildChain(records))
<1> DEFINE chain == BuildChain(records)
<1>1. IsChain(chain, records)
  BY ChainIs
<1> HIDE DEF chain
<1>2. Verify(chain)
  BY <1>1 DEF IsChain, Verify, Holds
<1>3. QED
  BY <1>2 DEF chain

LEMMA TamperedAt ==
  ASSUME NEW X, NEW records \in Seq(X), NEW index \in 0 .. Len(records) - 1,
         records[index + 1] # Swapped
  PROVE  LET altered == Tamper(BuildChain(records), index) IN
         /\ DOMAIN altered = 1 .. Len(records) /\ index + 1 \in DOMAIN altered
         /\ \A i \in DOMAIN altered : Holds(altered, i) <=> i # index + 1
<1> DEFINE n == Len(records)
           chain == BuildChain(records)
           altered == Tamper(chain, index)
           k == index + 1
<1>1. n \in Nat /\ k \in 1..n
  OBVIOUS
<1>2. IsChain(chain, records)
  BY ChainIs
<1>3. altered = [chain EXCEPT ![k].rec = Swapped]
  BY DEF Tamper
<1> HIDE DEF chain, altered, k
<1>4. /\ DOMAIN altered = 1..n /\ altered[k].rec = Swapped
      /\ \A i \in 1..n : altered[i].hash = chain[i].hash
      /\ \A i \in 1..n : i # k => altered[i].rec = records[i]
  BY <1>1, <1>2, <1>3 DEF IsChain
<1>5. \A i \in 1..n : Carried(altered, i) = Carried(chain, i)
  <2> SUFFICES ASSUME NEW i \in 1..n PROVE Carried(altered, i) = Carried(chain, i)
    OBVIOUS
  <2>1. i # 1 => i - 1 \in 1..n
    BY <1>1
  <2>2. QED
    BY <1>4, <2>1 DEF Carried
<1>6. \A i \in 1..n : Holds(altered, i) <=>
                        LinkHash(Carried(chain, i), records[i]) = LinkHash(Carried(chain, i), altered[i].rec)
  BY <1>2, <1>4, <1>5 DEF Holds, IsChain
<1>7. \A p, r, s : LinkHash(p, r) = LinkHash(p, s) => r = s
  BY DEF LinkHash
<1>8. \A i \in 1..n : Holds(altered, i) <=> i # k
  BY <1>1, <1>4, <1>6, <1>7 DEF k
<1>9. QED
  BY <1>1, <1>4, <1>8 DEF altered, chain, k

(* Altering one record of a chain is found at that record: the tamper demo *)
(* of a run names the record it altered (engine/custody/chain.py, the      *)
(* custody stage of pipeline.py).                                          *)
THEOREM CustodyBreak ==
  ASSUME NEW X, NEW records \in Seq(X), NEW index, CanTamper(BuildChain(records), index),
         index \in Int, records[index + 1] # Swapped
  PROVE  /\ Verify(BuildChain(records))
         /\ ~Verify(Tamper(BuildChain(records), index))
         /\ FindBreak(Tamper(BuildChain(records), index)) = index + 1
<1> DEFINE altered == Tamper(BuildChain(records), index)
<1>1. Len(BuildChain(records)) = Len(records)
  BY ChainIs DEF IsChain
<1>2. index \in 0 .. Len(records) - 1
  BY <1>1 DEF CanTamper
<1>3. /\ DOMAIN altered = 1 .. Len(records) /\ index + 1 \in DOMAIN altered
      /\ \A i \in DOMAIN altered : Holds(altered, i) <=> i # index + 1
  BY <1>2, TamperedAt
<1> HIDE DEF altered
<1>4. ~Verify(altered)
  BY <1>3 DEF Verify
<1>5. FindBreak(altered) = CHOOSE i \in DOMAIN altered :
         ~Holds(altered, i) /\ \A j \in DOMAIN altered : j < i => Holds(altered, j)
  BY <1>4 DEF FindBreak
<1>6. \A i \in DOMAIN altered :
        (~Holds(altered, i) /\ \A j \in DOMAIN altered : j < i => Holds(altered, j)) <=> i = index + 1
  BY <1>2, <1>3
<1>7. FindBreak(altered) = index + 1
  BY <1>3, <1>5, <1>6
<1>8. QED
  BY <1>4, <1>7, ChainVerifies DEF altered

LEMMA RunChain ==
  /\ Verify(Chain) /\ ~Verify(Tamper(Chain, TamperIndex))
  /\ Len(Chain) = NRecords /\ DOMAIN Chain = 1..NRecords /\ NRecords \in Nat \ {0}
<1> DEFINE records == [i \in 1..NRecords |-> i]
<1>1. NRecords \in Nat \ {0} /\ TamperIndex \in Int /\ 0 <= TamperIndex /\ TamperIndex < NRecords
  BY PipelineAssumption
<1>2. records \in Seq(Nat) /\ Len(records) = NRecords
  BY <1>1
<1>3. TamperIndex + 1 \in 1..NRecords
  BY <1>1
<1>4. records[TamperIndex + 1] # Swapped
  BY <1>1, <1>3 DEF Swapped
<1>5. Chain = BuildChain(records)
  BY DEF Chain
<1> HIDE DEF records
<1>6. IsChain(Chain, records)
  BY <1>2, <1>5, ChainIs
<1>7. CanTamper(BuildChain(records), TamperIndex)
  BY <1>1, <1>2, <1>5, <1>6 DEF IsChain, CanTamper
<1>8. Verify(Chain) /\ ~Verify(Tamper(Chain, TamperIndex))
  BY <1>1, <1>2, <1>4, <1>5, <1>7, CustodyBreak
<1>9. QED
  BY <1>1, <1>2, <1>6, <1>8 DEF IsChain

-----------------------------------------------------------------------------
(* THE PACKET *)
LEMMA TrailRow ==
  ASSUME NEW b, IsBundle(b), NEW s \in Syndicates
  PROVE  /\ RowOf(Trails(b), s) = NetworkTrail(b, s) /\ Trails(b)[s] = NetworkTrail(b, s)
         /\ TrailEntry(NetworkTrail(b, s)) = NetworkTrail(b, s)
<1>1. DOMAIN Trails(b) = Syndicates /\ \A t \in Syndicates : Trails(b)[t] = NetworkTrail(b, t)
  BY DEF Trails, IsBundle
<1>2. Range(Trails(b)) = {NetworkTrail(b, t) : t \in Syndicates}
  BY <1>1 DEF Range
<1>3. {r \in Range(Trails(b)) : r.syndicate = s} = {NetworkTrail(b, s)}
  BY <1>2, TrailIs
<1>4. RowOf(Trails(b), s) = NetworkTrail(b, s)
  BY <1>3 DEF RowOf
<1>5. TrailEntry(NetworkTrail(b, s)) = NetworkTrail(b, s)
  BY DEF TrailEntry, NetworkTrail
<1>6. QED
  BY <1>1, <1>4, <1>5

(* Every withheld claim is of one of the two sub-classes.                  *)
LEMMA WithheldSplit ==
  ASSUME NEW version, NEW claims, NEW n \in Nat, DOMAIN claims = 1..n, NEW name, NEW stub
  PROVE  LET f9 == Evaluate(version, claims, name, stub) IN
         SubClassCount(f9, "invented_section") + SubClassCount(f9, "unverifiable_quote") = f9.withheld
<1> DEFINE f9 == Evaluate(version, claims, name, stub)
           verdicts == [i \in DOMAIN claims |-> Verdict(version, claims[i])]
           W == {i \in 1..n : verdicts[i].verdict = "WITHHELD"}
           I == {i \in 1..n : verdicts[i].sub_class = "invented_section"}
           U == {i \in 1..n : verdicts[i].sub_class = "unverifiable_quote"}
<1>1. f9.verdicts = verdicts /\ f9.withheld = CountWhere(verdicts, LAMBDA v : v.verdict = "WITHHELD")
  BY DEF Evaluate
<1>2. DOMAIN verdicts = 1..n /\ \A i \in 1..n : verdicts[i] = Verdict(version, claims[i])
  OBVIOUS
<1> HIDE DEF verdicts, f9
<1>3. /\ f9.withheld = Cardinality(W)
      /\ SubClassCount(f9, "invented_section") = Cardinality(I)
      /\ SubClassCount(f9, "unverifiable_quote") = Cardinality(U)
  BY <1>1, <1>2 DEF CountWhere, SubClassCount
<1>4. \A i \in 1..n :
        /\ verdicts[i].verdict = "WITHHELD" <=>
             verdicts[i].sub_class = "invented_section" \/ verdicts[i].sub_class = "unverifiable_quote"
        /\ ~(verdicts[i].sub_class = "invented_section" /\ verdicts[i].sub_class = "unverifiable_quote")
  BY <1>2 DEF Verdict
<1>5. W = I \cup U /\ I \cap U = {}
  BY <1>4
<1>6. IsFiniteSet(I) /\ IsFiniteSet(U)
  <2>1. I \in SUBSET (1..n) /\ U \in SUBSET (1..n)
    OBVIOUS
  <2>2. QED
    BY <2>1, CountUpTo, FS_Subset
<1> HIDE DEF W, I, U
<1>7. Cardinality(W) = Cardinality(I) + Cardinality(U)
  <2>1. Cardinality(I \cup U) = Cardinality(I) + Cardinality(U) - Cardinality(I \cap U)
    BY <1>6, FS_Union
  <2>2. Cardinality(I) \in Nat /\ Cardinality(U) \in Nat
    BY <1>6, FS_CardinalityType
  <2>3. Cardinality({}) = 0
    BY FS_EmptySet
  <2>4. Cardinality(I \cap U) = 0 /\ Cardinality(W) = Cardinality(I \cup U)
    BY <1>5, <2>3, Zenon
  <2>5. QED
    BY <2>1, <2>2, <2>4
<1>8. QED
  BY <1>3, <1>7 DEF f9

Splits(f9) ==
  SubClassCount(f9, "invented_section") + SubClassCount(f9, "unverifiable_quote") = f9.withheld
LEMMA GateSplits ==
  ASSUME NEW generator \in {"stub", "ollama"}, NEW reply,
         IF generator = "stub" THEN reply = "none" ELSE reply \in Replies
  PROVE  Splits(RunGate(generator, reply).result)
<1>1. Splits(StubResult)
  <2>1. NClaims \in Nat /\ DOMAIN StubClaims = 1..NClaims
    BY F9Assumption DEF StubClaims
  <2>2. QED
    BY <2>1, WithheldSplit DEF StubResult, Splits
<1>2. ASSUME NEW X, NEW items \in Seq(X) PROVE Splits(LiveResult(items))
  <2> DEFINE I == {i \in DOMAIN items : WellFormed(items[i])}
             kept == AtPlaces(items, I)
             claims == [i \in DOMAIN kept |-> Claim(Unbracketed[kept[i].section], kept[i].quote, "none")]
             n == Len(kept)
  <2>1. ParseClaims(items).claims = claims
    BY DEF ParseClaims, Keep
  <2>2. I \in SUBSET DOMAIN items
    OBVIOUS
  <2> HIDE DEF I
  <2>3. kept \in Seq(X)
    BY <1>2, <2>2, AtPlacesSeq
  <2> HIDE DEF kept
  <2>4. n \in Nat /\ DOMAIN claims = 1..n
    BY <2>3
  <2> HIDE DEF claims, n
  <2>5. Splits(Evaluate("v2", claims, "ollama", FALSE))
    BY <2>4, WithheldSplit DEF Splits
  <2>6. QED
    BY <2>1, <2>5 DEF LiveResult
<1>3. CASE generator = "stub"
  BY <1>1, <1>3 DEF RunGate
<1>4. CASE generator # "stub" /\ reply = "unavailable"
  BY <1>1, <1>4 DEF RunGate
<1>5. CASE generator # "stub" /\ reply # "unavailable" /\ reply = "no_array"
  <2>1. RunGate(generator, reply).result = LiveResult(<<>>)
    BY <1>5 DEF RunGate
  <2>2. <<>> \in Seq(Nat)
    OBVIOUS
  <2>3. QED
    BY <1>2, <2>1, <2>2
<1>6. CASE generator # "stub" /\ reply # "unavailable" /\ reply # "no_array"
  <2>1. RunGate(generator, reply).result = LiveResult(reply)
    BY <1>6 DEF RunGate
  <2>2. reply \in Seq(Range(reply))
    BY <1>6, PipelineAssumption
  <2>3. QED
    BY <1>2, <2>1, <2>2
<1>7. QED
  BY <1>3, <1>4, <1>5, <1>6

(* The context of the packet of the largest network.                       *)
Members(b, com) ==
  AtPlaces(b.complaints, {i \in DOMAIN b.complaints : b.complaints[i].id \in com})
LEMMA CaseIs ==
  ASSUME NEW a
  PROVE  LET com == Largest(a.networks)
             synd == MajoritySyndicate(a.bundle, com)
             c == LargestCase(a)
         IN /\ c.network = [syndicate |-> synd, size |-> Cardinality(com), members |-> com]
            /\ c.complaints = Members(a.bundle, com)
            /\ c.trail = a.trails[synd] /\ c.sections = PacketSections(a.mappings, com)
            /\ c.f9 = a.f9 /\ c.custody_extract = a.chain /\ c.chain_head = a.chain[Len(a.chain)].hash
BY DEF LargestCase, CaseContext, Keep, Members

(* The complaints of a packet are the members, with their intake hashes.   *)
Entries(members) == [i \in DOMAIN members |-> ComplaintEntry(members[i])]
IntakeHashes(b, com) ==
  {[id |-> c.id, intake_hash |-> Sha256(c)] : c \in {d \in Complaints(b) : d.id \in com}}
LEMMA EntriesAre ==
  ASSUME NEW b, IsBundle(b), IsHashed(b), NEW com
  PROVE  IntakeHashes(b, com) = Range(Entries(Members(b, com)))
<1> DEFINE I == {i \in DOMAIN b.complaints : b.complaints[i].id \in com}
           members == Members(b, com)
           entries == [i \in DOMAIN members |-> ComplaintEntry(members[i])]
           entry(c) == [id |-> c.id, intake_hash |-> Sha256(c)]
           C == {d \in Complaints(b) : d.id \in com}
<1>1. I \in SUBSET DOMAIN b.complaints /\ b.complaints \in Seq(Complaints(b))
  BY DEF IsBundle
<1>2. C = {b.complaints[i] : i \in I}
  BY DEF Complaints
<1>3. \A c \in C : ComplaintEntry(c) = entry(c)
  BY <1>2 DEF ComplaintEntry, IsHashed
<1>4. members = AtPlaces(b.complaints, I)
  BY DEF Members
<1> HIDE DEF I, members
<1>5. Range(members) = C
  BY <1>1, <1>2, <1>4, AtPlacesSeq
<1> HIDE DEF C, entry
<1>6. Range(entries) = {ComplaintEntry(c) : c \in C}
  BY <1>5 DEF Range
<1>7. Range(entries) = {entry(c) : c \in C}
  BY <1>3, <1>6
<1>8. QED
  BY <1>7 DEF C, entry, entries, members, Entries, IntakeHashes

(* The network of the packet.                                              *)
LEMMA PacketNetwork ==
  ASSUME NEW a, NEW req, ProductInv(a, req, 9)
  PROVE  LET com == Largest(a.networks) IN
         /\ a.packet.network.members = com
         /\ \E idx \in DOMAIN a.networks :
              LET net == NetworkOut(a, idx)
              IN /\ a.packet.network = [syndicate |-> net.syndicate, size |-> net.size, members |-> net.members]
                 /\ a.packet.trail = net.trail
                 /\ net.size = CaseFacts(a).largest
<1> DEFINE b == a.bundle
           com == Largest(a.networks)
           synd == MajoritySyndicate(b, com)
           c == LargestCase(a)
<1>1. /\ IsBundle(b) /\ LinkedInv(a) /\ a.trails = Trails(b)
      /\ PacketError(a) = "none" /\ a.packet = Assemble(c)
  BY DEF ProductInv, TrailsInv, PacketInv
<1>2. a.networks # <<>>
  BY <1>1 DEF PacketError
<1>3. IsNetworks(b, a.networks)
  BY <1>1, NetworksAre DEF LinkedInv
<1>4. PICK idx \in DOMAIN a.networks :
        /\ com = a.networks[idx] /\ IsNetwork(b, com)
        /\ \A j \in DOMAIN a.networks : Cardinality(a.networks[j]) <= Cardinality(a.networks[idx])
  BY <1>2, <1>3, LargestIs
<1>5. synd \in Syndicates
  BY <1>1, <1>4, MajorityIs DEF IsMajority
<1>6. /\ c.network = [syndicate |-> synd, size |-> Cardinality(com), members |-> com]
      /\ c.trail = a.trails[synd]
  BY CaseIs
<1>7. a.packet.network = c.network /\ a.packet.trail = TrailEntry(c.trail)
  BY <1>1 DEF Assemble
<1> DEFINE net == NetworkOut(a, idx)
<1>8. /\ net.syndicate = synd /\ net.size = Cardinality(com) /\ net.members = com
      /\ net.trail = RowOf(a.trails, synd)
  BY <1>4 DEF NetworkOut
<1>9. a.packet.trail = net.trail
  BY <1>1, <1>5, <1>6, <1>7, <1>8, TrailRow
<1>10. CaseFacts(a).largest = Cardinality(com)
  <2> DEFINE sizes == {Cardinality(x) : x \in Range(a.networks)}
  <2>1. CaseFacts(a).largest = Max(sizes)
    BY <1>2 DEF CaseFacts
  <2>2. Cardinality(com) \in sizes /\ Cardinality(com) \in Nat
    BY <1>4 DEF Range, IsNetwork
  <2>3. \A n \in sizes : n <= Cardinality(com)
    BY <1>4 DEF Range
  <2>4. \A n \in sizes : n \in Nat
    BY <1>3 DEF Range, IsNetworks, IsNetwork
  <2> HIDE DEF sizes, com
  <2>5. Max(sizes) = Cardinality(com)
    BY <2>2, <2>3, <2>4 DEF Max
  <2>6. QED
    BY <2>1, <2>5
<1> HIDE DEF com, synd, c, net
<1>11. a.packet.network.members = com
  BY <1>6, <1>7
<1>12. a.packet.network = [syndicate |-> net.syndicate, size |-> net.size, members |-> net.members]
  BY <1>6, <1>7, <1>8
<1>13. net.size = CaseFacts(a).largest
  BY <1>8, <1>10
<1>14. QED
  BY <1>9, <1>11, <1>12, <1>13 DEF net, com

LEMMA PacketSectionsMapped ==
  ASSUME NEW a, NEW req, ProductInv(a, req, 9), NEW sec \in Range(a.packet.sections)
  PROVE  \E m \in Range(a.mappings) :
           m.complaint_id \in Largest(a.networks) /\ sec.id \in Range(m.sections) \cap OffenceV2
<1> DEFINE com == Largest(a.networks)
           sections == PacketSections(a.mappings, com)
           c == LargestCase(a)
           n == Len(a.bundle.complaints)
<1>1. /\ IsBundle(a.bundle) /\ MappedInv(a, req.mapper) /\ a.packet = Assemble(c)
      /\ ProductInv(a, req, 6)
  BY ProductDown DEF ProductInv, PacketInv
<1>2. n \in Nat /\ DOMAIN a.mappings = 1..n
  BY <1>1 DEF IsBundle, MappedInv
<1>3. c.sections = sections
  BY CaseIs
<1>4. a.packet.sections = [i \in DOMAIN c.sections |-> SectionEntry(c.sections[i], c.corpus_v2)]
  BY <1>1 DEF Assemble
<1> HIDE DEF c, n
<1>5. PICK i \in DOMAIN sections : sec = SectionEntry(sections[i], c.corpus_v2)
  BY <1>3, <1>4 DEF Range
<1>6. sec.id = sections[i]
  BY <1>5 DEF SectionEntry
<1>7. sections[i] \in Range(CorpusV2) /\ SectionCount(a.mappings, com, sections[i]) > 0
  BY <1>2, <1>5, SectionsAre
<1> HIDE DEF sections, com
<1> DEFINE S == {j \in DOMAIN a.mappings :
                   a.mappings[j].complaint_id \in com /\ sections[i] \in Range(a.mappings[j].sections)}
<1>8. S # {}
  <2>1. Cardinality({}) = 0
    BY FS_EmptySet
  <2>2. SectionCount(a.mappings, com, sections[i]) = Cardinality(S)
    BY DEF SectionCount
  <2> HIDE DEF S
  <2>3. QED
    BY <1>7, <2>1, <2>2
<1>9. PICK j \in DOMAIN a.mappings :
        a.mappings[j].complaint_id \in com /\ sections[i] \in Range(a.mappings[j].sections)
  BY <1>8
<1> DEFINE m == a.mappings[j]
<1>10. m \in Range(a.mappings)
  BY DEF Range
<1>11. EvidenceSection \notin Range(m.sections)
  BY <1>1, <1>10, MappingLabels DEF IsMapping
<1>12. sections[i] \in OffenceV2
  BY <1>7, <1>9, <1>11 DEF OffenceV2
<1>13. QED
  BY <1>6, <1>9, <1>10, <1>12 DEF com

(* The packet is about a largest network as the endpoint shows it, with    *)
(* the intake hashes of its members, sections some member was mapped to    *)
(* and the run's own F9 figures (pipeline.py packet stage).                *)
THEOREM PacketServed == Spec => []PacketIsServedNetwork
<1>1. ASSUME PipelineInv, status = "completed" PROVE PacketIsServedNetwork
  <2> DEFINE com == Largest(art.networks)
             p == art.packet
             c == LargestCase(art)
             b == art.bundle
  <2>1. ProductInv(art, request, 9) /\ request.generator \in {"stub", "ollama"}
    BY <1>1 DEF PipelineInv, ProgressInv
  <2>2. /\ IsBundle(b) /\ IsHashed(b) /\ p = Assemble(c) /\ GateInv(art, request.generator)
        /\ art.chain = Chain /\ art.results = ResultsOf(art)
    BY <2>1 DEF ProductInv, PacketInv, ChainInv
  <2>3. /\ c.complaints = Members(b, com)
        /\ c.f9 = art.f9 /\ c.custody_extract = art.chain
        /\ c.chain_head = art.chain[Len(art.chain)].hash
    BY CaseIs
  <2>4. /\ p.complaints = Entries(c.complaints)
        /\ p.f9 = F9Entry(c.f9) /\ p.custody_extract = c.custody_extract /\ p.chain_head = c.chain_head
    BY <2>2 DEF Assemble, Entries
  <2>5. p.network.members = com
        /\ \E idx \in DOMAIN art.networks :
             LET net == NetworkOut(art, idx)
             IN /\ p.network = [syndicate |-> net.syndicate, size |-> net.size, members |-> net.members]
                /\ p.trail = net.trail
                /\ net.size = CaseFacts(art).largest
    BY <2>1, PacketNetwork
  <2>6. \A sec \in Range(p.sections) :
          \E m \in Range(art.mappings) :
            m.complaint_id \in com /\ sec.id \in Range(m.sections) \cap OffenceV2
    BY <2>1, PacketSectionsMapped
  <2>7. p.f9.withheld_sub_classes.invented_section + p.f9.withheld_sub_classes.unverifiable_quote
          = art.results.f9_withheld
    <3>1. Splits(art.f9)
      BY <2>1, <2>2, GateSplits DEF GateInv
    <3>2. art.results.f9_withheld = art.f9.withheld
      BY <2>2 DEF ResultsOf
    <3>3. /\ p.f9.withheld_sub_classes.invented_section = SubClassCount(art.f9, "invented_section")
          /\ p.f9.withheld_sub_classes.unverifiable_quote = SubClassCount(art.f9, "unverifiable_quote")
      BY <2>3, <2>4 DEF F9Entry
    <3>4. QED
      BY <3>1, <3>2, <3>3 DEF Splits
  <2>8. Verify(p.custody_extract) /\ p.chain_head = p.custody_extract[NRecords].hash
    BY <2>2, <2>3, <2>4, RunChain
  <2> HIDE DEF com, c
  <2>9. IntakeHashes(b, com) = Range(p.complaints)
    BY <2>2, <2>3, <2>4, EntriesAre
  <2>10. GetPacket(art) = p
    BY DEF GetPacket
  <2> HIDE DEF p
  <2>11. QED
    BY <2>5, <2>6, <2>7, <2>8, <2>9, <2>10 DEF PacketIsServedNetwork, IntakeHashes
<1>2. ASSUME PipelineInv PROVE PacketIsServedNetwork
  BY <1>1, <1>2 DEF PacketIsServedNetwork
<1>3. QED
  BY PipelineIsInductive, <1>2, PTL

-----------------------------------------------------------------------------
(* THE LEDGER *)
Mules(b, s) == Range(b.syndicates[s].l1)
Fed(b, s) == Keep(b.syndicates[s].l1, LAMBDA m : Flow(b, s, m) > 0)
ToL2(b, s, m) == <<m, b.syndicates[s].l2>> \in b.money
ToCash(b, s) == <<b.syndicates[s].l2, b.syndicates[s].cash>> \in b.money
Onward(b, s) == Keep(Fed(b, s), LAMBDA m : ToL2(b, s, m))
Stuck(b, s) == Keep(Fed(b, s), LAMBDA m : ~ToL2(b, s, m))
(* What the mules M of s were fed.                                         *)
Flows(b, s) == [m \in Mules(b, s) |-> Flow(b, s, m)]
FlowOf(b, s, M) == SumFunctionOnSet(Flows(b, s), M)

IsLayered(b, s) ==
  /\ b.syndicates[s].l1 \in Seq(Mules(b, s)) /\ Distinct(b.syndicates[s].l1)
  /\ b.syndicates[s].l2 = L2(s) /\ b.syndicates[s].cash = Cash(s)
  /\ \A m \in Mules(b, s) : \E i : m = L1(s, i)
  /\ IsFiniteSet(Mules(b, s))
LEMMA BundleLayered ==
  ASSUME NEW b, IsBundle(b), NEW s \in Syndicates
  PROVE  IsLayered(b, s)
<1> DEFINE n == Len(b.syndicates[s].l1)
           l1 == b.syndicates[s].l1
<1>1. n \in Nat /\ b.syndicates[s] = SyndicateTruth(s, n)
  BY DEF IsBundle
<1>2. DOMAIN l1 = 1..n /\ \A j \in 1..n : l1[j] = L1(s, j - 1)
  BY <1>1, TruthIs
<1>3. l1 = [i \in 1..n |-> L1(s, i - 1)]
  BY <1>1 DEF SyndicateTruth
<1>4. b.syndicates[s].l2 = L2(s) /\ b.syndicates[s].cash = Cash(s)
  BY <1>1 DEF SyndicateTruth
<1> HIDE DEF l1, n
<1>5. l1 \in [1..n -> Range(l1)]
  BY <1>2, <1>3 DEF Range
<1>6. l1 \in Seq(Range(l1))
  BY <1>1, <1>5
<1>7. \A i, j : L1(s, i) = L1(s, j) => i = j
  BY DEF L1
<1>8. Distinct(l1)
  <2> SUFFICES ASSUME NEW i \in 1..n, NEW j \in 1..n, l1[i] = l1[j] PROVE i = j
    BY <1>2 DEF Distinct
  <2>1. i - 1 = j - 1
    BY <1>2, <1>7
  <2>2. QED
    BY <1>1, <2>1
<1>9. \A m \in Range(l1) : \E i : m = L1(s, i)
  BY <1>2 DEF Range
<1>10. IsFiniteSet(Range(l1))
  <2> DEFINE D == 1..n
  <2>1. Range(l1) = {l1[i] : i \in D} /\ IsFiniteSet(D)
    BY <1>1, <1>2, CountUpTo DEF Range
  <2> HIDE DEF D
  <2>2. QED
    BY <2>1, ImageFinite
<1>11. QED
  BY <1>4, <1>6, <1>8, <1>9, <1>10 DEF IsLayered, Mules, l1

LEMMA LayersApart ==
  /\ \A s, t, i : L1(s, i) # L2(t) /\ L1(s, i) # Cash(t)
  /\ \A s, t : L2(s) # Cash(t)
  /\ \A s, t : (L2(s) = L2(t) => s = t) /\ (Cash(s) = Cash(t) => s = t)
  /\ \A s, t, i, j : L1(s, i) = L1(t, j) => s = t
BY DEF L1, L2, Cash

(* The ledger leads from a mule to the second layer of its syndicate, and  *)
(* from there to the cash-out node.                                        *)
LEMMA EdgesAre ==
  ASSUME NEW b, IsBundle(b), NEW e \in b.money
  PROVE  \E s \in Syndicates :
           \/ e[2] = L2(s) /\ \E i : e[1] = L1(s, i)
           \/ e[1] = L2(s) /\ e[2] = Cash(s)
<1>1. e \in LedgerEdges(b.syndicates) /\ DOMAIN b.syndicates = Syndicates
  BY DEF IsBundle
<1>2. PICK s \in Syndicates :
        \/ \E i \in DOMAIN b.syndicates[s].l1 : e = <<b.syndicates[s].l1[i], b.syndicates[s].l2>>
        \/ e = <<b.syndicates[s].l2, b.syndicates[s].cash>>
  BY <1>1 DEF LedgerEdges
<1>3. IsLayered(b, s)
  BY BundleLayered
<1>4. \A i \in DOMAIN b.syndicates[s].l1 : b.syndicates[s].l1[i] \in Mules(b, s)
  BY DEF Mules, Range
<1>5. QED
  BY <1>2, <1>3, <1>4 DEF IsLayered

(* Cash-out is reached over both edges and no other way.                   *)
LEMMA ReachedBy ==
  ASSUME NEW b, IsBundle(b), NEW s \in Syndicates, NEW c, c.synd = s, c.mule \in Mules(b, s)
  PROVE  Reachable(b, c) <=> ToL2(b, s, c.mule) /\ ToCash(b, s)
<1> DEFINE m == c.mule
           l2 == b.syndicates[s].l2
           cash == b.syndicates[s].cash
           N == LedgerNodes(b.money) \cup {m}
<1>1. /\ l2 = L2(s) /\ cash = Cash(s) /\ \E i : m = L1(s, i)
  BY BundleLayered DEF IsLayered
<1>2. m # cash /\ m # l2 /\ l2 # cash
  BY <1>1, LayersApart
<1>3. \A e \in b.money : /\ e[1] = m => e[2] = l2
                         /\ e[1] = l2 => e[2] = cash
  BY <1>1, EdgesAre, LayersApart
<1>4. \A e \in b.money : e = <<e[1], e[2]>>
  <2> SUFFICES ASSUME NEW e \in b.money PROVE e = <<e[1], e[2]>>
    OBVIOUS
  <2>1. e \in LedgerEdges(b.syndicates)
    BY DEF IsBundle
  <2>2. QED
    BY <2>1 DEF LedgerEdges
<1>5. Reachable(b, c) <=> HasNode(b.money, m) /\ HasNode(b.money, cash) /\ HasPath(b.money, m, cash)
  BY DEF Reachable
<1>6. ToL2(b, s, m) <=> <<m, l2>> \in b.money
  BY DEF ToL2
<1>7. ToCash(b, s) <=> <<l2, cash>> \in b.money
  BY DEF ToCash
<1> HIDE DEF l2, cash, m
<1>8. ASSUME <<m, l2>> \in b.money, <<l2, cash>> \in b.money
      PROVE  HasNode(b.money, m) /\ HasNode(b.money, cash) /\ HasPath(b.money, m, cash)
  <2>1. HasNode(b.money, m) /\ HasNode(b.money, cash)
    BY <1>8 DEF HasNode
  <2>2. ASSUME NEW S, m \in S, \A e \in b.money : e[1] \in S => e[2] \in S
        PROVE  cash \in S
    BY <1>8, <2>2
  <2>3. HasPath(b.money, m, cash)
    BY <2>2 DEF HasPath
  <2>4. QED
    BY <2>1, <2>3
<1>9. ASSUME <<m, l2>> \notin b.money PROVE ~HasPath(b.money, m, cash)
  <2>1. \A e \in b.money : e[1] # m
    BY <1>3, <1>4, <1>9
  <2>2. {m} \in SUBSET N /\ m \in {m} /\ cash \notin {m}
    BY <1>2
  <2>3. \A e \in b.money : e[1] \in {m} => e[2] \in {m}
    BY <2>1
  <2>4. QED
    BY <2>2, <2>3 DEF HasPath
<1>10. ASSUME <<m, l2>> \in b.money, <<l2, cash>> \notin b.money PROVE ~HasPath(b.money, m, cash)
  <2>1. \A e \in b.money : e[1] # l2
    BY <1>3, <1>4, <1>10
  <2>2. l2 \in N
    BY <1>10 DEF LedgerNodes
  <2>3. {m, l2} \in SUBSET N /\ m \in {m, l2} /\ cash \notin {m, l2}
    BY <1>2, <2>2
  <2>4. \A e \in b.money : e[1] \in {m, l2} => e[2] \in {m, l2}
    BY <1>3, <2>1
  <2>5. QED
    BY <2>3, <2>4 DEF HasPath
<1>11. Reachable(b, c) <=> ToL2(b, s, m) /\ ToCash(b, s)
  BY <1>5, <1>6, <1>7, <1>8, <1>9, <1>10
<1>12. QED
  BY <1>11 DEF m

(* The mules that were fed, and where what they were fed goes on.          *)
KeptMules(b, s, kept, M) ==
  kept \in Seq(Mules(b, s)) /\ Distinct(kept) /\ Range(kept) = M
LEMMA KeepIs ==
  ASSUME NEW X, NEW t \in Seq(X), Distinct(t), NEW I \in SUBSET DOMAIN t
  PROVE  /\ AtPlaces(t, I) \in Seq(X) /\ Distinct(AtPlaces(t, I))
         /\ Range(AtPlaces(t, I)) = {t[i] : i \in I}
BY AtPlacesSeq, AtPlacesDistinct

LEMMA FedIs ==
  ASSUME NEW b, IsBundle(b), NEW s \in Syndicates
  PROVE  KeptMules(b, s, Fed(b, s), {m \in Mules(b, s) : Flow(b, s, m) > 0})
<1> DEFINE l1 == b.syndicates[s].l1
           I == {i \in DOMAIN l1 : Flow(b, s, l1[i]) > 0}
<1>1. l1 \in Seq(Mules(b, s)) /\ Distinct(l1) /\ Mules(b, s) = Range(l1)
  BY BundleLayered DEF IsLayered, Mules
<1>2. Fed(b, s) = AtPlaces(l1, I)
  BY DEF Fed, Keep
<1>3. {l1[i] : i \in I} = {m \in Mules(b, s) : Flow(b, s, m) > 0}
  BY <1>1 DEF Range
<1>4. I \in SUBSET DOMAIN l1
  OBVIOUS
<1> HIDE DEF I, l1
<1>5. QED
  BY <1>1, <1>2, <1>3, <1>4, KeepIs DEF KeptMules

LEMMA OnwardIs ==
  ASSUME NEW b, IsBundle(b), NEW s \in Syndicates
  PROVE  /\ KeptMules(b, s, Onward(b, s), {m \in Range(Fed(b, s)) : ToL2(b, s, m)})
         /\ KeptMules(b, s, Stuck(b, s), {m \in Range(Fed(b, s)) : ~ToL2(b, s, m)})
<1> DEFINE fed == Fed(b, s)
           I == {i \in DOMAIN fed : ToL2(b, s, fed[i])}
           J == {i \in DOMAIN fed : ~ToL2(b, s, fed[i])}
<1>1. fed \in Seq(Mules(b, s)) /\ Distinct(fed)
  BY FedIs DEF KeptMules
<1>2. Onward(b, s) = AtPlaces(fed, I) /\ Stuck(b, s) = AtPlaces(fed, J)
  BY DEF Onward, Stuck, Keep
<1> HIDE DEF fed
<1>3. /\ {fed[i] : i \in I} = {m \in Range(fed) : ToL2(b, s, m)}
      /\ {fed[i] : i \in J} = {m \in Range(fed) : ~ToL2(b, s, m)}
  BY DEF Range
<1>4. I \in SUBSET DOMAIN fed /\ J \in SUBSET DOMAIN fed
  OBVIOUS
<1> HIDE DEF I, J
<1>5. KeptMules(b, s, Onward(b, s), {m \in Range(fed) : ToL2(b, s, m)})
  BY <1>1, <1>2, <1>3, <1>4, KeepIs DEF KeptMules
<1>6. KeptMules(b, s, Stuck(b, s), {m \in Range(fed) : ~ToL2(b, s, m)})
  BY <1>1, <1>2, <1>3, <1>4, KeepIs DEF KeptMules
<1>7. QED
  BY <1>5, <1>6 DEF fed

LEMMA FlowsAre ==
  ASSUME NEW b, IsBundle(b), NEW s
  PROVE  /\ \A m : Flow(b, s, m) \in Nat
         /\ \A m \in Mules(b, s) : Flows(b, s)[m] = Flow(b, s, m) /\ Flows(b, s)[m] \in Nat
<1>1. ASSUME NEW m PROVE Flow(b, s, m) \in Nat
  <2> DEFINE C == {c \in FiledOf(b, s) : c.mule = m}
  <2>1. C \in SUBSET Filed(b)
    BY DEF FiledOf
  <2>2. IsFiniteSet(C) /\ \A c \in C : c.amt \in Nat
    BY <2>1, FiledIs, FS_Subset
  <2> HIDE DEF C
  <2>3. Value(C) \in Nat
    BY <2>2, ValueIs
  <2>4. QED
    BY <2>3 DEF Flow, C
<1>2. QED
  BY <1>1 DEF Flows

LEMMA FlowOfIs ==
  ASSUME NEW b, IsBundle(b), NEW s \in Syndicates, NEW M \in SUBSET Mules(b, s)
  PROVE  IsFiniteSet(M) /\ FlowOf(b, s, M) \in Nat
<1> DEFINE w == Flows(b, s)
<1>1. IsFiniteSet(M)
  BY BundleLayered, FS_Subset DEF IsLayered
<1>2. \A m \in M : w[m] \in Nat
  BY FlowsAre
<1> HIDE DEF w
<1>3. SumFunctionOnSet(w, M) \in Nat
  BY <1>1, <1>2, SumNat
<1>4. QED
  BY <1>1, <1>3 DEF FlowOf, w

(* What the mules M were fed is the value of the complaints that name them.*)
LEMMA FlowIsValue ==
  ASSUME NEW b, IsBundle(b), NEW s \in Syndicates, NEW M \in SUBSET Mules(b, s)
  PROVE  FlowOf(b, s, M) = Value({c \in FiledOf(b, s) : c.mule \in M})
<1> DEFINE V == {c \in FiledOf(b, s) : c.mule \in M}
           w == [c \in V |-> c.amt]
           group == [m \in M |-> {c \in FiledOf(b, s) : c.mule = m}]
           total == Flows(b, s)
<1>1. IsFiniteSet(FiledOf(b, s)) /\ \A c \in FiledOf(b, s) : c.amt \in Nat
  <2>1. FiledOf(b, s) \in SUBSET Filed(b)
    BY DEF FiledOf
  <2>2. QED
    BY <2>1, FiledIs, FS_Subset
<1>2. IsFiniteSet(M)
  BY FlowOfIs
<1>3. ASSUME NEW m \in M
      PROVE  /\ IsFiniteSet(group[m]) /\ \A c \in group[m] : c \in V /\ w[c] \in Int
             /\ total[m] = SumFunctionOnSet(w, group[m])
  <2> DEFINE G == {c \in FiledOf(b, s) : c.mule = m}
             v == [c \in G |-> c.amt]
  <2>1. group[m] = G /\ IsFiniteSet(G)
    BY <1>1, FS_Subset
  <2>2. \A c \in G : c \in V /\ w[c] = v[c] /\ w[c] \in Int
    BY <1>1
  <2>3. total[m] = SumFunctionOnSet(v, G)
    <3>1. total[m] = Flow(b, s, m)
      BY FlowsAre
    <3>2. QED
      BY <3>1 DEF Flow, Value, SumFunction
  <2> HIDE DEF G, v, w, group, total, V
  <2>4. SumFunctionOnSet(v, G) = SumFunctionOnSet(w, G)
    BY <2>1, <2>2, SumSame
  <2>5. QED
    BY <2>1, <2>2, <2>3, <2>4
<1>4. \A m, k \in M : m # k => group[m] \cap group[k] = {}
  OBVIOUS
<1>5. UNION {group[m] : m \in M} = V
  OBVIOUS
<1>6. Value(V) = SumFunctionOnSet(w, V)
  BY DEF Value, SumFunction
<1> HIDE DEF w, group, total, V
<1>7. SumFunctionOnSet(total, M) = SumFunctionOnSet(w, UNION {group[m] : m \in M})
  BY <1>2, <1>3, <1>4, SumGroups
<1>8. SumFunctionOnSet(total, M) = Value(V)
  BY <1>5, <1>6, <1>7
<1>9. QED
  BY <1>8 DEF FlowOf, total, V

(* All of the value of a syndicate entered at its mules, all that reached  *)
(* the second layer went on if anything did.                               *)
LEMMA ValueSplits ==
  ASSUME NEW b, IsBundle(b), NEW s \in Syndicates
  PROVE  LET onward == FlowOf(b, s, Range(Onward(b, s)))
             stuck == FlowOf(b, s, Range(Stuck(b, s)))
         IN /\ onward \in Nat /\ stuck \in Nat
            /\ Value(FiledOf(b, s)) = onward + stuck
            /\ Value({c \in FiledOf(b, s) : Reachable(b, c)}) = IF ToCash(b, s) THEN onward ELSE 0
<1> DEFINE M == Mules(b, s)
           fed == {m \in M : Flow(b, s, m) > 0}
           on == {m \in fed : ToL2(b, s, m)}
           stuck == {m \in fed : ~ToL2(b, s, m)}
           through == {m \in M : ToL2(b, s, m)}
           w == Flows(b, s)
<1>1. Range(Fed(b, s)) = fed /\ Range(Onward(b, s)) = on /\ Range(Stuck(b, s)) = stuck
  BY FedIs, OnwardIs DEF KeptMules
<1>2. /\ fed \in SUBSET M /\ on \in SUBSET M /\ stuck \in SUBSET M /\ through \in SUBSET M
      /\ fed = on \cup stuck /\ on \cap stuck = {} /\ on \in SUBSET through
  OBVIOUS
<1>3. \A c \in FiledOf(b, s) : c.synd = s /\ c.mule \in M
  <2>1. \A c \in Filed(b) : IsComplaint(b, c)
    BY FiledIs, BundleIndexed DEF IsIndexed
  <2>2. \A c \in FiledOf(b, s) : c.synd = s /\ IsComplaint(b, c)
    BY <2>1 DEF FiledOf
  <2>3. ~(s < 0)
    BY SyntheticAssumption DEF Syndicates
  <2>4. QED
    BY <2>2, <2>3 DEF IsComplaint, IsFraud, IsNoise, Mules, Range
<1>4. \A m \in M : w[m] \in Nat /\ w[m] = Flow(b, s, m)
  BY FlowsAre
<1>5. \A m \in M \ fed : w[m] = 0
  BY <1>4
<1>6. \A m \in through \ on : w[m] = 0
  BY <1>4
<1> HIDE DEF fed, on, stuck, through, M, w
<1>7. IsFiniteSet(M) /\ IsFiniteSet(on) /\ IsFiniteSet(stuck) /\ IsFiniteSet(through)
  BY <1>2, FlowOfIs DEF M
<1>8. FlowOf(b, s, M) = SumFunctionOnSet(w, fed)
  BY <1>2, <1>4, <1>5, <1>7, SumSupport DEF FlowOf, w
<1>9. SumFunctionOnSet(w, on \cup stuck) = SumFunctionOnSet(w, on) + SumFunctionOnSet(w, stuck)
  BY <1>2, <1>4, <1>7, SumUnion
<1>10. SumFunctionOnSet(w, through) = SumFunctionOnSet(w, on)
  BY <1>2, <1>4, <1>6, <1>7, SumSupport
<1>11. FlowOf(b, s, on) \in Nat /\ FlowOf(b, s, stuck) \in Nat
  BY <1>2, FlowOfIs DEF M
<1>12. \A N : FlowOf(b, s, N) = SumFunctionOnSet(w, N)
  BY DEF FlowOf, w
<1>13. Value(FiledOf(b, s)) = FlowOf(b, s, M)
  <2>1. {c \in FiledOf(b, s) : c.mule \in M} = FiledOf(b, s)
    BY <1>3
  <2>2. QED
    BY <2>1, FlowIsValue DEF M
<1>14. Value({c \in FiledOf(b, s) : Reachable(b, c)}) = IF ToCash(b, s) THEN FlowOf(b, s, on) ELSE 0
  <2>1. \A c \in FiledOf(b, s) : Reachable(b, c) <=> c.mule \in through /\ ToCash(b, s)
    BY <1>3, ReachedBy DEF through, M
  <2>2. CASE ToCash(b, s)
    <3>1. {c \in FiledOf(b, s) : Reachable(b, c)} = {c \in FiledOf(b, s) : c.mule \in through}
      BY <2>1, <2>2
    <3>2. Value({c \in FiledOf(b, s) : c.mule \in through}) = FlowOf(b, s, through)
      BY <1>2, FlowIsValue DEF M
    <3>3. QED
      BY <1>10, <1>12, <2>2, <3>1, <3>2
  <2>3. CASE ~ToCash(b, s)
    <3>1. {c \in FiledOf(b, s) : Reachable(b, c)} = {}
      BY <2>1, <2>3
    <3>2. Value({}) = 0
      BY SumEmpty DEF Value, SumFunction
    <3>3. QED
      BY <2>3, <3>1, <3>2
  <2>4. QED
    BY <2>2, <2>3
<1>15. Value(FiledOf(b, s)) = FlowOf(b, s, on) + FlowOf(b, s, stuck)
  BY <1>2, <1>8, <1>9, <1>12, <1>13
<1>16. QED
  BY <1>1, <1>11, <1>14, <1>15

(* The hops of a trail in order: into the mules, on to the second layer,   *)
(* and to cash-out.                                                        *)
Reached(b, s) == FlowOf(b, s, Range(Onward(b, s)))
Cashed(b, s) == IF ToCash(b, s) /\ Reached(b, s) > 0 THEN 1 ELSE 0
IsWalked(b, s, hops) ==
  LET fed == Fed(b, s)
      onward == Onward(b, s)
      n == Len(fed) + Len(onward)
  IN /\ Len(fed) \in Nat /\ Len(onward) \in Nat
     /\ DOMAIN fed = 1..Len(fed) /\ DOMAIN onward = 1..Len(onward)
     /\ DOMAIN hops = 1..(n + Cashed(b, s))
     /\ \A i \in 1..Len(fed) : hops[i] = Hop("victims", fed[i], Flow(b, s, fed[i]))
     /\ \A i \in 1..Len(onward) : hops[Len(fed) + i] = Hop(onward[i], L2(s), Flow(b, s, onward[i]))
     /\ Cashed(b, s) = 1 => hops[n + 1] = Hop(L2(s), Cash(s), Reached(b, s))
LEMMA ReachedIs ==
  ASSUME NEW b, IsBundle(b), NEW s \in Syndicates
  PROVE  SumFunction([m \in Range(Onward(b, s)) |-> Flow(b, s, m)]) = Reached(b, s)
<1> DEFINE M == Range(Onward(b, s))
           v == [m \in M |-> Flow(b, s, m)]
           w == Flows(b, s)
<1>1. M \in SUBSET Mules(b, s) /\ IsFiniteSet(M)
  BY OnwardIs, FedIs, FlowOfIs DEF KeptMules
<1>2. \A m \in M : w[m] \in Int /\ v[m] = w[m]
  <2>1. Nat \subseteq Int
    OBVIOUS
  <2>2. QED
    BY <1>1, <2>1, FlowsAre
<1>3. SumFunction(v) = SumFunctionOnSet(v, M)
  BY DEF SumFunction
<1> HIDE DEF M, v, w
<1>4. SumFunctionOnSet(v, M) = SumFunctionOnSet(w, M)
  BY <1>1, <1>2, SumSame
<1>5. QED
  BY <1>3, <1>4 DEF Reached, FlowOf, M, v, w

LEMMA HopsAre ==
  ASSUME NEW b, IsBundle(b), NEW s \in Syndicates
  PROVE  IsWalked(b, s, NetworkTrail(b, s).hops)
<1> DEFINE fed == Fed(b, s)
           onward == Onward(b, s)
           A == [i \in DOMAIN fed |-> Hop("victims", fed[i], Flow(b, s, fed[i]))]
           B == [i \in DOMAIN onward |-> Hop(onward[i], L2(s), Flow(b, s, onward[i]))]
           C == IF Cashed(b, s) = 1 THEN <<Hop(L2(s), Cash(s), Reached(b, s))>> ELSE <<>>
           X == Range(A) \cup Range(B) \cup Range(C)
<1>1. /\ Len(fed) \in Nat /\ DOMAIN fed = 1..Len(fed)
      /\ Len(onward) \in Nat /\ DOMAIN onward = 1..Len(onward)
  BY FedIs, OnwardIs DEF KeptMules
<1>2. b.syndicates[s].l2 = L2(s) /\ b.syndicates[s].cash = Cash(s)
  BY BundleLayered DEF IsLayered
<1>3. NetworkTrail(b, s).hops = A \o B \o C
  <2> DEFINE l2 == b.syndicates[s].l2
             cash == b.syndicates[s].cash
             sum == SumFunction([m \in Range(onward) |-> Flow(b, s, m)])
             last == IF ToCash(b, s) /\ sum > 0 THEN <<Hop(l2, cash, sum)>> ELSE <<>>
             second == [i \in DOMAIN onward |-> Hop(onward[i], l2, Flow(b, s, onward[i]))]
  <2>1. NetworkTrail(b, s).hops = A \o second \o last
    BY DEF NetworkTrail, Fed, Onward, ToL2, ToCash
  <2>2. second = B
    BY <1>2
  <2>3. last = C
    BY <1>2, ReachedIs DEF Cashed
  <2> HIDE DEF A, B, C, second, last
  <2>4. QED
    BY <2>1, <2>2, <2>3
<1> HIDE DEF fed, onward
<1>4. A \in Seq(X) /\ Len(A) = Len(fed) /\ \A i \in 1..Len(fed) : A[i] = Hop("victims", fed[i], Flow(b, s, fed[i]))
  BY <1>1 DEF Range
<1>5. B \in Seq(X) /\ Len(B) = Len(onward)
      /\ \A i \in 1..Len(onward) : B[i] = Hop(onward[i], L2(s), Flow(b, s, onward[i]))
  BY <1>1 DEF Range
<1>6. C \in Seq(X) /\ Len(C) = Cashed(b, s)
      /\ (Cashed(b, s) = 1 => C[1] = Hop(L2(s), Cash(s), Reached(b, s)))
  <2>1. CASE Cashed(b, s) = 1
    BY <2>1 DEF Range
  <2>2. CASE Cashed(b, s) # 1
    <3>1. Cashed(b, s) = 0
      BY <2>2 DEF Cashed
    <3>2. QED
      BY <3>1
  <2>3. QED
    BY <2>1, <2>2
<1>7. Cashed(b, s) \in {0, 1}
  BY DEF Cashed
<1> HIDE DEF A, B, C, X
<1>8. A \o B \in Seq(X) /\ Len(A \o B) = Len(fed) + Len(onward)
  BY <1>4, <1>5
<1>9. /\ \A i \in 1..Len(fed) : (A \o B)[i] = A[i]
      /\ \A i \in 1..Len(onward) : (A \o B)[Len(fed) + i] = B[i]
  BY <1>1, <1>4, <1>5
<1> DEFINE AB == A \o B
           hops == AB \o C
           n == Len(fed) + Len(onward)
<1>10. AB \in Seq(X) /\ Len(AB) = n /\ n \in Nat
  BY <1>1, <1>8
<1>11. hops = NetworkTrail(b, s).hops
  BY <1>3
<1>12. /\ \A i \in 1..Len(fed) : AB[i] = A[i]
       /\ \A i \in 1..Len(onward) : AB[Len(fed) + i] = B[i]
  BY <1>9
<1> HIDE DEF AB
<1>13. DOMAIN hops = 1..(n + Cashed(b, s))
  BY <1>6, <1>7, <1>10
<1>14. \A i \in 1..n : hops[i] = AB[i]
  BY <1>6, <1>10
<1>15. Cashed(b, s) = 1 => hops[n + 1] = C[1]
  <2> SUFFICES ASSUME Cashed(b, s) = 1 PROVE hops[n + 1] = C[1]
    OBVIOUS
  <2>1. \A i \in 1 .. Len(AB) + Len(C) :
          (AB \o C)[i] = IF i <= Len(AB) THEN AB[i] ELSE C[i - Len(AB)]
    <3>1. AB \in Seq(X) /\ C \in Seq(X)
      BY <1>6, <1>10
    <3> HIDE DEF n
    <3>2. QED
      BY <3>1, ConcatProperties
  <2>2. n + 1 \in 1 .. Len(AB) + Len(C) /\ ~(n + 1 <= Len(AB)) /\ n + 1 - Len(AB) = 1
    BY <1>6, <1>10
  <2>3. QED
    BY <2>1, <2>2
<1> HIDE DEF hops
<1>16. \A i \in 1..Len(fed) : hops[i] = Hop("victims", fed[i], Flow(b, s, fed[i]))
  <2>1. \A i \in 1..Len(fed) : i \in 1..n
    BY <1>1
  <2>2. QED
    BY <1>4, <1>12, <1>14, <2>1
<1>17. \A i \in 1..Len(onward) : hops[Len(fed) + i] = Hop(onward[i], L2(s), Flow(b, s, onward[i]))
  <2>1. \A i \in 1..Len(onward) : Len(fed) + i \in 1..n
    BY <1>1
  <2>2. QED
    BY <1>5, <1>12, <1>14, <2>1
<1>18. Cashed(b, s) = 1 => hops[n + 1] = Hop(L2(s), Cash(s), Reached(b, s))
  BY <1>6, <1>15
<1>19. IsWalked(b, s, hops)
  BY <1>1, <1>13, <1>16, <1>17, <1>18 DEF IsWalked, fed, onward
<1>20. QED
  BY <1>11, <1>19

(* What the hops bring into a node.                                        *)
Weights(hops, x) == [i \in DOMAIN hops |-> IF hops[i].dst = x THEN hops[i].amount ELSE 0]
Into(hops, x) == SumFunction(Weights(hops, x))
LEMMA WalkedAt ==
  ASSUME NEW b, NEW s, NEW hops, IsWalked(b, s, hops)
  PROVE  LET nf == Len(Fed(b, s))
             no == Len(Onward(b, s))
         IN /\ \A i \in 1..nf : hops[i].dst = Fed(b, s)[i] /\ hops[i].amount = Flow(b, s, Fed(b, s)[i])
            /\ \A i \in 1..no :
                 hops[nf + i].dst = L2(s) /\ hops[nf + i].amount = Flow(b, s, Onward(b, s)[i])
            /\ Cashed(b, s) = 1 =>
                 hops[nf + no + 1].dst = Cash(s) /\ hops[nf + no + 1].amount = Reached(b, s)
            /\ \A i \in DOMAIN hops :
                 \/ i \in 1..nf
                 \/ i \notin 1..nf /\ i - nf \in 1..no /\ i = nf + (i - nf)
                 \/ Cashed(b, s) = 1 /\ i = nf + no + 1
<1> DEFINE nf == Len(Fed(b, s))
           no == Len(Onward(b, s))
           k == Cashed(b, s)
<1>1. nf \in Nat /\ no \in Nat /\ DOMAIN hops = 1..(nf + no + k) /\ k \in {0, 1}
  BY DEF IsWalked, Cashed
<1>2. \A i \in 1..nf : hops[i] = Hop("victims", Fed(b, s)[i], Flow(b, s, Fed(b, s)[i]))
  BY DEF IsWalked
<1>3. \A i \in 1..no : hops[nf + i] = Hop(Onward(b, s)[i], L2(s), Flow(b, s, Onward(b, s)[i]))
  BY DEF IsWalked
<1>4. k = 1 => hops[nf + no + 1] = Hop(L2(s), Cash(s), Reached(b, s))
  BY DEF IsWalked
<1> HIDE DEF nf, no, k
<1>5. \A i \in DOMAIN hops :
        \/ i \in 1..nf
        \/ i \notin 1..nf /\ i - nf \in 1..no /\ i = nf + (i - nf)
        \/ k = 1 /\ i = nf + no + 1
  BY <1>1
<1>6. \A x, y, z : Hop(x, y, z).dst = y /\ Hop(x, y, z).amount = z
  BY DEF Hop
<1>7. \A i \in 1..nf : hops[i].dst = Fed(b, s)[i] /\ hops[i].amount = Flow(b, s, Fed(b, s)[i])
  BY <1>2, <1>6
<1>8. \A i \in 1..no : hops[nf + i].dst = L2(s) /\ hops[nf + i].amount = Flow(b, s, Onward(b, s)[i])
  BY <1>3, <1>6
<1>9. k = 1 => hops[nf + no + 1].dst = Cash(s) /\ hops[nf + no + 1].amount = Reached(b, s)
  BY <1>4, <1>6
<1>10. QED
  BY <1>5, <1>7, <1>8, <1>9 DEF nf, no, k

(* The hops into x are those at the places I.                              *)
LedInto(hops, x, I) ==
  I \subseteq DOMAIN hops /\ \A i \in DOMAIN hops : hops[i].dst = x <=> i \in I
SummedInto(hops, x, I) ==
  /\ \A i \in I : Weights(hops, x)[i] = hops[i].amount /\ hops[i].amount \in Nat
  /\ Into(hops, x) = SumFunctionOnSet(Weights(hops, x), I)
LEMMA IntoAt ==
  ASSUME NEW b, IsBundle(b), NEW s \in Syndicates, NEW hops, IsWalked(b, s, hops), NEW x, NEW I,
         LedInto(hops, x, I)
  PROVE  SummedInto(hops, x, I)
<1> DEFINE w == Weights(hops, x)
           D == DOMAIN hops
           nf == Len(Fed(b, s))
           no == Len(Onward(b, s))
           k == Cashed(b, s)
<1>1. nf \in Nat /\ no \in Nat /\ D = 1..(nf + no + k) /\ k \in {0, 1}
  BY DEF IsWalked, Cashed
<1>2. IsFiniteSet(D)
  <2>1. PICK d \in Nat : D = 1..d
    BY <1>1
  <2>2. QED
    BY <2>1, CountUpTo
<1>3. \A i \in D : hops[i].amount \in Nat
  <2> SUFFICES ASSUME NEW i \in D PROVE hops[i].amount \in Nat
    OBVIOUS
  <2>1. Reached(b, s) \in Nat
    BY OnwardIs, FedIs, FlowOfIs DEF Reached, KeptMules
  <2>2. \A m : Flow(b, s, m) \in Nat
    BY FlowsAre
  <2>3. QED
    BY <2>1, <2>2, WalkedAt
<1>4. \A i \in D : w[i] = IF i \in I THEN hops[i].amount ELSE 0
  BY DEF Weights, LedInto
<1>5. Into(hops, x) = SumFunctionOnSet(w, D)
  BY DEF Into, SumFunction, Weights
<1> HIDE DEF w, D
<1>6. \A i \in D : w[i] \in Int
  BY <1>3, <1>4
<1>7. \A i \in D \ I : w[i] = 0
  BY <1>4
<1>8. I \in SUBSET D
  BY DEF D, LedInto
<1>9. SumFunctionOnSet(w, D) = SumFunctionOnSet(w, I)
  BY <1>2, <1>6, <1>7, <1>8, SumSupport
<1>10. IsFiniteSet(I) /\ \A i \in I : w[i] = hops[i].amount /\ hops[i].amount \in Nat
  BY <1>2, <1>3, <1>4, <1>8, FS_Subset
<1>11. QED
  BY <1>5, <1>9, <1>10 DEF w, SummedInto

(* Where each hop goes.                                                    *)
LEMMA HopsGo ==
  ASSUME NEW b, IsBundle(b), NEW s \in Syndicates, NEW hops, IsWalked(b, s, hops)
  PROVE  LET nf == Len(Fed(b, s))
             no == Len(Onward(b, s))
         IN /\ \A i \in DOMAIN hops :
                 \/ i \in 1..nf /\ hops[i].dst = Fed(b, s)[i] /\ Fed(b, s)[i] \in Mules(b, s)
                 \/ i \notin 1..nf /\ i - nf \in 1..no /\ hops[i].dst = L2(s)
                 \/ Cashed(b, s) = 1 /\ i = nf + no + 1 /\ hops[i].dst = Cash(s)
            /\ \A m \in Mules(b, s) : m # L2(s) /\ m # Cash(s)
            /\ L2(s) # Cash(s)
<1> DEFINE nf == Len(Fed(b, s))
           no == Len(Onward(b, s))
           k == Cashed(b, s)
<1>1. nf \in Nat /\ no \in Nat /\ DOMAIN hops = 1..(nf + no + k) /\ k \in {0, 1}
  BY DEF IsWalked, Cashed
<1>2. \A m \in Mules(b, s) : m # L2(s) /\ m # Cash(s)
  BY BundleLayered, LayersApart DEF IsLayered
<1>3. L2(s) # Cash(s)
  BY LayersApart
<1>4. \A i \in 1..nf : Fed(b, s)[i] \in Mules(b, s)
  BY FedIs DEF KeptMules
<1>5. ASSUME NEW i \in DOMAIN hops
      PROVE  \/ i \in 1..nf /\ hops[i].dst = Fed(b, s)[i] /\ Fed(b, s)[i] \in Mules(b, s)
             \/ i \notin 1..nf /\ i - nf \in 1..no /\ hops[i].dst = L2(s)
             \/ Cashed(b, s) = 1 /\ i = nf + no + 1 /\ hops[i].dst = Cash(s)
  <2>1. QED
    BY <1>4, WalkedAt
<1>6. QED
  BY <1>2, <1>3, <1>5

LEMMA IntoCash ==
  ASSUME NEW b, IsBundle(b), NEW s \in Syndicates, NEW hops, IsWalked(b, s, hops)
  PROVE  Into(hops, Cash(s)) = IF Cashed(b, s) = 1 THEN Reached(b, s) ELSE 0
<1> DEFINE nf == Len(Fed(b, s))
           no == Len(Onward(b, s))
           k == Cashed(b, s)
           I == IF k = 1 THEN {nf + no + 1} ELSE {}
           w == Weights(hops, Cash(s))
<1>1. nf \in Nat /\ no \in Nat /\ DOMAIN hops = 1..(nf + no + k) /\ k \in {0, 1}
  BY DEF IsWalked, Cashed
<1>2. /\ \A i \in DOMAIN hops :
           \/ i \in 1..nf /\ hops[i].dst = Fed(b, s)[i] /\ Fed(b, s)[i] \in Mules(b, s)
           \/ i \notin 1..nf /\ i - nf \in 1..no /\ hops[i].dst = L2(s)
           \/ Cashed(b, s) = 1 /\ i = nf + no + 1 /\ hops[i].dst = Cash(s)
      /\ \A m \in Mules(b, s) : m # Cash(s)
      /\ L2(s) # Cash(s)
  BY HopsGo
<1>3. I \in SUBSET DOMAIN hops
  BY <1>1
<1>4. \A i \in DOMAIN hops : hops[i].dst = Cash(s) <=> i \in I
  BY <1>1, <1>2
<1>5. k = 1 => hops[nf + no + 1].amount = Reached(b, s)
  BY WalkedAt
<1> HIDE DEF I
<1>6. /\ \A i \in I : w[i] = hops[i].amount /\ hops[i].amount \in Nat
      /\ Into(hops, Cash(s)) = SumFunctionOnSet(w, I)
  <2> DEFINE x == Cash(s)
  <2>1. LedInto(hops, x, I)
    BY <1>3, <1>4 DEF LedInto
  <2> HIDE DEF x
  <2>2. SummedInto(hops, x, I)
    BY <2>1, IntoAt
  <2>3. QED
    BY <2>2 DEF x, SummedInto
<1>7. CASE k = 1
  <2>1. I = {nf + no + 1}
    BY <1>7 DEF I
  <2>2. w[nf + no + 1] = Reached(b, s) /\ w[nf + no + 1] \in Int
    BY <1>5, <1>6, <1>7, <2>1
  <2> DEFINE z == nf + no + 1
  <2>3. w[z] = Reached(b, s) /\ w[z] \in Int /\ I = {z}
    BY <2>1, <2>2
  <2> HIDE DEF w, z
  <2>4. SumFunctionOnSet(w, {z}) = w[z]
    BY <2>3, SumSingle
  <2>5. QED
    BY <1>6, <1>7, <2>3, <2>4
<1>8. CASE k # 1
  <2>1. I = {}
    BY <1>8 DEF I
  <2>2. QED
    BY <1>6, <1>8, <2>1, SumEmpty
<1>9. QED
  BY <1>7, <1>8

LEMMA IntoMule ==
  ASSUME NEW b, IsBundle(b), NEW s \in Syndicates, NEW hops, IsWalked(b, s, hops),
         NEW m \in Range(Fed(b, s))
  PROVE  Into(hops, m) = Flow(b, s, m)
<1> DEFINE fed == Fed(b, s)
           nf == Len(Fed(b, s))
           no == Len(Onward(b, s))
           k == Cashed(b, s)
           w == Weights(hops, m)
<1>1. nf \in Nat /\ no \in Nat /\ DOMAIN hops = 1..(nf + no + k) /\ k \in {0, 1} /\ DOMAIN fed = 1..nf
  BY DEF IsWalked, Cashed
<1>2. PICK j \in 1..nf : m = fed[j]
  BY <1>1 DEF Range
<1>3. Distinct(fed) /\ m \in Mules(b, s)
  BY FedIs DEF KeptMules
<1>4. /\ \A i \in DOMAIN hops :
           \/ i \in 1..nf /\ hops[i].dst = Fed(b, s)[i] /\ Fed(b, s)[i] \in Mules(b, s)
           \/ i \notin 1..nf /\ i - nf \in 1..no /\ hops[i].dst = L2(s)
           \/ Cashed(b, s) = 1 /\ i = nf + no + 1 /\ hops[i].dst = Cash(s)
      /\ m # L2(s) /\ m # Cash(s)
  BY <1>3, HopsGo
<1>5. j \in DOMAIN hops /\ nf + no + 1 \notin 1..nf
  BY <1>1, <1>2
<1>6. hops[j] = Hop("victims", fed[j], Flow(b, s, fed[j]))
  BY <1>2 DEF IsWalked
<1>7. \A i \in 1..nf : fed[i] = m => i = j
  BY <1>1, <1>2, <1>3 DEF Distinct
<1>8. \A i \in DOMAIN hops : hops[i].dst = m <=> i \in {j}
  BY <1>2, <1>4, <1>6, <1>7 DEF Hop
<1> DEFINE I == {j}
<1>9. LedInto(hops, m, I)
  BY <1>5, <1>8 DEF LedInto
<1> HIDE DEF I
<1>10. /\ \A i \in I : w[i] = hops[i].amount /\ hops[i].amount \in Nat
       /\ Into(hops, m) = SumFunctionOnSet(w, I)
  <2>1. SummedInto(hops, m, I)
    BY <1>9, IntoAt
  <2>2. QED
    BY <2>1 DEF SummedInto
<1>11. I = {j} /\ w[j] = Flow(b, s, m) /\ w[j] \in Int
  BY <1>2, <1>6, <1>10 DEF I, Hop
<1> HIDE DEF w
<1>12. SumFunctionOnSet(w, {j}) = w[j]
  BY <1>11, SumSingle
<1>13. QED
  BY <1>10, <1>11, <1>12

LEMMA IntoSecond ==
  ASSUME NEW b, IsBundle(b), NEW s \in Syndicates, NEW hops, IsWalked(b, s, hops)
  PROVE  Into(hops, L2(s)) = Reached(b, s)
<1> DEFINE onward == Onward(b, s)
           nf == Len(Fed(b, s))
           no == Len(Onward(b, s))
           k == Cashed(b, s)
           J == 1..no
           at == [i \in J |-> nf + i]
           I == {at[i] : i \in J}
           w == Weights(hops, L2(s))
           flows == Flows(b, s)
           v == [i \in J |-> Flow(b, s, onward[i])]
<1>1. nf \in Nat /\ no \in Nat /\ DOMAIN hops = 1..(nf + no + k) /\ k \in {0, 1} /\ DOMAIN onward = J
  BY DEF IsWalked, Cashed
<1>2. /\ \A i \in DOMAIN hops :
           \/ i \in 1..nf /\ hops[i].dst = Fed(b, s)[i] /\ Fed(b, s)[i] \in Mules(b, s)
           \/ i \notin 1..nf /\ i - nf \in 1..no /\ hops[i].dst = L2(s)
           \/ Cashed(b, s) = 1 /\ i = nf + no + 1 /\ hops[i].dst = Cash(s)
      /\ \A m \in Mules(b, s) : m # L2(s)
      /\ L2(s) # Cash(s)
  BY HopsGo
<1>3. Distinct(onward) /\ (\A i \in J : onward[i] \in Mules(b, s)) /\ Range(onward) = {onward[i] : i \in J}
  BY <1>1, OnwardIs DEF KeptMules, Range
<1>4. I \in SUBSET DOMAIN hops
  BY <1>1
<1>5. \A i \in DOMAIN hops : i \in I <=> i - nf \in J
  BY <1>1
<1>6. nf + no + 1 - nf \notin J /\ \A i \in 1..nf : i - nf \notin J
  BY <1>1
<1>7. \A i \in DOMAIN hops : hops[i].dst = L2(s) <=> i \in I
  BY <1>2, <1>5, <1>6
<1>8. \A i \in J : hops[at[i]].amount = v[i]
  BY WalkedAt
<1>9. \A i, j \in J : at[i] = at[j] => i = j
  BY <1>1
<1>10. IsFiniteSet(J)
  BY <1>1, CountUpTo
<1>11. \A i \in J : v[i] \in Int /\ flows[onward[i]] = v[i]
  <2>1. \A i \in J : flows[onward[i]] = Flow(b, s, onward[i]) /\ flows[onward[i]] \in Nat
    BY <1>3, FlowsAre
  <2>2. QED
    BY <2>1
<1> HIDE DEF I, J, w, v, at, flows
<1>12. /\ \A i \in I : w[i] = hops[i].amount /\ hops[i].amount \in Nat
       /\ Into(hops, L2(s)) = SumFunctionOnSet(w, I)
  <2> DEFINE x == L2(s)
  <2>1. LedInto(hops, x, I)
    BY <1>4, <1>7 DEF LedInto
  <2> HIDE DEF x
  <2>2. SummedInto(hops, x, I)
    BY <2>1, IntoAt
  <2>3. QED
    BY <2>2 DEF x, w, SummedInto
<1>13. \A i \in J : w[at[i]] \in Int /\ v[i] = w[at[i]]
  <2>1. \A i \in J : at[i] \in I
    BY DEF I
  <2>2. QED
    BY <1>8, <1>11, <1>12, <2>1
<1>14. SumFunctionOnSet(v, J) = SumFunctionOnSet(w, I)
  BY <1>9, <1>10, <1>13, SumImage DEF I
<1>15. \A i, j \in J : onward[i] = onward[j] => i = j
  BY <1>1, <1>3 DEF Distinct
<1>16. SumFunctionOnSet(v, J) = SumFunctionOnSet(flows, {onward[i] : i \in J})
  <2> HIDE DEF onward
  <2>1. QED
    BY <1>10, <1>11, <1>15, SumImage
<1>17. SumFunctionOnSet(flows, Range(onward)) = Reached(b, s)
  BY DEF Reached, FlowOf, flows
<1>18. QED
  BY <1>3, <1>12, <1>14, <1>16, <1>17

(* Where the trail breaks: at each mule whose money went no further, and   *)
(* after the second layer when nothing left it.                            *)
LEMMA RangeConcat ==
  ASSUME NEW X, NEW p \in Seq(X), NEW q \in Seq(X)
  PROVE  Range(p \o q) = Range(p) \cup Range(q)
<1> DEFINE m == Len(p)
           n == Len(q)
<1>1. m \in Nat /\ n \in Nat /\ DOMAIN p = 1..m /\ DOMAIN q = 1..n /\ DOMAIN (p \o q) = 1..(m + n)
  OBVIOUS
<1>2. \A i \in 1..(m + n) : (p \o q)[i] = IF i <= m THEN p[i] ELSE q[i - m]
  BY ConcatProperties
<1> HIDE DEF m, n
<1>3. \A i \in 1..m : i \in 1..(m + n) /\ (p \o q)[i] = p[i]
  BY <1>1, <1>2
<1>4. \A i \in 1..n : m + i \in 1..(m + n) /\ (p \o q)[m + i] = q[i]
  <2> SUFFICES ASSUME NEW i \in 1..n PROVE m + i \in 1..(m + n) /\ (p \o q)[m + i] = q[i]
    OBVIOUS
  <2>1. m + i \in 1..(m + n) /\ ~(m + i <= m) /\ (m + i) - m = i
    BY <1>1
  <2>2. QED
    BY <1>2, <2>1
<1>5. \A i \in 1..(m + n) : i \in 1..m \/ (i - m \in 1..n /\ i = m + (i - m))
  BY <1>1
<1>6. ASSUME NEW i \in 1..(m + n) PROVE (p \o q)[i] \in Range(p) \cup Range(q)
  <2>1. CASE i \in 1..m
    BY <1>1, <1>3, <2>1 DEF Range
  <2>2. CASE i - m \in 1..n /\ i = m + (i - m)
    BY <1>1, <1>4, <2>2 DEF Range
  <2>3. QED
    BY <1>5, <2>1, <2>2
<1>7. \A i \in 1..m : p[i] \in Range(p \o q)
  BY <1>1, <1>3 DEF Range
<1>8. \A i \in 1..n : q[i] \in Range(p \o q)
  BY <1>1, <1>4 DEF Range
<1>9. Range(p \o q) \subseteq Range(p) \cup Range(q)
  BY <1>1, <1>6 DEF Range
<1>10. Range(p) \subseteq Range(p \o q) /\ Range(q) \subseteq Range(p \o q)
  BY <1>1, <1>7, <1>8 DEF Range
<1>11. QED
  BY <1>9, <1>10

Held(b, s) == ~ToCash(b, s) /\ Reached(b, s) > 0
LEMMA BreaksAre ==
  ASSUME NEW b, IsBundle(b), NEW s \in Syndicates
  PROVE  Range(NetworkTrail(b, s).breaks)
           = {<<m, L2(s)>> : m \in Range(Stuck(b, s))}
             \cup (IF Held(b, s) THEN {<<L2(s), Cash(s)>>} ELSE {})
<1> DEFINE stuck == Stuck(b, s)
           P == [i \in DOMAIN stuck |-> <<stuck[i], L2(s)>>]
           Q == IF Held(b, s) THEN <<<<L2(s), Cash(s)>>>> ELSE <<>>
           X == Range(P) \cup {<<L2(s), Cash(s)>>}
<1>1. b.syndicates[s].l2 = L2(s) /\ b.syndicates[s].cash = Cash(s)
  BY BundleLayered DEF IsLayered
<1>2. stuck \in Seq(Mules(b, s))
  BY OnwardIs DEF KeptMules
<1>3. NetworkTrail(b, s).breaks = P \o Q
  <2> DEFINE l2 == b.syndicates[s].l2
             cash == b.syndicates[s].cash
             sum == SumFunction([m \in Range(Onward(b, s)) |-> Flow(b, s, m)])
             last == IF ~ToCash(b, s) /\ sum > 0 THEN <<<<l2, cash>>>> ELSE <<>>
             first == [i \in DOMAIN stuck |-> <<stuck[i], l2>>]
  <2>1. NetworkTrail(b, s).breaks = first \o last
    BY DEF NetworkTrail, Fed, Onward, Stuck, ToL2, ToCash
  <2>2. first = P
    BY <1>1
  <2>3. last = Q
    BY <1>1, ReachedIs DEF Held
  <2> HIDE DEF P, Q, first, last
  <2>4. QED
    BY <2>1, <2>2, <2>3
<1>4. P \in Seq(X)
  <2> HIDE DEF stuck
  <2>1. Len(stuck) \in Nat /\ DOMAIN stuck = 1..Len(stuck)
    BY <1>2
  <2>2. QED
    BY <2>1 DEF Range
<1>5. Q \in Seq(X)
  <2>1. CASE Held(b, s)
    BY <2>1
  <2>2. CASE ~Held(b, s)
    BY <2>2
  <2>3. QED
    BY <2>1, <2>2
<1>6. Range(Q) = IF Held(b, s) THEN {<<L2(s), Cash(s)>>} ELSE {}
  BY DEF Range
<1>7. Range(P) = {<<m, L2(s)>> : m \in Range(stuck)}
  BY DEF Range
<1> HIDE DEF P, Q, X, stuck
<1>8. Range(P \o Q) = Range(P) \cup Range(Q)
  BY <1>4, <1>5, RangeConcat
<1>9. QED
  BY <1>3, <1>6, <1>7, <1>8 DEF stuck

(* What is held at the breaks.                                             *)
LEMMA BreakSum ==
  ASSUME NEW b, IsBundle(b), NEW s \in Syndicates, NEW hops, IsWalked(b, s, hops)
  PROVE  SumFunction([k \in Range(NetworkTrail(b, s).breaks) |-> Into(hops, k[1])])
           = FlowOf(b, s, Range(Stuck(b, s))) + (IF ToCash(b, s) THEN 0 ELSE Reached(b, s))
<1> DEFINE stuck == Range(Stuck(b, s))
           at == [m \in stuck |-> <<m, L2(s)>>]
           last == <<L2(s), Cash(s)>>
           S == {at[m] : m \in stuck}
           T == IF Held(b, s) THEN {last} ELSE {}
           B == Range(NetworkTrail(b, s).breaks)
           w == [k \in B |-> Into(hops, k[1])]
           flows == Flows(b, s)
<1>1. B = S \cup T
  BY BreaksAre
<1>2. /\ stuck \in SUBSET Mules(b, s) /\ stuck \in SUBSET Range(Fed(b, s))
      /\ IsFiniteSet(stuck) /\ FlowOf(b, s, stuck) \in Nat
  <2>1. stuck \in SUBSET Range(Fed(b, s)) /\ Range(Fed(b, s)) \in SUBSET Mules(b, s)
    BY OnwardIs, FedIs DEF KeptMules
  <2>2. QED
    BY <2>1, FlowOfIs
<1>3. Reached(b, s) \in Nat
  BY OnwardIs, FedIs, FlowOfIs DEF Reached, KeptMules
<1>4. \A m \in stuck : at[m] \in B /\ w[at[m]] = flows[m] /\ flows[m] \in Nat
  <2> SUFFICES ASSUME NEW m \in stuck PROVE at[m] \in B /\ w[at[m]] = flows[m] /\ flows[m] \in Nat
    OBVIOUS
  <2>1. Into(hops, m) = Flow(b, s, m)
    BY <1>2, IntoMule
  <2>2. flows[m] = Flow(b, s, m) /\ flows[m] \in Nat
    BY <1>2, FlowsAre
  <2>3. at[m] \in S /\ at[m][1] = m
    OBVIOUS
  <2>4. QED
    BY <1>1, <2>1, <2>2, <2>3
<1>5. \A m, n \in stuck : at[m] = at[n] => m = n
  OBVIOUS
<1>6. last \notin S
  <2>1. \A m \in Mules(b, s) : m # L2(s)
    BY BundleLayered, LayersApart DEF IsLayered
  <2>2. QED
    BY <1>2, <2>1
<1>7. Held(b, s) => last \in B /\ w[last] = Reached(b, s)
  BY <1>1, IntoSecond
<1>8. SumFunction(w) = SumFunctionOnSet(w, B)
  BY DEF SumFunction
<1>9. Held(b, s) <=> ~ToCash(b, s) /\ Reached(b, s) > 0
  BY DEF Held
<1> HIDE DEF at, last, w, flows, B, S, T, stuck
<1>10. \A m \in stuck : w[at[m]] \in Int /\ flows[m] = w[at[m]]
  BY <1>4
<1>11. SumFunctionOnSet(flows, stuck) = SumFunctionOnSet(w, S) /\ IsFiniteSet(S)
  BY <1>2, <1>5, <1>10, SumImage, ImageFinite DEF S
<1>12. \A k \in S : w[k] \in Int
  BY <1>10 DEF S
<1>13. SumFunctionOnSet(w, S) = FlowOf(b, s, stuck)
  BY <1>11 DEF FlowOf, flows
<1>14. CASE Held(b, s)
  <2>1. B = S \cup {last} /\ w[last] \in Int
    BY <1>1, <1>3, <1>7, <1>14 DEF T
  <2>2. SumFunctionOnSet(w, S \cup {last}) = SumFunctionOnSet(w, S) + w[last]
    BY <1>6, <1>11, <1>12, <2>1, SumAdd
  <2>3. QED
    BY <1>7, <1>8, <1>9, <1>13, <1>14, <2>1, <2>2 DEF w, B, stuck
<1>15. CASE ~Held(b, s)
  <2>1. B = S
    BY <1>1, <1>15 DEF T
  <2>2. FlowOf(b, s, stuck) = FlowOf(b, s, stuck) + (IF ToCash(b, s) THEN 0 ELSE Reached(b, s))
    BY <1>2, <1>3, <1>9, <1>15
  <2>3. QED
    BY <1>8, <1>13, <2>1, <2>2 DEF w, B, stuck
<1>16. QED
  BY <1>14, <1>15

(* One trail: what reached cash-out and what is held make up the total.    *)
IsConserved(b, s, t) ==
  /\ Into(t.hops, Cash(s)) = t.traced_amt
  /\ t.traced_amt + SumFunction([k \in Range(t.breaks) |-> Into(t.hops, k[1])]) = t.total_amt
LEMMA TrailConserved ==
  ASSUME NEW b, IsBundle(b), NEW s \in Syndicates
  PROVE  IsConserved(b, s, NetworkTrail(b, s))
<1> DEFINE t == NetworkTrail(b, s)
           stuck == FlowOf(b, s, Range(Stuck(b, s)))
           held == SumFunction([k \in Range(t.breaks) |-> Into(t.hops, k[1])])
<1>1. IsWalked(b, s, t.hops)
  BY HopsAre
<1>2. held = stuck + (IF ToCash(b, s) THEN 0 ELSE Reached(b, s))
  BY <1>1, BreakSum
<1>3. Into(t.hops, Cash(s)) = IF Cashed(b, s) = 1 THEN Reached(b, s) ELSE 0
  BY <1>1, IntoCash
<1>4. /\ t.traced_amt = Value({c \in FiledOf(b, s) : Reachable(b, c)})
      /\ t.total_amt = Value(FiledOf(b, s))
  BY DEF NetworkTrail
<1>5. /\ Reached(b, s) \in Nat /\ stuck \in Nat
      /\ t.total_amt = Reached(b, s) + stuck
      /\ t.traced_amt = IF ToCash(b, s) THEN Reached(b, s) ELSE 0
  BY <1>4, ValueSplits DEF Reached
<1>6. Cashed(b, s) = IF ToCash(b, s) /\ Reached(b, s) > 0 THEN 1 ELSE 0
  BY DEF Cashed
<1> HIDE DEF t, stuck, held
<1>7. Into(t.hops, Cash(s)) = t.traced_amt
  BY <1>3, <1>5, <1>6
<1>8. t.traced_amt + held = t.total_amt
  BY <1>2, <1>5
<1>9. QED
  BY <1>7, <1>8 DEF IsConserved, held, t

(* The headline figure is the sum over the networks.                       *)
LEMMA TracedSum ==
  ASSUME NEW b, IsBundle(b)
  PROVE  SumFunction([s \in Syndicates |-> NetworkTrail(b, s).traced_amt]) = TracedValue(b)
<1> DEFINE C == {c \in Filed(b) : c.synd >= 0 /\ Reachable(b, c)}
           w == [c \in C |-> c.amt]
           group == [s \in Syndicates |-> {c \in FiledOf(b, s) : Reachable(b, c)}]
           total == [s \in Syndicates |-> NetworkTrail(b, s).traced_amt]
<1>1. IsFiniteSet(Filed(b)) /\ \A c \in Filed(b) : c.amt \in Nat
  BY FiledIs
<1>2. IsFiniteSet(Syndicates) /\ \A s \in Syndicates : s >= 0
  BY SyntheticAssumption, FS_Interval DEF Syndicates
<1>3. \A c \in Filed(b) : c.synd >= 0 => c.synd \in Syndicates
  <2>1. \A c \in Filed(b) : IsComplaint(b, c)
    BY FiledIs, BundleIndexed DEF IsIndexed
  <2>2. \A c \in Filed(b) : c.synd \in Syndicates \/ (c.synd \in Int /\ c.synd < 0)
    BY <2>1 DEF IsComplaint, IsFraud, IsNoise
  <2>3. QED
    BY <2>2
<1>4. UNION {group[s] : s \in Syndicates} = C
  BY <1>2, <1>3 DEF FiledOf
<1>5. \A s, t \in Syndicates : s # t => group[s] \cap group[t] = {}
  BY DEF FiledOf
<1>6. ASSUME NEW s \in Syndicates
      PROVE  /\ IsFiniteSet(group[s]) /\ \A c \in group[s] : w[c] \in Int
             /\ total[s] = SumFunctionOnSet(w, group[s])
  <2> DEFINE G == {c \in FiledOf(b, s) : Reachable(b, c)}
             v == [c \in G |-> c.amt]
  <2>1. group[s] = G /\ total[s] = Value(G)
    BY TrailSums
  <2>2. G \in SUBSET Filed(b) /\ G \in SUBSET C
    BY <1>2, <1>4, <2>1 DEF FiledOf
  <2>3. IsFiniteSet(G) /\ \A c \in G : v[c] \in Int /\ w[c] = v[c]
    BY <1>1, <2>2, FS_Subset
  <2>4. Value(G) = SumFunctionOnSet(v, G)
    BY DEF Value, SumFunction
  <2> HIDE DEF v, w, G, group, total, C
  <2>5. SumFunctionOnSet(v, G) = SumFunctionOnSet(w, G)
    BY <2>3, SumSame
  <2>6. QED
    BY <2>1, <2>3, <2>4, <2>5
<1>7. SumFunction(total) = SumFunctionOnSet(total, Syndicates)
  BY DEF SumFunction
<1>8. TracedValue(b) = SumFunctionOnSet(w, C)
  BY DEF TracedValue, Value, SumFunction
<1> HIDE DEF w, group, total, C
<1>9. SumFunctionOnSet(total, Syndicates) = SumFunctionOnSet(w, UNION {group[s] : s \in Syndicates})
  <2>1. IsFiniteSet(Syndicates)
    BY <1>2
  <2>2. \A s \in Syndicates :
          /\ IsFiniteSet(group[s])
          /\ \A c \in group[s] : w[c] \in Int
          /\ total[s] = SumFunctionOnSet(w, group[s])
    BY <1>6
  <2>3. QED
    BY <1>5, <2>1, <2>2, SumGroups
<1>10. SumFunction(total) = TracedValue(b)
  BY <1>4, <1>7, <1>8, <1>9
<1>11. QED
  BY <1>10 DEF total

(* No rupee is lost or counted twice on a trail: what the hops bring to    *)
(* cash-out is the traced value, what they bring to a break makes up the   *)
(* rest of the network's total, the networks add up to the headline        *)
(* figure, and the last progress reported is that figure                   *)
(* (engine/money_trail.py, the money_trail stage of pipeline.py).          *)
THEOREM ValueIsConserved == Spec => []ValueConserved
<1>1. ASSUME PipelineInv, "trails" \in DOMAIN art PROVE ValueConserved
  <2> DEFINE b == art.bundle
  <2>1. Done >= 4
    BY <1>1, FieldsDone DEF FieldStage
  <2>2. IsBundle(b) /\ TrailsInv(art)
    BY <1>1, <2>1 DEF PipelineInv, ProductInv
  <2>3. /\ art.trails = Trails(b) /\ art.progress = Progress(b)
        /\ art.pct_traced = Percent(TracedValue(b), TotalValue(b))
    BY <2>2 DEF TrailsInv
  <2>4. DOMAIN b.syndicates = Syndicates /\ DOMAIN art.trails = Syndicates
    BY <2>2, <2>3 DEF IsBundle, Trails
  <2>5. \A s \in Syndicates : art.trails[s] = NetworkTrail(b, s)
    BY <2>2, <2>3, TrailRow
  <2>6. \A s \in Syndicates : IsConserved(b, s, art.trails[s]) /\ b.syndicates[s].cash = Cash(s)
    BY <2>2, <2>5, TrailConserved, BundleLayered DEF IsLayered
  <2>7. SumFunction([s \in Syndicates |-> art.trails[s].traced_amt]) = TracedValue(b)
    <3>1. [s \in Syndicates |-> art.trails[s].traced_amt]
            = [s \in Syndicates |-> NetworkTrail(b, s).traced_amt]
      BY <2>5
    <3>2. QED
      BY <2>2, <3>1, TracedSum
  <2>8. art.progress[NSynd - 1] = art.pct_traced
    <3>1. NSynd - 1 \in Syndicates /\ 0 .. NSynd - 1 = Syndicates
      BY SyntheticAssumption DEF Syndicates
    <3>2. [t \in Syndicates |-> Trails(b)[t].traced_amt] = [t \in Syndicates |-> art.trails[t].traced_amt]
      BY <2>3
    <3>3. Progress(b)[NSynd - 1]
            = Percent(SumFunction([t \in 0 .. NSynd - 1 |-> Trails(b)[t].traced_amt]), TotalValue(b))
      BY <2>4, <3>1 DEF Progress
    <3>4. QED
      BY <2>3, <2>7, <3>1, <3>2, <3>3
  <2>9. ASSUME NEW s \in DOMAIN art.trails
        PROVE  LET t == art.trails[s]
                   into(x) == SumFunction([i \in DOMAIN t.hops |->
                                IF t.hops[i].dst = x THEN t.hops[i].amount ELSE 0])
               IN /\ into(b.syndicates[s].cash) = t.traced_amt
                  /\ t.traced_amt + SumFunction([k \in Range(t.breaks) |-> into(k[1])]) = t.total_amt
    <3> DEFINE t == art.trails[s]
    <3>1. IsConserved(b, s, t) /\ b.syndicates[s].cash = Cash(s)
      BY <2>4, <2>6, <2>9
    <3> HIDE DEF t
    <3>2. /\ Into(t.hops, Cash(s)) = t.traced_amt
          /\ t.traced_amt + SumFunction([k \in Range(t.breaks) |-> Into(t.hops, k[1])]) = t.total_amt
      BY <3>1 DEF IsConserved
    <3>3. QED
      BY <3>1, <3>2 DEF Into, Weights, t
  <2>10. QED
    BY <2>7, <2>8, <2>9 DEF ValueConserved
<1>2. ASSUME PipelineInv PROVE ValueConserved
  BY <1>1, <1>2 DEF ValueConserved
<1>3. QED
  BY PipelineIsInductive, <1>2, PTL

-----------------------------------------------------------------------------
(* THE PROTOTYPE *)
(* It counts and sums as the rest of the model does.                       *)
LEMMA SameCount == \A S : Reference!Cardinality(S) = Cardinality(S)
BY DEF Reference!Cardinality, Cardinality
LEMMA SameSum == \A w : Reference!SumFunction(w) = SumFunction(w)
BY DEF Reference!SumFunction, SumFunction, Reference!SumFunctionOnSet, SumFunctionOnSet,
       Reference!FoldFunctionOnSet, FoldFunctionOnSet, Reference!MapThenFoldSet, MapThenFoldSet

(* Its chain: the hash past record i holds that record, so that an altered *)
(* one shows at its own place.                                             *)
LEMMA ProtoHashIs ==
  ASSUME NEW records, NEW n \in Nat \ {0}
  PROVE  Reference!ProtoHash(records, n)[2] = records[n]
<1>1. PICK g : IsHashes(g, records, n)
  BY HashesExist
<1> DEFINE h == CHOOSE f : IsHashes(f, records, n)
<1>2. IsHashes(h, records, n)
  BY <1>1
<1>3. Reference!ProtoHash(records, n) = h[n]
  BY DEF Reference!ProtoHash, IsHashes, GENESIS, LinkHash
<1> HIDE DEF h
<1>4. n \in 0..n /\ n # 0
  OBVIOUS
<1>5. h[n] = LinkHash(h[n - 1], records[n])
  BY <1>2, <1>4 DEF IsHashes
<1>6. QED
  BY <1>3, <1>5 DEF LinkHash

LEMMA ProtoChainIs ==
  /\ Reference!ProtoVerify(Reference!ProtoRecords)
  /\ ~Reference!ProtoVerify([Reference!ProtoRecords EXCEPT ![TamperIndex + 1] = 0])
<1> DEFINE r == Reference!ProtoRecords
           t == [r EXCEPT ![TamperIndex + 1] = 0]
           k == TamperIndex + 1
<1>1. NRecords \in Nat /\ k \in Nat \ {0} /\ k \in 1..NRecords
  BY PipelineAssumption
<1>2. r = [i \in 1..NRecords |-> i]
  BY DEF Reference!ProtoRecords
<1>3. k \in DOMAIN t /\ t[k] = 0 /\ r[k] = k
  BY <1>1, <1>2
<1> HIDE DEF r, t, k
<1>4. Reference!ProtoHash(t, k) # Reference!ProtoHash(r, k)
  BY <1>1, <1>3, ProtoHashIs
<1>5. ~Reference!ProtoVerify(t)
  BY <1>3, <1>4 DEF Reference!ProtoVerify, r
<1>6. Reference!ProtoVerify(r)
  BY DEF Reference!ProtoVerify, r
<1>7. QED
  BY <1>5, <1>6 DEF r, t, k

(* Its claims: none that it passes is fabricated.                          *)
LEMMA ProtoLeaksNone ==
  /\ {i \in Reference!ProtoPassed : Reference!MockGenerate[i].fabricated = "yes"} = {}
  /\ StubResult.claims = NClaims /\ StubResult.withheld = NClaims - StubResult.passed
<1>1. DOMAIN Reference!MockGenerate = 0 .. NClaims - 1 /\ NClaims \in Nat
  BY F9Assumption DEF Reference!MockGenerate
<1>2. {i \in Reference!ProtoPassed : Reference!MockGenerate[i].fabricated = "yes"} = {}
  BY <1>1, ProtoClaimIs DEF Reference!ProtoPassed
<1> DEFINE verdicts == [i \in DOMAIN StubClaims |-> Verdict("v1", StubClaims[i])]
           D == 1..NClaims
           P == {i \in DOMAIN verdicts : verdicts[i].verdict = "PASSED"}
           W == {i \in DOMAIN verdicts : verdicts[i].verdict = "WITHHELD"}
<1>3. DOMAIN verdicts = D /\ Len(verdicts) = NClaims
  BY <1>1 DEF StubClaims
<1>4. StubResult.passed = Cardinality(P) /\ StubResult.withheld = Cardinality(W) /\ StubResult.claims = Len(verdicts)
  BY DEF StubResult, Evaluate, CountWhere
<1>5. \A i \in D : verdicts[i].verdict = "PASSED" \/ verdicts[i].verdict = "WITHHELD"
  BY <1>3 DEF Verdict
<1>6. D \ P = W
  BY <1>3, <1>5
<1>7. IsFiniteSet(D) /\ Cardinality(D) = NClaims
  BY <1>1, CountUpTo
<1>8. P \subseteq D
  BY <1>3
<1> HIDE DEF verdicts, D, P, W
<1>9. IsFiniteSet(P) /\ IsFiniteSet(W)
  BY <1>6, <1>7, <1>8, FS_Subset
<1>10. Cardinality(W) = Cardinality(D) - Cardinality(D \cap P)
  BY <1>6, <1>7, <1>9, FS_Difference
<1>11. D \cap P = P
  BY <1>8
<1>12. QED
  BY <1>2, <1>3, <1>4, <1>7, <1>10, <1>11

(* Its sections: those at the first two places over the threshold, or the  *)
(* one at the first, are those map_sections returns.                       *)
LEMMA PlacesAgree ==
  ASSUME NEW text, Scored(text), NEW k \in CorpusV1
  PROVE  LET v == Bm25Scores(CorpusV1, text)
         IN Reference!PlaceOf(text, k) = Cardinality(Below(CorpusV1, ByScore(CorpusV1, v), k))
<1> DEFINE v == Bm25Scores(CorpusV1, text)
           R == ByScore(CorpusV1, v)
<1>1. /\ CorpusV1 \in SUBSET Range(CorpusV2)
      /\ \A x \in CorpusV1 : v[x] = Bm25Of(text, x) /\ v[x] \in Int
  <2>1. CorpusV1 \in SUBSET Range(CorpusV2)
    BY LegalAssumption DEF OffenceV2
  <2>2. \A x \in CorpusV1 : v[x] = Bm25Of(text, x) /\ v[x] \in Nat
    BY <2>1 DEF Scored, Bm25Scores
  <2>3. Nat \subseteq Int
    OBVIOUS
  <2>4. QED
    BY <2>1, <2>2, <2>3
<1>2. \A j \in CorpusV1 : Reference!Beats(text, j, k) <=> <<j, k>> \in R
  BY <1>1 DEF Reference!Beats, ByScore
<1>3. <<k, k>> \notin R
  BY <1>1, ScoreOrder DEF StrictOrder
<1>4. {j \in CorpusV1 : j # k /\ Reference!Beats(text, j, k)} = Below(CorpusV1, R, k)
  BY <1>2, <1>3 DEF Below
<1>5. QED
  BY <1>4, SameCount DEF Reference!PlaceOf

LEMMA MappedAgree ==
  ASSUME NEW text, Scored(text)
  PROVE  Range(MapSections(CorpusV1, text)) = Reference!ProtoMapped(text)
<1> DEFINE S == CorpusV1
           v == Bm25Scores(S, text)
           R == ByScore(S, v)
           L == Listed(S, R)
           n == Cardinality(S)
           m == IF Len(L) < TopK THEN Len(L) ELSE TopK
           best == Top(v)
           I == {i \in DOMAIN best : Bm25Of(text, best[i]) >= Thresh}
           over == AtPlaces(best, I)
           O == {k \in S : Reference!PlaceOf(text, k) < 2 /\ Bm25Of(text, k) >= Thresh}
           F == {k \in S : Reference!PlaceOf(text, k) = 0}
<1>1. S \in SUBSET Range(CorpusV2) /\ S # {} /\ DOMAIN v = S
  BY LegalAssumption DEF OffenceV2, Bm25Scores
<1>2. \A x \in S : v[x] = Bm25Of(text, x) /\ v[x] \in Int
  BY <1>1 DEF Scored, Bm25Scores
<1>3. IsFiniteSet(S) /\ StrictOrder(S, R)
  BY <1>1, <1>2, CorpusIs, ScoreOrder, FS_Subset
<1>4. IsListing(L, S, R)
  BY <1>3, ListedFacts
<1>5. best = SubSeq(L, 1, m)
  BY <1>1 DEF Top, Ranked, InOrder, ByScore
<1>6. Reference!ProtoMapped(text) = IF O # {} THEN O ELSE F
  BY DEF Reference!ProtoMapped
<1>7. MapSections(S, text) = IF over = <<>> THEN <<best[1]>> ELSE over
  BY DEF MapSections, Keep
<1>8. \A k \in S : Reference!PlaceOf(text, k) = Cardinality(Below(S, R, k))
  BY PlacesAgree
<1> HIDE DEF S, R, L, best, v
<1>9. /\ n \in Nat /\ L \in [1..n -> S]
      /\ \A i \in 1..n : Reference!PlaceOf(text, L[i]) = i - 1
      /\ \A k \in S : \E i \in 1..n : L[i] = k
  BY <1>4, <1>8 DEF IsListing
<1>10. n # 0
  BY <1>1, <1>9
<1> HIDE DEF n
<1>11. L \in Seq(S) /\ Len(L) = n
  BY <1>9
<1>12. m \in 1..n /\ \A i \in 1..n : i <= 2 <=> i \in 1..m
  BY <1>9, <1>10, <1>11 DEF TopK
<1> HIDE DEF m
<1>13. best \in Seq(S) /\ Len(best) = m /\ \A i \in 1..m : best[i] = L[i]
  BY <1>5, <1>11, <1>12
<1>14. \A i \in 1..m : /\ best[i] \in S /\ Reference!PlaceOf(text, best[i]) = i - 1 /\ i - 1 < 2
  <2>1. \A i \in 1..m : i \in 1..n /\ best[i] = L[i]
    BY <1>9, <1>12, <1>13
  <2>2. \A i \in 1..m : best[i] \in S /\ Reference!PlaceOf(text, best[i]) = i - 1
    BY <1>9, <2>1
  <2>3. \A i \in 1..m : i - 1 < 2
    BY <1>12, <2>1
  <2>4. QED
    BY <2>2, <2>3
<1>15. \A k \in S : Reference!PlaceOf(text, k) < 2 => \E i \in 1..m : best[i] = k
  <2> SUFFICES ASSUME NEW k \in S, Reference!PlaceOf(text, k) < 2 PROVE \E i \in 1..m : best[i] = k
    OBVIOUS
  <2>1. PICK i \in 1..n : L[i] = k
    BY <1>9
  <2>2. i - 1 < 2 /\ i \in Nat
    BY <1>9, <2>1
  <2>3. i \in 1..m
    BY <1>12, <2>1, <2>2
  <2>4. QED
    BY <1>13, <2>1, <2>3
<1>16. DOMAIN best = 1..m
  BY <1>12, <1>13
<1>17. {best[i] : i \in I} = O
  BY <1>14, <1>15, <1>16
<1>18. {best[1]} = F
  <2>1. 1 \in 1..m /\ best[1] \in F
    BY <1>12, <1>14
  <2>2. \A k \in F : k = best[1]
    <3> SUFFICES ASSUME NEW k \in F PROVE k = best[1]
      OBVIOUS
    <3>1. PICK i \in 1..m : best[i] = k
      BY <1>15
    <3>2. i - 1 = 0 /\ i \in Nat
      BY <1>12, <1>14, <3>1
    <3>3. QED
      BY <3>1, <3>2
  <2>3. QED
    BY <2>1, <2>2
<1>19. I \in SUBSET DOMAIN best
  OBVIOUS
<1> HIDE DEF I, O, F
<1>20. over \in Seq(S) /\ Len(over) = Cardinality(I) /\ Range(over) = O /\ IsFiniteSet(I)
  BY <1>13, <1>17, <1>19, AtPlacesSeq
<1> HIDE DEF over
<1>21. over = <<>> <=> O = {}
  <2>1. over = <<>> <=> Cardinality(I) = 0
    BY <1>20
  <2>2. Cardinality(I) = 0 <=> I = {}
    BY <1>20, FS_EmptySet
  <2>3. I = {} <=> O = {}
    BY <1>17
  <2>4. QED
    BY <2>1, <2>2, <2>3
<1>22. Range(<<best[1]>>) = F
  BY <1>18 DEF Range
<1>23. QED
  BY <1>6, <1>7, <1>20, <1>21, <1>22 DEF S

(* ratio of the script and round of the engine.                            *)
LEMMA RoundsAgree ==
  ASSUME NEW num \in Int, NEW den \in Int
  PROVE  Thousandths(<<num, den>>) = Reference!ProtoRound(num, den, 1000)
<1>1. 2 * (1000 * num) = 2 * num * 1000
  OBVIOUS
<1>2. QED
  BY <1>1 DEF Thousandths, Rounded, Reference!ProtoRound

LEMMA HitsAgree ==
  V1Floor = [hits |-> Cardinality(Reference!ProtoHits), n |-> Len(GoldenV1)]
<1>1. \A i \in DOMAIN GoldenV1 : Scored(GoldenV1[i].text)
  BY LegalAssumption DEF Range
<1>2. \A i \in DOMAIN GoldenV1 :
        Range(MapSections(CorpusV1, GoldenV1[i].text)) = Reference!ProtoMapped(GoldenV1[i].text)
  BY <1>1, MappedAgree
<1>3. {i \in DOMAIN GoldenV1 : Range(MapSections(CorpusV1, GoldenV1[i].text)) \cap GoldenV1[i].gold # {}}
        = Reference!ProtoHits
  BY <1>2 DEF Reference!ProtoHits
<1>4. QED
  BY <1>3 DEF V1Floor, MeasureAccuracy

(* Its communities are the blocks in some order, whatever they are.        *)
Lists(comms, p) ==
  /\ comms \in [1..Cardinality(p) -> p] /\ Cardinality(p) \in Nat
  /\ \A k, l \in 1..Cardinality(p) : comms[k] = comms[l] => k = l
  /\ \A com \in p : \E k \in 1..Cardinality(p) : comms[k] = com
LEMMA CommunitiesListed ==
  ASSUME NEW p, IsFiniteSet(p)
  PROVE  Lists(SetToSeq(p), p)
<1> DEFINE n == Cardinality(p)
           comms == SetToSeq(p)
<1>1. n \in Nat /\ ExistsBijection(1..n, p)
  BY FS_CardinalityType
<1>2. PICK g : g \in Bijection(1..n, p)
  BY <1>1 DEF ExistsBijection
<1>3. g \in [1..n -> p] /\ IsInjective(g)
  BY <1>2 DEF Bijection, Injection
<1>4. comms \in [1..n -> p] /\ IsInjective(comms)
  BY <1>3 DEF SetToSeq
<1>5. IsFiniteSet(1..n) /\ Cardinality(1..n) = n
  BY <1>1, CountUpTo
<1> HIDE DEF n, comms
<1> DEFINE D == 1..n
<1>6. \A k, l \in D : comms[k] = comms[l] => k = l
  BY <1>4 DEF IsInjective
<1> HIDE DEF D
<1>7. comms \in Injection(D, p) /\ IsFiniteSet(D) /\ Cardinality(D) = Cardinality(p)
  BY <1>4, <1>5 DEF Injection, D, n
<1>8. comms \in Surjection(D, p)
  BY <1>7, FS_Injection
<1>9. \A com \in p : \E k \in D : comms[k] = com
  BY <1>8 DEF Surjection
<1>10. QED
  BY <1>1, <1>4, <1>6, <1>9 DEF Lists, D, n, comms

(* A number is in one block, and at one place.                             *)
LEMMA BlocksApart ==
  ASSUME NEW b, IsBundle(b), NEW p \in Communities(b), NEW id \in Ids(b)
  PROVE  /\ \E com \in p : id \in com
         /\ \A com, other \in p : id \in com /\ id \in other => com = other
<1> DEFINE S == Ids(b)
<1>1. PICK f \in [S -> S] : p = {{j \in S : f[j] = f[i]} : i \in S}
  BY DEF Communities, Partitions
<1>2. {j \in S : f[j] = f[id]} \in p /\ id \in {j \in S : f[j] = f[id]}
  BY <1>1
<1>3. ASSUME NEW com \in p, NEW other \in p, id \in com, id \in other PROVE com = other
  <2>1. PICK i \in S : com = {j \in S : f[j] = f[i]}
    BY <1>1
  <2>2. PICK k \in S : other = {j \in S : f[j] = f[k]}
    BY <1>1
  <2>3. f[i] = f[k]
    BY <1>3, <2>1, <2>2
  <2>4. QED
    BY <2>1, <2>2, <2>3
<1>4. QED
  BY <1>2, <1>3

LEMMA PredAgrees ==
  ASSUME NEW b, IsBundle(b), NEW p \in Communities(b), NEW comms, Lists(comms, p),
         NEW i \in Ids(b), NEW j \in Ids(b)
  PROVE  Reference!Pred(comms, i) = Reference!Pred(comms, j) <=> SamePred(p, <<i, j>>)
<1> DEFINE n == Cardinality(p)
<1>1. DOMAIN comms = 1..n /\ \A k \in 1..n : comms[k] \in p
  BY DEF Lists
<1>2. ASSUME NEW id \in Ids(b)
      PROVE  /\ Reference!Pred(comms, id) \in 1..n /\ id \in comms[Reference!Pred(comms, id)]
             /\ \A k \in 1..n : id \in comms[k] => k = Reference!Pred(comms, id)
  <2>1. \E k \in 1..n : id \in comms[k]
    BY BlocksApart DEF Lists
  <2>2. Reference!Pred(comms, id) = CHOOSE k \in 1..n : id \in comms[k]
    BY <1>1 DEF Reference!Pred
  <2>3. Reference!Pred(comms, id) \in 1..n /\ id \in comms[Reference!Pred(comms, id)]
    BY <2>1, <2>2
  <2>4. \A k \in 1..n : id \in comms[k] => comms[k] = comms[Reference!Pred(comms, id)]
    BY <1>1, <2>3, BlocksApart
  <2>5. QED
    BY <2>3, <2>4 DEF Lists
<1>3. ASSUME Reference!Pred(comms, i) = Reference!Pred(comms, j) PROVE SamePred(p, <<i, j>>)
  <2>1. comms[Reference!Pred(comms, i)] \in p /\ {i, j} \subseteq comms[Reference!Pred(comms, i)]
    BY <1>1, <1>2, <1>3
  <2>2. QED
    BY <2>1 DEF SamePred
<1>4. ASSUME SamePred(p, <<i, j>>) PROVE Reference!Pred(comms, i) = Reference!Pred(comms, j)
  <2>1. PICK com \in p : {i, j} \subseteq com
    BY <1>4 DEF SamePred
  <2>2. PICK k \in 1..n : comms[k] = com
    BY DEF Lists
  <2>3. QED
    BY <1>2, <2>1, <2>2
<1>5. QED
  BY <1>3, <1>4

(* The pairs of complaints, by place and by number.                        *)
LEMMA PairsAgree ==
  ASSUME NEW b, IsBundle(b), NEW p \in Communities(b), NEW comms, Lists(comms, p)
  PROVE  LET count(same, truth) ==
               Cardinality({e \in Pairs(b) : (SamePred(p, e) <=> same) /\ (SameTruth(b, e) <=> truth)})
         IN Reference!Agreement(b, comms)
              = [tp |-> count(TRUE, TRUE), fp |-> count(TRUE, FALSE), fn |-> count(FALSE, TRUE)]
<1> DEFINE n == Len(b.complaints)
           P == Reference!ProtoPairs(b)
           sp(q) == Reference!Pred(comms, b.complaints[q[1]].id) = Reference!Pred(comms, b.complaints[q[2]].id)
           st(q) == b.complaints[q[1]].synd = b.complaints[q[2]].synd
           of == [q \in P |-> <<q[1] - 1, q[2] - 1>>]
<1>1. n \in Nat /\ DOMAIN b.complaints = 1..n /\ Ids(b) = 0 .. n - 1
  BY BundleIndexed DEF IsIndexed, IsBundle
<1>2. \A q \in P : q \in (1..n) \X (1..n) /\ q[1] < q[2]
  BY <1>1 DEF Reference!ProtoPairs
<1>3. \A k, l \in 1..n : k < l => <<k, l>> \in P
  BY <1>1 DEF Reference!ProtoPairs
<1> HIDE DEF P
<1>4. ASSUME NEW q \in P
      PROVE  /\ of[q] \in Pairs(b)
             /\ sp(q) <=> SamePred(p, of[q])
             /\ st(q) <=> SameTruth(b, of[q])
  <2> DEFINE i == q[1] - 1
             j == q[2] - 1
  <2>1. q[1] \in 1..n /\ q[2] \in 1..n /\ q[1] < q[2] /\ of[q] = <<i, j>>
    BY <1>2
  <2>2. i \in Ids(b) /\ j \in Ids(b) /\ i < j /\ i + 1 = q[1] /\ j + 1 = q[2]
    BY <1>1, <2>1
  <2>3. b.complaints[q[1]].id = i /\ b.complaints[q[2]].id = j
    BY <1>1, <2>1 DEF IsBundle
  <2>4. Truth(b)[i] = b.complaints[q[1]].synd /\ Truth(b)[j] = b.complaints[q[2]].synd
    <3> HIDE DEF i, j, n, sp, st, of
    <3>1. \A id \in Ids(b) : Complaint(b, id) = b.complaints[id + 1]
      BY BundleIndexed DEF IsIndexed
    <3>2. Complaint(b, i) = b.complaints[q[1]] /\ Complaint(b, j) = b.complaints[q[2]]
      BY <2>2, <3>1
    <3>3. QED
      BY <2>2, <3>2 DEF Truth
  <2> HIDE DEF i, j
  <2>5. of[q] \in Pairs(b)
    BY <2>1, <2>2 DEF Pairs
  <2>6. sp(q) <=> SamePred(p, of[q])
    BY <2>1, <2>2, <2>3, PredAgrees
  <2>7. st(q) <=> SameTruth(b, of[q])
    BY <2>1, <2>4 DEF SameTruth
  <2>8. QED
    BY <2>5, <2>6, <2>7
<1>5. \A q, r \in P : of[q] = of[r] => q = r
  <2> SUFFICES ASSUME NEW q \in P, NEW r \in P, of[q] = of[r] PROVE q = r
    OBVIOUS
  <2>1. q \in (1..n) \X (1..n) /\ r \in (1..n) \X (1..n)
    BY <1>2
  <2>2. q[1] - 1 = r[1] - 1 /\ q[2] - 1 = r[2] - 1
    OBVIOUS
  <2>3. q[1] = r[1] /\ q[2] = r[2]
    BY <1>1, <2>1, <2>2
  <2>4. QED
    BY <2>1, <2>3
<1>6. \A e \in Pairs(b) : \E q \in P : of[q] = e
  <2> SUFFICES ASSUME NEW e \in Pairs(b) PROVE \E q \in P : of[q] = e
    OBVIOUS
  <2>1. e \in (0 .. n - 1) \X (0 .. n - 1) /\ e[1] < e[2]
    BY <1>1 DEF Pairs
  <2>2. e[1] + 1 \in 1..n /\ e[2] + 1 \in 1..n /\ e[1] + 1 < e[2] + 1
    BY <1>1, <2>1
  <2>3. <<e[1] + 1, e[2] + 1>> \in P
    BY <1>3, <2>2
  <2>4. of[<<e[1] + 1, e[2] + 1>>] = <<(e[1] + 1) - 1, (e[2] + 1) - 1>>
    BY <2>3
  <2>5. (e[1] + 1) - 1 = e[1] /\ (e[2] + 1) - 1 = e[2] /\ e = <<e[1], e[2]>>
    BY <1>1, <2>1
  <2>6. QED
    BY <2>3, <2>4, <2>5
<1>7. IsFiniteSet(P)
  <2> DEFINE D == 1..n
  <2>1. IsFiniteSet(D)
    BY <1>1, CountUpTo
  <2>2. P \subseteq D \X D
    BY <1>2
  <2> HIDE DEF D
  <2>3. QED
    BY <2>1, <2>2, FS_Product, FS_Subset
<1> HIDE DEF of
<1>8. ASSUME NEW same \in BOOLEAN, NEW truth \in BOOLEAN
      PROVE  Reference!Cardinality({q \in P : sp(q) = same /\ st(q) = truth})
               = Cardinality({e \in Pairs(b) : (SamePred(p, e) <=> same) /\ (SameTruth(b, e) <=> truth)})
  <2> DEFINE Q == {q \in P : sp(q) = same /\ st(q) = truth}
             E == {e \in Pairs(b) : (SamePred(p, e) <=> same) /\ (SameTruth(b, e) <=> truth)}
  <2>1. Q = {q \in P : (sp(q) <=> same) /\ (st(q) <=> truth)}
    BY Zenon
  <2>2. {of[q] : q \in Q} = E
    BY <1>4, <1>6, <2>1
  <2>3. Q \in SUBSET P
    OBVIOUS
  <2> HIDE DEF Q, E
  <2>4. IsFiniteSet(Q) /\ \A q, r \in Q : of[q] = of[r] => q = r
    BY <1>5, <1>7, <2>3, FS_Subset
  <2>5. Cardinality(E) = Cardinality(Q)
    BY <2>2, <2>4, CardImage
  <2>6. QED
    BY <2>5, SameCount DEF Q, E
<1>9. QED
  BY <1>8 DEF Reference!Agreement, P

LEMMA NetworksAgree ==
  ASSUME NEW b, IsBundle(b), NEW p \in Communities(b), NEW comms, Lists(comms, p),
         NEW networks \in NetworksOf(p)
  PROVE  Cardinality({k \in DOMAIN comms : Cardinality(comms[k]) >= MinCommunitySize}) = Len(networks)
<1> DEFINE n == Cardinality(p)
           S == {com \in p : Cardinality(com) >= MinCommunitySize}
           K == {k \in 1..n : Cardinality(comms[k]) >= MinCommunitySize}
<1>1. DOMAIN comms = 1..n /\ n \in Nat
  BY DEF Lists
<1>2. Len(networks) = Cardinality(S)
  <2>1. IsFiniteSet(S) /\ Cardinality(S) \in Nat
    BY PartitionIs, FS_Subset, FS_CardinalityType
  <2>2. networks \in [1..Cardinality(S) -> S]
    BY DEF NetworksOf, SetToSeqs
  <2> HIDE DEF S
  <2>3. QED
    BY <2>1, <2>2
<1>3. {comms[k] : k \in K} = S
  BY DEF Lists
<1>4. \A k, l \in K : comms[k] = comms[l] => k = l
  BY DEF Lists
<1>5. IsFiniteSet(K)
  BY <1>1, CountUpTo, FS_Subset
<1> HIDE DEF n, S, K
<1>6. Cardinality(S) = Cardinality(K)
  BY <1>3, <1>4, <1>5, CardImage
<1>7. QED
  BY <1>1, <1>2, <1>6 DEF K, n

(* Its walk over the ledger reaches what a path of the engine reaches.     *)
IsWalk(f, money, x, n) ==
  f = [k \in 0..n |-> IF k = 0 THEN {x}
                      ELSE f[k - 1] \cup {e[2] : e \in {d \in money : d[1] \in f[k - 1]}}]
LEMMA WalksExist == \A money, x : \A n \in Nat : \E f : IsWalk(f, money, x, n)
<1> SUFFICES ASSUME NEW money, NEW x PROVE \A n \in Nat : \E f : IsWalk(f, money, x, n)
  OBVIOUS
<1> DEFINE Next1(F) == F \cup {e[2] : e \in {d \in money : d[1] \in F}}
           G == {n \in Nat : \E f : IsWalk(f, money, x, n)}
<1>1. 0 \in G
  <2> DEFINE f == [k \in 0..0 |-> {x}]
  <2>1. IsWalk(f, money, x, 0)
    BY DEF IsWalk
  <2>2. QED
    BY <2>1
<1>2. ASSUME NEW n \in Nat, n \in G PROVE n + 1 \in G
  <2>1. PICK f : IsWalk(f, money, x, n)
    BY <1>2
  <2> DEFINE g == [k \in 0 .. n + 1 |-> IF k = n + 1 THEN Next1(f[n]) ELSE f[k]]
  <2>2. \A k \in 0..n : f[k] = IF k = 0 THEN {x} ELSE Next1(f[k - 1])
    BY <2>1 DEF IsWalk
  <2> HIDE DEF Next1
  <2>3. \A k \in 0 .. n + 1 : g[k] = IF k = 0 THEN {x} ELSE Next1(g[k - 1])
    <3>1. n + 1 \in 0 .. n + 1 /\ n + 1 # 0 /\ (n + 1) - 1 = n /\ n \in 0 .. n + 1 /\ n # n + 1
      OBVIOUS
    <3>2. g[n + 1] = Next1(g[n])
      BY <3>1
    <3>3. ASSUME NEW k \in 0..n
          PROVE  g[k] = IF k = 0 THEN {x} ELSE Next1(g[k - 1])
      <4>1. k \in 0 .. n + 1 /\ k # n + 1 /\ g[k] = f[k]
        OBVIOUS
      <4>2. k # 0 => k - 1 \in 0 .. n + 1 /\ k - 1 # n + 1
        OBVIOUS
      <4>3. k # 0 => g[k - 1] = f[k - 1]
        BY <4>2
      <4> HIDE DEF g
      <4>4. QED
        BY <2>2, <4>1, <4>3
    <3>4. \A k \in 0 .. n + 1 : k = n + 1 \/ k \in 0..n
      OBVIOUS
    <3> HIDE DEF g
    <3>5. QED
      BY <3>1, <3>2, <3>3, <3>4
  <2>4. g = [k \in 0 .. n + 1 |-> g[k]]
    OBVIOUS
  <2> HIDE DEF g
  <2>5. IsWalk(g, money, x, n + 1)
    BY <2>3, <2>4 DEF IsWalk, Next1
  <2>6. QED
    BY <2>5
<1> HIDE DEF G
<1>3. \A n \in Nat : n \in G
  BY <1>1, <1>2, NatInduct
<1>4. QED
  BY <1>3 DEF G

(* A walk stays in every closed set, and is two steps long when two edges  *)
(* follow one another.                                                     *)
LEMMA WalkIs ==
  ASSUME NEW money, NEW x, Cardinality(money) \in Nat
  PROVE  /\ \A S : x \in S /\ (\A e \in money : e[1] \in S => e[2] \in S)
              => Reference!Walk(money, x) \subseteq S
         /\ \A y, z : <<x, y>> \in money /\ <<y, z>> \in money /\ Cardinality(money) >= 2
              => z \in Reference!Walk(money, x)
<1> DEFINE n == Cardinality(money)
           Next1(F) == F \cup {e[2] : e \in {d \in money : d[1] \in F}}
           f == CHOOSE g : IsWalk(g, money, x, n)
<1>1. IsWalk(f, money, x, n)
  BY WalksExist
<1>2. Reference!Walk(money, x) = f[n]
  BY SameCount DEF Reference!Walk, IsWalk
<1> HIDE DEF f, n
<1>3. \A k \in 0..n : f[k] = IF k = 0 THEN {x} ELSE Next1(f[k - 1])
  BY <1>1 DEF IsWalk
<1>4. n \in Nat
  BY DEF n
<1>5. f[0] = {x}
  <2>1. 0 \in 0..n
    BY <1>4
  <2> HIDE DEF Next1
  <2>2. QED
    BY <1>3, <2>1
<1>6. \A k \in Nat : k < n => f[k + 1] = Next1(f[k])
  <2> SUFFICES ASSUME NEW k \in Nat, k < n PROVE f[k + 1] = Next1(f[k])
    OBVIOUS
  <2>1. k + 1 \in 0..n /\ k + 1 # 0 /\ (k + 1) - 1 = k
    BY <1>4
  <2> HIDE DEF Next1
  <2>2. QED
    BY <1>3, <2>1
<1>7. ASSUME NEW S, x \in S, \A e \in money : e[1] \in S => e[2] \in S
      PROVE  f[n] \subseteq S
  <2> DEFINE G == {k \in Nat : k <= n => f[k] \subseteq S}
  <2>1. 0 \in G
    BY <1>5, <1>7
  <2>2. ASSUME NEW k \in Nat, k \in G PROVE k + 1 \in G
    <3>1. CASE k < n
      <4>1. f[k] \subseteq S
        BY <1>4, <2>2, <3>1
      <4>2. Next1(f[k]) \subseteq S
        BY <1>7, <4>1
      <4>3. QED
        BY <1>6, <3>1, <4>2
    <3>2. CASE ~(k < n)
      <4>1. ~(k + 1 <= n)
        BY <1>4, <3>2
      <4>2. QED
        BY <4>1
    <3>3. QED
      BY <3>1, <3>2
  <2> HIDE DEF G
  <2>3. \A k \in Nat : k \in G
    BY <2>1, <2>2, NatInduct
  <2>4. n \in G /\ n <= n
    BY <1>4, <2>3
  <2>5. QED
    BY <2>4 DEF G
<1>8. ASSUME NEW y, NEW z, <<x, y>> \in money, <<y, z>> \in money, n >= 2
      PROVE  z \in f[n]
  <2>1. y \in Next1({x}) /\ \A F : y \in F => z \in Next1(F)
    BY <1>8
  <2> HIDE DEF Next1
  <2>2. f[1] = Next1(f[0]) /\ f[2] = Next1(f[1])
    <3>1. 0 < n /\ 1 < n /\ 0 + 1 = 1 /\ 1 + 1 = 2
      BY <1>4, <1>8
    <3>2. QED
      BY <1>6, <3>1
  <2>3. z \in f[2]
    BY <1>5, <2>1, <2>2
  <2> DEFINE G == {k \in Nat : k >= 2 /\ k <= n => z \in f[k]}
  <2>4. \A F : F \subseteq Next1(F)
    BY DEF Next1
  <2>5. 0 \in G
    OBVIOUS
  <2>6. ASSUME NEW k \in Nat, k \in G PROVE k + 1 \in G
    <3>1. CASE k + 1 = 2
      BY <2>3, <3>1
    <3>2. CASE k + 1 > 2 /\ k < n
      <4>1. z \in f[k]
        BY <1>4, <2>6, <3>2
      <4>2. z \in f[k + 1]
        BY <1>6, <2>4, <3>2, <4>1
      <4>3. QED
        BY <4>2
    <3>3. CASE ~(k + 1 >= 2 /\ k + 1 <= n)
      BY <3>3
    <3>4. k + 1 = 2 \/ (k + 1 > 2 /\ k < n) \/ ~(k + 1 >= 2 /\ k + 1 <= n)
      BY <1>4
    <3>5. QED
      BY <3>1, <3>2, <3>3, <3>4
  <2> HIDE DEF G
  <2>7. \A k \in Nat : k \in G
    BY <2>5, <2>6, NatInduct
  <2>8. n \in G /\ n >= 2 /\ n <= n
    BY <1>4, <1>8, <2>7
  <2>9. QED
    BY <2>8 DEF G
<1>9. QED
  BY <1>2, <1>7, <1>8 DEF n

(* The ledger is finite.                                                   *)
LEMMA LedgerFinite ==
  ASSUME NEW b, IsBundle(b)
  PROVE  IsFiniteSet(b.money)
<1> DEFINE all == UNION {Mules(b, s) : s \in Syndicates}
           seconds == {L2(s) : s \in Syndicates}
           lasts == {Cash(s) : s \in Syndicates}
           N == all \cup seconds \cup lasts
<1>1. IsFiniteSet(Syndicates)
  BY SyntheticAssumption, FS_Interval DEF Syndicates
<1>2. IsFiniteSet(all)
  <2> DEFINE group == [s \in Syndicates |-> Mules(b, s)]
             A == {group[s] : s \in Syndicates}
  <2>1. \A x \in A : IsFiniteSet(x)
    BY BundleLayered DEF IsLayered
  <2>2. all = UNION A
    OBVIOUS
  <2> HIDE DEF group, all
  <2>3. IsFiniteSet(A)
    BY <1>1, ImageFinite
  <2> HIDE DEF A
  <2>4. QED
    BY <2>1, <2>2, <2>3, FS_UNION
<1>3. IsFiniteSet(seconds) /\ IsFiniteSet(lasts)
  <2> DEFINE f == [s \in Syndicates |-> L2(s)]
             g == [s \in Syndicates |-> Cash(s)]
  <2>1. seconds = {f[s] : s \in Syndicates} /\ lasts = {g[s] : s \in Syndicates}
    OBVIOUS
  <2> HIDE DEF f, g, seconds, lasts
  <2>2. QED
    BY <1>1, <2>1, ImageFinite
<1>4. b.money \subseteq N \X N
  <2> SUFFICES ASSUME NEW e \in b.money PROVE e \in N \X N
    OBVIOUS
  <2>1. e \in LedgerEdges(b.syndicates) /\ DOMAIN b.syndicates = Syndicates
    BY DEF IsBundle
  <2>2. PICK s \in Syndicates :
          \/ \E i \in DOMAIN b.syndicates[s].l1 : e = <<b.syndicates[s].l1[i], b.syndicates[s].l2>>
          \/ e = <<b.syndicates[s].l2, b.syndicates[s].cash>>
    BY <2>1 DEF LedgerEdges
  <2>3. b.syndicates[s].l2 = L2(s) /\ b.syndicates[s].cash = Cash(s)
    BY BundleLayered DEF IsLayered
  <2>4. \A i \in DOMAIN b.syndicates[s].l1 : b.syndicates[s].l1[i] \in all
    BY DEF Mules, Range
  <2>5. QED
    BY <2>2, <2>3, <2>4
<1> HIDE DEF all, seconds, lasts
<1>5. IsFiniteSet(N)
  BY <1>2, <1>3, FS_Union
<1> HIDE DEF N
<1>6. QED
  BY <1>4, <1>5, FS_Product, FS_Subset

LEMMA WalkAgrees ==
  ASSUME NEW b, IsBundle(b), NEW s \in Syndicates, NEW c, c.synd = s, c.mule \in Mules(b, s)
  PROVE  b.syndicates[s].cash \in Reference!Walk(b.money, c.mule) <=> Reachable(b, c)
<1> DEFINE m == c.mule
           l2 == L2(s)
           cash == Cash(s)
           w == Reference!Walk(b.money, m)
           two == {<<m, l2>>, <<l2, cash>>}
<1>1. /\ b.syndicates[s].l2 = l2 /\ b.syndicates[s].cash = cash /\ \E i : m = L1(s, i)
  BY BundleLayered DEF IsLayered
<1>2. m # cash /\ m # l2 /\ l2 # cash
  BY <1>1, LayersApart
<1>3. \A e \in b.money : /\ e[1] = m => e[2] = l2
                         /\ e[1] = l2 => e[2] = cash
  BY <1>1, EdgesAre, LayersApart
<1>4. \A e \in b.money : e = <<e[1], e[2]>>
  <2> SUFFICES ASSUME NEW e \in b.money PROVE e = <<e[1], e[2]>>
    OBVIOUS
  <2>1. e \in LedgerEdges(b.syndicates)
    BY DEF IsBundle
  <2>2. QED
    BY <2>1 DEF LedgerEdges
<1>5. Reachable(b, c) <=> <<m, l2>> \in b.money /\ <<l2, cash>> \in b.money
  BY <1>1, ReachedBy DEF ToL2, ToCash
<1>6. IsFiniteSet(b.money) /\ Cardinality(b.money) \in Nat
  BY LedgerFinite, FS_CardinalityType
<1>7. /\ \A S : m \in S /\ (\A e \in b.money : e[1] \in S => e[2] \in S) => w \subseteq S
      /\ \A y, z : <<m, y>> \in b.money /\ <<y, z>> \in b.money /\ Cardinality(b.money) >= 2 => z \in w
  BY <1>6, WalkIs
<1>8. Cardinality(two) = 2 /\ IsFiniteSet(two)
  <2> DEFINE x == <<m, l2>>
             y == <<l2, cash>>
  <2>1. x # y /\ two = {x} \cup {y}
    BY <1>2
  <2> HIDE DEF x, y, two
  <2>2. IsFiniteSet({x}) /\ Cardinality({x}) = 1 /\ y \notin {x}
    BY <2>1, FS_Singleton
  <2>3. IsFiniteSet({x} \cup {y}) /\ Cardinality({x} \cup {y}) = 1 + 1
    BY <2>2, FS_AddElement
  <2>4. QED
    BY <2>1, <2>3
<1> HIDE DEF l2, cash, m, w
<1>9. ASSUME <<m, l2>> \in b.money, <<l2, cash>> \in b.money PROVE cash \in w
  <2>1. two \subseteq b.money
    BY <1>9
  <2> HIDE DEF two
  <2>2. Cardinality(two) <= Cardinality(b.money)
    BY <1>6, <2>1, FS_Subset
  <2>3. Cardinality(b.money) >= 2
    BY <1>6, <1>8, <2>2
  <2>4. QED
    BY <1>7, <1>9, <2>3
<1>10. ASSUME <<m, l2>> \notin b.money PROVE cash \notin w
  <2>1. \A e \in b.money : e[1] # m
    BY <1>3, <1>4, <1>10
  <2>2. w \subseteq {m}
    BY <1>7, <2>1
  <2>3. QED
    BY <1>2, <2>2
<1>11. ASSUME <<m, l2>> \in b.money, <<l2, cash>> \notin b.money PROVE cash \notin w
  <2>1. \A e \in b.money : e[1] # l2
    BY <1>3, <1>4, <1>11
  <2>2. \A e \in b.money : e[1] \in {m, l2} => e[2] \in {m, l2}
    BY <1>3, <2>1
  <2>3. w \subseteq {m, l2}
    BY <1>7, <2>2
  <2>4. QED
    BY <1>2, <2>3
<1>12. cash \in w <=> Reachable(b, c)
  BY <1>5, <1>9, <1>10, <1>11
<1>13. QED
  BY <1>1, <1>12 DEF m, w, cash

(* A sum over the places of complaints is one over the complaints.         *)
LEMMA AmountIs ==
  ASSUME NEW b, IsBundle(b), NEW I \in SUBSET DOMAIN b.complaints
  PROVE  Reference!AmountOf(b, I) = Value({b.complaints[i] : i \in I})
<1> DEFINE f == b.complaints
           C == {f[i] : i \in I}
           v == [i \in I |-> f[i].amt]
           w == [c \in C |-> c.amt]
<1>1. Reference!AmountOf(b, I) = SumFunctionOnSet(v, I)
  BY SameSum DEF Reference!AmountOf, SumFunction
<1>2. Value(C) = SumFunctionOnSet(w, C)
  BY DEF Value, SumFunction
<1>3. Len(f) \in Nat /\ DOMAIN f = 1..Len(f)
  BY DEF IsBundle
<1>4. \A i \in I : f[i].amt \in Nat /\ f[i].id = i - 1
  BY DEF IsBundle, IsComplaint
<1>5. \A i, j \in I : f[i] = f[j] => i = j
  <2> SUFFICES ASSUME NEW i \in I, NEW j \in I, f[i] = f[j] PROVE i = j
    OBVIOUS
  <2>1. i - 1 = j - 1
    BY <1>4
  <2>2. i \in Int /\ j \in Int
    BY <1>3
  <2>3. QED
    BY <2>1, <2>2
<1>6. \A i \in I : w[f[i]] \in Int /\ v[i] = w[f[i]]
  BY <1>4
<1>7. IsFiniteSet(I)
  <2>1. IsFiniteSet(1..Len(f))
    BY <1>3, CountUpTo
  <2> HIDE DEF f
  <2>2. I \subseteq 1..Len(f)
    BY <1>3 DEF f
  <2>3. QED
    BY <2>1, <2>2, FS_Subset
<1> HIDE DEF v, w, f
<1>8. SumFunctionOnSet(v, I) = SumFunctionOnSet(w, {f[i] : i \in I})
  BY <1>5, <1>6, <1>7, SumImage
<1>9. QED
  BY <1>1, <1>2, <1>8 DEF f

LEMMA ValueAgrees ==
  ASSUME NEW b, IsBundle(b)
  PROVE  /\ Reference!AmountOf(b, Reference!ProtoTraced(b)) = TracedValue(b)
         /\ Reference!AmountOf(b, DOMAIN b.complaints) = TotalValue(b)
<1> DEFINE D == DOMAIN b.complaints
           T == Reference!ProtoTraced(b)
<1>1. \A i \in D : IsComplaint(b, b.complaints[i])
  BY DEF IsBundle
<1>2. \A i \in D : b.complaints[i].synd >= 0 =>
        /\ b.complaints[i].synd \in Syndicates
        /\ b.complaints[i].mule \in Mules(b, b.complaints[i].synd)
  <2> SUFFICES ASSUME NEW i \in D, b.complaints[i].synd >= 0
               PROVE  /\ b.complaints[i].synd \in Syndicates
                      /\ b.complaints[i].mule \in Mules(b, b.complaints[i].synd)
    OBVIOUS
  <2>1. IsFraud(b, b.complaints[i]) \/ IsNoise(b.complaints[i])
    BY <1>1 DEF IsComplaint
  <2>2. ~IsNoise(b.complaints[i])
    BY DEF IsNoise
  <2>3. QED
    BY <2>1, <2>2 DEF IsFraud, Mules, Range
<1>3. T = {i \in D : b.complaints[i].synd >= 0 /\ Reachable(b, b.complaints[i])}
  <2>1. \A i \in D : b.complaints[i].synd >= 0 =>
          (b.syndicates[b.complaints[i].synd].cash \in Reference!Walk(b.money, b.complaints[i].mule)
             <=> Reachable(b, b.complaints[i]))
    BY <1>2, WalkAgrees
  <2>2. QED
    BY <2>1 DEF Reference!ProtoTraced
<1>4. {b.complaints[i] : i \in T} = {c \in Filed(b) : c.synd >= 0 /\ Reachable(b, c)}
  BY <1>3 DEF Filed
<1>5. T \in SUBSET D
  BY <1>3
<1> HIDE DEF T
<1>6. Reference!AmountOf(b, T) = TracedValue(b)
  BY <1>4, <1>5, AmountIs DEF TracedValue
<1>7. Reference!AmountOf(b, D) = TotalValue(b)
  BY AmountIs DEF TotalValue, Filed
<1>8. QED
  BY <1>6, <1>7 DEF T

(* The figures the script prints are those of the stages.                  *)
LEMMA RowsFloor ==
  ASSUME NEW mapper, NEW mappings
  PROVE  MappingRows(mapper, mappings).v1_floor = V1Floor
<1> DEFINE low == CountWhere(mappings, LAMBDA m : m.confidence # "HIGH")
           run == [v1_floor |-> V1Floor, v2_bm25_ablation |-> V2Ablation,
                   run_high |-> Len(mappings) - low, run_low |-> low]
           full == Extended(FullStack, [degraded |-> FALSE,
                     routing_rate |-> <<FullStack.v2_full_stack.routed, Len(GoldenV1)>>])
           own == [degraded |-> TRUE, routing_rate |-> <<low, Len(mappings)>>]
<1>1. MappingRows(mapper, mappings) = IF mapper = "full" THEN Extended(run, full) ELSE Extended(run, own)
  BY DEF MappingRows
<1>2. "v1_floor" \in DOMAIN run /\ run["v1_floor"] = V1Floor
  OBVIOUS
<1> HIDE DEF run, full, own
<1>3. Extended(run, full)["v1_floor"] = V1Floor /\ Extended(run, own)["v1_floor"] = V1Floor
  BY <1>2, ExtendedIs
<1>4. QED
  BY <1>1, <1>3

ProtoRatio(num, den) == IF den = 0 THEN 0 ELSE Reference!ProtoRound(num, den, 1000)
LEMMA RatiosAgree ==
  ASSUME NEW num \in Int, NEW den \in Int
  PROVE  Thousandths(Ratio(num, den)) = ProtoRatio(num, den)
<1>1. Thousandths(<<num, den>>) = Reference!ProtoRound(num, den, 1000)
  BY RoundsAgree
<1>2. CASE den = 0
  <2>1. Thousandths(<<0, 1>>) = 0
    BY DEF Thousandths, Rounded
  <2>2. Ratio(num, den) = <<0, 1>> /\ ProtoRatio(num, den) = 0
    BY <1>2 DEF Ratio, ProtoRatio
  <2>3. QED
    BY <2>1, <2>2
<1>3. CASE den # 0
  BY <1>1, <1>3 DEF Ratio, ProtoRatio
<1>4. QED
  BY <1>2, <1>3

LinkFigures(metrics, results) ==
  /\ results.networks_found = metrics.networks_found
  /\ results.linkage_precision = Thousandths(metrics.precision)
  /\ results.linkage_recall = Thousandths(metrics.recall)
  /\ results.linkage_f1 = Thousandths(metrics.f1)
LEMMA LinkageAgrees ==
  ASSUME NEW b, IsBundle(b), NEW p \in Communities(b), NEW comms, Lists(comms, p),
         NEW networks \in NetworksOf(p)
  PROVE  LinkFigures(LinkMetrics(b, p, networks), Reference!PrototypeResults(b, comms))
<1> DEFINE r == Reference!PrototypeResults(b, comms)
           m == LinkMetrics(b, p, networks)
           a == Reference!Agreement(b, comms)
           E(same, truth) == {e \in Pairs(b) : (SamePred(p, e) <=> same) /\ (SameTruth(b, e) <=> truth)}
           tp == Cardinality({e \in Pairs(b) : SamePred(p, e) /\ SameTruth(b, e)})
           fp == Cardinality({e \in Pairs(b) : SamePred(p, e) /\ ~SameTruth(b, e)})
           fn == Cardinality({e \in Pairs(b) : ~SamePred(p, e) /\ SameTruth(b, e)})
<1>1. a = [tp |-> tp, fp |-> fp, fn |-> fn]
  <2>1. /\ E(TRUE, TRUE) = {e \in Pairs(b) : SamePred(p, e) /\ SameTruth(b, e)}
        /\ E(TRUE, FALSE) = {e \in Pairs(b) : SamePred(p, e) /\ ~SameTruth(b, e)}
        /\ E(FALSE, TRUE) = {e \in Pairs(b) : ~SamePred(p, e) /\ SameTruth(b, e)}
    OBVIOUS
  <2>2. a = [tp |-> Cardinality(E(TRUE, TRUE)), fp |-> Cardinality(E(TRUE, FALSE)),
             fn |-> Cardinality(E(FALSE, TRUE))]
    BY PairsAgree
  <2> HIDE DEF a, E
  <2>3. QED
    BY <2>1, <2>2
<1>2. tp \in Nat /\ fp \in Nat /\ fn \in Nat
  <2>1. IsFiniteSet(Pairs(b))
    <3>1. IsFiniteSet(Ids(b)) /\ Pairs(b) \subseteq Ids(b) \X Ids(b)
      BY BundleIndexed DEF IsIndexed, Pairs
    <3>2. QED
      BY <3>1, FS_Product, FS_Subset
  <2>2. ASSUME NEW S, S \subseteq Pairs(b) PROVE Cardinality(S) \in Nat
    BY <2>1, <2>2, FS_Subset, FS_CardinalityType
  <2> DEFINE A == {e \in Pairs(b) : SamePred(p, e) /\ SameTruth(b, e)}
             B == {e \in Pairs(b) : SamePred(p, e) /\ ~SameTruth(b, e)}
             C == {e \in Pairs(b) : ~SamePred(p, e) /\ SameTruth(b, e)}
  <2>3. A \subseteq Pairs(b) /\ B \subseteq Pairs(b) /\ C \subseteq Pairs(b)
    OBVIOUS
  <2> HIDE DEF A, B, C
  <2>4. Cardinality(A) \in Nat /\ Cardinality(B) \in Nat /\ Cardinality(C) \in Nat
    BY <2>2, <2>3
  <2>5. QED
    BY <2>4 DEF A, B, C
<1>3. m = [precision |-> Ratio(tp, tp + fp), recall |-> Ratio(tp, tp + fn),
           f1 |-> Ratio(2 * tp, 2 * tp + fp + fn), networks_found |-> Len(networks)]
  BY DEF LinkMetrics
<1>4. Cardinality({k \in DOMAIN comms : Cardinality(comms[k]) >= MinCommunitySize}) = Len(networks)
  BY NetworksAgree
<1>5. /\ r.linkage_precision = ProtoRatio(a.tp, a.tp + a.fp)
      /\ r.linkage_recall = ProtoRatio(a.tp, a.tp + a.fn)
      /\ r.linkage_f1 = ProtoRatio(2 * a.tp, 2 * a.tp + a.fp + a.fn)
      /\ r.networks_found
           = Reference!Cardinality({k \in DOMAIN comms : Reference!Cardinality(comms[k]) >= MinCommunitySize})
  BY DEF Reference!PrototypeResults, ProtoRatio
<1>6. r.networks_found = Len(networks)
  <2> DEFINE K == {k \in DOMAIN comms : Cardinality(comms[k]) >= MinCommunitySize}
             L == {k \in DOMAIN comms : Reference!Cardinality(comms[k]) >= MinCommunitySize}
  <2>1. L = K
    BY SameCount
  <2>2. r.networks_found = Reference!Cardinality(L) /\ Cardinality(K) = Len(networks)
    BY <1>4, <1>5
  <2> HIDE DEF K, L, r
  <2>3. QED
    BY <2>1, <2>2, SameCount
<1> HIDE DEF r, m, a, tp, fp, fn
<1>7. a.tp = tp /\ a.fp = fp /\ a.fn = fn
  BY <1>1
<1>8. /\ Thousandths(Ratio(tp, tp + fp)) = ProtoRatio(tp, tp + fp)
      /\ Thousandths(Ratio(tp, tp + fn)) = ProtoRatio(tp, tp + fn)
      /\ Thousandths(Ratio(2 * tp, 2 * tp + fp + fn)) = ProtoRatio(2 * tp, 2 * tp + fp + fn)
  <2>1. tp \in Int /\ tp + fp \in Int /\ tp + fn \in Int /\ 2 * tp \in Int /\ 2 * tp + fp + fn \in Int
    BY <1>2
  <2>2. Thousandths(Ratio(tp, tp + fp)) = ProtoRatio(tp, tp + fp)
    BY <2>1, RatiosAgree
  <2>3. Thousandths(Ratio(tp, tp + fn)) = ProtoRatio(tp, tp + fn)
    BY <2>1, RatiosAgree
  <2> DEFINE num == 2 * tp
             den == 2 * tp + fp + fn
  <2>4. num \in Int /\ den \in Int
    BY <2>1
  <2> HIDE DEF num, den
  <2>5. Thousandths(Ratio(num, den)) = ProtoRatio(num, den)
    BY <2>4, RatiosAgree
  <2>6. QED
    BY <2>2, <2>3, <2>5 DEF num, den
<1>9. QED
  BY <1>3, <1>5, <1>6, <1>7, <1>8 DEF LinkFigures, r, m

MoneyFigure(b, results) ==
  results.pct_value_traced_to_cashout = Percent(TracedValue(b), TotalValue(b))
LEMMA MoneyAgrees ==
  ASSUME NEW b, IsBundle(b), NEW comms
  PROVE  MoneyFigure(b, Reference!PrototypeResults(b, comms))
<1> DEFINE part == TracedValue(b)
           total == TotalValue(b)
<1>1. Reference!PrototypeResults(b, comms).pct_value_traced_to_cashout
        = Reference!ProtoRound(Reference!AmountOf(b, Reference!ProtoTraced(b)),
                               Reference!AmountOf(b, DOMAIN b.complaints), 1000)
  BY DEF Reference!PrototypeResults
<1>2. /\ Reference!AmountOf(b, Reference!ProtoTraced(b)) = part
      /\ Reference!AmountOf(b, DOMAIN b.complaints) = total
  BY ValueAgrees
<1>3. part \in Int /\ total \in Int
  <2> DEFINE T == {c \in Filed(b) : c.synd >= 0 /\ Reachable(b, c)}
  <2>1. IsFiniteSet(Filed(b)) /\ (\A c \in Filed(b) : c.amt \in Nat) /\ T \subseteq Filed(b)
    BY FiledIs
  <2> HIDE DEF T
  <2>2. IsFiniteSet(T) /\ \A c \in T : c.amt \in Nat
    BY <2>1, FS_Subset
  <2>3. Value(T) \in Nat /\ Value(Filed(b)) \in Nat
    BY <2>1, <2>2, ValueIs
  <2>4. QED
    BY <2>3 DEF TracedValue, TotalValue, T
<1> HIDE DEF part, total
<1>4. Percent(part, total) = Reference!ProtoRound(part, total, 1000)
  BY <1>3, RoundsAgree DEF Percent, Thousandths
<1>5. QED
  BY <1>1, <1>2, <1>4 DEF MoneyFigure, part, total

OtherFigures(b, results) ==
  /\ results.n_complaints = Len(b.complaints)
  /\ results.n_syndicates_seeded = Cardinality(DOMAIN b.syndicates)
  /\ results.section_accuracy_bm25 = Thousandths(<<V1Floor.hits, V1Floor.n>>)
  /\ results.f9_claims = StubResult.claims /\ results.f9_passed = StubResult.passed
  /\ results.f9_withheld = StubResult.withheld /\ results.f9_leaked = StubResult.leaked
  /\ results.chain_len = Len(Chain) /\ results.chain_verified = Verify(Chain)
  /\ results.tamper_detected = ~Verify(Tamper(Chain, TamperIndex))
LEMMA OthersAgree ==
  ASSUME NEW b, NEW comms
  PROVE  OtherFigures(b, Reference!PrototypeResults(b, comms))
<1> DEFINE r == Reference!PrototypeResults(b, comms)
           leaks == {i \in Reference!ProtoPassed : Reference!MockGenerate[i].fabricated = "yes"}
           altered == [Reference!ProtoRecords EXCEPT ![TamperIndex + 1] = 0]
<1>1. /\ r.n_complaints = Len(b.complaints)
      /\ r.n_syndicates_seeded = Reference!Cardinality(DOMAIN b.syndicates)
      /\ r.section_accuracy_bm25
           = Reference!ProtoRound(Reference!Cardinality(Reference!ProtoHits), Len(GoldenV1), 1000)
      /\ r.f9_claims = NClaims
      /\ r.f9_passed = Reference!Cardinality(Reference!ProtoPassed)
      /\ r.f9_withheld = NClaims - Reference!Cardinality(Reference!ProtoPassed)
      /\ r.f9_leaked = Reference!Cardinality(leaks)
      /\ r.chain_len = NRecords
      /\ r.chain_verified = Reference!ProtoVerify(Reference!ProtoRecords)
      /\ r.tamper_detected = ~Reference!ProtoVerify(altered)
  BY DEF Reference!PrototypeResults
<1> HIDE DEF r
<1>2. r.section_accuracy_bm25 = Thousandths(<<V1Floor.hits, V1Floor.n>>)
  <2> DEFINE hits == Cardinality(Reference!ProtoHits)
             n == Len(GoldenV1)
  <2>1. V1Floor.hits = hits /\ V1Floor.n = n
    BY HitsAgree
  <2>2. hits \in Int /\ n \in Int
    <3> DEFINE D == 1..n
               H == Reference!ProtoHits
    <3>1. n \in Nat /\ DOMAIN GoldenV1 = D
      BY LegalAssumption
    <3>2. IsFiniteSet(D) /\ H \subseteq D
      BY <3>1, CountUpTo DEF Reference!ProtoHits
    <3> HIDE DEF D, H
    <3>3. IsFiniteSet(H) /\ Cardinality(H) \in Nat
      BY <3>2, FS_Subset, FS_CardinalityType
    <3>4. QED
      BY <3>1, <3>3 DEF H
  <2>3. r.section_accuracy_bm25 = Reference!ProtoRound(hits, n, 1000)
    BY <1>1, SameCount
  <2> HIDE DEF hits, n
  <2>4. QED
    BY <2>1, <2>2, <2>3, RoundsAgree
<1>3. /\ leaks = {}
      /\ StubResult.claims = NClaims /\ StubResult.withheld = NClaims - StubResult.passed
  BY ProtoLeaksNone
<1>4. StubResult.passed = Cardinality(Reference!ProtoPassed) /\ StubResult.leaked = 0
  BY GatesAgree
<1>5. /\ Verify(Chain) /\ ~Verify(Tamper(Chain, TamperIndex)) /\ Len(Chain) = NRecords
  BY RunChain
<1>6. Reference!ProtoVerify(Reference!ProtoRecords) /\ ~Reference!ProtoVerify(altered)
  BY ProtoChainIs
<1> HIDE DEF leaks, altered
<1>7. r.f9_leaked = 0
  BY <1>1, <1>3, SameCount, FS_EmptySet
<1>8. r.f9_passed = StubResult.passed /\ r.f9_withheld = StubResult.withheld /\ r.f9_claims = StubResult.claims
  BY <1>1, <1>3, <1>4, SameCount
<1>9. r.n_syndicates_seeded = Cardinality(DOMAIN b.syndicates)
  BY <1>1, SameCount
<1>10. /\ r.chain_verified = Verify(Chain)
       /\ r.tamper_detected = ~Verify(Tamper(Chain, TamperIndex))
  <2>1. r.chain_verified = TRUE /\ r.tamper_detected = TRUE
    BY <1>1, <1>6
  <2>2. Verify(Chain) = TRUE /\ (~Verify(Tamper(Chain, TamperIndex))) = TRUE
    BY <1>5, Zenon DEF Verify
  <2>3. QED
    BY <2>1, <2>2, Zenon
<1>11. QED
  BY <1>1, <1>2, <1>4, <1>5, <1>7, <1>8, <1>9, <1>10 DEF OtherFigures, r

(* A run with the stub prints what the prototype prints for the same       *)
(* bundle, whatever partition the library returned (pipeline.py module     *)
(* docstring, tests/test_reproduction.py).                                 *)
THEOREM PrototypeReproduced == Spec => []ReproducesPrototype
<1>1. ASSUME PipelineInv, status = "completed", request.generator = "stub"
      PROVE  ReproducesPrototype
  <2> DEFINE b == art.bundle
             p == art.communities
             comms == SetToSeq(p)
             r == Reference!PrototypeResults(b, comms)
  <2>1. ProductInv(art, request, 9)
    BY <1>1 DEF PipelineInv, ProgressInv
  <2>2. /\ IsBundle(b) /\ LinkedInv(art) /\ TrailsInv(art) /\ MappedInv(art, request.mapper)
        /\ GateInv(art, "stub") /\ ChainInv(art) /\ art.results = ResultsOf(art)
    BY <1>1, <2>1 DEF ProductInv
  <2>3. p \in Communities(b) /\ art.networks \in NetworksOf(p) /\ art.metrics = LinkMetrics(b, p, art.networks)
    BY <2>2 DEF LinkedInv
  <2>4. Lists(comms, p)
    BY <2>2, <2>3, PartitionIs, CommunitiesListed
  <2>5. art.f9 = StubResult
    BY <2>2 DEF GateInv, RunGate
  <2>6. art.mapping_rows.v1_floor = V1Floor
    BY <2>2, RowsFloor DEF MappedInv
  <2>7. art.chain = Chain /\ art.chain_verified = Verify(Chain)
        /\ art.tamper_detected = ~Verify(Tamper(Chain, TamperIndex))
    BY <2>2 DEF ChainInv
  <2>8. art.pct_traced = Percent(TracedValue(b), TotalValue(b))
    BY <2>2 DEF TrailsInv
  <2> DEFINE results == art.results
  <2>9. /\ results.n_complaints = Len(b.complaints)
        /\ results.n_syndicates_seeded = Cardinality(DOMAIN b.syndicates)
        /\ results.networks_found = art.metrics.networks_found
        /\ results.linkage_precision = Thousandths(art.metrics.precision)
        /\ results.linkage_recall = Thousandths(art.metrics.recall)
        /\ results.linkage_f1 = Thousandths(art.metrics.f1)
        /\ results.pct_value_traced_to_cashout = art.pct_traced
        /\ results.section_accuracy_bm25
             = Thousandths(<<art.mapping_rows.v1_floor.hits, art.mapping_rows.v1_floor.n>>)
        /\ results.f9_claims = art.f9.claims /\ results.f9_passed = art.f9.passed
        /\ results.f9_withheld = art.f9.withheld /\ results.f9_leaked = art.f9.leaked
        /\ results.chain_len = Len(art.chain) /\ results.chain_verified = art.chain_verified
        /\ results.tamper_detected = art.tamper_detected
    BY <2>2 DEF ResultsOf
  <2>10. LinkFigures(art.metrics, r) /\ MoneyFigure(b, r) /\ OtherFigures(b, r)
    BY <2>2, <2>3, <2>4, LinkageAgrees, MoneyAgrees, OthersAgree
  <2>11. DOMAIN r = {"n_complaints", "n_syndicates_seeded", "networks_found", "linkage_precision",
                     "linkage_recall", "linkage_f1", "pct_value_traced_to_cashout",
                     "section_accuracy_bm25", "f9_claims", "f9_passed", "f9_withheld", "f9_leaked",
                     "chain_len", "chain_verified", "tamper_detected"}
    BY DEF Reference!PrototypeResults
  <2> HIDE DEF r, results
  <2>12. /\ results["networks_found"] = r["networks_found"]
         /\ results["linkage_precision"] = r["linkage_precision"]
         /\ results["linkage_recall"] = r["linkage_recall"]
         /\ results["linkage_f1"] = r["linkage_f1"]
    BY <2>9, <2>10 DEF LinkFigures
  <2>13. results["pct_value_traced_to_cashout"] = r["pct_value_traced_to_cashout"]
    BY <2>8, <2>9, <2>10 DEF MoneyFigure
  <2>14. /\ results["n_complaints"] = r["n_complaints"]
         /\ results["n_syndicates_seeded"] = r["n_syndicates_seeded"]
         /\ results["section_accuracy_bm25"] = r["section_accuracy_bm25"]
    BY <2>6, <2>9, <2>10 DEF OtherFigures
  <2>15. /\ results["f9_claims"] = r["f9_claims"] /\ results["f9_passed"] = r["f9_passed"]
         /\ results["f9_withheld"] = r["f9_withheld"] /\ results["f9_leaked"] = r["f9_leaked"]
    BY <2>5, <2>9, <2>10 DEF OtherFigures
  <2>16. /\ results["chain_len"] = r["chain_len"] /\ results["chain_verified"] = r["chain_verified"]
         /\ results["tamper_detected"] = r["tamper_detected"]
    BY <2>7, <2>9, <2>10 DEF OtherFigures
  <2>17. \A key \in DOMAIN r : results[key] = r[key]
    BY <2>11, <2>12, <2>13, <2>14, <2>15, <2>16
  <2>18. QED
    BY <2>17 DEF ReproducesPrototype, r, results
<1>2. ASSUME PipelineInv PROVE ReproducesPrototype
  BY <1>1, <1>2 DEF ReproducesPrototype
<1>3. QED
  BY PipelineIsInductive, <1>2, PTL
=============================================================================
