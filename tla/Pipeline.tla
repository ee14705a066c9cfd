------------------------------ MODULE Pipeline ------------------------------
(***************************************************************************)
(* One pipeline run (pipeline.py, execute): nine stages over the bundle of *)
(* the seed, each an action that computes with the engine and leaves its   *)
(* product in art.  The library's partition and the model's answer are     *)
(* free; the bundle, the requested generator and the mapper the caller     *)
(* could build are picked by Init.                                         *)
(***************************************************************************)
EXTENDS Synthetic, MoneyTrail, LegalMapping, Custody, Packet, RunViews

CONSTANTS
  Inputs,          \* [bundle, generator, mapper] considered
  Replies,         \* what the local model may answer
  NRecords,        \* N_CUSTODY_RECORDS
  TamperIndex      \* TAMPER_INDEX

ASSUME PipelineAssumption ==
  /\ \A in \in Inputs :
       /\ Generated(in.bundle)
       /\ in.generator \in {"stub", "ollama"} /\ in.mapper \in {"full", "degraded"}
  /\ \A text \in [kind : Families, lang : Langs] : Scored(text)
  /\ \A reply \in Replies :
       reply = "unavailable" \/ reply = "no_array" \/ reply \in Seq(Range(reply))
  /\ NRecords \in Nat /\ TamperIndex \in Nat /\ TamperIndex < NRecords
  /\ SectionsOf.v2 = OffenceV2 /\ SectionsOf.v1 = CorpusV1

VARIABLES
  request,  \* [generator, mapper]
  stages,   \* stages completed, in order
  events,   \* [stage, event] as emitted, metrics left out
  art,      \* what the stages have produced so far
  status    \* "running", "completed" or the error execute raised

vars == <<request, stages, events, art, status>>

EXECUTION_ORDER ==
  <<"ingest", "entity_resolution", "linkage", "money_trail", "triage",
    "legal_mapping", "f9_audit", "packet", "signoff">>

Init ==
  /\ \E in \in Inputs :
       /\ request = [generator |-> in.generator, mapper |-> in.mapper]
       /\ art = [bundle |-> in.bundle]
  /\ stages = <<>> /\ events = <<>> /\ status = "running"

Running(stage) ==
  /\ status = "running"
  /\ Len(stages) < Len(EXECUTION_ORDER)
  /\ stage = EXECUTION_ORDER[Len(stages) + 1]
Started(stage) == [stage |-> stage, event |-> "stage.started"]
Completed(stage) == [stage |-> stage, event |-> "stage.completed"]
(* A record with further fields.                                           *)
Extended(r, new) ==
  [field \in DOMAIN r \cup DOMAIN new |-> IF field \in DOMAIN r THEN r[field] ELSE new[field]]
(* em.start, the stage's work, em.complete.                                *)
Complete(stage, product) ==
  /\ Running(stage)
  /\ stages' = Append(stages, stage)
  /\ events' = events \o <<Started(stage), Completed(stage)>>
  /\ art' = Extended(art, product)
  /\ UNCHANGED request

(* The intake hash is the hash of the narrative, the extraction is scored  *)
(* against the identifiers the generator embedded.                         *)
Sha256(c) == [text |-> c.text, ids |-> c.ids, amt |-> c.amt, mule |-> c.mule]
Received(c) ==
  [id |-> c.id, synd |-> c.synd, ids |-> c.ids, amt |-> c.amt, mule |-> c.mule,
   text |-> c.text, intake_hash |-> Sha256(c)]
Hashed(b) ==
  [complaints |-> [i \in DOMAIN b.complaints |-> Received(b.complaints[i])],
   syndicates |-> b.syndicates, money |-> b.money]
NerCounts(b) ==
  LET total(Part(_)) == SumFunction([i \in DOMAIN b.complaints |-> Part(b.complaints[i])])
  IN [tp |-> total(LAMBDA c : Cardinality(Extracted(c) \cap c.ids)),
      fp |-> total(LAMBDA c : Cardinality(Extracted(c) \ c.ids)),
      fn |-> total(LAMBDA c : Cardinality(c.ids \ Extracted(c)))]
Ingest ==
  /\ Running("ingest")
  /\ stages' = <<"ingest">>
  /\ events' = <<Started("ingest"), Completed("ingest")>>
  /\ art' = [bundle |-> Hashed(art.bundle), ner |-> NerCounts(art.bundle)]
  /\ UNCHANGED <<request, status>>

EntityResolution ==
  Complete("entity_resolution", [resolution |-> Resolution(art.bundle)]) /\ UNCHANGED status

Link ==
  /\ Running("linkage")
  /\ \E p \in Communities(art.bundle) : \E networks \in NetworksOf(p) :
       Complete("linkage", LinkResult(art.bundle, p, networks))
  /\ UNCHANGED status

FollowMoney ==
  /\ Complete("money_trail",
       LET t == TrailResult(art.bundle)
       IN [trails |-> t.per_network, pct_traced |-> t.pct_traced, progress |-> t.progress])
  /\ UNCHANGED status

Triage == Complete("triage", [triage |-> TriageQueue(art.bundle)]) /\ UNCHANGED status

(* The caller's mapper, or BM25 and rules with the run labelled degraded.  *)
MapComplaint(mapper, c) ==
  IF mapper = "full" THEN FullMap(c.id, c.text) ELSE Bm25RulesMap(c.id, c.text)
V1Floor == MeasureAccuracy(CorpusV1, GoldenV1)
V2Ablation == MeasureAccuracy(OffenceV2, GoldenV1)
FullStack == [v2_full_stack |-> Measure(GoldenV1), extended_v2_full_stack |-> Measure(GoldenV2)]
MappingRows(mapper, mappings) ==
  LET low == CountWhere(mappings, LAMBDA m : m.confidence # "HIGH")
      run == [v1_floor |-> V1Floor, v2_bm25_ablation |-> V2Ablation,
              run_high |-> Len(mappings) - low, run_low |-> low]
  IN IF mapper = "full"
     THEN Extended(run, Extended(FullStack,
            [degraded |-> FALSE, routing_rate |-> <<FullStack.v2_full_stack.routed, Len(GoldenV1)>>]))
     ELSE Extended(run, [degraded |-> TRUE, routing_rate |-> <<low, Len(mappings)>>])
LegalMap ==
  /\ Complete("legal_mapping",
       LET cs == art.bundle.complaints
           mappings == [i \in DOMAIN cs |-> MapComplaint(request.mapper, cs[i])]
       IN [mappings |-> mappings, mapping_rows |-> MappingRows(request.mapper, mappings)])
  /\ UNCHANGED status

(* The gate, then the twelve-record chain and its tampered copy.           *)
Chain == BuildChain([i \in 1..NRecords |-> i])
ChainFigures ==
  [chain |-> Chain, chain_verified |-> Verify(Chain),
   tamper_detected |-> ~Verify(Tamper(Chain, TamperIndex))]
F9Audit ==
  /\ \E reply \in IF request.generator = "stub" THEN {"none"} ELSE Replies :
       Complete("f9_audit",
         LET gate == RunGate(request.generator, reply)
         IN Extended(ChainFigures,
              [f9 |-> gate.result, f9_degraded |-> gate.degraded, reply |-> reply]))
  /\ UNCHANGED status

(* The first of the largest networks, and the context of its packet.       *)
Largest(networks) ==
  networks[CHOOSE i \in DOMAIN networks :
             \A j \in DOMAIN networks :
               Cardinality(networks[j]) < Cardinality(networks[i])
               \/ (Cardinality(networks[j]) = Cardinality(networks[i]) /\ i <= j)]
(* Mutant: the sections of every complaint are counted.                    *)
SectionCountOfAll(mappings, com, sec) ==
  Cardinality({i \in DOMAIN mappings : sec \in Range(mappings[i].sections)})
SectionCount(mappings, com, sec) ==
  Cardinality({i \in DOMAIN mappings :
                 mappings[i].complaint_id \in com /\ sec \in Range(mappings[i].sections)})
PacketSections(mappings, com) ==
  LET count(sec) == SectionCount(mappings, com, sec)
  IN InOrder({sec \in Range(CorpusV2) : count(sec) > 0},
       LAMBDA x, y : count(x) > count(y) \/ (count(x) = count(y) /\ KeyAfter(y, x)))
CaseContext(a, com, synd) ==
  LET members == Keep(a.bundle.complaints, LAMBDA c : c.id \in com)
  IN [case |-> [case_id |-> synd, n_complaints |-> Len(members)], complaints |-> members,
      network |-> [syndicate |-> synd, size |-> Cardinality(com), members |-> com],
      trail |-> a.trails[synd], sections |-> PacketSections(a.mappings, com),
      corpus_v2 |-> [sec \in Range(CorpusV2) |-> sec], f9 |-> a.f9,
      custody_extract |-> a.chain, chain_head |-> a.chain[Len(a.chain)].hash]
LargestCase(a) ==
  CaseContext(a, Largest(a.networks), MajoritySyndicate(a.bundle, Largest(a.networks)))
PacketError(a) ==
  IF a.networks = <<>> THEN "no network found"
  ELSE IF MajoritySyndicate(a.bundle, Largest(a.networks)) = None THEN "no ground-truth syndicate"
  ELSE IF ~CanAssemble(LargestCase(a)) THEN "packet refused" ELSE "none"
AssemblePacket ==
  /\ Running("packet") /\ PacketError(art) = "none"
  /\ Complete("packet", [packet |-> Assemble(LargestCase(art))])
  /\ UNCHANGED status
(* An error ends the run after the stage has started.                      *)
PacketRaises ==
  /\ Running("packet") /\ PacketError(art) # "none"
  /\ status' = PacketError(art)
  /\ events' = Append(events, Started("packet"))
  /\ UNCHANGED <<request, stages, art>>

Thousandths(ratio) == Rounded(1000 * ratio[1], ratio[2])
ResultsOf(a) ==
  [n_complaints |-> Len(a.bundle.complaints),
   n_syndicates_seeded |-> Cardinality(DOMAIN a.bundle.syndicates),
   networks_found |-> a.metrics.networks_found,
   linkage_precision |-> Thousandths(a.metrics.precision),
   linkage_recall |-> Thousandths(a.metrics.recall),
   linkage_f1 |-> Thousandths(a.metrics.f1),
   pct_value_traced_to_cashout |-> a.pct_traced,
   section_accuracy_bm25 |-> Thousandths(<<a.mapping_rows.v1_floor.hits, a.mapping_rows.v1_floor.n>>),
   f9_claims |-> a.f9.claims, f9_passed |-> a.f9.passed, f9_withheld |-> a.f9.withheld,
   f9_leaked |-> a.f9.leaked, chain_len |-> Len(a.chain),
   chain_verified |-> a.chain_verified, tamper_detected |-> a.tamper_detected,
   seed |-> "seed", mapping |-> a.mapping_rows, mapping_degraded |-> a.mapping_rows.degraded,
   generator_name |-> a.f9.generator_name, f9_is_stub |-> a.f9.is_stub,
   f9_corpus_version |-> a.f9.corpus_version, f9_degraded |-> a.f9_degraded]
Signoff ==
  /\ Running("signoff")
  /\ stages' = Append(stages, "signoff")
  /\ events' = events \o <<Started("signoff"), Completed("signoff"),
                           [stage |-> "signoff", event |-> "run.completed"]>>
  /\ art' = Extended(art, [results |-> ResultsOf(art)])
  /\ status' = "completed"
  /\ UNCHANGED request

Next ==
  \/ Ingest \/ EntityResolution \/ Link \/ FollowMoney \/ Triage \/ LegalMap
  \/ F9Audit \/ AssemblePacket \/ PacketRaises \/ Signoff

Spec == Init /\ [][Next]_vars
-----------------------------------------------------------------------------
(* PROPERTIES *)

Reference == INSTANCE Prototype WITH
  ProtoMinSize <- MinCommunitySize, ProtoSections <- CorpusV1,
  ProtoText <- LAMBDA sec : {q[2] : q \in {v \in Verbatim.v1 : v[1] = sec}},
  ProtoBm25 <- Bm25Of, ProtoOrder <- KeyAfter, ProtoThresh <- Thresh, Labelled <- GoldenV1,
  ProtoReal <- Phrases, ProtoInvented <- InventedSection, ProtoNClaims <- NClaims,
  ProtoNRecords <- NRecords, ProtoTamperIndex <- TamperIndex

(* With the stub, the clock-free keys of the results are those the         *)
(* prototype computes for the same bundle (pipeline.py module docstring,   *)
(* tests/test_reproduction.py), whatever partition networkx returned.      *)
ReproducesPrototype ==
  status = "completed" /\ request.generator = "stub" =>
    LET reference == Reference!PrototypeResults(art.bundle, SetToSeq(art.communities))
    IN \A key \in DOMAIN reference : art.results[key] = reference[key]

(* No rupee of a network is lost or counted twice on its trail: what does  *)
(* not reach the cash-out node by the hops is stranded at a break, the     *)
(* networks add up to the headline figure, and so does the progress        *)
(* reported on the way (engine/money_trail.py, the money_trail stage).     *)
ValueConserved ==
  "trails" \in DOMAIN art =>
    /\ \A s \in DOMAIN art.trails :
         LET t == art.trails[s]
             into(x) == SumFunction([i \in DOMAIN t.hops |->
                          IF t.hops[i].dst = x THEN t.hops[i].amount ELSE 0])
         IN /\ into(art.bundle.syndicates[s].cash) = t.traced_amt
            /\ t.traced_amt + SumFunction([k \in Range(t.breaks) |-> into(k[1])]) = t.total_amt
    /\ SumFunction([s \in Syndicates |-> art.trails[s].traced_amt]) = TracedValue(art.bundle)
    /\ art.progress[NSynd - 1] = art.pct_traced

(* The labels say what ran: stub figures are the stub's against the frozen *)
(* corpus on every path and leak nothing, a passed claim is verbatim in    *)
(* the corpus of the label, a mapping without the semantic path is marked, *)
(* and the evidence provision is never mapped, claimed or put in a packet. *)
LabelledHonestly ==
  /\ "f9" \in DOMAIN art =>
       /\ art.f9.is_stub <=> request.generator = "stub" \/ art.reply = "unavailable"
       /\ art.f9.is_stub <=> art.f9.corpus_version = "v1"
       /\ art.f9_degraded <=> art.f9.is_stub /\ request.generator = "ollama"
       /\ art.f9.is_stub => art.f9.passed = Cardinality(Reference!ProtoPassed)
       /\ art.f9.leaked = 0
       /\ \A v \in Range(art.f9.verdicts) : v.verdict = "PASSED" =>
            /\ <<v.claim.section, v.claim.quote>> \in Verbatim[art.f9.corpus_version]
            /\ v.claim.section # EvidenceSection
  /\ "mappings" \in DOMAIN art => \A m \in Range(art.mappings) :
       /\ art.mapping_rows.degraded <=> "semantic" \notin DOMAIN m.paths
       /\ m.confidence = "HIGH" <=> Range(m.sections) \cap Range(m.paths.rules) # {}
       /\ \A path \in DOMAIN m.paths : EvidenceSection \notin Range(m.paths[path])
       /\ EvidenceSection \notin Range(m.sections)

(* The packet is about a largest network as GET /api/networks shows it:    *)
(* its members with the hashes taken at ingest, its syndicate and trail,   *)
(* only sections some member was mapped to, and the run's own F9 figures.  *)
PacketIsServedNetwork ==
  status = "completed" =>
    LET p == GetPacket(art) IN
    /\ \E idx \in DOMAIN art.networks :
         LET net == NetworkOut(art, idx)
         IN /\ p.network = [syndicate |-> net.syndicate, size |-> net.size, members |-> net.members]
            /\ p.trail = net.trail
            /\ net.size = CaseFacts(art).largest
    /\ {[id |-> c.id, intake_hash |-> Sha256(c)] :
          c \in {d \in Complaints(art.bundle) : d.id \in p.network.members}} = Range(p.complaints)
    /\ \A sec \in Range(p.sections) :
         \E m \in Range(art.mappings) :
           m.complaint_id \in p.network.members /\ sec.id \in Range(m.sections) \cap OffenceV2
    /\ p.f9.withheld_sub_classes.invented_section + p.f9.withheld_sub_classes.unverifiable_quote
         = art.results.f9_withheld
    /\ Verify(p.custody_extract) /\ p.chain_head = p.custody_extract[NRecords].hash

(* What persist_run writes is what the endpoints answer from memory, and   *)
(* every reference between its rows is to a row it writes: each network    *)
(* has its trail and triage row, none of its members is noise.             *)
PersistedAsServed ==
  status = "completed" =>
    LET db == PersistRows(art)
        served == ListNetworks(art)
    IN /\ db.links = served.edges
       /\ {c.ext_id : c \in db.complaints} = served.nodes
       /\ db.entity_mentions \subseteq served.nodes \X db.entities
       /\ Cardinality(db.complaints) = db.runs.metrics.n_complaints
       /\ DOMAIN db.networks = 1 .. CaseFacts(art).networks_found
       /\ \A idx \in DOMAIN db.networks :
            LET row == db.networks[idx]
                net == served.networks[idx]
            IN /\ row.members \subseteq served.nodes
               /\ \A c \in db.complaints : c.ext_id \in row.members => c.synd >= 0
               /\ row.trail = net.trail /\ row.triage = net.triage
               /\ net.trail # NoRow /\ net.triage # NoRow

(* A run fails for one reason only, that no network was found: it is never *)
(* refused its packet for a section outside the corpus or a network of     *)
(* noise; run.completed is emitted by exactly the runs that have a packet. *)
OnlyEmptyRunsFail ==
  /\ status \notin {"running", "completed"} =>
       status = "no network found" /\ art.metrics.networks_found = 0
  /\ (\E i \in DOMAIN events : events[i].event = "run.completed") <=> "results" \in DOMAIN art
  /\ "results" \in DOMAIN art => "packet" \in DOMAIN art /\ art.metrics.networks_found > 0
=============================================================================
