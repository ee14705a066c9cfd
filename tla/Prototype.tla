------------------------------ MODULE Prototype ------------------------------
(***************************************************************************)
(* The committed prototype (src/paritran_prototype.py): the reference that *)
(* the results of a run are compared with.  It is one script over one      *)
(* bundle b and the communities networkx returned, here as sequence comms; *)
(* its constants are those of the engine.                                  *)
(***************************************************************************)
EXTENDS Integers, FiniteSets, Sequences, Functions

CONSTANTS
  ProtoMinSize,     \* len(com) >= 5
  ProtoSections,    \* keys of CORPUS
  ProtoText(_),     \* section -> quotes its text contains
  ProtoBm25(_, _),
  ProtoOrder(_, _), \* order of two keys, for ties of the ranking
  ProtoThresh,
  Labelled,         \* LABELLED: sequence of [text, gold]
  ProtoReal,        \* `real`: sequence of <<section, quote>>
  ProtoInvented,    \* "BNS 420"
  ProtoNClaims,     \* 50
  ProtoNRecords,    \* 12
  ProtoTamperIndex  \* 5

ProtoRound(num, den, scale) == (2 * num * scale + den) \div (2 * den)

(* pred numbers the communities; the fallback numbers never repeat one.    *)
Pred(comms, id) == CHOOSE k \in DOMAIN comms : id \in comms[k]
ProtoPairs(b) == {p \in (DOMAIN b.complaints) \X (DOMAIN b.complaints) : p[1] < p[2]}
Agreement(b, comms) ==
  LET sp(p) == Pred(comms, b.complaints[p[1]].id) = Pred(comms, b.complaints[p[2]].id)
      st(p) == b.complaints[p[1]].synd = b.complaints[p[2]].synd
      count(same, truth) == Cardinality({p \in ProtoPairs(b) : sp(p) = same /\ st(p) = truth})
  IN [tp |-> count(TRUE, TRUE), fp |-> count(TRUE, FALSE), fn |-> count(FALSE, TRUE)]

(* The walk: nodes reached from x after k edges.                           *)
Walk(money, x) ==
  LET step[k \in 0 .. Cardinality(money)] ==
        IF k = 0 THEN {x} ELSE step[k - 1] \cup {e[2] : e \in {f \in money : f[1] \in step[k - 1]}}
  IN step[Cardinality(money)]
ProtoTraced(b) ==
  {i \in DOMAIN b.complaints :
     /\ b.complaints[i].synd >= 0
     /\ b.syndicates[b.complaints[i].synd].cash \in Walk(b.money, b.complaints[i].mule)}
AmountOf(b, I) == SumFunction([i \in I |-> b.complaints[i].amt])

(* map_sections of the script: two best keys over the threshold, else the  *)
(* best one.                                                               *)
Beats(text, x, y) ==
  ProtoBm25(text, x) > ProtoBm25(text, y)
  \/ (ProtoBm25(text, x) = ProtoBm25(text, y) /\ ProtoOrder(x, y))
PlaceOf(text, k) == Cardinality({j \in ProtoSections : j # k /\ Beats(text, j, k)})
ProtoMapped(text) ==
  LET over == {k \in ProtoSections : PlaceOf(text, k) < 2 /\ ProtoBm25(text, k) >= ProtoThresh}
  IN IF over # {} THEN over ELSE {k \in ProtoSections : PlaceOf(text, k) = 0}
ProtoHits == {i \in DOMAIN Labelled : ProtoMapped(Labelled[i].text) \cap Labelled[i].gold # {}}

(* The gate of the script lets an empty quote pass: no claim of            *)
(* mock_generate has one.                                                  *)
ProtoGate(claim) ==
  claim.section \in ProtoSections /\ (claim.quote = "" \/ claim.quote \in ProtoText(claim.section))
MockGenerate ==
  [i \in 0 .. ProtoNClaims - 1 |->
     LET real == ProtoReal[(i % Len(ProtoReal)) + 1]
     IN CASE i % 5 # 0 -> [section |-> real[1], quote |-> real[2], fabricated |-> "no"]
          [] i % 10 = 0 -> [section |-> ProtoInvented, quote |-> "invented", fabricated |-> "yes"]
          [] OTHER -> [section |-> real[1], quote |-> "paraphrase", fabricated |-> "yes"]]
ProtoPassed == {i \in DOMAIN MockGenerate : ProtoGate(MockGenerate[i])}

(* The chain of the script and its verification, carried hash by hash.     *)
ProtoHash(recs, i) ==
  LET h[k \in 0..i] == IF k = 0 THEN <<"genesis">> ELSE <<h[k - 1], recs[k]>> IN h[i]
ProtoRecords == [i \in 1..ProtoNRecords |-> i]
ProtoVerify(recs) == \A i \in DOMAIN recs : ProtoHash(recs, i) = ProtoHash(ProtoRecords, i)

(* The keys of results.json that do not depend on the clock.               *)
PrototypeResults(b, comms) ==
  LET a == Agreement(b, comms)
      ratio(num, den) == IF den = 0 THEN 0 ELSE ProtoRound(num, den, 1000)
  IN [n_complaints |-> Len(b.complaints),
      n_syndicates_seeded |-> Cardinality(DOMAIN b.syndicates),
      networks_found |-> Cardinality({k \in DOMAIN comms : Cardinality(comms[k]) >= ProtoMinSize}),
      linkage_precision |-> ratio(a.tp, a.tp + a.fp),
      linkage_recall |-> ratio(a.tp, a.tp + a.fn),
      linkage_f1 |-> ratio(2 * a.tp, 2 * a.tp + a.fp + a.fn),
      pct_value_traced_to_cashout |->
        ProtoRound(AmountOf(b, ProtoTraced(b)), AmountOf(b, DOMAIN b.complaints), 1000),
      section_accuracy_bm25 |-> ProtoRound(Cardinality(ProtoHits), Len(Labelled), 1000),
      f9_claims |-> ProtoNClaims, f9_passed |-> Cardinality(ProtoPassed),
      f9_withheld |-> ProtoNClaims - Cardinality(ProtoPassed),
      f9_leaked |-> Cardinality({i \in ProtoPassed : MockGenerate[i].fabricated = "yes"}),
      chain_len |-> ProtoNRecords, chain_verified |-> ProtoVerify(ProtoRecords),
      tamper_detected |-> ~ProtoVerify([ProtoRecords EXCEPT ![ProtoTamperIndex + 1] = 0])]
=============================================================================
