---------------------------- MODULE LegalMapping ----------------------------
(***************************************************************************)
(* Section mapping (engine/legal): BM25, the semantic index and the rules  *)
(* over a corpus, the agreement gate, and the measures over a golden set.  *)
(* A text is looked up in score tables; scores are integers, a cosine is   *)
(* in hundredths.                                                          *)
(***************************************************************************)
EXTENDS Integers, FiniteSets, Sequences, Functions, FiniteSetsExt, SequencesExt, Ordering

CONSTANTS
  CorpusV1,        \* sections of the condensed corpus
  CorpusV2,        \* sections of the bare-act corpus, in key order
  EvidenceSection, \* NON_OFFENCE_SECTIONS: BSA 63
  Bm25Of(_, _),    \* BM25 score of a text and a section
  CosineOf(_, _),  \* cosine of a text and a section
  MatchedBy(_),    \* patterns of the rule table found in a text
  GoldenV1,        \* golden cases: [text, gold]
  GoldenV2,
  Thresh           \* THRESH of map_sections

TopK == 2

(* Offence candidates: the corpus without the evidence provisions.         *)
OffenceV2 == Range(CorpusV2) \ {EvidenceSection}
Scored(text) ==
  \A sec \in Range(CorpusV2) : Bm25Of(text, sec) \in Nat /\ CosineOf(text, sec) \in Int

ASSUME LegalAssumption ==
  /\ CorpusV2 \in Seq(Range(CorpusV2)) /\ IsInjective(CorpusV2)
  /\ EvidenceSection \in Range(CorpusV2)
  /\ CorpusV1 # {} /\ CorpusV1 \subseteq OffenceV2
  /\ GoldenV1 # <<>> /\ GoldenV1 \in Seq(Range(GoldenV1))
  /\ GoldenV2 # <<>> /\ GoldenV2 \in Seq(Range(GoldenV2))
  /\ \A case \in Range(GoldenV1) \cup Range(GoldenV2) : Scored(case.text)
  /\ Thresh \in Nat

KeyAfter(x, y) == \E i, j \in DOMAIN CorpusV2 : i > j /\ CorpusV2[i] = x /\ CorpusV2[j] = y
(* The scored sections by (score, key), descending.                        *)
Ranked(score) ==
  InOrder(DOMAIN score,
    LAMBDA x, y : score[x] > score[y] \/ (score[x] = score[y] /\ KeyAfter(x, y)))
Top(score) ==
  LET ranked == Ranked(score) IN SubSeq(ranked, 1, IF Len(ranked) < TopK THEN Len(ranked) ELSE TopK)
Bm25Scores(secs, text) == [k \in secs |-> Bm25Of(text, k)]
CosineScores(secs, text) == [k \in secs |-> CosineOf(text, k)]

(* BM25Index.map_sections: the top ones over the threshold, else the best. *)
MapSections(secs, text) ==
  LET best == Top(Bm25Scores(secs, text))
      over == Keep(best, LAMBDA k : Bm25Of(text, k) >= Thresh)
  IN IF over = <<>> THEN <<best[1]>> ELSE over
MeasureAccuracy(secs, golden) ==
  [hits |-> Cardinality({i \in DOMAIN golden :
                           Range(MapSections(secs, golden[i].text)) \cap golden[i].gold # {}}),
   n |-> Len(golden)]

(* Patterns, named by their subject, with a section each proposes.         *)
RuleTable ==
  <<<<"credentials", "IT Act 66C">>, <<"personation", "BNS 319">>,
    <<"personation_by_device", "IT Act 66D">>, <<"cheating", "BNS 318">>,
    <<"organised_crime", "BNS 111">>, <<"extortion", "BNS 308">>, <<"theft", "BNS 303">>,
    <<"breach_of_trust", "BNS 316">>, <<"forged_security", "BNS 338">>,
    <<"forged_security", "BNS 336">>, <<"forgery", "BNS 336">>,
    <<"computer_damage", "IT Act 43">>, <<"computer_damage", "IT Act 66">>,
    <<"evidence", "BSA 63">>>>
(* RuleLayer.propose: first-match order, no repeats, allowed sections only. *)
Propose(allowed, text) ==
  LET found == {i \in DOMAIN RuleTable :
                  RuleTable[i][1] \in MatchedBy(text) /\ RuleTable[i][2] \in allowed}
      first == {i \in found : \A j \in found : RuleTable[j][2] = RuleTable[i][2] => i <= j}
      rows == AtPlaces(RuleTable, first)
  IN [k \in DOMAIN rows |-> rows[k][2]]

(* FullMapper: half the BM25 score relative to its maximum, half the       *)
(* cosine; no BM25 term when every score is 0.                             *)
Combined(secs, text) ==
  LET maxRaw == Max({Bm25Of(text, j) : j \in secs})
  IN [k \in secs |-> IF maxRaw = 0 THEN CosineOf(text, k)
                     ELSE 100 * Bm25Of(text, k) + maxRaw * CosineOf(text, k)]
SectionMapping(c, secs, rules, paths) ==
  LET agree == Range(rules) \cap Range(secs) # {}
  IN [complaint_id |-> c, sections |-> secs, routed_to_human |-> ~agree,
      confidence |-> IF agree THEN "HIGH" ELSE "LOW", paths |-> paths]
FullMap(c, text) ==
  LET rules == Propose(OffenceV2, text)
  IN SectionMapping(c, Top(Combined(OffenceV2, text)), rules,
       [bm25 |-> Top(Bm25Scores(OffenceV2, text)),
        semantic |-> Top(CosineScores(OffenceV2, text)), rules |-> rules])
(* The degraded mapper of pipeline.py: BM25 and rules only.                *)
Bm25RulesMap(c, text) ==
  LET rules == Propose(OffenceV2, text)
      best == Top(Bm25Scores(OffenceV2, text))
  IN SectionMapping(c, best, rules, [bm25 |-> best, rules |-> rules])

(* FullMapper.measure over a golden set.                                   *)
Measure(golden) ==
  LET mapped(i) == FullMap(-1, golden[i].text)
      hit == {i \in DOMAIN golden : Range(mapped(i).sections) \cap golden[i].gold # {}}
      routed == {i \in DOMAIN golden : mapped(i).routed_to_human}
  IN [n |-> Len(golden), hits |-> Cardinality(hit), routed |-> Cardinality(routed),
      high_n |-> Len(golden) - Cardinality(routed), high_hits |-> Cardinality(hit \ routed)]
=============================================================================
