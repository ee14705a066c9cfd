----------------------------- MODULE MCPipeline -----------------------------
(* A small instance of Pipeline for TLC: two syndicates with two and one   *)
(* complaints, one noise complaint, networks of two, five sections.        *)
EXTENDS Pipeline

MCPoolSizes == [phones |-> {1}, devices |-> {0}, ips |-> {0}, l1 |-> {2}]
MCAmounts == {5, 7, 11, 13}

MCCorpusV1 == {"BNS 111", "BNS 318", "IT Act 66C"}
MCCorpusV2 == <<"BNS 111", "BNS 318", "BNS 319", "BSA 63", "IT Act 66C">>
(* Only Latin tokens score: a Hindi or Gujarati narrative scores nothing.  *)
MCBm25(text, sec) ==
  IF text.lang # "en" THEN 0
  ELSE CASE text.kind = "otp_vishing" -> (CASE sec = "IT Act 66C" -> 3 [] sec = "BSA 63" -> 4 [] OTHER -> 0)
         [] text.kind = "fake_trading_app" -> (CASE sec = "BNS 318" -> 2 [] sec = "BNS 319" -> 2 [] OTHER -> 1)
         [] OTHER -> IF sec = "BSA 63" THEN 3 ELSE 0
MCCosine(text, sec) ==
  CASE text.kind = "otp_vishing" -> (CASE sec = "BNS 318" -> 80 [] sec = "BSA 63" -> 90 [] OTHER -> 60)
    [] text.kind = "fake_trading_app" -> IF sec = "BNS 319" THEN 70 ELSE 65
    [] OTHER -> 50
MCMatched(text) ==
  CASE text.kind = "otp_vishing" -> {"credentials", "forgery", "forged_security", "evidence"}
    [] text.kind = "fake_trading_app" -> {"cheating", "personation_by_device"}
    [] OTHER -> {"evidence"}
MCText(kind, lang) == [kind |-> kind, lang |-> lang]
MCGoldenV1 ==
  <<[text |-> MCText("otp_vishing", "en"), gold |-> {"IT Act 66C"}],
    [text |-> MCText("fake_trading_app", "en"), gold |-> {"BNS 111"}],
    [text |-> MCText("noise", "en"), gold |-> {"BNS 319"}]>>
MCGoldenV2 == MCGoldenV1 \o <<[text |-> MCText("fake_trading_app", "hi"), gold |-> {"BNS 319"}]>>

MCSectionsOf == [v1 |-> MCCorpusV1, v2 |-> Range(MCCorpusV2) \ {"BSA 63"}]
(* As in the repository, only some stub phrases survive in the bare acts.  *)
MCVerbatim ==
  [v1 |-> {<<"BNS 318", "inducing">>, <<"IT Act 66C", "unique">>, <<"BNS 111", "syndicate">>},
   v2 |-> {<<"IT Act 66C", "unique">>, <<"BNS 318", "deceives">>, <<"BSA 63", "certificate">>}]
MCPhrases == <<<<"BNS 318", "inducing">>, <<"IT Act 66C", "unique">>, <<"BNS 111", "syndicate">>>>
MCUnbracketed ==
  [s \in {"BNS 318", "[BNS 318]", "BSA 63", "BNS 420", ""} |-> IF s = "[BNS 318]" THEN "BNS 318" ELSE s]
Item(shape, section, quote) == [shape |-> shape, section |-> section, quote |-> quote]
MCReplies ==
  {"unavailable", "no_array",
   <<Item("claim", "[BNS 318]", "deceives"), Item("claim", "BSA 63", "certificate"),
     Item("other", "", ""), Item("claim", "BNS 420", "invented")>>,
   <<Item("claim", "BNS 318", "inducing"), Item("claim", "BNS 318", ""), Item("claim", "", "deceives")>>}

(* Complaints 0 and 1 of syndicate 0, 2 of syndicate 1, 3 is noise.        *)
SyndOf == <<0, 0, 1>>
Amt == <<5, 7, 11>>
TwoMules == [phones |-> 1, devices |-> 0, ips |-> 0, l1 |-> 2]
MCTruth == [s \in 0..1 |-> SyndicateTruth(s, 2)]
Fraud(i, ids, mule, lang) ==
  [id |-> i - 1, synd |-> SyndOf[i], ids |-> ids, amt |-> Amt[i], mule |-> mule,
   text |-> Narrative(SyndOf[i], lang)]
Noise(lang) ==
  [id |-> 3, synd |-> -4, ids |-> {Solo(3)}, amt |-> 13, mule |-> Solo(3), text |-> Narrative(-4, lang)]
MCBundle(ids, mules, langs, money) ==
  [complaints |-> [i \in 1..3 |-> Fraud(i, ids[i], mules[i], langs[i])] \o <<Noise(langs[4])>>,
   syndicates |-> MCTruth, money |-> money]

HomeIds == <<{PH(0, 0)}, {PH(0, 0), L1(0, 1)}, {PH(1, 0)}>>
BridgedIds == <<{PH(0, 0)}, {PH(0, 0), L1(0, 1)}, {PH(1, 0), PH(0, 0)}>>
HomeMules == <<L1(0, 0), L1(0, 1), L1(1, 0)>>
English == <<"en", "en", "en", "en">>
Mules(s) == {L1(s, 0), L1(s, 1)}

(* Every way the identifiers of two complaints can be drawn and bleed, the *)
(* third near, far from or bridging them.                                  *)
SecondIds == {{PH(0, 0)}, {L1(0, 0), L1(0, 1)}, {L1(0, 1), PH(1, 0)}}
LinkFamily ==
  {MCBundle(<<x, y, z>>, HomeMules, English, LedgerEdges(MCTruth)) :
     x \in IdSets(0, TwoMules), y \in SecondIds, z \in IdSets(1, TwoMules)}
(* Every ledger, every mule each complaint paid into.                      *)
TrailFamily ==
  {MCBundle(BridgedIds, <<x, y, z>>, English, money) :
     x \in Mules(0), y \in Mules(0), z \in Mules(1), money \in SUBSET LedgerEdges(MCTruth)}
(* Every language.                                                         *)
TextFamily ==
  {MCBundle(BridgedIds, HomeMules, langs, LedgerEdges(MCTruth)) : langs \in [1..4 -> {"en", "hi"}]}
Asked(bundles, generators, mappers) ==
  [bundle : bundles, generator : generators, mapper : mappers]
MCInputs ==
  Asked(LinkFamily \cup TrailFamily, {"stub"}, {"full"})
  \cup Asked(TextFamily, {"stub", "ollama"}, {"full", "degraded"})
=============================================================================
