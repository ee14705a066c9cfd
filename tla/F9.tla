--------------------------------- MODULE F9 ---------------------------------
(***************************************************************************)
(* The F9 gate (engine/f9/gate.py) over the claims of the deterministic    *)
(* stub (llm/stub.py) or of the local model (llm/ollama_client.py), with   *)
(* the degrade path of pipeline.py and cases.py.  A quote is verbatim for  *)
(* the corpora Verbatim says it is found in.                               *)
(***************************************************************************)
EXTENDS Integers, FiniteSets, Sequences, Functions, FiniteSetsExt, SequencesExt, Ordering

CONSTANTS
  SectionsOf,   \* [v1, v2: the sections of each corpus the gate is built on]
  Verbatim,     \* [v1, v2: the <<section, quote>> pairs found verbatim]
  Phrases,      \* REAL_PHRASES: sequence of <<section, quote>>
  InventedSection,
  Unbracketed,  \* [section as the model writes it -> without surrounding brackets]
  NClaims       \* claims the stub returns: 50 in the code

Blank == ""
Paraphrase == "paraphrase"

ASSUME F9Assumption ==
  /\ \A p \in Range(Phrases) :
       /\ p = <<p[1], p[2]>> /\ p[1] \in SectionsOf.v1 /\ p[2] # Blank
       /\ p \in Verbatim.v1 /\ <<p[1], Paraphrase>> \notin Verbatim.v1
  /\ \A v \in Verbatim.v1 : v = <<v[1], v[2]>>
  /\ InventedSection \notin SectionsOf.v1
  /\ NClaims \in Nat
  /\ Phrases # <<>> /\ Phrases \in Seq(Range(Phrases))

(* fabricated is the ground truth: "yes", "no", or "none" for a live model. *)
Claim(section, quote, fabricated) == [section |-> section, quote |-> quote, fabricated |-> fabricated]

(* The stub: one claim in five is fabricated, every other of those cites a *)
(* section that does not exist.                                            *)
StubClaim(i) ==
  LET phrase == Phrases[(i % Len(Phrases)) + 1]
  IN IF i % 10 = 0 THEN Claim(InventedSection, "invented", "yes")
     ELSE IF i % 5 = 0 THEN Claim(phrase[1], Paraphrase, "yes")
     ELSE Claim(phrase[1], phrase[2], "no")
StubClaims == [i \in 1..NClaims |-> StubClaim(i - 1)]

(* The model's answer: "unavailable" for every transport, HTTP and shape   *)
(* failure, "no_array" for text without a JSON array, or the items of the  *)
(* first array.  An item is not a dict, or has a field that is no string,  *)
(* or is a dict of two strings.                                            *)
WellFormed(item) ==
  item.shape = "claim" /\ item.quote # Blank /\ Unbracketed[item.section] # Blank
ParseClaims(items) ==
  LET kept == Keep(items, WellFormed)
  IN [claims |-> [i \in DOMAIN kept |->
                    Claim(Unbracketed[kept[i].section], kept[i].quote, "none")],
      parse_errors |-> Len(items) - Len(kept)]

Check(version, claim) ==
  /\ claim.section \in SectionsOf[version]
  /\ claim.quote # Blank
  /\ <<claim.section, claim.quote>> \in Verbatim[version]
Verdict(version, claim) ==
  [claim |-> claim,
   verdict |-> IF Check(version, claim) THEN "PASSED" ELSE "WITHHELD",
   sub_class |-> IF Check(version, claim) THEN "none"
                 ELSE IF claim.section \notin SectionsOf[version] THEN "invented_section"
                 ELSE "unverifiable_quote"]
Evaluate(version, claims, name, stub) ==
  LET verdicts == [i \in DOMAIN claims |-> Verdict(version, claims[i])]
  IN [generator_name |-> name, is_stub |-> stub, corpus_version |-> version,
      verdicts |-> verdicts, claims |-> Len(verdicts),
      passed |-> CountWhere(verdicts, LAMBDA v : v.verdict = "PASSED"),
      withheld |-> CountWhere(verdicts, LAMBDA v : v.verdict = "WITHHELD"),
      leaked |-> CountWhere(verdicts, LAMBDA v : v.verdict = "PASSED" /\ v.claim.fabricated = "yes")]

StubResult == Evaluate("v1", StubClaims, "deterministic-stub", TRUE)
LiveResult(items) == Evaluate("v2", ParseClaims(items).claims, "ollama", FALSE)
(* Mutant: a degraded run checks the stub against the corpus asked for.    *)
RunGateKeepsCorpus(generator, reply) ==
  IF reply = "unavailable"
  THEN [result |-> Evaluate("v2", StubClaims, "deterministic-stub", TRUE), degraded |-> TRUE]
  ELSE IF generator = "stub" THEN [result |-> StubResult, degraded |-> FALSE]
  ELSE [result |-> LiveResult(IF reply = "no_array" THEN <<>> ELSE reply), degraded |-> FALSE]
(* The stub when asked for, or when the model does not answer: always      *)
(* against the frozen corpus, and labelled.                                *)
RunGate(generator, reply) ==
  IF generator = "stub" THEN [result |-> StubResult, degraded |-> FALSE]
  ELSE IF reply = "unavailable" THEN [result |-> StubResult, degraded |-> TRUE]
  ELSE IF reply = "no_array" THEN [result |-> LiveResult(<<>>), degraded |-> FALSE]
  ELSE [result |-> LiveResult(reply), degraded |-> FALSE]
=============================================================================
