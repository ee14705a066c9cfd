------------------------------- MODULE Packet -------------------------------
(***************************************************************************)
(* Assembly of the Section 63 case packet (engine/packet/section63.py).    *)
(* ctx is the case context; its corpus maps a section to its entry; a      *)
(* quote is the text itself or a part of it.                               *)
(***************************************************************************)
EXTENDS Integers, FiniteSets, Sequences, Ordering

REQUIRED_KEYS ==
  {"case", "complaints", "network", "trail", "sections", "corpus_v2", "f9",
   "custody_extract", "chain_head"}

ComplaintEntry(c) == [id |-> c.id, intake_hash |-> c.intake_hash]
TrailEntry(t) ==
  [syndicate |-> t.syndicate, hops |-> t.hops, breaks |-> t.breaks,
   traced_amt |-> t.traced_amt, total_amt |-> t.total_amt]

(* A section is quoted from its corpus entry only.                         *)
CanQuote(sec, corpus) == sec \in DOMAIN corpus
SectionEntry(sec, corpus) == [id |-> sec, quote_verbatim |-> corpus[sec]]

SubClassCount(f9, class) == CountWhere(f9.verdicts, LAMBDA v : v.sub_class = class)
F9Entry(f9) ==
  [generator_name |-> f9.generator_name, is_stub |-> f9.is_stub,
   corpus_version |-> f9.corpus_version, claims |-> f9.claims, passed |-> f9.passed,
   withheld |-> f9.withheld, leaked |-> f9.leaked, verdicts |-> f9.verdicts,
   withheld_sub_classes |->
     [invented_section |-> SubClassCount(f9, "invented_section"),
      unverifiable_quote |-> SubClassCount(f9, "unverifiable_quote")]]

(* Parts A and B are drafted for the case, their signature blocks blank.   *)
Certificate(case, head) ==
  LET part == [case_reference |-> case.case_id, signature |-> "", place |-> "", date |-> ""]
  IN [part_a |-> part, part_b |-> [part |-> part, chain_head |-> head],
      label |-> "drafted by Paritran, signed by the named custodian and independent expert"]

(* assemble raises on a missing input or a section outside the corpus.     *)
CanAssemble(ctx) ==
  /\ REQUIRED_KEYS \subseteq DOMAIN ctx
  /\ \A i \in DOMAIN ctx.sections : CanQuote(ctx.sections[i], ctx.corpus_v2)
Assemble(ctx) ==
  [case |-> ctx.case, network |-> ctx.network, trail |-> TrailEntry(ctx.trail),
   complaints |-> [i \in DOMAIN ctx.complaints |-> ComplaintEntry(ctx.complaints[i])],
   sections |-> [i \in DOMAIN ctx.sections |-> SectionEntry(ctx.sections[i], ctx.corpus_v2)],
   f9 |-> F9Entry(ctx.f9), custody_extract |-> ctx.custody_extract,
   certificate |-> Certificate(ctx.case, ctx.chain_head), chain_head |-> ctx.chain_head]
=============================================================================
