------------------------------ MODULE RunViews ------------------------------
(***************************************************************************)
(* What a completed run turns into: the answers of the read endpoints      *)
(* (api/routers/networks.py, cases.py, runs.py) and the rows that          *)
(* db/persist.py writes.  art is the PipelineArtifacts of the run.         *)
(***************************************************************************)
EXTENDS Linkage, F9

NoRow == [none |-> TRUE]
RowOf(rows, synd) ==
  LET found == {t \in Range(rows) : t.syndicate = synd}
  IN IF found = {} THEN NoRow ELSE CHOOSE t \in found : TRUE

(* GET /api/networks/{idx}.                                                *)
NetworkOut(art, idx) ==
  LET com == art.networks[idx]
      synd == MajoritySyndicate(art.bundle, com)
  IN [index |-> idx, size |-> Cardinality(com), members |-> com, syndicate |-> synd,
      triage |-> RowOf(art.triage, synd), trail |-> RowOf(art.trails, synd)]
(* GET /api/networks.                                                      *)
ListNetworks(art) ==
  [nodes |-> Ids(art.bundle),
   edges |-> {<<e[1], e[2], Weight(art.bundle, e[1], e[2])>> : e \in art.edges},
   networks |-> [idx \in DOMAIN art.networks |-> NetworkOut(art, idx)]]

(* GET /api/cases/{run_id}/packet and the facts POST .../claims starts     *)
(* its generator with.                                                     *)
GetPacket(art) == art.packet
CaseFacts(art) ==
  [n_complaints |-> art.results.n_complaints, networks_found |-> art.results.networks_found,
   largest |-> IF art.networks = <<>> THEN 0 ELSE Max({Cardinality(com) : com \in Range(art.networks)}),
   pct |-> art.results.pct_value_traced_to_cashout]
RunClaims(generator, reply) == RunGate(generator, reply)

(* persist_run: one transaction of rows that refer to each other by the    *)
(* keys the inserts returned; a complaint row is named by its ext_id.      *)
ComplaintRow(c) ==
  [ext_id |-> c.id, synd |-> c.synd, amt |-> c.amt, mule |-> c.mule, intake_hash |-> c.intake_hash]
(* Mutant: a tie goes to the last syndicate.                               *)
NetworkRowLast(art, idx) ==
  LET com == art.networks[idx]
      count(s) == Cardinality({c \in Complaints(art.bundle) : c.id \in com /\ c.synd = s})
      voters == {c.synd : c \in {d \in Complaints(art.bundle) : d.id \in com /\ d.synd >= 0}}
      synd == Max({s \in voters : \A t \in voters : count(s) >= count(t)})
  IN [idx |-> idx, size |-> Cardinality(com), members |-> com,
      triage |-> RowOf(art.triage, synd), trail |-> RowOf(art.trails, synd)]
NetworkRow(art, idx) ==
  LET com == art.networks[idx]
      voters == {c.synd : c \in {d \in Complaints(art.bundle) : d.id \in com /\ d.synd >= 0}}
      count(s) == Cardinality({c \in Complaints(art.bundle) : c.id \in com /\ c.synd = s})
      best == {s \in voters : \A t \in voters : count(s) >= count(t)}
      synd == IF best = {} THEN None ELSE Min(best)
  IN [idx |-> idx, size |-> Cardinality(com), members |-> com,
      triage |-> RowOf(art.triage, synd), trail |-> RowOf(art.trails, synd)]
PersistRows(art) ==
  [runs |-> [seed |-> art.results.seed, status |-> "completed", metrics |-> art.results],
   complaints |-> {ComplaintRow(c) : c \in Complaints(art.bundle)},
   entities |-> Identifiers(art.bundle),
   entity_mentions |-> UNION {{<<c.id, x>> : x \in c.ids} : c \in Complaints(art.bundle)},
   links |-> {<<e[1], e[2], Weight(art.bundle, e[1], e[2])>> : e \in art.edges},
   networks |-> [idx \in DOMAIN art.networks |-> NetworkRow(art, idx)],
   money_edges |-> art.bundle.money]
=============================================================================
