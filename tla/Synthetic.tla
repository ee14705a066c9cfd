------------------------------ MODULE Synthetic ------------------------------
(***************************************************************************)
(* The synthetic bundle (engine/synthetic.py): which complaints and which  *)
(* money ledger `generate` can produce.  A random draw is a free choice    *)
(* within the range it draws from; identifiers are tuples, a narrative is  *)
(* its template family and its language.                                   *)
(***************************************************************************)
EXTENDS Integers, FiniteSets, Sequences

CONSTANTS
  NSynd,        \* N_SYND: number of syndicates
  NNoise,       \* N_NOISE: number of unrelated complaints
  PoolSizes,    \* [phones, devices, ips, l1: the sizes randint draws from]
  PerSyndicate, \* how many complaints a syndicate may have
  SampleSizes,  \* how many identifiers of its pool a complaint names
  Amounts       \* amounts of a complaint

ASSUME SyntheticAssumption ==
  /\ NSynd \in Nat \ {0}
  /\ NNoise \in Nat
  /\ Amounts \subseteq Nat \ {0}
  /\ \A kind \in {"phones", "devices", "ips", "l1"} : PoolSizes[kind] \subseteq Nat

Syndicates == 0 .. NSynd - 1
Langs == {"en", "hi", "gu"}
ARCHETYPES ==
  <<"otp_vishing", "fake_trading_app", "impersonation", "mule_ring",
    "phishing", "parcel_scam">>
Archetype(s) == ARCHETYPES[(s % Len(ARCHETYPES)) + 1]
Families == {ARCHETYPES[i] : i \in DOMAIN ARCHETYPES} \cup {"noise"}
(* What the templates of a family leave to be filled in, in any language:  *)
(* the amount, and the mule account or, for noise, a reference.            *)
Templates ==
  [family \in Families |->
     [lang \in Langs |-> IF family = "noise" THEN {"amt", "ref"} ELSE {"amt", "mule"}]]

PH(s, i) == <<"PH", s, i>>
L1(s, i) == <<"MULE_L1", s, i>>
L2(s) == <<"MULE_L2", s>>
Cash(s) == <<"CASH", s>>
Solo(c) == <<"SOLO", c>>

(* l1, l2 and cash of a syndicate whose first layer has n mules.           *)
SyndicateTruth(s, n) == [l1 |-> [i \in 1..n |-> L1(s, i - 1)], l2 |-> L2(s), cash |-> Cash(s)]

Numbered(kind, s, n) == {<<kind, s, i>> : i \in 0 .. n - 1}
PoolOf(s, size) ==
  UNION {Numbered("PH", s, size.phones), Numbered("DV", s, size.devices),
         Numbered("IP", s, size.ips), Numbered("MULE_L1", s, size.l1)}

(* Identifiers one complaint of s can name: a sample of the pool, perhaps  *)
(* with the first phone of some syndicate bleeding in.                     *)
IdSets(s, size) ==
  {ids \cup bleed : ids \in {x \in SUBSET PoolOf(s, size) : Cardinality(x) \in SampleSizes},
                    bleed \in {{}} \cup {{PH(t, 0)} : t \in Syndicates}}

(* The template family follows the syndicate, noise has its own.           *)
Narrative(synd, lang) == [kind |-> IF synd < 0 THEN "noise" ELSE Archetype(synd), lang |-> lang]

(* Ledger edges the generator may draw: L1 -> L2 and L2 -> cash only.      *)
LedgerEdges(truth) ==
  UNION {{<<truth[s].l1[i], truth[s].l2>> : i \in DOMAIN truth[s].l1}
         \cup {<<truth[s].l2, truth[s].cash>>} : s \in DOMAIN truth}

FraudComplaint(c, s, size) ==
  /\ c.synd = s
  /\ c.ids \in IdSets(s, size)
  /\ c.mule \in Numbered("MULE_L1", s, size.l1)
  /\ c.amt \in Amounts
NoiseComplaint(c) ==
  /\ c.synd = -1 - c.id
  /\ c.ids = {Solo(c.id)}
  /\ c.mule = Solo(c.id)
  /\ c.amt \in Amounts

(* b is a bundle generate can return: the syndicates' complaints in order, *)
(* then the noise, numbered from 0; a ledger with any of its edges missing.*)
Generated(b) ==
  LET nFraud == Len(b.complaints) - NNoise IN
  /\ b.complaints \in Seq({b.complaints[i] : i \in DOMAIN b.complaints}) /\ nFraud >= 0
  /\ DOMAIN b.syndicates = Syndicates
  /\ \E size \in [Syndicates -> [phones : PoolSizes.phones, devices : PoolSizes.devices,
                                 ips : PoolSizes.ips, l1 : PoolSizes.l1]] :
       /\ \A s \in Syndicates : b.syndicates[s] = SyndicateTruth(s, size[s].l1)
       /\ \A i \in 1..nFraud : \E s \in Syndicates : FraudComplaint(b.complaints[i], s, size[s])
  /\ \A i \in 1 .. nFraud - 1 : b.complaints[i].synd <= b.complaints[i + 1].synd
  /\ \A s \in Syndicates :
       Cardinality({i \in 1..nFraud : b.complaints[i].synd = s}) \in PerSyndicate
  /\ \A i \in nFraud + 1 .. Len(b.complaints) : NoiseComplaint(b.complaints[i])
  /\ \A i \in DOMAIN b.complaints :
       /\ b.complaints[i].id = i - 1
       /\ \E lang \in Langs : b.complaints[i].text = Narrative(b.complaints[i].synd, lang)
  /\ b.money \subseteq LedgerEdges(b.syndicates)

(* The identifiers a narrative names: its body the account or reference,   *)
(* both filled in with the mule, the appended sentence all of c.ids.       *)
FilledIn(c) == [amt |-> {}, mule |-> {c.mule}, ref |-> {c.mule}]
Named(c) ==
  c.ids \cup UNION {FilledIn(c)[slot] : slot \in Templates[c.text.kind][c.text.lang]}
(* The identifier shapes of the rule-augmented extractor (engine/ner.py)   *)
(* cover every identifier a narrative renders.                             *)
Extracted(c) == Named(c)
=============================================================================
