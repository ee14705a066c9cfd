------------------------------- MODULE Linkage -------------------------------
(***************************************************************************)
(* Entity resolution and network detection over one bundle b               *)
(* (engine/linkage.py and the entity_resolution stage of pipeline.py).     *)
(* A ratio is a pair <<numerator, denominator>>.                           *)
(***************************************************************************)
EXTENDS Integers, FiniteSets, Sequences, Functions, FiniteSetsExt, SequencesExt

CONSTANT MinCommunitySize  \* MIN_COMMUNITY_SIZE: 5 in the code

ASSUME LinkageAssumption == MinCommunitySize \in Nat \ {0, 1}

Complaints(b) == {b.complaints[i] : i \in DOMAIN b.complaints}
Ids(b) == {c.id : c \in Complaints(b)}
Complaint(b, id) == CHOOSE c \in Complaints(b) : c.id = id
Truth(b) == [id \in Ids(b) |-> Complaint(b, id).synd]

(* The identifier index: who mentions x.                                   *)
Identifiers(b) == UNION {c.ids : c \in Complaints(b)}
MembersOf(b, x) == {c.id : c \in {d \in Complaints(b) : x \in d.ids}}
Resolution(b) ==
  [n_identifiers |-> Cardinality(Identifiers(b)),
   n_shared |-> Cardinality({x \in Identifiers(b) : Cardinality(MembersOf(b, x)) >= 2}),
   n_mentions |-> SumFunction([x \in Identifiers(b) |-> Cardinality(MembersOf(b, x))])]

(* The graph: an edge weighs the identifiers its two complaints share.     *)
Weight(b, i, j) == Cardinality(Complaint(b, i).ids \cap Complaint(b, j).ids)
Linked(b, i, j) == i # j /\ Complaint(b, i).ids \cap Complaint(b, j).ids # {}
Edges(b) == {e \in Ids(b) \X Ids(b) : e[1] < e[2] /\ Linked(b, e[1], e[2])}

(* networkx.greedy_modularity_communities starts from single nodes and     *)
(* merges communities joined by an edge: it returns some partition into    *)
(* connected blocks, larger blocks first.                                  *)
Connected(b, com) ==
  \A part \in (SUBSET com) \ {{}, com} : \E i \in part, j \in com \ part : Linked(b, i, j)
Partitions(S) ==
  {{{j \in S : f[j] = f[i]} : i \in S} :
     f \in {g \in [S -> S] : \A i \in S : g[i] <= i /\ g[g[i]] = g[i]}}
Communities(b) == {p \in Partitions(Ids(b)) : \A com \in p : Connected(b, com)}
(* Communities of at least MinCommunitySize are the networks, larger first; *)
(* the library settles the order of equal ones.                            *)
NetworksOf(p) ==
  {s \in SetToSeqs({com \in p : Cardinality(com) >= MinCommunitySize}) :
     \A i \in 1 .. Len(s) - 1 : Cardinality(s[i]) >= Cardinality(s[i + 1])}

(* Pairwise precision, recall and F1 against the seeded syndicates.        *)
Pairs(b) == {e \in Ids(b) \X Ids(b) : e[1] < e[2]}
SamePred(p, e) == \E com \in p : {e[1], e[2]} \subseteq com
SameTruth(b, e) == Truth(b)[e[1]] = Truth(b)[e[2]]
Ratio(num, den) == IF den = 0 THEN <<0, 1>> ELSE <<num, den>>
LinkMetrics(b, p, networks) ==
  LET tp == Cardinality({e \in Pairs(b) : SamePred(p, e) /\ SameTruth(b, e)})
      fp == Cardinality({e \in Pairs(b) : SamePred(p, e) /\ ~SameTruth(b, e)})
      fn == Cardinality({e \in Pairs(b) : ~SamePred(p, e) /\ SameTruth(b, e)})
  IN [precision |-> Ratio(tp, tp + fp), recall |-> Ratio(tp, tp + fn),
      f1 |-> Ratio(2 * tp, 2 * tp + fp + fn), networks_found |-> Len(networks)]

(* The result of link for one partition and order the library may return.  *)
LinkResult(b, p, networks) ==
  [networks |-> networks, edges |-> Edges(b), communities |-> p,
   metrics |-> LinkMetrics(b, p, networks)]

None == -1
Votes(b, com, s) == Cardinality({i \in com : Truth(b)[i] = s})
(* Mutant: more than half of the members must agree.                       *)
MajoritySyndicateStrict(b, com) ==
  LET seen == {s \in {Truth(b)[i] : i \in com} \cap Nat : 2 * Votes(b, com, s) > Cardinality(com)}
  IN IF seen = {} THEN None ELSE Min(seen)
(* Ground-truth majority of a network, noise excluded: most votes, then    *)
(* the lowest number.                                                      *)
MajoritySyndicate(b, com) ==
  LET seen == {Truth(b)[i] : i \in com} \cap Nat
  IN IF seen = {} THEN None
     ELSE CHOOSE s \in seen :
            \A t \in seen : Votes(b, com, s) > Votes(b, com, t)
                            \/ (Votes(b, com, s) = Votes(b, com, t) /\ s <= t)
=============================================================================
