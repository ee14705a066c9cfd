----------------------------- MODULE MoneyTrail -----------------------------
(***************************************************************************)
(* Value followed from victims to cash-out through the money ledger        *)
(* (engine/money_trail.py) and the triage of the networks it reached       *)
(* (engine/triage.py).  b is a bundle, b.money its directed edges.         *)
(***************************************************************************)
EXTENDS Integers, FiniteSets, Sequences, Functions, FiniteSetsExt, SequencesExt, Ordering

CONSTANT AmountBandCap  \* AMOUNT_BAND_CAP: 5 000 000 in the code

ASSUME TrailAssumption == AmountBandCap \in Nat \ {0}

(* round(n / d), ties up.                                                  *)
Rounded(n, d) == (2 * n + d) \div (2 * d)

HasNode(money, n) == \E e \in money : n \in {e[1], e[2]}
LedgerNodes(money) == {e[1] : e \in money} \cup {e[2] : e \in money}
(* A path from x to y: every set of nodes that holds x and is closed under *)
(* the edges holds y.                                                      *)
HasPath(money, x, y) ==
  \A S \in SUBSET (LedgerNodes(money) \cup {x}) :
    (x \in S /\ \A e \in money : e[1] \in S => e[2] \in S) => y \in S
(* Mutant: the path is followed from the second layer on.                  *)
ReachableFromL2(b, c) ==
  LET truth == b.syndicates[c.synd]
  IN HasNode(b.money, truth.cash) /\ HasPath(b.money, truth.l2, truth.cash)
Reachable(b, c) ==
  LET cash == b.syndicates[c.synd].cash
  IN HasNode(b.money, c.mule) /\ HasNode(b.money, cash) /\ HasPath(b.money, c.mule, cash)

Filed(b) == {b.complaints[i] : i \in DOMAIN b.complaints}
FiledOf(b, s) == {c \in Filed(b) : c.synd = s}
Value(C) == SumFunction([c \in C |-> c.amt])
(* Mutant: noise is left out of the total.                                 *)
TotalOfFraud(b) == Value({c \in Filed(b) : c.synd >= 0})
(* Noise counts toward the total and is never traced.                      *)
TotalValue(b) == Value(Filed(b))
TracedValue(b) == Value({c \in Filed(b) : c.synd >= 0 /\ Reachable(b, c)})
Percent(part, total) == Rounded(1000 * part, total)  \* tenths of a percent

(* Value that entered the trail of s at its first-layer mule m.            *)
Flow(b, s, m) == Value({c \in FiledOf(b, s) : c.mule = m})
Hop(src, dst, amount) == [src |-> src, dst |-> dst, amount |-> amount]
NetworkTrail(b, s) ==
  LET truth == b.syndicates[s]
      fed == Keep(truth.l1, LAMBDA m : Flow(b, s, m) > 0)
      toL2(m) == <<m, truth.l2>> \in b.money
      onward == Keep(fed, toL2)
      reached == SumFunction([m \in Range(onward) |-> Flow(b, s, m)])
      toCash == <<truth.l2, truth.cash>> \in b.money
      cashHop == IF toCash /\ reached > 0 THEN <<Hop(truth.l2, truth.cash, reached)>> ELSE <<>>
      cashBreak == IF ~toCash /\ reached > 0 THEN <<<<truth.l2, truth.cash>>>> ELSE <<>>
      stuck == Keep(fed, LAMBDA m : ~toL2(m))
  IN [syndicate |-> s,
      hops |-> [i \in DOMAIN fed |-> Hop("victims", fed[i], Flow(b, s, fed[i]))]
               \o [i \in DOMAIN onward |-> Hop(onward[i], truth.l2, Flow(b, s, onward[i]))]
               \o cashHop,
      breaks |-> [i \in DOMAIN stuck |-> <<stuck[i], truth.l2>>] \o cashBreak,
      traced_amt |-> Value({c \in FiledOf(b, s) : Reachable(b, c)}),
      total_amt |-> Value(FiledOf(b, s))]

Trails(b) == [s \in DOMAIN b.syndicates |-> NetworkTrail(b, s)]
(* What the stage reports while it walks the networks in order.            *)
Progress(b) ==
  [s \in DOMAIN b.syndicates |->
     Percent(SumFunction([t \in 0..s |-> Trails(b)[t].traced_amt]), TotalValue(b))]
TrailResult(b) ==
  [pct_traced |-> Percent(TracedValue(b), TotalValue(b)), per_network |-> Trails(b),
   progress |-> Progress(b)]

(* The four terms of triage in ten-thousandths, and the score.             *)
Term(n, d) == IF d = 0 THEN 0 ELSE Rounded(10000 * n, d)
TriageInputs(b, t) ==
  LET truth == b.syndicates[t.syndicate]
      expected == {<<truth.l1[i], truth.l2>> : i \in DOMAIN truth.l1} \cup {<<truth.l2, truth.cash>>}
      cids == {c.id : c \in FiledOf(b, t.syndicate)}
      maxCid == Max({c.id : c \in Filed(b)})
      band == Term(t.total_amt, AmountBandCap)
  IN [trail_completeness |-> Term(Cardinality(expected \cap b.money), Cardinality(expected)),
      cashout_reached |-> Term(t.traced_amt, t.total_amt),
      recency |-> Term(SumFunction([id \in cids |-> id]), Cardinality(cids) * maxCid),
      amount_band |-> IF band > 10000 THEN 10000 ELSE band]
TriageScore(b, t) ==
  LET x == TriageInputs(b, t)
  IN [syndicate |-> t.syndicate, inputs |-> x,
      score |-> Rounded(4 * x.trail_completeness + 3 * (10000 - x.cashout_reached)
                          + 2 * x.recency + x.amount_band, 10)]
(* The queue: best score first, ties by syndicate.                         *)
TriageQueue(b) ==
  InOrder({TriageScore(b, Trails(b)[s]) : s \in DOMAIN b.syndicates},
          LAMBDA x, y : x.score > y.score \/ (x.score = y.score /\ x.syndicate < y.syndicate))
=============================================================================
