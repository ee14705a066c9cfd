----------------------------- MODULE DataTheorems -----------------------------
(***************************************************************************)
(* Facts about the data the models are built from: induction stated over   *)
(* sets, finite sums, sequences in an order and best elements.  Induction  *)
(* takes the set of the instances it is about (NEW G), because a lemma     *)
(* with an operator parameter cannot be instantiated by the provers.       *)
(***************************************************************************)
EXTENDS Ordering, Functions, FiniteSetTheorems, NaturalsInduction, TLAPS

(* INDUCTION *)
NatLess == {p \in Nat \X Nat : p[1] < p[2]}
LEMMA NatLessWellFounded == IsWellFoundedOn(NatLess, Nat)
<1>1. OpToRel(<, Nat) = NatLess
  BY DEF OpToRel, NatLess
<1>. QED
  BY <1>1, NatLessThanWellFounded

(* A set that holds 0 and is closed under successor holds every number.    *)
LEMMA NatInduct ==
  ASSUME NEW G, 0 \in G, \A n \in Nat : n \in G => n + 1 \in G
  PROVE  \A n \in Nat : n \in G
<1> DEFINE T == Nat \ G
<1>1. SUFFICES ASSUME T # {} PROVE FALSE
  OBVIOUS
<1>2. PICK x \in T : \A y \in T : ~(<<y, x>> \in NatLess)
  <2>. HIDE DEF T
  <2>1. T \subseteq Nat
    BY DEF T
  <2>. QED
    BY <1>1, <2>1, NatLessWellFounded, WFMin
<1>3. x # 0 /\ x - 1 \in Nat
  OBVIOUS
<1>4. <<x - 1, x>> \in NatLess
  BY <1>3 DEF NatLess
<1>5. x - 1 \notin T
  <2>. HIDE DEF T
  <2>. QED
    BY <1>2, <1>4
<1>. QED
  BY <1>3, <1>5

(* A nonempty set of numbers has a least element.                          *)
LEMMA LeastNat ==
  ASSUME NEW T, T \subseteq Nat, T # {}
  PROVE  \E x \in T : \A y \in T : x <= y
<1>1. PICK x \in T : \A y \in T : ~(<<y, x>> \in NatLess)
  BY NatLessWellFounded, WFMin
<1>2. ASSUME NEW y \in T, y < x PROVE FALSE
  <2>1. <<y, x>> \in NatLess
    BY <1>2 DEF NatLess
  <2>. QED
    BY <1>1, <2>1
<1>3. \A y \in T : x \in Nat /\ y \in Nat
  OBVIOUS
<1>. QED
  BY <1>2, <1>3

(* A family of sets that holds the empty set and is closed under adding an *)
(* element of the finite set S holds every subset of S.                    *)
LEMMA FiniteInduct ==
  ASSUME NEW S, IsFiniteSet(S), NEW G, {} \in G,
         \A T \in SUBSET S, x \in S : T \in G /\ x \notin T => T \cup {x} \in G
  PROVE  \A T \in SUBSET S : T \in G
<1> DEFINE H == {n \in Nat : \A T \in SUBSET S : Cardinality(T) = n => T \in G}
<1>1. \A T \in SUBSET S : IsFiniteSet(T) /\ Cardinality(T) \in Nat
  BY FS_Subset, FS_CardinalityType
<1>2. 0 \in H
  BY <1>1, FS_EmptySet
<1>3. ASSUME NEW n \in Nat, n \in H
      PROVE  n + 1 \in H
  <2>1. SUFFICES ASSUME NEW T \in SUBSET S, Cardinality(T) = n + 1 PROVE T \in G
    OBVIOUS
  <2>2. Cardinality({}) = 0
    BY FS_EmptySet
  <2>3. PICK x \in T : TRUE
    BY <2>1, <2>2
  <2>4. Cardinality(T \ {x}) = Cardinality(T) - 1
    BY <1>1, FS_RemoveElement
  <2>5. T \ {x} \in SUBSET S /\ Cardinality(T \ {x}) = n
    BY <2>1, <2>4
  <2>6. T \ {x} \in G
    BY <1>3, <2>5
  <2>7. T = (T \ {x}) \cup {x} /\ x \in S /\ x \notin T \ {x}
    BY <2>3
  <2>. QED
    BY <2>6, <2>7
<1>4. \A n \in Nat : n \in H
  <2>. HIDE DEF H
  <2>. QED
    BY <1>2, <1>3, NatInduct
<1>. QED
  BY <1>1, <1>4

-----------------------------------------------------------------------------
(* SUMS *)
SumStep(w, g, s) ==
  IF s = {} THEN 0 ELSE w[CHOOSE x \in s : TRUE] + g[s \ {CHOOSE x \in s : TRUE}]
IsSumTable(g, w, S) == g = [s \in SUBSET S |-> SumStep(w, g, s)]
SumTable(w, S) == CHOOSE g : IsSumTable(g, w, S)

LEMMA SumIsTable ==
  ASSUME NEW w, NEW S
  PROVE  SumFunctionOnSet(w, S) = SumTable(w, S)[S]
BY DEF SumFunctionOnSet, FoldFunctionOnSet, MapThenFoldSet, SumTable, IsSumTable, SumStep

LEMMA SumTableExists ==
  ASSUME NEW w, NEW S, IsFiniteSet(S)
  PROVE  IsSumTable(SumTable(w, S), w, S)
<1> DEFINE Small(n) == {t \in SUBSET S : Cardinality(t) <= n}
           H == {n \in Nat : \E g : g = [s \in Small(n) |-> SumStep(w, g, s)]}
<1>1. \A t \in SUBSET S : /\ IsFiniteSet(t) /\ Cardinality(t) \in Nat
                          /\ Cardinality(t) <= Cardinality(S)
                          /\ \A x \in t : Cardinality(t \ {x}) = Cardinality(t) - 1
  BY FS_Subset, FS_CardinalityType, FS_RemoveElement
<1>2. 0 \in H
  <2> DEFINE g == [s \in Small(0) |-> 0]
  <2>1. \A s \in Small(0) : s = {}
    BY <1>1, FS_EmptySet
  <2>2. g = [s \in Small(0) |-> SumStep(w, g, s)]
    BY <2>1 DEF SumStep
  <2>. QED
    BY <2>2
<1>3. ASSUME NEW n \in Nat, n \in H
      PROVE  n + 1 \in H
  <2>1. PICK g : g = [s \in Small(n) |-> SumStep(w, g, s)]
    BY <1>3
  <2> DEFINE h == [s \in Small(n + 1) |-> SumStep(w, g, s)]
  <2>2. ASSUME NEW s \in Small(n + 1), s # {}
        PROVE  LET t == s \ {CHOOSE x \in s : TRUE} IN h[t] = g[t]
    <3> DEFINE t == s \ {CHOOSE x \in s : TRUE}
    <3>1. t \in Small(n) /\ t \in Small(n + 1)
      <4>1. PICK x \in s : t = s \ {x}
        BY <2>2
      <4>2. t \in SUBSET S /\ Cardinality(t) = Cardinality(s) - 1
        BY <1>1, <4>1
      <4>3. Cardinality(s) \in Nat /\ Cardinality(s) <= n + 1
        BY <1>1
      <4>. QED
        BY <4>2, <4>3
    <3>2. g[t] = SumStep(w, g, t)
      <4>. HIDE DEF Small, t
      <4>. QED
        BY <2>1, <3>1
    <3>3. h[t] = SumStep(w, g, t)
      <4>. HIDE DEF Small, t
      <4>. QED
        BY <3>1
    <3>. QED
      BY <3>2, <3>3
  <2>3. ASSUME NEW s \in Small(n + 1)
        PROVE  SumStep(w, g, s) = SumStep(w, h, s)
    <3>. HIDE DEF h, Small
    <3>. QED
      BY <2>2 DEF SumStep
  <2>4. h = [s \in Small(n + 1) |-> SumStep(w, h, s)]
    <3>1. h = [s \in Small(n + 1) |-> SumStep(w, g, s)]
      OBVIOUS
    <3>. HIDE DEF h, Small
    <3>. QED
      BY <2>3, <3>1
  <2>5. \E f : f = [s \in Small(n + 1) |-> SumStep(w, f, s)]
    <3>. HIDE DEF h, Small
    <3>. QED
      BY <2>4
  <2>. QED
    BY <2>5
<1>4. Cardinality(S) \in H
  <2>1. \A n \in Nat : n \in H
    <3>. HIDE DEF H
    <3>. QED
      BY <1>2, <1>3, NatInduct
  <2>. QED
    BY <1>1, <2>1
<1>5. Small(Cardinality(S)) = SUBSET S
  BY <1>1
<1>6. \E g : g = [s \in SUBSET S |-> SumStep(w, g, s)]
  BY <1>4, <1>5
<1>. QED
  BY <1>6 DEF SumTable, IsSumTable

LEMMA SumTableAt ==
  ASSUME NEW w, NEW S, IsFiniteSet(S), NEW s \in SUBSET S
  PROVE  SumTable(w, S)[s] = SumStep(w, SumTable(w, S), s)
<1> DEFINE g == SumTable(w, S)
<1>1. IsSumTable(g, w, S)
  BY SumTableExists
<1>. HIDE DEF g
<1>. QED
  BY <1>1 DEF g, IsSumTable

(* The table of a set and that of a larger one agree.                      *)
LEMMA SumTableAgrees ==
  ASSUME NEW w, NEW S, IsFiniteSet(S), NEW T \in SUBSET S
  PROVE  SumTable(w, S)[T] = SumFunctionOnSet(w, T)
<1> DEFINE G == {s \in SUBSET S : \A U \in SUBSET S : s \subseteq U => SumTable(w, U)[s] = SumTable(w, s)[s]}
           H == {n \in Nat : \A s \in SUBSET S : Cardinality(s) = n => s \in G}
<1>1. \A t \in SUBSET S : /\ IsFiniteSet(t) /\ Cardinality(t) \in Nat
                          /\ \A x \in t : Cardinality(t \ {x}) = Cardinality(t) - 1
  BY FS_Subset, FS_CardinalityType, FS_RemoveElement
<1>2. ASSUME NEW U \in SUBSET S, NEW s \in SUBSET U
      PROVE  SumTable(w, U)[s] = SumStep(w, SumTable(w, U), s)
  BY <1>1, SumTableAt
<1>3. 0 \in H
  <2>1. SUFFICES ASSUME NEW s \in SUBSET S, Cardinality(s) = 0, NEW U \in SUBSET S, s \subseteq U
                 PROVE  SumTable(w, U)[s] = SumTable(w, s)[s]
    OBVIOUS
  <2>2. s = {}
    BY <1>1, <2>1, FS_EmptySet
  <2>3. SumTable(w, U)[s] = 0 /\ SumTable(w, s)[s] = 0
    BY <1>2, <2>2 DEF SumStep
  <2>. QED
    BY <2>3
<1>4. ASSUME NEW n \in Nat, n \in H
      PROVE  n + 1 \in H
  <2>1. SUFFICES ASSUME NEW s \in SUBSET S, Cardinality(s) = n + 1, NEW U \in SUBSET S, s \subseteq U
                 PROVE  SumTable(w, U)[s] = SumTable(w, s)[s]
    OBVIOUS
  <2>2. Cardinality({}) = 0
    BY FS_EmptySet
  <2>3. s # {}
    BY <2>1, <2>2
  <2> DEFINE x == CHOOSE y \in s : TRUE
             t == s \ {x}
  <2>4. x \in s
    BY <2>3
  <2>5. t \in SUBSET S /\ t \subseteq U /\ t \subseteq s /\ Cardinality(t) = n
    <3>1. t \in SUBSET S /\ t \subseteq U /\ t \subseteq s
      BY <2>1
    <3>2. Cardinality(t) = Cardinality(s) - 1
      BY <1>1, <2>4
    <3>. QED
      BY <2>1, <3>1, <3>2
  <2>6. t \in G
    BY <1>4, <2>5
  <2>7. SumTable(w, U)[t] = SumTable(w, t)[t] /\ SumTable(w, s)[t] = SumTable(w, t)[t]
    BY <2>5, <2>6
  <2>8. SumTable(w, U)[s] = w[x] + SumTable(w, U)[t]
    BY <1>2, <2>1, <2>3 DEF SumStep
  <2>9. SumTable(w, s)[s] = w[x] + SumTable(w, s)[t]
    BY <1>2, <2>1, <2>3 DEF SumStep
  <2>. QED
    BY <2>7, <2>8, <2>9
<1>5. \A n \in Nat : n \in H
  <2>. HIDE DEF H
  <2>. QED
    BY <1>3, <1>4, NatInduct
<1>6. T \in G
  BY <1>1, <1>5
<1>. QED
  BY <1>6, SumIsTable

LEMMA SumEmpty ==
  ASSUME NEW w
  PROVE  SumFunctionOnSet(w, {}) = 0
<1>1. SUFFICES ASSUME NEW E, E = {} PROVE SumFunctionOnSet(w, E) = 0
  OBVIOUS
<1>2. IsFiniteSet(E)
  BY <1>1, FS_EmptySet
<1>4. SumTable(w, E)[E] = SumStep(w, SumTable(w, E), E)
  BY <1>2, SumTableAt
<1>. QED
  BY <1>1, <1>4, SumIsTable DEF SumStep

LEMMA SumChosen ==
  ASSUME NEW w, NEW S, IsFiniteSet(S), S # {}
  PROVE  \E x \in S : SumFunctionOnSet(w, S) = w[x] + SumFunctionOnSet(w, S \ {x})
<1> DEFINE x == CHOOSE y \in S : TRUE
<1>1. x \in S
  OBVIOUS
<1>3. SumTable(w, S)[S] = w[x] + SumTable(w, S)[S \ {x}]
  <2>1. SumTable(w, S)[S] = SumStep(w, SumTable(w, S), S)
    BY SumTableAt
  <2>. QED
    BY <2>1 DEF SumStep
<1>4. SumTable(w, S)[S \ {x}] = SumFunctionOnSet(w, S \ {x})
  <2>1. S \ {x} \in SUBSET S
    OBVIOUS
  <2>. HIDE DEF x
  <2>. QED
    BY <2>1, SumTableAgrees
<1>5. SumFunctionOnSet(w, S) = w[x] + SumFunctionOnSet(w, S \ {x})
  BY <1>3, <1>4, SumIsTable
<1>. QED
  BY <1>1, <1>5

LEMMA SumInt ==
  ASSUME NEW w, NEW S, IsFiniteSet(S), \A x \in S : w[x] \in Int
  PROVE  SumFunctionOnSet(w, S) \in Int
<1> DEFINE H == {n \in Nat : \A s \in SUBSET S : Cardinality(s) = n => SumFunctionOnSet(w, s) \in Int}
<1>1. \A t \in SUBSET S : /\ IsFiniteSet(t) /\ Cardinality(t) \in Nat
                          /\ \A x \in t : Cardinality(t \ {x}) = Cardinality(t) - 1
  BY FS_Subset, FS_CardinalityType, FS_RemoveElement
<1>2. 0 \in H
  BY <1>1, FS_EmptySet, SumEmpty
<1>3. ASSUME NEW n \in Nat, n \in H
      PROVE  n + 1 \in H
  <2>1. SUFFICES ASSUME NEW s \in SUBSET S, Cardinality(s) = n + 1
                 PROVE  SumFunctionOnSet(w, s) \in Int
    OBVIOUS
  <2>2. Cardinality({}) = 0
    BY FS_EmptySet
  <2>3. IsFiniteSet(s) /\ s # {}
    BY <1>1, <2>1, <2>2
  <2>6. PICK x \in s : SumFunctionOnSet(w, s) = w[x] + SumFunctionOnSet(w, s \ {x})
    BY <2>3, SumChosen
  <2>4. s \ {x} \in SUBSET S /\ Cardinality(s \ {x}) = n
    BY <1>1, <2>1
  <2>5. SumFunctionOnSet(w, s \ {x}) \in Int
    BY <1>3, <2>4
  <2>. QED
    BY <2>5, <2>6
<1>4. \A n \in Nat : n \in H
  <2>. HIDE DEF H
  <2>. QED
    BY <1>2, <1>3, NatInduct
<1>. QED
  BY <1>1, <1>4

(* Any element can be taken out of a sum first.                            *)
LEMMA SumRemove ==
  ASSUME NEW w, NEW S, IsFiniteSet(S), \A x \in S : w[x] \in Int, NEW z \in S
  PROVE  SumFunctionOnSet(w, S) = w[z] + SumFunctionOnSet(w, S \ {z})
<1> DEFINE Sum(s) == SumFunctionOnSet(w, s)
           H == {n \in Nat : \A s \in SUBSET S : Cardinality(s) = n =>
                               \A x \in s : Sum(s) = w[x] + Sum(s \ {x})}
<1>1. \A t \in SUBSET S : /\ IsFiniteSet(t) /\ Cardinality(t) \in Nat
                          /\ \A x \in t : Cardinality(t \ {x}) = Cardinality(t) - 1
  BY FS_Subset, FS_CardinalityType, FS_RemoveElement
<1>2. \A t \in SUBSET S : Sum(t) \in Int
  BY <1>1, SumInt
<1>3. 0 \in H
  BY <1>1, FS_EmptySet
<1>4. ASSUME NEW n \in Nat, n \in H
      PROVE  n + 1 \in H
  <2>. HIDE DEF Sum
  <2>1. SUFFICES ASSUME NEW s \in SUBSET S, Cardinality(s) = n + 1, NEW x \in s
                 PROVE  Sum(s) = w[x] + Sum(s \ {x})
    OBVIOUS
  <2>2. PICK c \in s : Sum(s) = w[c] + Sum(s \ {c})
    BY <1>1, <2>1, SumChosen DEF Sum
  <2>3. CASE c = x
    BY <2>2, <2>3
  <2>4. CASE c # x
    <3>1. /\ s \ {c} \in SUBSET S /\ Cardinality(s \ {c}) = n /\ x \in s \ {c}
          /\ s \ {x} \in SUBSET S /\ Cardinality(s \ {x}) = n /\ c \in s \ {x}
      <4>1. Cardinality(s \ {c}) = Cardinality(s) - 1 /\ Cardinality(s \ {x}) = Cardinality(s) - 1
        BY <1>1
      <4>. QED
        BY <2>1, <2>4, <4>1
    <3>2. Sum(s \ {c}) = w[x] + Sum((s \ {c}) \ {x})
      BY <1>4, <3>1
    <3>3. Sum(s \ {x}) = w[c] + Sum((s \ {x}) \ {c})
      BY <1>4, <3>1
    <3>4. (s \ {c}) \ {x} = (s \ {x}) \ {c}
      OBVIOUS
    <3>5. PICK rest \in Int : rest = Sum((s \ {c}) \ {x}) /\ rest = Sum((s \ {x}) \ {c})
      BY <1>2, <3>4
    <3>6. w[x] \in Int /\ w[c] \in Int
      OBVIOUS
    <3>. QED
      BY <2>2, <3>2, <3>3, <3>5, <3>6
  <2>. QED
    BY <2>3, <2>4
<1>5. \A n \in Nat : n \in H
  <2>. HIDE DEF H
  <2>. QED
    BY <1>3, <1>4, NatInduct
<1>. QED
  BY <1>1, <1>5

LEMMA SumAdd ==
  ASSUME NEW w, NEW S, IsFiniteSet(S), \A x \in S : w[x] \in Int,
         NEW z, z \notin S, w[z] \in Int
  PROVE  SumFunctionOnSet(w, S \cup {z}) = SumFunctionOnSet(w, S) + w[z]
<1>1. IsFiniteSet(S \cup {z}) /\ z \in S \cup {z} /\ (S \cup {z}) \ {z} = S
  BY FS_AddElement
<1>2. \A x \in S \cup {z} : w[x] \in Int
  OBVIOUS
<1>3. SumFunctionOnSet(w, S \cup {z}) = w[z] + SumFunctionOnSet(w, (S \cup {z}) \ {z})
  BY <1>1, <1>2, SumRemove
<1>4. SumFunctionOnSet(w, S \cup {z}) = w[z] + SumFunctionOnSet(w, S)
  BY <1>1, <1>3, Zenon
<1>5. SumFunctionOnSet(w, S) \in Int
  BY SumInt
<1>. QED
  BY <1>4, <1>5

(* The sum depends on the weights of its own elements only.                *)
LEMMA SumSame ==
  ASSUME NEW v, NEW w, NEW S, IsFiniteSet(S), \A x \in S : w[x] \in Int /\ v[x] = w[x]
  PROVE  SumFunctionOnSet(v, S) = SumFunctionOnSet(w, S)
<1> DEFINE G == {T \in SUBSET S : SumFunctionOnSet(v, T) = SumFunctionOnSet(w, T)}
<1>1. {} \in G
  BY SumEmpty
<1>2. ASSUME NEW T \in SUBSET S, NEW x \in S, T \in G, x \notin T
      PROVE  T \cup {x} \in G
  <2>1. IsFiniteSet(T)
    BY FS_Subset
  <2>2. SumFunctionOnSet(v, T \cup {x}) = SumFunctionOnSet(v, T) + v[x]
    BY <1>2, <2>1, SumAdd
  <2>3. SumFunctionOnSet(w, T \cup {x}) = SumFunctionOnSet(w, T) + w[x]
    BY <1>2, <2>1, SumAdd
  <2>. QED
    BY <1>2, <2>2, <2>3
<1>3. S \in G
  <2>. HIDE DEF G
  <2>. QED
    BY <1>1, <1>2, FiniteInduct
<1>. QED
  BY <1>3

LEMMA SumUnion ==
  ASSUME NEW w, NEW S, NEW T, IsFiniteSet(S), IsFiniteSet(T), S \cap T = {},
         \A x \in S \cup T : w[x] \in Int
  PROVE  SumFunctionOnSet(w, S \cup T) = SumFunctionOnSet(w, S) + SumFunctionOnSet(w, T)
<1> DEFINE G == {U \in SUBSET T :
                   SumFunctionOnSet(w, S \cup U) = SumFunctionOnSet(w, S) + SumFunctionOnSet(w, U)}
<1>1. \A U \in SUBSET T : IsFiniteSet(U) /\ IsFiniteSet(S \cup U)
  BY FS_Subset, FS_Union
<1>2. SumFunctionOnSet(w, S) \in Int /\ \A U \in SUBSET T : SumFunctionOnSet(w, U) \in Int
  BY <1>1, SumInt
<1>3. {} \in G
  <2>1. S \cup {} = S
    OBVIOUS
  <2>. QED
    BY <1>2, <2>1, SumEmpty
<1>4. ASSUME NEW U \in SUBSET T, NEW x \in T, U \in G, x \notin U
      PROVE  U \cup {x} \in G
  <2>1. x \notin S \cup U /\ S \cup (U \cup {x}) = (S \cup U) \cup {x}
    BY <1>4
  <2>2. \A y \in S \cup U : w[y] \in Int
    OBVIOUS
  <2>3. SumFunctionOnSet(w, (S \cup U) \cup {x}) = SumFunctionOnSet(w, S \cup U) + w[x]
    BY <1>1, <2>1, <2>2, SumAdd
  <2>4. SumFunctionOnSet(w, U \cup {x}) = SumFunctionOnSet(w, U) + w[x]
    BY <1>1, <1>4, SumAdd
  <2>5. SumFunctionOnSet(w, S \cup U) = SumFunctionOnSet(w, S) + SumFunctionOnSet(w, U)
    BY <1>4
  <2>6. SumFunctionOnSet(w, S) \in Int /\ SumFunctionOnSet(w, U) \in Int /\ w[x] \in Int
    BY <1>2
  <2>7. SumFunctionOnSet(w, (S \cup U) \cup {x}) = SumFunctionOnSet(w, S) + SumFunctionOnSet(w, U \cup {x})
    BY <2>3, <2>4, <2>5, <2>6
  <2>8. SumFunctionOnSet(w, S \cup (U \cup {x})) = SumFunctionOnSet(w, S) + SumFunctionOnSet(w, U \cup {x})
    BY <2>1, <2>7, Zenon
  <2>. QED
    BY <2>8
<1>5. T \in G
  <2>. HIDE DEF G
  <2>. QED
    BY <1>3, <1>4, FiniteInduct
<1>. QED
  BY <1>5

LEMMA SumNat ==
  ASSUME NEW w, NEW S, IsFiniteSet(S), \A x \in S : w[x] \in Nat
  PROVE  /\ SumFunctionOnSet(w, S) \in Nat
         /\ \A x \in S : w[x] <= SumFunctionOnSet(w, S)
<1> DEFINE G == {T \in SUBSET S : SumFunctionOnSet(w, T) \in Nat}
<1>1. {} \in G
  BY SumEmpty
<1>2. ASSUME NEW T \in SUBSET S, NEW x \in S, T \in G, x \notin T
      PROVE  T \cup {x} \in G
  <2>1. IsFiniteSet(T)
    BY FS_Subset
  <2>2. SumFunctionOnSet(w, T \cup {x}) = SumFunctionOnSet(w, T) + w[x]
    BY <1>2, <2>1, SumAdd
  <2>. QED
    BY <1>2, <2>2
<1>3. \A T \in SUBSET S : T \in G
  <2>. HIDE DEF G
  <2>. QED
    BY <1>1, <1>2, FiniteInduct
<1>4. ASSUME NEW x \in S
      PROVE  w[x] <= SumFunctionOnSet(w, S)
  <2>1. SumFunctionOnSet(w, S) = w[x] + SumFunctionOnSet(w, S \ {x})
    BY SumRemove
  <2>2. SumFunctionOnSet(w, S \ {x}) \in Nat
    BY <1>3
  <2>. QED
    BY <2>1, <2>2
<1>. QED
  BY <1>3, <1>4

(* Elements of weight 0 can be left out.                                   *)
LEMMA SumZero ==
  ASSUME NEW w, NEW S, IsFiniteSet(S), \A x \in S : w[x] = 0
  PROVE  SumFunctionOnSet(w, S) = 0
<1> DEFINE G == {T \in SUBSET S : SumFunctionOnSet(w, T) = 0}
<1>1. {} \in G
  BY SumEmpty
<1>2. ASSUME NEW T \in SUBSET S, NEW x \in S, T \in G, x \notin T
      PROVE  T \cup {x} \in G
  <2>1. IsFiniteSet(T)
    BY FS_Subset
  <2>2. SumFunctionOnSet(w, T \cup {x}) = SumFunctionOnSet(w, T) + w[x]
    BY <1>2, <2>1, SumAdd
  <2>. QED
    BY <1>2, <2>2
<1>3. S \in G
  <2>. HIDE DEF G
  <2>. QED
    BY <1>1, <1>2, FiniteInduct
<1>. QED
  BY <1>3

LEMMA SumSupport ==
  ASSUME NEW w, NEW S, IsFiniteSet(S), \A x \in S : w[x] \in Int,
         NEW T \in SUBSET S, \A x \in S \ T : w[x] = 0
  PROVE  SumFunctionOnSet(w, S) = SumFunctionOnSet(w, T)
<1>1. IsFiniteSet(T) /\ IsFiniteSet(S \ T) /\ T \cap (S \ T) = {} /\ T \cup (S \ T) = S
  BY FS_Subset
<1>2. SumFunctionOnSet(w, S) = SumFunctionOnSet(w, T) + SumFunctionOnSet(w, S \ T)
  BY <1>1, SumUnion
<1>3. SumFunctionOnSet(w, S \ T) = 0 /\ SumFunctionOnSet(w, T) \in Int
  BY <1>1, SumZero, SumInt
<1>. QED
  BY <1>2, <1>3

(* Renaming the elements one to one keeps the sum.                         *)
LEMMA SumImage ==
  ASSUME NEW v, NEW w, NEW S, NEW f, IsFiniteSet(S),
         \A x \in S : w[f[x]] \in Int /\ v[x] = w[f[x]],
         \A x, y \in S : f[x] = f[y] => x = y
  PROVE  SumFunctionOnSet(v, S) = SumFunctionOnSet(w, {f[x] : x \in S})
<1> DEFINE Img(T) == {f[x] : x \in T}
           G == {T \in SUBSET S : IsFiniteSet(Img(T)) /\ SumFunctionOnSet(v, T) = SumFunctionOnSet(w, Img(T))}
<1>1. {} \in G
  <2>1. Img({}) = {}
    OBVIOUS
  <2>. QED
    BY <2>1, SumEmpty, FS_EmptySet
<1>2. ASSUME NEW T \in SUBSET S, NEW x \in S, T \in G, x \notin T
      PROVE  T \cup {x} \in G
  <2>1. IsFiniteSet(T)
    BY FS_Subset
  <2>2. Img(T \cup {x}) = Img(T) \cup {f[x]}
    OBVIOUS
  <2>3. f[x] \notin Img(T)
    BY <1>2
  <2>4. \A y \in Img(T) : w[y] \in Int
    OBVIOUS
  <2>5. SumFunctionOnSet(v, T \cup {x}) = SumFunctionOnSet(v, T) + v[x]
    BY <1>2, <2>1, SumAdd
  <2>6. /\ SumFunctionOnSet(w, Img(T) \cup {f[x]}) = SumFunctionOnSet(w, Img(T)) + w[f[x]]
        /\ IsFiniteSet(Img(T) \cup {f[x]})
    <3>. HIDE DEF Img
    <3>. QED
      BY <1>2, <2>3, <2>4, SumAdd, FS_AddElement
  <2>. QED
    BY <1>2, <2>2, <2>5, <2>6
<1>3. S \in G
  <2>. HIDE DEF G
  <2>. QED
    BY <1>1, <1>2, FiniteInduct
<1>. QED
  BY <1>3

(* Sums of disjoint groups add up to the sum of their union.               *)
LEMMA SumGroups ==
  ASSUME NEW w, NEW group, NEW total, NEW I, IsFiniteSet(I),
         \A i \in I : /\ IsFiniteSet(group[i])
                      /\ \A x \in group[i] : w[x] \in Int
                      /\ total[i] = SumFunctionOnSet(w, group[i]),
         \A i, j \in I : i # j => group[i] \cap group[j] = {}
  PROVE  /\ IsFiniteSet(UNION {group[i] : i \in I})
         /\ SumFunctionOnSet(total, I) = SumFunctionOnSet(w, UNION {group[i] : i \in I})
<1> DEFINE U(J) == UNION {group[i] : i \in J}
           G == {J \in SUBSET I : IsFiniteSet(U(J)) /\ SumFunctionOnSet(total, J) = SumFunctionOnSet(w, U(J))}
<1>1. {} \in G
  <2>1. U({}) = {}
    OBVIOUS
  <2>. QED
    BY <2>1, SumEmpty, FS_EmptySet
<1>2. \A i \in I : total[i] \in Int
  BY SumInt
<1>3. ASSUME NEW J \in SUBSET I, NEW i \in I, J \in G, i \notin J
      PROVE  J \cup {i} \in G
  <2>1. IsFiniteSet(J)
    BY FS_Subset
  <2>2. U(J \cup {i}) = U(J) \cup group[i]
    OBVIOUS
  <2>3. U(J) \cap group[i] = {}
    BY <1>3
  <2>4. \A x \in U(J) \cup group[i] : w[x] \in Int
    OBVIOUS
  <2>5. SumFunctionOnSet(total, J \cup {i}) = SumFunctionOnSet(total, J) + total[i]
    BY <1>2, <1>3, <2>1, SumAdd
  <2>6. /\ SumFunctionOnSet(w, U(J) \cup group[i]) = SumFunctionOnSet(w, U(J)) + SumFunctionOnSet(w, group[i])
        /\ IsFiniteSet(U(J) \cup group[i])
    <3>1. IsFiniteSet(U(J)) /\ IsFiniteSet(group[i])
      BY <1>3
    <3>. HIDE DEF U
    <3>2. SumFunctionOnSet(w, U(J) \cup group[i]) = SumFunctionOnSet(w, U(J)) + SumFunctionOnSet(w, group[i])
      BY <2>3, <2>4, <3>1, SumUnion
    <3>3. IsFiniteSet(U(J) \cup group[i])
      BY <3>1, FS_Union
    <3>. QED
      BY <3>2, <3>3
  <2>. QED
    BY <1>3, <2>2, <2>5, <2>6
<1>4. I \in G
  <2>. HIDE DEF G
  <2>. QED
    BY <1>1, <1>3, FiniteInduct
<1>. QED
  BY <1>4

-----------------------------------------------------------------------------
(* ORDERS *)
StrictOrder(S, R) ==
  /\ \A x \in S : <<x, x>> \notin R
  /\ \A x, y, z \in S : <<x, y>> \in R /\ <<y, z>> \in R => <<x, z>> \in R
  /\ \A x, y \in S : x = y \/ <<x, y>> \in R \/ <<y, x>> \in R
Below(S, R, x) == {y \in S : <<y, x>> \in R}

LEMMA BelowCount ==
  ASSUME NEW S, IsFiniteSet(S), NEW R, StrictOrder(S, R), NEW x \in S
  PROVE  Cardinality(Below(S, R, x)) \in 0 .. Cardinality(S) - 1
<1>1. Below(S, R, x) \subseteq S \ {x}
  BY DEF Below, StrictOrder
<1>2. IsFiniteSet(S \ {x}) /\ Cardinality(S \ {x}) = Cardinality(S) - 1
  BY FS_RemoveElement
<1>3. /\ IsFiniteSet(Below(S, R, x))
      /\ Cardinality(Below(S, R, x)) <= Cardinality(S \ {x})
  BY <1>1, <1>2, FS_Subset
<1>4. Cardinality(Below(S, R, x)) \in Nat /\ Cardinality(S) \in Nat
  BY <1>3, FS_CardinalityType
<1>. QED
  BY <1>2, <1>3, <1>4

(* Fewer elements come before the earlier of two.                          *)
LEMMA BelowLess ==
  ASSUME NEW S, IsFiniteSet(S), NEW R, StrictOrder(S, R), NEW x \in S, NEW y \in S, <<x, y>> \in R
  PROVE  Cardinality(Below(S, R, x)) < Cardinality(Below(S, R, y))
<1>1. /\ Below(S, R, x) \subseteq Below(S, R, y)
      /\ x \in Below(S, R, y) /\ x \notin Below(S, R, x)
  BY DEF Below, StrictOrder
<1>2. IsFiniteSet(Below(S, R, y))
  <2>1. Below(S, R, y) \subseteq S
    BY DEF Below
  <2>. QED
    BY <2>1, FS_Subset
<1>3. /\ Cardinality(Below(S, R, x)) <= Cardinality(Below(S, R, y))
      /\ Cardinality(Below(S, R, x)) # Cardinality(Below(S, R, y))
  BY <1>1, <1>2, FS_Subset
<1>4. Cardinality(Below(S, R, x)) \in Int /\ Cardinality(Below(S, R, y)) \in Int
  BY BelowCount
<1>. QED
  BY <1>3, <1>4

(* Every place of a finite ordered set is taken by one element.            *)
IsListing(L, S, R) ==
  /\ Cardinality(S) \in Nat
  /\ L \in [1..Cardinality(S) -> S]
  /\ \A i \in 1..Cardinality(S) : Cardinality(Below(S, R, L[i])) = i - 1
  /\ \A x \in S : \E i \in 1..Cardinality(S) : L[i] = x
  /\ \A i, j \in 1..Cardinality(S) : i < j <=> <<L[i], L[j]>> \in R
LEMMA ListedFacts ==
  ASSUME NEW S, IsFiniteSet(S), NEW R, StrictOrder(S, R)
  PROVE  IsListing(Listed(S, R), S, R)
<1> DEFINE n == Cardinality(S)
           rank == [x \in S |-> Cardinality(Below(S, R, x))]
           L == Listed(S, R)
<1>1. n \in Nat
  BY FS_CardinalityType
<1>2. rank \in [S -> 0 .. n - 1]
  BY BelowCount
<1>3. \A x, y \in S : <<x, y>> \in R => rank[x] < rank[y]
  BY BelowLess
<1>4. \A x, y \in S : rank[x] = rank[y] => x = y
  <2>1. \A x \in S : rank[x] \in Int
    BY <1>2
  <2>. HIDE DEF rank
  <2>2. SUFFICES ASSUME NEW x \in S, NEW y \in S, rank[x] = rank[y], x # y PROVE FALSE
    OBVIOUS
  <2>3. <<x, y>> \in R \/ <<y, x>> \in R
    BY <2>2 DEF StrictOrder
  <2>. QED
    BY <1>3, <2>1, <2>2, <2>3
<1>5. rank \in Surjection(S, 0 .. n - 1)
  <2>1. rank \in Injection(S, 0 .. n - 1)
    <3>. HIDE DEF rank, n
    <3>. QED
      BY <1>2, <1>4 DEF Injection, IsInjective
  <2>2. IsFiniteSet(0 .. n - 1) /\ Cardinality(0 .. n - 1) = n
    <3>1. 0 \in Int /\ n - 1 \in Int /\ (n - 1) - 0 + 1 = n /\ (0 > n - 1 => n = 0)
      BY <1>1
    <3>. HIDE DEF n
    <3>. QED
      BY <3>1, FS_Interval
  <2>. HIDE DEF rank
  <2>. QED
    BY <2>1, <2>2, FS_Injection
<1>6. \A i \in 1..n : \E x \in S : rank[x] = i - 1
  <2>1. \A k \in 0 .. n - 1 : \E x \in S : rank[x] = k
    <3>. HIDE DEF rank, n
    <3>. QED
      BY <1>5 DEF Surjection
  <2>2. \A i \in 1..n : i - 1 \in 0 .. n - 1
    BY <1>1
  <2>. HIDE DEF rank, n
  <2>. QED
    BY <2>1, <2>2
<1>7. L = [i \in 1..n |-> CHOOSE x \in S : Cardinality(Below(S, R, x)) = i - 1]
  BY DEF Listed, Below
<1>8. \A i \in 1..n : L[i] \in S /\ Cardinality(Below(S, R, L[i])) = i - 1
  <2>1. ASSUME NEW i \in 1..n
        PROVE  L[i] \in S /\ Cardinality(Below(S, R, L[i])) = i - 1
    <3>1. L[i] = CHOOSE x \in S : Cardinality(Below(S, R, x)) = i - 1
      <4>. HIDE DEF L, n
      <4>. QED
        BY <1>7
    <3>2. \E x \in S : Cardinality(Below(S, R, x)) = i - 1
      BY <1>6
    <3>. HIDE DEF L
    <3>. QED
      BY <3>1, <3>2
  <2>. QED
    BY <2>1
<1>9. L \in [1..n -> S]
  <2>. HIDE DEF L, n
  <2>. QED
    BY <1>7, <1>8
<1>10. \A i \in 1..n : rank[L[i]] = i - 1
  BY <1>8
<1>11. ASSUME NEW x \in S
       PROVE  \E i \in 1..n : L[i] = x
  <2> DEFINE i == rank[x] + 1
  <2>1. i \in 1..n /\ i - 1 = rank[x]
    <3>. HIDE DEF rank, n
    <3>. QED
      BY <1>1, <1>2
  <2>. HIDE DEF i
  <2>2. rank[L[i]] = rank[x] /\ L[i] \in S
    <3>. HIDE DEF rank, n, L
    <3>. QED
      BY <1>8, <1>10, <2>1
  <2>3. L[i] = x
    <3>. HIDE DEF rank, n, L
    <3>. QED
      BY <1>4, <2>2
  <2>. QED
    BY <2>1, <2>3
<1>12. ASSUME NEW i \in 1..n, NEW j \in 1..n
       PROVE  i < j <=> <<L[i], L[j]>> \in R
  <2>1. rank[L[i]] = i - 1 /\ rank[L[j]] = j - 1 /\ L[i] \in S /\ L[j] \in S /\ i \in Int /\ j \in Int
    BY <1>1, <1>8, <1>10
  <2>2. \/ L[i] = L[j] \/ <<L[i], L[j]>> \in R \/ <<L[j], L[i]>> \in R
    BY <2>1 DEF StrictOrder
  <2>3. <<L[i], L[j]>> \in R => rank[L[i]] < rank[L[j]]
    BY <1>3, <2>1
  <2>4. <<L[j], L[i]>> \in R => rank[L[j]] < rank[L[i]]
    BY <1>3, <2>1
  <2>. HIDE DEF rank, L, n
  <2>. QED
    BY <2>1, <2>2, <2>3, <2>4
<1>. HIDE DEF L
<1>. QED
  BY <1>1, <1>8, <1>9, <1>11, <1>12 DEF IsListing, L

(* A nonempty finite ordered set has a first element.                      *)
LEMMA FirstExists ==
  ASSUME NEW S, IsFiniteSet(S), S # {}, NEW R, StrictOrder(S, R)
  PROVE  \E x \in S : \A y \in S : y = x \/ <<x, y>> \in R
<1>1. Cardinality(S) \in Nat /\ Cardinality(S) # 0
  BY FS_CardinalityType, FS_EmptySet
<1> DEFINE n == Cardinality(S)
           L == Listed(S, R)
<1>2. /\ L \in [1..n -> S]
      /\ \A x \in S : \E i \in 1..n : L[i] = x
      /\ \A i, j \in 1..n : i < j <=> <<L[i], L[j]>> \in R
  <2>1. IsListing(L, S, R)
    BY ListedFacts
  <2>. HIDE DEF L
  <2>. QED
    BY <2>1 DEF IsListing
<1>3. 1 \in 1..n /\ L[1] \in S
  BY <1>1, <1>2
<1>4. ASSUME NEW y \in S
      PROVE  y = L[1] \/ <<L[1], y>> \in R
  <2>1. PICK i \in 1..n : L[i] = y
    BY <1>2
  <2>2. i = 1 \/ 1 < i
    BY <1>1
  <2>. HIDE DEF L, n
  <2>. QED
    BY <1>2, <1>3, <2>1, <2>2
<1>. QED
  BY <1>3, <1>4

LEMMA IntOrder ==
  ASSUME NEW S, S \subseteq Int
  PROVE  StrictOrder(S, {p \in S \X S : p[1] < p[2]})
BY DEF StrictOrder

(* The elements with the higher value first, ties by number.               *)
ByValue(S, v) ==
  {p \in S \X S : v[p[1]] > v[p[2]] \/ (v[p[1]] = v[p[2]] /\ p[1] < p[2])}
LEMMA ByValueOrder ==
  ASSUME NEW S, S \subseteq Int, NEW v, \A x \in S : v[x] \in Int
  PROVE  StrictOrder(S, ByValue(S, v))
<1>1. \A x, y \in S : <<x, y>> \in ByValue(S, v) <=> v[x] > v[y] \/ (v[x] = v[y] /\ x < y)
  BY DEF ByValue
<1>2. \A x \in S : <<x, x>> \notin ByValue(S, v)
  BY <1>1
<1>3. \A x, y \in S : x = y \/ <<x, y>> \in ByValue(S, v) \/ <<y, x>> \in ByValue(S, v)
  <2>1. SUFFICES ASSUME NEW x \in S, NEW y \in S, x # y
                 PROVE  <<x, y>> \in ByValue(S, v) \/ <<y, x>> \in ByValue(S, v)
    OBVIOUS
  <2>2. /\ v[x] > v[y] \/ v[y] > v[x] \/ v[x] = v[y]
        /\ x < y \/ y < x
    BY <2>1
  <2>. QED
    BY <1>1, <2>2
<1>4. \A x, y, z \in S :
        <<x, y>> \in ByValue(S, v) /\ <<y, z>> \in ByValue(S, v) => <<x, z>> \in ByValue(S, v)
  BY <1>1
<1>. QED
  BY <1>2, <1>3, <1>4 DEF StrictOrder

LEMMA BestExists ==
  ASSUME NEW S, IsFiniteSet(S), S # {}, S \subseteq Int, NEW v, \A x \in S : v[x] \in Int
  PROVE  \E x \in S : \A y \in S : v[x] > v[y] \/ (v[x] = v[y] /\ x <= y)
<1>1. PICK x \in S : \A y \in S : y = x \/ <<x, y>> \in ByValue(S, v)
  BY ByValueOrder, FirstExists
<1>2. ASSUME NEW y \in S
      PROVE  v[x] > v[y] \/ (v[x] = v[y] /\ x <= y)
  <2>1. y = x \/ v[x] > v[y] \/ (v[x] = v[y] /\ x < y)
    BY <1>1 DEF ByValue
  <2>2. x \in Int /\ y \in Int
    OBVIOUS
  <2>. QED
    BY <2>1, <2>2
<1>. QED
  BY <1>2

LEMMA GreatestExists ==
  ASSUME NEW S, IsFiniteSet(S), S # {}, S \subseteq Int
  PROVE  \E x \in S : \A y \in S : x >= y
<1> DEFINE v == [x \in S |-> x]
<1>1. \A x \in S : v[x] = x /\ v[x] \in Int
  OBVIOUS
<1> HIDE DEF v
<1>2. \E x \in S : \A y \in S : v[x] > v[y] \/ (v[x] = v[y] /\ x <= y)
  BY <1>1, BestExists
<1>3. QED
  BY <1>1, <1>2

LEMMA LeastExists ==
  ASSUME NEW S, IsFiniteSet(S), S # {}, S \subseteq Int
  PROVE  \E x \in S : \A y \in S : x <= y
<1>1. PICK x \in S : \A y \in S : y = x \/ <<x, y>> \in {p \in S \X S : p[1] < p[2]}
  BY IntOrder, FirstExists
<1>2. ASSUME NEW y \in S
      PROVE  x <= y
  <2>1. y = x \/ x < y
    BY <1>1
  <2>2. x \in Int /\ y \in Int
    OBVIOUS
  <2>. QED
    BY <2>1, <2>2
<1>. QED
  BY <1>2

-----------------------------------------------------------------------------
(* SEQUENCES BY PLACE *)
(* p numbers the places I of s in increasing order.                        *)
Numbers(p, s, I) ==
  /\ p \in [1..Cardinality(I) -> I]
  /\ AtPlaces(s, I) = [k \in 1..Cardinality(I) |-> s[p[k]]]
  /\ \A i \in I : \E k \in 1..Cardinality(I) : p[k] = i
  /\ \A j, k \in 1..Cardinality(I) : j < k <=> p[j] < p[k]
LEMMA AtPlacesFacts ==
  ASSUME NEW s, NEW I, IsFiniteSet(I), I \subseteq Int
  PROVE  \E p : Numbers(p, s, I)
<1> DEFINE R == {p \in I \X I : p[1] < p[2]}
           n == Cardinality(I)
           P == Listed(I, R)
<1>1. StrictOrder(I, R)
  BY IntOrder
<1>2. InOrder(I, <) = P
  BY DEF InOrder
<1>3. /\ n \in Nat /\ P \in [1..n -> I]
      /\ \A x \in I : \E i \in 1..n : P[i] = x
      /\ \A i, j \in 1..n : i < j <=> <<P[i], P[j]>> \in R
  <2>1. IsListing(P, I, R)
    BY <1>1, ListedFacts
  <2>. HIDE DEF R, P
  <2>. QED
    BY <2>1 DEF IsListing
<1>4. AtPlaces(s, I) = [k \in 1..n |-> s[P[k]]]
  <2>1. DOMAIN P = 1..n
    BY <1>3
  <2>2. AtPlaces(s, I) = [k \in DOMAIN P |-> s[P[k]]]
    <3>. HIDE DEF P
    <3>. QED
      BY <1>2 DEF AtPlaces
  <2>. HIDE DEF P
  <2>. QED
    BY <2>1, <2>2
<1>5. \A j, k \in 1..n : j < k <=> P[j] < P[k]
  <2>1. ASSUME NEW j \in 1..n, NEW k \in 1..n
        PROVE  <<P[j], P[k]>> \in R <=> P[j] < P[k]
    <3>1. P[j] \in I /\ P[k] \in I
      BY <1>3
    <3>. HIDE DEF P
    <3>. QED
      BY <3>1
  <2>. HIDE DEF P, R, n
  <2>. QED
    BY <1>3, <2>1
<1>. HIDE DEF P, n
<1>. QED
  BY <1>3, <1>4, <1>5 DEF Numbers, n

LEMMA AtPlacesSeq ==
  ASSUME NEW X, NEW s \in Seq(X), NEW I \in SUBSET DOMAIN s
  PROVE  /\ AtPlaces(s, I) \in Seq(X)
         /\ IsFiniteSet(I)
         /\ Len(AtPlaces(s, I)) = Cardinality(I)
         /\ Range(AtPlaces(s, I)) = {s[i] : i \in I}
<1>1. DOMAIN s = 1..Len(s) /\ Len(s) \in Nat
  OBVIOUS
<1>2. IsFiniteSet(I) /\ I \subseteq Int
  <2>1. IsFiniteSet(1..Len(s))
    BY <1>1, FS_Interval
  <2>. QED
    BY <1>1, <2>1, FS_Subset
<1>3. Cardinality(I) \in Nat
  BY <1>2, FS_CardinalityType
<1> DEFINE n == Cardinality(I)
<1>9. PICK p : Numbers(p, s, I)
  BY <1>2, AtPlacesFacts
<1>4. /\ p \in [1..n -> I]
      /\ AtPlaces(s, I) = [k \in 1..n |-> s[p[k]]]
      /\ \A i \in I : \E k \in 1..n : p[k] = i
  BY <1>9 DEF Numbers
<1>5. \A k \in 1..n : p[k] \in I /\ s[p[k]] \in X
  BY <1>1, <1>4
<1>6. AtPlaces(s, I) \in [1..n -> X]
  <2>. HIDE DEF n
  <2>. QED
    BY <1>4, <1>5
<1>7. AtPlaces(s, I) \in Seq(X) /\ Len(AtPlaces(s, I)) = n
  <2>. HIDE DEF n
  <2>. QED
    BY <1>3, <1>6 DEF n
<1>8. Range(AtPlaces(s, I)) = {s[i] : i \in I}
  <2>1. DOMAIN AtPlaces(s, I) = 1..n
    BY <1>6
  <2>2. Range(AtPlaces(s, I)) = {s[p[k]] : k \in 1..n}
    <3>. HIDE DEF n
    <3>. QED
      BY <1>4, <2>1 DEF Range
  <2>3. {s[p[k]] : k \in 1..n} = {s[i] : i \in I}
    <3>. HIDE DEF n
    <3>. QED
      BY <1>4, <1>5
  <2>. QED
    BY <2>2, <2>3
<1>. QED
  BY <1>2, <1>7, <1>8

(* Renaming the elements one to one keeps their number.                    *)
LEMMA CardImage ==
  ASSUME NEW S, IsFiniteSet(S), NEW f, \A x, y \in S : f[x] = f[y] => x = y
  PROVE  /\ IsFiniteSet({f[x] : x \in S})
         /\ Cardinality({f[x] : x \in S}) = Cardinality(S)
<1> DEFINE T == {f[x] : x \in S}
           g == [x \in S |-> f[x]]
<1>1. g \in Bijection(S, T)
  BY DEF Bijection, Injection, Surjection, IsInjective
<1>2. ExistsBijection(S, T)
  BY <1>1 DEF ExistsBijection
<1>. QED
  BY <1>2, FS_Bijection

LEMMA ImageFinite ==
  ASSUME NEW S, IsFiniteSet(S), NEW f
  PROVE  IsFiniteSet({f[x] : x \in S})
<1> DEFINE T == {f[x] : x \in S}
           g == [x \in S |-> f[x]]
<1>1. g \in Surjection(S, T)
  BY DEF Surjection
<1> HIDE DEF T
<1>2. IsFiniteSet(T)
  BY <1>1, FS_Surjection
<1>3. QED
  BY <1>2 DEF T

LEMMA CountUpTo == \A n \in Nat : IsFiniteSet(1..n) /\ Cardinality(1..n) = n
<1> SUFFICES ASSUME NEW n \in Nat PROVE IsFiniteSet(1..n) /\ Cardinality(1..n) = n
  OBVIOUS
<1>1. IsFiniteSet(1..n) /\ Cardinality(1..n) = IF 1 > n THEN 0 ELSE n - 1 + 1
  BY FS_Interval
<1>2. (IF 1 > n THEN 0 ELSE n - 1 + 1) = n
  OBVIOUS
<1>3. QED
  BY <1>1, <1>2

LEMMA SumSingle ==
  ASSUME NEW w, NEW z, w[z] \in Int
  PROVE  SumFunctionOnSet(w, {z}) = w[z]
<1>1. IsFiniteSet({z}) /\ {z} \ {z} = {} /\ \A x \in {z} : w[x] \in Int
  BY FS_Singleton
<1>2. SumFunctionOnSet(w, {z}) = w[z] + SumFunctionOnSet(w, {z} \ {z})
  BY <1>1, SumRemove
<1>3. SumFunctionOnSet(w, {z} \ {z}) = 0
  BY <1>1, SumEmpty
<1>4. QED
  BY <1>2, <1>3

(* What is kept of a sequence without repeats has none.                    *)
Distinct(s) == \A i, j \in DOMAIN s : s[i] = s[j] => i = j
LEMMA AtPlacesDistinct ==
  ASSUME NEW X, NEW s \in Seq(X), Distinct(s), NEW I \in SUBSET DOMAIN s
  PROVE  Distinct(AtPlaces(s, I))
<1> DEFINE n == Cardinality(I)
           kept == AtPlaces(s, I)
<1>1. IsFiniteSet(I) /\ I \subseteq Int
  <2>1. DOMAIN s = 1 .. Len(s)
    OBVIOUS
  <2>2. QED
    BY <2>1, AtPlacesSeq
<1>2. PICK p : Numbers(p, s, I)
  BY <1>1, AtPlacesFacts
<1>3. /\ p \in [1..n -> I] /\ kept = [k \in 1..n |-> s[p[k]]]
      /\ \A j, k \in 1..n : j < k <=> p[j] < p[k]
  BY <1>2 DEF Numbers
<1>4. n \in Nat
  BY <1>1, FS_CardinalityType
<1> HIDE DEF kept, n
<1>5. \A j, k \in 1..n : p[j] = p[k] => j = k
  <2> SUFFICES ASSUME NEW j \in 1..n, NEW k \in 1..n, p[j] = p[k] PROVE j = k
    OBVIOUS
  <2>1. p[j] \in Int /\ p[k] \in Int
    BY <1>1, <1>3
  <2>2. ~(p[j] < p[k]) /\ ~(p[k] < p[j])
    BY <2>1
  <2>3. ~(j < k) /\ ~(k < j)
    BY <1>3, <2>2
  <2>4. QED
    BY <1>4, <2>3
<1>6. \A j, k \in 1..n : kept[j] = kept[k] => j = k
  <2> SUFFICES ASSUME NEW j \in 1..n, NEW k \in 1..n, kept[j] = kept[k] PROVE j = k
    OBVIOUS
  <2>1. s[p[j]] = s[p[k]] /\ p[j] \in DOMAIN s /\ p[k] \in DOMAIN s
    BY <1>3
  <2>2. p[j] = p[k]
    BY <2>1 DEF Distinct
  <2>3. QED
    BY <1>5, <2>2
<1>7. QED
  BY <1>3, <1>6 DEF Distinct, kept

(* A set has one listing.                                                  *)
Enumerates(g, S, R) ==
  /\ g \in [1..Cardinality(S) -> S]
  /\ \A x \in S : \E i \in 1..Cardinality(S) : g[i] = x
  /\ \A i, j \in 1..Cardinality(S) : i < j => <<g[i], g[j]>> \in R
LEMMA ListingUnique ==
  ASSUME NEW S, IsFiniteSet(S), NEW R, StrictOrder(S, R), NEW g, Enumerates(g, S, R)
  PROVE  Listed(S, R) = g
<1> DEFINE n == Cardinality(S)
           L == Listed(S, R)
<1>1. n \in Nat
  BY FS_CardinalityType
<1>2. /\ L \in [1..n -> S]
      /\ \A i \in 1..n : Cardinality(Below(S, R, L[i])) = i - 1
      /\ \A x \in S : \E i \in 1..n : L[i] = x
  BY ListedFacts DEF IsListing
<1>3. /\ g \in [1..n -> S]
      /\ \A x \in S : \E i \in 1..n : g[i] = x
      /\ \A i, j \in 1..n : i < j => <<g[i], g[j]>> \in R
  BY DEF Enumerates
<1> HIDE DEF L, n
<1>4. \A i, j \in 1..n : <<g[i], g[j]>> \in R => i < j
  <2>1. SUFFICES ASSUME NEW i \in 1..n, NEW j \in 1..n, <<g[i], g[j]>> \in R, ~(i < j) PROVE FALSE
    OBVIOUS
  <2>2. i = j \/ j < i
    BY <1>1, <2>1
  <2>3. g[i] \in S /\ g[j] \in S
    BY <1>3
  <2>4. CASE i = j
    BY <2>1, <2>3, <2>4 DEF StrictOrder
  <2>5. CASE j < i
    <3>1. <<g[j], g[i]>> \in R
      BY <1>3, <2>5
    <3>2. <<g[i], g[i]>> \in R
      BY <2>1, <2>3, <3>1 DEF StrictOrder
    <3>3. QED
      BY <2>3, <3>2 DEF StrictOrder
  <2>6. QED
    BY <2>2, <2>4, <2>5
<1>5. ASSUME NEW i \in 1..n PROVE Cardinality(Below(S, R, g[i])) = i - 1
  <2>1. Below(S, R, g[i]) = {g[j] : j \in 1..(i - 1)}
    <3>1. \A j \in 1..n : <<g[j], g[i]>> \in R <=> j < i
      BY <1>3, <1>4
    <3>2. \A j : j \in 1..(i - 1) <=> j \in 1..n /\ j < i
      BY <1>1
    <3>3. \A x : x \in Below(S, R, g[i]) <=> x \in S /\ <<x, g[i]>> \in R
      BY DEF Below
    <3>4. QED
      BY <1>3, <3>1, <3>2, <3>3
  <2>2. \A j, k \in 1..(i - 1) : g[j] = g[k] => j = k
    <3>1. SUFFICES ASSUME NEW j \in 1..(i - 1), NEW k \in 1..(i - 1), g[j] = g[k], j < k PROVE FALSE
      OBVIOUS
    <3>2. j \in 1..n /\ k \in 1..n
      BY <1>1
    <3>3. <<g[j], g[j]>> \in R /\ g[j] \in S
      BY <1>3, <3>1, <3>2
    <3>4. QED
      BY <3>3 DEF StrictOrder
  <2>3. i - 1 \in Nat
    BY <1>1
  <2>4. IsFiniteSet(1..(i - 1)) /\ Cardinality(1..(i - 1)) = i - 1
    BY <2>3, CountUpTo
  <2>5. Cardinality({g[j] : j \in 1..(i - 1)}) = Cardinality(1..(i - 1))
    BY <2>2, <2>4, CardImage
  <2>6. QED
    BY <2>1, <2>4, <2>5
<1>6. ASSUME NEW i \in 1..n PROVE L[i] = g[i]
  <2>1. PICK k \in 1..n : L[k] = g[i]
    BY <1>2, <1>3
  <2>2. k - 1 = i - 1
    BY <1>2, <1>5, <2>1
  <2>3. k = i
    BY <1>1, <2>2
  <2>4. QED
    BY <2>1, <2>3
<1>7. L = g
  <2>1. L \in [1..n -> S] /\ g \in [1..n -> S]
    BY <1>2, <1>3
  <2>2. L = [i \in 1..n |-> L[i]] /\ g = [i \in 1..n |-> g[i]]
    BY <2>1
  <2>3. [i \in 1..n |-> L[i]] = [i \in 1..n |-> g[i]]
    BY <1>6
  <2>4. QED
    BY <2>2, <2>3
<1>8. QED
  BY <1>7 DEF L

(* A set on top of another one is listed after it.                         *)
OnTop(S, T, R) ==
  /\ IsFiniteSet(S) /\ IsFiniteSet(T) /\ S \cap T = {}
  /\ StrictOrder(S \cup T, R)
  /\ \A x \in S, y \in T : <<x, y>> \in R
LEMMA ListedOnTop ==
  ASSUME NEW S, NEW T, NEW R, OnTop(S, T, R)
  PROVE  /\ Listed(S \cup T, R) = Listed(S, R) \o Listed(T, R)
         /\ Listed(S, R) \in Seq(S) /\ Listed(T, R) \in Seq(T)
<1> DEFINE m == Cardinality(S)
           n == Cardinality(T)
           U == S \cup T
           L == Listed(S, R)
           M == Listed(T, R)
           g == L \o M
<1>1. IsFiniteSet(S) /\ IsFiniteSet(T) /\ S \cap T = {} /\ StrictOrder(U, R)
      /\ \A x \in S, y \in T : <<x, y>> \in R
  BY DEF OnTop
<1>2. m \in Nat /\ n \in Nat
  BY <1>1, FS_CardinalityType
<1>3. IsFiniteSet(U) /\ Cardinality(U) = m + n
  <2>1. IsFiniteSet(U) /\ Cardinality(U) = Cardinality(S) + Cardinality(T) - Cardinality(S \cap T)
    BY <1>1, FS_Union
  <2>2. Cardinality(S \cap T) = 0
    BY <1>1, FS_EmptySet
  <2> HIDE DEF U
  <2>3. QED
    BY <1>2, <2>1, <2>2
<1>4. StrictOrder(S, R) /\ StrictOrder(T, R)
  BY <1>1 DEF StrictOrder
<1>5. /\ L \in [1..m -> S]
      /\ \A x \in S : \E i \in 1..m : L[i] = x
      /\ \A i, j \in 1..m : i < j => <<L[i], L[j]>> \in R
  <2>1. IsListing(L, S, R)
    BY <1>1, <1>4, ListedFacts
  <2> HIDE DEF L
  <2>2. QED
    BY <2>1 DEF IsListing
<1>6. /\ M \in [1..n -> T]
      /\ \A x \in T : \E i \in 1..n : M[i] = x
      /\ \A i, j \in 1..n : i < j => <<M[i], M[j]>> \in R
  <2>1. IsListing(M, T, R)
    BY <1>1, <1>4, ListedFacts
  <2> HIDE DEF M
  <2>2. QED
    BY <2>1 DEF IsListing
<1> HIDE DEF L, M, m, n, U
<1>7. L \in Seq(S) /\ Len(L) = m /\ M \in Seq(T) /\ Len(M) = n
  BY <1>2, <1>5, <1>6
<1>8. /\ DOMAIN g = 1..(m + n)
      /\ \A i \in 1..(m + n) : g[i] = IF i <= m THEN L[i] ELSE M[i - m]
  BY <1>2, <1>7
<1> HIDE DEF g
<1>9. S \subseteq U /\ T \subseteq U /\ \A x \in U : x \in S \/ x \in T
  BY DEF U
<1>10. \A i \in 1..(m + n) : \/ i <= m /\ i \in 1..m /\ g[i] = L[i] /\ g[i] \in S
                             \/ i > m /\ i - m \in 1..n /\ g[i] = M[i - m] /\ g[i] \in T
  BY <1>2, <1>5, <1>6, <1>8
<1>11. \A i \in 1..(m + n) : g[i] \in U
  BY <1>9, <1>10
<1>12. ASSUME NEW x \in U PROVE \E i \in 1..(m + n) : g[i] = x
  <2>1. CASE x \in S
    <3>1. PICK i \in 1..m : L[i] = x
      BY <1>5, <2>1
    <3>2. i \in 1..(m + n) /\ i <= m
      BY <1>2
    <3>3. QED
      BY <1>8, <3>1, <3>2
  <2>2. CASE x \in T
    <3>1. PICK i \in 1..n : M[i] = x
      BY <1>6, <2>2
    <3>2. i + m \in 1..(m + n) /\ ~(i + m <= m) /\ (i + m) - m = i
      BY <1>2
    <3>3. QED
      BY <1>8, <3>1, <3>2
  <2>3. QED
    BY <1>9, <2>1, <2>2
<1>13. ASSUME NEW i \in 1..(m + n), NEW j \in 1..(m + n), i < j PROVE <<g[i], g[j]>> \in R
  <2>1. CASE j <= m
    <3>1. i \in 1..m /\ j \in 1..m /\ g[i] = L[i] /\ g[j] = L[j]
      BY <1>2, <1>8, <1>13, <2>1
    <3>2. QED
      BY <1>5, <1>13, <3>1
  <2>2. CASE i <= m /\ j > m
    <3>1. g[i] \in S /\ g[j] \in T
      BY <1>2, <1>10, <2>2
    <3>2. QED
      BY <1>1, <3>1
  <2>3. CASE i > m
    <3>1. i - m \in 1..n /\ j - m \in 1..n /\ i - m < j - m /\ g[i] = M[i - m] /\ g[j] = M[j - m]
      BY <1>2, <1>8, <1>13, <2>3
    <3>2. QED
      BY <1>6, <3>1
  <2>4. QED
    BY <1>2, <1>13, <2>1, <2>2, <2>3
<1>14. Enumerates(g, U, R)
  <2>1. g \in [1..(m + n) -> U]
    <3>1. L \in Seq(U) /\ M \in Seq(U)
      BY <1>2, <1>5, <1>6, <1>9
    <3>2. g \in Seq(U)
      BY <3>1 DEF g
    <3>3. g = [i \in DOMAIN g |-> g[i]]
      BY <3>2
    <3>4. QED
      BY <1>8, <1>11, <3>3
  <2>2. QED
    BY <1>3, <1>12, <1>13, <2>1 DEF Enumerates
<1>15. Listed(U, R) = g
  BY <1>1, <1>3, <1>14, ListingUnique
<1>16. QED
  BY <1>7, <1>15 DEF U, g, L, M

(* A listing only depends on how the relation orders the set.              *)
LEMMA SameOrder ==
  ASSUME NEW S, IsFiniteSet(S), NEW R, StrictOrder(S, R), NEW Q,
         \A x, y \in S : <<x, y>> \in R <=> <<x, y>> \in Q
  PROVE  Listed(S, Q) = Listed(S, R)
<1> DEFINE n == Cardinality(S)
           L == Listed(S, R)
<1>1. StrictOrder(S, Q)
  BY DEF StrictOrder
<1>2. /\ n \in Nat /\ L \in [1..n -> S]
      /\ \A x \in S : \E i \in 1..n : L[i] = x
      /\ \A i, j \in 1..n : i < j <=> <<L[i], L[j]>> \in R
  BY ListedFacts DEF IsListing
<1> HIDE DEF L
<1>3. Enumerates(L, S, Q)
  BY <1>2 DEF Enumerates
<1>4. QED
  BY <1>1, <1>3, ListingUnique DEF L
=============================================================================
