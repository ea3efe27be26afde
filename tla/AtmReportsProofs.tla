---------------------------- MODULE AtmReportsProofs ----------------------------
(***************************************************************************)
(* AtmReports for any accounts, amounts, months, limits and lines of       *)
(* transactions.txt: what the reports of src/src/account.c say agrees with *)
(* the ledger they were made from.                                         *)
(*                                                                         *)
(* A report is a sum over a set of rows, or a set written down in order.   *)
(* The first part proves what such sums and orders do, by induction; where *)
(* it needs an induction it takes a smallest counterexample.               *)
(***************************************************************************)
EXTENDS AtmReports, AtmTablesProofs, FiniteSetTheorems, SequenceTheorems, WellFoundedInduction

-------------------------------------------------------------------------------
(* Induction, with a set of counterexamples in place of an operator.       *)
LEMMA LessThan ==
  \E R : IsWellFoundedOn(R, Nat) /\ \A x, y \in Nat : <<x, y>> \in R <=> x < y
<1> DEFINE R == OpToRel(<, Nat)
<1>1. IsWellFoundedOn(R, Nat)
  BY NatLessThanWellFounded
<1>2. \A x, y \in Nat : <<x, y>> \in R <=> x < y
  BY DEF OpToRel
<1> HIDE DEF R
<1> QED
  BY <1>1, <1>2

LEMMA LeastNumber ==
  ASSUME NEW S, S \subseteq Nat, S # {}
  PROVE  \E m \in S : \A k \in S : m <= k
<1>1. PICK R : IsWellFoundedOn(R, Nat) /\ \A x, y \in Nat : <<x, y>> \in R <=> x < y
  BY LessThan
<1>2. IsWellFoundedOn(R, Nat)
  BY <1>1
<1>3. PICK m \in S : \A y \in S : ~ (<<y, m>> \in R)
  BY <1>2, WFMin, Zenon
<1>4. ASSUME NEW k \in S
      PROVE  m <= k
  <2>1. k \in Nat /\ m \in Nat
    OBVIOUS
  <2>2. <<k, m>> \in R <=> k < m
    BY <1>1, <2>1, Zenon
  <2>3. ~ (<<k, m>> \in R)
    BY <1>3, Zenon
  <2>4. ~ (k < m)
    BY <2>2, <2>3, Zenon
  <2> QED
    BY <2>1, <2>4
<1> QED
  BY <1>4

(* Among finite sets one has no subset that lacks one of its members.      *)
LEMMA SmallestSet ==
  ASSUME NEW C, C # {}, \A s \in C : IsFiniteSet(s)
  PROVE  \E s \in C : \A x \in s : s \ {x} \notin C
<1> DEFINE sizes == {Cardinality(s) : s \in C}
<1>1. sizes \subseteq Nat /\ sizes # {}
  BY FS_CardinalityType
<1>2. PICK m \in sizes : \A k \in sizes : m <= k
  <2> HIDE DEF sizes
  <2> QED
    BY <1>1, LeastNumber
<1>3. PICK s \in C : m = Cardinality(s)
  OBVIOUS
<1>4. ASSUME NEW x \in s, s \ {x} \in C
      PROVE  FALSE
  <2>1. Cardinality(s \ {x}) = Cardinality(s) - 1 /\ Cardinality(s) \in Nat
    BY FS_RemoveElement, FS_CardinalityType
  <2>2. m <= Cardinality(s \ {x})
    BY <1>2, <1>4
  <2> QED
    BY <1>3, <2>1, <2>2
<1> QED
  BY <1>4

-------------------------------------------------------------------------------
(* g is the recursion of MapThenSumSet over the subsets of S.              *)
Some(s) == CHOOSE x \in s : TRUE
Sums(g, F, S) ==
  g = [s \in SUBSET S |-> IF s = {} THEN 0 ELSE F[Some(s)] + g[s \ {Some(s)}]]

LEMMA SumsUnique ==
  ASSUME NEW F, NEW S, IsFiniteSet(S), NEW T, T \subseteq S,
         NEW g, Sums(g, F, T), NEW h, Sums(h, F, S)
  PROVE  \A s \in SUBSET T : g[s] = h[s]
<1> DEFINE C == {s \in SUBSET T : g[s] # h[s]}
<1> SUFFICES ASSUME C # {} PROVE FALSE
  OBVIOUS
<1>1. \A s \in C : IsFiniteSet(s)
  BY FS_Subset
<1>2. PICK s \in C : \A x \in s : s \ {x} \notin C
  <2> HIDE DEF C
  <2> QED
    BY <1>1, SmallestSet
<1>3. CASE s = {}
  BY <1>3 DEF Sums
<1>4. CASE s # {}
  <2>1. Some(s) \in s
    BY <1>4 DEF Some
  <2>2. PICK x : x = Some(s)
    OBVIOUS
  <2>3. s \ {x} \in SUBSET T /\ s \in SUBSET T
    OBVIOUS
  <2>4. g[s] = F[x] + g[s \ {x}] /\ h[s] = F[x] + h[s \ {x}]
    BY <1>4, <2>2, <2>3 DEF Sums
  <2>5. g[s \ {x}] = h[s \ {x}]
    BY <1>2, <2>1, <2>2, <2>3
  <2> QED
    BY <2>4, <2>5
<1> QED
  BY <1>3, <1>4

LEMMA SumsBelow ==
  ASSUME NEW F, NEW S, NEW T, T \subseteq S, NEW g, Sums(g, F, S)
  PROVE  \E h : Sums(h, F, T)
<1> DEFINE h == [t \in SUBSET T |-> g[t]]
<1>1. ASSUME NEW t \in SUBSET T
      PROVE  h[t] = IF t = {} THEN 0 ELSE F[Some(t)] + h[t \ {Some(t)}]
  <2>1. PICK x : x = Some(t)
    OBVIOUS
  <2>2. t \in SUBSET S /\ t \ {x} \in SUBSET T
    OBVIOUS
  <2> QED
    BY <2>1, <2>2 DEF Sums
<1>2. h = [t \in SUBSET T |-> IF t = {} THEN 0 ELSE F[Some(t)] + h[t \ {Some(t)}]]
  BY <1>1
<1> HIDE DEF h
<1> QED
  BY <1>2 DEF Sums

LEMMA SumsExist ==
  ASSUME NEW F, NEW S, IsFiniteSet(S)
  PROVE  \E g : Sums(g, F, S)
<1> DEFINE C == {s \in SUBSET S : ~ \E g : Sums(g, F, s)}
<1> SUFFICES ASSUME C # {} PROVE FALSE
  OBVIOUS
<1>1. \A s \in C : IsFiniteSet(s)
  BY FS_Subset
<1>2. PICK s \in C : \A x \in s : s \ {x} \notin C
  <2> HIDE DEF C
  <2> QED
    BY <1>1, SmallestSet
<1>3. s \in SUBSET S /\ ~ \E g : Sums(g, F, s)
  OBVIOUS
<1> DEFINE own(t) == CHOOSE g : Sums(g, F, t)
           value(t) == IF t = {} THEN 0 ELSE F[Some(t)] + own(t \ {Some(t)})[t \ {Some(t)}]
           g == [t \in SUBSET s |-> value(t)]
<1>4. ASSUME NEW t \in SUBSET s, t # s
      PROVE  Sums(own(t), F, t)
  <2>1. PICK x \in s : x \notin t
    BY <1>4
  <2>2. \E h : Sums(h, F, s \ {x})
    BY <1>2
  <2>3. \E h : Sums(h, F, t)
    <3>1. t \subseteq s \ {x}
      BY <2>1
    <3> QED
      BY <2>2, <3>1, SumsBelow
  <2> QED
    BY <2>3
<1>5. ASSUME NEW t \in SUBSET s, t # s
      PROVE  own(t)[t] = value(t)
  <2>1. Sums(own(t), F, t) /\ IsFiniteSet(t)
    BY <1>1, <1>4, <1>5, FS_Subset
  <2>2. CASE t = {}
    BY <2>1, <2>2 DEF Sums
  <2>3. CASE t # {}
    <3>1. PICK x : x = Some(t)
      OBVIOUS
    <3>2. x \in t
      BY <2>3, <3>1 DEF Some
    <3>3. t \ {x} \in SUBSET s /\ t \ {x} # s /\ t \ {x} \subseteq t
      BY <3>2
    <3>4. Sums(own(t \ {x}), F, t \ {x})
      BY <1>4, <3>3
    <3>5. own(t \ {x})[t \ {x}] = own(t)[t \ {x}]
      <4> HIDE DEF own
      <4> QED
        BY <2>1, <3>3, <3>4, SumsUnique
    <3>6. own(t)[t] = F[x] + own(t)[t \ {x}]
      <4> HIDE DEF own
      <4> QED
        BY <2>1, <2>3, <3>1 DEF Sums
    <3>7. value(t) = F[x] + own(t \ {x})[t \ {x}]
      BY <2>3, <3>1
    <3> QED
      BY <3>5, <3>6, <3>7
  <2> QED
    BY <2>2, <2>3
<1>6. ASSUME NEW t \in SUBSET s
      PROVE  g[t] = IF t = {} THEN 0 ELSE F[Some(t)] + g[t \ {Some(t)}]
  <2>1. CASE t = {}
    BY <2>1
  <2>2. CASE t # {}
    <3>1. PICK x : x = Some(t)
      OBVIOUS
    <3>2. x \in t
      BY <2>2, <3>1 DEF Some
    <3>3. t \ {x} \in SUBSET s /\ t \ {x} # s
      BY <3>2
    <3>4. g[t \ {x}] = own(t \ {x})[t \ {x}]
      BY <1>5, <3>3
    <3>5. g[t] = F[x] + own(t \ {x})[t \ {x}]
      BY <2>2, <3>1
    <3> HIDE DEF g, own
    <3> QED
      BY <2>2, <3>1, <3>4, <3>5
  <2> QED
    BY <2>1, <2>2
<1>7. DOMAIN g = SUBSET s /\ g = [t \in SUBSET s |-> g[t]]
  OBVIOUS
<1> HIDE DEF g
<1>8. Sums(g, F, s)
  BY <1>6, <1>7 DEF Sums
<1> QED
  BY <1>3, <1>8

-------------------------------------------------------------------------------
(* The sum of F over S.                                                    *)
Total(F, S) == MapThenSumSet(LAMBDA i : F[i], S)

LEMMA TotalIs ==
  ASSUME NEW F, NEW S, IsFiniteSet(S)
  PROVE  \E g : Sums(g, F, S) /\ Total(F, S) = g[S]
<1> DEFINE iter ==
      CHOOSE iter : iter = [s \in SUBSET S |->
                              IF s = {} THEN 0
                              ELSE F[CHOOSE x \in s : TRUE] + iter[s \ {CHOOSE x \in s : TRUE}]]
<1>1. Total(F, S) = iter[S]
  BY DEF Total, MapThenSumSet, MapThenFoldSet
<1>2. \E g : Sums(g, F, S)
  BY SumsExist
<1>3. Sums(iter, F, S)
  BY <1>2 DEF Sums, Some
<1> QED
  BY <1>1, <1>3

LEMMA TotalEmpty ==
  ASSUME NEW F
  PROVE  Total(F, {}) = 0
<1>1. PICK g : Sums(g, F, {}) /\ Total(F, {}) = g[{}]
  BY TotalIs, FS_EmptySet
<1>2. {} \in SUBSET {}
  OBVIOUS
<1> QED
  BY <1>1, <1>2 DEF Sums

LEMMA TotalStep ==
  ASSUME NEW F, NEW S, IsFiniteSet(S), S # {}
  PROVE  \E x \in S : Total(F, S) = F[x] + Total(F, S \ {x})
<1>1. PICK x : x = Some(S)
  OBVIOUS
<1>2. x \in S
  BY <1>1 DEF Some
<1>3. PICK g : Sums(g, F, S) /\ Total(F, S) = g[S]
  BY TotalIs
<1>4. IsFiniteSet(S \ {x})
  BY FS_Subset
<1>5. PICK h : Sums(h, F, S \ {x}) /\ Total(F, S \ {x}) = h[S \ {x}]
  BY <1>4, TotalIs
<1>6. h[S \ {x}] = g[S \ {x}]
  <2>1. PICK T : T = S \ {x}
    OBVIOUS
  <2>2. T \subseteq S /\ Sums(h, F, T) /\ Sums(g, F, S)
    BY <1>3, <1>5, <2>1
  <2>3. \A s \in SUBSET T : h[s] = g[s]
    BY <2>2, SumsUnique
  <2> QED
    BY <2>1, <2>3
<1>7. g[S] = F[x] + g[S \ {x}]
  BY <1>1, <1>3 DEF Sums
<1> QED
  BY <1>2, <1>3, <1>5, <1>6, <1>7

LEMMA TotalSame ==
  ASSUME NEW F, NEW G, NEW S, IsFiniteSet(S), \A x \in S : F[x] = G[x]
  PROVE  Total(F, S) = Total(G, S)
<1>1. PICK g : Sums(g, F, S) /\ Total(F, S) = g[S]
  BY TotalIs
<1>2. PICK h : Sums(h, G, S) /\ Total(G, S) = h[S]
  BY TotalIs
<1>3. ASSUME NEW s \in SUBSET S
      PROVE  g[s] = IF s = {} THEN 0 ELSE G[Some(s)] + g[s \ {Some(s)}]
  <2>1. CASE s = {}
    BY <1>1, <2>1 DEF Sums
  <2>2. CASE s # {}
    <3>1. PICK x : x = Some(s)
      OBVIOUS
    <3>2. x \in s
      BY <2>2, <3>1 DEF Some
    <3> QED
      BY <1>1, <2>2, <3>1, <3>2 DEF Sums
  <2> QED
    BY <2>1, <2>2
<1>4. g = [s \in SUBSET S |-> g[s]]
  BY <1>1 DEF Sums
<1>5. Sums(g, G, S)
  BY <1>3, <1>4 DEF Sums
<1>6. g[S] = h[S]
  BY <1>2, <1>5, SumsUnique
<1> QED
  BY <1>1, <1>2, <1>6

Whole(F, S) == \A x \in S : F[x] \in Int

LEMMA TotalInt ==
  ASSUME NEW F, NEW S, IsFiniteSet(S), Whole(F, S)
  PROVE  Total(F, S) \in Int
<1> DEFINE C == {s \in SUBSET S : Total(F, s) \notin Int}
<1> SUFFICES ASSUME C # {} PROVE FALSE
  OBVIOUS
<1>1. \A s \in C : IsFiniteSet(s)
  BY FS_Subset
<1>2. PICK s \in C : \A x \in s : s \ {x} \notin C
  <2> HIDE DEF C
  <2> QED
    BY <1>1, SmallestSet
<1>3. s # {}
  BY TotalEmpty
<1>4. PICK x \in s : Total(F, s) = F[x] + Total(F, s \ {x})
  BY <1>1, <1>3, TotalStep
<1>5. Total(F, s \ {x}) \in Int /\ F[x] \in Int /\ Total(F, s) \notin Int
  BY <1>2 DEF Whole
<1> QED
  BY <1>4, <1>5

(* Whichever member the recursion takes first.                             *)
LEMMA TotalWithout ==
  ASSUME NEW F, NEW S, IsFiniteSet(S), Whole(F, S)
  PROVE  \A x \in S : Total(F, S) = F[x] + Total(F, S \ {x})
<1> DEFINE C == {s \in SUBSET S : \E x \in s : Total(F, s) # F[x] + Total(F, s \ {x})}
<1> SUFFICES ASSUME C # {} PROVE FALSE
  OBVIOUS
<1>1. \A s \in C : IsFiniteSet(s)
  BY FS_Subset
<1>2. PICK s \in C : \A x \in s : s \ {x} \notin C
  <2> HIDE DEF C
  <2> QED
    BY <1>1, SmallestSet
<1>3. PICK x \in s : Total(F, s) # F[x] + Total(F, s \ {x})
  OBVIOUS
<1>4. PICK y \in s : Total(F, s) = F[y] + Total(F, s \ {y})
  BY <1>1, <1>3, TotalStep
<1>5. x # y
  BY <1>3, <1>4
<1>6. PICK rest : rest = (s \ {x}) \ {y}
  OBVIOUS
<1>7. rest = (s \ {y}) \ {x} /\ IsFiniteSet(rest) /\ Whole(F, rest) /\ F[x] \in Int /\ F[y] \in Int
  BY <1>6, FS_Subset DEF Whole
<1>8. Total(F, s \ {y}) = F[x] + Total(F, rest)
  BY <1>2, <1>5, <1>7
<1>9. Total(F, s \ {x}) = F[y] + Total(F, rest)
  BY <1>2, <1>5, <1>6
<1>10. Total(F, rest) \in Int
  BY <1>7, TotalInt
<1> QED
  BY <1>3, <1>4, <1>7, <1>8, <1>9, <1>10

LEMMA TotalAdd ==
  ASSUME NEW F, NEW S, IsFiniteSet(S), NEW x, x \notin S, Whole(F, S \union {x})
  PROVE  Total(F, S \union {x}) = Total(F, S) + F[x]
<1>1. PICK T : T = S \union {x}
  OBVIOUS
<1>2. T \ {x} = S /\ x \in T
  BY <1>1
<1>3. IsFiniteSet(T)
  BY <1>1, FS_AddElement
<1>4. Total(F, T) = F[x] + Total(F, S)
  BY <1>1, <1>2, <1>3, TotalWithout
<1>5. F[x] \in Int /\ Total(F, S) \in Int
  BY <1>1, <1>2, TotalInt DEF Whole
<1> QED
  BY <1>1, <1>4, <1>5

LEMMA TotalSplit ==
  ASSUME NEW F, NEW S, IsFiniteSet(S), Whole(F, S), NEW P, P \subseteq S
  PROVE  Total(F, S) = Total(F, P) + Total(F, S \ P)
<1> DEFINE C == {s \in SUBSET P : Total(F, s) + Total(F, S \ s) # Total(F, S)}
<1>1. C = {}
  <2> SUFFICES ASSUME C # {} PROVE FALSE
    OBVIOUS
  <2>1. \A s \in C : IsFiniteSet(s)
    BY FS_Subset
  <2>2. PICK s \in C : \A x \in s : s \ {x} \notin C
    <3> HIDE DEF C
    <3> QED
      BY <2>1, SmallestSet
  <2>3. Total(F, S) \in Int
    BY TotalInt
  <2>4. CASE s = {}
    <3>1. Total(F, S \ {}) = Total(F, S)
      <4>1. S \ {} = S
        OBVIOUS
      <4> QED
        BY <4>1
    <3> QED
      BY <2>3, <2>4, <3>1, TotalEmpty
  <2>5. CASE s # {}
    <3>1. PICK x \in s : TRUE
      BY <2>5
    <3>2. PICK more, rest : more = S \ (s \ {x}) /\ rest = S \ s
      OBVIOUS
    <3>3. x \in more /\ more \ {x} = rest /\ x \in S
      BY <3>2
    <3>4. IsFiniteSet(s) /\ IsFiniteSet(more) /\ Whole(F, s) /\ Whole(F, more)
      BY <3>2, FS_Subset DEF Whole
    <3>5. Total(F, s) = F[x] + Total(F, s \ {x})
      BY <3>4, TotalWithout
    <3>6. Total(F, more) = F[x] + Total(F, rest)
      BY <3>3, <3>4, TotalWithout
    <3>7. Total(F, s \ {x}) + Total(F, more) = Total(F, S)
      BY <2>2, <3>2
    <3>8. F[x] \in Int /\ Total(F, s \ {x}) \in Int /\ Total(F, rest) \in Int
      <4>1. IsFiniteSet(s \ {x}) /\ IsFiniteSet(rest) /\ Whole(F, s \ {x}) /\ Whole(F, rest)
        BY <3>2, FS_Subset DEF Whole
      <4> QED
        BY <3>3, <4>1, TotalInt DEF Whole
    <3>9. Total(F, s) + Total(F, rest) # Total(F, S)
      BY <3>2
    <3> QED
      BY <3>5, <3>6, <3>7, <3>8, <3>9
  <2> QED
    BY <2>4, <2>5
<1> QED
  BY <1>1

LEMMA TotalNegated ==
  ASSUME NEW F, NEW G, NEW S, IsFiniteSet(S), Whole(F, S), \A x \in S : G[x] = -F[x]
  PROVE  Total(G, S) = -Total(F, S)
<1> DEFINE C == {s \in SUBSET S : Total(G, s) # -Total(F, s)}
<1> SUFFICES ASSUME C # {} PROVE FALSE
  OBVIOUS
<1>1. \A s \in C : IsFiniteSet(s)
  BY FS_Subset
<1>2. PICK s \in C : \A x \in s : s \ {x} \notin C
  <2> HIDE DEF C
  <2> QED
    BY <1>1, SmallestSet
<1>3. s # {}
  BY TotalEmpty
<1>4. PICK x \in s : Total(F, s) = F[x] + Total(F, s \ {x})
  BY <1>1, <1>3, TotalStep
<1>5. IsFiniteSet(s) /\ Whole(G, s) /\ Whole(F, s \ {x}) /\ F[x] \in Int /\ G[x] = -F[x]
  BY <1>1 DEF Whole
<1>6. Total(G, s) = G[x] + Total(G, s \ {x})
  BY <1>5, TotalWithout
<1>7. Total(G, s \ {x}) = -Total(F, s \ {x}) /\ Total(G, s) # -Total(F, s)
  BY <1>2
<1>8. Total(F, s \ {x}) \in Int
  BY <1>5, FS_Subset, TotalInt
<1> QED
  BY <1>4, <1>5, <1>6, <1>7, <1>8

(* A sum of natural numbers lies above each of them, and a sum of numbers  *)
(* that are at most m is at most as many times m as there are numbers.     *)
LEMMA TotalNat ==
  ASSUME NEW F, NEW S, IsFiniteSet(S), \A x \in S : F[x] \in Nat
  PROVE  Total(F, S) \in Nat
<1> DEFINE C == {s \in SUBSET S : Total(F, s) \notin Nat}
<1> SUFFICES ASSUME C # {} PROVE FALSE
  OBVIOUS
<1>1. \A s \in C : IsFiniteSet(s)
  BY FS_Subset
<1>2. PICK s \in C : \A x \in s : s \ {x} \notin C
  <2> HIDE DEF C
  <2> QED
    BY <1>1, SmallestSet
<1>3. s # {}
  BY TotalEmpty
<1>4. PICK x \in s : Total(F, s) = F[x] + Total(F, s \ {x})
  BY <1>1, <1>3, TotalStep
<1>5. Total(F, s \ {x}) \in Nat /\ F[x] \in Nat /\ Total(F, s) \notin Nat
  BY <1>2
<1> QED
  BY <1>4, <1>5

LEMMA TotalAbove ==
  ASSUME NEW F, NEW S, IsFiniteSet(S), \A y \in S : F[y] \in Nat, NEW x \in S
  PROVE  F[x] <= Total(F, S)
<1>1. IsFiniteSet(S \ {x}) /\ Whole(F, S) /\ \A y \in S \ {x} : F[y] \in Nat
  BY FS_Subset DEF Whole
<1>2. Total(F, S) = F[x] + Total(F, S \ {x})
  BY <1>1, TotalWithout
<1>3. Total(F, S \ {x}) \in Nat
  BY <1>1, TotalNat
<1> QED
  BY <1>2, <1>3

LEMMA TotalBelow ==
  ASSUME NEW F, NEW S, IsFiniteSet(S), Whole(F, S), NEW m \in Int, \A x \in S : F[x] <= m
  PROVE  Total(F, S) <= Cardinality(S) * m
<1> DEFINE C == {s \in SUBSET S : ~ (Total(F, s) <= Cardinality(s) * m)}
<1> SUFFICES ASSUME C # {} PROVE FALSE
  OBVIOUS
<1>1. \A s \in C : IsFiniteSet(s)
  BY FS_Subset
<1>2. PICK s \in C : \A x \in s : s \ {x} \notin C
  <2> HIDE DEF C
  <2> QED
    BY <1>1, SmallestSet
<1>3. s # {}
  <2>1. 0 * m = 0
    OBVIOUS
  <2> QED
    BY <2>1, TotalEmpty, FS_EmptySet
<1>4. PICK x \in s : Total(F, s) = F[x] + Total(F, s \ {x})
  BY <1>1, <1>3, TotalStep
<1>5. PICK n \in Int, n1 \in Int : n = Cardinality(s) /\ n1 = Cardinality(s \ {x}) /\ n = n1 + 1
  <2>1. Cardinality(s \ {x}) = Cardinality(s) - 1 /\ Cardinality(s) \in Nat
    BY <1>1, FS_RemoveElement, FS_CardinalityType
  <2> QED
    BY <2>1
<1>6. Total(F, s \ {x}) <= n1 * m /\ ~ (Total(F, s) <= n * m)
  BY <1>2, <1>5
<1>7. F[x] \in Int /\ F[x] <= m
  BY DEF Whole
<1>8. Total(F, s \ {x}) \in Int
  <2>1. IsFiniteSet(s \ {x}) /\ Whole(F, s \ {x})
    BY <1>1, FS_Subset DEF Whole
  <2> QED
    BY <2>1, TotalInt
<1>9. n * m = n1 * m + m
  BY <1>5
<1>10. n1 * m \in Int
  BY <1>5
<1> QED
  BY <1>4, <1>6, <1>7, <1>8, <1>9, <1>10
-------------------------------------------------------------------------------
(* A finite set in a strict total order R can be written down in it.       *)
StrictOrder(R, S) ==
  /\ \A x, y \in S : x = y \/ <<x, y>> \in R \/ <<y, x>> \in R
  /\ \A x, y, z \in S : <<x, y>> \in R /\ <<y, z>> \in R => <<x, z>> \in R
  /\ \A x \in S : <<x, x>> \notin R

LEMMA LastExists ==
  ASSUME NEW R, NEW S, IsFiniteSet(S), S # {}, StrictOrder(R, S)
  PROVE  \E x \in S : \A y \in S \ {x} : <<y, x>> \in R
<1> DEFINE C == {s \in SUBSET S : s # {} /\ ~ \E x \in s : \A y \in s \ {x} : <<y, x>> \in R}
<1> SUFFICES ASSUME C # {} PROVE FALSE
  OBVIOUS
<1>1. \A s \in C : IsFiniteSet(s)
  BY FS_Subset
<1>2. PICK s \in C : \A x \in s : s \ {x} \notin C
  <2> HIDE DEF C
  <2> QED
    BY <1>1, SmallestSet
<1>3. PICK x \in s : TRUE
  OBVIOUS
<1>4. s \ {x} # {}
  BY <1>3
<1>5. PICK last \in s \ {x} : \A y \in (s \ {x}) \ {last} : <<y, last>> \in R
  BY <1>2, <1>4
<1>6. x \in S /\ last \in S /\ x # last
  BY <1>5
<1>7. CASE <<x, last>> \in R
  BY <1>5, <1>7
<1>8. CASE <<last, x>> \in R
  <2>1. \A y \in s \ {x} : <<y, x>> \in R
    <3> SUFFICES ASSUME NEW y \in s \ {x} PROVE <<y, x>> \in R
      OBVIOUS
    <3>1. y \in S /\ (y = last \/ <<y, last>> \in R)
      BY <1>5
    <3> QED
      BY <1>6, <1>8, <3>1 DEF StrictOrder
  <2> QED
    BY <2>1
<1> QED
  BY <1>6, <1>7, <1>8 DEF StrictOrder

InOrder(s, R, S) ==
  /\ s \in [1 .. Cardinality(S) -> S]
  /\ \A j, k \in 1 .. Cardinality(S) : j < k => <<s[j], s[k]>> \in R

LEMMA OrderExists ==
  ASSUME NEW R, NEW S, IsFiniteSet(S), StrictOrder(R, S)
  PROVE  \E s : InOrder(s, R, S)
<1> DEFINE C == {T \in SUBSET S : ~ \E s : InOrder(s, R, T)}
<1> SUFFICES ASSUME C # {} PROVE FALSE
  OBVIOUS
<1>1. \A T \in C : IsFiniteSet(T)
  BY FS_Subset
<1>2. PICK T \in C : \A x \in T : T \ {x} \notin C
  <2> HIDE DEF C
  <2> QED
    BY <1>1, SmallestSet
<1>3. CASE T = {}
  <2>1. Cardinality(T) = 0
    BY <1>3, FS_EmptySet
  <2>2. InOrder([k \in 1 .. 0 |-> k], R, T)
    BY <2>1 DEF InOrder
  <2> QED
    BY <2>2
<1>4. CASE T # {}
  <2>1. StrictOrder(R, T) /\ IsFiniteSet(T)
    BY <1>1 DEF StrictOrder
  <2>2. PICK last \in T : \A y \in T \ {last} : <<y, last>> \in R
    BY <1>4, <2>1, LastExists
  <2>3. PICK q : InOrder(q, R, T \ {last})
    BY <1>2
  <2>4. PICK n \in Nat : n = Cardinality(T \ {last}) /\ Cardinality(T) = n + 1
    <3>1. /\ Cardinality(T \ {last}) = Cardinality(T) - 1 /\ Cardinality(T) \in Nat
          /\ Cardinality(T \ {last}) \in Nat
      BY <2>1, FS_RemoveElement, FS_CardinalityType
    <3> QED
      BY <3>1
  <2> DEFINE s == [k \in 1 .. n + 1 |-> IF k <= n THEN q[k] ELSE last]
  <2>5. q \in [1 .. n -> T \ {last}] /\ \A j, k \in 1 .. n : j < k => <<q[j], q[k]>> \in R
    BY <2>3, <2>4 DEF InOrder
  <2>6. s \in [1 .. n + 1 -> T]
    BY <2>5
  <2>7. ASSUME NEW j \in 1 .. n + 1, NEW k \in 1 .. n + 1, j < k
        PROVE  <<s[j], s[k]>> \in R
    <3>1. j \in 1 .. n /\ s[j] = q[j] /\ q[j] \in T \ {last}
      BY <2>5, <2>7
    <3>2. CASE k <= n
      <4>1. k \in 1 .. n /\ s[k] = q[k]
        BY <3>2
      <4> QED
        BY <2>5, <2>7, <3>1, <4>1
    <3>3. CASE ~ (k <= n)
      BY <2>2, <3>1, <3>3
    <3> QED
      BY <3>2, <3>3
  <2> HIDE DEF s
  <2>8. InOrder(s, R, T)
    BY <2>4, <2>6, <2>7 DEF InOrder
  <2> QED
    BY <2>8
<1> QED
  BY <1>3, <1>4

(* It then holds every member.                                             *)
LEMMA AllInOrder ==
  ASSUME NEW R, NEW S, IsFiniteSet(S), StrictOrder(R, S), NEW s, InOrder(s, R, S)
  PROVE  \A x \in S : \E k \in 1 .. Cardinality(S) : s[k] = x
<1>1. PICK n \in Nat : n = Cardinality(S)
  BY FS_CardinalityType
<1>2. s \in [1 .. n -> S] /\ \A j, k \in 1 .. n : j < k => <<s[j], s[k]>> \in R
  BY <1>1 DEF InOrder
<1>3. \A j, k \in 1 .. n : s[j] = s[k] => j = k
  <2> SUFFICES ASSUME NEW j \in 1 .. n, NEW k \in 1 .. n, s[j] = s[k], j < k \/ k < j PROVE FALSE
    OBVIOUS
  <2>1. s[j] \in S /\ <<s[j], s[j]>> \in R
    BY <1>2
  <2> QED
    BY <2>1 DEF StrictOrder
<1>4. s \in Injection(1 .. n, S)
  BY <1>2, <1>3 DEF Injection, IsInjective
<1>5. Cardinality(1 .. n) = n
  BY FS_Interval
<1>6. s \in Surjection(1 .. n, S)
  BY <1>1, <1>4, <1>5, FS_Injection
<1> QED
  BY <1>1, <1>6 DEF Surjection

-------------------------------------------------------------------------------
(* The tables.  Columns and types; what a time stamp may be; and the sums  *)
(* of what the rows of an account, and all rows, have moved.               *)
AccountColumns == {"pin_hash", "salt", "balance", "failed_attempts", "is_locked"}
RowColumns ==
  {"account_no", "related_account", "type", "amount", "balance_after", "created_at"}

GoodRow(row, acc) ==
  /\ DOMAIN row = RowColumns
  /\ row.account_no \in DOMAIN acc
  /\ row.type \in TransactionTypes
  /\ row.amount \in Nat
  /\ row.balance_after \in Nat
  /\ row.created_at \in Stamps

Typed(acc, t, next) ==
  /\ IsFiniteSet(DOMAIN acc) /\ DOMAIN acc \subseteq Nat
  /\ \A a \in DOMAIN acc : DOMAIN acc[a] = AccountColumns /\ acc[a].balance \in Nat
  /\ next \in Nat \ {0} /\ DOMAIN t \subseteq 1 .. next - 1
  /\ \A i \in DOMAIN t : GoodRow(t[i], acc)

InTime(t, last) ==
  \A i \in DOMAIN t :
    /\ t[i].created_at <= last
    /\ \A j \in DOMAIN t : i < j => t[i].created_at <= t[j].created_at

Movements(t) == [i \in DOMAIN t |-> Signed(t[i])]
Balances(acc) == [a \in DOMAIN acc |-> acc[a].balance]

Books(acc, t) ==
  /\ \A a \in DOMAIN acc : acc[a].balance = Total(Movements(t), RowsOf(t, a))
  /\ Total(Balances(acc), DOMAIN acc) = Total(Movements(t), DOMAIN t)

Good(acc, t, next) == Typed(acc, t, next) /\ Ledger(acc, t) /\ Books(acc, t)

LEMMA RowsFinite ==
  ASSUME NEW acc, NEW t, NEW next, Typed(acc, t, next)
  PROVE  IsFiniteSet(DOMAIN t) /\ \A a : IsFiniteSet(RowsOf(t, a)) /\ RowsOf(t, a) \subseteq DOMAIN t
<1>1. IsFiniteSet(1 .. next - 1)
  BY FS_Interval DEF Typed
<1>2. IsFiniteSet(DOMAIN t)
  BY <1>1, FS_Subset DEF Typed
<1>3. \A a : RowsOf(t, a) \subseteq DOMAIN t
  BY DEF RowsOf
<1> QED
  BY <1>2, <1>3, FS_Subset

LEMMA MovementsWhole ==
  ASSUME NEW acc, NEW t, NEW next, Typed(acc, t, next)
  PROVE  \A ids \in SUBSET DOMAIN t : Whole(Movements(t), ids)
  BY DEF Typed, GoodRow, Movements, Signed, Whole

LEMMA BalancesWhole ==
  ASSUME NEW acc, NEW t, NEW next, Typed(acc, t, next)
  PROVE  \A numbers \in SUBSET DOMAIN acc : Whole(Balances(acc), numbers)
  BY DEF Typed, Balances, Whole

-------------------------------------------------------------------------------
(* One row entered, with the balance it leaves.                            *)
Entry(acc, acc2, t, t2, id, row) ==
  /\ GoodRow(row, acc)
  /\ row.balance_after = acc[row.account_no].balance + Signed(row)
  /\ acc2 = UpdateBalance(acc, row.account_no, row.balance_after)
  /\ t2 = InsertTransaction(t, id, row)

Entered(acc, acc2, t, t2, id, row) ==
  /\ DOMAIN acc2 = DOMAIN acc
  /\ DOMAIN acc2[row.account_no] = AccountColumns
  /\ acc2[row.account_no].balance = row.balance_after
  /\ \A a \in DOMAIN acc \ {row.account_no} : acc2[a] = acc[a]
  /\ DOMAIN t2 = DOMAIN t \union {id}
  /\ t2[id] = row
  /\ \A i \in DOMAIN t : i < id /\ t2[i] = t[i]
  /\ id \notin DOMAIN t

LEMMA EntryColumns ==
  ASSUME NEW acc, NEW acc2, NEW t, NEW t2, NEW id, NEW row,
         Typed(acc, t, id), Entry(acc, acc2, t, t2, id, row)
  PROVE  Entered(acc, acc2, t, t2, id, row)
  BY DEF Typed, Entry, Entered, GoodRow, UpdateBalance, InsertTransaction, AccountColumns

LEMMA EntryTyped ==
  ASSUME NEW acc, NEW acc2, NEW t, NEW t2, NEW id, NEW row,
         Typed(acc, t, id), Entry(acc, acc2, t, t2, id, row)
  PROVE  Typed(acc2, t2, id + 1)
<1>0. Entered(acc, acc2, t, t2, id, row)
  BY EntryColumns
<1>1. id \in Nat \ {0} /\ DOMAIN t \subseteq 1 .. id - 1
  BY DEF Typed
<1>2. id + 1 \in Nat \ {0} /\ DOMAIN t2 \subseteq 1 .. (id + 1) - 1
  BY <1>0, <1>1 DEF Entered
<1>3. \A a \in DOMAIN acc2 : DOMAIN acc2[a] = AccountColumns /\ acc2[a].balance \in Nat
  <2>1. row.balance_after \in Nat
    BY DEF Entry, GoodRow
  <2> QED
    BY <1>0, <2>1 DEF Entered, Typed
<1>4. \A i \in DOMAIN t2 : GoodRow(t2[i], acc2)
  <2>1. GoodRow(row, acc2)
    BY <1>0 DEF Entered, Entry, GoodRow
  <2>2. \A i \in DOMAIN t : GoodRow(t[i], acc2)
    BY <1>0 DEF Entered, Typed, GoodRow
  <2> QED
    BY <1>0, <2>1, <2>2 DEF Entered
<1> QED
  BY <1>0, <1>2, <1>3, <1>4 DEF Entered, Typed

LEMMA EntryBooks ==
  ASSUME NEW acc, NEW acc2, NEW t, NEW t2, NEW id, NEW row,
         Typed(acc, t, id), Entry(acc, acc2, t, t2, id, row), Books(acc, t)
  PROVE  Books(acc2, t2)
<1>1. /\ DOMAIN acc2 = DOMAIN acc
      /\ acc2[row.account_no].balance = row.balance_after
      /\ \A a \in DOMAIN acc \ {row.account_no} : acc2[a] = acc[a]
      /\ DOMAIN t2 = DOMAIN t \union {id}
      /\ t2[id] = row
      /\ \A i \in DOMAIN t : t2[i] = t[i]
      /\ id \notin DOMAIN t
  <2>1. Entered(acc, acc2, t, t2, id, row)
    BY EntryColumns
  <2> QED
    BY <2>1 DEF Entered
<1>2. Typed(acc2, t2, id + 1)
  BY EntryTyped
<1>3. PICK no : no = row.account_no
  OBVIOUS
<1>4. no \in DOMAIN acc /\ row.balance_after = acc[no].balance + Signed(row)
  BY <1>3 DEF Entry, GoodRow
<1>5. \A ids \in SUBSET DOMAIN t : IsFiniteSet(ids) => Total(Movements(t2), ids) = Total(Movements(t), ids)
  <2> SUFFICES ASSUME NEW ids \in SUBSET DOMAIN t, IsFiniteSet(ids)
               PROVE  Total(Movements(t2), ids) = Total(Movements(t), ids)
    OBVIOUS
  <2>1. \A i \in ids : Movements(t2)[i] = Movements(t)[i]
    BY <1>1 DEF Movements
  <2> QED
    BY <2>1, TotalSame
<1>6. Movements(t2)[id] = Signed(row)
  BY <1>1 DEF Movements
<1>7. ASSUME NEW ids \in SUBSET DOMAIN t, IsFiniteSet(ids)
      PROVE  Total(Movements(t2), ids \union {id}) = Total(Movements(t), ids) + Signed(row)
  <2>1. Whole(Movements(t2), ids \union {id}) /\ id \notin ids
    BY <1>1, <1>2, MovementsWhole
  <2> QED
    BY <1>5, <1>6, <1>7, <2>1, TotalAdd
<1>8. ASSUME NEW a \in DOMAIN acc2
      PROVE  acc2[a].balance = Total(Movements(t2), RowsOf(t2, a))
  <2>1. IsFiniteSet(RowsOf(t, a)) /\ RowsOf(t, a) \in SUBSET DOMAIN t
    BY RowsFinite
  <2>2. acc[a].balance = Total(Movements(t), RowsOf(t, a))
    BY <1>1 DEF Books
  <2>3. CASE a = no
    <3>1. RowsOf(t2, a) = RowsOf(t, a) \union {id}
      BY <1>1, <1>3, <2>3 DEF RowsOf
    <3> QED
      BY <1>1, <1>3, <1>4, <1>7, <2>1, <2>2, <2>3, <3>1
  <2>4. CASE a # no
    <3>1. RowsOf(t2, a) = RowsOf(t, a)
      BY <1>1, <1>3, <2>4 DEF RowsOf
    <3> QED
      BY <1>1, <1>3, <1>5, <2>1, <2>2, <2>4, <3>1
  <2> QED
    BY <2>3, <2>4
<1>9. Total(Balances(acc2), DOMAIN acc2) = Total(Movements(t2), DOMAIN t2)
  <2>1. IsFiniteSet(DOMAIN acc) /\ IsFiniteSet(DOMAIN t) /\ DOMAIN t \in SUBSET DOMAIN t
    BY RowsFinite DEF Typed
  <2>2. Total(Movements(t2), DOMAIN t2) = Total(Movements(t), DOMAIN t) + Signed(row)
    BY <1>1, <1>7, <2>1
  <2>3. PICK others : others = DOMAIN acc \ {no}
    OBVIOUS
  <2>4. Whole(Balances(acc), DOMAIN acc) /\ Whole(Balances(acc2), DOMAIN acc)
    BY <1>1, <1>2, BalancesWhole
  <2>5. /\ Total(Balances(acc), DOMAIN acc) = acc[no].balance + Total(Balances(acc), others)
        /\ Total(Balances(acc2), DOMAIN acc) = acc2[no].balance + Total(Balances(acc2), others)
    <3>1. Balances(acc)[no] = acc[no].balance /\ Balances(acc2)[no] = acc2[no].balance
      BY <1>1, <1>4 DEF Balances
    <3> QED
      BY <1>4, <2>1, <2>3, <2>4, <3>1, TotalWithout
  <2>6. Total(Balances(acc2), others) = Total(Balances(acc), others)
    <3>1. IsFiniteSet(others)
      BY <2>1, <2>3, FS_Subset
    <3>2. \A a \in others : Balances(acc2)[a] = Balances(acc)[a]
      BY <1>1, <1>3, <2>3 DEF Balances
    <3> QED
      BY <3>1, <3>2, TotalSame
  <2>7. Total(Balances(acc), others) \in Int /\ acc[no].balance \in Int /\ Signed(row) \in Int
    <3>1. IsFiniteSet(others) /\ Whole(Balances(acc), others)
      BY <2>1, <2>3, <2>4, FS_Subset DEF Whole
    <3>2. Signed(row) \in Int
      BY DEF Signed, Entry, GoodRow
    <3> QED
      BY <1>4, <3>1, <3>2, TotalInt DEF Typed
  <2>8. Total(Balances(acc), DOMAIN acc) = Total(Movements(t), DOMAIN t)
    BY DEF Books
  <2> QED
    BY <1>1, <1>3, <1>4, <2>2, <2>5, <2>6, <2>7, <2>8
<1> QED
  BY <1>8, <1>9 DEF Books

LEMMA EntryGood ==
  ASSUME NEW acc, NEW acc2, NEW t, NEW t2, NEW id, NEW row,
         Good(acc, t, id), Entry(acc, acc2, t, t2, id, row)
  PROVE  Good(acc2, t2, id + 1)
<1>1. Typed(acc, t, id) /\ Ledger(acc, t) /\ Books(acc, t)
  BY DEF Good
<1>2. Typed(acc2, t2, id + 1) /\ Books(acc2, t2)
  BY <1>1, EntryTyped, EntryBooks
<1>3. /\ id \in Int
      /\ DOMAIN t \subseteq Int
      /\ \A i \in DOMAIN t : i < id
      /\ row.account_no \in DOMAIN acc
      /\ row.balance_after = acc[row.account_no].balance + Signed(row)
      /\ acc[row.account_no].balance \in Int
      /\ Signed(row) \in Int
  BY <1>1 DEF Typed, Entry, GoodRow, Signed
<1>4. /\ DOMAIN acc2 = DOMAIN acc
      /\ acc2[row.account_no].balance = row.balance_after
      /\ \A a \in DOMAIN acc \ {row.account_no} : acc2[a].balance = acc[a].balance
  <2>1. Entered(acc, acc2, t, t2, id, row)
    BY <1>1, EntryColumns
  <2> QED
    BY <2>1 DEF Entered
<1>5. t2 = InsertTransaction(t, id, row)
  BY DEF Entry
<1>6. Ledger(acc2, t2)
  BY <1>1, <1>3, <1>4, <1>5, LedgerAfterEntry
<1> QED
  BY <1>2, <1>6 DEF Good

LEMMA EntryInTime ==
  ASSUME NEW acc, NEW acc2, NEW t, NEW t2, NEW id, NEW row, NEW last,
         Typed(acc, t, id), Entry(acc, acc2, t, t2, id, row),
         row.created_at = last, InTime(t, last)
  PROVE  InTime(t2, last)
<1>1. Entered(acc, acc2, t, t2, id, row)
  BY EntryColumns
<1>2. last \in Int /\ DOMAIN t \subseteq Int /\ id \in Int
  BY DEF Typed, Entry, GoodRow, Stamps
<1> QED
  BY <1>1, <1>2 DEF Entered, InTime

-------------------------------------------------------------------------------
(* Rows that keep the columns a report reads, but for a new number.        *)
Renumbered(t, t2, old, new) ==
  /\ Moved(t, t2, old, new)
  /\ \A i \in DOMAIN t : DOMAIN t2[i] = RowColumns /\ t2[i].created_at = t[i].created_at

LEMMA RelinkedColumns ==
  ASSUME NEW t, NEW old, NEW new, \A i \in DOMAIN t : DOMAIN t[i] = RowColumns
  PROVE  /\ DOMAIN RelinkRows(t, old, new) = DOMAIN t
         /\ \A i \in DOMAIN t :
              LET row == RelinkRows(t, old, new)[i]
              IN  /\ row.account_no = t[i].account_no
                  /\ row.type = t[i].type
                  /\ row.amount = t[i].amount
                  /\ row.balance_after = t[i].balance_after
                  /\ row.created_at = t[i].created_at
                  /\ DOMAIN row = RowColumns
  BY DEF RelinkRows, RowColumns

LEMMA RenumberedColumns ==
  ASSUME NEW t, NEW old, NEW new, \A i \in DOMAIN t : DOMAIN t[i] = RowColumns
  PROVE  Renumbered(t, RelinkRows(MoveRows(t, old, new), old, new), old, new)
<1> DEFINE moved == MoveRows(t, old, new)
<1>1. Renumbered(t, moved, old, new)
  BY DEF MoveRows, RowColumns, Renumbered, Moved
<1> HIDE DEF moved
<1>2. \A i \in DOMAIN moved : DOMAIN moved[i] = RowColumns
  BY <1>1 DEF Renumbered, Moved
<1>3. Renumbered(t, RelinkRows(moved, old, new), old, new)
  BY <1>1, <1>2, RelinkedColumns DEF Renumbered, Moved
<1> QED
  BY <1>3 DEF moved

LEMMA KeptInTime ==
  ASSUME NEW t, NEW t2, NEW last, DOMAIN t2 \subseteq DOMAIN t,
         \A i \in DOMAIN t2 : t2[i].created_at = t[i].created_at,
         InTime(t, last)
  PROVE  InTime(t2, last)
  BY DEF InTime

(* What a deletion leaves of the rows.                                     *)
Cut(t, t2, no) ==
  /\ DOMAIN t2 \subseteq DOMAIN t
  /\ \A i \in DOMAIN t2 : /\ t2[i].account_no = t[i].account_no /\ t[i].account_no # no
                           /\ t2[i].type = t[i].type
                           /\ t2[i].amount = t[i].amount
                           /\ t2[i].balance_after = t[i].balance_after
                           /\ t2[i].created_at = t[i].created_at
                           /\ DOMAIN t2[i] = RowColumns

LEMMA CutColumns ==
  ASSUME NEW t, NEW no, \A i \in DOMAIN t : DOMAIN t[i] = RowColumns
  PROVE  Cut(t, DeleteRowsOf(RelinkRows(t, no, NoAccount), no), no)
<1>1. PICK cut : cut = RelinkRows(t, no, NoAccount)
  OBVIOUS
<1>2. /\ DOMAIN cut = DOMAIN t
      /\ \A i \in DOMAIN t : /\ cut[i].account_no = t[i].account_no
                             /\ cut[i].type = t[i].type
                             /\ cut[i].amount = t[i].amount
                             /\ cut[i].balance_after = t[i].balance_after
                             /\ cut[i].created_at = t[i].created_at
                             /\ DOMAIN cut[i] = RowColumns
  BY <1>1, RelinkedColumns
<1> QED
  BY <1>1, <1>2 DEF Cut, DeleteRowsOf, RowsOf

LEMMA GoodAfterCreate ==
  ASSUME NEW acc, NEW t, NEW next, Good(acc, t, next), NEW no \in Nat, no \notin DOMAIN acc
  PROVE  Good(InsertAccountRow(acc, no, NewAccountRow(<<>>, 0)), t, next)
<1> DEFINE row == NewAccountRow(<<>>, 0)
<1>1. PICK acc2 : acc2 = InsertAccountRow(acc, no, row)
  OBVIOUS
<1>2. row.balance = 0 /\ DOMAIN row = AccountColumns
  BY DEF NewAccountRow, AccountColumns
<1> HIDE DEF row
<1>3. /\ DOMAIN acc2 = DOMAIN acc \union {no}
      /\ acc2[no] = row
      /\ \A a \in DOMAIN acc : acc2[a] = acc[a]
  BY <1>1 DEF InsertAccountRow
<1>4. Typed(acc, t, next) /\ Ledger(acc, t) /\ Books(acc, t)
  BY DEF Good
<1>5. Typed(acc2, t, next)
  <2>1. IsFiniteSet(DOMAIN acc2) /\ DOMAIN acc2 \subseteq Nat
    BY <1>3, <1>4, FS_AddElement DEF Typed
  <2>2. \A a \in DOMAIN acc2 : DOMAIN acc2[a] = AccountColumns /\ acc2[a].balance \in Nat
    BY <1>2, <1>3, <1>4 DEF Typed
  <2>3. \A i \in DOMAIN t : GoodRow(t[i], acc2)
    BY <1>3, <1>4 DEF Typed, GoodRow
  <2> QED
    BY <1>4, <2>1, <2>2, <2>3 DEF Typed
<1>6. RowsOf(t, no) = {}
  BY <1>4 DEF Typed, GoodRow, RowsOf
<1>7. Ledger(acc2, t)
  BY <1>1, <1>2, <1>4, <1>6, LedgerAfterCreate
<1>8. Total(Balances(acc2), DOMAIN acc2) = Total(Movements(t), DOMAIN t)
  <2>1. IsFiniteSet(DOMAIN acc) /\ Balances(acc2)[no] = 0
    BY <1>2, <1>3, <1>4 DEF Typed, Balances
  <2>2. Whole(Balances(acc2), DOMAIN acc \union {no})
    BY <1>3, <1>5, BalancesWhole
  <2>3. Total(Balances(acc2), DOMAIN acc2) = Total(Balances(acc2), DOMAIN acc) + 0
    BY <1>3, <2>1, <2>2, TotalAdd
  <2>4. Total(Balances(acc2), DOMAIN acc) = Total(Balances(acc), DOMAIN acc)
    <3>1. \A a \in DOMAIN acc : Balances(acc2)[a] = Balances(acc)[a]
      BY <1>3 DEF Balances
    <3> QED
      BY <2>1, <3>1, TotalSame
  <2>5. Total(Balances(acc), DOMAIN acc) \in Int
    BY <1>4, <2>1, BalancesWhole, TotalInt
  <2>6. Total(Balances(acc), DOMAIN acc) = Total(Movements(t), DOMAIN t)
    BY <1>4 DEF Books
  <2> QED
    BY <2>3, <2>4, <2>5, <2>6
<1>9. \A a \in DOMAIN acc2 : acc2[a].balance = Total(Movements(t), RowsOf(t, a))
  <2>1. acc2[no].balance = Total(Movements(t), RowsOf(t, no))
    BY <1>2, <1>3, <1>6, TotalEmpty
  <2> QED
    BY <1>3, <1>4, <2>1 DEF Books
<1> QED
  BY <1>1, <1>5, <1>7, <1>8, <1>9 DEF Good, Books, row

LEMMA GoodAfterRenumber ==
  ASSUME NEW acc, NEW t, NEW next, Good(acc, t, next),
         NEW old \in DOMAIN acc, NEW new \in Nat, new \notin DOMAIN acc
  PROVE  Good(InsertAccountRow(DeleteAccountRow(acc, old), new, acc[old]),
              RelinkRows(MoveRows(t, old, new), old, new), next)
<1>1. PICK acc2 : acc2 = InsertAccountRow(DeleteAccountRow(acc, old), new, acc[old])
  OBVIOUS
<1>2. PICK t2 : t2 = RelinkRows(MoveRows(t, old, new), old, new)
  OBVIOUS
<1>3. PICK others : others = DOMAIN acc \ {old}
  OBVIOUS
<1>4. /\ DOMAIN acc2 = others \union {new}
      /\ acc2[new] = acc[old]
      /\ \A a \in others : acc2[a] = acc[a]
      /\ old # new /\ new \notin others /\ old \notin others
  BY <1>1, <1>3 DEF InsertAccountRow, DeleteAccountRow
<1>5. Typed(acc, t, next) /\ Ledger(acc, t) /\ Books(acc, t)
  BY DEF Good
<1>6. Renumbered(t, t2, old, new)
  <2>1. \A i \in DOMAIN t : DOMAIN t[i] = RowColumns
    BY <1>5 DEF Typed, GoodRow
  <2> QED
    BY <1>2, <2>1, RenumberedColumns
<1>7. DOMAIN t2 = DOMAIN t /\ \A i \in DOMAIN t : Signed(t2[i]) = Signed(t[i])
  BY <1>6 DEF Renumbered, Moved, Signed
<1>8. RowsOf(t, new) = {}
  BY <1>5 DEF Typed, GoodRow, RowsOf
<1>9. RowsOf(t2, new) = RowsOf(t, old) /\ \A a \in others : RowsOf(t2, a) = RowsOf(t, a)
  BY <1>4, <1>6, <1>8 DEF Renumbered, Moved, RowsOf
<1>10. Typed(acc2, t2, next)
  <2>1. IsFiniteSet(others)
    BY <1>3, <1>5, FS_Subset DEF Typed
  <2>2. IsFiniteSet(DOMAIN acc2) /\ DOMAIN acc2 \subseteq Nat
    BY <1>3, <1>4, <1>5, <2>1, FS_AddElement DEF Typed
  <2>3. \A a \in DOMAIN acc2 : DOMAIN acc2[a] = AccountColumns /\ acc2[a].balance \in Nat
    BY <1>3, <1>4, <1>5 DEF Typed
  <2>4. \A i \in DOMAIN t2 : GoodRow(t2[i], acc2)
    BY <1>3, <1>4, <1>5, <1>6 DEF Typed, GoodRow, Renumbered, Moved
  <2> QED
    BY <1>5, <1>7, <2>2, <2>3, <2>4 DEF Typed
<1>11. Ledger(acc2, t2)
  <2>1. /\ DOMAIN acc2 = (DOMAIN acc \union {new}) \ {old}
        /\ acc2[new].balance = acc[old].balance
        /\ \A a \in DOMAIN acc \ {old, new} : acc2[a].balance = acc[a].balance
    BY <1>3, <1>4
  <2>2. Moved(t, t2, old, new)
    BY <1>6 DEF Renumbered
  <2> QED
    BY <1>4, <1>5, <1>8, <2>1, <2>2, LedgerAfterMoving
<1>12. \A ids \in SUBSET DOMAIN t : Total(Movements(t2), ids) = Total(Movements(t), ids)
  <2> SUFFICES ASSUME NEW ids \in SUBSET DOMAIN t
               PROVE  Total(Movements(t2), ids) = Total(Movements(t), ids)
    OBVIOUS
  <2>1. \A i \in ids : Movements(t2)[i] = Movements(t)[i]
    BY <1>7 DEF Movements
  <2>2. IsFiniteSet(ids)
    BY <1>5, RowsFinite, FS_Subset
  <2> QED
    BY <2>1, <2>2, TotalSame
<1>13. \A a \in DOMAIN acc2 : acc2[a].balance = Total(Movements(t2), RowsOf(t2, a))
  <2>1. \A a : RowsOf(t, a) \in SUBSET DOMAIN t
    BY DEF RowsOf
  <2>2. \A a \in DOMAIN acc : acc[a].balance = Total(Movements(t2), RowsOf(t, a))
    BY <1>5, <1>12, <2>1 DEF Books
  <2> QED
    BY <1>3, <1>4, <1>9, <2>2
<1>14. Total(Balances(acc2), DOMAIN acc2) = Total(Movements(t2), DOMAIN t2)
  <2>1. IsFiniteSet(DOMAIN acc) /\ IsFiniteSet(others)
    BY <1>3, <1>5, FS_Subset DEF Typed
  <2>2. Whole(Balances(acc), DOMAIN acc) /\ Whole(Balances(acc2), others \union {new})
    BY <1>4, <1>5, <1>10, BalancesWhole
  <2>3. Balances(acc)[old] = acc[old].balance /\ Balances(acc2)[new] = acc[old].balance
    BY <1>4 DEF Balances
  <2>4. Total(Balances(acc), DOMAIN acc) = acc[old].balance + Total(Balances(acc), others)
    BY <1>3, <2>1, <2>2, <2>3, TotalWithout
  <2>5. Total(Balances(acc2), DOMAIN acc2) = Total(Balances(acc2), others) + acc[old].balance
    BY <1>4, <2>1, <2>2, <2>3, TotalAdd
  <2>6. Total(Balances(acc2), others) = Total(Balances(acc), others)
    <3>1. \A a \in others : Balances(acc2)[a] = Balances(acc)[a]
      BY <1>3, <1>4 DEF Balances
    <3> QED
      BY <2>1, <3>1, TotalSame
  <2>7. Total(Balances(acc), others) \in Int /\ acc[old].balance \in Int
    <3>1. Whole(Balances(acc), others)
      BY <1>3, <2>2 DEF Whole
    <3> QED
      BY <1>5, <2>1, <3>1, TotalInt DEF Typed
  <2>8. Total(Balances(acc), DOMAIN acc) = Total(Movements(t2), DOMAIN t2)
    BY <1>5, <1>7, <1>12 DEF Books
  <2> QED
    BY <2>4, <2>5, <2>6, <2>7, <2>8
<1> QED
  BY <1>1, <1>2, <1>10, <1>11, <1>13, <1>14 DEF Good, Books

(* An account that is deleted is empty, and so are its rows taken together.*)
LEMMA GoodAfterDelete ==
  ASSUME NEW acc, NEW t, NEW next, Good(acc, t, next),
         NEW no \in DOMAIN acc, acc[no].balance = 0
  PROVE  Good(DeleteAccountRow(acc, no), DeleteRowsOf(RelinkRows(t, no, NoAccount), no), next)
<1>1. PICK acc2 : acc2 = DeleteAccountRow(acc, no)
  OBVIOUS
<1>2. PICK cut : cut = RelinkRows(t, no, NoAccount)
  OBVIOUS
<1>3. PICK t2 : t2 = DeleteRowsOf(cut, no)
  OBVIOUS
<1>4. DOMAIN acc2 = DOMAIN acc \ {no} /\ \A a \in DOMAIN acc2 : acc2[a] = acc[a]
  BY <1>1 DEF DeleteAccountRow
<1>5. Typed(acc, t, next) /\ Ledger(acc, t) /\ Books(acc, t)
  BY DEF Good
<1>6. /\ DOMAIN cut = DOMAIN t
      /\ \A i \in DOMAIN t : /\ cut[i].account_no = t[i].account_no
                             /\ cut[i].type = t[i].type
                             /\ cut[i].amount = t[i].amount
                             /\ cut[i].balance_after = t[i].balance_after
                             /\ cut[i].created_at = t[i].created_at
                             /\ DOMAIN cut[i] = RowColumns
  <2>1. \A i \in DOMAIN t : DOMAIN t[i] = RowColumns
    BY <1>5 DEF Typed, GoodRow
  <2> QED
    BY <1>2, <2>1, RelinkedColumns
<1>7. \A a : RowsOf(cut, a) = RowsOf(t, a)
  BY <1>6 DEF RowsOf
<1>8. /\ DOMAIN t2 = DOMAIN t \ RowsOf(t, no)
      /\ \A i \in DOMAIN t2 : t2[i] = cut[i]
  BY <1>3, <1>6, <1>7 DEF DeleteRowsOf
<1>9. \A i \in DOMAIN t2 : t2[i].account_no = t[i].account_no /\ t[i].account_no # no
  BY <1>6, <1>8 DEF RowsOf
<1>10. \A a \in DOMAIN acc2 : RowsOf(t2, a) = RowsOf(t, a)
  BY <1>4, <1>8, <1>9 DEF RowsOf
<1>11. Typed(acc2, t2, next)
  <2>1. IsFiniteSet(DOMAIN acc2) /\ DOMAIN acc2 \subseteq Nat
    BY <1>4, <1>5, FS_Subset DEF Typed
  <2>2. \A i \in DOMAIN t2 : GoodRow(t2[i], acc2)
    BY <1>4, <1>5, <1>6, <1>8, <1>9 DEF Typed, GoodRow
  <2> QED
    BY <1>4, <1>5, <1>8, <2>1, <2>2 DEF Typed
<1>12. Ledger(acc2, t2)
  <2>1. Ledger(acc, cut)
    BY <1>5, <1>6, LedgerSameColumns
  <2> QED
    BY <1>1, <1>3, <2>1, LedgerAfterDelete
<1>13. \A ids \in SUBSET DOMAIN t2 : Total(Movements(t2), ids) = Total(Movements(t), ids)
  <2> SUFFICES ASSUME NEW ids \in SUBSET DOMAIN t2
               PROVE  Total(Movements(t2), ids) = Total(Movements(t), ids)
    OBVIOUS
  <2>1. \A i \in ids : Movements(t2)[i] = Movements(t)[i]
    BY <1>6, <1>8 DEF Movements, Signed
  <2>2. IsFiniteSet(ids)
    BY <1>11, RowsFinite, FS_Subset
  <2> QED
    BY <2>1, <2>2, TotalSame
<1>14. \A a \in DOMAIN acc2 : acc2[a].balance = Total(Movements(t2), RowsOf(t2, a))
  <2>1. \A a : RowsOf(t2, a) \in SUBSET DOMAIN t2
    BY DEF RowsOf
  <2>2. \A a \in DOMAIN acc : acc[a].balance = Total(Movements(t), RowsOf(t, a))
    BY <1>5 DEF Books
  <2> QED
    BY <1>4, <1>10, <1>13, <2>1, <2>2
<1>15. Total(Balances(acc2), DOMAIN acc2) = Total(Movements(t2), DOMAIN t2)
  <2>1. IsFiniteSet(DOMAIN acc) /\ IsFiniteSet(DOMAIN acc2)
    BY <1>5, <1>11 DEF Typed
  <2>2. Total(Balances(acc), DOMAIN acc) = 0 + Total(Balances(acc), DOMAIN acc2)
    <3>1. Whole(Balances(acc), DOMAIN acc) /\ Balances(acc)[no] = 0
      BY <1>5, BalancesWhole DEF Balances
    <3> QED
      BY <1>4, <2>1, <3>1, TotalWithout
  <2>3. Total(Balances(acc2), DOMAIN acc2) = Total(Balances(acc), DOMAIN acc2)
    <3>1. \A a \in DOMAIN acc2 : Balances(acc2)[a] = Balances(acc)[a]
      BY <1>4 DEF Balances
    <3> QED
      BY <2>1, <3>1, TotalSame
  <2>4. Total(Movements(t), DOMAIN t) = Total(Movements(t), RowsOf(t, no)) + Total(Movements(t), DOMAIN t2)
    <3>1. IsFiniteSet(DOMAIN t) /\ Whole(Movements(t), DOMAIN t) /\ RowsOf(t, no) \subseteq DOMAIN t
      BY <1>5, RowsFinite, MovementsWhole
    <3> QED
      BY <1>8, <3>1, TotalSplit
  <2>5. Total(Movements(t), RowsOf(t, no)) = 0
    BY <1>5 DEF Books
  <2>6. Total(Movements(t2), DOMAIN t2) = Total(Movements(t), DOMAIN t2)
    BY <1>13
  <2>7. Total(Balances(acc2), DOMAIN acc2) \in Int /\ Total(Movements(t2), DOMAIN t2) \in Int
    BY <1>11, <2>1, RowsFinite, MovementsWhole, BalancesWhole, TotalInt
  <2>8. Total(Balances(acc), DOMAIN acc) = Total(Movements(t), DOMAIN t)
    BY <1>5 DEF Books
  <2> QED
    BY <2>2, <2>3, <2>4, <2>5, <2>6, <2>7, <2>8
<1> QED
  BY <1>1, <1>2, <1>3, <1>11, <1>12, <1>14, <1>15 DEF Good, Books

-------------------------------------------------------------------------------
(* Beside the rows of the handlers, which make a good ledger, the table    *)
(* holds imported ones.                                                    *)
NativeTable(t) == [i \in {j \in DOMAIN t : t[j].balance_after # Null} |-> t[i]]

HeldRow(row, acc) ==
  /\ DOMAIN row = RowColumns
  /\ row.account_no \in DOMAIN acc
  /\ row.type \in TransactionTypes \union {"LEGACY"}
  /\ row.amount \in Int
  /\ row.balance_after \in Nat \union {Null}
  /\ row.balance_after = Null => row.type \notin {"ADMIN_CREDIT", "ADMIN_DEBIT"}
  /\ row.created_at \in Int /\ Month(row.created_at) \in Int

Held(acc, t, next) ==
  /\ next \in Nat \ {0} /\ DOMAIN t \subseteq 1 .. next - 1
  /\ \A i \in DOMAIN t : HeldRow(t[i], acc)

Kept(acc, t, next) == Good(acc, NativeTable(t), next) /\ Held(acc, t, next)

LEMMA NativeColumns ==
  ASSUME NEW t
  PROVE  /\ DOMAIN NativeTable(t) \subseteq DOMAIN t
         /\ \A i \in DOMAIN t : i \in DOMAIN NativeTable(t) <=> t[i].balance_after # Null
         /\ \A i \in DOMAIN NativeTable(t) : NativeTable(t)[i] = t[i]
  BY DEF NativeTable

LEMMA RowsHeld ==
  ASSUME NEW acc, NEW t, NEW next, Held(acc, t, next)
  PROVE  IsFiniteSet(DOMAIN t) /\ \A a : IsFiniteSet(RowsOf(t, a)) /\ RowsOf(t, a) \subseteq DOMAIN t
<1>1. IsFiniteSet(1 .. next - 1)
  BY FS_Interval DEF Held
<1>2. IsFiniteSet(DOMAIN t)
  BY <1>1, FS_Subset DEF Held
<1>3. \A a : RowsOf(t, a) \subseteq DOMAIN t
  BY DEF RowsOf
<1> QED
  BY <1>2, <1>3, FS_Subset

LEMMA HeldWhole ==
  ASSUME NEW acc, NEW t, NEW next, Held(acc, t, next)
  PROVE  \A ids \in SUBSET DOMAIN t : Whole(Movements(t), ids)
  BY DEF Held, HeldRow, Movements, Signed, Whole

LEMMA GoodIsHeld ==
  ASSUME NEW acc, NEW row, GoodRow(row, acc)
  PROVE  HeldRow(row, acc) /\ row.balance_after # Null
<1>1. row.created_at \in Int /\ Month(row.created_at) \in Int
  BY TimesAssumption DEF GoodRow, Stamps
<1>2. row.balance_after \in Nat /\ row.balance_after # Null
  BY DEF GoodRow, Null
<1> QED
  BY <1>1, <1>2 DEF GoodRow, HeldRow

LEMMA HeldAfterInsert ==
  ASSUME NEW acc, NEW acc2, NEW t, NEW id, NEW row, Held(acc, t, id), HeldRow(row, acc),
         DOMAIN acc2 = DOMAIN acc
  PROVE  Held(acc2, InsertTransaction(t, id, row), id + 1)
<1>1. PICK t2 : t2 = InsertTransaction(t, id, row)
  OBVIOUS
<1>2. DOMAIN t2 = DOMAIN t \union {id} /\ t2[id] = row /\ \A i \in DOMAIN t : i # id => t2[i] = t[i]
  BY <1>1 DEF InsertTransaction
<1>3. id \notin DOMAIN t /\ id + 1 \in Nat \ {0} /\ DOMAIN t2 \subseteq 1 .. (id + 1) - 1
  BY <1>2 DEF Held
<1>4. \A i \in DOMAIN t2 : HeldRow(t2[i], acc2)
  <2>1. HeldRow(row, acc2)
    BY DEF HeldRow
  <2>2. \A i \in DOMAIN t : HeldRow(t[i], acc2)
    BY DEF Held, HeldRow
  <2> QED
    BY <1>2, <1>3, <2>1, <2>2
<1> QED
  BY <1>1, <1>3, <1>4 DEF Held

LEMMA NativeAfterInsert ==
  ASSUME NEW t, NEW id, NEW row, id \notin DOMAIN t
  PROVE  /\ row.balance_after # Null =>
              NativeTable(InsertTransaction(t, id, row))
                = InsertTransaction(NativeTable(t), id, row)
         /\ row.balance_after = Null =>
              NativeTable(InsertTransaction(t, id, row)) = NativeTable(t)
<1>1. PICK t2 : t2 = InsertTransaction(t, id, row)
  OBVIOUS
<1>2. DOMAIN t2 = DOMAIN t \union {id} /\ t2[id] = row /\ \A i \in DOMAIN t : t2[i] = t[i]
  BY <1>1 DEF InsertTransaction
<1>3. PICK native : native = {j \in DOMAIN t : t[j].balance_after # Null}
  OBVIOUS
<1>4. CASE row.balance_after # Null
  <2>1. {j \in DOMAIN t2 : t2[j].balance_after # Null} = native \union {id}
    BY <1>2, <1>3, <1>4
  <2>2. NativeTable(t2) = [i \in native \union {id} |-> t2[i]]
    BY <2>1 DEF NativeTable
  <2>3. NativeTable(t) = [i \in native |-> t[i]]
    BY <1>3 DEF NativeTable
  <2>4. InsertTransaction(NativeTable(t), id, row)
          = [i \in native \union {id} |-> IF i = id THEN row ELSE t[i]]
    BY <2>3 DEF InsertTransaction
  <2>5. \A i \in native \union {id} : t2[i] = IF i = id THEN row ELSE t[i]
    BY <1>2, <1>3
  <2> QED
    BY <1>1, <1>4, <2>2, <2>4, <2>5
<1>5. CASE row.balance_after = Null
  <2>1. {j \in DOMAIN t2 : t2[j].balance_after # Null} = native
    BY <1>2, <1>3, <1>5
  <2>2. NativeTable(t2) = [i \in native |-> t2[i]]
    BY <2>1 DEF NativeTable
  <2>3. NativeTable(t) = [i \in native |-> t[i]]
    BY <1>3 DEF NativeTable
  <2> QED
    BY <1>1, <1>2, <1>3, <1>5, <2>2, <2>3
<1> QED
  BY <1>4, <1>5

LEMMA KeptAfterEntry ==
  ASSUME NEW acc, NEW acc2, NEW t, NEW t2, NEW id, NEW row,
         Kept(acc, t, id), Entry(acc, acc2, t, t2, id, row)
  PROVE  /\ Entry(acc, acc2, NativeTable(t), NativeTable(t2), id, row)
         /\ Kept(acc2, t2, id + 1)
<1>1. Good(acc, NativeTable(t), id) /\ Held(acc, t, id) /\ id \notin DOMAIN t
  BY DEF Kept, Held
<1>2. GoodRow(row, acc) /\ HeldRow(row, acc) /\ row.balance_after # Null
  BY GoodIsHeld DEF Entry
<1>3. Entry(acc, acc2, NativeTable(t), NativeTable(t2), id, row)
  BY <1>1, <1>2, NativeAfterInsert DEF Entry
<1>4. Good(acc2, NativeTable(t2), id + 1)
  BY <1>1, <1>3, EntryGood
<1>5. DOMAIN acc2 = DOMAIN acc /\ t2 = InsertTransaction(t, id, row)
  BY DEF Entry, UpdateBalance
<1>6. Held(acc2, t2, id + 1)
  BY <1>1, <1>2, <1>5, HeldAfterInsert
<1> QED
  BY <1>3, <1>4, <1>6 DEF Kept

LEMMA NativeAfterRenumber ==
  ASSUME NEW t, NEW old, NEW new, \A i \in DOMAIN t : DOMAIN t[i] = RowColumns
  PROVE  NativeTable(RelinkRows(MoveRows(t, old, new), old, new))
           = RelinkRows(MoveRows(NativeTable(t), old, new), old, new)
<1>1. PICK moved, moved2 : moved = MoveRows(t, old, new) /\ moved2 = MoveRows(NativeTable(t), old, new)
  OBVIOUS
<1>2. PICK t2 : t2 = RelinkRows(moved, old, new)
  OBVIOUS
<1>3. PICK native : native = {j \in DOMAIN t : t[j].balance_after # Null}
  OBVIOUS
<1>4. DOMAIN t2 = DOMAIN t /\ \A i \in DOMAIN t : t2[i].balance_after = t[i].balance_after
  BY <1>1, <1>2, RenumberedColumns DEF Renumbered, Moved
<1>5. NativeTable(t2) = [i \in native |-> t2[i]]
  BY <1>3, <1>4 DEF NativeTable
<1>6. moved2 = [i \in native |-> moved[i]]
  BY <1>1, <1>3 DEF NativeTable, MoveRows
<1>7. native \subseteq DOMAIN moved
  BY <1>1, <1>3 DEF MoveRows
<1>8. RelinkRows(moved2, old, new) = [i \in native |-> t2[i]]
  BY <1>2, <1>6, <1>7 DEF RelinkRows
<1> QED
  BY <1>1, <1>2, <1>5, <1>8

LEMMA NativeAfterDelete ==
  ASSUME NEW t, NEW no, \A i \in DOMAIN t : DOMAIN t[i] = RowColumns
  PROVE  NativeTable(DeleteRowsOf(RelinkRows(t, no, NoAccount), no))
           = DeleteRowsOf(RelinkRows(NativeTable(t), no, NoAccount), no)
<1>1. PICK cut, cut2 : cut = RelinkRows(t, no, NoAccount) /\ cut2 = RelinkRows(NativeTable(t), no, NoAccount)
  OBVIOUS
<1>2. PICK native : native = {j \in DOMAIN t : t[j].balance_after # Null}
  OBVIOUS
<1>3. /\ DOMAIN cut = DOMAIN t
      /\ \A i \in DOMAIN t : cut[i].balance_after = t[i].balance_after
  BY <1>1, RelinkedColumns
<1>4. cut2 = [i \in native |-> cut[i]]
  BY <1>1, <1>2 DEF NativeTable, RelinkRows
<1>5. PICK left : left = {i \in native : cut[i].account_no # no}
  OBVIOUS
<1>6. DeleteRowsOf(cut2, no) = [i \in left |-> cut[i]]
  <2>1. DOMAIN cut2 \ RowsOf(cut2, no) = left
    BY <1>4, <1>5 DEF RowsOf
  <2> QED
    BY <1>4, <1>5, <2>1 DEF DeleteRowsOf
<1>7. PICK t2 : t2 = DeleteRowsOf(cut, no)
  OBVIOUS
<1>8. /\ DOMAIN t2 = {i \in DOMAIN t : cut[i].account_no # no}
      /\ \A i \in DOMAIN t2 : t2[i] = cut[i]
  BY <1>3, <1>7 DEF DeleteRowsOf, RowsOf
<1>9. {j \in DOMAIN t2 : t2[j].balance_after # Null} = left
  BY <1>2, <1>3, <1>5, <1>8
<1>10. NativeTable(t2) = [i \in left |-> t2[i]]
  BY <1>9 DEF NativeTable
<1>11. \A i \in left : t2[i] = cut[i]
  BY <1>2, <1>5, <1>8
<1> QED
  BY <1>1, <1>6, <1>7, <1>10, <1>11

-------------------------------------------------------------------------------
(* The invariant.  What a report has read is still so, unless a handler    *)
(* came in between.                                                        *)
AccountReports == {"MINI_STATEMENT", "MONTHLY_SUMMARY", "VIEW_ACCOUNT_DETAILS"}

AccountRead(report, acc) ==
  /\ DOMAIN report = {"op", "no", "balance", "interrupted"}
  /\ report.op \in AccountReports
  /\ report.interrupted \in BOOLEAN
  /\ ~report.interrupted => /\ report.no \in DOMAIN acc
                            /\ report.balance = acc[report.no].balance

Counted(report, acc) ==
  /\ DOMAIN report =
       {"op", "total_accounts", "total_balance", "total_transactions", "interrupted"}
  /\ report.op = "ADMIN_DASHBOARD"
  /\ report.interrupted \in BOOLEAN
  /\ ~report.interrupted => /\ report.total_accounts = Cardinality(DOMAIN acc)
                            /\ report.total_balance = Total(Balances(acc), DOMAIN acc)

Reading(report, acc) == report = NoReport \/ AccountRead(report, acc) \/ Counted(report, acc)

IInv ==
  /\ Kept(accounts, transactions, nextId)
  /\ now \in Stamps /\ setBack \in Nat
  /\ SteadyClock => InTime(NativeTable(transactions), now)
  /\ Reading(reading, accounts)

(* A handler keeps the tables good and in time, whatever the clock did.    *)
Keeps ==
  /\ Kept(accounts', transactions', nextId')
  /\ InTime(NativeTable(transactions), now) => InTime(NativeTable(transactions'), now)

LEMMA Columns ==
  ASSUME IInv
  PROVE  \A i \in DOMAIN transactions : DOMAIN transactions[i] = RowColumns
  BY DEF IInv, Kept, Held, HeldRow

LEMMA CreateKeeps ==
  ASSUME IInv, NEW no \in Numbers, CreateAccount(no)
  PROVE  Keeps
<1>1. no \in Nat /\ no \notin DOMAIN accounts
  BY NumbersPositive DEF CreateAccount
<1>2. /\ accounts' = InsertAccountRow(accounts, no, NewAccountRow(<<>>, 0))
      /\ transactions' = transactions /\ nextId' = nextId
  BY DEF CreateAccount
<1>3. Good(accounts', NativeTable(transactions'), nextId')
  BY <1>1, <1>2, GoodAfterCreate DEF IInv, Kept
<1>4. Held(accounts', transactions', nextId')
  BY <1>2 DEF IInv, Kept, Held, HeldRow, InsertAccountRow
<1> QED
  BY <1>2, <1>3, <1>4 DEF Keeps, Kept

LEMMA DeleteKeeps ==
  ASSUME IInv, NEW no, DeleteAccount(no)
  PROVE  Keeps
<1>1. no \in DOMAIN accounts /\ accounts[no].balance = 0
  BY DEF DeleteAccount
<1>2. /\ accounts' = DeleteAccountRow(accounts, no)
      /\ transactions' = DeleteRowsOf(RelinkRows(transactions, no, NoAccount), no)
      /\ nextId' = nextId
  BY DEF DeleteAccount
<1>3. PICK native : native = NativeTable(transactions)
  OBVIOUS
<1>4. NativeTable(transactions') = DeleteRowsOf(RelinkRows(native, no, NoAccount), no)
  BY <1>2, <1>3, Columns, NativeAfterDelete
<1>5. Good(accounts, native, nextId) /\ Held(accounts, transactions, nextId)
  BY <1>3 DEF IInv, Kept
<1>6. Good(accounts', NativeTable(transactions'), nextId')
  BY <1>1, <1>2, <1>4, <1>5, GoodAfterDelete
<1>7. Cut(transactions, transactions', no)
  BY <1>2, Columns, CutColumns
<1>8. Held(accounts', transactions', nextId')
  BY <1>2, <1>5, <1>7 DEF Held, HeldRow, Cut, DeleteAccountRow
<1>9. Cut(native, NativeTable(transactions'), no)
  <2>1. \A i \in DOMAIN native : DOMAIN native[i] = RowColumns
    BY <1>3, Columns, NativeColumns
  <2> QED
    BY <1>4, <2>1, CutColumns
<1>10. InTime(native, now) => InTime(NativeTable(transactions'), now)
  BY <1>9, KeptInTime DEF Cut
<1> QED
  BY <1>3, <1>6, <1>8, <1>10 DEF Keeps, Kept

LEMMA RenumberKeeps ==
  ASSUME IInv, NEW old, NEW new \in Numbers, Renumber(old, new)
  PROVE  Keeps
<1>1. old \in DOMAIN accounts /\ new \notin DOMAIN accounts /\ new \in Nat
  BY NumbersPositive DEF Renumber
<1>2. /\ accounts' = InsertAccountRow(DeleteAccountRow(accounts, old), new, accounts[old])
      /\ transactions' = RelinkRows(MoveRows(transactions, old, new), old, new)
      /\ nextId' = nextId
  BY DEF Renumber
<1>3. PICK native : native = NativeTable(transactions)
  OBVIOUS
<1>4. NativeTable(transactions') = RelinkRows(MoveRows(native, old, new), old, new)
  BY <1>2, <1>3, Columns, NativeAfterRenumber
<1>5. Good(accounts, native, nextId) /\ Held(accounts, transactions, nextId)
  BY <1>3 DEF IInv, Kept
<1>6. Good(accounts', NativeTable(transactions'), nextId')
  BY <1>1, <1>2, <1>4, <1>5, GoodAfterRenumber
<1>7. Renumbered(transactions, transactions', old, new)
  BY <1>2, Columns, RenumberedColumns
<1>8. DOMAIN accounts' = (DOMAIN accounts \ {old}) \union {new}
  BY <1>2 DEF InsertAccountRow, DeleteAccountRow
<1>9. Held(accounts', transactions', nextId')
  BY <1>2, <1>5, <1>7, <1>8 DEF Held, HeldRow, Renumbered, Moved
<1>10. Renumbered(native, NativeTable(transactions'), old, new)
  <2>1. \A i \in DOMAIN native : DOMAIN native[i] = RowColumns
    BY <1>3, Columns, NativeColumns
  <2> QED
    BY <1>4, <2>1, RenumberedColumns
<1>11. InTime(native, now) => InTime(NativeTable(transactions'), now)
  BY <1>10, KeptInTime DEF Renumbered, Moved
<1> QED
  BY <1>3, <1>6, <1>9, <1>11 DEF Keeps, Kept

LEMMA EnterKeeps ==
  ASSUME IInv, NEW no, NEW amount \in Amounts, NEW type \in TransactionTypes,
         Enter(no, amount, type)
  PROVE  Keeps
<1>1. /\ Kept(accounts, transactions, nextId) /\ now \in Stamps
      /\ Typed(accounts, NativeTable(transactions), nextId)
  BY DEF IInv, Kept, Good
<1>2. no \in DOMAIN accounts /\ accounts[no].balance \in Nat /\ amount \in Nat
  BY <1>1, AmountsPositive DEF Enter, Typed
<1>3. type \in CreditTypes \/ amount <= accounts[no].balance
  BY DEF Enter, Covered
<1>4. PICK updated_balance :
        updated_balance = IF type \in CreditTypes THEN accounts[no].balance + amount
                                                  ELSE accounts[no].balance - amount
  OBVIOUS
<1>5. updated_balance \in Nat
  BY <1>2, <1>3, <1>4
<1>6. PICK row : row = StampedRow(TransactionRow(no, NoAccount, type, amount, updated_balance), now)
  OBVIOUS
<1>7. /\ row.account_no = no /\ row.type = type /\ row.amount = amount
      /\ row.balance_after = updated_balance /\ row.created_at = now
      /\ DOMAIN row = RowColumns
  BY <1>6 DEF StampedRow, TransactionRow, RowColumns
<1>8. Entry(accounts, accounts', transactions, transactions', nextId, row)
  <2>1. GoodRow(row, accounts)
    BY <1>1, <1>2, <1>5, <1>7 DEF GoodRow
  <2>2. row.balance_after = accounts[row.account_no].balance + Signed(row)
    BY <1>2, <1>4, <1>7 DEF Signed
  <2>3. /\ accounts' = UpdateBalance(accounts, no, updated_balance)
        /\ transactions' = InsertTransaction(transactions, nextId, row)
    BY <1>4, <1>6 DEF Enter
  <2> QED
    BY <1>7, <2>1, <2>2, <2>3 DEF Entry
<1>9. nextId' = nextId + 1
  BY DEF Enter
<1>10. /\ Entry(accounts, accounts', NativeTable(transactions), NativeTable(transactions'),
                nextId, row)
       /\ Kept(accounts', transactions', nextId')
  BY <1>1, <1>8, <1>9, KeptAfterEntry
<1>11. InTime(NativeTable(transactions), now) => InTime(NativeTable(transactions'), now)
  BY <1>1, <1>7, <1>10, EntryInTime
<1> QED
  BY <1>10, <1>11 DEF Keeps

LEMMA TransferKeeps ==
  ASSUME IInv, NEW from, NEW to, NEW amount \in Amounts, Transfer(from, to, amount)
  PROVE  Keeps
<1>1. /\ Kept(accounts, transactions, nextId) /\ now \in Stamps
      /\ Typed(accounts, NativeTable(transactions), nextId)
  BY DEF IInv, Kept, Good
<1>2. /\ from \in DOMAIN accounts /\ to \in DOMAIN accounts /\ from # to
      /\ accounts[from].balance \in Nat /\ accounts[to].balance \in Nat
      /\ amount \in Nat /\ amount <= accounts[from].balance
  BY <1>1, AmountsPositive DEF Transfer, Typed
<1>3. PICK sender_balance, receiver_balance :
        /\ sender_balance = accounts[from].balance - amount
        /\ receiver_balance = accounts[to].balance + amount
  OBVIOUS
<1>4. sender_balance \in Nat /\ receiver_balance \in Nat
  BY <1>2, <1>3
<1>5. PICK sent, received :
        /\ sent = StampedRow(TransactionRow(from, to, "TRANSFER_SENT", amount, sender_balance), now)
        /\ received = StampedRow(TransactionRow(to, from, "TRANSFER_RECEIVED", amount,
                                                receiver_balance), now)
  OBVIOUS
<1>6. /\ sent.account_no = from /\ sent.type = "TRANSFER_SENT" /\ sent.amount = amount
      /\ sent.balance_after = sender_balance /\ sent.created_at = now
      /\ DOMAIN sent = RowColumns
  BY <1>5 DEF StampedRow, TransactionRow, RowColumns
<1>7. /\ received.account_no = to /\ received.type = "TRANSFER_RECEIVED"
      /\ received.amount = amount
      /\ received.balance_after = receiver_balance /\ received.created_at = now
      /\ DOMAIN received = RowColumns
  BY <1>5 DEF StampedRow, TransactionRow, RowColumns
<1>8. PICK mid, half :
        /\ mid = UpdateBalance(accounts, from, sender_balance)
        /\ half = InsertTransaction(transactions, nextId, sent)
  OBVIOUS
<1>9. /\ accounts' = UpdateBalance(mid, to, receiver_balance)
      /\ transactions' = InsertTransaction(half, nextId + 1, received)
      /\ nextId' = nextId + 2
  BY <1>3, <1>5, <1>8 DEF Transfer
<1>10. Entry(accounts, mid, transactions, half, nextId, sent)
  <2>1. GoodRow(sent, accounts)
    BY <1>1, <1>2, <1>4, <1>6 DEF GoodRow, TransactionTypes, CreditTypes, DebitTypes
  <2>2. sent.balance_after = accounts[sent.account_no].balance + Signed(sent)
    BY <1>2, <1>3, <1>6 DEF Signed, CreditTypes
  <2> QED
    BY <1>6, <1>8, <2>1, <2>2 DEF Entry
<1>11. /\ Entry(accounts, mid, NativeTable(transactions), NativeTable(half), nextId, sent)
       /\ Kept(mid, half, nextId + 1)
  BY <1>1, <1>10, KeptAfterEntry
<1>12. DOMAIN mid = DOMAIN accounts /\ mid[to] = accounts[to]
  BY <1>2, <1>8 DEF UpdateBalance
<1>13. Entry(mid, accounts', half, transactions', nextId + 1, received)
  <2>1. GoodRow(received, mid)
    BY <1>1, <1>2, <1>4, <1>7, <1>12 DEF GoodRow, TransactionTypes, CreditTypes, DebitTypes
  <2>2. received.balance_after = mid[received.account_no].balance + Signed(received)
    BY <1>2, <1>3, <1>7, <1>12 DEF Signed, CreditTypes
  <2> QED
    BY <1>7, <1>9, <2>1, <2>2 DEF Entry
<1>14. nextId' = (nextId + 1) + 1
  BY <1>1, <1>9 DEF Typed
<1>15. /\ Entry(mid, accounts', NativeTable(half), NativeTable(transactions'),
                nextId + 1, received)
       /\ Kept(accounts', transactions', nextId')
  BY <1>11, <1>13, <1>14, KeptAfterEntry
<1>16. InTime(NativeTable(transactions), now) => InTime(NativeTable(transactions'), now)
  <2>1. InTime(NativeTable(transactions), now) => InTime(NativeTable(half), now)
    BY <1>1, <1>6, <1>11, EntryInTime
  <2>2. Typed(mid, NativeTable(half), nextId + 1)
    BY <1>11 DEF Kept, Good
  <2>3. InTime(NativeTable(half), now) => InTime(NativeTable(transactions'), now)
    BY <1>7, <1>15, <2>2, EntryInTime
  <2> QED
    BY <2>1, <2>3
<1> QED
  BY <1>15, <1>16 DEF Keeps

LEMMA HandlerKeeps ==
  ASSUME IInv, Handler
  PROVE  Keeps /\ Written
<1>1. CASE \E no \in Numbers : CreateAccount(no) \/ DeleteAccount(no)
  BY <1>1, CreateKeeps, DeleteKeeps DEF CreateAccount, DeleteAccount
<1>2. CASE \E no \in Numbers, amount \in Amounts,
              type \in {"DEPOSIT", "WITHDRAW", "ADMIN_CREDIT", "ADMIN_DEBIT"} :
             Enter(no, amount, type)
  <2>1. PICK no \in Numbers, amount \in Amounts,
             type \in {"DEPOSIT", "WITHDRAW", "ADMIN_CREDIT", "ADMIN_DEBIT"} :
               Enter(no, amount, type)
    BY <1>2
  <2>2. type \in TransactionTypes
    BY DEF TransactionTypes, CreditTypes, DebitTypes
  <2> QED
    BY <2>1, <2>2, EnterKeeps DEF Enter
<1>3. CASE \E from, to \in Numbers :
             Renumber(from, to) \/ \E amount \in Amounts : Transfer(from, to, amount)
  BY <1>3, RenumberKeeps, TransferKeeps DEF Renumber, Transfer
<1> QED
  BY <1>1, <1>2, <1>3 DEF Handler

LEMMA HandlerInvariant ==
  ASSUME IInv, Handler
  PROVE  IInv'
<1>1. Keeps /\ Written
  BY HandlerKeeps
<1>2. now' = now /\ setBack' = setBack
  BY <1>1 DEF Written, clock
<1>3. Reading(reading, accounts)
  BY DEF IInv
<1>4. Reading(reading', accounts')
  <2>1. reading' = IF reading = NoReport THEN NoReport
                                         ELSE [reading EXCEPT !.interrupted = TRUE]
    BY <1>1 DEF Written
  <2>2. CASE reading = NoReport
    BY <2>1, <2>2 DEF Reading
  <2>3. CASE reading # NoReport /\ AccountRead(reading, accounts)
    <3>1. AccountRead(reading', accounts')
      BY <2>1, <2>3 DEF AccountRead
    <3> QED
      BY <3>1 DEF Reading
  <2>4. CASE reading # NoReport /\ Counted(reading, accounts)
    <3>1. Counted(reading', accounts')
      BY <2>1, <2>4 DEF Counted
    <3> QED
      BY <3>1 DEF Reading
  <2> QED
    BY <1>3, <2>2, <2>3, <2>4 DEF Reading
<1>5. now' \in Stamps /\ setBack' \in Nat
  BY <1>2 DEF IInv
<1>6. SteadyClock' => InTime(NativeTable(transactions'), now')
  BY <1>1, <1>2 DEF IInv, SteadyClock, Keeps
<1> QED
  BY <1>1, <1>4, <1>5, <1>6 DEF IInv, Keeps

(* The import writes rows that are no part of the handlers' ledger.        *)
LEMMA ImportInvariant ==
  ASSUME IInv, NEW entry \in LegacyLines, ImportTransaction(entry)
  PROVE  IInv'
<1>1. PICK row : row = LegacyTransaction(entry)
  OBVIOUS
<1>2. /\ transactions' = InsertTransaction(transactions, nextId, row)
      /\ nextId' = nextId + 1 /\ accounts' = accounts
      /\ now' = now /\ setBack' = setBack /\ reading' = reading
      /\ entry.account_no \in DOMAIN accounts
  BY <1>1 DEF ImportTransaction, clock
<1>3. /\ row.account_no = entry.account_no /\ row.amount = entry.amount
      /\ row.balance_after = Null /\ row.created_at = entry.timestamp
      /\ row.type = NormalizeLegacyType(entry.type)
      /\ DOMAIN row = RowColumns
  BY <1>1 DEF LegacyTransaction, StampedRow, TransactionRow, RowColumns
<1>4. row.type \in {"DEPOSIT", "WITHDRAW", "TRANSFER_SENT", "TRANSFER_RECEIVED", "LEGACY"}
  BY <1>3 DEF NormalizeLegacyType
<1>5. HeldRow(row, accounts)
  BY <1>2, <1>3, <1>4, LinesAssumption DEF HeldRow, TransactionTypes, CreditTypes, DebitTypes
<1>6. Held(accounts, transactions, nextId) /\ Good(accounts, NativeTable(transactions), nextId)
  BY DEF IInv, Kept
<1>7. nextId \in Nat /\ nextId \notin DOMAIN transactions
  BY <1>6 DEF Held
<1>8. Held(accounts', transactions', nextId')
  BY <1>2, <1>5, <1>6, HeldAfterInsert
<1>9. NativeTable(transactions') = NativeTable(transactions)
  BY <1>2, <1>3, <1>7, NativeAfterInsert
<1>10. Good(accounts', NativeTable(transactions'), nextId')
  <2>1. \A t : Good(accounts, t, nextId) => Good(accounts, t, nextId + 1)
    BY <1>7 DEF Good, Typed
  <2> QED
    BY <1>2, <1>6, <1>9, <2>1
<1> QED
  BY <1>2, <1>8, <1>9, <1>10 DEF IInv, Kept, SteadyClock

LEMMA ClockInvariant ==
  ASSUME IInv, Tick \/ SetBack
  PROVE  IInv'
<1>1. accounts' = accounts /\ transactions' = transactions /\ nextId' = nextId /\ reading' = reading
  BY DEF Tick, SetBack, tables
<1>2. Kept(accounts', transactions', nextId') /\ Reading(reading', accounts')
  BY <1>1 DEF IInv
<1>3. now' \in Stamps /\ setBack' \in Nat
  BY TimesAssumption DEF IInv, Tick, SetBack, Stamps
<1>4. SteadyClock' => InTime(NativeTable(transactions'), now')
  <2>1. CASE Tick
    <3>1. ASSUME SteadyClock
          PROVE  InTime(NativeTable(transactions), now')
      <4>1. PICK native : native = NativeTable(transactions)
        OBVIOUS
      <4>2. now \in Int /\ now' = now + 1 /\ InTime(native, now)
        BY <2>1, <3>1, <4>1 DEF Tick, IInv, Stamps
      <4>3. \A i \in DOMAIN native : native[i].created_at \in Int
        BY <4>1 DEF IInv, Kept, Good, Typed, GoodRow, Stamps
      <4> QED
        BY <4>1, <4>2, <4>3 DEF InTime
    <3> QED
      BY <1>1, <2>1, <3>1 DEF Tick, SteadyClock
  <2>2. CASE SetBack
    BY <2>2 DEF SetBack, IInv, SteadyClock
  <2> QED
    BY <2>1, <2>2
<1> QED
  BY <1>2, <1>3, <1>4 DEF IInv

-------------------------------------------------------------------------------
(* The sums of AtmReports are totals of a column.                          *)
Column(t) == [i \in DOMAIN t |-> t[i].amount]

SignedSumOf(t, ids) == MapThenSumSet(LAMBDA i : Signed(t[i]), ids)
AmountSumOf(t, ids) == MapThenSumSet(LAMBDA i : t[i].amount, ids)
BalanceSumOf(acc, numbers) == MapThenSumSet(LAMBDA a : acc[a].balance, numbers)

LEMMA SignedSumIs ==
  ASSUME NEW t, NEW ids \in SUBSET DOMAIN t, IsFiniteSet(ids)
  PROVE  SignedSumOf(t, ids) = Total(Movements(t), ids)
<1> DEFINE iter ==
      CHOOSE iter : iter = [s \in SUBSET ids |->
                              IF s = {} THEN 0
                              ELSE Signed(t[CHOOSE x \in s : TRUE]) + iter[s \ {CHOOSE x \in s : TRUE}]]
<1>1. SignedSumOf(t, ids) = iter[ids]
  BY DEF SignedSumOf, MapThenSumSet, MapThenFoldSet
<1>2. PICK g : Sums(g, Movements(t), ids) /\ Total(Movements(t), ids) = g[ids]
  BY TotalIs
<1>3. ASSUME NEW h
      PROVE  Sums(h, Movements(t), ids)
               <=> h = [s \in SUBSET ids |->
                          IF s = {} THEN 0
                          ELSE Signed(t[CHOOSE x \in s : TRUE]) + h[s \ {CHOOSE x \in s : TRUE}]]
  <2>1. ASSUME NEW s \in SUBSET ids, s # {}
        PROVE  Movements(t)[Some(s)] = Signed(t[Some(s)])
    <3>1. Some(s) \in s
      BY <2>1 DEF Some
    <3> QED
      BY <3>1 DEF Movements
  <2>2. [s \in SUBSET ids |-> IF s = {} THEN 0
                              ELSE Movements(t)[Some(s)] + h[s \ {Some(s)}]]
          = [s \in SUBSET ids |-> IF s = {} THEN 0
                                  ELSE Signed(t[Some(s)]) + h[s \ {Some(s)}]]
    BY <2>1
  <2> QED
    BY <2>2 DEF Sums, Some
<1>4. Sums(iter, Movements(t), ids)
  BY <1>2, <1>3
<1>5. iter[ids] = g[ids]
  <2> HIDE DEF iter
  <2> QED
    BY <1>2, <1>4, SumsUnique
<1> QED
  BY <1>1, <1>2, <1>5

LEMMA AmountSumIs ==
  ASSUME NEW t, NEW ids \in SUBSET DOMAIN t, IsFiniteSet(ids)
  PROVE  AmountSumOf(t, ids) = Total(Column(t), ids)
<1> DEFINE iter ==
      CHOOSE iter : iter = [s \in SUBSET ids |->
                              IF s = {} THEN 0
                              ELSE t[CHOOSE x \in s : TRUE].amount + iter[s \ {CHOOSE x \in s : TRUE}]]
<1>1. AmountSumOf(t, ids) = iter[ids]
  BY DEF AmountSumOf, MapThenSumSet, MapThenFoldSet
<1>2. PICK g : Sums(g, Column(t), ids) /\ Total(Column(t), ids) = g[ids]
  BY TotalIs
<1>3. ASSUME NEW h
      PROVE  Sums(h, Column(t), ids)
               <=> h = [s \in SUBSET ids |->
                          IF s = {} THEN 0
                          ELSE t[CHOOSE x \in s : TRUE].amount + h[s \ {CHOOSE x \in s : TRUE}]]
  <2>1. ASSUME NEW s \in SUBSET ids, s # {}
        PROVE  Column(t)[Some(s)] = t[Some(s)].amount
    <3>1. Some(s) \in s
      BY <2>1 DEF Some
    <3> QED
      BY <3>1 DEF Column
  <2>2. [s \in SUBSET ids |-> IF s = {} THEN 0
                              ELSE Column(t)[Some(s)] + h[s \ {Some(s)}]]
          = [s \in SUBSET ids |-> IF s = {} THEN 0
                                  ELSE t[Some(s)].amount + h[s \ {Some(s)}]]
    BY <2>1
  <2> QED
    BY <2>2 DEF Sums, Some
<1>4. Sums(iter, Column(t), ids)
  BY <1>2, <1>3
<1>5. iter[ids] = g[ids]
  <2> HIDE DEF iter
  <2> QED
    BY <1>2, <1>4, SumsUnique
<1> QED
  BY <1>1, <1>2, <1>5

LEMMA BalanceSumIs ==
  ASSUME NEW acc, NEW ids \in SUBSET DOMAIN acc, IsFiniteSet(ids)
  PROVE  BalanceSumOf(acc, ids) = Total(Balances(acc), ids)
<1> DEFINE iter ==
      CHOOSE iter : iter = [s \in SUBSET ids |->
                              IF s = {} THEN 0
                              ELSE acc[CHOOSE x \in s : TRUE].balance + iter[s \ {CHOOSE x \in s : TRUE}]]
<1>1. BalanceSumOf(acc, ids) = iter[ids]
  BY DEF BalanceSumOf, MapThenSumSet, MapThenFoldSet
<1>2. PICK g : Sums(g, Balances(acc), ids) /\ Total(Balances(acc), ids) = g[ids]
  BY TotalIs
<1>3. ASSUME NEW h
      PROVE  Sums(h, Balances(acc), ids)
               <=> h = [s \in SUBSET ids |->
                          IF s = {} THEN 0
                          ELSE acc[CHOOSE x \in s : TRUE].balance + h[s \ {CHOOSE x \in s : TRUE}]]
  <2>1. ASSUME NEW s \in SUBSET ids, s # {}
        PROVE  Balances(acc)[Some(s)] = acc[Some(s)].balance
    <3>1. Some(s) \in s
      BY <2>1 DEF Some
    <3> QED
      BY <3>1 DEF Balances
  <2>2. [s \in SUBSET ids |-> IF s = {} THEN 0
                              ELSE Balances(acc)[Some(s)] + h[s \ {Some(s)}]]
          = [s \in SUBSET ids |-> IF s = {} THEN 0
                                  ELSE acc[Some(s)].balance + h[s \ {Some(s)}]]
    BY <2>1
  <2> QED
    BY <2>2 DEF Sums, Some
<1>4. Sums(iter, Balances(acc), ids)
  BY <1>2, <1>3
<1>5. iter[ids] = g[ids]
  <2> HIDE DEF iter
  <2> QED
    BY <1>2, <1>4, SumsUnique
<1> QED
  BY <1>1, <1>2, <1>5

-------------------------------------------------------------------------------
LEMMA ReportInvariant ==
  ASSUME IInv, Report
  PROVE  IInv'
<1>1. ASSUME UNCHANGED <<tables, clock>>, Reading(reading', accounts)
      PROVE  IInv'
  BY <1>1 DEF IInv, tables, clock, SteadyClock
<1>2. ASSUME NEW report, Show(report)
      PROVE  IInv'
  BY <1>1, <1>2 DEF Show, Reading
<1>3. ASSUME NEW no \in Numbers, NEW op \in AccountReports, ReadAccount(op, no)
      PROVE  IInv'
  <2>1. AccountRead(reading', accounts)
    BY <1>3 DEF ReadAccount, Begin, AccountRead
  <2> QED
    BY <1>1, <1>3, <2>1 DEF ReadAccount, Begin, Reading
<1>4. CASE CountAll
  <2>1. BalanceSumOf(accounts, DOMAIN accounts) = Total(Balances(accounts), DOMAIN accounts)
    BY BalanceSumIs DEF IInv, Kept, Good, Typed
  <2>2. Counted(reading', accounts)
    <3>1. MapThenSumSet(LAMBDA a : accounts[a].balance, DOMAIN accounts)
            = Total(Balances(accounts), DOMAIN accounts)
      BY <2>1 DEF BalanceSumOf
    <3> QED
      BY <1>4, <3>1 DEF CountAll, Begin, Counted
  <2> QED
    BY <1>1, <1>4, <2>2 DEF CountAll, Begin, Reading
<1>5. CASE MiniStatement
  BY <1>2, <1>5 DEF MiniStatement
<1>6. ASSUME NEW month, MonthlySummary(month)
      PROVE  IInv'
  BY <1>2, <1>6 DEF MonthlySummary
<1>7. ASSUME NEW fails, AccountDetails(fails)
      PROVE  IInv'
  BY <1>2, <1>7 DEF AccountDetails
<1>8. ASSUME NEW fails, SystemSummary(fails)
      PROVE  IInv'
  BY <1>2, <1>8 DEF SystemSummary
<1>9. CASE AccountListing
  BY <1>2, <1>9 DEF AccountListing
<1>10. ASSUME NEW limit, RecentTransactions(limit)
       PROVE  IInv'
  BY <1>2, <1>10 DEF RecentTransactions
<1>11. CASE Fail
  BY <1>2, <1>11 DEF Fail
<1> QED
  BY <1>3, <1>4, <1>5, <1>6, <1>7, <1>8, <1>9, <1>10, <1>11 DEF Report, AccountReports

LEMMA Initially ==
  ASSUME Init
  PROVE  IInv
<1>1. /\ DOMAIN accounts = {} /\ DOMAIN transactions = {} /\ nextId = 1
      /\ now = 1 /\ setBack = 0 /\ reading = NoReport
  BY DEF Init
<1>2. PICK native : native = NativeTable(transactions)
  OBVIOUS
<1>3. DOMAIN native = {}
  BY <1>1, <1>2, NativeColumns
<1>4. Typed(accounts, native, nextId) /\ Held(accounts, transactions, nextId)
  BY <1>1, <1>3, FS_EmptySet DEF Typed, Held
<1>5. Ledger(accounts, native)
  BY <1>1, <1>3 DEF Ledger, RunningTotals, BalanceIsTotal
<1>6. Books(accounts, native)
  BY <1>1, <1>3, TotalEmpty DEF Books
<1>7. now \in Stamps /\ InTime(native, now)
  BY <1>1, <1>3, TimesAssumption DEF Stamps, InTime
<1> QED
  BY <1>1, <1>2, <1>4, <1>5, <1>6, <1>7 DEF IInv, Kept, Good, Reading

LEMMA Stutter ==
  ASSUME IInv, UNCHANGED vars
  PROVE  IInv'
  BY DEF IInv, vars, tables, clock, SteadyClock

LEMMA Invariance == Spec => []IInv
<1>1. Init => IInv
  BY Initially
<1>2. IInv /\ [Next]_vars => IInv'
  BY HandlerInvariant, ImportInvariant, ClockInvariant, ReportInvariant, Stutter DEF Next, Import
<1> QED
  BY <1>1, <1>2, PTL DEF Spec

(* The tables have their types, and as long as the clock is not set back,  *)
(* time stamps stand in the order of the ids.                              *)
THEOREM TypeCorrect == Spec => []TypeOK
<1>1. ASSUME IInv
      PROVE  TypeOK
  <2>1. Typed(accounts, NativeTable(transactions), nextId) /\ Held(accounts, transactions, nextId)
    BY <1>1 DEF IInv, Kept, Good
  <2>2. \A i \in DOMAIN transactions :
          /\ transactions[i].type \in TransactionTypes \union {"LEGACY"}
          /\ transactions[i].balance_after \in Nat \union {Null}
    BY <2>1 DEF Held, HeldRow
  <2>3. Native(DOMAIN transactions) = DOMAIN NativeTable(transactions)
    BY DEF Native, NativeTable
  <2>4. \A i \in Native(DOMAIN transactions) : transactions[i] = NativeTable(transactions)[i]
    BY <2>3, NativeColumns
  <2>5. \A i \in Native(DOMAIN transactions) :
          /\ transactions[i].created_at \in Stamps
          /\ SteadyClock => /\ transactions[i].created_at <= now
                            /\ \A j \in Native(DOMAIN transactions) :
                                 i < j => transactions[i].created_at <= transactions[j].created_at
    BY <1>1, <2>1, <2>3, <2>4 DEF IInv, InTime, Typed, GoodRow
  <2>6. /\ \A a \in DOMAIN accounts : accounts[a].balance \in Nat
        /\ DOMAIN transactions \subseteq 1 .. nextId - 1
        /\ now \in Stamps
    BY <1>1, <2>1 DEF IInv, Typed, Held
  <2> QED
    BY <2>2, <2>5, <2>6 DEF TypeOK
<1> QED
  BY <1>1, Invariance, PTL

-------------------------------------------------------------------------------
(* Rows in order.                                                          *)
LEMMA OrderUnique ==
  ASSUME NEW R, NEW S, IsFiniteSet(S), StrictOrder(R, S),
         NEW s, InOrder(s, R, S), NEW q, InOrder(q, R, S)
  PROVE  s = q
<1>1. PICK n \in Nat : n = Cardinality(S)
  BY FS_CardinalityType
<1>2. /\ s \in [1 .. n -> S] /\ \A j, k \in 1 .. n : j < k => <<s[j], s[k]>> \in R
      /\ q \in [1 .. n -> S] /\ \A j, k \in 1 .. n : j < k => <<q[j], q[k]>> \in R
  BY <1>1 DEF InOrder
<1> DEFINE C == {k \in 1 .. n : s[k] # q[k]}
<1>3. C = {}
  <2> SUFFICES ASSUME C # {} PROVE FALSE
    OBVIOUS
  <2>1. PICK m \in C : \A k \in C : m <= k
    <3>1. C \subseteq Nat
      OBVIOUS
    <3> HIDE DEF C
    <3> QED
      BY <3>1, LeastNumber
  <2>2. \A k \in 1 .. n : k < m => s[k] = q[k]
    BY <2>1
  <2>3. m \in 1 .. n /\ s[m] # q[m] /\ s[m] \in S /\ q[m] \in S
    BY <1>2, <2>1
  <2>4. PICK j \in 1 .. n : s[j] = q[m]
    BY <1>1, <2>3, AllInOrder
  <2>5. PICK k \in 1 .. n : q[k] = s[m]
    BY <1>1, <2>3, AllInOrder
  <2>6. ~ (j < m)
    <3> SUFFICES ASSUME j < m PROVE FALSE
      OBVIOUS
    <3>1. <<q[j], q[m]>> \in R /\ q[j] = q[m]
      BY <1>2, <2>2, <2>3, <2>4
    <3> QED
      BY <2>3, <3>1 DEF StrictOrder
  <2>7. ~ (k < m)
    <3> SUFFICES ASSUME k < m PROVE FALSE
      OBVIOUS
    <3>1. <<s[k], s[m]>> \in R /\ s[k] = s[m]
      BY <1>2, <2>2, <2>3, <2>5
    <3> QED
      BY <2>3, <3>1 DEF StrictOrder
  <2>8. m < j /\ m < k
    BY <2>3, <2>4, <2>5, <2>6, <2>7
  <2>9. <<s[m], q[m]>> \in R /\ <<q[m], s[m]>> \in R
    BY <1>2, <2>3, <2>4, <2>5, <2>8
  <2> QED
    BY <2>3, <2>9 DEF StrictOrder
<1> QED
  BY <1>2, <1>3

NewerPairs == {p \in (DOMAIN transactions) \X (DOMAIN transactions) : Newer(p[1], p[2])}

LEMMA NewerOrders ==
  ASSUME IInv
  PROVE  /\ \A i, j \in DOMAIN transactions : <<i, j>> \in NewerPairs <=> Newer(i, j)
         /\ \A ids \in SUBSET DOMAIN transactions : StrictOrder(NewerPairs, ids)
<1>1. \A i, j \in DOMAIN transactions : <<i, j>> \in NewerPairs <=> Newer(i, j)
  BY DEF NewerPairs
<1>2. \A i \in DOMAIN transactions : i \in Int /\ transactions[i].created_at \in Int
  BY DEF IInv, Kept, Held, HeldRow
<1>3. ASSUME NEW ids \in SUBSET DOMAIN transactions
      PROVE  StrictOrder(NewerPairs, ids)
  <2>1. \A i, j \in ids : i = j \/ Newer(i, j) \/ Newer(j, i)
    BY <1>2 DEF Newer
  <2>2. \A i, j, k \in ids : Newer(i, j) /\ Newer(j, k) => Newer(i, k)
    BY <1>2 DEF Newer
  <2>3. \A i \in ids : ~ Newer(i, i)
    BY <1>2 DEF Newer
  <2>4. \A i, j \in ids : <<i, j>> \in NewerPairs <=> Newer(i, j)
    BY <1>1
  <2> HIDE DEF NewerPairs
  <2> QED
    BY <2>1, <2>2, <2>3, <2>4 DEF StrictOrder
<1> QED
  BY <1>1, <1>3

LEMMA NewestFirst ==
  ASSUME IInv, NEW ids \in SUBSET DOMAIN transactions
  PROVE  IsFiniteSet(ids) /\ InOrder(Ordered(ids, Newer), NewerPairs, ids)
<1>1. IsFiniteSet(ids)
  <2>1. Held(accounts, transactions, nextId)
    BY DEF IInv, Kept
  <2>2. IsFiniteSet(DOMAIN transactions)
    BY <2>1, RowsHeld
  <2> QED
    BY <2>2, FS_Subset
<1>2. StrictOrder(NewerPairs, ids)
  BY NewerOrders
<1>3. PICK s : InOrder(s, NewerPairs, ids)
  BY <1>1, <1>2, OrderExists
<1>4. \A i, j \in ids : <<i, j>> \in NewerPairs <=> Newer(i, j)
  BY NewerOrders
<1>5. PICK sorted : sorted = Ordered(ids, Newer)
  OBVIOUS
<1>6. sorted = CHOOSE q \in [1 .. Cardinality(ids) -> ids] :
                 \A j, k \in DOMAIN q : j < k => Newer(q[j], q[k])
  BY <1>5 DEF Ordered
<1>7. /\ s \in [1 .. Cardinality(ids) -> ids]
      /\ \A j, k \in DOMAIN s : j < k => Newer(s[j], s[k])
  BY <1>3, <1>4 DEF InOrder
<1>8. /\ sorted \in [1 .. Cardinality(ids) -> ids]
      /\ \A j, k \in DOMAIN sorted : j < k => Newer(sorted[j], sorted[k])
  BY <1>6, <1>7
<1>9. InOrder(sorted, NewerPairs, ids)
  BY <1>4, <1>8 DEF InOrder
<1> QED
  BY <1>1, <1>5, <1>9

(* A report lists the first n of the rows s puts in order.                 *)
HowMany(ids, limit) ==
  IF limit < 0 \/ limit > Cardinality(ids) THEN Cardinality(ids) ELSE limit

FirstRows(rows, s, ids, limit) ==
  /\ InOrder(s, NewerPairs, ids)
  /\ HowMany(ids, limit) \in 0 .. Cardinality(ids)
  /\ rows = [k \in 1 .. HowMany(ids, limit) |-> transactions[s[k]]]
  /\ Len(rows) = HowMany(ids, limit)

LEMMA NewestRows ==
  ASSUME IInv, NEW ids \in SUBSET DOMAIN transactions, NEW limit \in Int
  PROVE  \E s : FirstRows(Newest(ids, limit), s, ids, limit)
<1>1. PICK s : s = Ordered(ids, Newer)
  OBVIOUS
<1>2. IsFiniteSet(ids) /\ InOrder(s, NewerPairs, ids)
  BY <1>1, NewestFirst
<1>3. PICK m \in Nat : m = Cardinality(ids)
  BY <1>2, FS_CardinalityType
<1>4. s \in [1 .. m -> ids]
  BY <1>2, <1>3 DEF InOrder
<1>5. PICK rows : rows = [k \in DOMAIN s |-> transactions[s[k]]]
  OBVIOUS
<1>6. rows = [k \in 1 .. m |-> transactions[s[k]]]
  BY <1>4, <1>5
<1>7. PICK T : T = {transactions[i] : i \in ids}
  OBVIOUS
<1>8. \A k \in 1 .. m : transactions[s[k]] \in T
  BY <1>4, <1>7
<1>9. rows \in Seq(T) /\ Len(rows) = m
  BY <1>6, <1>8
<1>10. Newest(ids, limit) = IF limit < 0 \/ limit > Len(rows) THEN rows ELSE SubSeq(rows, 1, limit)
  BY <1>1, <1>5 DEF Newest
<1>11. PICK n : n = HowMany(ids, limit)
  OBVIOUS
<1>12. n \in 0 .. m
  BY <1>3, <1>11 DEF HowMany
<1>13. Newest(ids, limit) = [k \in 1 .. n |-> transactions[s[k]]] /\ Len(Newest(ids, limit)) = n
  <2>1. CASE limit < 0 \/ limit > m
    BY <1>3, <1>6, <1>9, <1>10, <1>11, <2>1 DEF HowMany
  <2>2. CASE ~ (limit < 0 \/ limit > m)
    <3>1. n = limit /\ Newest(ids, limit) = SubSeq(rows, 1, n)
      BY <1>3, <1>9, <1>10, <1>11, <2>2 DEF HowMany
    <3>2. SubSeq(rows, 1, n) = [k \in 1 .. n |-> rows[k]] /\ Len(SubSeq(rows, 1, n)) = n
      BY <1>9, <1>12
    <3>3. \A k \in 1 .. n : rows[k] = transactions[s[k]]
      BY <1>6, <1>12
    <3> QED
      BY <3>1, <3>2, <3>3
  <2> QED
    BY <2>1, <2>2
<1> QED
  BY <1>2, <1>3, <1>11, <1>12, <1>13 DEF FirstRows

(* While the clock runs on, newest first is highest id first, of the rows  *)
(* the handlers wrote.                                                     *)
LEMMA SteadyOrder ==
  ASSUME IInv, SteadyClock
  PROVE  \A i, j \in DOMAIN NativeTable(transactions) : <<i, j>> \in NewerPairs <=> i > j
<1>1. PICK native : native = NativeTable(transactions)
  OBVIOUS
<1>2. /\ DOMAIN native \subseteq DOMAIN transactions
      /\ \A i \in DOMAIN native : native[i] = transactions[i]
  BY <1>1, NativeColumns
<1>3. \A i \in DOMAIN transactions : i \in Int /\ transactions[i].created_at \in Int
  BY DEF IInv, Kept, Held, HeldRow
<1>4. \A i, j \in DOMAIN native :
        i < j => transactions[i].created_at <= transactions[j].created_at
  BY <1>1, <1>2 DEF IInv, InTime
<1>5. \A i, j \in DOMAIN native : Newer(i, j) <=> i > j
  BY <1>2, <1>3, <1>4 DEF Newer
<1> QED
  BY <1>1, <1>2, <1>5, NewerOrders

(* The lines of a report of one account, and the rows they stand for.      *)
Lines(rows, s, m, n, no) ==
  /\ m \in Nat /\ n \in Nat /\ n <= m
  /\ rows = [k \in 1 .. n |-> transactions[s[k]]] /\ Len(rows) = n
  /\ s \in [1 .. m -> RowsOf(transactions, no)]
  /\ \A i \in RowsOf(transactions, no) : \E k \in 1 .. m : s[k] = i
  /\ \A j, k \in 1 .. m :
       s[j] \in DOMAIN NativeTable(transactions) /\ s[k] \in DOMAIN NativeTable(transactions) =>
         (j < k => s[j] > s[k])

LEMMA LinesOf ==
  ASSUME IInv, SteadyClock, NEW no, NEW limit \in Nat \ {0},
         NEW rows, rows = Newest(RowsOf(transactions, no), limit)
  PROVE  \E s, m, n : Lines(rows, s, m, n, no) /\ (n < limit => m = n)
<1>1. PICK ids : ids = RowsOf(transactions, no)
  OBVIOUS
<1>2. ids \in SUBSET DOMAIN transactions
  BY <1>1 DEF RowsOf
<1>3. PICK s : FirstRows(rows, s, ids, limit)
  <2>1. \E s : FirstRows(Newest(ids, limit), s, ids, limit)
    BY <1>2, NewestRows
  <2> QED
    BY <1>1, <2>1
<1>4. PICK m \in Nat, n \in Nat : n <= m /\ m = Cardinality(ids) /\ n = HowMany(ids, limit)
  <2>1. IsFiniteSet(ids)
    BY <1>2, NewestFirst
  <2>2. Cardinality(ids) \in Nat
    BY <2>1, FS_CardinalityType
  <2> QED
    BY <1>3, <2>2 DEF FirstRows
<1>5. rows = [k \in 1 .. n |-> transactions[s[k]]] /\ Len(rows) = n
  BY <1>3, <1>4 DEF FirstRows
<1>6. /\ s \in [1 .. m -> ids]
      /\ \A j, k \in 1 .. m : j < k => <<s[j], s[k]>> \in NewerPairs
  BY <1>3, <1>4 DEF InOrder, FirstRows
<1>7. \A i \in ids : \E k \in 1 .. m : s[k] = i
  <2>1. IsFiniteSet(ids) /\ StrictOrder(NewerPairs, ids)
    BY <1>2, NewestFirst, NewerOrders
  <2> QED
    BY <1>3, <1>4, <2>1, AllInOrder DEF FirstRows
<1>8. n < limit => m = n
  BY <1>4 DEF HowMany
<1>9. \A j, k \in 1 .. m :
        s[j] \in DOMAIN NativeTable(transactions) /\ s[k] \in DOMAIN NativeTable(transactions) =>
          (j < k => s[j] > s[k])
  BY <1>6, SteadyOrder
<1> QED
  BY <1>1, <1>4, <1>5, <1>6, <1>7, <1>8, <1>9 DEF Lines

(* A line shows a balance if a handler wrote its row.                      *)
LEMMA BalancedLines ==
  ASSUME IInv, NEW rows, NEW s, NEW m, NEW n, NEW no, Lines(rows, s, m, n, no)
  PROVE  /\ Balanced(rows) \subseteq 1 .. n
         /\ \A k \in 1 .. n : k \in Balanced(rows) <=> s[k] \in DOMAIN NativeTable(transactions)
         /\ \A k \in 1 .. n : rows[k] = transactions[s[k]]
         /\ \A k \in 1 .. n : k \in 1 .. m /\ s[k] \in RowsOf(transactions, no)
<1>1. rows = [k \in 1 .. n |-> transactions[s[k]]]
  BY DEF Lines
<1>2. \A k \in 1 .. n : k \in 1 .. m /\ s[k] \in RowsOf(transactions, no)
  BY DEF Lines
<1>3. \A k \in 1 .. n : s[k] \in DOMAIN transactions
  BY <1>2 DEF RowsOf
<1> QED
  BY <1>1, <1>2, <1>3, NativeColumns DEF Balanced

LEMMA RowsAddUp ==
  ASSUME IInv, SteadyClock, NEW no, NEW limit \in Nat \ {0},
         NEW rows, rows = Newest(RowsOf(transactions, no), limit)
  PROVE  /\ \A j, k \in Balanced(rows) :
              j < k /\ (\A l \in Balanced(rows) : l <= j \/ k <= l) =>
                rows[j].balance_after = rows[k].balance_after + Signed(rows[j])
         /\ no \in DOMAIN accounts => Explained(rows, limit, accounts[no].balance)
<1>1. PICK native : native = NativeTable(transactions)
  OBVIOUS
<1>2. PICK s, m, n : Lines(rows, s, m, n, no) /\ (n < limit => m = n)
  BY LinesOf
<1>3. /\ Balanced(rows) \subseteq 1 .. n
      /\ \A k \in 1 .. n : k \in Balanced(rows) <=> s[k] \in DOMAIN native
      /\ \A k \in 1 .. n : rows[k] = transactions[s[k]]
      /\ \A k \in 1 .. n : k \in 1 .. m /\ s[k] \in RowsOf(transactions, no)
  BY <1>1, <1>2, BalancedLines
<1>4. /\ m \in Nat /\ n \in Nat /\ n <= m /\ Len(rows) = n
      /\ \A i \in RowsOf(transactions, no) : \E k \in 1 .. m : s[k] = i
      /\ \A j, k \in 1 .. m :
           s[j] \in DOMAIN native /\ s[k] \in DOMAIN native => (j < k => s[j] > s[k])
  BY <1>1, <1>2 DEF Lines
<1>5. /\ DOMAIN native \subseteq DOMAIN transactions
      /\ \A i \in DOMAIN native : native[i] = transactions[i]
  BY <1>1, NativeColumns
<1>6. RunningTotals(native) /\ BalanceIsTotal(accounts, native) /\ DOMAIN native \subseteq Int
  BY <1>1 DEF IInv, Kept, Good, Ledger, Typed
<1>7. \A i : i \in RowsOf(native, no) <=> i \in RowsOf(transactions, no) /\ i \in DOMAIN native
  BY <1>5 DEF RowsOf
<1>8. ASSUME NEW j \in Balanced(rows), NEW k \in Balanced(rows), j < k,
             \A l \in Balanced(rows) : l <= j \/ k <= l
      PROVE  rows[j].balance_after = rows[k].balance_after + Signed(rows[j])
  <2>1. j \in 1 .. n /\ k \in 1 .. n /\ j \in 1 .. m /\ k \in 1 .. m
    BY <1>3
  <2>2. PICK x \in DOMAIN native, y \in DOMAIN native : x = s[j] /\ y = s[k]
    BY <1>3, <2>1
  <2>3. y < x
    BY <1>4, <1>8, <2>1, <2>2
  <2>4. x \in RowsOf(native, no) /\ y \in RowsOf(native, no)
    BY <1>3, <1>7, <2>1, <2>2
  <2>5. native[x].account_no = no /\ native[y].account_no = no
    BY <2>4 DEF RowsOf
  <2>6. ASSUME NEW z \in RowsOf(native, no)
        PROVE  z <= y \/ x <= z
    <3>1. z \in DOMAIN native /\ z \in RowsOf(transactions, no)
      BY <1>7, <2>6
    <3>2. PICK q \in 1 .. m : s[q] = z
      BY <1>4, <3>1
    <3>3. q <= j \/ k <= q
      <4>1. CASE q \in 1 .. n
        BY <1>3, <1>8, <3>1, <3>2, <4>1
      <4>2. CASE q \notin 1 .. n
        BY <1>4, <2>1, <4>2
      <4> QED
        BY <4>1, <4>2
    <3>4. CASE q <= j
      <4>1. q = j \/ q < j
        BY <2>1, <3>4
      <4> QED
        BY <1>4, <1>6, <2>1, <2>2, <3>1, <3>2, <4>1
    <3>5. CASE k <= q
      <4>1. k = q \/ k < q
        BY <2>1, <3>5
      <4> QED
        BY <1>4, <1>6, <2>1, <2>2, <3>1, <3>2, <4>1
    <3> QED
      BY <3>3, <3>4, <3>5
  <2>7. Succeeds(native, x, y)
    BY <2>3, <2>5, <2>6 DEF Succeeds
  <2>8. native[x].balance_after = native[y].balance_after + Signed(native[x])
    BY <1>6, <2>2, <2>7 DEF RunningTotals
  <2>9. rows[j] = native[x] /\ rows[k] = native[y]
    BY <1>3, <1>5, <2>1, <2>2
  <2> QED
    BY <2>8, <2>9
<1>9. ASSUME no \in DOMAIN accounts, NEW k \in Balanced(rows),
             \A j \in Balanced(rows) : k <= j
      PROVE  rows[k].balance_after = accounts[no].balance
  <2>1. k \in 1 .. n /\ k \in 1 .. m
    BY <1>3
  <2>2. PICK x \in DOMAIN native : x = s[k]
    BY <1>3, <2>1
  <2>3. x \in RowsOf(native, no)
    BY <1>3, <1>7, <2>1, <2>2
  <2>4. ASSUME NEW z \in RowsOf(native, no)
        PROVE  z <= x
    <3>1. z \in DOMAIN native /\ z \in RowsOf(transactions, no)
      BY <1>7, <2>4
    <3>2. PICK q \in 1 .. m : s[q] = z
      BY <1>4, <3>1
    <3>3. k <= q
      <4>1. CASE q \in 1 .. n
        BY <1>3, <1>9, <3>1, <3>2, <4>1
      <4>2. CASE q \notin 1 .. n
        BY <1>4, <2>1, <4>2
      <4> QED
        BY <4>1, <4>2
    <3>4. k = q \/ k < q
      BY <2>1, <3>3
    <3> QED
      BY <1>4, <1>6, <2>1, <2>2, <3>1, <3>2, <3>4
  <2>5. native[x].account_no = no
    BY <2>3 DEF RowsOf
  <2>6. IsLatest(native, x)
    BY <2>4, <2>5 DEF IsLatest
  <2>7. accounts[no].balance = native[x].balance_after
    BY <1>6, <1>9, <2>3, <2>6 DEF BalanceIsTotal
  <2> QED
    BY <1>3, <1>5, <2>1, <2>2, <2>7
<1>10. ASSUME no \in DOMAIN accounts, Balanced(rows) = {}, Len(rows) < limit
       PROVE  accounts[no].balance = 0
  <2>1. m = n
    BY <1>2, <1>4, <1>10
  <2>2. RowsOf(native, no) = {}
    <3> SUFFICES ASSUME NEW z \in RowsOf(native, no) PROVE FALSE
      OBVIOUS
    <3>1. z \in DOMAIN native /\ z \in RowsOf(transactions, no)
      BY <1>7
    <3>2. PICK q \in 1 .. m : s[q] = z
      BY <1>4, <3>1
    <3> QED
      BY <1>3, <1>10, <2>1, <3>1, <3>2
  <2> QED
    BY <1>6, <1>10, <2>2 DEF BalanceIsTotal
<1>11. no \in DOMAIN accounts => Explained(rows, limit, accounts[no].balance)
  BY <1>9, <1>10 DEF Explained
<1> QED
  BY <1>8, <1>11

-------------------------------------------------------------------------------
(* A report is shown until something else happens.                         *)
LEMMA Shows ==
  ASSUME Next
  PROVE  \/ shown' = NoReport
         \/ MiniStatement
         \/ \E month \in Months : MonthlySummary(month)
         \/ \E fails \in BOOLEAN : AccountDetails(fails) \/ SystemSummary(fails)
         \/ AccountListing
         \/ \E limit \in Limits : RecentTransactions(limit)
<1>1. CASE Tick \/ SetBack
  BY <1>1 DEF Tick, SetBack
<1>2. CASE Handler
  BY <1>2 DEF Handler, CreateAccount, DeleteAccount, Enter, Renumber, Transfer, Written
<1>3. CASE Import
  BY <1>3 DEF Import, ImportTransaction
<1>4. CASE Report
  BY <1>4 DEF Report, ReadAccount, CountAll, Fail, Begin, Show
<1> QED
  BY <1>1, <1>2, <1>3, <1>4 DEF Next

LEMMA ShownIs ==
  ASSUME Next
  PROVE  /\ shown'.op = "MINI_STATEMENT" => MiniStatement
         /\ shown'.op = "MONTHLY_SUMMARY" => \E month \in Months : MonthlySummary(month)
         /\ shown'.op = "VIEW_ACCOUNT_DETAILS" => \E fails \in BOOLEAN : AccountDetails(fails)
         /\ shown'.op = "ADMIN_DASHBOARD" => \E fails \in BOOLEAN : SystemSummary(fails)
         /\ shown'.op = "LIST_ACCOUNTS" => AccountListing
         /\ shown'.op = "RECENT_TRANSACTIONS" =>
              \E limit \in Limits : RecentTransactions(limit)
<1>1. shown' = NoReport => shown'.op = "NONE"
  BY DEF NoReport
<1>2. MiniStatement => shown'.op = "MINI_STATEMENT"
  BY DEF MiniStatement, Show
<1>3. \A month : MonthlySummary(month) => shown'.op = "MONTHLY_SUMMARY"
  BY DEF MonthlySummary, Show
<1>4. \A fails : AccountDetails(fails) => shown'.op = "VIEW_ACCOUNT_DETAILS"
  BY DEF AccountDetails, Show
<1>5. ASSUME NEW fails, SystemSummary(fails)
      PROVE  shown'.op = "ADMIN_DASHBOARD"
  BY <1>5 DEF SystemSummary, Show
<1>6. ASSUME AccountListing
      PROVE  shown'.op = "LIST_ACCOUNTS"
  <2>1. PICK listed : Show([op |-> "LIST_ACCOUNTS", listed |-> listed])
    BY <1>6, Zenon DEF AccountListing
  <2> QED
    BY <2>1 DEF Show
<1>7. \A limit : RecentTransactions(limit) => shown'.op = "RECENT_TRANSACTIONS"
  BY DEF RecentTransactions, Show
<1> QED
  BY <1>1, <1>2, <1>3, <1>4, <1>5, <1>6, <1>7, Shows

(* A report reads an account.                                              *)
LEMMA ReadingAccount ==
  ASSUME IInv, reading.op \in AccountReports
  PROVE  ~reading.interrupted => /\ reading.no \in DOMAIN accounts
                                 /\ reading.balance = accounts[reading.no].balance
  BY DEF IInv, Reading, AccountRead, Counted, NoReport, AccountReports

LEMMA StatementStep ==
  ASSUME IInv, Next
  PROVE  StatementAddsUp'
<1>1. ASSUME shown'.op = "MINI_STATEMENT", SteadyClock'
      PROVE  /\ \A j, k \in Balanced(shown'.rows) :
                  j < k /\ (\A l \in Balanced(shown'.rows) : l <= j \/ k <= l) =>
                    shown'.rows[j].balance_after
                      = shown'.rows[k].balance_after + Signed(shown'.rows[j])
             /\ ~shown'.interrupted =>
                  Explained(shown'.rows, StatementLimit, shown'.balance)
  <2>1. MiniStatement
    BY <1>1, ShownIs
  <2>2. /\ shown'.rows = Newest(RowsOf(transactions, reading.no), StatementLimit)
        /\ shown'.balance = reading.balance /\ shown'.interrupted = reading.interrupted
        /\ UNCHANGED clock
    BY <2>1 DEF MiniStatement, Show
  <2>3. SteadyClock /\ StatementLimit \in Nat \ {0}
    BY <1>1, <2>2, LimitsSensible DEF SteadyClock, clock
  <2>4. PICK rows : rows = Newest(RowsOf(transactions, reading.no), StatementLimit)
    OBVIOUS
  <2>5. /\ \A j, k \in Balanced(rows) :
             j < k /\ (\A l \in Balanced(rows) : l <= j \/ k <= l) =>
               rows[j].balance_after = rows[k].balance_after + Signed(rows[j])
        /\ reading.no \in DOMAIN accounts =>
             Explained(rows, StatementLimit, accounts[reading.no].balance)
    BY <2>3, <2>4, RowsAddUp
  <2>6. ~reading.interrupted => /\ reading.no \in DOMAIN accounts
                                /\ reading.balance = accounts[reading.no].balance
    BY <2>1, ReadingAccount DEF MiniStatement, AccountReports
  <2>7. shown'.rows = rows
    BY <2>2, <2>4
  <2> QED
    BY <2>2, <2>5, <2>6, <2>7
<1>2. ASSUME shown'.op = "VIEW_ACCOUNT_DETAILS", SteadyClock'
      PROVE  shown'.interrupted \/ shown'.failed \/ Explained(shown'.rows, 1, shown'.balance)
  <2>1. PICK fails \in BOOLEAN : AccountDetails(fails)
    BY <1>2, ShownIs
  <2>2. PICK rows : rows = Newest(RowsOf(transactions, reading.no), 1)
    OBVIOUS
  <2>3. /\ ~fails => shown'.rows = rows
        /\ shown'.failed = fails
        /\ shown'.balance = reading.balance /\ shown'.interrupted = reading.interrupted
        /\ UNCHANGED clock
    BY <2>1, <2>2 DEF AccountDetails, Show
  <2>4. SteadyClock /\ 1 \in Nat \ {0}
    BY <1>2, <2>3 DEF SteadyClock, clock
  <2>5. reading.no \in DOMAIN accounts => Explained(rows, 1, accounts[reading.no].balance)
    BY <2>2, <2>4, RowsAddUp
  <2>6. ~reading.interrupted => /\ reading.no \in DOMAIN accounts
                                /\ reading.balance = accounts[reading.no].balance
    BY <2>1, ReadingAccount DEF AccountDetails, AccountReports
  <2> QED
    BY <2>3, <2>5, <2>6
<1> QED
  BY <1>1, <1>2 DEF StatementAddsUp

(* Statements and account details agree with the running totals.           *)
THEOREM StatementsCorrect == Spec => []StatementAddsUp
<1>1. Init => StatementAddsUp
  BY DEF Init, StatementAddsUp, NoReport
<1>2. IInv /\ StatementAddsUp /\ [Next]_vars => StatementAddsUp'
  <2>1. StatementAddsUp /\ UNCHANGED vars => StatementAddsUp'
    BY DEF StatementAddsUp, vars, clock, SteadyClock
  <2> QED
    BY <2>1, StatementStep
<1> QED
  BY <1>1, <1>2, Invariance, PTL DEF Spec

-------------------------------------------------------------------------------
Top(fails) ==
  IF fails THEN {} ELSE {a \in DOMAIN accounts : \A b \in DOMAIN accounts : Richer(a, b)}

(* Two accounts of one balance are told apart by their numbers.            *)
LEMMA OneRichest ==
  ASSUME IInv, DOMAIN accounts # {}
  PROVE  \E top \in DOMAIN accounts : Top(FALSE) = {top}
<1> DEFINE R == {p \in (DOMAIN accounts) \X (DOMAIN accounts) : p[1] # p[2] /\ Richer(p[2], p[1])}
<1>1. \A a, b \in DOMAIN accounts : <<a, b>> \in R <=> a # b /\ Richer(b, a)
  OBVIOUS
<1>2. \A a \in DOMAIN accounts : a \in Int /\ accounts[a].balance \in Int
  BY DEF IInv, Kept, Good, Typed
<1>3. StrictOrder(R, DOMAIN accounts)
  <2>1. \A a, b \in DOMAIN accounts : Richer(a, b) \/ Richer(b, a)
    BY <1>2 DEF Richer
  <2>2. \A a, b, c \in DOMAIN accounts : Richer(a, b) /\ Richer(b, c) => Richer(a, c)
    BY <1>2 DEF Richer
  <2>3. \A a, b \in DOMAIN accounts : Richer(a, b) /\ Richer(b, a) => a = b
    BY <1>2 DEF Richer
  <2> HIDE DEF R
  <2> QED
    BY <1>1, <2>1, <2>2, <2>3 DEF StrictOrder
<1>4. IsFiniteSet(DOMAIN accounts)
  BY DEF IInv, Kept, Good, Typed
<1>5. PICK top \in DOMAIN accounts : \A b \in DOMAIN accounts \ {top} : <<b, top>> \in R
  <2> HIDE DEF R
  <2> QED
    BY <1>3, <1>4, LastExists
<1>6. \A b \in DOMAIN accounts : Richer(top, b)
  <2>1. Richer(top, top)
    BY <1>2 DEF Richer
  <2> QED
    BY <1>1, <1>5, <2>1
<1>7. \A a \in DOMAIN accounts : Richer(a, top) => a = top
  BY <1>2, <1>6 DEF Richer
<1> QED
  BY <1>6, <1>7 DEF Top

(* What handlers' rows moved is what it is in the table without the others.*)
LEMMA NativeSum ==
  ASSUME IInv, NEW ids \in SUBSET DOMAIN NativeTable(transactions)
  PROVE  SignedSumOf(transactions, ids) = Total(Movements(NativeTable(transactions)), ids)
<1>1. PICK native : native = NativeTable(transactions)
  OBVIOUS
<1>2. /\ DOMAIN native \subseteq DOMAIN transactions
      /\ \A i \in DOMAIN native : native[i] = transactions[i]
  BY <1>1, NativeColumns
<1>3. ids \in SUBSET DOMAIN transactions /\ ids \in SUBSET DOMAIN native
  BY <1>1, <1>2
<1>4. IsFiniteSet(ids)
  BY <1>3, NewestFirst
<1>5. SignedSumOf(transactions, ids) = Total(Movements(transactions), ids)
  BY <1>3, <1>4, SignedSumIs
<1>6. \A i \in ids : Movements(transactions)[i] = Movements(native)[i]
  BY <1>2, <1>3 DEF Movements
<1>7. Total(Movements(transactions), ids) = Total(Movements(native), ids)
  BY <1>4, <1>6, TotalSame
<1> QED
  BY <1>1, <1>5, <1>7

(* Equal to Native(ids), of any table.                                     *)
NativeIn(t, ids) == {i \in ids : t[i].balance_after # Null}

LEMMA DashboardStep ==
  ASSUME IInv, Next
  PROVE  DashboardAgrees'
<1> SUFFICES ASSUME shown'.op = "ADMIN_DASHBOARD", ~shown'.report.interrupted
             PROVE  /\ shown'.report.total_balance = SignedSum(Native(DOMAIN transactions))'
                    /\ ~shown'.failed =>
                         /\ Cardinality(shown'.top)
                              = IF shown'.report.total_accounts = 0 THEN 0 ELSE 1
                         /\ \A t \in shown'.top :
                              /\ t[2] <= shown'.report.total_balance
                              /\ shown'.report.total_balance
                                   <= shown'.report.total_accounts * t[2]
  BY DEF DashboardAgrees
<1>1. PICK fails \in BOOLEAN : SystemSummary(fails)
  BY ShownIs
<1>2. /\ reading.op = "ADMIN_DASHBOARD" /\ shown'.report = reading /\ shown'.failed = fails
      /\ shown'.top = {<<a, accounts[a].balance>> : a \in Top(fails)}
      /\ UNCHANGED tables
  BY <1>1 DEF SystemSummary, Show, Top
<1>3. PICK count, total : /\ count = Cardinality(DOMAIN accounts)
                          /\ total = Total(Balances(accounts), DOMAIN accounts)
  OBVIOUS
<1>4. shown'.report.total_accounts = count /\ shown'.report.total_balance = total
  BY <1>2, <1>3 DEF IInv, Reading, Counted, AccountRead, AccountReports, NoReport
<1>5. /\ Typed(accounts, NativeTable(transactions), nextId)
      /\ Books(accounts, NativeTable(transactions))
  BY DEF IInv, Kept, Good
<1>6. IsFiniteSet(DOMAIN accounts) /\ count \in Nat
  BY <1>3, <1>5, FS_CardinalityType DEF Typed
<1>7. total = SignedSum(Native(DOMAIN transactions))'
  <2>1. PICK ids : ids = DOMAIN NativeTable(transactions)
    OBVIOUS
  <2>2. ids = NativeIn(transactions, DOMAIN transactions)
    BY <2>1 DEF NativeTable, NativeIn
  <2>3. total = SignedSumOf(transactions, ids)
    <3>1. ids \in SUBSET DOMAIN NativeTable(transactions)
      BY <2>1
    <3>2. SignedSumOf(transactions, ids) = Total(Movements(NativeTable(transactions)), ids)
      BY <3>1, NativeSum
    <3> QED
      BY <1>3, <1>5, <2>1, <3>2 DEF Books
  <2>4. transactions' = transactions
    BY <1>2 DEF tables
  <2>5. total = SignedSumOf(transactions', NativeIn(transactions', DOMAIN transactions'))
    BY <2>2, <2>3, <2>4
  <2> QED
    BY <2>5 DEF SignedSumOf, SignedSum, Native, NativeIn, MapThenSumSet, MapThenFoldSet
<1>8. ASSUME ~fails
      PROVE  /\ Cardinality(shown'.top) = IF count = 0 THEN 0 ELSE 1
             /\ \A t \in shown'.top : t[2] <= total /\ total <= count * t[2]
  <2>1. CASE DOMAIN accounts = {}
    <3>1. count = 0 /\ shown'.top = {}
      BY <1>2, <1>3, <2>1, FS_EmptySet DEF Top
    <3> QED
      BY <3>1, FS_EmptySet
  <2>2. CASE DOMAIN accounts # {}
    <3>1. PICK top \in DOMAIN accounts : Top(FALSE) = {top}
      BY <2>2, OneRichest
    <3>2. PICK most : most = accounts[top].balance
      OBVIOUS
    <3>3. shown'.top = {<<top, most>>}
      BY <1>2, <1>8, <3>1, <3>2
    <3>4. Cardinality(shown'.top) = 1
      BY <3>3, FS_Singleton
    <3>5. count # 0
      BY <1>3, <1>6, <2>2, FS_EmptySet
    <3>6. \A a \in DOMAIN accounts : /\ Balances(accounts)[a] = accounts[a].balance
                                     /\ accounts[a].balance \in Nat
      BY <1>5 DEF Typed, Balances
    <3>7. most <= total
      <4>1. Balances(accounts)[top] <= Total(Balances(accounts), DOMAIN accounts)
        BY <1>6, <3>6, TotalAbove
      <4> QED
        BY <1>3, <3>2, <3>6, <4>1
    <3>8. total <= count * most
      <4>1. \A a \in DOMAIN accounts : Balances(accounts)[a] <= most
        <5>1. \A a \in DOMAIN accounts : Richer(top, a)
          BY <3>1 DEF Top
        <5> QED
          BY <3>2, <3>6, <5>1 DEF Richer
      <4>2. Whole(Balances(accounts), DOMAIN accounts) /\ most \in Int
        BY <1>5, <3>2, <3>6, BalancesWhole
      <4>3. Total(Balances(accounts), DOMAIN accounts) <= Cardinality(DOMAIN accounts) * most
        BY <1>6, <4>1, <4>2, TotalBelow
      <4> QED
        BY <1>3, <4>3
    <3> QED
      BY <3>3, <3>4, <3>5, <3>7, <3>8
  <2> QED
    BY <2>1, <2>2
<1> QED
  BY <1>2, <1>4, <1>7, <1>8

(* The dashboard's total is that of the ledger, and its richest account is *)
(* one.                                                                    *)
THEOREM DashboardCorrect == Spec => []DashboardAgrees
<1>1. Init => DashboardAgrees
  BY DEF Init, DashboardAgrees, NoReport
<1>2. IInv /\ DashboardAgrees /\ [Next]_vars => DashboardAgrees'
  <2>1. DashboardAgrees /\ UNCHANGED vars => DashboardAgrees'
    <3>1. transactions' = transactions =>
            SignedSum(Native(DOMAIN transactions))' = SignedSum(Native(DOMAIN transactions))
      BY DEF SignedSum, Native, MapThenSumSet, MapThenFoldSet
    <3> QED
      BY <3>1 DEF DashboardAgrees, vars, tables
  <2> QED
    BY <2>1, DashboardStep
<1> QED
  BY <1>1, <1>2, Invariance, PTL DEF Spec

-------------------------------------------------------------------------------
(* The months of a summary.  Every row has one of seven types, and the net *)
(* change counts four of them.                                             *)
ByAdmin(ids) == {i \in ids : transactions[i].type \in {"ADMIN_CREDIT", "ADMIN_DEBIT"}}

LEMMA TypeSum ==
  ASSUME IInv, NEW ids \in SUBSET DOMAIN transactions, NEW type \in TransactionTypes
  PROVE  /\ SumOfType(ids, type) \in Int
         /\ Total(Movements(transactions), RowsOfType(ids, type))
              = IF type \in CreditTypes THEN SumOfType(ids, type) ELSE -SumOfType(ids, type)
<1>1. Held(accounts, transactions, nextId)
  BY DEF IInv, Kept
<1>2. PICK rows : rows = RowsOfType(ids, type)
  OBVIOUS
<1>3. /\ rows \in SUBSET DOMAIN transactions
      /\ \A i \in rows : transactions[i].type = type
  BY <1>2 DEF RowsOfType
<1>4. IsFiniteSet(rows)
  BY <1>1, <1>3, RowsHeld, FS_Subset
<1>5. SumOfType(ids, type) = Total(Column(transactions), rows)
  <2>1. AmountSumOf(transactions, rows) = Total(Column(transactions), rows)
    BY <1>3, <1>4, AmountSumIs
  <2>2. SumOfType(ids, type) = AmountSumOf(transactions, RowsOfType(ids, type))
    BY Zenon DEF SumOfType, AmountSumOf
  <2> QED
    BY <1>2, <2>1, <2>2
<1>6. Whole(Column(transactions), rows)
  BY <1>1, <1>3 DEF Held, HeldRow, Column, Whole
<1>7. SumOfType(ids, type) \in Int
  BY <1>4, <1>5, <1>6, TotalInt
<1>8. CASE type \in CreditTypes
  <2>1. \A i \in rows : Movements(transactions)[i] = Column(transactions)[i]
    BY <1>3, <1>8 DEF Movements, Column, Signed
  <2>2. Total(Movements(transactions), rows) = Total(Column(transactions), rows)
    BY <1>4, <2>1, TotalSame
  <2> QED
    BY <1>2, <1>5, <1>7, <1>8, <2>2
<1>9. CASE type \notin CreditTypes
  <2>1. \A i \in rows : Movements(transactions)[i] = -Column(transactions)[i]
    BY <1>3, <1>9 DEF Movements, Column, Signed
  <2>2. Total(Movements(transactions), rows) = -Total(Column(transactions), rows)
    BY <1>4, <1>6, <2>1, TotalNegated
  <2> QED
    BY <1>2, <1>5, <1>7, <1>9, <2>2
<1> QED
  BY <1>8, <1>9

LEMMA NetChangeIs ==
  ASSUME IInv, NEW ids \in SUBSET DOMAIN transactions
  PROVE  /\ NetChange(ids) \in Int
         /\ Total(Movements(transactions), ids)
              = NetChange(ids) + Total(Movements(transactions), ByAdmin(ids))
                  + Total(Movements(transactions), RowsOfType(ids, "LEGACY"))
<1>1. Held(accounts, transactions, nextId)
  BY DEF IInv, Kept
<1>2. PICK M : M = Movements(transactions)
  OBVIOUS
<1>3. \A rows \in SUBSET ids : IsFiniteSet(rows) /\ Whole(M, rows) /\ Total(M, rows) \in Int
  <2> SUFFICES ASSUME NEW rows \in SUBSET ids
               PROVE  IsFiniteSet(rows) /\ Whole(M, rows) /\ Total(M, rows) \in Int
    OBVIOUS
  <2>1. IsFiniteSet(rows)
    BY <1>1, RowsHeld, FS_Subset
  <2>2. Whole(M, rows)
    BY <1>1, <1>2, HeldWhole
  <2> QED
    BY <2>1, <2>2, TotalInt
<1>4. PICK admin, deposits, received, withdrawn, sent, legacy :
        /\ admin = ByAdmin(ids) /\ legacy = RowsOfType(ids, "LEGACY")
        /\ deposits = RowsOfType(ids, "DEPOSIT")
        /\ received = RowsOfType(ids, "TRANSFER_RECEIVED")
        /\ withdrawn = RowsOfType(ids, "WITHDRAW")
        /\ sent = RowsOfType(ids, "TRANSFER_SENT")
  OBVIOUS
<1>5. PICK d, r, w, s :
        /\ d = SumOfType(ids, "DEPOSIT")
        /\ r = SumOfType(ids, "TRANSFER_RECEIVED")
        /\ w = SumOfType(ids, "WITHDRAW")
        /\ s = SumOfType(ids, "TRANSFER_SENT")
  OBVIOUS
<1>6. /\ d \in Int /\ r \in Int /\ w \in Int /\ s \in Int
      /\ Total(M, deposits) = d /\ Total(M, received) = r
      /\ Total(M, withdrawn) = -w /\ Total(M, sent) = -s
  <2>1. /\ "DEPOSIT" \in TransactionTypes /\ "DEPOSIT" \in CreditTypes
        /\ "TRANSFER_RECEIVED" \in TransactionTypes /\ "TRANSFER_RECEIVED" \in CreditTypes
        /\ "WITHDRAW" \in TransactionTypes /\ "WITHDRAW" \notin CreditTypes
        /\ "TRANSFER_SENT" \in TransactionTypes /\ "TRANSFER_SENT" \notin CreditTypes
    BY DEF TransactionTypes, CreditTypes, DebitTypes
  <2>2. d \in Int /\ Total(M, deposits) = d
    BY <1>2, <1>4, <1>5, <2>1, TypeSum
  <2>3. r \in Int /\ Total(M, received) = r
    BY <1>2, <1>4, <1>5, <2>1, TypeSum
  <2>4. w \in Int /\ Total(M, withdrawn) = -w
    BY <1>2, <1>4, <1>5, <2>1, TypeSum
  <2>5. s \in Int /\ Total(M, sent) = -s
    BY <1>2, <1>4, <1>5, <2>1, TypeSum
  <2> QED
    BY <2>2, <2>3, <2>4, <2>5
<1>7. \A i \in ids : transactions[i].type \in TransactionTypes \union {"LEGACY"}
  BY <1>1 DEF Held, HeldRow
<1>8. PICK rest1, rest2, rest3, rest4 :
        /\ rest1 = ids \ admin
        /\ rest2 = rest1 \ deposits
        /\ rest3 = rest2 \ received
        /\ rest4 = rest3 \ withdrawn
  OBVIOUS
<1>9. /\ admin \subseteq ids /\ deposits \subseteq rest1 /\ received \subseteq rest2
      /\ withdrawn \subseteq rest3 /\ sent \subseteq rest4 /\ rest4 \ sent = legacy
  BY <1>4, <1>7, <1>8 DEF ByAdmin, RowsOfType, TransactionTypes, CreditTypes, DebitTypes
<1>10. /\ rest1 \subseteq ids /\ rest2 \subseteq ids /\ rest3 \subseteq ids /\ rest4 \subseteq ids
      /\ legacy \subseteq ids
  BY <1>4, <1>8 DEF RowsOfType
<1>11. Total(M, ids) = Total(M, admin) + Total(M, rest1)
  BY <1>3, <1>8, <1>9, TotalSplit
<1>12. Total(M, rest1) = d + Total(M, rest2)
  <2>1. Total(M, rest1) = Total(M, deposits) + Total(M, rest1 \ deposits)
    BY <1>3, <1>9, <1>10, TotalSplit
  <2> QED
    BY <1>6, <1>8, <2>1
<1>13. Total(M, rest2) = r + Total(M, rest3)
  <2>1. Total(M, rest2) = Total(M, received) + Total(M, rest2 \ received)
    BY <1>3, <1>9, <1>10, TotalSplit
  <2> QED
    BY <1>6, <1>8, <2>1
<1>14. Total(M, rest3) = (-w) + Total(M, rest4)
  <2>1. Total(M, rest3) = Total(M, withdrawn) + Total(M, rest3 \ withdrawn)
    BY <1>3, <1>9, <1>10, TotalSplit
  <2> QED
    BY <1>6, <1>8, <2>1
<1>15. Total(M, rest4) = (-s) + Total(M, legacy)
  <2>1. Total(M, rest4) = Total(M, sent) + Total(M, rest4 \ sent)
    BY <1>3, <1>9, <1>10, TotalSplit
  <2> QED
    BY <1>6, <1>9, <2>1
<1>16. NetChange(ids) = d + r - w - s
  BY <1>5 DEF NetChange
<1>17. Total(M, admin) \in Int /\ Total(M, legacy) \in Int
  BY <1>3, <1>9, <1>10
<1> QED
  BY <1>2, <1>4, <1>6, <1>11, <1>12, <1>13, <1>14, <1>15, <1>16, <1>17

(* SummaryExplainsBalance of rows t and the report that is shown.          *)
SummarySays(t, report) ==
  report.op = "MONTHLY_SUMMARY" =>
    LET own == RowsOf(t, report.no)
        month(i) == Month(t[i].created_at)
        before == {i \in NativeIn(t, own) : month(i) < report.month}
        imported == {i \in own \ NativeIn(t, own) : /\ month(i) = report.month
                                                   /\ t[i].type # "LEGACY"}
        byAdmin == {i \in own : /\ month(i) = report.month
                                /\ t[i].type \in {"ADMIN_CREDIT", "ADMIN_DEBIT"}}
    IN  ~report.interrupted /\ (\A i \in NativeIn(t, own) : month(i) <= report.month) =>
          report.balance = SignedSumOf(t, before) + report.net_change
                             - SignedSumOf(t, imported) + SignedSumOf(t, byAdmin)

(* All rows of the month are those of handlers and those imported, and an  *)
(* imported row either counts in the net change or is LEGACY.              *)
LEMMA SummaryStep ==
  ASSUME IInv, Next
  PROVE  SummaryExplainsBalance'
<1> DEFINE own == RowsOf(transactions, reading.no)
           native == NativeIn(transactions, own)
           month(i) == Month(transactions[i].created_at)
           Before(m) == {i \in native : month(i) < m}
           In(m) == {i \in own : month(i) = m}
           Imported(m) == {i \in own \ native : month(i) = m /\ transactions[i].type # "LEGACY"}
           Admin(m) == {i \in own : /\ month(i) = m
                                   /\ transactions[i].type \in {"ADMIN_CREDIT", "ADMIN_DEBIT"}}
<1>1. ASSUME NEW m \in Months, MonthlySummary(m), ~reading.interrupted,
             \A i \in native : month(i) <= m
      PROVE  reading.balance = SignedSumOf(transactions, Before(m)) + NetChange(In(m))
                                 - SignedSumOf(transactions, Imported(m))
                                 + SignedSumOf(transactions, Admin(m))
  <2>1. reading.no \in DOMAIN accounts /\ reading.balance = accounts[reading.no].balance
    BY <1>1, ReadingAccount DEF MonthlySummary, AccountReports
  <2>2. /\ Typed(accounts, NativeTable(transactions), nextId)
        /\ Books(accounts, NativeTable(transactions))
        /\ Held(accounts, transactions, nextId)
    BY DEF IInv, Kept, Good
  <2>3. PICK all, before, in, admin, imported, legacy, written :
          /\ all = native /\ before = Before(m) /\ in = In(m) /\ admin = Admin(m)
          /\ imported = Imported(m) /\ legacy = RowsOfType(In(m), "LEGACY")
          /\ written = {i \in native : month(i) = m}
    OBVIOUS
  <2>4. /\ own \subseteq DOMAIN transactions /\ all \subseteq own /\ in \subseteq own
        /\ before \subseteq all /\ written \subseteq in /\ admin \subseteq in
        /\ imported \subseteq in /\ legacy \subseteq in
    BY <2>3 DEF RowsOf, NativeIn, RowsOfType
  <2>5. written = all \ before
    <3>1. \A i \in native : month(i) \in Int
      BY <2>2 DEF Held, HeldRow, RowsOf, NativeIn
    <3>2. m \in Int
      BY TimesAssumption, LinesAssumption DEF Months, Stamps
    <3> QED
      BY <1>1, <2>3, <3>1, <3>2
  <2>6. \A i \in native : transactions[i].type # "LEGACY"
    <3> SUFFICES ASSUME NEW i \in native PROVE transactions[i].type # "LEGACY"
      OBVIOUS
    <3>1. i \in DOMAIN transactions /\ transactions[i].balance_after # Null
      BY DEF RowsOf, NativeIn
    <3>2. i \in DOMAIN NativeTable(transactions)
          /\ NativeTable(transactions)[i] = transactions[i]
      BY <3>1, NativeColumns
    <3>3. transactions[i].type \in TransactionTypes
      BY <2>2, <3>2 DEF Typed, GoodRow
    <3> QED
      BY <3>3 DEF TransactionTypes, CreditTypes, DebitTypes
  <2>7. in \ written = legacy \union imported /\ legacy \intersect imported = {}
    BY <2>3, <2>6 DEF RowsOfType
  <2>8. PICK M : M = Movements(transactions)
    OBVIOUS
  <2>9. \A rows \in SUBSET DOMAIN transactions :
          /\ IsFiniteSet(rows) /\ Whole(M, rows) /\ Total(M, rows) \in Int
          /\ SignedSumOf(transactions, rows) = Total(M, rows)
    <3> SUFFICES ASSUME NEW rows \in SUBSET DOMAIN transactions
                 PROVE  /\ IsFiniteSet(rows) /\ Whole(M, rows) /\ Total(M, rows) \in Int
                        /\ SignedSumOf(transactions, rows) = Total(M, rows)
      OBVIOUS
    <3>1. IsFiniteSet(rows)
      BY <2>2, RowsHeld, FS_Subset
    <3>2. Whole(M, rows)
      BY <2>2, <2>8, HeldWhole
    <3> QED
      BY <2>8, <3>1, <3>2, TotalInt, SignedSumIs
  <2>10. reading.balance = Total(M, all)
    <3>1. PICK rows : rows = RowsOf(NativeTable(transactions), reading.no)
      OBVIOUS
    <3>2. rows = all
      BY <2>3, <3>1 DEF RowsOf, NativeTable, NativeIn
    <3>3. rows \in SUBSET DOMAIN NativeTable(transactions)
      BY <3>1 DEF RowsOf
    <3>4. reading.balance = Total(Movements(NativeTable(transactions)), rows)
      BY <2>1, <2>2, <3>1 DEF Books
    <3>5. all \in SUBSET DOMAIN transactions
      BY <2>4
    <3>6. SignedSumOf(transactions, rows) = Total(Movements(NativeTable(transactions)), rows)
      BY <3>3, NativeSum
    <3>7. SignedSumOf(transactions, all) = Total(M, all)
      BY <2>9, <3>5
    <3> QED
      BY <3>2, <3>4, <3>6, <3>7
  <2>11. Total(M, all) = Total(M, before) + Total(M, written)
    <3>1. all \in SUBSET DOMAIN transactions
      BY <2>4
    <3>2. IsFiniteSet(all) /\ Whole(M, all)
      BY <2>9, <3>1
    <3> QED
      BY <2>4, <2>5, <3>2, TotalSplit
  <2>12. Total(M, in) = Total(M, written) + Total(M, legacy) + Total(M, imported)
    <3>1. PICK others : others = in \ written
      OBVIOUS
    <3>2. others \ legacy = imported /\ legacy \subseteq others
      BY <2>7, <3>1
    <3>3. in \in SUBSET DOMAIN transactions /\ others \in SUBSET DOMAIN transactions
          /\ written \in SUBSET DOMAIN transactions /\ legacy \in SUBSET DOMAIN transactions
          /\ imported \in SUBSET DOMAIN transactions
      BY <2>4, <3>1
    <3>4. /\ IsFiniteSet(in) /\ Whole(M, in) /\ IsFiniteSet(others) /\ Whole(M, others)
          /\ Total(M, written) \in Int /\ Total(M, legacy) \in Int /\ Total(M, imported) \in Int
      BY <2>9, <3>3
    <3>5. Total(M, in) = Total(M, written) + Total(M, others)
      BY <2>4, <3>1, <3>4, TotalSplit
    <3>6. Total(M, others) = Total(M, legacy) + Total(M, imported)
      BY <3>2, <3>4, TotalSplit
    <3> QED
      BY <3>4, <3>5, <3>6
  <2>13. /\ NetChange(in) \in Int
         /\ Total(M, in) = NetChange(in) + Total(M, admin) + Total(M, legacy)
    <3>1. in \in SUBSET DOMAIN transactions
      BY <2>4
    <3>2. admin = ByAdmin(in) /\ legacy = RowsOfType(in, "LEGACY")
      BY <2>3 DEF ByAdmin
    <3> QED
      BY <2>8, <3>1, <3>2, NetChangeIs
  <2>14. /\ Total(M, before) \in Int /\ SignedSumOf(transactions, before) = Total(M, before)
         /\ Total(M, admin) \in Int /\ SignedSumOf(transactions, admin) = Total(M, admin)
         /\ Total(M, imported) \in Int /\ SignedSumOf(transactions, imported) = Total(M, imported)
         /\ Total(M, legacy) \in Int /\ Total(M, written) \in Int
    <3>1. /\ before \in SUBSET DOMAIN transactions /\ admin \in SUBSET DOMAIN transactions
          /\ imported \in SUBSET DOMAIN transactions /\ legacy \in SUBSET DOMAIN transactions
          /\ written \in SUBSET DOMAIN transactions
      BY <2>4
    <3> QED
      BY <2>9, <3>1
  <2>15. reading.balance = SignedSumOf(transactions, before) + NetChange(in)
                             - SignedSumOf(transactions, imported)
                             + SignedSumOf(transactions, admin)
    <3>1. PICK b, w, l, i, a, c :
            /\ b = Total(M, before) /\ w = Total(M, written) /\ l = Total(M, legacy)
            /\ i = Total(M, imported) /\ a = Total(M, admin) /\ c = NetChange(in)
      OBVIOUS
    <3>2. b \in Int /\ w \in Int /\ l \in Int /\ i \in Int /\ a \in Int /\ c \in Int
      BY <2>13, <2>14, <3>1
    <3>3. w + l + i = c + a + l
      BY <2>12, <2>13, <3>1
    <3>4. reading.balance = b + w
      BY <2>10, <2>11, <3>1
    <3>5. b + w = b + c - i + a
      BY <3>2, <3>3
    <3>6. /\ SignedSumOf(transactions, before) = b
          /\ SignedSumOf(transactions, imported) = i
          /\ SignedSumOf(transactions, admin) = a
      BY <2>14, <3>1
    <3> QED
      BY <3>1, <3>4, <3>5, <3>6
  <2> QED
    BY <2>3, <2>15
<1>2. SummaryExplainsBalance' <=> SummarySays(transactions', shown')
  BY DEF SummaryExplainsBalance, SummarySays, SignedSum, SignedSumOf, Native, NativeIn,
         MapThenSumSet, MapThenFoldSet
<1>3. ASSUME shown'.op = "MONTHLY_SUMMARY"
      PROVE  SummarySays(transactions, shown')
  <2>1. PICK m \in Months : MonthlySummary(m)
    BY <1>3, ShownIs
  <2>2. /\ shown'.no = reading.no /\ shown'.month = m /\ shown'.balance = reading.balance
        /\ shown'.net_change = NetChange(In(m)) /\ shown'.interrupted = reading.interrupted
    BY <2>1 DEF MonthlySummary, Show
  <2> QED
    BY <1>1, <2>1, <2>2 DEF SummarySays
<1>4. transactions' = transactions \/ shown'.op # "MONTHLY_SUMMARY"
  BY ShownIs DEF MonthlySummary, Show, tables
<1>5. shown'.op # "MONTHLY_SUMMARY" => SummarySays(transactions', shown')
  BY DEF SummarySays
<1> QED
  BY <1>2, <1>3, <1>4, <1>5

(* A summary explains the balance of an account's last active month.       *)
THEOREM SummaryCorrect == Spec => []SummaryExplainsBalance
<1>1. Init => SummaryExplainsBalance
  BY DEF Init, SummaryExplainsBalance, NoReport
<1>2. IInv /\ SummaryExplainsBalance /\ [Next]_vars => SummaryExplainsBalance'
  <2>1. SummaryExplainsBalance /\ UNCHANGED vars => SummaryExplainsBalance'
    <3>1. SummaryExplainsBalance <=> SummarySays(transactions, shown)
      BY DEF SummaryExplainsBalance, SummarySays, SignedSum, SignedSumOf,
             Native, NativeIn, MapThenSumSet, MapThenFoldSet
    <3>2. SummaryExplainsBalance' <=> SummarySays(transactions', shown')
      BY DEF SummaryExplainsBalance, SummarySays, SignedSum, SignedSumOf,
             Native, NativeIn, MapThenSumSet, MapThenFoldSet
    <3> QED
      BY <3>1, <3>2 DEF vars, tables
  <2> QED
    BY <2>1, SummaryStep
<1> QED
  BY <1>1, <1>2, Invariance, PTL DEF Spec

-------------------------------------------------------------------------------
(* Listings of accounts and of recent transactions.                        *)
Ascending(S) == {p \in S \X S : p[1] < p[2]}

LEMMA OrderedNumbers ==
  ASSUME NEW S, IsFiniteSet(S), S \subseteq Int
  PROVE  StrictOrder(Ascending(S), S) /\ InOrder(Ordered(S, <), Ascending(S), S)
<1>1. StrictOrder(Ascending(S), S)
  BY DEF StrictOrder, Ascending
<1>2. PICK s : InOrder(s, Ascending(S), S)
  BY <1>1, OrderExists
<1>3. PICK sorted : sorted = Ordered(S, <)
  OBVIOUS
<1>4. sorted = CHOOSE q \in [1 .. Cardinality(S) -> S] : \A j, k \in DOMAIN q : j < k => q[j] < q[k]
  BY <1>3 DEF Ordered
<1>5. /\ s \in [1 .. Cardinality(S) -> S]
      /\ \A j, k \in DOMAIN s : j < k => s[j] < s[k]
  BY <1>2 DEF InOrder, Ascending
<1>6. /\ sorted \in [1 .. Cardinality(S) -> S]
      /\ \A j, k \in DOMAIN sorted : j < k => sorted[j] < sorted[k]
  BY <1>4, <1>5
<1> QED
  BY <1>1, <1>3, <1>6 DEF InOrder, Ascending

LEMMA ListingStep ==
  ASSUME IInv, Next
  PROVE  ListingComplete'
<1> SUFFICES ASSUME shown'.op = "LIST_ACCOUNTS"
             PROVE  \/ /\ shown'.listed = <<"ERR">>
                       /\ Cardinality(DOMAIN accounts') > ListingRoom
                    \/ /\ {shown'.listed[k][1] : k \in DOMAIN shown'.listed} = DOMAIN accounts'
                       /\ \A k \in 1 .. Len(shown'.listed) - 1 :
                            shown'.listed[k][1] < shown'.listed[k + 1][1]
  BY DEF ListingComplete
<1>1. AccountListing
  BY ShownIs
<1>2. PICK sorted : sorted = Ordered(DOMAIN accounts, <)
  OBVIOUS
<1>3. PICK lines : lines = [k \in DOMAIN sorted |-> <<sorted[k], accounts[sorted[k]].balance>>]
  OBVIOUS
<1>4. Show([op |-> "LIST_ACCOUNTS", listed |-> Listing(lines)])
  BY <1>1, <1>2, <1>3, Zenon DEF AccountListing
<1>5. shown'.listed = Listing(lines) /\ accounts' = accounts
  BY <1>4 DEF Show, tables
<1>6. IsFiniteSet(DOMAIN accounts) /\ DOMAIN accounts \subseteq Int
  BY DEF IInv, Kept, Good, Typed
<1>7. /\ InOrder(sorted, Ascending(DOMAIN accounts), DOMAIN accounts)
      /\ StrictOrder(Ascending(DOMAIN accounts), DOMAIN accounts)
  BY <1>2, <1>6, OrderedNumbers
<1>8. PICK m \in Nat : m = Cardinality(DOMAIN accounts)
  BY <1>6, FS_CardinalityType
<1>9. /\ sorted \in [1 .. m -> DOMAIN accounts]
      /\ \A j, k \in 1 .. m : j < k => sorted[j] < sorted[k]
  BY <1>7, <1>8 DEF InOrder, Ascending
<1>10. \A a \in DOMAIN accounts : \E k \in 1 .. m : sorted[k] = a
  BY <1>6, <1>7, <1>8, AllInOrder
<1>11. lines = [k \in 1 .. m |-> <<sorted[k], accounts[sorted[k]].balance>>]
  BY <1>3, <1>9
<1>12. Len(lines) = m /\ DOMAIN lines = 1 .. m
  BY <1>11
<1>13. \A k \in 1 .. m : lines[k][1] = sorted[k]
  BY <1>11
<1>14. CASE m <= ListingRoom
  <2>1. shown'.listed = lines
    BY <1>5, <1>12, <1>14 DEF Listing
  <2>2. {lines[k][1] : k \in DOMAIN lines} = DOMAIN accounts
    <3>1. \A k \in DOMAIN lines : lines[k][1] \in DOMAIN accounts
      BY <1>9, <1>12, <1>13
    <3>2. \A a \in DOMAIN accounts : \E k \in DOMAIN lines : a = lines[k][1]
      BY <1>10, <1>12, <1>13
    <3> QED
      BY <3>1, <3>2, Zenon
  <2>3. \A k \in 1 .. Len(lines) - 1 : lines[k][1] < lines[k + 1][1]
    <3> SUFFICES ASSUME NEW k \in 1 .. Len(lines) - 1 PROVE lines[k][1] < lines[k + 1][1]
      OBVIOUS
    <3>1. k \in 1 .. m /\ k + 1 \in 1 .. m /\ k < k + 1
      BY <1>12
    <3> QED
      BY <1>9, <1>13, <3>1
  <2> QED
    BY <1>5, <2>1, <2>2, <2>3
<1>15. CASE ~ (m <= ListingRoom)
  <2>1. shown'.listed = <<"ERR">>
    BY <1>5, <1>12, <1>15 DEF Listing
  <2> QED
    BY <1>5, <1>8, <1>15, <2>1, LimitsSensible
<1> QED
  BY <1>14, <1>15

(* A listing shows every account in order, or is refused.                  *)
THEOREM ListingCorrect == Spec => []ListingComplete
<1>1. Init => ListingComplete
  BY DEF Init, ListingComplete, NoReport
<1>2. IInv /\ ListingComplete /\ [Next]_vars => ListingComplete'
  <2>1. ListingComplete /\ UNCHANGED vars => ListingComplete'
    BY DEF ListingComplete, vars, tables
  <2> QED
    BY <2>1, ListingStep
<1> QED
  BY <1>1, <1>2, Invariance, PTL DEF Spec

(* RecentIsRecent of rows t and the report that is shown.                  *)
RecentSays(t, report, steady) ==
  report.op = "RECENT_TRANSACTIONS" =>
    /\ Len(report.rows) <= MostRecent
    /\ report.rows = <<>> => DOMAIN t = {}
    /\ \E ids \in [DOMAIN report.rows -> DOMAIN t] :
         /\ \A k \in DOMAIN ids : report.rows[k] = t[ids[k]]
         /\ \A j, k \in DOMAIN ids : j # k => ids[j] # ids[k]
         /\ steady =>
              \A k \in DOMAIN ids, i \in NativeIn(t, DOMAIN t) :
                ids[k] \in NativeIn(t, DOMAIN t) /\ ids[k] < i =>
                  \E j \in 1 .. k - 1 : ids[j] = i

LEMMA RecentStep ==
  ASSUME IInv, NEW limit \in Limits, RecentTransactions(limit)
  PROVE  RecentSays(transactions, shown', SteadyClock)
<1>1. PICK most : most = RecentLimit(limit)
  OBVIOUS
<1>2. most \in 1 .. MostRecent
  BY <1>1, LimitsSensible DEF RecentLimit
<1>3. PICK all : all = DOMAIN transactions
  OBVIOUS
<1>4. PICK rows : rows = Newest(all, most)
  OBVIOUS
<1>5. shown'.op = "RECENT_TRANSACTIONS" /\ shown'.rows = rows
  BY <1>1, <1>3, <1>4 DEF RecentTransactions, Show
<1>6. IsFiniteSet(all) /\ all \subseteq Int
  <2>1. all \in SUBSET DOMAIN transactions
    BY <1>3
  <2> QED
    BY <1>3, <2>1, NewestFirst DEF IInv, Kept, Held
<1>7. PICK s : FirstRows(rows, s, all, most)
  <2>1. all \in SUBSET DOMAIN transactions /\ most \in Int
    BY <1>2, <1>3
  <2>2. \E s : FirstRows(Newest(all, most), s, all, most)
    BY <2>1, NewestRows
  <2> QED
    BY <1>4, <2>2
<1>8. PICK m \in Nat, n \in Nat : n <= m /\ m = Cardinality(all) /\ n = HowMany(all, most)
  <2>1. Cardinality(all) \in Nat
    BY <1>6, FS_CardinalityType
  <2> QED
    BY <1>7, <2>1 DEF FirstRows
<1>9. rows = [k \in 1 .. n |-> transactions[s[k]]] /\ Len(rows) = n /\ DOMAIN rows = 1 .. n
  BY <1>7, <1>8 DEF FirstRows
<1>10. n <= MostRecent /\ (n = 0 => m = 0)
  BY <1>2, <1>8, LimitsSensible DEF HowMany
<1>11. rows = <<>> => DOMAIN transactions = {}
  <2>1. m = 0 => all = {}
    BY <1>6, <1>8, FS_EmptySet
  <2> QED
    BY <1>3, <1>9, <1>10, <2>1
<1>12. InOrder(s, NewerPairs, all) /\ StrictOrder(NewerPairs, all)
  BY <1>3, <1>7, NewerOrders DEF FirstRows
<1>13. s \in [1 .. m -> all] /\ \A j, k \in 1 .. m : j < k => <<s[j], s[k]>> \in NewerPairs
  BY <1>8, <1>12 DEF InOrder
<1>14. PICK ids : ids = [k \in 1 .. n |-> s[k]]
  OBVIOUS
<1>15. 1 .. n \subseteq 1 .. m
  BY <1>8
<1>16. /\ ids \in [DOMAIN rows -> DOMAIN transactions]
       /\ \A k \in 1 .. n : ids[k] = s[k] /\ rows[k] = transactions[ids[k]]
  BY <1>3, <1>9, <1>13, <1>14, <1>15
<1>17. ASSUME NEW j \in 1 .. n, NEW k \in 1 .. n, j # k
       PROVE  ids[j] # ids[k]
  <2>1. j < k \/ k < j
    BY <1>17
  <2>2. <<s[j], s[k]>> \in NewerPairs \/ <<s[k], s[j]>> \in NewerPairs
    BY <1>13, <1>15, <2>1
  <2>3. s[j] \in all /\ s[k] \in all
    BY <1>13, <1>15
  <2> QED
    BY <1>12, <1>16, <2>2, <2>3 DEF StrictOrder
<1>18. ASSUME SteadyClock, NEW k \in 1 .. n, NEW i \in NativeIn(transactions, all),
              ids[k] \in NativeIn(transactions, all), ids[k] < i
       PROVE  \E j \in 1 .. k - 1 : ids[j] = i
  <2>1. PICK row : row = ids[k] /\ row = s[k]
    BY <1>16
  <2>2. row \in DOMAIN NativeTable(transactions) /\ i \in DOMAIN NativeTable(transactions)
    BY <1>3, <1>18, <2>1 DEF NativeIn, NativeTable
  <2>3. row \in Int /\ i \in Int /\ row < i /\ i \in all
    BY <1>6, <1>18, <2>1 DEF NativeIn
  <2>4. <<row, i>> \notin NewerPairs
    BY <1>18, <2>2, <2>3, SteadyOrder
  <2>5. PICK q \in 1 .. m : s[q] = i
    BY <1>6, <1>8, <1>12, <2>3, AllInOrder
  <2>6. k \in 1 .. m
    BY <1>15
  <2>7. ~ (k < q)
    BY <1>13, <2>1, <2>4, <2>5, <2>6
  <2>8. q # k
    BY <2>1, <2>3, <2>5
  <2>9. q \in 1 .. k - 1 /\ q \in 1 .. n
    BY <1>8, <2>6, <2>7, <2>8
  <2> QED
    BY <1>16, <2>5, <2>9
<1>19. DOMAIN ids = 1 .. n
  BY <1>14
<1>20. /\ \A k \in DOMAIN ids : rows[k] = transactions[ids[k]]
       /\ \A j, k \in DOMAIN ids : j # k => ids[j] # ids[k]
       /\ SteadyClock =>
            \A k \in DOMAIN ids, i \in NativeIn(transactions, DOMAIN transactions) :
              ids[k] \in NativeIn(transactions, DOMAIN transactions) /\ ids[k] < i =>
                \E j \in 1 .. k - 1 : ids[j] = i
  BY <1>3, <1>16, <1>17, <1>18, <1>19
<1> QED
  BY <1>5, <1>9, <1>10, <1>11, <1>16, <1>20, LimitsSensible DEF RecentSays

(* The recent transactions are the most recent ones.                       *)
THEOREM RecentCorrect == Spec => []RecentIsRecent
<1>1. Init => RecentIsRecent
  BY DEF Init, RecentIsRecent, NoReport
<1>2. RecentIsRecent <=> RecentSays(transactions, shown, SteadyClock)
  BY DEF RecentIsRecent, RecentSays, Native, NativeIn
<1>3. RecentIsRecent' <=> RecentSays(transactions', shown', SteadyClock')
  BY DEF RecentIsRecent, RecentSays, Native, NativeIn, SteadyClock
<1>4. IInv /\ RecentIsRecent /\ [Next]_vars => RecentIsRecent'
  <2>1. RecentIsRecent /\ UNCHANGED vars => RecentIsRecent'
    <3>1. UNCHANGED vars => /\ transactions' = transactions /\ shown' = shown
                            /\ (SteadyClock' <=> SteadyClock)
      BY DEF vars, tables, clock, SteadyClock
    <3> QED
      BY <1>2, <1>3, <3>1 DEF RecentSays
  <2>2. ASSUME IInv, Next
        PROVE  RecentIsRecent'
    <3>1. CASE shown'.op # "RECENT_TRANSACTIONS"
      BY <1>3, <3>1 DEF RecentSays
    <3>2. CASE shown'.op = "RECENT_TRANSACTIONS"
      <4>1. PICK limit \in Limits : RecentTransactions(limit)
        BY <2>2, <3>2, ShownIs
      <4>2. RecentSays(transactions, shown', SteadyClock)
        BY <2>2, <4>1, RecentStep
      <4>3. transactions' = transactions /\ (SteadyClock' <=> SteadyClock)
        BY <4>1 DEF RecentTransactions, Show, tables, clock, SteadyClock
      <4> QED
        BY <1>3, <4>2, <4>3 DEF RecentSays
    <3> QED
      BY <3>1, <3>2
  <2> QED
    BY <2>1, <2>2
<1> QED
  BY <1>1, <1>4, Invariance, PTL DEF Spec
===============================================================================
