----------------------------- MODULE SumProofs -----------------------------
(***************************************************************************)
(* Sums over finite sets of rows, for the proofs about totals.             *)
(*                                                                         *)
(* SumOf is a fold: the definition unfolds to a function on the subsets of *)
(* S that is chosen by its recursion equation.  That such a function       *)
(* exists, and that any two of them agree, is proved by the smallest       *)
(* counterexample: a nonempty collection of subsets of a finite set has a  *)
(* minimal element, because strict inclusion is well founded.  The same    *)
(* argument then gives how a sum changes with one row; nothing below these *)
(* lemmas uses the fold any more.                                          *)
(***************************************************************************)
EXTENDS Integers, Sums, FiniteSetTheorems, TLAPS

\* The row the fold takes next.
Pick(s) == CHOOSE x \in s : TRUE

\* g gives the sums of r over every subset of S.
Table(r, S, g) ==
    g = [s \in SUBSET S |-> IF s = {} THEN 0 ELSE r[Pick(s)] + g[s \ {Pick(s)}]]
TableOf(r, S) == CHOOSE g : Table(r, S, g)

\* The definition of the fold.
LEMMA SumIsTabled == ASSUME NEW r, NEW S PROVE SumOf(r,S) = TableOf(r, S)[S]
  BY DEF SumOf, MapThenSumSet, MapThenFoldSet, Table, TableOf, Pick

\* A collection of subsets of a finite set has a smallest member.
LEMMA SmallestBadSubset ==
    ASSUME NEW S, IsFiniteSet(S), NEW B \in SUBSET SUBSET S, B # {}
    PROVE  \E s \in B : \A t \in B : t \subseteq s => t = s
PROOF
  <1> DEFINE R == StrictSubsetOrdering(S)
  <1>1. IsWellFoundedOn(R, FiniteSubsetsOf(S))
    BY FS_StrictSubsetOrderingWellFounded
  <1>2. FiniteSubsetsOf(S) = SUBSET S
    BY FS_FiniteSubsetsOfFinite
  <1>3. PICK s \in B : \A t \in B : <<t, s>> \notin R
    <2> HIDE DEF R
    <2> QED BY <1>1, <1>2, WFMin
  <1>4. \A t \in B : t \subseteq s => t = s
    BY <1>3 DEF StrictSubsetOrdering
  <1> QED BY <1>3, <1>4

\* A nonempty set has a row to take next.
LEMMA PickIn == ASSUME NEW s, s # {} PROVE Pick(s) \in s
  BY DEF Pick

\* One step of the recursion.
LEMMA TableApply ==
    ASSUME NEW r, NEW S, NEW g, Table(r, S, g), NEW s \in SUBSET S
    PROVE  g[s] = IF s = {} THEN 0 ELSE r[Pick(s)] + g[s \ {Pick(s)}]
  BY DEF Table

\* Two tables agree wherever both are defined.
LEMMA TablesAgree ==
    ASSUME NEW S, NEW T, NEW U, IsFiniteSet(U), U \subseteq S, U \subseteq T,
           NEW r, NEW g, NEW h, Table(r, S, g), Table(r, T, h)
    PROVE  g[U] = h[U]
PROOF
  <1>g. \A u \in SUBSET S : g[u] = IF u = {} THEN 0 ELSE r[Pick(u)] + g[u \ {Pick(u)}]
    BY TableApply
  <1>h. \A u \in SUBSET T : h[u] = IF u = {} THEN 0 ELSE r[Pick(u)] + h[u \ {Pick(u)}]
    BY TableApply
  <1> DEFINE B == {u \in SUBSET U : g[u] # h[u]}
  <1>1. SUFFICES ASSUME B # {} PROVE FALSE
    BY SMT
  <1>2. PICK s \in B : \A t \in B : t \subseteq s => t = s
    <2> HIDE DEF B
    <2>1. B \in SUBSET SUBSET U
      BY DEF B
    <2> QED BY <1>1, <2>1, SmallestBadSubset
  <1>0. s \in SUBSET S /\ s \in SUBSET T
    OBVIOUS
  <1>a. g[s] = IF s = {} THEN 0 ELSE r[Pick(s)] + g[s \ {Pick(s)}]
    BY <1>0, <1>g
  <1>b. h[s] = IF s = {} THEN 0 ELSE r[Pick(s)] + h[s \ {Pick(s)}]
    BY <1>0, <1>h
  <1>3. s # {}
    BY <1>2, <1>a, <1>b
  <1> DEFINE p == Pick(s)
  <1>4. p \in s
    BY <1>3, PickIn
  <1>5. g[s \ {p}] = h[s \ {p}]
    BY <1>2, <1>4
  <1>6. g[s] = r[p] + g[s \ {p}] /\ h[s] = r[p] + h[s \ {p}]
    BY <1>a, <1>b, <1>3
  <1> QED BY <1>2, <1>5, <1>6

\* The same for a table and that of a subset, ...
LEMMA NestedTables ==
    ASSUME NEW u, NEW v, IsFiniteSet(v), v \subseteq u, v \subseteq v,
           NEW r, NEW gu, NEW gv, Table(r, u, gu), Table(r, v, gv)
    PROVE  gu[v] = gv[v]
  BY TablesAgree, SMT

\* ... and for the tables that SumOf takes.
LEMMA SubtableAgrees ==
    ASSUME NEW u, NEW v, IsFiniteSet(v), v \subseteq u, NEW r,
           Table(r, u, TableOf(r, u)), Table(r, v, TableOf(r, v))
    PROVE  TableOf(r, u)[v] = TableOf(r, v)[v]
PROOF
  <1>1. v \subseteq v
    OBVIOUS
  <1> QED BY <1>1, NestedTables, SMT

\* A finite set has a table: that of each subset takes one row more than one
\* before.
LEMMA TableExists ==
    ASSUME NEW S, IsFiniteSet(S), NEW r
    PROVE  Table(r, S, TableOf(r, S))
PROOF
  <1> DEFINE B == {s \in SUBSET S : ~ \E g : Table(r, s, g)}
  <1>1. SUFFICES ASSUME B # {} PROVE FALSE
    <2>1. S \notin B => \E g : Table(r, S, g)
      OBVIOUS
    <2> QED BY <2>1 DEF TableOf
  <1>2. PICK s \in B : \A t \in B : t \subseteq s => t = s
    <2> HIDE DEF B
    <2>1. B \in SUBSET SUBSET S
      BY DEF B
    <2> QED BY <1>1, <2>1, SmallestBadSubset
  <1>3. \A t \in SUBSET s : t # s => Table(r, t, TableOf(r, t)) 
    BY <1>2 DEF TableOf
  <1> DEFINE g == [t \in SUBSET s |-> IF t = {} THEN 0
                                      ELSE r[Pick(t)] + TableOf(r, t \ {Pick(t)})[t \ {Pick(t)}]]
  <1>4. \A u \in SUBSET s : u # s => TableOf(r, u)[u] = g[u]
    <2> SUFFICES ASSUME NEW u \in SUBSET s, u # s PROVE TableOf(r, u)[u] = g[u]
      OBVIOUS
    <2>1. CASE u = {}
      BY <2>1, <1>3, TableApply
    <2>2. CASE u # {}
      <3> DEFINE v == u \ {Pick(u)}
      <3>1. Pick(u) \in u
        BY <2>2, PickIn
      <3>2. TableOf(r, u)[u] = r[Pick(u)] + TableOf(r, u)[v]
        BY <2>2, <1>3, TableApply
      <3>3. IsFiniteSet(v)
        BY <1>2, FS_Subset
      <3>4. Table(r, u, TableOf(r, u)) /\ Table(r, v, TableOf(r, v))
        BY <1>3, <3>1
      <3>5. TableOf(r, u)[v] = TableOf(r, v)[v]
        <4>1. v \subseteq u /\ v \subseteq v
          OBVIOUS
        <4> HIDE DEF v, B, g
        <4> QED BY <3>3, <3>4, <4>1, SubtableAgrees
      <3> QED BY <3>2, <3>5, <2>2
    <2> QED BY <2>1, <2>2
  <1>5. Table(r, s, g)
    <2>1. \A t \in SUBSET s : t # {} =>
             TableOf(r, t \ {Pick(t)})[t \ {Pick(t)}] = g[t \ {Pick(t)}]
      BY <1>4, PickIn
    <2>2. g = [t \in SUBSET s |-> IF t = {} THEN 0 ELSE r[Pick(t)] + g[t \ {Pick(t)}]]
      <3> DEFINE h == [t \in SUBSET s |-> IF t = {} THEN 0 ELSE r[Pick(t)] + g[t \ {Pick(t)}]]
      <3>1. \A t \in SUBSET s : g[t] = h[t]
        BY <2>1
      <3> QED BY <3>1
    <2> HIDE DEF g
    <2> QED BY <2>2 DEF Table
  <1> QED BY <1>2, <1>5

-----------------------------------------------------------------------------
(* What sums do.                                                           *)

\* No row.
LEMMA SumEmpty == ASSUME NEW r PROVE SumOf(r, {}) = 0
PROOF
  <1>1. IsFiniteSet({})
    BY FS_EmptySet
  <1>2. Table(r, {}, TableOf(r, {}))
    BY <1>1, TableExists
  <1> QED BY <1>2, SumIsTabled, TableApply

\* The row that is taken first, and the rest.
LEMMA SumUnfold ==
    ASSUME NEW S, IsFiniteSet(S), S # {}, NEW r
    PROVE  /\ Pick(S) \in S
           /\ SumOf(r, S) = r[Pick(S)] + SumOf(r, S \ {Pick(S)})
PROOF
  <1> DEFINE V == S \ {Pick(S)}
  <1>1. Pick(S) \in S
    BY PickIn
  <1>2. IsFiniteSet(V) /\ V \subseteq S
    BY FS_Subset
  <1>3. Table(r, S, TableOf(r, S)) /\ Table(r, V, TableOf(r, V))
    BY <1>2, TableExists
  <1>4. TableOf(r, S)[S] = r[Pick(S)] + TableOf(r, S)[V]
    BY <1>3, TableApply
  <1>5. TableOf(r, S)[V] = TableOf(r, V)[V]
    <2> HIDE DEF V
    <2> QED BY <1>2, <1>3, SubtableAgrees
  <1>6. SumOf(r, S) = TableOf(r, S)[S] /\ SumOf(r, V) = TableOf(r, V)[V]
    BY SumIsTabled
  <1> QED BY <1>1, <1>4, <1>5, <1>6

\* Only the rows of S matter.
LEMMA SumAgree ==
    ASSUME NEW S, IsFiniteSet(S), NEW r, NEW q, \A x \in S : r[x] = q[x]
    PROVE  SumOf(r, S) = SumOf(q, S)
PROOF
  <1> DEFINE B == {u \in SUBSET S : SumOf(r, u) # SumOf(q, u)}
  <1>1. SUFFICES ASSUME B # {} PROVE FALSE
    OBVIOUS
  <1>2. PICK s \in B : \A t \in B : t \subseteq s => t = s
    <2> HIDE DEF B
    <2>1. B \in SUBSET SUBSET S
      BY DEF B
    <2> QED BY <1>1, <2>1, SmallestBadSubset
  <1>3. IsFiniteSet(s)
    BY FS_Subset
  <1>4. s # {}
    BY SumEmpty
  <1>5. /\ Pick(s) \in s
        /\ SumOf(r, s) = r[Pick(s)] + SumOf(r, s \ {Pick(s)})
        /\ SumOf(q, s) = q[Pick(s)] + SumOf(q, s \ {Pick(s)})
    BY <1>3, <1>4, SumUnfold
  <1>6. SumOf(r, s \ {Pick(s)}) = SumOf(q, s \ {Pick(s)})
    BY <1>2, <1>5
  <1> QED BY <1>2, <1>5, <1>6

\* A sum of integers is one, ...
LEMMA SumInt ==
    ASSUME NEW S, IsFiniteSet(S), NEW r, \A x \in S : r[x] \in Int
    PROVE  SumOf(r, S) \in Int
PROOF
  <1> DEFINE B == {u \in SUBSET S : SumOf(r, u) \notin Int}
  <1>1. SUFFICES ASSUME B # {} PROVE FALSE
    OBVIOUS
  <1>2. PICK s \in B : \A t \in B : t \subseteq s => t = s
    <2> HIDE DEF B
    <2>1. B \in SUBSET SUBSET S
      BY DEF B
    <2> QED BY <1>1, <2>1, SmallestBadSubset
  <1>3. IsFiniteSet(s)
    BY FS_Subset
  <1>4. s # {}
    BY SumEmpty
  <1>5. Pick(s) \in s /\ SumOf(r, s) = r[Pick(s)] + SumOf(r, s \ {Pick(s)})
    BY <1>3, <1>4, SumUnfold
  <1>6. SumOf(r, s \ {Pick(s)}) \in Int
    BY <1>2, <1>5
  <1> QED BY <1>5, <1>6

\* ... and of naturals.
LEMMA SumNat ==
    ASSUME NEW S, IsFiniteSet(S), NEW r, \A x \in S : r[x] \in Nat
    PROVE  SumOf(r, S) \in Nat
PROOF
  <1> DEFINE B == {u \in SUBSET S : SumOf(r, u) \notin Nat}
  <1>1. SUFFICES ASSUME B # {} PROVE FALSE
    OBVIOUS
  <1>2. PICK s \in B : \A t \in B : t \subseteq s => t = s
    <2> HIDE DEF B
    <2>1. B \in SUBSET SUBSET S
      BY DEF B
    <2> QED BY <1>1, <2>1, SmallestBadSubset
  <1>3. IsFiniteSet(s)
    BY FS_Subset
  <1>4. s # {}
    BY SumEmpty
  <1>5. Pick(s) \in s /\ SumOf(r, s) = r[Pick(s)] + SumOf(r, s \ {Pick(s)})
    BY <1>3, <1>4, SumUnfold
  <1>6. SumOf(r, s \ {Pick(s)}) \in Nat
    BY <1>2, <1>5
  <1> QED BY <1>5, <1>6

\* Rows that hold nothing.
LEMMA SumZero ==
    ASSUME NEW S, IsFiniteSet(S), NEW r, \A x \in S : r[x] = 0
    PROVE  SumOf(r, S) = 0
PROOF
  <1> DEFINE B == {u \in SUBSET S : SumOf(r, u) # 0}
  <1>1. SUFFICES ASSUME B # {} PROVE FALSE
    OBVIOUS
  <1>2. PICK s \in B : \A t \in B : t \subseteq s => t = s
    <2> HIDE DEF B
    <2>1. B \in SUBSET SUBSET S
      BY DEF B
    <2> QED BY <1>1, <2>1, SmallestBadSubset
  <1>3. IsFiniteSet(s)
    BY FS_Subset
  <1>4. s # {}
    BY SumEmpty
  <1>5. Pick(s) \in s /\ SumOf(r, s) = r[Pick(s)] + SumOf(r, s \ {Pick(s)})
    BY <1>3, <1>4, SumUnfold
  <1>6. SumOf(r, s \ {Pick(s)}) = 0
    BY <1>2, <1>5
  <1> QED BY <1>2, <1>5, <1>6

\* Any row may be taken first.
LEMMA SumRemove ==
    ASSUME NEW S, IsFiniteSet(S), NEW r, \A y \in S : r[y] \in Int, NEW x \in S
    PROVE  SumOf(r, S) = r[x] + SumOf(r, S \ {x})
PROOF
  <1> DEFINE Bad(u) == \E y \in u : SumOf(r, u) # r[y] + SumOf(r, u \ {y})
             B == {u \in SUBSET S : Bad(u)}
  <1>1. SUFFICES ASSUME B # {} PROVE FALSE
    OBVIOUS
  <1>2. PICK s \in B : \A t \in B : t \subseteq s => t = s
    <2> HIDE DEF B
    <2>1. B \in SUBSET SUBSET S
      BY DEF B
    <2> QED BY <1>1, <2>1, SmallestBadSubset
  <1>3. PICK y \in s : SumOf(r, s) # r[y] + SumOf(r, s \ {y})
    BY <1>2
  <1>4. \A u \in SUBSET S : IsFiniteSet(u)
    BY FS_Subset
  <1>5. \A u \in SUBSET S : u # s /\ u \subseteq s =>
           \A z \in u : SumOf(r, u) = r[z] + SumOf(r, u \ {z})
    BY <1>2
  <1>0. s \in SUBSET S
    OBVIOUS
  <1> HIDE DEF B
  <1> DEFINE p == Pick(s)
             both == s \ {p, y}
  <1>6. p \in s /\ SumOf(r, s) = r[p] + SumOf(r, s \ {p})
    BY <1>0, <1>3, <1>4, SumUnfold
  <1>7. p # y
    BY <1>3, <1>6
  <1>8. SumOf(r, s \ {p}) = r[y] + SumOf(r, (s \ {p}) \ {y})
    <2>1. s \ {p} \in SUBSET S /\ s \ {p} # s /\ s \ {p} \subseteq s /\ y \in s \ {p}
      BY <1>0, <1>3, <1>6, <1>7
    <2> QED BY <2>1, <1>5
  <1>9. SumOf(r, s \ {y}) = r[p] + SumOf(r, (s \ {y}) \ {p})
    <2>1. s \ {y} \in SUBSET S /\ s \ {y} # s /\ s \ {y} \subseteq s /\ p \in s \ {y}
      BY <1>0, <1>3, <1>6, <1>7
    <2> QED BY <2>1, <1>5
  <1>10. (s \ {p}) \ {y} = both /\ (s \ {y}) \ {p} = both
    OBVIOUS
  <1>11. SumOf(r, both) \in Int /\ r[p] \in Int /\ r[y] \in Int
    <2>1. both \in SUBSET S /\ \A z \in both : r[z] \in Int
      BY <1>0
    <2>2. SumOf(r, both) \in Int
      <3> HIDE DEF both
      <3> QED BY <2>1, <1>4, SumInt
    <2> QED BY <1>0, <1>6, <2>2
  <1>12. SumOf(r, s) = r[p] + (r[y] + SumOf(r, both))
    BY <1>6, <1>8, <1>10
  <1>13. SumOf(r, s \ {y}) = r[p] + SumOf(r, both)
    BY <1>9, <1>10
  <1> HIDE DEF both
  <1> QED BY <1>3, <1>11, <1>12, <1>13

\* One row changes.
LEMMA SumChange ==
    ASSUME NEW S, IsFiniteSet(S), NEW r, NEW q, NEW x \in S,
           \A y \in S : r[y] \in Int, \A y \in S : q[y] \in Int,
           \A y \in S \ {x} : q[y] = r[y]
    PROVE  SumOf(q, S) = SumOf(r, S) - r[x] + q[x]
PROOF
  <1> DEFINE V == S \ {x}
  <1>1. IsFiniteSet(V) /\ \A y \in V : r[y] \in Int
    BY FS_Subset
  <1>2. SumOf(r, S) = r[x] + SumOf(r, V) /\ SumOf(q, S) = q[x] + SumOf(q, V)
    BY SumRemove
  <1>3. SumOf(q, V) = SumOf(r, V) /\ SumOf(r, V) \in Int
    <2> HIDE DEF V
    <2>1. \A y \in V : q[y] = r[y]
      BY DEF V
    <2> QED BY <1>1, <2>1, SumAgree, SumInt
  <1> HIDE DEF V
  <1> QED BY <1>2, <1>3

\* One row more.
LEMMA SumAdd ==
    ASSUME NEW S, IsFiniteSet(S), NEW x, x \notin S, NEW r, NEW q,
           \A y \in S : r[y] \in Int /\ q[y] = r[y], q[x] \in Int
    PROVE  SumOf(q, S \union {x}) = SumOf(r, S) + q[x]
PROOF
  <1> DEFINE V == S \union {x}
  <1>1. IsFiniteSet(V)
    BY FS_AddElement
  <1>2. V \ {x} = S /\ x \in V /\ \A y \in V : q[y] \in Int
    OBVIOUS
  <1>3. SumOf(q, V) = q[x] + SumOf(q, V \ {x})
    <2> HIDE DEF V
    <2> QED
      BY <1>1, <1>2, SumRemove
  <1>4. SumOf(q, V \ {x}) = SumOf(q, S)
    BY <1>2
  <1>5. SumOf(q, S) = SumOf(r, S) /\ SumOf(r, S) \in Int
    BY SumAgree, SumInt
  <1> QED
    BY <1>3, <1>4, <1>5

\* Larger rows, larger sum.
LEMMA SumMonotone ==
    ASSUME NEW S, IsFiniteSet(S), NEW r, NEW q,
           \A x \in S : r[x] \in Int /\ q[x] \in Int /\ r[x] <= q[x]
    PROVE  SumOf(r, S) <= SumOf(q, S)
PROOF
  <1> DEFINE B == {u \in SUBSET S : ~(SumOf(r, u) <= SumOf(q, u))}
  <1>1. SUFFICES ASSUME B # {} PROVE FALSE
    OBVIOUS
  <1>2. PICK s \in B : \A t \in B : t \subseteq s => t = s
    <2> HIDE DEF B
    <2>1. B \in SUBSET SUBSET S
      BY DEF B
    <2> QED
      BY <1>1, <2>1, SmallestBadSubset
  <1>3. \A u \in SUBSET S : IsFiniteSet(u)
    BY FS_Subset
  <1>4. s # {}
    <2>1. SumOf(r, {}) = 0 /\ SumOf(q, {}) = 0
      BY SumEmpty
    <2> QED
      BY <2>1
  <1> DEFINE p == Pick(s)
             v == s \ {p}
  <1>5. p \in s /\ SumOf(r, s) = r[p] + SumOf(r, v) /\ SumOf(q, s) = q[p] + SumOf(q, v)
    BY <1>3, <1>4, SumUnfold
  <1>6. SumOf(r, v) <= SumOf(q, v)
    BY <1>2, <1>5
  <1>7. SumOf(r, v) \in Int /\ SumOf(q, v) \in Int
    <2>1. v \in SUBSET S /\ (\A x \in v : r[x] \in Int) /\ (\A x \in v : q[x] \in Int)
      OBVIOUS
    <2> HIDE DEF v
    <2> QED
      BY <1>3, <2>1, SumInt
  <1>8. r[p] \in Int /\ q[p] \in Int /\ r[p] <= q[p] /\ ~(SumOf(r, s) <= SumOf(q, s))
    BY <1>5
  <1> HIDE DEF v, p, B
  <1> QED
    BY <1>5, <1>6, <1>7, <1>8

\* More rows, none negative, larger sum.
LEMMA SumSubset ==
    ASSUME NEW T, IsFiniteSet(T), NEW S \in SUBSET T, NEW r, \A x \in T : r[x] \in Nat
    PROVE  SumOf(r, S) <= SumOf(r, T)
PROOF
  <1> DEFINE B == {u \in SUBSET T : ~(SumOf(r, u \cap S) <= SumOf(r, u))}
  <1>1. SUFFICES ASSUME B # {} PROVE FALSE
    <2>1. T \notin B /\ T \cap S = S
      OBVIOUS
    <2> QED
      BY <2>1
  <1>2. PICK s \in B : \A t \in B : t \subseteq s => t = s
    <2> HIDE DEF B
    <2>1. B \in SUBSET SUBSET T
      BY DEF B
    <2> QED
      BY <1>1, <2>1, SmallestBadSubset
  <1>3. \A u \in SUBSET T : IsFiniteSet(u) /\ \A x \in u : r[x] \in Int /\ r[x] \in Nat
    BY FS_Subset
  <1>4. s # {}
    <2>1. SumOf(r, {}) = 0 /\ {} \cap S = {}
      BY SumEmpty
    <2> QED
      BY <2>1
  <1> DEFINE p == Pick(s)
             v == s \ {p}
  <1>5. p \in s /\ SumOf(r, s) = r[p] + SumOf(r, v)
    BY <1>3, <1>4, SumUnfold
  <1>6. SumOf(r, v \cap S) <= SumOf(r, v)
    BY <1>2, <1>5
  <1>7. /\ p \in S => SumOf(r, s \cap S) = r[p] + SumOf(r, v \cap S)
        /\ p \notin S => SumOf(r, s \cap S) = SumOf(r, v \cap S)
    <2>1. p \notin S => s \cap S = v \cap S
      OBVIOUS
    <2>2. ASSUME p \in S PROVE SumOf(r, s \cap S) = r[p] + SumOf(r, v \cap S)
      <3>1. s \cap S \in SUBSET T /\ p \in s \cap S /\ (s \cap S) \ {p} = v \cap S
        BY <1>5, <2>2
      <3>2. IsFiniteSet(s \cap S) /\ \A x \in s \cap S : r[x] \in Int
        BY <1>3, <3>1
      <3> DEFINE w == s \cap S
      <3>3. SumOf(r, w) = r[p] + SumOf(r, w \ {p})
        <4> HIDE DEF p, w
        <4> QED
          BY <3>1, <3>2, SumRemove DEF w
      <3> QED
        BY <3>1, <3>3
    <2> QED
      BY <2>1, <2>2
  <1>8. SumOf(r, v) \in Int /\ SumOf(r, v \cap S) \in Int
    <2>1. v \in SUBSET T /\ v \cap S \in SUBSET T
      OBVIOUS
    <2> HIDE DEF v
    <2> QED
      BY <1>3, <2>1, SumInt
  <1>9. r[p] \in Nat /\ ~(SumOf(r, s \cap S) <= SumOf(r, s))
    BY <1>5
  <1> HIDE DEF v, p, B
  <1> QED
    BY <1>5, <1>6, <1>7, <1>8, <1>9

\* Rows that are zero do not count.
LEMMA SumSupport ==
    ASSUME NEW T, IsFiniteSet(T), NEW S \in SUBSET T, NEW r, \A x \in T : r[x] \in Int,
           \A x \in T \ S : r[x] = 0
    PROVE  SumOf(r, T) = SumOf(r, S)
PROOF
  <1> DEFINE B == {u \in SUBSET T : SumOf(r, u \cap S) # SumOf(r, u)}
  <1>1. SUFFICES ASSUME B # {} PROVE FALSE
    <2>1. T \notin B /\ T \cap S = S
      OBVIOUS
    <2> QED
      BY <2>1
  <1>2. PICK s \in B : \A t \in B : t \subseteq s => t = s
    <2> HIDE DEF B
    <2>1. B \in SUBSET SUBSET T
      BY DEF B
    <2> QED
      BY <1>1, <2>1, SmallestBadSubset
  <1>3. \A u \in SUBSET T : IsFiniteSet(u) /\ \A x \in u : r[x] \in Int
    BY FS_Subset
  <1>4. s # {}
    <2>1. SumOf(r, {}) = 0 /\ {} \cap S = {}
      BY SumEmpty
    <2> QED
      BY <2>1
  <1> DEFINE p == Pick(s)
             v == s \ {p}
  <1>5. p \in s /\ SumOf(r, s) = r[p] + SumOf(r, v)
    BY <1>3, <1>4, SumUnfold
  <1>6. SumOf(r, v \cap S) = SumOf(r, v)
    BY <1>2, <1>5
  <1>7. /\ p \in S => SumOf(r, s \cap S) = r[p] + SumOf(r, v \cap S)
        /\ p \notin S => SumOf(r, s \cap S) = SumOf(r, v \cap S)
    <2>1. p \notin S => s \cap S = v \cap S
      OBVIOUS
    <2>2. ASSUME p \in S PROVE SumOf(r, s \cap S) = r[p] + SumOf(r, v \cap S)
      <3>1. s \cap S \in SUBSET T /\ p \in s \cap S /\ (s \cap S) \ {p} = v \cap S
        BY <1>5, <2>2
      <3>2. IsFiniteSet(s \cap S) /\ \A x \in s \cap S : r[x] \in Int
        BY <1>3, <3>1
      <3> DEFINE w == s \cap S
      <3>3. SumOf(r, w) = r[p] + SumOf(r, w \ {p})
        <4> HIDE DEF p, w
        <4> QED
          BY <3>1, <3>2, SumRemove DEF w
      <3> QED
        BY <3>1, <3>3
    <2> QED
      BY <2>1, <2>2
  <1>8. SumOf(r, v) \in Int /\ SumOf(r, v \cap S) \in Int
    <2>1. v \in SUBSET T /\ v \cap S \in SUBSET T
      OBVIOUS
    <2> HIDE DEF v
    <2> QED
      BY <1>3, <2>1, SumInt
  <1>9. r[p] \in Int /\ (p \notin S => r[p] = 0) /\ SumOf(r, s \cap S) # SumOf(r, s)
    BY <1>3, <1>5
  <1> HIDE DEF v, p, B
  <1> QED
    BY <1>5, <1>6, <1>7, <1>8, <1>9

\* A row is part of the sum.
LEMMA SumEntry ==
    ASSUME NEW S, IsFiniteSet(S), NEW r, \A y \in S : r[y] \in Nat, NEW x \in S
    PROVE  r[x] <= SumOf(r, S)
PROOF
  <1> DEFINE V == S \ {x}
  <1>1. SumOf(r, S) = r[x] + SumOf(r, V)
    BY SumRemove
  <1>2. IsFiniteSet(V) /\ \A y \in V : r[y] \in Nat
    BY FS_Subset
  <1>3. SumOf(r, V) \in Nat
    <2> HIDE DEF V
    <2> QED
      BY <1>2, SumNat
  <1> QED
    BY <1>1, <1>3
=============================================================================
