------------------------ MODULE ReceiptReviewsProofs ------------------------
(***************************************************************************)
(* Proofs about ReceiptReviews.tla, for every number of trucks, sizes,     *)
(* bags, people and requests in flight.                                    *)
(***************************************************************************)
EXTENDS ReceiptReviews, FiniteSetTheorems, WellFoundedInduction, TLAPS

USE TruckAssumption, PeopleAssumption

-----------------------------------------------------------------------------
(* What a request remembers. *)

\* The step and the operation of a request say which record it keeps.
LEMMA Remembers ==
  ASSUME TypeOK, NEW r \in Request
  PROVE  /\ Doing(r, "receive", "asked") => call[r] \in Receiving
         /\ Doing(r, "receive", "locked") => call[r] \in Receiving
         /\ Doing(r, "receive", "stocked") => call[r] \in Receiving
         /\ Doing(r, "receive", "numbered") => call[r] \in Recording
         /\ Doing(r, "decide", "asked") => call[r] \in Deciding
         /\ Doing(r, "decide", "read") => call[r] \in Emptying
         /\ Doing(r, "decide", "written") => call[r] \in Emptying
         /\ Doing(r, "decide", "stocked") => call[r] \in Emptying
         /\ call[r].step = "looked" => call[r] \in Receiving \cup Emptying
         /\ Doing(r, "decide", "numbered") => call[r] \in Emptying
         /\ call[r] # Idle =>
              \/ call[r] \in Receiving \/ call[r] \in Recording
              \/ call[r] \in Deciding \/ call[r] \in Emptying
<1>1. call[r] \in {Idle} \cup Receiving \cup Recording \cup Deciding \cup Emptying
  BY DEF TypeOK
<1>2. Idle.step = "idle"
  BY DEF Idle
<1>3. \A c \in Receiving :
         c.step \in {"asked", "locked", "looked", "stocked"} /\ c.op = "receive"
  BY DEF Receiving
<1>4. \A c \in Recording : c.step = "numbered" /\ c.op = "receive"
  BY DEF Recording
<1>5. \A c \in Deciding : c.step = "asked" /\ c.op = "decide"
  BY DEF Deciding
<1>6. \A c \in Emptying :
         c.step \in {"read", "written", "looked", "stocked", "numbered"} /\ c.op = "decide"
  BY DEF Emptying
<1> QED  BY <1>1, <1>2, <1>3, <1>4, <1>5, <1>6 DEF Doing

\* None of these records is that of a request which is not at work.
LEMMA AtWork ==
  ASSUME NEW c \in Receiving \cup Recording \cup Deciding \cup Emptying
  PROVE  c # Idle /\ c.step # "idle"
<1>1. Idle.step = "idle"
  BY DEF Idle
<1>2. c.step # "idle"
  BY DEF Receiving, Recording, Deciding, Emptying
<1> QED  BY <1>1, <1>2

-----------------------------------------------------------------------------
(* Sums.  SumFunctionOnSet adds a function up one member at a time, in an   *)
(* order that nobody knows.  Over naturals that is to count units: f[x] for *)
(* each x.  What holds of sums is then a matter of finite sets.             *)

Pick(s) == CHOOSE x \in s : TRUE
Plus(m, n) == m + n
\* h adds f up over each part of S, as the fold does.
Adds(h, f, S) ==
    h = [s \in SUBSET S |-> IF s = {} THEN 0 ELSE Plus(f[Pick(s)], h[s \ {Pick(s)}])]
Units(f, S) == UNION {{x} \X (1 .. f[x]) : x \in S}

LEMMA SumIs ==
  ASSUME NEW f, NEW S
  PROVE  SumFunctionOnSet(f, S) = (CHOOSE h : Adds(h, f, S))[S]
BY DEF SumFunctionOnSet, FoldFunctionOnSet, MapThenFoldSet, Adds, Pick, Plus

\* There is only one such h.
LEMMA AddsOnce ==
  ASSUME NEW f, NEW S, IsFiniteSet(S), NEW g, NEW h, Adds(g, f, S), Adds(h, f, S)
  PROVE  g[S] = h[S]
<1> DEFINE Bad == {A \in SUBSET S : g[A] # h[A]}
<1> SUFFICES ASSUME Bad # {} PROVE FALSE
  OBVIOUS
<1>1. IsWellFoundedOn(StrictSubsetOrdering(S), SUBSET S)
  BY FS_FiniteSubsetsOfFinite, FS_StrictSubsetOrderingWellFounded
<1>2. PICK A \in Bad : \A B \in Bad : <<B, A>> \notin StrictSubsetOrdering(S)
  <2>1. Bad \subseteq SUBSET S
    OBVIOUS
  <2> HIDE DEF Bad
  <2> QED  BY <1>1, <2>1, WFMin
<1>3. A # {}
  BY DEF Adds
<1>4. PICK B : B = A \ {Pick(A)}
  OBVIOUS
<1>5. B \in SUBSET S /\ <<B, A>> \in StrictSubsetOrdering(S)
  BY <1>3, <1>4 DEF Pick, StrictSubsetOrdering
<1>6. g[B] = h[B]
  BY <1>2, <1>5
<1>7. g[A] = Plus(f[Pick(A)], g[B]) /\ h[A] = Plus(f[Pick(A)], h[B])
  BY <1>3, <1>4 DEF Adds
<1> QED  BY <1>6, <1>7

LEMMA DisjointUnion ==
  ASSUME NEW A, NEW B, IsFiniteSet(A), IsFiniteSet(B), A \cap B = {}
  PROVE  Cardinality(A \cup B) = Cardinality(A) + Cardinality(B)
<1>1. Cardinality(A) \in Nat /\ Cardinality(B) \in Nat /\ Cardinality(A \cap B) = 0
  BY FS_EmptySet, FS_CardinalityType
<1>2. Cardinality(A \cup B) = Cardinality(A) + Cardinality(B) - Cardinality(A \cap B)
  BY FS_Union
<1> QED  BY <1>1, <1>2

LEMMA UnitsOfOne ==
  ASSUME NEW f, NEW x, f[x] \in Nat
  PROVE  IsFiniteSet(Units(f, {x})) /\ Cardinality(Units(f, {x})) = f[x]
<1>1. Units(f, {x}) = {x} \X (1 .. f[x])
  BY DEF Units
<1>2. IsFiniteSet({x}) /\ Cardinality({x}) = 1
  BY FS_Singleton
<1>3. IsFiniteSet(1 .. f[x]) /\ Cardinality(1 .. f[x]) = f[x]
  BY FS_Interval, SMTT(20)
<1>4. /\ IsFiniteSet({x} \X (1 .. f[x]))
      /\ Cardinality({x} \X (1 .. f[x])) = Cardinality({x}) * Cardinality(1 .. f[x])
  BY <1>2, <1>3, FS_Product
<1>5. 1 * f[x] = f[x]
  OBVIOUS
<1> QED  BY <1>1, <1>2, <1>3, <1>4, <1>5

LEMMA UnitsFinite ==
  ASSUME NEW f, NEW S, IsFiniteSet(S), \A x \in S : f[x] \in Nat
  PROVE  IsFiniteSet(Units(f, S))
<1> DEFINE g == [x \in S |-> {x} \X (1 .. f[x])]
           R == {g[x] : x \in S}
<1>1. g \in Surjection(S, R)
  BY DEF Surjection
<1>2. IsFiniteSet(R)
  BY <1>1, FS_Surjection
<1>3. ASSUME NEW T \in R PROVE IsFiniteSet(T)
  <2>1. PICK x \in S : T = Units(f, {x})
    BY DEF Units
  <2> QED  BY <2>1, UnitsOfOne
<1>4. Units(f, S) = UNION R
  BY DEF Units
<1> QED  BY <1>2, <1>3, <1>4, FS_UNION

\* Two parts of a set have no unit in common.
LEMMA UnitsSplit ==
  ASSUME NEW f, NEW S, IsFiniteSet(S), \A x \in S : f[x] \in Nat, NEW T \in SUBSET S
  PROVE  /\ Cardinality(Units(f, S)) = Cardinality(Units(f, T)) + Cardinality(Units(f, S \ T))
         /\ Cardinality(Units(f, T)) \in Nat /\ Cardinality(Units(f, S \ T)) \in Nat
<1>1. IsFiniteSet(Units(f, T)) /\ IsFiniteSet(Units(f, S \ T))
  <2>1. IsFiniteSet(T) /\ IsFiniteSet(S \ T)
    BY FS_Subset, FS_Difference
  <2> QED  BY <2>1, UnitsFinite
<1>2. Units(f, S) = Units(f, T) \cup Units(f, S \ T) /\ Units(f, T) \cap Units(f, S \ T) = {}
  BY DEF Units
<1>3. PICK A, B : A = Units(f, T) /\ B = Units(f, S \ T)
  OBVIOUS
<1>4. IsFiniteSet(A) /\ IsFiniteSet(B) /\ A \cap B = {} /\ Units(f, S) = A \cup B
  BY <1>1, <1>2, <1>3
<1>5. Cardinality(A \cup B) = Cardinality(A) + Cardinality(B)
  BY <1>4, DisjointUnion
<1>6. Cardinality(A) \in Nat /\ Cardinality(B) \in Nat
  BY <1>4, FS_CardinalityType
<1> QED  BY <1>3, <1>4, <1>5, <1>6

LEMMA SumCounts ==
  ASSUME NEW f, NEW S, IsFiniteSet(S), \A x \in S : f[x] \in Nat
  PROVE  SumFunctionOnSet(f, S) = Cardinality(Units(f, S))
<1> DEFINE H == [A \in SUBSET S |-> Cardinality(Units(f, A))]
           K == [A \in SUBSET S |-> IF A = {} THEN 0 ELSE Plus(f[Pick(A)], H[A \ {Pick(A)}])]
<1>1. ASSUME NEW A \in SUBSET S PROVE H[A] = K[A]
  <2>1. CASE A = {}
    <3>1. Units(f, A) = {}
      BY <2>1 DEF Units
    <3> QED  BY <2>1, <3>1, FS_EmptySet
  <2>2. CASE A # {}
    <3>1. PICK p : p = Pick(A)
      OBVIOUS
    <3>2. p \in A /\ IsFiniteSet(A) /\ {p} \in SUBSET A /\ A \ {p} \in SUBSET S /\ f[p] \in Nat
      BY <2>2, <3>1, FS_Subset DEF Pick
    <3>3. Cardinality(Units(f, A)) = f[p] + Cardinality(Units(f, A \ {p}))
      <4>1. Cardinality(Units(f, {p})) = f[p]
        BY <3>2, UnitsOfOne
      <4>2. \A x \in A : f[x] \in Nat
        OBVIOUS
      <4>3. Cardinality(Units(f, A)) = Cardinality(Units(f, {p})) + Cardinality(Units(f, A \ {p}))
        BY <3>2, <4>2, UnitsSplit
      <4> QED  BY <4>1, <4>3
    <3> QED  BY <2>2, <3>1, <3>2, <3>3 DEF Plus
  <2> QED  BY <2>1, <2>2
<1>2. H = [A \in SUBSET S |-> H[A]] /\ K = [A \in SUBSET S |-> K[A]]
  OBVIOUS
<1>3. H = K
  <2> HIDE DEF H, K
  <2>1. [A \in SUBSET S |-> H[A]] = [A \in SUBSET S |-> K[A]]
    BY <1>1
  <2> QED  BY <1>2, <2>1
<1>4. PICK h : h = H
  OBVIOUS
<1>5. Adds(h, f, S)
  BY <1>3, <1>4 DEF Adds
<1>6. PICK g : g = CHOOSE k : Adds(k, f, S)
  OBVIOUS
<1>7. Adds(g, f, S)
  BY <1>5, <1>6
<1>8. g[S] = h[S] /\ h[S] = Cardinality(Units(f, S))
  BY <1>4, <1>5, <1>7, AddsOnce
<1> QED  BY <1>6, <1>8, SumIs

LEMMA SumSplit ==
  ASSUME NEW f, NEW S, IsFiniteSet(S), \A x \in S : f[x] \in Nat, NEW T \in SUBSET S
  PROVE  /\ SumFunctionOnSet(f, S) = SumFunctionOnSet(f, T) + SumFunctionOnSet(f, S \ T)
         /\ SumFunctionOnSet(f, T) \in Nat /\ SumFunctionOnSet(f, S \ T) \in Nat
<1>1. IsFiniteSet(T) /\ IsFiniteSet(S \ T)
  BY FS_Subset, FS_Difference
<1>2. /\ SumFunctionOnSet(f, S) = Cardinality(Units(f, S))
      /\ SumFunctionOnSet(f, T) = Cardinality(Units(f, T))
      /\ SumFunctionOnSet(f, S \ T) = Cardinality(Units(f, S \ T))
  <2>1. (\A x \in T : f[x] \in Nat) /\ \A x \in S \ T : f[x] \in Nat
    OBVIOUS
  <2> QED  BY <1>1, <2>1, SumCounts
<1> QED  BY <1>2, UnitsSplit

LEMMA SumOne ==
  ASSUME NEW f, NEW x, f[x] \in Nat
  PROVE  SumFunctionOnSet(f, {x}) = f[x]
<1>1. IsFiniteSet({x}) /\ \A y \in {x} : f[y] \in Nat
  BY FS_Singleton
<1>2. SumFunctionOnSet(f, {x}) = Cardinality(Units(f, {x}))
  BY <1>1, SumCounts
<1> QED  BY <1>2, UnitsOfOne

\* Functions that agree have the same sum.
LEMMA SumSame ==
  ASSUME NEW f, NEW g, NEW S, IsFiniteSet(S), \A x \in S : f[x] \in Nat /\ g[x] = f[x]
  PROVE  SumFunctionOnSet(f, S) = SumFunctionOnSet(g, S)
<1>1. Units(f, S) = Units(g, S)
  BY DEF Units
<1>2. SumFunctionOnSet(f, S) = Cardinality(Units(f, S))
  BY SumCounts
<1>3. SumFunctionOnSet(g, S) = Cardinality(Units(g, S))
  BY SumCounts
<1> QED  BY <1>1, <1>2, <1>3

\* Zeros do not count.
LEMMA SumZero ==
  ASSUME NEW f, NEW S, \A x \in S : f[x] = 0, IsFiniteSet(S)
  PROVE  SumFunctionOnSet(f, S) = 0
<1>1. Units(f, S) = {}
  BY DEF Units
<1>2. \A x \in S : f[x] \in Nat
  OBVIOUS
<1>3. SumFunctionOnSet(f, S) = Cardinality(Units(f, S))
  BY ONLY IsFiniteSet(S), <1>2, SumCounts
<1> QED  BY <1>1, <1>3, FS_EmptySet

\* A sum by another name: b takes the members of T to those of S.
LEMMA SumRenamed ==
  ASSUME NEW f, NEW S, IsFiniteSet(S), \A x \in S : f[x] \in Nat,
         NEW g, NEW T, NEW b \in Bijection(T, S), IsFiniteSet(T), \A t \in T : g[t] = f[b[t]]
  PROVE  SumFunctionOnSet(g, T) = SumFunctionOnSet(f, S)
<1> DEFINE c == [u \in Units(g, T) |-> <<b[u[1]], u[2]>>]
<1>1. /\ \A t \in T : b[t] \in S
      /\ \A x \in S : \E t \in T : b[t] = x
      /\ \A s, t \in T : b[s] = b[t] => s = t
  <2>1. b \in Injection(T, S) /\ b \in Surjection(T, S)
    BY DEF Bijection
  <2> QED  BY <2>1 DEF Injection, Surjection, IsInjective
<1>2. c \in [Units(g, T) -> Units(f, S)]
  BY <1>1 DEF Units
<1>3. \A u, v \in Units(g, T) : c[u] = c[v] => u = v
  BY <1>1 DEF Units
<1>4. ASSUME NEW w \in Units(f, S) PROVE \E u \in Units(g, T) : c[u] = w
  <2>1. PICK x, k : x \in S /\ k \in 1 .. f[x] /\ w = <<x, k>>
    BY DEF Units
  <2>2. PICK t \in T : b[t] = x
    BY <1>1, <2>1
  <2>3. <<t, k>> \in Units(g, T)
    BY <2>1, <2>2 DEF Units
  <2> QED  BY <2>1, <2>2, <2>3
<1>5. c \in Bijection(Units(g, T), Units(f, S))
  BY <1>2, <1>3, <1>4 DEF Bijection, Injection, Surjection, IsInjective
<1>6. Cardinality(Units(f, S)) = Cardinality(Units(g, T))
  BY <1>1, <1>5, UnitsFinite, FS_Bijection DEF ExistsBijection
<1> QED  BY <1>1, <1>6, SumCounts

\* The sum of two functions.
LEMMA SumPlus ==
  ASSUME NEW f, NEW g, NEW h, NEW S, IsFiniteSet(S),
         \A x \in S : f[x] \in Nat /\ g[x] \in Nat /\ h[x] = f[x] + g[x]
  PROVE  SumFunctionOnSet(h, S) = SumFunctionOnSet(f, S) + SumFunctionOnSet(g, S)
<1> DEFINE U == {<<u[1], f[u[1]] + u[2]>> : u \in Units(g, S)}
           c == [u \in Units(g, S) |-> <<u[1], f[u[1]] + u[2]>>]
<1>1. Units(h, S) = Units(f, S) \cup U /\ Units(f, S) \cap U = {}
  <2>1. ASSUME NEW x \in S, NEW k \in 1 .. h[x], k \notin 1 .. f[x] PROVE <<x, k>> \in U
    <3>1. k - f[x] \in 1 .. g[x] /\ k = f[x] + (k - f[x])
      BY <2>1
    <3>2. <<x, k - f[x]>> \in Units(g, S)
      BY <3>1 DEF Units
    <3> QED  BY <3>1, <3>2
  <2>2. ASSUME NEW w \in U PROVE w \in Units(h, S) /\ w \notin Units(f, S)
    <3>1. PICK x, k : x \in S /\ k \in 1 .. g[x] /\ w = <<x, f[x] + k>>
      BY DEF Units
    <3>2. f[x] + k \in 1 .. h[x] /\ f[x] + k \notin 1 .. f[x]
      BY <3>1
    <3> QED  BY <3>1, <3>2 DEF Units
  <2>3. \A x \in S : 1 .. f[x] \subseteq 1 .. h[x]
    OBVIOUS
  <2> HIDE DEF U
  <2> QED  BY <2>1, <2>2, <2>3 DEF Units
<1>2. IsFiniteSet(Units(f, S)) /\ IsFiniteSet(Units(g, S))
  BY UnitsFinite
<1>3. c \in Bijection(Units(g, S), U)
  <2>1. ASSUME NEW u \in Units(g, S), NEW v \in Units(g, S), c[u] = c[v] PROVE u = v
    <3>1. PICK x, k : x \in S /\ k \in 1 .. g[x] /\ u = <<x, k>>
      BY DEF Units
    <3>2. PICK y, l : y \in S /\ l \in 1 .. g[y] /\ v = <<y, l>>
      BY DEF Units
    <3>3. x = y /\ f[x] + k = f[y] + l
      BY <2>1, <3>1, <3>2
    <3> QED  BY <3>1, <3>2, <3>3
  <2> QED  BY <2>1 DEF Bijection, Injection, Surjection, IsInjective
<1>4. IsFiniteSet(U) /\ Cardinality(U) = Cardinality(Units(g, S))
  BY <1>2, <1>3, FS_Bijection DEF ExistsBijection
<1>5. Cardinality(Units(h, S)) = Cardinality(Units(f, S)) + Cardinality(Units(g, S))
  <2> HIDE DEF U
  <2>1. Cardinality(Units(f, S) \cup U) = Cardinality(Units(f, S)) + Cardinality(U)
    BY <1>1, <1>2, <1>4, DisjointUnion
  <2> QED  BY <1>1, <1>4, <2>1
<1> QED  BY <1>5, SumCounts

LEMMA SumIsNat ==
  ASSUME NEW f, NEW S, IsFiniteSet(S), \A x \in S : f[x] \in Nat
  PROVE  SumFunctionOnSet(f, S) \in Nat
BY SumCounts, UnitsFinite, FS_CardinalityType

\* The sum of what is only written down for the set.
LEMMA SumOf ==
  ASSUME NEW f, NEW S, IsFiniteSet(S), \A x \in S : f[x] \in Nat
  PROVE  SumFunction([x \in S |-> f[x]]) = SumFunctionOnSet(f, S)
<1> DEFINE g == [x \in S |-> f[x]]
<1>1. DOMAIN g = S /\ \A x \in S : g[x] = f[x]
  OBVIOUS
<1> HIDE DEF g
<1>2. SumFunctionOnSet(f, S) = SumFunctionOnSet(g, S)
  BY <1>1, SumSame
<1>3. SumFunction(g) = SumFunctionOnSet(g, S)
  BY <1>1 DEF SumFunction
<1> QED  BY <1>2, <1>3 DEF g

\* A sum of which one term changes.
LEMMA SumMoves ==
  ASSUME NEW f, NEW g, NEW S, IsFiniteSet(S), NEW x \in S,
         \A y \in S : f[y] \in Nat, \A y \in S : g[y] \in Nat, \A y \in S : y # x => g[y] = f[y]
  PROVE  SumFunctionOnSet(g, S) + f[x] = SumFunctionOnSet(f, S) + g[x]
<1>1. PICK T : T = S \ {x}
  OBVIOUS
<1>0. {x} \in SUBSET S
  OBVIOUS
<1>2. IsFiniteSet(T) /\ \A y \in T : f[y] \in Nat /\ g[y] = f[y]
  BY <1>1, FS_Subset
<1>3. SumFunctionOnSet(f, S) = SumFunctionOnSet(f, {x}) + SumFunctionOnSet(f, T)
  <2>1. SumFunctionOnSet(f, S) = SumFunctionOnSet(f, {x}) + SumFunctionOnSet(f, S \ {x})
    BY ONLY IsFiniteSet(S), \A y \in S : f[y] \in Nat, <1>0, SumSplit
  <2> QED  BY ONLY <1>1, <2>1
<1>4. SumFunctionOnSet(g, S) = SumFunctionOnSet(g, {x}) + SumFunctionOnSet(g, T)
  <2>1. SumFunctionOnSet(g, S) = SumFunctionOnSet(g, {x}) + SumFunctionOnSet(g, S \ {x})
    BY ONLY IsFiniteSet(S), \A y \in S : g[y] \in Nat, <1>0, SumSplit
  <2> QED  BY ONLY <1>1, <2>1
<1>5. SumFunctionOnSet(f, {x}) = f[x] /\ SumFunctionOnSet(g, {x}) = g[x]
  BY SumOne
<1>6. SumFunctionOnSet(f, T) = SumFunctionOnSet(g, T) /\ SumFunctionOnSet(f, T) \in Nat
  BY <1>2, SumSame, SumIsNat
<1> QED  BY <1>3, <1>4, <1>5, <1>6

\* A sum over the only terms that are not zero.
LEMMA SumWhere ==
  ASSUME NEW f, NEW S, IsFiniteSet(S), \A x \in S : f[x] \in Nat,
         NEW T \in SUBSET S, \A x \in S \ T : f[x] = 0
  PROVE  SumFunction([x \in T |-> f[x]]) = SumFunctionOnSet(f, S)
<1>1. IsFiniteSet(T) /\ IsFiniteSet(S \ T) /\ \A x \in T : f[x] \in Nat
  BY FS_Subset, FS_Difference
<1>2. SumFunction([x \in T |-> f[x]]) = SumFunctionOnSet(f, T)
  BY <1>1, SumOf
<1>3. SumFunctionOnSet(f, S \ T) = 0
  BY <1>1, SumZero
<1>4. /\ SumFunctionOnSet(f, S) = SumFunctionOnSet(f, T) + SumFunctionOnSet(f, S \ T)
      /\ SumFunctionOnSet(f, T) \in Nat /\ SumFunctionOnSet(f, S \ T) \in Nat
  BY SumSplit
<1> QED  BY ONLY <1>2, <1>3, <1>4

-----------------------------------------------------------------------------
(* Types. *)

\* A count-in that joins a review or opens one leaves a sequence of reviews.
LEMMA JoinedType ==
  ASSUME TypeOK, NEW r \in Request, Doing(r, "receive", "numbered"),
         RecordReadsLast
  PROVE  Joined(call[r]) \in Seq(Review)
<1>1. PICK c \in Recording : c = call[r]
  BY Remembers
<1> DEFINE line == [shipment |-> c.shipment, bags |-> c.damaged]
<1>2. /\ c.shipment \in Shipment /\ c.damaged \in Nat /\ c.by \in Manager
      /\ c.lines \in Seq(Seq(Line)) /\ TruckOf[c.shipment] \in Truck
  BY DEF Recording
<1>3. reviews \in Seq(Review)
  BY DEF TypeOK
<1>4. c.open \subseteq DOMAIN reviews /\ c.lines = [i \in DOMAIN reviews |-> reviews[i].lines]
  BY <1>1 DEF RecordReadsLast
<1>5. CASE c.damaged = 0
  BY <1>1, <1>3, <1>5 DEF Joined
<1>6. CASE c.damaged # 0 /\ c.open = {}
  <2>1. line \in Line
    BY <1>2, <1>6 DEF Line
  <2>2. [truck |-> TruckOf[c.shipment], status |-> "PENDING",
         by |-> c.by, lines |-> <<line>>] \in Review
    <3>1. <<line>> \in Seq(Line)
      BY <2>1
    <3> HIDE DEF line
    <3> QED  BY <3>1, <1>2 DEF Review
  <2> QED  BY <1>1, <1>3, <1>6, <2>2 DEF Joined
<1>7. CASE c.damaged # 0 /\ c.open # {}
  <2>1. line \in Line
    BY <1>2, <1>7 DEF Line
  <2>2. PICK i \in DOMAIN reviews : i = CHOOSE x \in c.open : TRUE
    BY <1>4, <1>7
  <2>3. c.lines[i] \in Seq(Line) /\ reviews[i] \in Review
    BY <1>2, <1>3, <1>4, <2>2
  <2>4. Append(c.lines[i], line) \in Seq(Line)
    BY <2>1, <2>3
  <2>5. [reviews[i] EXCEPT !.lines = Append(c.lines[i], line)] \in Review
    BY <2>3, <2>4 DEF Review
  <2>6. [reviews EXCEPT ![i].lines = Append(c.lines[i], line)] \in Seq(Review)
    BY <1>3, <2>2, <2>5
  <2> QED  BY <1>1, <1>7, <2>2, <2>6 DEF Joined
<1> QED  BY <1>5, <1>6, <1>7

\* The end of a request frees what it had locked.
LEMMA EndCallType ==
  ASSUME TypeOK, NEW r \in Request, EndCall(r)
  PROVE  /\ call' \in [Request -> {Idle} \cup Receiving \cup Recording \cup Deciding \cup Emptying]
         /\ \A x \in Request : call'[x] # Idle /\ call'[x].op = "receive"
                                 => call'[x].damaged <= call'[x].got
         /\ numberRow' \in Request \cup {Nobody} /\ seenStock' \in [Request -> Nat]
         /\ \A x \in Request : call'[x] = IF x = r THEN Idle ELSE call[x]
<1>1. \A x \in Request : call'[x] = IF x = r THEN Idle ELSE call[x]
  BY DEF EndCall, TypeOK
<1>2. numberRow' \in Request \cup {Nobody} /\ seenStock' \in [Request -> Nat]
  BY DEF EndCall, TypeOK
<1>3. call' \in [Request -> {Idle} \cup Receiving \cup Recording \cup Deciding \cup Emptying]
  BY DEF EndCall, TypeOK
<1> QED  BY <1>1, <1>2, <1>3 DEF TypeOK

\* A step that changes only what one request remembers keeps the types.
LEMMA CallType ==
  ASSUME TypeOK, NEW r \in Request, UNCHANGED <<tables, history>>,
         numberRow' \in Request \cup {Nobody}, seenStock' \in [Request -> Nat],
         NEW d \in Receiving \cup Recording \cup Deciding \cup Emptying,
         call' = [call EXCEPT ![r] = d], d.op = "receive" => d.damaged <= d.got
  PROVE  /\ TypeOK'
         /\ \A x \in Request : call'[x] = IF x = r THEN d ELSE call[x]
  BY DEF TypeOK, tables, history

\* The size that a request adjusts first is one of those that there are.
LEMMA FirstSizeType ==
  ASSUME TypeOK, NEW r \in Request, NEW c \in Receiving \cup Recording \cup Emptying, c = call[r],
         c \in Emptying => c.lines # <<>>
  PROVE  FirstSize(c) \in Shipment /\ GradeOf[FirstSize(c)] \in Grade
<1>1. CASE c \in Emptying
  <2>1. c.lines[1] \in Line /\ c.op = "decide"
    BY <1>1 DEF Emptying
  <2> QED  BY <2>1 DEF FirstSize, Line
<1>2. CASE c \in Receiving \cup Recording
  BY <1>2 DEF FirstSize, Receiving, Recording
<1> QED  BY <1>1, <1>2

\* What a request overwrites is of a grade, and what it adds to is bags.
LEMMA StockType ==
  ASSUME TypeOK, NEW r \in Request, FirstSize(call[r]) \in Shipment, Overwriting(r)
  PROVE  /\ overwritten' \subseteq Grade /\ overwritten \subseteq overwritten'
         /\ \A g \in Grade : StockRead(r, g) \in Nat
<1>1. GradeOf[FirstSize(call[r])] \in Grade
  OBVIOUS
<1>2. overwritten' \subseteq Grade /\ overwritten \subseteq overwritten'
  BY <1>1 DEF Overwriting, TypeOK
<1>3. \A g \in Grade : StockRead(r, g) \in Nat
  BY DEF StockRead, TypeOK
<1> QED  BY <1>2, <1>3

LEMMA CommitReceiveType ==
  ASSUME TypeOK, RecordReadsLast, NEW r \in Request, CommitReceive(r)
  PROVE  TypeOK'
<1>1. PICK c \in Recording : c = call[r]
  BY Remembers DEF CommitReceive
<1>2. c.shipment \in Shipment /\ c.damaged \in Nat /\ c.got \in Nat /\ c.by \in Manager
  BY DEF Recording
<1>3. c.damaged <= c.got
  BY <1>1, AtWork DEF TypeOK, Recording
<1>4. reviews' \in Seq(Review)
  BY JoinedType DEF CommitReceive
<1>5. bucket' \in [Shipment -> Nat]
  <2>1. bucket[c.shipment] - Sent[c.shipment] \in Nat
    BY <1>1, <1>2 DEF CommitReceive, InTransit, TypeOK
  <2> QED  BY <1>1, <2>1 DEF CommitReceive, TypeOK
<1>6. hold' \in [Shipment -> Nat] /\ received' \in [Shipment -> BOOLEAN]
  <2>1. /\ hold' = [hold EXCEPT ![c.shipment] = @ + c.damaged]
        /\ received' = [received EXCEPT ![c.shipment] = TRUE]
    BY <1>1 DEF CommitReceive
  <2>2. hold \in [Shipment -> Nat] /\ received \in [Shipment -> BOOLEAN]
    BY DEF TypeOK
  <2> QED  BY ONLY <1>2, <2>1, <2>2
<1>9. stock' \in [Grade -> Nat] /\ overwritten' \subseteq Grade
  <2>1. FirstSize(c) \in Shipment /\ GradeOf[c.shipment] \in Grade
    BY <1>2 DEF FirstSize, Recording
  <2>2. overwritten' \subseteq Grade /\ \A g \in Grade : StockRead(r, g) \in Nat
    BY <1>1, <2>1, StockType DEF CommitReceive
  <2>3. StockRead(r, GradeOf[c.shipment]) + (c.got - c.damaged) \in Nat
    BY <1>2, <1>3, <2>1, <2>2
  <2> QED  BY <1>1, <2>2, <2>3 DEF CommitReceive, TypeOK
<1>7. counted' \in [Shipment -> Seq(Count)]
  <2> DEFINE e == [by |-> c.by, usable |-> c.got - c.damaged, damaged |-> c.damaged]
  <2>1. e \in Count
    BY <1>2, <1>3 DEF Count
  <2>2. counted' = [counted EXCEPT ![c.shipment] = Append(@, e)]
    BY <1>1 DEF CommitReceive
  <2> HIDE DEF e
  <2>3. Append(counted[c.shipment], e) \in Seq(Count)
    BY <1>2, <2>1 DEF TypeOK
  <2> QED  BY <2>2, <2>3 DEF TypeOK
<1>8. EndCall(r) /\ UNCHANGED decisions
  BY DEF CommitReceive
<1> QED  BY <1>4, <1>5, <1>6, <1>7, <1>8, <1>9, EndCallType DEF TypeOK

\* What a decision writes to the hold buckets: to that of its first line the
\* value computed from what was read, to the others what is there less the bags.
LEMMA HoldAfterIs ==
  ASSUME TypeOK, NEW c \in Emptying, c.lines # <<>>, NEW s \in Shipment
  PROVE  /\ s = c.lines[1].shipment => HoldAfter(c)[s] = c.seen - c.lines[1].bags
         /\ s # c.lines[1].shipment =>
              \/ \E j \in DOMAIN c.lines : /\ c.lines[j].shipment = s
                                           /\ HoldAfter(c)[s] = hold[s] - c.lines[j].bags
              \/ /\ \A j \in DOMAIN c.lines : c.lines[j].shipment # s
                 /\ HoldAfter(c)[s] = hold[s]
         /\ HoldAfter(c)[s] \in Int
<1>1. c.lines \in Seq(Line) /\ c.seen \in Nat /\ hold[s] \in Nat
  BY DEF Emptying, TypeOK
<1>2. \A j \in DOMAIN c.lines : c.lines[j] \in Line
  BY <1>1
<1>3. \A j \in DOMAIN c.lines : c.lines[j].bags \in Nat
  BY <1>2 DEF Line
<1>4. 1 \in DOMAIN c.lines /\ DOMAIN c.lines = 1 .. Len(c.lines)
  BY <1>1
<1>5. CASE s = c.lines[1].shipment
  <2>1. HoldAfter(c)[s] = c.seen - c.lines[1].bags
    BY <1>5 DEF HoldAfter
  <2>2. c.lines[1].bags \in Nat
    BY <1>3, <1>4
  <2> QED  BY <1>1, <1>5, <2>1, <2>2
<1>6. CASE s # c.lines[1].shipment /\ \E j \in 2 .. Len(c.lines) : c.lines[j].shipment = s
  <2>1. PICK j \in 2 .. Len(c.lines) : j = LineAbout(c.lines, s) /\ c.lines[j].shipment = s
    BY <1>6 DEF LineAbout
  <2>2. j \in DOMAIN c.lines
    BY <1>1, <1>4
  <2>3. HoldAfter(c)[s] = hold[s] - c.lines[j].bags
    BY <1>6, <2>1 DEF HoldAfter
  <2> QED  BY <1>1, <1>3, <1>6, <2>1, <2>2, <2>3
<1>7. CASE s # c.lines[1].shipment /\ ~\E j \in 2 .. Len(c.lines) : c.lines[j].shipment = s
  <2>1. HoldAfter(c)[s] = hold[s]
    BY <1>7 DEF HoldAfter
  <2>2. \A j \in DOMAIN c.lines : c.lines[j].shipment # s
    BY <1>1, <1>4, <1>7
  <2> QED  BY <1>1, <1>7, <2>1, <2>2
<1> QED  BY <1>5, <1>6, <1>7

\* The bags of a grade on some lines are a sum of naturals.
Weights(b, lines, g) ==
    \A j \in DOMAIN lines : b[j] = IF GradeOf[lines[j].shipment] = g THEN lines[j].bags ELSE 0

LEMMA BagsAre ==
  ASSUME NEW lines \in Seq(Line), NEW g, NEW b, Weights(b, lines, g)
  PROVE  /\ \A j \in DOMAIN lines : b[j] \in Nat
         /\ IsFiniteSet(DOMAIN lines)
         /\ Bags(lines, g) = SumFunctionOnSet(b, DOMAIN lines) /\ Bags(lines, g) \in Nat
<1>1. PICK T : T = DOMAIN lines
  OBVIOUS
<1>2. T = 1 .. Len(lines) /\ Len(lines) \in Nat /\ \A j \in T : lines[j] \in Line
  BY <1>1
<1>3. IsFiniteSet(T)
  <2>1. PICK n \in Nat : T = 1 .. n
    BY <1>2
  <2>2. 1 \in Int /\ n \in Int
    OBVIOUS
  <2> QED  BY ONLY <2>1, <2>2, FS_Interval
<1>4. \A j \in T : b[j] \in Nat
  BY <1>1, <1>2 DEF Line, Weights
<1>5. [j \in T |-> IF GradeOf[lines[j].shipment] = g THEN lines[j].bags ELSE 0]
         = [j \in T |-> b[j]]
  BY <1>1 DEF Weights
<1>6. SumFunction([j \in T |-> b[j]]) = SumFunctionOnSet(b, T)
  BY ONLY <1>3, <1>4, SumOf
<1>7. SumFunctionOnSet(b, T) \in Nat
  BY ONLY <1>3, <1>4, SumIsNat
<1>8. Bags(lines, g)
         = SumFunction([j \in T |-> IF GradeOf[lines[j].shipment] = g THEN lines[j].bags ELSE 0])
  BY <1>1 DEF Bags
<1>9. Bags(lines, g) = SumFunctionOnSet(b, T)
  BY ONLY <1>5, <1>6, <1>8
<1> QED  BY <1>1, <1>3, <1>4, <1>7, <1>9

LEMMA BagsNat ==
  ASSUME NEW lines \in Seq(Line), NEW g
  PROVE  Bags(lines, g) \in Nat
<1>1. PICK b : b = [j \in DOMAIN lines |->
                      IF GradeOf[lines[j].shipment] = g THEN lines[j].bags ELSE 0]
  OBVIOUS
<1>2. Weights(b, lines, g)
  BY <1>1 DEF Weights
<1> QED  BY ONLY <1>2, BagsAre

LEMMA CommitDecideType ==
  ASSUME TypeOK, LinesStay, NEW r \in Request, CommitDecide(r)
  PROVE  TypeOK'
<1>1. PICK c \in Emptying : c = call[r]
  BY Remembers DEF CommitDecide
<1>2. /\ c.lines \in Seq(Line) /\ c.seen \in Nat /\ c.outcome \in Outcome
      /\ c.by \in Supervisor
  BY DEF Emptying
<1>3. c.review \in DOMAIN reviews /\ c.lines # <<>>
  BY <1>1, AtWork DEF LinesStay, Emptying
<1>8. stock' \in [Grade -> Nat] /\ overwritten' \subseteq Grade
  <2>1. FirstSize(c) \in Shipment
    BY <1>1, <1>3, FirstSizeType
  <2>2. overwritten' \subseteq Grade /\ \A g \in Grade : StockRead(r, g) \in Nat
    BY <1>1, <2>1, StockType DEF CommitDecide
  <2>3. \A g \in Grade : Returned(c, g) \in Nat
    BY <1>2, BagsNat DEF Returned
  <2>4. \A g \in Grade : StockRead(r, g) + Returned(c, g) \in Nat
    BY <2>2, <2>3
  <2> QED  BY <1>1, <2>2, <2>4 DEF CommitDecide
<1>4. hold' \in [Shipment -> Nat]
  <2>3. \A s \in Shipment : HoldAfter(c)[s] \in Int
    BY <1>3, HoldAfterIs
  <2>4. \A s \in Shipment : HoldAfter(c)[s] >= 0
    BY <1>1 DEF CommitDecide
  <2>5. HoldAfter(c) = [s \in Shipment |-> HoldAfter(c)[s]]
    BY DEF HoldAfter
  <2>6. hold' = HoldAfter(c)
    BY <1>1 DEF CommitDecide
  <2> QED  BY <2>3, <2>4, <2>5, <2>6
<1>5. reviews' \in Seq(Review)
  <2>0. reviews[c.review] \in Review
    BY <1>3 DEF TypeOK
  <2>1. [reviews[c.review] EXCEPT !.status = c.outcome] \in Review
    BY <1>2, <2>0 DEF Review
  <2>2. reviews' = [reviews EXCEPT ![c.review].status = c.outcome]
    BY <1>1 DEF CommitDecide
  <2> QED  BY <1>3, <2>1, <2>2 DEF TypeOK
<1>6. decisions' \in [1 .. Cardinality(Shipment) -> Seq(Decision)]
  <2> DEFINE e == [by |-> c.by, outcome |-> c.outcome, lines |-> c.lines]
  <2>1. e \in Decision
    BY <1>2 DEF Decision
  <2>2. decisions' = [decisions EXCEPT ![c.review] = Append(@, e)]
    BY <1>1 DEF CommitDecide
  <2> HIDE DEF e
  <2>3. c.review \in 1 .. Cardinality(Shipment) => Append(decisions[c.review], e) \in Seq(Decision)
    BY <2>1 DEF TypeOK
  <2> QED  BY <2>2, <2>3 DEF TypeOK
<1>7. EndCall(r) /\ UNCHANGED <<received, bucket, counted>>
  BY DEF CommitDecide
<1> QED  BY <1>4, <1>5, <1>6, <1>7, <1>8, EndCallType DEF TypeOK

-----------------------------------------------------------------------------
(* Steps that leave the tables alone: a request asks, reads, locks or ends. *)

\* Request r goes on to remember d: what has to be so of d and of the number
\* row for the invariant to be kept.
LEMMA QuietStep ==
  ASSUME IInv, TypeOK', UNCHANGED <<tables, history>>, NEW r \in Request, NEW d,
         \A x \in Request : call'[x] = IF x = r THEN d ELSE call[x],
         \A x \in Request : x # r => (numberRow' = x <=> numberRow = x),
         numberRow' = r <=> d.step = "numbered",
         d.step = "numbered" /\ d.op = "receive" =>
            /\ d.open = {i \in DOMAIN reviews : /\ reviews[i].truck = TruckOf[d.shipment]
                                                /\ reviews[i].status = "PENDING"}
            /\ d.lines = [i \in DOMAIN reviews |-> reviews[i].lines],
         d # Idle /\ d.op = "decide" =>
            /\ d.review \in DOMAIN reviews /\ d.lines # <<>>
            /\ \A j \in DOMAIN d.lines :
                  /\ j \in DOMAIN reviews[d.review].lines
                  /\ d.lines[j] = reviews[d.review].lines[j],
         d # Idle /\ d.op = "decide" /\ d.step # "asked" =>
            /\ d.seen <= d.lines[1].bags
            /\ d.step # "read" => d.seen = d.lines[1].bags
  PROVE  IInv'
<1>1. UNCHANGED <<received, bucket, hold, stock, reviews, counted, decisions>>
  BY DEF tables, history
<1>2. CountedInOnce' /\ OneOpenReview'
  BY <1>1, SMTT(20) DEF IInv, CountedInOnce, OneOpenReview, OnLine, DamagedIn
<1>3. NumberRowHeld'
  BY DEF IInv, NumberRowHeld
<1>4. RecordReadsLast'
  <2> SUFFICES ASSUME NEW x \in Request, call'[x].step = "numbered", call'[x].op = "receive"
               PROVE  /\ call'[x].open = {i \in DOMAIN reviews :
                                            /\ reviews[i].truck = TruckOf[call'[x].shipment]
                                            /\ reviews[i].status = "PENDING"}
                      /\ call'[x].lines = [i \in DOMAIN reviews |-> reviews[i].lines]
    BY <1>1 DEF RecordReadsLast, Doing
  <2>1. CASE x = r
    <3>1. call'[x] = d
      BY <2>1
    <3> QED  BY <3>1
  <2>2. CASE x # r
    <3>1. call'[x] = call[x]
      BY <2>2
    <3>2. RecordReadsLast /\ Doing(x, "receive", "numbered")
      BY <3>1 DEF IInv, Doing
    <3>3. /\ call[x].open = {i \in DOMAIN reviews :
                              /\ reviews[i].truck = TruckOf[call[x].shipment]
                              /\ reviews[i].status = "PENDING"}
          /\ call[x].lines = [i \in DOMAIN reviews |-> reviews[i].lines]
      BY <3>2, Zenon DEF RecordReadsLast
    <3> QED  BY ONLY <3>1, <3>3
  <2> QED  BY <2>1, <2>2
<1>5. LinesStay'
  BY <1>1 DEF IInv, LinesStay
<1>6. SeenIsTheLine'
  BY DEF IInv, SeenIsTheLine
<1>7. DecidedLines' /\ HeldIsReported'
  BY <1>1 DEF IInv, DecidedLines, HeldIsReported, OnLine, DamagedIn, DecidedAbout
<1> QED  BY <1>2, <1>3, <1>4, <1>5, <1>6, <1>7 DEF IInv

LEMMA AskReceiveStep ==
  ASSUME IInv, NEW r \in Request, NEW u \in User, NEW s \in Shipment,
         NEW got \in Nat, NEW damaged \in Nat, AskReceive(r, u, s, got, damaged)
  PROVE  IInv'
<1>1. PICK d \in Receiving : d = [step |-> "asked", op |-> "receive", by |-> u,
                                  shipment |-> s, got |-> got, damaged |-> damaged]
  BY DEF AskReceive, Receiving
<1>2. d # Idle /\ d.step = "asked" /\ d.op = "receive" /\ d.damaged <= d.got
  BY <1>1, AtWork DEF AskReceive
<1>3. call' = [call EXCEPT ![r] = d] /\ UNCHANGED <<tables, history>> /\ numberRow' = numberRow
      /\ seenStock' = seenStock
  BY <1>1 DEF AskReceive
<1>4. TypeOK' /\ \A x \in Request : call'[x] = IF x = r THEN d ELSE call[x]
  <2>1. numberRow' \in Request \cup {Nobody} /\ seenStock' \in [Request -> Nat]
    BY <1>3 DEF IInv, TypeOK
  <2>2. TypeOK
    BY DEF IInv
  <2>3. d.op = "receive" => d.damaged <= d.got
    BY <1>2
  <2> QED  BY ONLY <1>3, <2>1, <2>2, <2>3, CallType, r \in Request,
                   d \in Receiving \cup Recording \cup Deciding \cup Emptying
<1>5. numberRow' # r
  <2>1. call[r].step = "idle"
    BY DEF AskReceive, Idle
  <2> QED  BY <1>3, <2>1 DEF IInv, NumberRowHeld
<1>6. \A x \in Request : x # r => (numberRow' = x <=> numberRow = x)
  BY <1>3
<1>7. d.step # "numbered" /\ d.op # "decide"
  BY <1>2
<1> QED  BY <1>3, <1>4, <1>5, <1>6, <1>7, QuietStep, ZenonT(30)

LEMMA AskDecideStep ==
  ASSUME IInv, NEW r \in Request, NEW u \in User, NEW i \in DOMAIN reviews,
         NEW outcome \in Outcome, AskDecide(r, u, i, outcome)
  PROVE  IInv'
<1>0. reviews[i] \in Review /\ reviews[i].lines \in Seq(Line) /\ i \in Nat
  <2>1. reviews \in Seq(Review) /\ i \in DOMAIN reviews
    BY DEF IInv, TypeOK
  <2>2. reviews[i] \in Review /\ i \in Nat
    BY <2>1
  <2> QED  BY <2>2 DEF Review
<1>1. PICK d \in Deciding : d = [step |-> "asked", op |-> "decide", by |-> u, review |-> i,
                                 outcome |-> outcome, lines |-> reviews[i].lines]
  BY <1>0 DEF AskDecide, MayDecide, Deciding
<1>2. d # Idle /\ d.step = "asked" /\ d.op = "decide"
  BY <1>1, AtWork
<1>3. call' = [call EXCEPT ![r] = d] /\ UNCHANGED <<tables, history>> /\ numberRow' = numberRow
      /\ seenStock' = seenStock
  BY <1>1 DEF AskDecide
<1>4. TypeOK' /\ \A x \in Request : call'[x] = IF x = r THEN d ELSE call[x]
  <2>1. numberRow' \in Request \cup {Nobody} /\ seenStock' \in [Request -> Nat]
    BY <1>3 DEF IInv, TypeOK
  <2>2. TypeOK
    BY DEF IInv
  <2>3. d.op = "receive" => d.damaged <= d.got
    BY <1>2
  <2> QED  BY ONLY <1>3, <2>1, <2>2, <2>3, CallType, r \in Request,
                   d \in Receiving \cup Recording \cup Deciding \cup Emptying
<1>5. numberRow' # r
  <2>1. call[r].step = "idle"
    BY DEF AskDecide, Idle
  <2> QED  BY <1>3, <2>1 DEF IInv, NumberRowHeld
<1>6. d.review \in DOMAIN reviews /\ d.lines = reviews[d.review].lines /\ d.lines # <<>>
  BY <1>1 DEF IInv, LinesStay
<1>7. /\ \A x \in Request : x # r => (numberRow' = x <=> numberRow = x)
      /\ numberRow' = r <=> d.step = "numbered"
      /\ d.step # "numbered" /\ d.step = "asked"
  BY <1>2, <1>3, <1>5
<1> QED  BY <1>3, <1>4, <1>6, <1>7, QuietStep

\* The request goes on with what it remembers.
LEMMA GoesOn ==
  ASSUME IInv, NEW r \in Request, NEW st,
         call' = [call EXCEPT ![r].step = st], UNCHANGED <<tables, history>>,
         seenStock' \in [Request -> Nat],
         \/ /\ call[r] \in Receiving /\ st \in {"locked", "looked", "stocked"}
            /\ numberRow' = numberRow
         \/ /\ call[r] \in Emptying /\ st \in {"written", "looked", "stocked"}
            /\ call[r].seen = call[r].lines[1].bags /\ call[r].step # "numbered"
            /\ numberRow' = numberRow
         \/ /\ call[r] \in Emptying /\ st = "numbered"
            /\ call[r].seen = call[r].lines[1].bags
            /\ numberRow = Nobody /\ numberRow' = r
  PROVE  IInv'
<1>1. PICK c, d : c = call[r] /\ d = [c EXCEPT !.step = st] /\ call' = [call EXCEPT ![r] = d]
  OBVIOUS
<1>2. \/ /\ c \in Receiving /\ d \in Receiving /\ d.op = "receive" /\ c.op = "receive"
         /\ d.got = c.got /\ d.damaged = c.damaged /\ d.step = st /\ st # "numbered"
         /\ numberRow' = numberRow /\ c.step # "numbered"
      \/ /\ c \in Emptying /\ d \in Emptying /\ d.op = "decide" /\ c.op = "decide"
         /\ d.review = c.review /\ d.lines = c.lines /\ d.seen = c.seen /\ d.step = st
         /\ c.seen = c.lines[1].bags
         /\ \/ numberRow' = numberRow /\ c.step # "numbered" /\ st # "numbered"
            \/ numberRow = Nobody /\ numberRow' = r /\ st = "numbered"
  <2>1. ASSUME c \in Receiving, st \in {"locked", "looked", "stocked"}
        PROVE  /\ d \in Receiving /\ d.op = "receive" /\ c.op = "receive" /\ d.step = st
               /\ d.got = c.got /\ d.damaged = c.damaged /\ c.step # "numbered"
               /\ st # "numbered"
    BY <1>1, <2>1 DEF Receiving
  <2>2. ASSUME c \in Emptying, st \in {"written", "looked", "stocked", "numbered"}
        PROVE  /\ d \in Emptying /\ d.op = "decide" /\ c.op = "decide" /\ d.step = st
               /\ d.review = c.review /\ d.lines = c.lines /\ d.seen = c.seen
    BY <1>1, <2>2 DEF Emptying
  <2>3. CASE c \in Receiving /\ st \in {"locked", "looked", "stocked"} /\ numberRow' = numberRow
    BY <2>1, <2>3
  <2>4. CASE /\ c \in Emptying /\ st \in {"written", "looked", "stocked"}
             /\ c.seen = c.lines[1].bags /\ c.step # "numbered" /\ numberRow' = numberRow
    BY <2>2, <2>4
  <2>5. CASE /\ c \in Emptying /\ st = "numbered" /\ c.seen = c.lines[1].bags
             /\ numberRow = Nobody /\ numberRow' = r
    BY <2>2, <2>5
  <2> QED  BY <1>1, <2>3, <2>4, <2>5
<1>3. d # Idle /\ c # Idle
  BY <1>2, AtWork
<1>4. TypeOK' /\ \A x \in Request : call'[x] = IF x = r THEN d ELSE call[x]
  <2>1. numberRow' \in Request \cup {Nobody}
    BY <1>2 DEF IInv, TypeOK
  <2>2. c.op = "receive" => c.damaged <= c.got
    BY <1>1, <1>3 DEF IInv, TypeOK
  <2>3. d.op = "receive" => d.damaged <= d.got
    BY <1>2, <2>2
  <2>4. d \in Receiving \cup Recording \cup Deciding \cup Emptying
    BY <1>2
  <2>5. TypeOK
    BY DEF IInv
  <2> QED  BY ONLY <1>1, <2>1, <2>3, <2>4, <2>5, CallType, r \in Request,
                   UNCHANGED <<tables, history>>, seenStock' \in [Request -> Nat]
<1>5. /\ \A x \in Request : x # r => (numberRow' = x <=> numberRow = x)
      /\ numberRow' = r <=> d.step = "numbered"
  BY <1>1, <1>2 DEF IInv, NumberRowHeld
<1>6. d.op = "decide" =>
        /\ d.review \in DOMAIN reviews /\ d.lines # <<>>
        /\ \A j \in DOMAIN d.lines : /\ j \in DOMAIN reviews[d.review].lines
                                     /\ d.lines[j] = reviews[d.review].lines[j]
        /\ d.seen = d.lines[1].bags /\ d.seen <= d.lines[1].bags
  <2>1. c \in Emptying => c.seen \in Nat
    BY DEF Emptying
  <2>2. c.op = "decide" => LinesStay
    BY DEF IInv
  <2> QED  BY <1>1, <1>2, <1>3, <2>1, <2>2 DEF LinesStay
<1>7. ~(d.step = "numbered" /\ d.op = "receive")
  BY <1>2
<1> QED  BY <1>4, <1>5, <1>6, <1>7, QuietStep, ZenonT(30)

LEMMA AdvanceStep ==
  ASSUME IInv, NEW r \in Request,
         \/ LockShipment(r) \/ WriteHold(r) \/ NumberDecide(r) \/ ReadStock(r) \/ WriteStock(r)
  PROVE  IInv'
<1>0. seenStock \in [Request -> Nat]
  BY DEF IInv, TypeOK
<1>1. ASSUME call[r] \in Emptying
      PROVE  /\ call[r].op = "decide" /\ call[r].seen \in Nat /\ call[r].lines[1].bags \in Nat
             /\ call[r].lines # <<>>
             /\ call[r].seen <= call[r].lines[1].bags
             /\ call[r].step # "read" => call[r].seen = call[r].lines[1].bags
  <2>1. call[r] # Idle /\ call[r].step # "asked" /\ call[r].op = "decide" /\ call[r].seen \in Nat
        /\ call[r].lines \in Seq(Line)
    BY <1>1, AtWork DEF Emptying
  <2>2. call[r].lines # <<>>
    BY <2>1 DEF IInv, LinesStay
  <2>3. call[r].lines[1] \in Line
    BY <2>1, <2>2
  <2> QED  BY <2>1, <2>2, <2>3 DEF IInv, SeenIsTheLine, Line
<1>2. CASE LockShipment(r)
  BY <1>0, <1>2, GoesOn, Remembers DEF IInv, LockShipment
<1>3. CASE WriteHold(r)
  <2>1. call[r] \in Emptying /\ call[r].step = "read" /\ call[r].seen >= call[r].lines[1].bags
    BY <1>3, Remembers DEF IInv, WriteHold, Doing
  <2>2. call[r].seen = call[r].lines[1].bags
    BY <1>1, <2>1
  <2> QED  BY <1>0, <1>3, <2>1, <2>2, GoesOn DEF WriteHold
<1>4. CASE NumberDecide(r)
  <2>1. call[r] \in Emptying /\ call[r].step # "read" /\ numberRow = Nobody
    BY <1>4, Remembers DEF IInv, NumberDecide, Doing, NumberFree
  <2> QED  BY <1>0, <1>1, <1>4, <2>1, GoesOn DEF NumberDecide
<1>5. CASE ReadStock(r)
  <2>1. /\ \/ call[r] \in Receiving
           \/ call[r] \in Emptying /\ call[r].step = "written"
        /\ call[r] \in Receiving \cup Recording \cup Emptying
    BY <1>5, Remembers DEF IInv, ReadStock, Doing
  <2>2. GradeOf[FirstSize(call[r])] \in Grade
    BY <1>1, <2>1, FirstSizeType DEF IInv
  <2>3. seenStock' \in [Request -> Nat]
    BY <1>0, <1>5, <2>2 DEF ReadStock, IInv, TypeOK
  <2> QED  BY <1>1, <1>5, <2>1, <2>3, GoesOn DEF ReadStock
<1>6. CASE WriteStock(r)
  <2>1. call[r].step = "looked" /\ (call[r] \in Receiving \/ call[r] \in Emptying)
    BY <1>6, Remembers DEF IInv, WriteStock
  <2> QED  BY <1>0, <1>1, <1>6, <2>1, GoesOn DEF WriteStock
<1> QED  BY <1>2, <1>3, <1>4, <1>5, <1>6

\* With the number row comes the reading of the reviews.
LEMMA NumberReceiveStep ==
  ASSUME IInv, NEW r \in Request, NumberReceive(r)
  PROVE  IInv'
<1>1. PICK c \in Receiving : c = call[r]
  BY Remembers DEF IInv, NumberReceive, Doing
<1>2. c # Idle /\ c.op = "receive" /\ c.damaged <= c.got
  BY <1>1, AtWork DEF IInv, TypeOK, Receiving
<1> DEFINE o == {i \in DOMAIN reviews : /\ reviews[i].truck = TruckOf[c.shipment]
                                        /\ reviews[i].status = "PENDING"}
           l == [i \in DOMAIN reviews |-> reviews[i].lines]
           e == [step |-> "numbered", op |-> "receive", by |-> c.by,
                 shipment |-> c.shipment, got |-> c.got, damaged |-> c.damaged,
                 open |-> o, lines |-> l]
<1>3. call' = [call EXCEPT ![r] = e] /\ UNCHANGED <<tables, history>> /\ seenStock' = seenStock
      /\ numberRow = Nobody /\ numberRow' = r
  BY <1>1 DEF NumberReceive, NumberFree
<1>4. reviews \in Seq(Review) /\ \A i \in DOMAIN reviews : reviews[i].lines \in Seq(Line)
  <2>1. reviews \in Seq(Review)
    BY DEF IInv, TypeOK
  <2>2. \A i \in DOMAIN reviews : reviews[i] \in Review
    BY <2>1
  <2> QED  BY <2>1, <2>2 DEF Review
<1>5. l \in Seq(Seq(Line)) /\ o \in SUBSET Nat
  <2>1. PICK n \in Nat : DOMAIN reviews = 1 .. n
    BY <1>4
  <2>2. l \in [1 .. n -> Seq(Line)] /\ o \in SUBSET (1 .. n)
    BY <1>4, <2>1
  <2> HIDE DEF l, o
  <2> QED  BY ONLY <2>2
<1>6. PICK d \in Recording : d = e
  <2> HIDE DEF o, l
  <2> QED  BY <1>5 DEF Receiving, Recording
<1>7. /\ d.step = "numbered" /\ d.op = "receive" /\ d.shipment = c.shipment
      /\ d.damaged = c.damaged /\ d.got = c.got /\ d.open = o /\ d.lines = l
  <2> HIDE DEF o, l
  <2> QED  BY <1>6
<1>8. d # Idle
  BY AtWork
<1>10. TypeOK' /\ \A x \in Request : call'[x] = IF x = r THEN d ELSE call[x]
  <2> HIDE DEF e
  <2>1. seenStock' \in [Request -> Nat] /\ numberRow' \in Request \cup {Nobody}
    BY <1>3 DEF IInv, TypeOK
  <2>2. d.op = "receive" => d.damaged <= d.got
    BY <1>2, <1>7
  <2>3. call' = [call EXCEPT ![r] = d] /\ UNCHANGED <<tables, history>>
    BY <1>3, <1>6
  <2>4. TypeOK
    BY DEF IInv
  <2> HIDE DEF o, l
  <2> QED  BY <2>1, <2>2, <2>3, <2>4, CallType
<1>11. d.open = {i \in DOMAIN reviews : /\ reviews[i].truck = TruckOf[d.shipment]
                                        /\ reviews[i].status = "PENDING"}
       /\ d.lines = [i \in DOMAIN reviews |-> reviews[i].lines]
  BY <1>7
<1>12. /\ \A x \in Request : x # r => (numberRow' = x <=> numberRow = x)
       /\ numberRow' = r <=> d.step = "numbered"
  BY <1>3, <1>7
<1>13. d.op # "decide"
  BY <1>7
<1> HIDE DEF o, l, e
<1> QED  BY <1>3, <1>10, <1>11, <1>12, <1>13, QuietStep

\* A decision reads its first hold bucket: the bags of its line, or none.
LEMMA ReadHoldStep ==
  ASSUME IInv, NEW r \in Request, ReadHold(r)
  PROVE  IInv'
<1>1. PICK c \in Deciding : c = call[r]
  BY Remembers DEF IInv, ReadHold
<1>2. c # Idle /\ c.op = "decide" /\ c.step = "asked" /\ c.lines \in Seq(Line)
  BY <1>1, AtWork DEF Deciding
<1>3. /\ c.review \in DOMAIN reviews /\ c.lines # <<>>
      /\ \A j \in DOMAIN c.lines : /\ j \in DOMAIN reviews[c.review].lines
                                   /\ c.lines[j] = reviews[c.review].lines[j]
  BY <1>1, <1>2 DEF IInv, LinesStay
<1>4. /\ c.lines[1].shipment \in Shipment /\ c.lines[1].bags \in Nat
      /\ hold[c.lines[1].shipment] \in Nat
      /\ hold[c.lines[1].shipment] <= c.lines[1].bags
  <2>1. 1 \in DOMAIN c.lines /\ c.lines[1] \in Line
    BY <1>2, <1>3
  <2>2. c.lines[1].shipment \in Shipment /\ c.lines[1].bags \in Nat
    BY <2>1 DEF Line
  <2>3. OnLine(c.lines[1].shipment, c.review, 1)
    BY <1>3, <2>1 DEF OnLine
  <2>4. hold[c.lines[1].shipment] = IF DecidedAbout(c.lines[1].shipment, c.review)
                                    THEN 0 ELSE reviews[c.review].lines[1].bags
    BY <1>3, <2>1, <2>2, <2>3 DEF IInv, HeldIsReported
  <2> QED  BY <1>3, <2>1, <2>2, <2>4
<1>5. PICK d \in Emptying :
         d = [step |-> "read", op |-> "decide", by |-> c.by, review |-> c.review,
              outcome |-> c.outcome, lines |-> c.lines, seen |-> hold[c.lines[1].shipment]]
  BY <1>4 DEF Deciding, Emptying
<1>6. call' = [call EXCEPT ![r] = d] /\ UNCHANGED <<tables, history>> /\ seenStock' = seenStock
      /\ numberRow' = numberRow
  BY <1>1, <1>5 DEF ReadHold
<1>7. /\ d.step = "read" /\ d.op = "decide" /\ d.review = c.review
      /\ d.lines = c.lines /\ d.seen = hold[c.lines[1].shipment]
  BY <1>5
<1>8. TypeOK' /\ \A x \in Request : call'[x] = IF x = r THEN d ELSE call[x]
  <2>1. seenStock' \in [Request -> Nat] /\ numberRow' \in Request \cup {Nobody}
    BY <1>6 DEF IInv, TypeOK
  <2>2. d.op # "receive"
    BY <1>7
  <2> QED  BY <1>6, <2>1, <2>2, CallType DEF IInv
<1>9. /\ \A x \in Request : x # r => (numberRow' = x <=> numberRow = x)
      /\ numberRow' = r <=> d.step = "numbered"
      /\ d.step # "numbered"
  BY <1>1, <1>2, <1>6, <1>7 DEF IInv, NumberRowHeld
<1>10. /\ d.review \in DOMAIN reviews /\ d.lines # <<>>
       /\ \A j \in DOMAIN d.lines : /\ j \in DOMAIN reviews[d.review].lines
                                    /\ d.lines[j] = reviews[d.review].lines[j]
       /\ d.seen <= d.lines[1].bags /\ d.step = "read"
  BY <1>3, <1>4, <1>7
<1> QED  BY ONLY IInv, <1>6, <1>8, <1>9, <1>10, QuietStep, r \in Request

\* A request that ends early leaves nothing behind.
LEMMA FailStep ==
  ASSUME IInv, NEW r \in Request, Fail(r)
  PROVE  IInv'
<1>1. EndCall(r) /\ UNCHANGED <<tables, history>>
  BY DEF Fail
<1>2. TypeOK' /\ \A x \in Request : call'[x] = IF x = r THEN Idle ELSE call[x]
  BY <1>1, EndCallType DEF IInv, TypeOK, tables, history
<1>3. /\ \A x \in Request : x # r => (numberRow' = x <=> numberRow = x)
      /\ numberRow' # r
  BY <1>1 DEF EndCall
<1>4. Idle.step = "idle"
  BY DEF Idle
<1> QED  BY <1>1, <1>2, <1>3, <1>4, QuietStep

-----------------------------------------------------------------------------
(* A count-in commits. *)

\* Line j of review i is the new one; the others are those that there were,
\* and a new review is opened only if the truck has no open one.
Reported(c, i, j) ==
    /\ i \in DOMAIN reviews' /\ j \in DOMAIN reviews'[i].lines
    /\ reviews'[i].lines[j] = [shipment |-> c.shipment, bags |-> c.damaged]
    /\ reviews'[i].truck = TruckOf[c.shipment] /\ reviews'[i].status = "PENDING"
    /\ \A k \in DOMAIN reviews' : \A l \in DOMAIN reviews'[k].lines :
          \/ k = i /\ l = j
          \/ /\ k \in DOMAIN reviews /\ l \in DOMAIN reviews[k].lines
             /\ reviews'[k].lines[l] = reviews[k].lines[l]
    /\ \A k \in DOMAIN reviews :
          /\ k \in DOMAIN reviews'
          /\ reviews'[k].truck = reviews[k].truck /\ reviews'[k].status = reviews[k].status
          /\ reviews'[k].lines # <<>>
          /\ k # i => reviews'[k].lines = reviews[k].lines
          /\ \A l \in DOMAIN reviews[k].lines :
                /\ ~(k = i /\ l = j)
                /\ l \in DOMAIN reviews'[k].lines
                /\ reviews'[k].lines[l] = reviews[k].lines[l]
    /\ \A k \in DOMAIN reviews' : k \in DOMAIN reviews \/ k = i
    /\ i \notin DOMAIN reviews =>
          \A k \in DOMAIN reviews : ~(/\ reviews[k].truck = TruckOf[c.shipment]
                                      /\ reviews[k].status = "PENDING")

\* record joins the open review of the truck or opens one.
LEMMA JoinedIs ==
  ASSUME TypeOK, RecordReadsLast, LinesStay, NEW r \in Request,
         Doing(r, "receive", "numbered"), reviews' = Joined(call[r]), call[r].damaged # 0
  PROVE  \E i, j \in Nat : Reported(call[r], i, j)
<1>1. PICK c \in Recording : c = call[r]
  BY Remembers
<1> DEFINE line == [shipment |-> c.shipment, bags |-> c.damaged]
<1>2. /\ reviews \in Seq(Review) /\ \A k \in DOMAIN reviews : reviews[k] \in Review
      /\ \A k \in DOMAIN reviews : reviews[k].lines \in Seq(Line)
  <2>1. reviews \in Seq(Review)
    BY DEF TypeOK
  <2>2. \A k \in DOMAIN reviews : reviews[k] \in Review
    BY <2>1
  <2> QED  BY <2>1, <2>2 DEF Review
<1>3. c.open = {i \in DOMAIN reviews : /\ reviews[i].truck = TruckOf[c.shipment]
                                       /\ reviews[i].status = "PENDING"}
      /\ c.lines = [i \in DOMAIN reviews |-> reviews[i].lines]
  BY <1>1 DEF RecordReadsLast
<1>4. CASE c.open = {}
  <2> DEFINE one == <<line>>
             new == [truck |-> TruckOf[c.shipment], status |-> "PENDING",
                     by |-> c.by, lines |-> one]
  <2>1. reviews' = Append(reviews, new)
    BY <1>1, <1>4 DEF Joined
  <2>2. one = <<line>> /\ DOMAIN one = {1} /\ one[1] = line
    OBVIOUS
  <2>3. /\ new.truck = TruckOf[c.shipment] /\ new.status = "PENDING" /\ new.lines = one
    OBVIOUS
  <2>4. DOMAIN reviews = 1 .. Len(reviews) /\ Len(reviews) \in Nat
    BY <1>2
  <2> HIDE DEF new, one, line
  <2>5. DOMAIN reviews' = 1 .. (Len(reviews) + 1)
    BY <1>2, <2>1
  <2>6. \A k \in DOMAIN reviews : k \in DOMAIN reviews' /\ reviews'[k] = reviews[k]
    BY <1>2, <2>1, <2>4, <2>5
  <2>7. PICK i \in Nat :
           /\ i = Len(reviews) + 1 /\ i \notin DOMAIN reviews /\ i \in DOMAIN reviews'
           /\ reviews'[i] = new
           /\ \A k \in DOMAIN reviews' : (k \in DOMAIN reviews \/ k = i)
    BY <1>2, <2>1, <2>4, <2>5
  <2>8. Reported(c, i, 1)
    <3>1. \A k \in DOMAIN reviews : k # i /\ reviews[k].lines # <<>>
      BY <2>7 DEF LinesStay
    <3>2. reviews'[i].lines = one /\ reviews'[i].truck = TruckOf[c.shipment]
          /\ reviews'[i].status = "PENDING"
      BY <2>3, <2>7
    <3>3. \A k \in DOMAIN reviews' : \A l \in DOMAIN reviews'[k].lines :
             \/ k = i /\ l = 1
             \/ /\ k \in DOMAIN reviews /\ l \in DOMAIN reviews[k].lines
                /\ reviews'[k].lines[l] = reviews[k].lines[l]
      BY <2>2, <2>6, <2>7, <3>2
    <3>4. \A k \in DOMAIN reviews : ~(/\ reviews[k].truck = TruckOf[c.shipment]
                                      /\ reviews[k].status = "PENDING")
      BY <1>3, <1>4
    <3>5. reviews'[i].lines[1] = [shipment |-> c.shipment, bags |-> c.damaged]
          /\ 1 \in DOMAIN reviews'[i].lines
      BY <2>2, <3>2 DEF line
    <3> QED  BY <2>6, <2>7, <3>1, <3>2, <3>3, <3>4, <3>5 DEF Reported
  <2> QED  BY <1>1, <2>7, <2>8
<1>5. CASE c.open # {}
  <2>1. PICK i \in c.open : i = CHOOSE x \in c.open : TRUE
    BY <1>5
  <2>2. i \in DOMAIN reviews /\ reviews[i].truck = TruckOf[c.shipment]
        /\ reviews[i].status = "PENDING" /\ c.lines[i] = reviews[i].lines /\ i \in Nat
    BY <1>2, <1>3, <2>1
  <2> DEFINE longer == Append(reviews[i].lines, line)
  <2>3. reviews' = [reviews EXCEPT ![i].lines = longer]
    BY <1>1, <1>5, <2>1, <2>2 DEF Joined
  <2>4. PICK n \in Nat : n = Len(reviews[i].lines)
    BY <1>2, <2>2
  <2>5. DOMAIN reviews[i].lines = 1 .. n
    BY <1>2, <2>2, <2>4
  <2>6. /\ DOMAIN longer = 1 .. (n + 1) /\ longer[n + 1] = line
        /\ \A l \in 1 .. n : longer[l] = reviews[i].lines[l]
    <3> HIDE DEF line
    <3> QED  BY <1>2, <2>2, <2>4
  <2> HIDE DEF longer
  <2>7. /\ DOMAIN reviews' = DOMAIN reviews
        /\ \A k \in DOMAIN reviews : k # i => reviews'[k] = reviews[k]
        /\ reviews'[i].truck = reviews[i].truck /\ reviews'[i].status = reviews[i].status
        /\ reviews'[i].lines = longer
    BY <1>2, <2>2, <2>3 DEF Review
  <2>8. PICK j \in Nat :
           /\ j = n + 1 /\ j \notin 1 .. n /\ j \in 1 .. (n + 1) /\ longer[j] = line
           /\ \A l \in 1 .. (n + 1) : (l = j \/ l \in 1 .. n)
           /\ \A l \in 1 .. n : l \in 1 .. (n + 1)
    BY <2>6
  <2> HIDE DEF line
  <2>9. longer # <<>>
    BY <2>6, <2>8
  <2>10. Reported(c, i, j)
    BY <2>2, <2>5, <2>6, <2>7, <2>8, <2>9 DEF Reported, LinesStay, line
  <2> QED  BY <1>1, <2>2, <2>10
<1> QED  BY <1>4, <1>5

\* The bucket lets a size be counted in once: it has never been before.
LEMMA FirstCount ==
  ASSUME TypeOK, CountedInOnce, NEW r \in Request, CommitReceive(r),
         NEW c \in Recording, c = call[r]
  PROVE  /\ c.shipment \in Shipment /\ c.damaged \in Nat
         /\ ~received[c.shipment] /\ counted[c.shipment] = <<>>
         /\ Len(counted'[c.shipment]) = 1 /\ DOMAIN counted'[c.shipment] = {1}
         /\ counted'[c.shipment][1].damaged = c.damaged
         /\ \A s \in Shipment : s # c.shipment => counted'[s] = counted[s]
<1> DEFINE e == [by |-> c.by, usable |-> c.got - c.damaged, damaged |-> c.damaged]
<1>1. c.shipment \in Shipment /\ c.damaged \in Nat /\ e.damaged = c.damaged
  BY DEF Recording
<1>2. ~received[c.shipment]
  <2>1. bucket[c.shipment] >= Sent[c.shipment] /\ Sent[c.shipment] \in Nat \ {0}
    BY <1>1 DEF CommitReceive, InTransit
  <2> QED  BY <1>1, <2>1 DEF CountedInOnce
<1>3. counted[c.shipment] \in Seq(Count) /\ Len(counted[c.shipment]) = 0
  <2>1. counted[c.shipment] \in Seq(Count)
    BY <1>1 DEF TypeOK
  <2>2. PICK n \in Nat : n = Len(counted[c.shipment])
    BY <2>1
  <2>3. n <= 1 /\ n # 1
    BY <1>1, <1>2, <2>2 DEF CountedInOnce
  <2>4. n = 0
    BY <2>3
  <2> QED  BY <2>1, <2>2, <2>4
<1>4. counted[c.shipment] = <<>>
  BY <1>3
<1>5. counted' = [counted EXCEPT ![c.shipment] = Append(@, e)]
  BY DEF CommitReceive
<1> HIDE DEF e
<1>6. counted'[c.shipment] = <<e>> /\ \A s \in Shipment : s # c.shipment => counted'[s] = counted[s]
  BY <1>1, <1>4, <1>5 DEF TypeOK
<1> QED  BY <1>1, <1>2, <1>4, <1>6

\* No more reviews than sizes: each has a size of its own.
Fit == DOMAIN reviews \subseteq DOMAIN decisions
LEMMA ReviewsFit ==
  ASSUME TypeOK, OneOpenReview, LinesStay
  PROVE  Fit
<1>1. PICK I : I = 1 .. Len(reviews)
  OBVIOUS
<1>2. reviews \in Seq(Review) /\ I = DOMAIN reviews /\ Len(reviews) \in Nat
  BY <1>1 DEF TypeOK
<1>3. ASSUME NEW i \in I PROVE 1 \in DOMAIN reviews[i].lines /\ reviews[i].lines[1].shipment \in Shipment
  <2>0. reviews[i] \in Review
    BY <1>2
  <2>1. reviews[i].lines \in Seq(Line) /\ reviews[i].lines # <<>>
    BY <1>2, <2>0 DEF LinesStay, Review
  <2>2. 1 \in DOMAIN reviews[i].lines /\ reviews[i].lines[1] \in Line
    BY <2>1
  <2> QED  BY <2>2 DEF Line
<1>4. PICK first : first = [i \in I |-> reviews[i].lines[1].shipment]
  OBVIOUS
<1>5. first \in [I -> Shipment]
  BY <1>3, <1>4
<1>6. \A i, k \in I : first[i] = first[k] => i = k
  BY <1>2, <1>3, <1>4 DEF OneOpenReview
<1>7. first \in Injection(I, Shipment)
  BY <1>5, <1>6 DEF Injection, IsInjective
<1>8. Cardinality(I) <= Cardinality(Shipment)
  BY <1>7, ShipmentAssumption, FS_Injection
<1>9. Cardinality(I) = Len(reviews)
  <2>1. Cardinality(1 .. Len(reviews)) = IF 1 > Len(reviews) THEN 0 ELSE Len(reviews) - 1 + 1
    BY <1>2, FS_Interval
  <2> QED  BY <1>1, <1>2, <2>1
<1>10. Cardinality(Shipment) \in Nat /\ DOMAIN decisions = 1 .. Cardinality(Shipment)
  BY ShipmentAssumption, FS_CardinalityType DEF TypeOK
<1> QED  BY <1>1, <1>2, <1>8, <1>9, <1>10 DEF Fit

LEMMA ReviewsFitAfter ==
  TypeOK' /\ OneOpenReview' /\ LinesStay' => Fit'
<1>1. TypeOK /\ OneOpenReview /\ LinesStay => Fit
  BY ReviewsFit
<1> QED  BY <1>1, PTL

LEMMA CommitReceiveStep ==
  ASSUME IInv, NEW r \in Request, CommitReceive(r)
  PROVE  IInv'
<1>1. PICK c \in Recording : c = call[r]
  BY Remembers DEF IInv, CommitReceive
<1> DEFINE s0 == c.shipment
           t0 == TruckOf[c.shipment]
<1>2. /\ s0 \in Shipment /\ t0 \in Truck /\ c.damaged \in Nat
      /\ c # Idle /\ c.step = "numbered" /\ c.op = "receive"
  BY AtWork DEF Recording
<1>3. /\ ~received[s0] /\ counted[s0] = <<>> /\ Len(counted'[s0]) = 1
      /\ DOMAIN counted'[s0] = {1} /\ counted'[s0][1].damaged = c.damaged
      /\ \A s \in Shipment : s # s0 => counted'[s] = counted[s]
  BY <1>1, FirstCount DEF IInv
<1>4. /\ \A s \in Shipment : bucket'[s] = IF s = s0 THEN bucket[s] - Sent[s] ELSE bucket[s]
      /\ \A s \in Shipment : received'[s] <=> s = s0 \/ received[s]
      /\ \A s \in Shipment : hold'[s] = IF s = s0 THEN hold[s] + c.damaged ELSE hold[s]
      /\ reviews' = Joined(c) /\ EndCall(r) /\ decisions' = decisions
      /\ bucket[s0] = Sent[s0]
  BY <1>1, <1>2, <1>3 DEF IInv, TypeOK, CommitReceive, CountedInOnce
<1>5. TypeOK' /\ \A x \in Request : call'[x] = IF x = r THEN Idle ELSE call[x]
  BY <1>4, CommitReceiveType, EndCallType DEF IInv
<1>6. /\ numberRow = r /\ numberRow' = Nobody
      /\ \A x \in Request : call'[x].step # "numbered"
  BY <1>1, <1>2, <1>4, <1>5 DEF IInv, NumberRowHeld, EndCall, Idle
<1>7. NumberRowHeld' /\ RecordReadsLast'
  BY <1>6 DEF NumberRowHeld, RecordReadsLast, Doing
<1>8. CountedInOnce'
  <2> SUFFICES ASSUME NEW s \in Shipment
               PROVE  /\ Len(counted'[s]) <= 1
                      /\ received'[s] <=> Len(counted'[s]) = 1
                      /\ bucket'[s] = IF received'[s] THEN 0 ELSE Sent[s]
    BY DEF CountedInOnce
  <2>1. CASE s = s0
    <3>1. PICK n \in Nat : n = Sent[s]
      OBVIOUS
    <3>2. bucket'[s] = n - n /\ received'[s]
      BY <1>4, <2>1, <3>1
    <3>3. bucket'[s] = 0
      BY <3>2
    <3>4. Len(counted'[s]) = 1
      BY <1>3, <2>1
    <3> QED  BY <3>2, <3>3, <3>4
  <2>2. CASE s # s0
    BY <1>3, <1>4, <2>2 DEF IInv, CountedInOnce
  <2> QED  BY <2>1, <2>2
<1>9. /\ ~DamagedIn(s0) /\ (DamagedIn(s0)' <=> c.damaged # 0)
      /\ \A s \in Shipment : s # s0 => (DamagedIn(s)' <=> DamagedIn(s))
  BY <1>2, <1>3 DEF DamagedIn
<1>10. \A k \in DOMAIN reviews : \A l \in DOMAIN reviews[k].lines :
          reviews[k].lines[l].shipment # s0
  BY <1>2, <1>9 DEF IInv, OneOpenReview, OnLine
<1>11. \A i : \A s \in Shipment : DecidedAbout(s, i)' <=> DecidedAbout(s, i)
  BY <1>4 DEF DecidedAbout
<1>14. \A i \in DOMAIN decisions : ~DecidedAbout(s0, i)
  BY <1>2, <1>10 DEF IInv, DecidedLines, OnLine
<1> HIDE DEF s0, t0
<1>12. CASE c.damaged = 0
  <2>1. reviews' = reviews /\ \A s \in Shipment : hold'[s] = hold[s]
    BY <1>2, <1>4, <1>12 DEF Joined, IInv, TypeOK
  <2>2. \A s \in Shipment : DamagedIn(s)' <=> DamagedIn(s)
    BY <1>9, <1>12
  <2>3. \A x \in Request : call'[x] # Idle => call'[x] = call[x] /\ x # r
    BY <1>5
  <2>4. OneOpenReview'
    BY <2>1, <2>2 DEF IInv, OneOpenReview, OnLine
  <2>5. LinesStay'
    BY <2>1, <2>3 DEF IInv, LinesStay
  <2>6. SeenIsTheLine'
    BY <2>3 DEF IInv, SeenIsTheLine
  <2>7. DecidedLines'
    BY <1>4, <1>11, <2>1 DEF IInv, DecidedLines, OnLine
  <2>8. HeldIsReported'
    BY <1>11, <2>1, <2>2 DEF IInv, HeldIsReported, OnLine
  <2> QED  BY <1>5, <1>7, <1>8, <2>4, <2>5, <2>6, <2>7, <2>8 DEF IInv
<1>13. CASE c.damaged # 0
  <2>1. PICK i, j \in Nat : Reported(c, i, j)
    BY <1>1, <1>4, <1>13, JoinedIs DEF IInv, CommitReceive
  <2> DEFINE line == [shipment |-> c.shipment, bags |-> c.damaged]
  <2>2. /\ i \in DOMAIN reviews' /\ j \in DOMAIN reviews'[i].lines
        /\ reviews'[i].lines[j].shipment = s0 /\ reviews'[i].lines[j].bags = c.damaged
        /\ reviews'[i].truck = t0 /\ reviews'[i].status = "PENDING"
    BY <2>1 DEF Reported, s0, t0
  <2>3. \A k \in DOMAIN reviews' : \A l \in DOMAIN reviews'[k].lines :
           \/ k = i /\ l = j
           \/ /\ k \in DOMAIN reviews /\ l \in DOMAIN reviews[k].lines
              /\ reviews'[k].lines[l] = reviews[k].lines[l]
    BY <2>1 DEF Reported
  <2>4. \A k \in DOMAIN reviews :
           /\ k \in DOMAIN reviews'
           /\ reviews'[k].truck = reviews[k].truck /\ reviews'[k].status = reviews[k].status
           /\ reviews'[k].lines # <<>>
           /\ k # i => reviews'[k].lines = reviews[k].lines
           /\ \A l \in DOMAIN reviews[k].lines :
                 /\ ~(k = i /\ l = j)
                 /\ l \in DOMAIN reviews'[k].lines
                 /\ reviews'[k].lines[l] = reviews[k].lines[l]
    BY <2>1 DEF Reported
  <2>5. /\ \A k \in DOMAIN reviews' : k \in DOMAIN reviews \/ k = i
        /\ i \notin DOMAIN reviews =>
              \A k \in DOMAIN reviews : ~(reviews[k].truck = t0 /\ reviews[k].status = "PENDING")
    BY <2>1 DEF Reported, t0
  <2>6. \A x \in Request : call'[x] # Idle => call'[x] = call[x] /\ x # r /\ call[x] # Idle
    BY <1>5
  <2>7. \A k \in DOMAIN reviews' : reviews'[k].lines # <<>>
    <3>1. reviews'[i].lines # <<>>
      <4>1. DOMAIN <<>> = {}
        OBVIOUS
      <4> QED  BY <2>2, <4>1
    <3> QED  BY <2>4, <2>5, <3>1
  <2>8. LinesStay'
    <3>1. ASSUME NEW x \in Request, call'[x] # Idle, call'[x].op = "decide"
          PROVE  /\ call'[x].review \in DOMAIN reviews'
                 /\ call'[x].lines # <<>>
                 /\ \A l \in DOMAIN call'[x].lines :
                       /\ l \in DOMAIN reviews'[call'[x].review].lines
                       /\ call'[x].lines[l] = reviews'[call'[x].review].lines[l]
      BY <2>4, <2>6, <3>1 DEF IInv, LinesStay
    <3> QED  BY <2>7, <3>1 DEF LinesStay
  <2>9. SeenIsTheLine'
    BY <2>6 DEF IInv, SeenIsTheLine
  <2>10. OneOpenReview'
    <3>1. ASSUME NEW k \in DOMAIN reviews', NEW m \in DOMAIN reviews',
                 reviews'[k].truck = reviews'[m].truck,
                 reviews'[k].status = "PENDING", reviews'[m].status = "PENDING"
          PROVE  k = m
      BY <2>2, <2>4, <2>5, <3>1 DEF IInv, OneOpenReview
    <3>2. ASSUME NEW s \in Shipment
          PROVE  DamagedIn(s)' <=>
                   \E k \in DOMAIN reviews' : \E l \in DOMAIN reviews'[k].lines : OnLine(s, k, l)'
      <4>1. CASE s = s0
        BY <1>9, <1>13, <2>2, <4>1 DEF OnLine
      <4>2. CASE s # s0
        <5>1. DamagedIn(s) <=>
                \E k \in DOMAIN reviews : \E l \in DOMAIN reviews[k].lines :
                    reviews[k].lines[l].shipment = s
          BY DEF IInv, OneOpenReview, OnLine
        <5>2. (\E k \in DOMAIN reviews : \E l \in DOMAIN reviews[k].lines :
                    reviews[k].lines[l].shipment = s)
              => \E k \in DOMAIN reviews' : \E l \in DOMAIN reviews'[k].lines :
                    reviews'[k].lines[l].shipment = s
          BY <2>4
        <5>3. (\E k \in DOMAIN reviews' : \E l \in DOMAIN reviews'[k].lines :
                    reviews'[k].lines[l].shipment = s)
              => \E k \in DOMAIN reviews : \E l \in DOMAIN reviews[k].lines :
                    reviews[k].lines[l].shipment = s
          BY <2>2, <2>3, <4>2
        <5> QED  BY <1>9, <4>2, <5>1, <5>2, <5>3 DEF OnLine
      <4> QED  BY <4>1, <4>2
    <3>3. ASSUME NEW k \in DOMAIN reviews', NEW m \in DOMAIN reviews',
                 NEW l \in DOMAIN reviews'[k].lines, NEW n \in DOMAIN reviews'[m].lines,
                 reviews'[k].lines[l].shipment = reviews'[m].lines[n].shipment
          PROVE  k = m /\ l = n
      BY <1>10, <2>2, <2>3, <3>3 DEF IInv, OneOpenReview
    <3> QED  BY <3>1, <3>2, <3>3 DEF OneOpenReview
  <2>11. DOMAIN reviews' \subseteq DOMAIN decisions
    <3>1. DOMAIN reviews' \subseteq DOMAIN decisions'
      BY <1>5, <2>8, <2>10, ReviewsFitAfter DEF Fit
    <3> QED  BY <1>4, <3>1
  <2>12. DecidedLines'
    <3> SUFFICES ASSUME NEW k \in DOMAIN decisions
                 PROVE  /\ decisions[k] # <<>> => k \in DOMAIN reviews'
                        /\ k \in DOMAIN reviews' /\ decisions[k] = <<>>
                              => reviews'[k].status = "PENDING"
                        /\ \A s \in Shipment : DecidedAbout(s, k) =>
                              \E l \in DOMAIN reviews'[k].lines :
                                  k \in DOMAIN reviews' /\ reviews'[k].lines[l].shipment = s
      BY <1>4, <1>11 DEF DecidedLines, OnLine
    <3>1. /\ decisions[k] # <<>> => k \in DOMAIN reviews
          /\ k \in DOMAIN reviews /\ decisions[k] = <<>> => reviews[k].status = "PENDING"
          /\ \A s \in Shipment : DecidedAbout(s, k) =>
                \E l \in DOMAIN reviews[k].lines :
                    k \in DOMAIN reviews /\ reviews[k].lines[l].shipment = s
      BY DEF IInv, DecidedLines, OnLine
    <3>2. k \in DOMAIN reviews' /\ decisions[k] = <<>> => reviews'[k].status = "PENDING"
      BY <2>2, <2>4, <2>5, <3>1
    <3> QED  BY <2>4, <3>1, <3>2
  <2>13. HeldIsReported'
    <3> SUFFICES ASSUME NEW s \in Shipment
                 PROVE  /\ ~DamagedIn(s)' => hold'[s] = 0
                        /\ \A k \in DOMAIN reviews' : \A l \in DOMAIN reviews'[k].lines :
                              reviews'[k].lines[l].shipment = s =>
                              hold'[s] = IF DecidedAbout(s, k) THEN 0
                                         ELSE reviews'[k].lines[l].bags
      BY <1>11 DEF HeldIsReported, OnLine
    <3>1. /\ ~DamagedIn(s) => hold[s] = 0
          /\ \A k \in DOMAIN reviews : \A l \in DOMAIN reviews[k].lines :
                reviews[k].lines[l].shipment = s =>
                hold[s] = IF DecidedAbout(s, k) THEN 0 ELSE reviews[k].lines[l].bags
      BY DEF IInv, HeldIsReported, OnLine
    <3>2. CASE s = s0
      <4>1. hold'[s] = c.damaged
        BY <1>2, <1>4, <1>9, <3>1, <3>2
      <4>2. \A k \in DOMAIN reviews' : ~DecidedAbout(s, k)
        BY <1>14, <2>11, <3>2
      <4> QED  BY <1>9, <1>10, <1>13, <2>2, <2>3, <3>2, <4>1, <4>2
    <3>3. CASE s # s0
      <4>1. ~DamagedIn(s)' => hold'[s] = 0
        BY <1>4, <1>9, <3>1, <3>3
      <4>2. ASSUME NEW k \in DOMAIN reviews', NEW l \in DOMAIN reviews'[k].lines,
                   reviews'[k].lines[l].shipment = s
            PROVE  hold'[s] = IF DecidedAbout(s, k) THEN 0 ELSE reviews'[k].lines[l].bags
        <5>1. /\ k \in DOMAIN reviews /\ l \in DOMAIN reviews[k].lines
              /\ reviews'[k].lines[l] = reviews[k].lines[l]
          BY <2>2, <2>3, <3>3, <4>2
        <5> QED  BY <1>4, <3>1, <3>3, <4>2, <5>1
      <4> QED  BY <4>1, <4>2
    <3> QED  BY <3>2, <3>3
  <2> QED  BY <1>5, <1>7, <1>8, <2>8, <2>9, <2>10, <2>12, <2>13 DEF IInv
<1> QED  BY <1>12, <1>13

-----------------------------------------------------------------------------
(* A decision commits. *)

LEMMA CommitDecideStep ==
  ASSUME IInv, NEW r \in Request, CommitDecide(r)
  PROVE  IInv'
<1>1. PICK c \in Emptying : c = call[r]
  BY Remembers DEF IInv, CommitDecide
<1>2. /\ c # Idle /\ c.op = "decide" /\ c.step = "numbered" /\ c.outcome \in Outcome
      /\ c.lines \in Seq(Line)
  BY <1>1, AtWork DEF Emptying, CommitDecide, Doing
<1> DEFINE i0 == c.review
<1>3. /\ i0 \in DOMAIN reviews /\ c.lines # <<>>
      /\ \A j \in DOMAIN c.lines : /\ j \in DOMAIN reviews[i0].lines
                                   /\ c.lines[j] = reviews[i0].lines[j]
      /\ c.seen = c.lines[1].bags
  BY <1>1, <1>2 DEF IInv, LinesStay, SeenIsTheLine
<1>4. /\ \A s \in Shipment : hold'[s] = HoldAfter(c)[s] /\ HoldAfter(c)[s] >= 0
      /\ reviews' = [reviews EXCEPT ![i0].status = c.outcome]
      /\ EndCall(r) /\ UNCHANGED <<received, bucket, counted>>
  BY <1>1 DEF CommitDecide
<1>5. TypeOK' /\ \A x \in Request : call'[x] = IF x = r THEN Idle ELSE call[x]
  BY <1>4, CommitDecideType, EndCallType DEF IInv
<1>6. /\ numberRow = r /\ numberRow' = Nobody
      /\ \A x \in Request : call'[x].step # "numbered"
  BY <1>1, <1>2, <1>4, <1>5 DEF IInv, NumberRowHeld, EndCall, Idle
<1>7. NumberRowHeld' /\ RecordReadsLast'
  BY <1>6 DEF NumberRowHeld, RecordReadsLast, Doing
<1>8. CountedInOnce'
  BY <1>4 DEF IInv, CountedInOnce
<1>9. /\ DOMAIN reviews' = DOMAIN reviews
      /\ \A k \in DOMAIN reviews :
            /\ reviews'[k].truck = reviews[k].truck /\ reviews'[k].lines = reviews[k].lines
            /\ k # i0 => reviews'[k].status = reviews[k].status
            /\ k = i0 => reviews'[k].status = c.outcome
  <2>1. reviews \in Seq(Review)
    BY DEF IInv, TypeOK
  <2>2. \A k \in DOMAIN reviews : reviews[k] \in Review
    BY <2>1
  <2>3. /\ DOMAIN reviews' = DOMAIN reviews
        /\ \A k \in DOMAIN reviews : k # i0 => reviews'[k] = reviews[k]
        /\ reviews'[i0] = [reviews[i0] EXCEPT !.status = c.outcome]
    BY <1>3, <1>4, <2>1
  <2> QED  BY <1>3, <2>2, <2>3 DEF Review
<1>10. c.outcome # "PENDING"
  BY <1>2 DEF Outcome
<1>11. \A s \in Shipment : DamagedIn(s)' <=> DamagedIn(s)
  BY <1>4 DEF DamagedIn
<1>12. OneOpenReview'
  <2> HIDE DEF i0
  <2>1. \A k, m \in DOMAIN reviews' :
           reviews'[k].truck = reviews'[m].truck /\ reviews'[k].status = "PENDING"
              /\ reviews'[m].status = "PENDING" => k = m
    BY <1>9, <1>10 DEF IInv, OneOpenReview
  <2>2. \A s \in Shipment : \A k \in DOMAIN reviews : \A l \in DOMAIN reviews[k].lines :
           OnLine(s, k, l)' <=> OnLine(s, k, l)
    BY <1>9 DEF OnLine
  <2>3. \A s \in Shipment : DamagedIn(s)' <=>
           \E k \in DOMAIN reviews' : \E l \in DOMAIN reviews'[k].lines : OnLine(s, k, l)'
    BY <1>9, <1>11, <2>2 DEF IInv, OneOpenReview
  <2>4. \A k, m \in DOMAIN reviews' :
           \A l \in DOMAIN reviews'[k].lines, n \in DOMAIN reviews'[m].lines :
              reviews'[k].lines[l].shipment = reviews'[m].lines[n].shipment => k = m /\ l = n
    BY <1>9 DEF IInv, OneOpenReview
  <2> QED  BY <2>1, <2>3, <2>4 DEF OneOpenReview
<1>13. \A x \in Request : call'[x] # Idle => call'[x] = call[x] /\ x # r /\ call[x] # Idle
  BY <1>5
<1>14. LinesStay' /\ SeenIsTheLine'
  <2>1. LinesStay'
    <3> HIDE DEF i0
    <3>1. \A k \in DOMAIN reviews' : reviews'[k].lines # <<>>
      BY <1>9 DEF IInv, LinesStay
    <3>2. ASSUME NEW x \in Request, call'[x] # Idle, call'[x].op = "decide"
          PROVE  /\ call'[x].review \in DOMAIN reviews'
                 /\ call'[x].lines # <<>>
                 /\ \A l \in DOMAIN call'[x].lines :
                       /\ l \in DOMAIN reviews'[call'[x].review].lines
                       /\ call'[x].lines[l] = reviews'[call'[x].review].lines[l]
      <4>1. call'[x] = call[x] /\ call[x] # Idle /\ call[x].op = "decide"
        BY <1>13, <3>2
      <4>2. /\ call[x].review \in DOMAIN reviews /\ call[x].lines # <<>>
            /\ \A l \in DOMAIN call[x].lines :
                  /\ l \in DOMAIN reviews[call[x].review].lines
                  /\ call[x].lines[l] = reviews[call[x].review].lines[l]
        BY <4>1 DEF IInv, LinesStay
      <4>3. reviews'[call[x].review].lines = reviews[call[x].review].lines
            /\ call[x].review \in DOMAIN reviews'
        BY <1>9, <4>2
      <4> QED  BY ONLY <4>1, <4>2, <4>3
    <3> QED  BY <3>1, <3>2 DEF LinesStay
  <2>2. SeenIsTheLine'
    BY <1>13 DEF IInv, SeenIsTheLine
  <2> QED  BY <2>1, <2>2
<1>15. /\ \A j \in DOMAIN c.lines : c.lines[j] \in Line
       /\ 1 \in DOMAIN c.lines /\ c.lines[1] \in Line
  BY <1>2, <1>3
\* The history of the review gets this decision; nothing else is decided.
<1>16. i0 \in DOMAIN decisions
  BY <1>3, ReviewsFit DEF IInv, Fit
<1>17. /\ DOMAIN decisions' = DOMAIN decisions
       /\ \A k \in DOMAIN decisions : k # i0 => decisions'[k] = decisions[k]
       /\ decisions'[i0] # <<>>
       /\ \A s : DecidedAbout(s, i0)' <=>
             DecidedAbout(s, i0) \/ \E j \in DOMAIN c.lines : c.lines[j].shipment = s
  <2> DEFINE e == [by |-> c.by, outcome |-> c.outcome, lines |-> c.lines]
  <2>1. decisions' = [decisions EXCEPT ![i0] = Append(@, e)] /\ e.lines = c.lines
    BY <1>1 DEF CommitDecide
  <2>2. decisions[i0] \in Seq(Decision)
    BY <1>16 DEF IInv, TypeOK
  <2> HIDE DEF e, i0
  <2>3. /\ DOMAIN decisions' = DOMAIN decisions
        /\ \A k \in DOMAIN decisions : k # i0 => decisions'[k] = decisions[k]
        /\ decisions'[i0] = Append(decisions[i0], e)
    BY <1>16, <2>1 DEF IInv, TypeOK
  <2>4. PICK n \in Nat : n = Len(decisions[i0]) /\ DOMAIN decisions[i0] = 1 .. n
    BY <2>2
  <2>5. /\ DOMAIN decisions'[i0] = 1 .. n + 1 /\ decisions'[i0][n + 1] = e
        /\ \A k \in 1 .. n : decisions'[i0][k] = decisions[i0][k]
        /\ decisions'[i0] # <<>>
    BY <2>2, <2>3, <2>4
  <2>6. \A k : k \in 1 .. n + 1 <=> k \in 1 .. n \/ k = n + 1
    BY <2>4
  <2>7. \A s : DecidedAbout(s, i0)' <=>
             DecidedAbout(s, i0) \/ \E j \in DOMAIN c.lines : c.lines[j].shipment = s
    BY <2>1, <2>4, <2>5, <2>6 DEF DecidedAbout
  <2> QED  BY <2>3, <2>5, <2>7
<1>18. \A s : \A k \in DOMAIN decisions : k # i0 => (DecidedAbout(s, k)' <=> DecidedAbout(s, k))
  BY <1>17 DEF DecidedAbout
<1>19. DecidedLines'
  <2> SUFFICES ASSUME NEW k \in DOMAIN decisions
               PROVE  /\ decisions'[k] # <<>> => k \in DOMAIN reviews
                      /\ k \in DOMAIN reviews /\ decisions'[k] = <<>>
                            => reviews'[k].status = "PENDING"
                      /\ \A s \in Shipment : DecidedAbout(s, k)' =>
                            \E l \in DOMAIN reviews[k].lines :
                                k \in DOMAIN reviews /\ reviews[k].lines[l].shipment = s
    <3>1. ASSUME NEW k \in DOMAIN decisions
          PROVE  \A s \in Shipment : \A l :
                    k \in DOMAIN reviews /\ l \in DOMAIN reviews[k].lines
                      /\ reviews[k].lines[l].shipment = s => OnLine(s, k, l)'
      BY <1>9 DEF OnLine
    <3>2. \A k \in DOMAIN reviews : DOMAIN reviews'[k].lines = DOMAIN reviews[k].lines
      BY <1>9
    <3> QED  BY <1>9, <1>17, <3>1, <3>2 DEF DecidedLines
  <2>1. /\ decisions[k] # <<>> => k \in DOMAIN reviews
        /\ k \in DOMAIN reviews /\ decisions[k] = <<>> => reviews[k].status = "PENDING"
        /\ \A s \in Shipment : DecidedAbout(s, k) =>
              \E l \in DOMAIN reviews[k].lines :
                  k \in DOMAIN reviews /\ reviews[k].lines[l].shipment = s
    BY DEF IInv, DecidedLines, OnLine
  <2>2. CASE k = i0
    BY <1>3, <1>17, <2>1, <2>2
  <2>3. CASE k # i0
    <3> HIDE DEF i0
    <3> QED  BY <1>9, <1>17, <1>18, <2>1, <2>3
  <2> QED  BY <2>2, <2>3
<1>20. ASSUME NEW s \in Shipment, \A j \in DOMAIN c.lines : c.lines[j].shipment # s
       PROVE  hold'[s] = hold[s]
  <2>1. s # c.lines[1].shipment
    BY <1>15, <1>20
  <2>2. \/ \E j \in DOMAIN c.lines : /\ c.lines[j].shipment = s
                                     /\ HoldAfter(c)[s] = hold[s] - c.lines[j].bags
        \/ /\ \A j \in DOMAIN c.lines : c.lines[j].shipment # s
           /\ HoldAfter(c)[s] = hold[s]
    BY <1>3, <2>1, HoldAfterIs DEF IInv
  <2> QED  BY <1>4, <1>20, <2>2
<1>21. ASSUME NEW s \in Shipment, NEW j \in DOMAIN c.lines, c.lines[j].shipment = s
       PROVE  hold'[s] = 0
  <2>1. c.lines[j].bags \in Nat \ {0} /\ hold[s] \in Nat
    BY <1>15 DEF Line, IInv, TypeOK
  <2>2. ASSUME NEW l \in DOMAIN c.lines, c.lines[l].shipment = s PROVE l = j
    BY <1>3, <1>21, <2>2 DEF IInv, OneOpenReview
  <2>3. CASE s = c.lines[1].shipment
    <3>1. HoldAfter(c)[s] = c.seen - c.lines[1].bags
      BY <1>3, <2>3, HoldAfterIs DEF IInv
    <3>2. j = 1
      BY <1>15, <2>2, <2>3
    <3> QED  BY <1>3, <1>4, <2>1, <3>1, <3>2
  <2>4. CASE s # c.lines[1].shipment
    <3>1. PICK l \in DOMAIN c.lines : c.lines[l].shipment = s
                 /\ HoldAfter(c)[s] = hold[s] - c.lines[l].bags
      BY <1>3, <1>21, <2>4, HoldAfterIs DEF IInv
    <3>2. l = j
      BY <2>2, <3>1
    <3>3. OnLine(s, i0, j)
      BY <1>3, <1>21 DEF OnLine
    <3>4. hold[s] = IF DecidedAbout(s, i0) THEN 0 ELSE c.lines[j].bags
      BY <1>3, <3>3 DEF IInv, HeldIsReported
    <3>5. hold'[s] = hold[s] - c.lines[j].bags /\ hold'[s] >= 0
      BY <1>4, <3>1, <3>2
    <3> QED  BY <2>1, <3>4, <3>5
  <2> QED  BY <2>3, <2>4
<1>22. HeldIsReported'
  <2> SUFFICES ASSUME NEW s \in Shipment
               PROVE  /\ ~DamagedIn(s) => hold'[s] = 0
                      /\ \A k \in DOMAIN reviews : \A l \in DOMAIN reviews[k].lines :
                            reviews[k].lines[l].shipment = s =>
                            hold'[s] = IF DecidedAbout(s, k)' THEN 0
                                       ELSE reviews[k].lines[l].bags
    BY <1>9, <1>11 DEF HeldIsReported, OnLine
  <2>1. /\ ~DamagedIn(s) => hold[s] = 0
        /\ \A k \in DOMAIN reviews : \A l \in DOMAIN reviews[k].lines :
              reviews[k].lines[l].shipment = s =>
              hold[s] = IF DecidedAbout(s, k) THEN 0 ELSE reviews[k].lines[l].bags
    BY DEF IInv, HeldIsReported, OnLine
  <2>2. DOMAIN reviews \subseteq DOMAIN decisions
    BY ReviewsFit DEF IInv, Fit
  <2>3. CASE \A j \in DOMAIN c.lines : c.lines[j].shipment # s
    <3>1. hold'[s] = hold[s]
      BY <1>20, <2>3
    <3>2. \A k \in DOMAIN reviews : DecidedAbout(s, k)' <=> DecidedAbout(s, k)
      BY <1>17, <1>18, <2>2, <2>3
    <3> QED  BY <2>1, <3>1, <3>2
  <2>4. ASSUME NEW j \in DOMAIN c.lines, c.lines[j].shipment = s
        PROVE  /\ hold'[s] = 0
               /\ \A k \in DOMAIN reviews : \A l \in DOMAIN reviews[k].lines :
                     reviews[k].lines[l].shipment = s => DecidedAbout(s, k)'
    <3>1. hold'[s] = 0
      BY <1>21, <2>4
    <3>2. DecidedAbout(s, i0)'
      BY <1>17, <2>4
    <3>3. \A k \in DOMAIN reviews : \A l \in DOMAIN reviews[k].lines :
             reviews[k].lines[l].shipment = s => k = i0
      BY <1>3, <2>4 DEF IInv, OneOpenReview
    <3> QED  BY <3>1, <3>2, <3>3
  <2> QED  BY <2>3, <2>4
<1> QED  BY <1>5, <1>7, <1>8, <1>12, <1>14, <1>19, <1>22 DEF IInv

-----------------------------------------------------------------------------
(* The theorems. *)

LEMMA InitInv == Init => IInv
<1> SUFFICES ASSUME Init PROVE IInv
  OBVIOUS
<1>1. TypeOK
  <2>1. call \in [Request -> {Idle} \cup Receiving \cup Recording \cup Deciding \cup Emptying]
        /\ \A r \in Request : call[r] = Idle
    BY DEF Init
  <2>2. reviews \in Seq(Review) /\ counted \in [Shipment -> Seq(Count)]
        /\ decisions \in [1 .. Cardinality(Shipment) -> Seq(Decision)]
    BY DEF Init
  <2> QED  BY <2>1, <2>2 DEF Init, TypeOK
<1>2. DOMAIN reviews = {} /\ \A s \in Shipment : Len(counted[s]) = 0 /\ DOMAIN counted[s] = {}
  BY DEF Init
<1>3. \A r \in Request : call[r] = Idle /\ call[r].step = "idle"
  BY DEF Init, Idle
<1>4. CountedInOnce
  BY <1>2 DEF Init, CountedInOnce
<1>5. NumberRowHeld /\ RecordReadsLast
  BY <1>3 DEF Init, NumberRowHeld, RecordReadsLast, Doing
<1>6. OneOpenReview /\ LinesStay
  BY <1>2, <1>3 DEF OneOpenReview, LinesStay, DamagedIn
<1>7. SeenIsTheLine /\ DecidedLines
  <2>1. \A i \in DOMAIN decisions : decisions[i] = <<>> /\ DOMAIN decisions[i] = {}
    BY DEF Init
  <2> QED  BY <1>2, <1>3, <2>1 DEF SeenIsTheLine, DecidedLines, DecidedAbout
<1>8. HeldIsReported
  BY <1>2 DEF Init, HeldIsReported
<1> QED  BY <1>1, <1>4, <1>5, <1>6, <1>7, <1>8 DEF IInv

LEMMA InvStep ==
  ASSUME IInv, [Next]_vars
  PROVE  IInv'
<1>1. ASSUME NEW r \in Request, NEW u \in User, NEW s \in Shipment,
             NEW got \in 0 .. Sent[s] + MaxExtra, NEW damaged \in 0 .. got,
             AskReceive(r, u, s, got, damaged)
      PROVE  IInv'
  <2>1. got \in Nat /\ damaged \in Nat
    BY ExtraAssumption
  <2> QED  BY <1>1, <2>1, AskReceiveStep
<1>2. ASSUME NEW r \in Request, NEW u \in User, NEW i \in DOMAIN reviews,
             NEW outcome \in Outcome, AskDecide(r, u, i, outcome)
      PROVE  IInv'
  BY <1>2, AskDecideStep
<1>3. ASSUME NEW r \in Request, \/ LockShipment(r) \/ NumberReceive(r) \/ CommitReceive(r)
                                \/ ReadHold(r) \/ WriteHold(r) \/ NumberDecide(r)
                                \/ CommitDecide(r) \/ ReadStock(r) \/ WriteStock(r) \/ Fail(r)
      PROVE  IInv'
  BY <1>3, AdvanceStep, NumberReceiveStep, CommitReceiveStep, ReadHoldStep, CommitDecideStep,
     FailStep
<1>4. CASE UNCHANGED vars
  <2>1. UNCHANGED <<received, bucket, hold, stock, reviews, numberRow, call, seenStock,
                    counted, decisions, overwritten>>
    BY <1>4 DEF vars, tables, history
  <2>2. TypeOK' /\ CountedInOnce' /\ OneOpenReview'
    BY <2>1 DEF IInv, TypeOK, CountedInOnce, OneOpenReview, OnLine, DamagedIn
  <2>3. NumberRowHeld' /\ RecordReadsLast' /\ LinesStay'
    BY <2>1 DEF IInv, NumberRowHeld, RecordReadsLast, LinesStay, Doing
  <2>4. SeenIsTheLine' /\ DecidedLines' /\ HeldIsReported'
    BY <2>1 DEF IInv, SeenIsTheLine, DecidedLines, HeldIsReported, OnLine, DamagedIn,
                DecidedAbout
  <2> QED  BY <2>2, <2>3, <2>4 DEF IInv
<1> QED  BY <1>1, <1>2, <1>3, <1>4 DEF Next

\* The inductive invariant, with the types of all that people, trucks and
\* warehouses keep (a hold bucket never below zero among them).
THEOREM ReviewsInductive == Spec => []IInv
<1>1. IInv /\ [Next]_vars => IInv'
  BY InvStep
<1> QED  BY <1>1, InitInv, PTL DEF Spec

\* However many people count a truck in at once, each of its sizes is counted
\* in once, and its in-transit bucket is emptied when it is and not before.
THEOREM SizesCountedOnce == Spec => []CountedInOnce
<1>1. IInv => CountedInOnce
  BY DEF IInv
<1> QED  BY <1>1, ReviewsInductive, PTL

\* No truck ever has two open reviews, and every size with damaged bags is on
\* one line of one review.
THEOREM OneReviewPerTruck == Spec => []OneOpenReview
<1>1. IInv => OneOpenReview
  BY DEF IInv
<1> QED  BY <1>1, ReviewsInductive, PTL

\* Held bags are "held until the Warehouse Supervisor decides": however
\* requests race, they are on a review that nobody has decided about with
\* their size on it.
THEOREM HeldBagsHaveAReview == Spec => []HeldBagsAwaitDecision
<1>1. IInv => HeldBagsAwaitDecision
  <2> SUFFICES ASSUME IInv, NEW s \in Shipment, hold[s] > 0
               PROVE  \E i \in DOMAIN reviews :
                         /\ \E j \in DOMAIN reviews[i].lines : OnLine(s, i, j)
                         /\ reviews[i].status = "PENDING" \/ decisions[i] # <<>>
                         /\ ~DecidedAbout(s, i)
    BY DEF HeldBagsAwaitDecision
  <2>1. DamagedIn(s)
    BY DEF IInv, HeldIsReported
  <2>2. PICK i \in DOMAIN reviews : \E j \in DOMAIN reviews[i].lines : OnLine(s, i, j)
    BY <2>1 DEF IInv, OneOpenReview
  <2>3. ~DecidedAbout(s, i)
    BY <2>2 DEF IInv, HeldIsReported
  <2>4. i \in DOMAIN decisions
    BY ReviewsFit DEF IInv, Fit
  <2>5. reviews[i].status = "PENDING" \/ decisions[i] # <<>>
    BY <2>4 DEF IInv, DecidedLines
  <2> QED  BY <2>2, <2>3, <2>5
<1> QED  BY <1>1, ReviewsInductive, PTL

-----------------------------------------------------------------------------
(* Bags that arrived: in the stock, held or written off, grade by grade. *)

\* A sequence that has got one more entry.
LEMMA SumAppended ==
  ASSUME NEW f, NEW g, NEW n \in Nat, \A i \in 1 .. n + 1 : g[i] \in Nat,
         \A i \in 1 .. n : f[i] = g[i]
  PROVE  SumFunctionOnSet(g, 1 .. n + 1) = SumFunctionOnSet(f, 1 .. n) + g[n + 1]
<1>1. PICK S, T : S = 1 .. n + 1 /\ T = 1 .. n
  OBVIOUS
<1>2. IsFiniteSet(S) /\ IsFiniteSet(T)
  BY ONLY <1>1, FS_Interval
<1>3. T \in SUBSET S /\ S \ T = {n + 1} /\ g[n + 1] \in Nat
  BY <1>1
<1>4. (\A i \in S : g[i] \in Nat) /\ \A i \in T : g[i] \in Nat /\ f[i] = g[i]
  BY <1>1
<1>5. SumFunctionOnSet(g, S) = SumFunctionOnSet(g, T) + SumFunctionOnSet(g, S \ T)
  BY ONLY <1>2, <1>3, <1>4, SumSplit
<1>6. SumFunctionOnSet(g, {n + 1}) = g[n + 1]
  BY ONLY <1>3, SumOne
<1>7. SumFunctionOnSet(g, T) = SumFunctionOnSet(f, T)
  BY ONLY <1>2, <1>4, SumSame
<1> QED  BY <1>1, <1>3, <1>5, <1>6, <1>7

LEMMA ArrivedIs ==
  ASSUME NEW q \in Seq(Count), NEW f, \A i \in DOMAIN q : f[i] = q[i].usable + q[i].damaged
  PROVE  /\ \A i \in 1 .. Len(q) : f[i] \in Nat
         /\ Arrived(q) = SumFunctionOnSet(f, 1 .. Len(q)) /\ Arrived(q) \in Nat
<1>1. PICK T : T = 1 .. Len(q)
  OBVIOUS
<1>2. T = DOMAIN q /\ Len(q) \in Nat /\ \A j \in T : q[j] \in Count
  BY <1>1
<1>3. IsFiniteSet(T)
  BY ONLY <1>1, <1>2, FS_Interval
<1>4. \A j \in T : f[j] \in Nat
  <2>1. \A j \in T : q[j].usable \in Nat /\ q[j].damaged \in Nat
    BY <1>2 DEF Count
  <2> QED  BY <1>2, <2>1
<1>5. [i \in T |-> q[i].usable + q[i].damaged] = [i \in T |-> f[i]]
  BY <1>2
<1>6. SumFunction([j \in T |-> f[j]]) = SumFunctionOnSet(f, T)
  BY ONLY <1>3, <1>4, SumOf
<1>7. SumFunctionOnSet(f, T) \in Nat
  BY ONLY <1>3, <1>4, SumIsNat
<1> QED  BY <1>1, <1>2, <1>4, <1>5, <1>6, <1>7 DEF Arrived

LEMMA OneMoreCount ==
  ASSUME NEW q \in Seq(Count), NEW e \in Count
  PROVE  Arrived(Append(q, e)) = Arrived(q) + (e.usable + e.damaged)
<1>1. PICK p : p = Append(q, e)
  OBVIOUS
<1>2. /\ p \in Seq(Count) /\ Len(p) = Len(q) + 1 /\ Len(q) \in Nat
      /\ p[Len(q) + 1] = e /\ \A i \in DOMAIN q : i \in DOMAIN p /\ p[i] = q[i]
      /\ DOMAIN p = 1 .. Len(q) + 1 /\ DOMAIN q = 1 .. Len(q)
  BY <1>1
<1>3. PICK f, g : /\ f = [i \in DOMAIN q |-> q[i].usable + q[i].damaged]
                  /\ g = [i \in DOMAIN p |-> p[i].usable + p[i].damaged]
  OBVIOUS
<1>4. Arrived(q) = SumFunctionOnSet(f, 1 .. Len(q))
  BY <1>3, ArrivedIs
<1>5. /\ Arrived(p) = SumFunctionOnSet(g, 1 .. Len(q) + 1)
      /\ \A i \in 1 .. Len(q) + 1 : g[i] \in Nat
  BY <1>2, <1>3, ArrivedIs
<1>6. \A i \in 1 .. Len(q) : f[i] = g[i]
  BY <1>2, <1>3
<1>7. SumFunctionOnSet(g, 1 .. Len(q) + 1) = SumFunctionOnSet(f, 1 .. Len(q)) + g[Len(q) + 1]
  BY ONLY <1>2, <1>5, <1>6, SumAppended
<1>8. g[Len(q) + 1] = e.usable + e.damaged
  BY <1>2, <1>3
<1> QED  BY <1>1, <1>4, <1>5, <1>7, <1>8

LEMMA WrittenOffIs ==
  ASSUME NEW q \in Seq(Decision), NEW g, NEW f,
         \A k \in DOMAIN q : f[k] = IF q[k].outcome = "APPROVED" THEN Bags(q[k].lines, g) ELSE 0
  PROVE  /\ \A k \in 1 .. Len(q) : f[k] \in Nat
         /\ WrittenOff(q, g) = SumFunctionOnSet(f, 1 .. Len(q)) /\ WrittenOff(q, g) \in Nat
<1>1. PICK S, T : /\ S = 1 .. Len(q)
                  /\ T = {k \in DOMAIN q : q[k].outcome = "APPROVED"}
  OBVIOUS
<1>2. S = DOMAIN q /\ Len(q) \in Nat /\ \A k \in S : q[k] \in Decision
  BY <1>1
<1>3. IsFiniteSet(S) /\ T \in SUBSET S
  <2>1. IsFiniteSet(S)
    BY ONLY <1>1, <1>2, FS_Interval
  <2> QED  BY <1>1, <1>2, <2>1
<1>4. ASSUME NEW k \in S PROVE f[k] \in Nat
  <2>1. q[k].lines \in Seq(Line)
    BY <1>2 DEF Decision
  <2>3. Bags(q[k].lines, g) \in Nat
    BY ONLY <2>1, BagsNat
  <2> QED  BY <1>2, <2>3
<1>5. [k \in T |-> Bags(q[k].lines, g)] = [k \in T |-> f[k]]
  BY <1>1
<1>6. (\A k \in S : f[k] \in Nat) /\ \A k \in S \ T : f[k] = 0
  BY <1>1, <1>2, <1>4
<1>7. SumFunction([k \in T |-> f[k]]) = SumFunctionOnSet(f, S)
  BY ONLY <1>3, <1>6, SumWhere
<1>8. SumFunctionOnSet(f, S) \in Nat
  BY ONLY <1>3, <1>6, SumIsNat
<1> QED  BY <1>1, <1>5, <1>6, <1>7, <1>8 DEF WrittenOff

LEMMA OneMoreDecision ==
  ASSUME NEW q \in Seq(Decision), NEW e \in Decision, NEW g
  PROVE  WrittenOff(Append(q, e), g)
            = WrittenOff(q, g) + IF e.outcome = "APPROVED" THEN Bags(e.lines, g) ELSE 0
<1>1. PICK p : p = Append(q, e)
  OBVIOUS
<1>2. /\ p \in Seq(Decision) /\ Len(p) = Len(q) + 1 /\ Len(q) \in Nat
      /\ p[Len(q) + 1] = e /\ \A i \in DOMAIN q : i \in DOMAIN p /\ p[i] = q[i]
      /\ DOMAIN p = 1 .. Len(q) + 1 /\ DOMAIN q = 1 .. Len(q)
  BY <1>1
<1>3. PICK f, h :
         /\ f = [k \in DOMAIN q |-> IF q[k].outcome = "APPROVED" THEN Bags(q[k].lines, g) ELSE 0]
         /\ h = [k \in DOMAIN p |-> IF p[k].outcome = "APPROVED" THEN Bags(p[k].lines, g) ELSE 0]
  OBVIOUS
<1>4. WrittenOff(q, g) = SumFunctionOnSet(f, 1 .. Len(q))
  BY <1>3, WrittenOffIs
<1>5. /\ WrittenOff(p, g) = SumFunctionOnSet(h, 1 .. Len(q) + 1)
      /\ \A i \in 1 .. Len(q) + 1 : h[i] \in Nat
  BY <1>2, <1>3, WrittenOffIs
<1>6. \A i \in 1 .. Len(q) : f[i] = h[i]
  BY <1>2, <1>3
<1>7. SumFunctionOnSet(h, 1 .. Len(q) + 1) = SumFunctionOnSet(f, 1 .. Len(q)) + h[Len(q) + 1]
  BY ONLY <1>2, <1>5, <1>6, SumAppended
<1>8. h[Len(q) + 1] = IF e.outcome = "APPROVED" THEN Bags(e.lines, g) ELSE 0
  BY <1>2, <1>3
<1> QED  BY <1>1, <1>4, <1>5, <1>7, <1>8

\* The bags of a grade on the lines of a review, a size each, size by size.
Takes(taken, b, lines) ==
    /\ \A j, l \in DOMAIN lines : lines[j].shipment = lines[l].shipment => j = l
    /\ \A j \in DOMAIN lines : taken[lines[j].shipment] = b[j]
    /\ \A s \in Shipment : (\A j \in DOMAIN lines : lines[j].shipment # s) => taken[s] = 0

LEMMA TakenIs ==
  ASSUME NEW lines \in Seq(Line), NEW g, NEW taken, NEW b,
         Weights(b, lines, g), Takes(taken, b, lines)
  PROVE  /\ \A s \in Shipment : taken[s] \in Nat
         /\ SumFunctionOnSet(taken, Shipment) = Bags(lines, g) /\ Bags(lines, g) \in Nat
<1>1. PICK T, S, size : /\ T = DOMAIN lines /\ S = {lines[j].shipment : j \in T}
                        /\ size = [j \in T |-> lines[j].shipment]
  OBVIOUS
<1>2. /\ \A j \in T : b[j] \in Nat
      /\ IsFiniteSet(T) /\ Bags(lines, g) = SumFunctionOnSet(b, T) /\ Bags(lines, g) \in Nat
  BY <1>1, BagsAre
<1>3. \A j \in T : lines[j].shipment \in Shipment
  <2>1. \A j \in T : lines[j] \in Line
    BY <1>1
  <2> QED  BY <2>1 DEF Line
<1>4. S \in SUBSET Shipment /\ \A s \in Shipment \ S : taken[s] = 0
  BY <1>1, <1>3 DEF Takes
<1>5. \A s \in Shipment : taken[s] \in Nat
  <2>1. \A s \in S : taken[s] \in Nat
    BY <1>1, <1>2 DEF Takes
  <2> QED  BY <1>4, <2>1
<1>6. size \in Bijection(T, S)
  <2>1. size \in [T -> S] /\ \A s \in S : \E j \in T : size[j] = s
    BY <1>1
  <2>2. \A j, l \in T : size[j] = size[l] => j = l
    BY <1>1 DEF Takes
  <2> QED  BY <2>1, <2>2 DEF Bijection, Injection, Surjection, IsInjective
<1>7. \A j \in T : b[j] = taken[size[j]]
  BY <1>1 DEF Takes
<1>8. IsFiniteSet(S) /\ \A s \in S : taken[s] \in Nat
  BY <1>4, <1>5, ShipmentAssumption, FS_Subset
<1>9. SumFunctionOnSet(b, T) = SumFunctionOnSet(taken, S)
  BY ONLY <1>2, <1>6, <1>7, <1>8, SumRenamed
<1>10. SumFunctionOnSet(taken, S) = SumFunctionOnSet(taken, Shipment)
  <2>1. SumFunction([s \in S |-> taken[s]]) = SumFunctionOnSet(taken, Shipment)
    BY ONLY <1>4, <1>5, ShipmentAssumption, SumWhere
  <2>2. SumFunction([s \in S |-> taken[s]]) = SumFunctionOnSet(taken, S)
    BY ONLY <1>8, SumOf
  <2> QED  BY ONLY <2>1, <2>2
<1> QED  BY <1>2, <1>5, <1>9, <1>10

LEMMA CountsAreNat ==
  ASSUME NEW q \in Seq(Count)
  PROVE  Arrived(q) \in Nat
<1>1. PICK f : f = [i \in DOMAIN q |-> q[i].usable + q[i].damaged]
  OBVIOUS
<1>2. \A i \in DOMAIN q : f[i] = q[i].usable + q[i].damaged
  BY <1>1
<1> QED  BY <1>2, ArrivedIs

LEMMA LossesAreNat ==
  ASSUME NEW q \in Seq(Decision), NEW g
  PROVE  WrittenOff(q, g) \in Nat
<1>1. PICK f : f = [k \in DOMAIN q |-> IF q[k].outcome = "APPROVED" THEN Bags(q[k].lines, g) ELSE 0]
  OBVIOUS
<1>2. \A k \in DOMAIN q : f[k] = IF q[k].outcome = "APPROVED" THEN Bags(q[k].lines, g) ELSE 0
  BY <1>1
<1> QED  BY <1>2, WrittenOffIs

Came(g) == OfGrade([s \in Shipment |-> Arrived(counted[s])], g)
Held(g) == OfGrade(hold, g)
Lost(g) == [i \in DOMAIN decisions |-> WrittenOff(decisions[i], g)]

\* The three sums of a grade.
SumsOf(g) ==
    /\ \A s \in Shipment : /\ Came(g)[s] = IF GradeOf[s] = g THEN Arrived(counted[s]) ELSE 0
                           /\ Came(g)[s] \in Nat
    /\ \A s \in Shipment : /\ Held(g)[s] = IF GradeOf[s] = g THEN hold[s] ELSE 0
                           /\ Held(g)[s] \in Nat
    /\ \A i \in DOMAIN decisions : Lost(g)[i] = WrittenOff(decisions[i], g) /\ Lost(g)[i] \in Nat
    /\ IsFiniteSet(DOMAIN decisions)
    /\ SumFunctionOnSet(Came(g), Shipment) \in Nat /\ SumFunctionOnSet(Held(g), Shipment) \in Nat
    /\ SumFunctionOnSet(Lost(g), DOMAIN decisions) \in Nat
    /\ SumFunction(Came(g)) = SumFunctionOnSet(Came(g), Shipment)
    /\ SumFunction(Held(g)) = SumFunctionOnSet(Held(g), Shipment)
    /\ SumFunction(Lost(g)) = SumFunctionOnSet(Lost(g), DOMAIN decisions)
SumsOK == \A g \in Grade : SumsOf(g)

LEMMA Sums == TypeOK => SumsOK
<1> SUFFICES ASSUME TypeOK, NEW g \in Grade PROVE SumsOf(g)
  BY DEF SumsOK
<1>1. \A s \in Shipment : Arrived(counted[s]) \in Nat /\ hold[s] \in Nat
  BY CountsAreNat DEF TypeOK
<1>2. /\ DOMAIN decisions = 1 .. Cardinality(Shipment)
      /\ \A i \in DOMAIN decisions : decisions[i] \in Seq(Decision)
  BY DEF TypeOK
<1>3. PICK came, held, lost : came = Came(g) /\ held = Held(g) /\ lost = Lost(g)
  OBVIOUS
<1>4. /\ DOMAIN came = Shipment /\ DOMAIN held = Shipment /\ DOMAIN lost = DOMAIN decisions
      /\ \A s \in Shipment : came[s] = IF GradeOf[s] = g THEN Arrived(counted[s]) ELSE 0
      /\ \A s \in Shipment : held[s] = IF GradeOf[s] = g THEN hold[s] ELSE 0
      /\ \A i \in DOMAIN decisions : lost[i] = WrittenOff(decisions[i], g)
  BY <1>3 DEF Came, Held, Lost, OfGrade
<1>5. (\A s \in Shipment : came[s] \in Nat) /\ \A s \in Shipment : held[s] \in Nat
  BY <1>1, <1>4
<1>6. \A i \in DOMAIN decisions : lost[i] \in Nat
  BY <1>2, <1>4, LossesAreNat
<1>7. IsFiniteSet(DOMAIN decisions)
  BY <1>2, ShipmentAssumption, FS_CardinalityType, FS_Interval
<1>8. /\ SumFunction(came) = SumFunctionOnSet(came, Shipment)
      /\ SumFunction(held) = SumFunctionOnSet(held, Shipment)
      /\ SumFunction(lost) = SumFunctionOnSet(lost, DOMAIN decisions)
  BY <1>4 DEF SumFunction
<1>9. SumFunctionOnSet(came, Shipment) \in Nat
  BY ONLY <1>5, ShipmentAssumption, SumIsNat
<1>10. SumFunctionOnSet(held, Shipment) \in Nat
  BY ONLY <1>5, ShipmentAssumption, SumIsNat
<1>11. SumFunctionOnSet(lost, DOMAIN decisions) \in Nat
  BY ONLY <1>6, <1>7, SumIsNat
<1> QED  BY <1>3, <1>4, <1>5, <1>6, <1>7, <1>8, <1>9, <1>10, <1>11 DEF SumsOf

LEMMA SumsAfter == TypeOK' => SumsOK'
BY Sums, PTL

\* The bags of a grade that arrived are in the stock, held or written off.
Balanced(g) ==
    SumFunctionOnSet(Came(g), Shipment)
        = stock[g] + SumFunctionOnSet(Held(g), Shipment) + SumFunctionOnSet(Lost(g), DOMAIN decisions)

LEMMA BalancedIs ==
  TypeOK => (BagsConserved <=> \A g \in Grade \ overwritten : Balanced(g))
<1> SUFFICES ASSUME TypeOK, NEW g \in Grade
             PROVE  (SumFunction(OfGrade([s \in Shipment |-> Arrived(counted[s])], g))
                        = stock[g] + SumFunction(OfGrade(hold, g))
                                   + SumFunction([i \in DOMAIN decisions |-> WrittenOff(decisions[i], g)]))
                    <=> Balanced(g)
  BY DEF BagsConserved
<1>1. SumsOf(g)
  BY Sums DEF SumsOK
<1>2. PICK came, held, lost : came = Came(g) /\ held = Held(g) /\ lost = Lost(g)
  OBVIOUS
<1>3. /\ SumFunction(came) = SumFunctionOnSet(came, Shipment)
      /\ SumFunction(held) = SumFunctionOnSet(held, Shipment)
      /\ SumFunction(lost) = SumFunctionOnSet(lost, DOMAIN decisions)
  BY <1>1, <1>2 DEF SumsOf
<1>4. /\ came = OfGrade([s \in Shipment |-> Arrived(counted[s])], g)
      /\ held = OfGrade(hold, g)
      /\ lost = [i \in DOMAIN decisions |-> WrittenOff(decisions[i], g)]
  BY <1>2 DEF Came, Held, Lost
<1> QED  BY <1>2, <1>3, <1>4 DEF Balanced

LEMMA BalancedAfter ==
  TypeOK' => (BagsConserved' <=> (\A g \in Grade \ overwritten : Balanced(g))')
BY BalancedIs, PTL

\* A request that has read what is still there adds to what is there.
LEMMA AddsToStock ==
  ASSUME NEW r \in Request, Overwriting(r), NEW g \in Grade, g \notin overwritten'
  PROVE  /\ g \notin overwritten
         /\ StockRead(r, g) = stock[g]
         /\ call[r].op = "decide" /\ g = GradeOf[FirstSize(call[r])]
               => call[r].seen = hold[FirstSize(call[r])]
<1>1. g \notin overwritten
  BY DEF Overwriting
<1>2. CASE g = GradeOf[FirstSize(call[r])]
  <2>1. ~Overwrites(r)
    BY <1>2 DEF Overwriting
  <2> QED  BY <1>1, <1>2, <2>1 DEF Overwrites, StockRead
<1>3. CASE g # GradeOf[FirstSize(call[r])]
  BY <1>1, <1>3 DEF StockRead
<1> QED  BY <1>2, <1>3

LEMMA ReceiveKeeps ==
  ASSUME IInv, IInv', BagsConserved, NEW r \in Request, CommitReceive(r)
  PROVE  BagsConserved'
<1>0. TypeOK /\ TypeOK' /\ SumsOK /\ SumsOK'
  BY Sums, SumsAfter DEF IInv
<1>1. PICK c \in Recording : c = call[r]
  BY <1>0, Remembers DEF CommitReceive
<1>2. /\ c.shipment \in Shipment /\ c.damaged \in Nat /\ c.got \in Nat /\ c.by \in Manager
      /\ c.damaged <= c.got
  BY <1>0, <1>1, AtWork DEF TypeOK, Recording
<1>3. PICK s0, g0, n, m, e : /\ s0 = c.shipment /\ g0 = GradeOf[c.shipment]
                             /\ n = c.got - c.damaged /\ m = c.damaged
                             /\ e = [by |-> c.by, usable |-> n, damaged |-> m]
  OBVIOUS
<1>4. s0 \in Shipment /\ n \in Nat /\ m \in Nat /\ e \in Count /\ e.usable = n /\ e.damaged = m
  BY <1>2, <1>3 DEF Count
<1>5. /\ stock' = [stock EXCEPT ![g0] = StockRead(r, g0) + n]
      /\ hold' = [hold EXCEPT ![s0] = @ + m]
      /\ counted' = [counted EXCEPT ![s0] = Append(@, e)]
      /\ decisions' = decisions /\ Overwriting(r)
  BY <1>1, <1>3 DEF CommitReceive
<1> SUFFICES ASSUME NEW g \in Grade, g \notin overwritten' PROVE Balanced(g)'
  BY <1>0, BalancedAfter
<1>6. SumsOf(g) /\ SumsOf(g)'
  BY <1>0 DEF SumsOK
<1>7. PICK more, came, rest, held, k, d : /\ came = Came(g) /\ more = Came(g)'
                                          /\ held = Held(g) /\ rest = Held(g)'
                                          /\ k = (IF g = g0 THEN n ELSE 0)
                                          /\ d = (IF g = g0 THEN m ELSE 0)
  OBVIOUS
<1>8. k \in Nat /\ d \in Nat /\ stock[g] \in Nat /\ stock'[g] = stock[g] + k
  <2>1. StockRead(r, g) = stock[g]
    BY <1>5, AddsToStock
  <2>2. k \in Nat /\ d \in Nat /\ stock[g] \in Nat
    BY <1>0, <1>4, <1>7 DEF TypeOK
  <2>3. stock \in [Grade -> Nat]
    BY <1>0 DEF TypeOK
  <2>4. CASE g = g0
    BY <1>5, <1>7, <2>1, <2>2, <2>3, <2>4
  <2>5. CASE g # g0
    BY <1>5, <1>7, <2>2, <2>3, <2>5
  <2> QED  BY <2>2, <2>4, <2>5
<1>9. /\ \A s \in Shipment : came[s] = IF GradeOf[s] = g THEN Arrived(counted[s]) ELSE 0
      /\ \A s \in Shipment : more[s] = IF GradeOf[s] = g THEN Arrived(counted'[s]) ELSE 0
      /\ \A s \in Shipment : came[s] \in Nat
      /\ \A s \in Shipment : more[s] \in Nat
  BY <1>6, <1>7 DEF SumsOf
<1>10. /\ \A s \in Shipment : held[s] = IF GradeOf[s] = g THEN hold[s] ELSE 0
       /\ \A s \in Shipment : rest[s] = IF GradeOf[s] = g THEN hold'[s] ELSE 0
       /\ \A s \in Shipment : held[s] \in Nat
       /\ \A s \in Shipment : rest[s] \in Nat
  BY <1>6, <1>7 DEF SumsOf
<1>11. (\A s \in Shipment : s # s0 => rest[s] = held[s]) /\ rest[s0] = held[s0] + d
  <2>1. /\ \A s \in Shipment : s # s0 => hold'[s] = hold[s]
        /\ hold'[s0] = hold[s0] + m /\ hold[s0] \in Nat
    BY <1>0, <1>4, <1>5 DEF TypeOK
  <2> QED  BY <1>3, <1>4, <1>7, <1>10, <2>1
<1>12. (\A s \in Shipment : s # s0 => more[s] = came[s]) /\ more[s0] = came[s0] + (k + d)
  <2>1. /\ counted[s0] \in Seq(Count) /\ counted'[s0] = Append(counted[s0], e)
        /\ \A s \in Shipment : s # s0 => counted'[s] = counted[s]
    BY <1>0, <1>4, <1>5 DEF TypeOK
  <2>2. Arrived(counted'[s0]) = Arrived(counted[s0]) + (n + m)
    BY <1>4, <2>1, OneMoreCount
  <2>3. more[s0] = came[s0] + (k + d)
    BY <1>3, <1>4, <1>7, <1>9, <2>2
  <2> QED  BY <1>9, <2>1, <2>3
<1>13. SumFunctionOnSet(more, Shipment) + came[s0] = SumFunctionOnSet(came, Shipment) + more[s0]
  BY ONLY <1>4, <1>9, <1>12, ShipmentAssumption, SumMoves
<1>14. SumFunctionOnSet(rest, Shipment) + held[s0] = SumFunctionOnSet(held, Shipment) + rest[s0]
  BY ONLY <1>4, <1>10, <1>11, ShipmentAssumption, SumMoves
<1>15. /\ SumFunctionOnSet(came, Shipment) \in Nat /\ SumFunctionOnSet(held, Shipment) \in Nat
       /\ SumFunctionOnSet(more, Shipment) \in Nat /\ SumFunctionOnSet(rest, Shipment) \in Nat
       /\ SumFunctionOnSet(Lost(g), DOMAIN decisions) \in Nat
       /\ Lost(g)' = Lost(g) /\ decisions' = decisions
  BY <1>5, <1>6, <1>7 DEF SumsOf, Lost
<1>16. came[s0] \in Nat /\ held[s0] \in Nat
  BY <1>4, <1>9, <1>10
<1>17. SumFunctionOnSet(came, Shipment)
          = stock[g] + SumFunctionOnSet(held, Shipment) + SumFunctionOnSet(Lost(g), DOMAIN decisions)
  <2>1. g \notin overwritten
    BY <1>5, AddsToStock
  <2> QED  BY <1>0, <1>7, <2>1, BalancedIs DEF Balanced
<1>18. PICK a, b, x, y, l : /\ a = SumFunctionOnSet(came, Shipment)
                            /\ b = SumFunctionOnSet(more, Shipment)
                            /\ x = SumFunctionOnSet(held, Shipment)
                            /\ y = SumFunctionOnSet(rest, Shipment)
                            /\ l = SumFunctionOnSet(Lost(g), DOMAIN decisions)
  OBVIOUS
<1>19. b = stock'[g] + y + l
  <2>1. /\ a \in Nat /\ b \in Nat /\ x \in Nat /\ y \in Nat /\ l \in Nat
        /\ a = stock[g] + x + l
    BY ONLY <1>15, <1>17, <1>18
  <2>2. b + came[s0] = a + more[s0] /\ y + held[s0] = x + rest[s0]
    BY ONLY <1>13, <1>14, <1>18
  <2>3. more[s0] = came[s0] + (k + d) /\ rest[s0] = held[s0] + d
    BY ONLY <1>11, <1>12
  <2>4. b = a + (k + d) /\ y = x + d
    BY ONLY <1>8, <1>16, <2>1, <2>2, <2>3
  <2> QED  BY ONLY <1>8, <2>1, <2>4
<1> QED  BY <1>7, <1>15, <1>18, <1>19 DEF Balanced

\* A decision takes out of the hold buckets of a grade what is on the lines of
\* the review, if the first bucket still has what was read there.
LEMMA TakenFromHold ==
  ASSUME IInv, NEW r \in Request, CommitDecide(r), NEW g \in Grade,
         g = GradeOf[FirstSize(call[r])] => call[r].seen = hold[FirstSize(call[r])],
         NEW taken, taken = [s \in Shipment |-> IF GradeOf[s] = g THEN hold[s] - hold'[s] ELSE 0]
  PROVE  /\ SumFunctionOnSet(taken, Shipment) = Bags(call[r].lines, g)
         /\ \A s \in Shipment : taken[s] \in Nat
<1>1. PICK c \in Emptying : c = call[r]
  BY Remembers DEF IInv, CommitDecide
<1>2. c # Idle /\ c.op = "decide" /\ c.step = "numbered" /\ c.lines \in Seq(Line)
  BY <1>1, AtWork DEF Emptying, CommitDecide, Doing
<1>3. /\ c.review \in DOMAIN reviews /\ c.lines # <<>>
      /\ \A j \in DOMAIN c.lines : /\ j \in DOMAIN reviews[c.review].lines
                                   /\ c.lines[j] = reviews[c.review].lines[j]
  BY <1>1, <1>2 DEF IInv, LinesStay
<1>4. FirstSize(c) = c.lines[1].shipment
  BY <1>2 DEF FirstSize
<1>5. \A s \in Shipment : hold'[s] = HoldAfter(c)[s]
  BY <1>1 DEF CommitDecide
<1>6. \A j, l \in DOMAIN c.lines : c.lines[j].shipment = c.lines[l].shipment => j = l
  BY <1>3 DEF IInv, OneOpenReview
<1>7. /\ 1 \in DOMAIN c.lines
      /\ \A j \in DOMAIN c.lines : c.lines[j].shipment \in Shipment /\ c.lines[j].bags \in Nat
  <2>1. 1 \in DOMAIN c.lines /\ \A j \in DOMAIN c.lines : c.lines[j] \in Line
    BY <1>2, <1>3
  <2> QED  BY <2>1 DEF Line
<1>8. TypeOK /\ \A s \in Shipment : hold[s] \in Nat
  BY DEF IInv, TypeOK
<1>9. ASSUME NEW s \in Shipment, GradeOf[s] = g
      PROVE  \/ \E j \in DOMAIN c.lines : /\ c.lines[j].shipment = s
                                          /\ hold'[s] = hold[s] - c.lines[j].bags
             \/ /\ \A j \in DOMAIN c.lines : c.lines[j].shipment # s
                /\ hold'[s] = hold[s]
  <2>1. hold'[s] = HoldAfter(c)[s]
    BY <1>5
  <2>2. CASE s = c.lines[1].shipment
    <3>1. HoldAfter(c)[s] = c.seen - c.lines[1].bags
      BY <1>3, <1>8, <2>2, HoldAfterIs
    <3>2. c.seen = hold[s]
      BY <1>1, <1>4, <1>9, <2>2
    <3>3. hold'[s] = hold[s] - c.lines[1].bags
      BY <2>1, <3>1, <3>2
    <3> QED  BY <1>7, <2>2, <3>3
  <2>3. CASE s # c.lines[1].shipment
    <3>1. \/ \E j \in DOMAIN c.lines : /\ c.lines[j].shipment = s
                                       /\ HoldAfter(c)[s] = hold[s] - c.lines[j].bags
          \/ /\ \A j \in DOMAIN c.lines : c.lines[j].shipment # s
             /\ HoldAfter(c)[s] = hold[s]
      BY <1>3, <1>8, <2>3, HoldAfterIs
    <3> QED  BY <2>1, <3>1
  <2> QED  BY <2>2, <2>3
<1>10. PICK b : b = [j \in DOMAIN c.lines |->
                       IF GradeOf[c.lines[j].shipment] = g THEN c.lines[j].bags ELSE 0]
  OBVIOUS
<1>11. ASSUME NEW j \in DOMAIN c.lines
       PROVE  taken[c.lines[j].shipment] = b[j]
  <2>1. PICK s \in Shipment : s = c.lines[j].shipment
    BY <1>7
  <2>2. CASE GradeOf[s] # g
    BY <1>10, <2>1, <2>2
  <2>3. CASE GradeOf[s] = g
    <3>1. PICK l \in DOMAIN c.lines : c.lines[l].shipment = s /\ hold'[s] = hold[s] - c.lines[l].bags
      BY <1>9, <2>1, <2>3
    <3>2. l = j
      BY <1>6, <2>1, <3>1
    <3>3. taken[s] = hold[s] - hold'[s] /\ b[j] = c.lines[j].bags
      BY <1>10, <2>1, <2>3
    <3> QED  BY <1>7, <1>8, <2>1, <3>1, <3>2, <3>3
  <2> QED  BY <2>2, <2>3
<1>12. ASSUME NEW s \in Shipment, \A j \in DOMAIN c.lines : c.lines[j].shipment # s
       PROVE  taken[s] = 0
  <2>1. CASE GradeOf[s] # g
    BY <2>1
  <2>2. CASE GradeOf[s] = g
    <3>1. hold'[s] = hold[s]
      BY <1>9, <1>12, <2>2
    <3> QED  BY <1>8, <2>2, <3>1
  <2> QED  BY <2>1, <2>2
<1>13. /\ \A j \in DOMAIN c.lines : taken[c.lines[j].shipment] = b[j]
       /\ \A s \in Shipment : (\A j \in DOMAIN c.lines : c.lines[j].shipment # s) => taken[s] = 0
  BY <1>11, <1>12
<1>14. /\ \A s \in Shipment : taken[s] \in Nat
       /\ SumFunctionOnSet(taken, Shipment) = Bags(c.lines, g)
  <2>1. Weights(b, c.lines, g)
    BY <1>10 DEF Weights
  <2>2. Takes(taken, b, c.lines)
    BY ONLY <1>6, <1>13 DEF Takes
  <2> QED  BY ONLY <1>2, <2>1, <2>2, TakenIs
<1> QED  BY <1>1, <1>14

LEMMA DecideKeeps ==
  ASSUME IInv, IInv', BagsConserved, NEW r \in Request, CommitDecide(r)
  PROVE  BagsConserved'
<1>0. TypeOK /\ TypeOK' /\ SumsOK /\ SumsOK'
  BY Sums, SumsAfter DEF IInv
<1>1. PICK c \in Emptying : c = call[r]
  BY <1>0, Remembers DEF CommitDecide
<1>2. /\ c.outcome \in Outcome /\ c.by \in Supervisor /\ c.lines \in Seq(Line)
      /\ c # Idle /\ c.op = "decide"
  BY <1>1, AtWork DEF Emptying, CommitDecide, Doing
<1> SUFFICES ASSUME NEW g \in Grade, g \notin overwritten' PROVE Balanced(g)'
  BY <1>0, BalancedAfter
<1>a. SumsOf(g) /\ SumsOf(g)'
  BY <1>0 DEF SumsOK
<1>3. PICK n, e, D, i0 : /\ n = Bags(c.lines, g) /\ D = DOMAIN decisions /\ i0 = c.review
                         /\ e = [by |-> c.by, outcome |-> c.outcome, lines |-> c.lines]
  OBVIOUS
<1>4. n \in Nat /\ e \in Decision /\ e.outcome = c.outcome /\ Bags(e.lines, g) = n
  <2>1. Bags(c.lines, g) \in Nat
    BY ONLY <1>2, BagsNat
  <2> QED  BY <1>2, <1>3, <2>1 DEF Decision
<1>5. i0 \in D
  <2>1. c.review \in DOMAIN reviews
    BY <1>1, <1>2 DEF IInv, LinesStay
  <2> QED  BY <1>3, <2>1, ReviewsFit DEF IInv, Fit
<1>6. /\ stock'[g] = StockRead(r, g) + (IF c.outcome = "REJECTED" THEN n ELSE 0)
      /\ decisions' = [decisions EXCEPT ![i0] = Append(@, e)]
      /\ counted' = counted /\ Overwriting(r)
  BY <1>1, <1>3 DEF CommitDecide, Returned
<1>7. stock[g] \in Nat /\ stock'[g] \in Nat /\ StockRead(r, g) = stock[g] /\ g \notin overwritten
  BY <1>0, <1>6, AddsToStock DEF TypeOK
<1>8. PICK before, after : before = Lost(g) /\ after = Lost(g)'
  OBVIOUS
<1>9. /\ \A i \in D : before[i] = WrittenOff(decisions[i], g)
      /\ \A i \in D : after[i] = WrittenOff(decisions'[i], g)
      /\ \A i \in D : before[i] \in Nat
      /\ \A i \in D : after[i] \in Nat
      /\ DOMAIN decisions' = D /\ IsFiniteSet(D)
  <2>1. DOMAIN decisions' = D
    BY <1>3, <1>6
  <2> QED  BY <1>a, <1>3, <1>8, <2>1 DEF SumsOf
<1>10. /\ \A i \in D : i # i0 => after[i] = before[i]
       /\ after[i0] = before[i0] + (IF c.outcome = "APPROVED" THEN n ELSE 0)
  <2>1. /\ decisions[i0] \in Seq(Decision) /\ decisions'[i0] = Append(decisions[i0], e)
        /\ \A i \in D : i # i0 => decisions'[i] = decisions[i]
    BY <1>0, <1>3, <1>5, <1>6 DEF TypeOK
  <2>2. WrittenOff(decisions'[i0], g)
            = WrittenOff(decisions[i0], g) + IF c.outcome = "APPROVED" THEN n ELSE 0
    BY <1>4, <2>1, OneMoreDecision
  <2> QED  BY <1>5, <1>9, <2>1, <2>2
<1>11. SumFunctionOnSet(after, D) + before[i0] = SumFunctionOnSet(before, D) + after[i0]
  BY ONLY <1>5, <1>9, <1>10, SumMoves
<1>12. PICK came, held, rest : came = Came(g) /\ held = Held(g) /\ rest = Held(g)'
  OBVIOUS
<1>13. /\ SumFunctionOnSet(before, D) \in Nat /\ SumFunctionOnSet(after, D) \in Nat
       /\ SumFunctionOnSet(came, Shipment) \in Nat /\ SumFunctionOnSet(held, Shipment) \in Nat
       /\ SumFunctionOnSet(rest, Shipment) \in Nat /\ Came(g)' = Came(g)
       /\ before[i0] \in Nat /\ after[i0] \in Nat
  <2>1. Came(g)' = Came(g)
    BY <1>6 DEF Came, OfGrade
  <2> QED  BY <1>a, <1>3, <1>5, <1>8, <1>9, <1>12, <2>1 DEF SumsOf
<1>14. SumFunctionOnSet(after, D)
          = SumFunctionOnSet(before, D) + (IF c.outcome = "APPROVED" THEN n ELSE 0)
  BY <1>4, <1>10, <1>11, <1>13
<1>15. PICK taken : taken = [s \in Shipment |-> IF GradeOf[s] = g THEN hold[s] - hold'[s] ELSE 0]
  OBVIOUS
<1>16. SumFunctionOnSet(taken, Shipment) = n /\ \A s \in Shipment : taken[s] \in Nat
  <2>1. g = GradeOf[FirstSize(call[r])] => call[r].seen = hold[FirstSize(call[r])]
    BY <1>1, <1>2, <1>6, AddsToStock
  <2> QED  BY <1>1, <1>3, <1>15, <2>1, TakenFromHold
<1>17. \A s \in Shipment : rest[s] \in Nat /\ taken[s] \in Nat /\ held[s] = rest[s] + taken[s]
  <2>1. \A s \in Shipment : hold[s] \in Nat /\ hold'[s] \in Nat
    BY <1>0 DEF TypeOK
  <2>2. \A s \in Shipment : /\ held[s] = IF GradeOf[s] = g THEN hold[s] ELSE 0
                            /\ rest[s] = IF GradeOf[s] = g THEN hold'[s] ELSE 0
    BY <1>a, <1>12 DEF SumsOf
  <2>3. ASSUME NEW s \in Shipment
        PROVE  rest[s] \in Nat /\ taken[s] \in Nat /\ held[s] = rest[s] + taken[s]
    BY <1>15, <1>16, <2>1, <2>2
  <2> QED  BY <2>3
<1>18. SumFunctionOnSet(held, Shipment)
          = SumFunctionOnSet(rest, Shipment) + SumFunctionOnSet(taken, Shipment)
  BY ONLY <1>17, ShipmentAssumption, SumPlus
<1>19. SumFunctionOnSet(came, Shipment) = stock[g] + SumFunctionOnSet(held, Shipment)
                                                   + SumFunctionOnSet(before, D)
  BY <1>0, <1>3, <1>7, <1>8, <1>12, BalancedIs DEF Balanced
<1>20. SumFunctionOnSet(came, Shipment) = stock'[g] + SumFunctionOnSet(rest, Shipment)
                                                    + SumFunctionOnSet(after, D)
  <2>1. PICK a, x, y, l, m : /\ a = SumFunctionOnSet(came, Shipment)
                             /\ x = SumFunctionOnSet(held, Shipment)
                             /\ y = SumFunctionOnSet(rest, Shipment)
                             /\ l = SumFunctionOnSet(before, D) /\ m = SumFunctionOnSet(after, D)
    OBVIOUS
  <2>2. /\ a \in Nat /\ x \in Nat /\ y \in Nat /\ l \in Nat /\ m \in Nat
        /\ x = y + n /\ a = stock[g] + x + l
        /\ m = l + (IF c.outcome = "APPROVED" THEN n ELSE 0)
        /\ stock'[g] = stock[g] + (IF c.outcome = "REJECTED" THEN n ELSE 0)
    BY <1>6, <1>7, <1>13, <1>14, <1>16, <1>18, <1>19, <2>1
  <2>3. c.outcome = "APPROVED" \/ c.outcome = "REJECTED"
    BY <1>2 DEF Outcome
  <2>4. a = stock'[g] + y + m
    BY ONLY <1>4, <1>7, <2>2, <2>3
  <2> QED  BY <2>1, <2>4
<1> QED  BY <1>3, <1>8, <1>9, <1>12, <1>13, <1>20 DEF Balanced

\* What is not a commit moves no bag.
LEMMA KeptStep ==
  ASSUME IInv, IInv', BagsConserved, [Next]_vars
  PROVE  BagsConserved'
<1>1. CASE UNCHANGED <<stock, hold, counted, decisions, overwritten>>
  BY <1>1 DEF BagsConserved
<1>2. CASE \E r \in Request : CommitReceive(r)
  BY <1>2, ReceiveKeeps
<1>3. CASE \E r \in Request : CommitDecide(r)
  BY <1>3, DecideKeeps
<1>4. \/ UNCHANGED <<stock, hold, counted, decisions, overwritten>>
      \/ \E r \in Request : CommitReceive(r)
      \/ \E r \in Request : CommitDecide(r)
  BY DEF Next, vars, tables, history, AskReceive, LockShipment, NumberReceive, AskDecide,
         ReadHold, WriteHold, NumberDecide, ReadStock, WriteStock, Fail
<1> QED  BY <1>1, <1>2, <1>3, <1>4

LEMMA KeptInit == Init => BagsConserved
<1> SUFFICES ASSUME Init PROVE BagsConserved
  OBVIOUS
<1>1. TypeOK /\ SumsOK
  BY InitInv, Sums DEF IInv
<1> SUFFICES ASSUME NEW g \in Grade PROVE Balanced(g)
  BY <1>1, BalancedIs
<1>2. PICK came, held, lost, D : /\ came = Came(g) /\ held = Held(g) /\ lost = Lost(g)
                                 /\ D = DOMAIN decisions
  OBVIOUS
<1>3. /\ \A s \in Shipment : counted[s] = <<>> /\ hold[s] = 0
      /\ \A i \in D : decisions[i] = <<>>
      /\ stock[g] = 0
  BY <1>2 DEF Init
<1>4. Arrived(<<>>) = 0 /\ WrittenOff(<<>>, g) = 0
  <2>1. PICK q : q = <<>>
    OBVIOUS
  <2>2. q \in Seq(Count) /\ q \in Seq(Decision) /\ DOMAIN q = {} /\ Len(q) = 0
    BY <2>1
  <2>3. PICK f : f = [i \in {} |-> 0]
    OBVIOUS
  <2>4. Arrived(q) = SumFunctionOnSet(f, 1 .. Len(q))
        /\ WrittenOff(q, g) = SumFunctionOnSet(f, 1 .. Len(q))
    BY <2>2, ArrivedIs, WrittenOffIs
  <2>5. 1 .. Len(q) = {} /\ IsFiniteSet({})
    BY <2>2, FS_EmptySet
  <2>6. SumFunctionOnSet(f, {}) = 0
    BY <2>5, SumZero
  <2> QED  BY <2>1, <2>4, <2>5, <2>6
<1>5. (\A s \in Shipment : came[s] = 0 /\ held[s] = 0) /\ \A i \in D : lost[i] = 0
  BY <1>1, <1>2, <1>3, <1>4 DEF SumsOK, SumsOf
<1>6. SumFunctionOnSet(came, Shipment) = 0
  BY <1>5, ShipmentAssumption, SumZero
<1>7. SumFunctionOnSet(held, Shipment) = 0
  BY <1>5, ShipmentAssumption, SumZero
<1>8. SumFunctionOnSet(lost, D) = 0
  BY <1>1, <1>2, <1>5, SumZero DEF SumsOK, SumsOf
<1> QED  BY <1>2, <1>3, <1>6, <1>7, <1>8 DEF Balanced

\* "Approving writes them off as a loss; refusing puts them back": with
\* however many trucks, sizes, people and requests at once, every bag of a
\* grade that arrived is in the stock, held, or written off, and in one of
\* them only, until a request that had read a bucket before it held the number
\* row writes over what another has put there since.
THEOREM EveryBagAccountedFor == Spec => []BagsConserved
<1>1. IInv /\ IInv' /\ BagsConserved /\ [Next]_vars => BagsConserved'
  BY KeptStep
<1> QED  BY <1>1, KeptInit, ReviewsInductive, PTL DEF Spec
=============================================================================
