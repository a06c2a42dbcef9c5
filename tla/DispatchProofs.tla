---------------------------- MODULE DispatchProofs ----------------------------
(***************************************************************************)
(* What Dispatch.tla promises for any number of sizes, people, reports and *)
(* requests in flight: an order is loaded once, the sizes of a truck move  *)
(* together, what left the farm stays as it was approved, and the farm     *)
(* manager's task follows.                                                 *)
(***************************************************************************)
EXTENDS Dispatch, SequenceTheorems, FiniteSetTheorems, TLAPS

-----------------------------------------------------------------------------
(* Sequences and sets. *)

LEMMA FunctionIsSeq ==
  ASSUME NEW T, NEW n \in Nat, NEW f \in [1 .. n -> T]
  PROVE  f \in Seq(T) /\ Len(f) = n /\ DOMAIN f = 1 .. n
<1>1. f \in Seq(T)
  BY SeqDef
<1>2. DOMAIN f = 1 .. Len(f) /\ Len(f) \in Nat
  BY <1>1, LenProperties
<1>3. DOMAIN f = 1 .. n
  OBVIOUS
<1>4. Len(f) = n
  BY <1>2, <1>3
<1> QED  BY <1>1, <1>3, <1>4

LEMMA Beyond ==
  ASSUME NEW n \in Nat, NEW m \in Nat
  PROVE  /\ 1 .. n \subseteq 1 .. (n + m)
         /\ \A i \in 1 .. (n + m) : i \in 1 .. n \/ \E k \in 1 .. m : i = n + k
         /\ \A k \in 1 .. m : n + k \in 1 .. (n + m) /\ n + k \notin 1 .. n
<1>1. ASSUME NEW i \in 1 .. (n + m), i \notin 1 .. n
      PROVE  \E k \in 1 .. m : i = n + k
  <2>1. i - n \in 1 .. m /\ i = n + (i - n)
    BY <1>1
  <2> QED  BY <2>1
<1> QED  BY <1>1

\* The elements of a finite set, each once.
LEMMA ListOf ==
  ASSUME NEW S, IsFiniteSet(S)
  PROVE  /\ Cardinality(S) \in Nat /\ SetToSeq(S) \in [1 .. Cardinality(S) -> S]
         /\ SetToSeq(S) \in Seq(S) /\ DOMAIN SetToSeq(S) = 1 .. Cardinality(S)
         /\ \A j, k \in DOMAIN SetToSeq(S) : SetToSeq(S)[j] = SetToSeq(S)[k] => j = k
         /\ \A x \in S : \E k \in DOMAIN SetToSeq(S) : SetToSeq(S)[k] = x
<1> DEFINE n == Cardinality(S)
<1>1. n \in Nat /\ ExistsBijection(1 .. n, S)
  BY FS_CardinalityType
<1>2. PICK g : g \in Bijection(1 .. n, S)
  BY <1>1 DEF ExistsBijection
<1>3. g \in [1 .. n -> S] /\ IsInjective(g)
  BY <1>2 DEF Bijection, Injection, IsInjective
<1>4. SetToSeq(S) \in [1 .. n -> S] /\ IsInjective(SetToSeq(S))
  BY <1>3 DEF SetToSeq
<1> DEFINE f == SetToSeq(S)
<1>5. f \in [1 .. n -> S] /\ \A j, k \in 1 .. n : f[j] = f[k] => j = k
  BY <1>4 DEF IsInjective
<1> HIDE DEF f
<1>6. \A x \in S : \E k \in 1 .. n : f[k] = x
  <2> SUFFICES ASSUME NEW x \in S, \A k \in 1 .. n : f[k] # x PROVE FALSE
    OBVIOUS
  <2>1. IsFiniteSet(1 .. n) /\ Cardinality(1 .. n) = n
    BY <1>1, FS_Interval
  <2>2. f \in Injection(1 .. n, S \ {x})
    BY <1>5 DEF Injection, IsInjective
  <2>3. IsFiniteSet(S \ {x}) /\ Cardinality(S \ {x}) = n - 1
    BY <1>1, FS_RemoveElement
  <2>4. n <= n - 1
    BY <2>1, <2>2, <2>3, FS_Injection DEF ExistsInjection
  <2> QED  BY <1>1, <2>4
<1>7. f \in Seq(S) /\ DOMAIN f = 1 .. n
  BY <1>1, <1>5, FunctionIsSeq
<1> QED  BY <1>1, <1>5, <1>6, <1>7 DEF f

\* No two of a kind are at most one.
LEMMA AtMostOne ==
  ASSUME NEW S, \A i, j \in S : i = j
  PROVE  Cardinality(S) <= 1
<1>1. CASE S = {}
  BY <1>1, FS_EmptySet
<1>2. CASE S # {}
  <2>1. PICK i \in S : S = {i}
    BY <1>2
  <2>2. Cardinality({i}) = 1
    BY FS_Singleton
  <2> QED  BY <2>1, <2>2
<1> QED  BY <1>1, <1>2
-----------------------------------------------------------------------------
(* Sums over finite sets.  The fold of the community modules is a          *)
(* recursive function: it exists, and does not depend on the order.        *)

\* What holds of the empty set and of a set with one more member holds of
\* every part of a finite set.
LEMMA BySize ==
  ASSUME NEW S, IsFiniteSet(S), NEW G, {} \in G,
         \A A \in SUBSET S : A # {} /\ (\A x \in A : A \ {x} \in G) => A \in G
  PROVE  SUBSET S \subseteq G
<1> DEFINE Bad == {A \in SUBSET S : A \notin G}
<1> SUFFICES ASSUME Bad # {} PROVE FALSE
  OBVIOUS
<1>1. IsWellFoundedOn(StrictSubsetOrdering(S), SUBSET S)
  <2>1. FiniteSubsetsOf(S) = SUBSET S
    BY FS_FiniteSubsetsOfFinite
  <2>2. IsWellFoundedOn(StrictSubsetOrdering(S), FiniteSubsetsOf(S))
    BY FS_StrictSubsetOrderingWellFounded
  <2> QED  BY <2>1, <2>2
<1>2. \E A \in Bad : \A B \in Bad : <<B, A>> \notin StrictSubsetOrdering(S)
  <2>1. Bad \subseteq SUBSET S
    OBVIOUS
  <2> HIDE DEF Bad
  <2> QED  BY <1>1, <2>1, WFMin
<1>3. PICK A \in Bad : \A B \in Bad : <<B, A>> \notin StrictSubsetOrdering(S)
  BY <1>2
<1>4. ASSUME NEW x \in A PROVE A \ {x} \in G
  <2>1. A \ {x} \subseteq A /\ A \ {x} # A /\ A \ {x} \in SUBSET S
    OBVIOUS
  <2>2. <<A \ {x}, A>> \in StrictSubsetOrdering(S)
    BY <2>1 DEF StrictSubsetOrdering
  <2> QED  BY <1>3, <2>1, <2>2
<1> QED  BY <1>3, <1>4

Plus(m, n) == m + n
Pick(s) == CHOOSE x \in s : TRUE

\* h adds f up over each part of S, as the fold does.
Adds(h, f, S) ==
    h = [s \in SUBSET S |-> IF s = {} THEN 0 ELSE Plus(f[Pick(s)], h[s \ {Pick(s)}])]

LEMMA SumIs ==
  ASSUME NEW f, NEW S
  PROVE  SumFunctionOnSet(f, S) = (CHOOSE h : Adds(h, f, S))[S]
BY DEF SumFunctionOnSet, FoldFunctionOnSet, MapThenFoldSet, Adds, Pick, Plus

LEMMA AddsWhat ==
  ASSUME NEW f, NEW S, NEW h, Adds(h, f, S)
  PROVE  /\ h[{}] = 0
         /\ \A s \in SUBSET S : s # {} => Pick(s) \in s /\ h[s] = Plus(f[Pick(s)], h[s \ {Pick(s)}])
<1>1. h[{}] = 0
  BY DEF Adds
<1>2. ASSUME NEW s \in SUBSET S, s # {}
      PROVE  Pick(s) \in s /\ h[s] = Plus(f[Pick(s)], h[s \ {Pick(s)}])
  <2>1. Pick(s) \in s
    BY <1>2 DEF Pick
  <2>2. h[s] = IF s = {} THEN 0 ELSE Plus(f[Pick(s)], h[s \ {Pick(s)}])
    BY DEF Adds
  <2> QED  BY <1>2, <2>1, <2>2
<1> QED  BY <1>1, <1>2

\* On the parts that two of them share they agree.
LEMMA AddsAgree ==
  ASSUME NEW f, NEW S, IsFiniteSet(S), NEW T, NEW g, NEW h, Adds(g, f, S), Adds(h, f, T)
  PROVE  \A s \in SUBSET S : s \in SUBSET T => g[s] = h[s]
<1> DEFINE G == {s \in SUBSET S : s \in SUBSET T => g[s] = h[s]}
<1>0. /\ g[{}] = 0
      /\ \A s \in SUBSET S : s # {} => Pick(s) \in s /\ g[s] = Plus(f[Pick(s)], g[s \ {Pick(s)}])
  BY AddsWhat
<1>a. /\ h[{}] = 0
      /\ \A s \in SUBSET T : s # {} => Pick(s) \in s /\ h[s] = Plus(f[Pick(s)], h[s \ {Pick(s)}])
  BY AddsWhat
<1>1. {} \in G
  BY <1>0, <1>a
<1>2. ASSUME NEW A \in SUBSET S, A # {}, \A x \in A : A \ {x} \in G PROVE A \in G
  <2> SUFFICES ASSUME A \in SUBSET T PROVE g[A] = h[A]
    OBVIOUS
  <2>1. Pick(A) \in A /\ g[A] = Plus(f[Pick(A)], g[A \ {Pick(A)}])
    BY <1>2, <1>0
  <2>2. h[A] = Plus(f[Pick(A)], h[A \ {Pick(A)}])
    BY <1>2, <1>a
  <2>3. g[A \ {Pick(A)}] = h[A \ {Pick(A)}]
    BY <1>2, <2>1
  <2> QED  BY <2>1, <2>2, <2>3
<1> HIDE DEF G
<1>3. SUBSET S \subseteq G
  BY <1>1, <1>2, BySize
<1> QED  BY <1>3 DEF G

LEMMA AddsExists ==
  ASSUME NEW f, NEW S, IsFiniteSet(S)
  PROVE  \A A \in SUBSET S : \E h : Adds(h, f, A)
<1> DEFINE G == {A \in SUBSET S : \E h : Adds(h, f, A)}
<1>1. {} \in G
  <2>1. Adds([s \in SUBSET {} |-> 0], f, {})
    <3>1. SUBSET {} = {{}}
      OBVIOUS
    <3> QED  BY <3>1 DEF Adds
  <2> QED  BY <2>1
<1>2. ASSUME NEW A \in SUBSET S, A # {}, \A x \in A : A \ {x} \in G PROVE A \in G
  <2> DEFINE Of(h, t) == \E y \in A : t \in SUBSET (A \ {y}) /\ Adds(h, f, A \ {y})
             V(t) == (CHOOSE h : Of(h, t))[t]
             H == [s \in SUBSET A |-> IF s = {} THEN 0 ELSE Plus(f[Pick(s)], V(s \ {Pick(s)}))]
  <2>1. ASSUME NEW t \in SUBSET A, t # A PROVE Of(CHOOSE h : Of(h, t), t)
    <3>1. PICK y \in A : y \notin t
      BY <2>1
    <3>2. t \in SUBSET (A \ {y}) /\ \E h : Adds(h, f, A \ {y})
      BY <1>2, <2>1, <3>1
    <3>3. \E h : Of(h, t)
      BY <3>2
    <3> HIDE DEF Of
    <3> QED  BY <3>3
  <2>2. ASSUME NEW t \in SUBSET A, t # A, t # {}
        PROVE  Pick(t) \in t /\ V(t) = Plus(f[Pick(t)], V(t \ {Pick(t)}))
    <3>1. PICK g : g = CHOOSE h : Of(h, t)
      OBVIOUS
    <3>2. PICK y \in A : t \in SUBSET (A \ {y}) /\ Adds(g, f, A \ {y})
      BY <2>1, <2>2, <3>1
    <3>3. Pick(t) \in t /\ g[t] = Plus(f[Pick(t)], g[t \ {Pick(t)}])
      BY <2>2, <3>2, AddsWhat
    <3>4. PICK u : u = t \ {Pick(t)}
      OBVIOUS
    <3>5. u \in SUBSET A /\ u # A /\ u \in SUBSET (A \ {y})
      BY <2>2, <3>2, <3>3, <3>4
    <3>6. PICK k : k = CHOOSE h : Of(h, u)
      OBVIOUS
    <3>7. PICK z \in A : u \in SUBSET (A \ {z}) /\ Adds(k, f, A \ {z})
      BY <2>1, <3>5, <3>6
    <3>8. IsFiniteSet(A \ {y})
      <4>1. A \ {y} \subseteq S
        OBVIOUS
      <4> QED  BY <4>1, FS_Subset
    <3>9. g[u] = k[u]
      BY <3>2, <3>5, <3>7, <3>8, AddsAgree
    <3>10. V(t) = g[t] /\ V(u) = k[u]
      BY <3>1, <3>6
    <3> HIDE DEF V
    <3> QED  BY <3>3, <3>4, <3>9, <3>10
  <2>3. V({}) = 0
    <3>1. PICK g : g = CHOOSE h : Of(h, {})
      OBVIOUS
    <3>2. PICK y \in A : {} \in SUBSET (A \ {y}) /\ Adds(g, f, A \ {y})
      <4>1. {} \in SUBSET A /\ {} # A
        BY <1>2
      <4> HIDE DEF Of
      <4>2. Of(g, {})
        BY <2>1, <3>1, <4>1
      <4> QED  BY <4>2 DEF Of
    <3>3. g[{}] = 0
      BY <3>2, AddsWhat
    <3> QED  BY <3>1, <3>3
  <2> HIDE DEF V
  <2>4. ASSUME NEW t \in SUBSET A, t # A PROVE H[t] = V(t)
    BY <2>2, <2>3, <2>4
  <2>5. ASSUME NEW s \in SUBSET A, s # {} PROVE V(s \ {Pick(s)}) = H[s \ {Pick(s)}]
    <3>1. Pick(s) \in s
      BY <2>5 DEF Pick
    <3>2. s \ {Pick(s)} \in SUBSET A /\ s \ {Pick(s)} # A
      BY <3>1
    <3> HIDE DEF H
    <3> QED  BY <2>4, <3>2
  <2>6. H = [s \in SUBSET A |-> IF s = {} THEN 0 ELSE Plus(f[Pick(s)], H[s \ {Pick(s)}])]
    <3> DEFINE K == [s \in SUBSET A |-> IF s = {} THEN 0 ELSE Plus(f[Pick(s)], H[s \ {Pick(s)}])]
    <3>1. \A s \in SUBSET A : H[s] = K[s]
      <4> SUFFICES ASSUME NEW s \in SUBSET A PROVE H[s] = K[s]
        OBVIOUS
      <4>1. H[s] = IF s = {} THEN 0 ELSE Plus(f[Pick(s)], V(s \ {Pick(s)}))
        OBVIOUS
      <4> HIDE DEF H
      <4>2. K[s] = IF s = {} THEN 0 ELSE Plus(f[Pick(s)], H[s \ {Pick(s)}])
        OBVIOUS
      <4> HIDE DEF K
      <4> QED  BY <2>5, <4>1, <4>2
    <3>2. H = [s \in SUBSET A |-> H[s]] /\ K = [s \in SUBSET A |-> K[s]]
      <4>1. H = [s \in SUBSET A |-> H[s]]
        OBVIOUS
      <4> HIDE DEF H
      <4>2. K = [s \in SUBSET A |-> K[s]]
        OBVIOUS
      <4> QED  BY <4>1, <4>2
    <3> HIDE DEF H, K
    <3>3. [s \in SUBSET A |-> H[s]] = [s \in SUBSET A |-> K[s]]
      BY <3>1
    <3>4. H = K
      BY <3>2, <3>3
    <3> QED  BY <3>4 DEF K
  <2>7. Adds(H, f, A)
    <3> HIDE DEF H
    <3> QED  BY <2>6 DEF Adds
  <2> QED  BY <2>7
<1> HIDE DEF G
<1>3. SUBSET S \subseteq G
  BY <1>1, <1>2, BySize
<1> QED  BY <1>3 DEF G

\* A sum is nothing over the empty set, and a member's share more than over
\* the others.
LEMMA SumParts ==
  ASSUME NEW f, NEW S, IsFiniteSet(S)
  PROVE  /\ SumFunctionOnSet(f, {}) = 0
         /\ S # {} => /\ Pick(S) \in S
                     /\ SumFunctionOnSet(f, S) = Plus(f[Pick(S)], SumFunctionOnSet(f, S \ {Pick(S)}))
<1>1. ASSUME NEW T \in SUBSET S PROVE Adds(CHOOSE h : Adds(h, f, T), f, T)
  <2>1. \E h : Adds(h, f, T)
    BY AddsExists
  <2> QED  BY <2>1
<1>2. SumFunctionOnSet(f, {}) = 0
  BY <1>1, SumIs, AddsWhat
<1>3. ASSUME S # {}
      PROVE  /\ Pick(S) \in S
             /\ SumFunctionOnSet(f, S) = Plus(f[Pick(S)], SumFunctionOnSet(f, S \ {Pick(S)}))
  <2>1. PICK T : T = S \ {Pick(S)}
    OBVIOUS
  <2>2. PICK g : g = CHOOSE h : Adds(h, f, S)
    OBVIOUS
  <2>3. PICK k : k = CHOOSE h : Adds(h, f, T)
    OBVIOUS
  <2>4. T \in SUBSET S /\ IsFiniteSet(T)
    BY <2>1, FS_Subset
  <2>5. Adds(g, f, S) /\ Adds(k, f, T)
    BY <1>1, <2>2, <2>3, <2>4
  <2>6. Pick(S) \in S /\ g[S] = Plus(f[Pick(S)], g[T])
    <3>1. \A s \in SUBSET S : s # {} => Pick(s) \in s /\ g[s] = Plus(f[Pick(s)], g[s \ {Pick(s)}])
      BY ONLY <2>5, AddsWhat
    <3> QED  BY <1>3, <2>1, <3>1
  <2>7. k[T] = g[T]
    BY <2>4, <2>5, AddsAgree
  <2> QED  BY <2>1, <2>2, <2>3, <2>6, <2>7, SumIs
<1> QED  BY <1>2, <1>3

\* It does not matter which member comes first.
LEMMA SumRest ==
  ASSUME NEW f, NEW S, IsFiniteSet(S), \A x \in S : f[x] \in Nat
  PROVE  \A A \in SUBSET S : /\ SumFunctionOnSet(f, A) \in Nat
                            /\ \A x \in A : SumFunctionOnSet(f, A) = f[x] + SumFunctionOnSet(f, A \ {x})
<1> DEFINE Sum(A) == SumFunctionOnSet(f, A)
<1>1. /\ Sum({}) = 0
      /\ \A A \in SUBSET S : A # {} => Pick(A) \in A /\ Sum(A) = f[Pick(A)] + Sum(A \ {Pick(A)})
  <2>1. \A A \in SUBSET S : IsFiniteSet(A)
    BY FS_Subset
  <2>2. Sum({}) = 0
    BY SumParts
  <2>3. ASSUME NEW A \in SUBSET S, A # {}
        PROVE  Pick(A) \in A /\ Sum(A) = f[Pick(A)] + Sum(A \ {Pick(A)})
    <3>1. Pick(A) \in A /\ Sum(A) = Plus(f[Pick(A)], Sum(A \ {Pick(A)}))
      BY <2>1, <2>3, SumParts
    <3> QED  BY <3>1 DEF Plus
  <2> QED  BY <2>2, <2>3
<1> HIDE DEF Sum
<1>2. \A A \in SUBSET S : Sum(A) \in Nat
  <2> DEFINE G == {A \in SUBSET S : Sum(A) \in Nat}
  <2>1. {} \in G
    BY <1>1
  <2>2. ASSUME NEW A \in SUBSET S, A # {}, \A x \in A : A \ {x} \in G PROVE A \in G
    <3>1. Pick(A) \in A /\ Sum(A) = f[Pick(A)] + Sum(A \ {Pick(A)})
      BY <1>1, <2>2
    <3>2. Sum(A \ {Pick(A)}) \in Nat /\ f[Pick(A)] \in Nat
      BY <2>2, <3>1
    <3> QED  BY <3>1, <3>2
  <2> HIDE DEF G
  <2>3. SUBSET S \subseteq G
    BY <2>1, <2>2, BySize
  <2> QED  BY <2>3 DEF G
<1>3. \A A \in SUBSET S : \A x \in A : Sum(A) = f[x] + Sum(A \ {x})
  <2> DEFINE G == {A \in SUBSET S : \A x \in A : Sum(A) = f[x] + Sum(A \ {x})}
  <2>1. {} \in G
    OBVIOUS
  <2>2. ASSUME NEW A \in SUBSET S, A # {}, \A x \in A : A \ {x} \in G PROVE A \in G
    <3> SUFFICES ASSUME NEW x \in A PROVE Sum(A) = f[x] + Sum(A \ {x})
      OBVIOUS
    <3>1. PICK p : p = Pick(A)
      OBVIOUS
    <3>2. p \in A /\ Sum(A) = f[p] + Sum(A \ {p})
      BY <1>1, <2>2, <3>1
    <3>3. CASE x = p
      BY <3>2, <3>3
    <3>4. CASE x # p
      <4>1. A \ {p} \in G /\ x \in A \ {p} /\ A \ {x} \in G /\ p \in A \ {x}
        BY <2>2, <3>2, <3>4
      <4>2. Sum(A \ {p}) = f[x] + Sum((A \ {p}) \ {x})
        BY <4>1
      <4>3. Sum(A \ {x}) = f[p] + Sum((A \ {x}) \ {p})
        BY <4>1
      <4>4. (A \ {p}) \ {x} = (A \ {x}) \ {p} /\ (A \ {x}) \ {p} \in SUBSET S
        OBVIOUS
      <4>5. Sum((A \ {x}) \ {p}) \in Nat /\ f[x] \in Nat /\ f[p] \in Nat
        BY <1>2, <3>2, <4>4
      <4>6. PICK n \in Nat : n = Sum((A \ {x}) \ {p})
        BY <4>5
      <4>7. Sum(A \ {p}) = f[x] + n /\ Sum(A \ {x}) = f[p] + n
        BY <4>2, <4>3, <4>4, <4>6
      <4> QED  BY <3>2, <4>5, <4>6, <4>7
    <3> QED  BY <3>3, <3>4
  <2> HIDE DEF G
  <2>3. SUBSET S \subseteq G
    BY <2>1, <2>2, BySize
  <2> QED  BY <2>3 DEF G
<1> QED  BY <1>2, <1>3 DEF Sum

\* Sums of sums, and of the members that count.
LEMMA SumPlus ==
  ASSUME NEW f, NEW g, NEW h, NEW S, IsFiniteSet(S),
         \A x \in S : f[x] \in Nat /\ g[x] \in Nat /\ h[x] = f[x] + g[x]
  PROVE  SumFunctionOnSet(h, S) = SumFunctionOnSet(f, S) + SumFunctionOnSet(g, S)
<1> DEFINE F(A) == SumFunctionOnSet(f, A)
           K(A) == SumFunctionOnSet(g, A)
           H(A) == SumFunctionOnSet(h, A)
           G == {A \in SUBSET S : H(A) = F(A) + K(A)}
<1>1. /\ \A A \in SUBSET S : F(A) \in Nat /\ \A x \in A : F(A) = f[x] + F(A \ {x})
      /\ \A A \in SUBSET S : K(A) \in Nat /\ \A x \in A : K(A) = g[x] + K(A \ {x})
      /\ \A A \in SUBSET S : H(A) \in Nat /\ \A x \in A : H(A) = h[x] + H(A \ {x})
  <2>1. /\ \A x \in S : f[x] \in Nat
        /\ \A x \in S : g[x] \in Nat
        /\ \A x \in S : h[x] \in Nat
    OBVIOUS
  <2> QED  BY <2>1, SumRest
<1>2. F({}) = 0 /\ K({}) = 0 /\ H({}) = 0
  BY SumParts, FS_EmptySet
<1> HIDE DEF F, K, H
<1>3. {} \in G
  BY <1>2
<1>4. ASSUME NEW A \in SUBSET S, A # {}, \A x \in A : A \ {x} \in G PROVE A \in G
  <2>1. PICK x \in A : TRUE
    BY <1>4
  <2>2. PICK B : B = A \ {x}
    OBVIOUS
  <2>3. B \in SUBSET S /\ B \in G
    BY <1>4, <2>2
  <2>4. F(A) = f[x] + F(B) /\ K(A) = g[x] + K(B) /\ H(A) = h[x] + H(B)
    BY <1>1, <2>2
  <2>5. F(B) \in Nat /\ K(B) \in Nat /\ f[x] \in Nat /\ g[x] \in Nat /\ h[x] = f[x] + g[x]
    BY <1>1, <2>3
  <2>6. H(B) = F(B) + K(B)
    BY <2>3
  <2>7. H(A) = F(A) + K(A)
    BY <2>4, <2>5, <2>6
  <2> QED  BY <2>7
<1> HIDE DEF G
<1>5. SUBSET S \subseteq G
  BY <1>3, <1>4, BySize
<1> QED  BY <1>5 DEF G, F, K, H

LEMMA SumWithin ==
  ASSUME NEW f, NEW g, NEW S, IsFiniteSet(S), NEW T \in SUBSET S,
         \A x \in S : f[x] \in Nat, \A x \in T : g[x] = f[x], \A x \in S \ T : f[x] = 0
  PROVE  SumFunctionOnSet(f, S) = SumFunctionOnSet(g, T)
<1> DEFINE F(A) == SumFunctionOnSet(f, A)
           K(A) == SumFunctionOnSet(g, A)
           G == {A \in SUBSET S : F(A) = K(A \cap T)}
<1>1. /\ \A A \in SUBSET S : F(A) \in Nat /\ \A x \in A : F(A) = f[x] + F(A \ {x})
      /\ \A A \in SUBSET T : K(A) \in Nat /\ \A x \in A : K(A) = g[x] + K(A \ {x})
  <2>1. IsFiniteSet(T) /\ \A x \in T : g[x] \in Nat
    BY FS_Subset
  <2>2. \A A \in SUBSET T : K(A) \in Nat /\ \A x \in A : K(A) = g[x] + K(A \ {x})
    BY <2>1, SumRest
  <2>3. \A A \in SUBSET S : F(A) \in Nat /\ \A x \in A : F(A) = f[x] + F(A \ {x})
    BY SumRest
  <2> QED  BY <2>2, <2>3
<1>2. F({}) = 0 /\ K({}) = 0
  BY SumParts, FS_EmptySet
<1> HIDE DEF F, K
<1>3. {} \in G
  <2>1. {} \cap T = {}
    OBVIOUS
  <2> QED  BY <1>2, <2>1
<1>4. ASSUME NEW A \in SUBSET S, A # {}, \A x \in A : A \ {x} \in G PROVE A \in G
  <2>1. PICK x \in A : TRUE
    BY <1>4
  <2>2. PICK B : B = A \ {x}
    OBVIOUS
  <2>3. F(A) = f[x] + F(B) /\ F(B) = K(B \cap T) /\ F(B) \in Nat
    BY <1>1, <1>4, <2>2
  <2>4. CASE x \in T
    <3>1. A \cap T \in SUBSET T /\ x \in A \cap T /\ (A \cap T) \ {x} = B \cap T
      BY <2>2, <2>4
    <3>2. K(A \cap T) = g[x] + K(B \cap T)
      BY <1>1, <3>1
    <3>3. F(A) = K(A \cap T)
      BY <2>3, <2>4, <3>2
    <3> QED  BY <3>3
  <2>5. CASE x \notin T
    <3>1. A \cap T = B \cap T /\ f[x] = 0
      BY <2>2, <2>5
    <3>2. K(A \cap T) = K(B \cap T)
      BY <3>1
    <3>3. F(A) = F(B)
      BY <2>3, <3>1
    <3>4. F(A) = K(A \cap T)
      BY <2>3, <3>2, <3>3
    <3> QED  BY <3>4
  <2> QED  BY <2>4, <2>5
<1> HIDE DEF G
<1>5. SUBSET S \subseteq G
  BY <1>3, <1>4, BySize
<1>6. S \cap T = T
  OBVIOUS
<1> QED  BY <1>5, <1>6 DEF G, F, K

-----------------------------------------------------------------------------
(* What the type invariant says of one row, one request and the history. *)

LEMMA Rows ==
  ASSUME TypeOK
  PROVE  /\ DOMAIN orders = 1 .. Len(orders) /\ Len(orders) \in Nat
         /\ \A o \in Order : o \in Nat /\ orders[o] \in Size
         /\ DOMAIN reports = 1 .. Len(reports) /\ Len(reports) \in Nat
         /\ \A i \in Report : i \in Nat /\ reports[i] \in Row
         /\ DOMAIN ship = Report
         /\ \A i \in Report : ship[i] \in Carried
         /\ \A i \in Report : /\ reports[i].order \in Order /\ reports[i].trip \in 0 .. trips
                              /\ SizeOf(i) \in Size
<1>1. orders \in Seq(Size) /\ reports \in Seq(Row) /\ ship \in Seq(Carried) /\ Len(ship) = Len(reports)
  BY DEF TypeOK
<1>2. /\ DOMAIN orders = 1 .. Len(orders) /\ Len(orders) \in Nat
      /\ \A o \in Order : o \in Nat /\ orders[o] \in Size
  BY <1>1, LenProperties, ElementOfSeq DEF Order
<1>3. /\ DOMAIN reports = 1 .. Len(reports) /\ Len(reports) \in Nat
      /\ \A i \in Report : i \in Nat /\ reports[i] \in Row
  BY <1>1, LenProperties, ElementOfSeq DEF Report
<1>4. DOMAIN ship = Report /\ \A i \in Report : ship[i] \in Carried
  BY <1>1, <1>3, LenProperties, ElementOfSeq DEF Report
<1>5. \A i \in Report : reports[i].order \in Order /\ reports[i].trip \in 0 .. trips
  BY DEF TypeOK
<1>6. \A i \in Report : SizeOf(i) \in Size
  BY <1>2, <1>5 DEF SizeOf
<1> QED  BY <1>2, <1>3, <1>4, <1>5, <1>6

LEMMA StatusOfRow ==
  ASSUME NEW row \in Row
  PROVE  /\ row.order \in Nat /\ row.trip \in Nat /\ row.by \in User /\ row.bags \in Nat
         /\ row.status \in Status
         /\ \A s \in Status : /\ [row EXCEPT !.status = s] \in Row
                              /\ [row EXCEPT !.status = s].order = row.order
                              /\ [row EXCEPT !.status = s].trip = row.trip
                              /\ [row EXCEPT !.status = s].by = row.by
                              /\ [row EXCEPT !.status = s].bags = row.bags
                              /\ [row EXCEPT !.status = s].status = s
         /\ \A n \in Nat : /\ [row EXCEPT !.bags = n] \in Row
                           /\ [row EXCEPT !.bags = n].order = row.order
                           /\ [row EXCEPT !.bags = n].trip = row.trip
                           /\ [row EXCEPT !.bags = n].by = row.by
                           /\ [row EXCEPT !.bags = n].bags = n
                           /\ [row EXCEPT !.bags = n].status = row.status
BY DEF Row

LEMMA ToldHistory ==
  ASSUME TypeOK, Orderly
  PROVE  history \in Told /\ history.apart \subseteq Nat /\ history.sentBack \subseteq Nat
BY DEF TypeOK, Orderly, Told

\* What a step that handles reports adds to the history.
LEMMA ApartAdds ==
  ASSUME TypeOK, NEW of \in SUBSET Nat, NEW sent \in SUBSET Nat, Apart(of, sent)
  PROVE  /\ history' \in {Crossed, Lost} \cup Told
         /\ Orderly' => /\ Orderly
                        /\ history'.apart = history.apart \cup (of \ {0})
                        /\ history'.sentBack = history.sentBack \cup sent
<1>1. CASE Orderly
  <2>1. history.apart \subseteq Nat /\ history.sentBack \subseteq Nat
    BY <1>1, ToldHistory
  <2>2. history' = [apart |-> history.apart \cup (of \ {0}), sentBack |-> history.sentBack \cup sent]
    BY <1>1 DEF Apart
  <2> QED  BY <1>1, <2>1, <2>2 DEF Told
<1>2. CASE ~Orderly
  BY <1>2 DEF Apart, Orderly
<1> QED  BY <1>1, <1>2

-----------------------------------------------------------------------------
(* A step that works on the sizes Z only adds orders and reports, leaves   *)
(* the reports of other sizes as they are, and loads nothing else.         *)

Grown(Z) ==
    /\ Order \subseteq Order' /\ \A o \in Order : orders'[o] = orders[o]
    /\ Report \subseteq Report'
    /\ \A i \in Report : /\ reports'[i].order = reports[i].order /\ reports'[i].trip = reports[i].trip
                         /\ SizeOf(i) \notin Z => reports'[i] = reports[i]
    /\ trips' \in Nat /\ trips <= trips'
    /\ \A i \in Report' \ Report :
          /\ reports'[i].trip \notin 1 .. trips
          /\ \/ reports'[i].status = "DRAFT"
             \/ reports'[i].order \notin Order
             \/ orders[reports'[i].order] \in Z

LEMMA AimKept ==
  ASSUME TypeOK, NEW Z, Grown(Z), NEW c, AimOK(c)
  PROVE  AimOK(c)'
<1>1. trips \in Nat /\ \A i \in Report : reports[i].order \in Order /\ reports[i].trip \in 0 .. trips
  BY DEF TypeOK
<1>2. c.sizes \subseteq Size
  BY DEF AimOK
<1>3. ASSUME c.op = "load"
      PROVE  /\ c.by \in User /\ c.submit \in BOOLEAN
             /\ c.line \in [c.sizes -> {0} \cup Order']
             /\ \A s \in c.sizes : c.line[s] # 0 => orders'[c.line[s]] = s
  BY <1>3 DEF AimOK, Grown
<1>4. ASSUME c.op = "report"
      PROVE  c.by \in User /\ c.order \in Order' /\ c.sizes = {orders'[c.order]}
  BY <1>4 DEF AimOK, Grown
<1>5. ASSUME c.op \notin {"load", "report"}
      PROVE  /\ c.on \subseteq Report' /\ c.sizes = {SizeOf(i) : i \in c.on}'
             /\ c.bags \in [c.on -> Nat]
             /\ c.trip \in 0 .. trips' /\ (c.trip # 0 => c.on = OfTrip(c.trip)')
  <2>1. /\ c.on \subseteq Report /\ c.sizes = {SizeOf(i) : i \in c.on}
        /\ c.bags \in [c.on -> Nat]
        /\ c.trip \in 0 .. trips /\ (c.trip # 0 => c.on = OfTrip(c.trip))
    BY <1>5 DEF AimOK
  <2>2. \A i \in c.on : orders'[reports'[i].order] = SizeOf(i)
    BY <1>1, <2>1 DEF Grown, SizeOf
  <2>3. c.sizes = {SizeOf(i) : i \in c.on}'
    BY <2>1, <2>2 DEF SizeOf
  <2>4. c.trip \in 0 .. trips'
    BY <1>1, <2>1 DEF Grown
  <2>5. ASSUME c.trip # 0
        PROVE  c.on = OfTrip(c.trip)'
    <3>1. c.trip \in 1 .. trips
      BY <1>1, <2>1, <2>5
    <3>2. {i \in Report' : reports'[i].trip = c.trip} = {i \in Report : reports[i].trip = c.trip}
      BY <3>1 DEF Grown
    <3> QED  BY <2>1, <2>5, <3>2 DEF OfTrip
  <2> QED  BY <2>1, <2>3, <2>4, <2>5 DEF Grown
<1> QED  BY <1>2, <1>3, <1>4, <1>5 DEF AimOK

LEMMA ReadKept ==
  ASSUME TypeOK, NEW Z, Grown(Z), NEW c, c.op \in Op, AimOK(c), ReadStill(c), c.sizes \cap Z = {}
  PROVE  ReadStill(c)'
<1>1. \A i \in Report : reports[i].order \in Order
  BY DEF TypeOK
<1>2. ASSUME c.op = "load", NEW s \in c.sizes, c.line[s] # 0
      PROVE  ~UnderWay(c.line[s])'
  <2>1. c.line[s] \in Order /\ orders[c.line[s]] = s /\ s \notin Z
    BY <1>2 DEF AimOK
  <2>2. ~UnderWay(c.line[s])
    BY <1>2 DEF ReadStill
  <2> SUFFICES ASSUME NEW i \in Report', reports'[i].order = c.line[s], reports'[i].status \in IN_FLIGHT
               PROVE  FALSE
    BY DEF UnderWay, OfOrder
  <2>3. CASE i \in Report
    <3>1. reports[i].order = c.line[s] /\ SizeOf(i) = s
      BY <2>1, <2>3 DEF Grown, SizeOf
    <3>2. reports'[i] = reports[i]
      BY <2>1, <2>3, <3>1 DEF Grown
    <3> QED  BY <2>2, <2>3, <3>2 DEF UnderWay, OfOrder
  <2>4. CASE i \notin Report
    BY <2>1, <2>4 DEF Grown, IN_FLIGHT
  <2> QED  BY <2>3, <2>4
<1>3. ASSUME c.op \notin {"load", "report"}, NEW i \in c.on
      PROVE  reports'[i] = reports[i]
  <2>1. i \in Report /\ SizeOf(i) \in c.sizes
    BY <1>3 DEF AimOK
  <2> QED  BY <2>1 DEF Grown
<1>4. c.op \in {"submit", "edit"} => \A i \in c.on : Editable(i)'
  BY <1>3 DEF ReadStill, Editable
<1>5. c.op \in {"approve", "reject"} => \A i \in c.on : InReview(i)'
  BY <1>3 DEF ReadStill, InReview
<1>6. c.op = "approve" => \A i \in c.on : reports'[i].bags = c.bags[i]
  BY <1>3 DEF ReadStill
<1> QED  BY <1>2, <1>4, <1>5, <1>6 DEF ReadStill
-----------------------------------------------------------------------------
(* The requests after a step: the one that ends, and the others.           *)

Calls ==
    \A r \in Request : call[r] # Idle =>
        /\ call[r].op \in Op /\ call[r].step \in {1, 2}
        /\ call[r].step = 1 => AimOK(call[r])

\* Request r is done with its transaction.
Ends(r) ==
    \/ call' = [call EXCEPT ![r] = Idle]
    \/ \E op \in Op : call' = [call EXCEPT ![r] = [op |-> op, step |-> 2]]

\* call is a function on Request in every state.
CallIs == DOMAIN call = Request

LEMMA EndsWhat ==
  ASSUME CallIs, NEW r \in Request, Ends(r)
  PROVE  /\ CallIs' /\ \A q \in Request : q # r => call'[q] = call[q]
         /\ ~Working(r)'
         /\ call'[r] # Idle => call'[r].op \in Op /\ call'[r].step = 2
BY DEF CallIs, Ends, Working, Idle

LEMMA CallsStill ==
  ASSUME TypeOK, NEW Z, Grown(Z),
         \A q \in Request : \/ call'[q] = call[q] \/ call'[q] = Idle
                            \/ call'[q].op \in Op /\ call'[q].step = 2
  PROVE  Calls'
<1> SUFFICES ASSUME NEW q \in Request, call'[q] # Idle
             PROVE  /\ call'[q].op \in Op /\ call'[q].step \in {1, 2}
                    /\ call'[q].step = 1 => AimOK(call[q])'
  BY DEF Calls
<1>1. CASE call'[q].op \in Op /\ call'[q].step = 2
  BY <1>1
<1>2. CASE call'[q] = call[q]
  <2>1. PICK c : c = call[q] /\ call'[q] = c
    BY <1>2
  <2>2. c.op \in Op /\ c.step \in {1, 2} /\ (c.step = 1 => AimOK(c))
    BY <2>1 DEF TypeOK
  <2>3. c.step = 1 => AimOK(c)'
    BY <2>2, AimKept
  <2>4. c.step = 1 => AimOK(call[q])'
    BY <2>1, <2>3 DEF AimOK
  <2> QED  BY <2>1, <2>2, <2>4
<1> QED  BY <1>1, <1>2

LEMMA CallsKept ==
  ASSUME TypeOK, CallIs, NEW Z, Grown(Z), NEW r \in Request, Ends(r)
  PROVE  Calls'
<1>1. \A q \in Request : \/ call'[q] = call[q] \/ call'[q] = Idle
                         \/ call'[q].op \in Op /\ call'[q].step = 2
  BY EndsWhat
<1> QED  BY <1>1, CallsStill

\* Whoever is still at work has worked on other sizes than the step's.
LEMMA WorkStill ==
  ASSUME TypeOK, WorkOK, NEW Z, Grown(Z),
         \A q \in Request : Working(q)' =>
             Working(q) /\ call'[q] = call[q] /\ call[q].sizes \cap Z = {}
  PROVE  WorkOK'
<1>1. \A p, q \in Request : p # q /\ Working(p)' /\ Working(q)' => (call[p].sizes \cap call[q].sizes = {})'
  BY DEF WorkOK
<1>2. ASSUME NEW q \in Request, Working(q)'
      PROVE  ReadStill(call[q])'
  <2>1. PICK c : c = call[q] /\ call'[q] = c
    BY <1>2
  <2>2. c.op \in Op /\ AimOK(c) /\ ReadStill(c) /\ c.sizes \cap Z = {}
    BY <1>2, <2>1 DEF WorkOK, Working, TypeOK
  <2>3. ReadStill(c)'
    BY <2>2, ReadKept
  <2> QED  BY <2>1, <2>3 DEF ReadStill
<1> QED  BY <1>1, <1>2 DEF WorkOK

LEMMA WorkKept ==
  ASSUME TypeOK, CallIs, WorkOK, NEW r \in Request, Working(r), Grown(call[r].sizes), Ends(r)
  PROVE  WorkOK'
<1>1. /\ \A q \in Request : q # r => call'[q] = call[q]
      /\ ~Working(r)'
  BY EndsWhat
<1>2. PICK Z : Z = call[r].sizes
  OBVIOUS
<1>3. \A q \in Request : Working(q)' => Working(q) /\ call'[q] = call[q] /\ call[q].sizes \cap Z = {}
  BY <1>1, <1>2 DEF Working, WorkOK
<1> QED  BY <1>2, <1>3, WorkStill

-----------------------------------------------------------------------------
(* The steps that set the status of some reports.                          *)

LEMMA StatusSet ==
  ASSUME TypeOK, NEW set \in SUBSET Report, NEW s \in Status, SetStatus(set, s)
  PROVE  /\ reports' \in Seq(Row) /\ Len(reports') = Len(reports) /\ Report' = Report
         /\ \A i \in Report : /\ reports'[i].order = reports[i].order
                              /\ reports'[i].trip = reports[i].trip
                              /\ reports'[i].by = reports[i].by
                              /\ reports'[i].bags = reports[i].bags
                              /\ i \in set => reports'[i].status = s
                              /\ i \notin set => reports'[i] = reports[i]
<1>1. /\ DOMAIN reports = 1 .. Len(reports) /\ Len(reports) \in Nat /\ DOMAIN reports = Report
      /\ \A i \in Report : reports[i] \in Row
  BY Rows DEF Report
<1>2. reports' = [i \in Report |-> IF i \in set THEN [reports[i] EXCEPT !.status = s] ELSE reports[i]]
  BY DEF SetStatus
<1>3. \A i \in Report : (IF i \in set THEN [reports[i] EXCEPT !.status = s] ELSE reports[i]) \in Row
  BY <1>1, StatusOfRow
<1>4. reports' \in [1 .. Len(reports) -> Row]
  BY <1>1, <1>2, <1>3
<1>5. reports' \in Seq(Row) /\ Len(reports') = Len(reports)
  BY <1>1, <1>4, FunctionIsSeq
<1>6. Report' = Report
  BY <1>1, <1>4 DEF Report
<1>7. ASSUME NEW i \in Report
      PROVE  /\ reports'[i].order = reports[i].order
             /\ reports'[i].trip = reports[i].trip
             /\ reports'[i].by = reports[i].by
             /\ reports'[i].bags = reports[i].bags
             /\ i \in set => reports'[i].status = s
             /\ i \notin set => reports'[i] = reports[i]
  <2>1. CASE i \in set
    <3>1. reports'[i] = [reports[i] EXCEPT !.status = s]
      BY <1>2, <2>1
    <3> QED  BY <1>1, <2>1, <3>1, StatusOfRow
  <2>2. CASE i \notin set
    BY <1>2, <2>2
  <2> QED  BY <2>1, <2>2
<1> QED  BY <1>5, <1>6, <1>7

\* The reports change in place: no orders, dispatches or reports are made.
InPlace(Z) ==
    /\ UNCHANGED <<orders, trips>>
    /\ reports' \in Seq(Row) /\ Len(reports') = Len(reports) /\ Report' = Report
    /\ \A i \in Report : /\ reports'[i].order = reports[i].order
                         /\ reports'[i].trip = reports[i].trip
                         /\ reports'[i].by = reports[i].by
                         /\ SizeOf(i) \notin Z => reports'[i] = reports[i]

LEMMA InPlaceGrown ==
  ASSUME TypeOK, NEW Z, InPlace(Z)
  PROVE  /\ Grown(Z)
         /\ Order' = Order /\ \A d : OfTrip(d)' = OfTrip(d)
         /\ \A o : OfOrder(o)' = OfOrder(o)
         /\ \A o : Mixed(o)' = Mixed(o)
<1>1. trips \in Nat /\ (\A i \in Report : reports[i].order \in Order)
  BY DEF TypeOK
<1>2. /\ Report' = Report /\ orders' = orders /\ trips' = trips
      /\ \A i \in Report : /\ reports'[i].order = reports[i].order
                           /\ reports'[i].trip = reports[i].trip
                           /\ reports'[i].by = reports[i].by
                           /\ SizeOf(i) \notin Z => reports'[i] = reports[i]
  BY DEF InPlace
<1>3. Order' = Order
  BY <1>2 DEF Order
<1>4. ASSUME NEW d PROVE OfTrip(d)' = OfTrip(d)
  BY <1>2 DEF OfTrip
<1>5. ASSUME NEW o PROVE OfOrder(o)' = OfOrder(o)
  BY <1>2 DEF OfOrder
<1>6. Grown(Z)
  BY <1>1, <1>2, <1>3 DEF Grown
<1>7. ASSUME NEW o PROVE Mixed(o)' = Mixed(o)
  <2>1. OfOrder(o) \subseteq Report /\ OfOrder(o)' = OfOrder(o)
    BY <1>5 DEF OfOrder
  <2>2. Mixed(o)' <=> Mixed(o)
    BY <1>2, <2>1 DEF Mixed
  <2> QED  BY <2>2 DEF Mixed
<1> QED  BY <1>3, <1>4, <1>5, <1>6, <1>7
-----------------------------------------------------------------------------
(* The parts of the invariant after such a step.                           *)

LEMMA InPlaceType ==
  ASSUME TypeOK, NEW Z, InPlace(Z), CallIs', Calls',
         ship' \in Seq(Carried), Len(ship') = Len(ship),
         task' \in {NoTask} \cup Task,
         history' \in {Crossed, Lost} \cup Told
  PROVE  TypeOK'
<1>1. orders' \in Seq(Size) /\ reports' \in Seq(Row) /\ trips' \in Nat /\ Len(ship') = Len(reports')
  BY DEF TypeOK, InPlace
<1>2. Order' = Order
  BY InPlaceGrown
<1>3. \A i \in Report' : reports'[i].order \in Order' /\ reports'[i].trip \in 0 .. trips'
  BY <1>2 DEF TypeOK, InPlace
<1> QED  BY <1>1, <1>3 DEF TypeOK, CallIs, Calls

LEMMA OneCountsKept ==
  ASSUME TypeOK, OneCounts, NEW Z, InPlace(Z),
         history.sentBack \subseteq history'.sentBack,
         \A i \in Report : Counts(i)' => Counts(i),
         \A i \in Report : reports'[i].status = "REJECTED" =>
             reports[i].status = "REJECTED" \/ reports[i].order \in history'.sentBack
  PROVE  OneCounts'
<1>1. /\ Order' = Order /\ (\A o : OfOrder(o)' = OfOrder(o)) /\ (\A o : Mixed(o)' = Mixed(o))
      /\ Report' = Report /\ (\A i \in Report : reports'[i].order = reports[i].order)
  BY InPlaceGrown DEF InPlace
<1>2. ASSUME NEW o \in Order' \ history'.sentBack, ~Mixed(o)',
             NEW i \in OfOrder(o)', NEW j \in OfOrder(o)', Counts(i)', Counts(j)'
      PROVE  i = j
  <2>1. o \in Order \ history.sentBack /\ ~Mixed(o) /\ i \in OfOrder(o) /\ j \in OfOrder(o)
    BY <1>1, <1>2
  <2>2. Counts(i) /\ Counts(j)
    BY <1>2, <2>1 DEF OfOrder
  <2> QED  BY <2>1, <2>2 DEF OneCounts
<1>3. \A i \in Report' : reports'[i].status = "REJECTED" => reports'[i].order \in history'.sentBack
  BY <1>1 DEF OneCounts
<1> QED  BY <1>2, <1>3 DEF OneCounts

LEMMA TogetherKept ==
  ASSUME TypeOK, Together, Orderly, NEW Z, InPlace(Z), NEW set \in SUBSET Report, NEW s \in Status,
         history.apart \subseteq history'.apart,
         \A i \in Report : reports'[i].status = IF i \in set THEN s ELSE reports[i].status,
         \A d \in 1 .. trips \ history'.apart : OfTrip(d) \subseteq set \/ OfTrip(d) \cap set = {}
  PROVE  Together'
<1> SUFFICES ASSUME NEW d \in 1 .. trips' \ history'.apart, NEW i \in OfTrip(d)', NEW j \in OfTrip(d)'
             PROVE  \/ reports'[i].status = reports'[j].status
                    \/ {reports'[i].status, reports'[j].status} \subseteq Out
  BY DEF Together
<1>1. trips' = trips /\ d \in 1 .. trips \ history.apart /\ i \in OfTrip(d) /\ j \in OfTrip(d)
  BY InPlaceGrown DEF InPlace
<1>2. i \in Report /\ j \in Report
  BY <1>1 DEF OfTrip
<1>3. CASE OfTrip(d) \subseteq set
  <2>1. reports'[i].status = s /\ reports'[j].status = s
    BY <1>1, <1>2, <1>3
  <2> QED  BY <2>1
<1>4. CASE OfTrip(d) \cap set = {}
  <2>1. reports'[i].status = reports[i].status /\ reports'[j].status = reports[j].status
    BY <1>1, <1>2, <1>4
  <2>2. \/ reports[i].status = reports[j].status
        \/ {reports[i].status, reports[j].status} \subseteq Out
    BY <1>1 DEF Together
  <2> QED  BY <2>1, <2>2
<1> QED  BY <1>1, <1>3, <1>4

\* A dispatch that is not told of as handled apart is handled as a whole.
LEMMA WholeTrips ==
  ASSUME TypeOK, NEW r \in Request, Working(r), call[r].op \notin {"load", "report"},
         NEW sent \in SUBSET Nat, Apart(OneByOne(r), sent)
  PROVE  /\ history' \in {Crossed, Lost} \cup Told
         /\ Orderly' =>
              /\ Orderly /\ history.apart \subseteq history'.apart
              /\ history'.sentBack = history.sentBack \cup sent
              /\ \A d \in 1 .. trips \ history'.apart :
                    OfTrip(d) \subseteq call[r].on \/ OfTrip(d) \cap call[r].on = {}
<1>1. PICK c : c = call[r]
  OBVIOUS
<1>2. /\ c.on \subseteq Report /\ c.trip \in 0 .. trips /\ (c.trip # 0 => c.on = OfTrip(c.trip))
  BY <1>1 DEF TypeOK, Working, AimOK
<1>3. OneByOne(r) = IF c.trip = 0 THEN {reports[i].trip : i \in c.on} ELSE {}
  BY <1>1 DEF OneByOne
<1>4. OneByOne(r) \in SUBSET Nat
  BY <1>2, <1>3 DEF TypeOK
<1>5. /\ history' \in {Crossed, Lost} \cup Told
      /\ Orderly' => /\ Orderly
                     /\ history'.apart = history.apart \cup (OneByOne(r) \ {0})
                     /\ history'.sentBack = history.sentBack \cup sent
  BY <1>4, ApartAdds
<1>6. ASSUME Orderly', NEW d \in 1 .. trips \ history'.apart
      PROVE  OfTrip(d) \subseteq c.on \/ OfTrip(d) \cap c.on = {}
  <2>1. CASE c.trip = 0
    <3>1. d \notin {reports[i].trip : i \in c.on}
      <4>1. trips \in Nat /\ d # 0 /\ d \notin OneByOne(r)
        BY <1>5, <1>6 DEF TypeOK
      <4> QED  BY <1>3, <2>1, <4>1
    <3>2. OfTrip(d) \cap c.on = {}
      BY <3>1 DEF OfTrip
    <3> QED  BY <3>2
  <2>2. CASE c.trip # 0
    <3>1. c.on = OfTrip(c.trip)
      BY <1>2, <2>2
    <3>2. d = c.trip \/ OfTrip(d) \cap OfTrip(c.trip) = {}
      BY DEF OfTrip
    <3> QED  BY <3>1, <3>2
  <2> QED  BY <2>1, <2>2
<1> QED  BY <1>1, <1>5, <1>6

\* A request that ends with a transaction to follow up.
LEMMA TaskKept ==
  ASSUME CallIs, NEW r \in Request, Working(r), Ends(r), TaskOK, task' = task,
         \/ reports' # <<>> => reports # <<>>
         \/ call'[r] # Idle /\ call'[r].op # "approve",
         \/ \A o \in Order : /\ o \in Order'
                             /\ (\A i \in OfOrder(o) : ship[i].at = "farm") =>
                                    \A i \in OfOrder(o)' : ship'[i].at = "farm"
         \/ call'[r] # Idle /\ call'[r].op = "approve"
  PROVE  TaskOK'
<1>1. /\ \A q \in Request : q # r => call'[q] = call[q]
      /\ call'[r] # Idle => call'[r].step = 2
  BY EndsWhat
<1>2. ASSUME NEW q \in Request, Following(q)
      PROVE  Following(q)' /\ call'[q] = call[q]
  BY <1>1, <1>2 DEF Following, Working
<1>3. call'[r] # Idle => Following(r)'
  BY <1>1 DEF Following
<1>4. ASSUME task'.at = "TODO", reports' # <<>>, ~task'.byHand
      PROVE  \E q \in Request : Following(q)' /\ call'[q].op # "approve"
  <2>1. CASE call'[r] # Idle /\ call'[r].op # "approve"
    BY <1>3, <2>1
  <2>2. CASE reports # <<>>
    <3>1. PICK q \in Request : Following(q) /\ call[q].op # "approve"
      BY <1>4, <2>2 DEF TaskOK
    <3> QED  BY <1>2, <3>1
  <2> QED  BY <1>4, <2>1, <2>2
<1>5. ASSUME task'.at \notin {"NONE", "COMPLETED"}, ~task'.byHand
      PROVE  \/ \E o \in Order' : \A i \in OfOrder(o)' : ship'[i].at = "farm"
             \/ \E q \in Request : Following(q)' /\ call'[q].op = "approve"
  <2>1. CASE call'[r] # Idle /\ call'[r].op = "approve"
    BY <1>3, <2>1
  <2>2. CASE \E q \in Request : Following(q) /\ call[q].op = "approve"
    BY <1>2, <2>2
  <2>3. CASE /\ \E o \in Order : \A i \in OfOrder(o) : ship[i].at = "farm"
             /\ \A o \in Order : /\ o \in Order'
                                 /\ (\A i \in OfOrder(o) : ship[i].at = "farm") =>
                                        \A i \in OfOrder(o)' : ship'[i].at = "farm"
    BY <2>3
  <2> QED  BY <1>5, <2>1, <2>2, <2>3 DEF TaskOK
<1> QED  BY <1>4, <1>5 DEF TaskOK
-----------------------------------------------------------------------------
(* The transactions that change reports where they are.                    *)

LEMMA StatusCommit ==
  ASSUME TypeOK, NEW r \in Request, Working(r), call[r].op \notin {"load", "report"},
         NEW s \in Status, SetStatus(call[r].on, s), UNCHANGED <<orders, trips>>
  PROVE  /\ InPlace(call[r].sizes) /\ call[r].on \in SUBSET Report
         /\ \A i \in Report : /\ reports'[i].bags = reports[i].bags
                              /\ reports'[i].status = IF i \in call[r].on THEN s ELSE reports[i].status
                              /\ i \notin call[r].on => reports'[i] = reports[i]
<1>1. PICK c : c = call[r]
  OBVIOUS
<1>2. c.on \subseteq Report /\ c.sizes = {SizeOf(i) : i \in c.on}
  BY <1>1 DEF TypeOK, Working, AimOK
<1>3. SetStatus(c.on, s)
  BY <1>1
<1>4. /\ reports' \in Seq(Row) /\ Len(reports') = Len(reports) /\ Report' = Report
      /\ \A i \in Report : /\ reports'[i].order = reports[i].order
                           /\ reports'[i].trip = reports[i].trip
                           /\ reports'[i].by = reports[i].by
                           /\ reports'[i].bags = reports[i].bags
                           /\ i \in c.on => reports'[i].status = s
                           /\ i \notin c.on => reports'[i] = reports[i]
  BY <1>2, <1>3, StatusSet
<1>5. \A i \in Report : SizeOf(i) \notin c.sizes => i \notin c.on
  BY <1>2
<1>6. InPlace(c.sizes)
  BY <1>4, <1>5 DEF InPlace
<1>7. \A i \in Report : reports'[i].status = IF i \in c.on THEN s ELSE reports[i].status
  BY <1>4
<1> QED  BY <1>1, <1>2, <1>4, <1>6, <1>7

LEMMA InPlaceEmpty ==
  ASSUME TypeOK, NEW Z, InPlace(Z)
  PROVE  reports' # <<>> => reports # <<>>
<1>1. reports \in Seq(Row) /\ reports' \in Seq(Row) /\ Len(reports') = Len(reports)
  BY DEF TypeOK, InPlace
<1> QED  BY <1>1, EmptySeq, LenProperties

\* The transaction of a submission: no report of it was sent before.
LEMMA SubmitStep ==
  ASSUME IInv, NEW r \in Request, CommitSubmit(r)
  PROVE  IInv'
<1>1. TypeOK /\ Together /\ WhatLeftStands /\ CallIs
  BY DEF IInv, TypeOK, CallIs
<1>2. Working(r) /\ call[r].op = "submit"
  BY DEF CommitSubmit, At, Working, Idle
<1>3. Ends(r) /\ (call'[r] # Idle => call'[r].op # "approve")
  BY <1>1, <1>2 DEF CommitSubmit, ToFollowUp, Ends, Op, CallIs
<1>4. PICK on, Z : on = call[r].on /\ Z = call[r].sizes
  OBVIOUS
<1>5. /\ InPlace(Z) /\ on \in SUBSET Report
      /\ \A i \in Report : /\ reports'[i].bags = reports[i].bags
                           /\ reports'[i].status = IF i \in on THEN "SUPERVISOR_REVIEW" ELSE reports[i].status
                           /\ i \notin on => reports'[i] = reports[i]
  BY <1>1, <1>2, <1>4, StatusCommit DEF CommitSubmit, Status
<1>6. Grown(Z) /\ Order' = Order /\ (\A o : OfOrder(o)' = OfOrder(o)) /\ Report' = Report
  BY <1>1, <1>5, InPlaceGrown DEF InPlace
<1>7. /\ history' \in {Crossed, Lost} \cup Told
      /\ Orderly' => /\ Orderly /\ history.apart \subseteq history'.apart
                     /\ history'.sentBack = history.sentBack
                     /\ \A d \in 1 .. trips \ history'.apart : OfTrip(d) \subseteq on \/ OfTrip(d) \cap on = {}
  <2>1. Apart(OneByOne(r), {})
    BY DEF CommitSubmit
  <2> QED  BY <1>1, <1>2, <1>4, <2>1, WholeTrips
<1>8. CallIs' /\ Calls'
  BY <1>1, <1>3, <1>6, EndsWhat, CallsKept
<1>9. TypeOK'
  BY <1>1, <1>5, <1>7, <1>8, InPlaceType DEF CommitSubmit, TypeOK
<1>10. ASSUME Orderly' PROVE WorkOK'
  BY <1>1, <1>2, <1>3, <1>4, <1>6, <1>7, <1>10, WorkKept DEF IInv
<1>11. ASSUME Orderly, NEW i \in on PROVE Editable(i)
  BY <1>2, <1>4, <1>11 DEF IInv, WorkOK, ReadStill
<1>12. ASSUME Orderly' PROVE Together'
  <2>1. "SUPERVISOR_REVIEW" \in Status
    BY DEF Status
  <2>2. /\ Orderly /\ history.apart \subseteq history'.apart
        /\ \A d \in 1 .. trips \ history'.apart : OfTrip(d) \subseteq on \/ OfTrip(d) \cap on = {}
    BY <1>7, <1>12
  <2>3. /\ InPlace(Z) /\ on \in SUBSET Report
        /\ \A i \in Report : reports'[i].status = IF i \in on THEN "SUPERVISOR_REVIEW" ELSE reports[i].status
    BY <1>5
  <2> QED  BY <1>1, <2>1, <2>2, <2>3, TogetherKept
<1>13. ASSUME Orderly' PROVE WhatLeftStands'
  BY <1>1, <1>5, <1>6, <1>7, <1>11, <1>13
     DEF WhatLeftStands, CommitSubmit, Editable, EDITABLE_STATUSES, Out
<1>14. ASSUME Orderly' PROVE OneCounts'
  <2>1. \A i \in Report : Counts(i)' => Counts(i)
    BY <1>5, <1>7, <1>11, <1>14 DEF Counts, Editable, EDITABLE_STATUSES
  <2>2. \A i \in Report : reports'[i].status = "REJECTED" => reports[i].status = "REJECTED"
    BY <1>5
  <2> QED  BY <1>1, <1>5, <1>7, <1>14, <2>1, <2>2, OneCountsKept DEF IInv
<1>15. ASSUME Orderly' PROVE TaskOK'
  <2>1. reports' # <<>> => reports # <<>>
    BY <1>1, <1>5, InPlaceEmpty
  <2> QED  BY <1>1, <1>2, <1>3, <1>6, <1>7, <1>15, <2>1, TaskKept DEF IInv, CommitSubmit
<1> QED  BY <1>9, <1>10, <1>12, <1>13, <1>14, <1>15 DEF IInv, Together, WhatLeftStands
\* Sending back: from then on the history tells the orders.
LEMMA RejectStep ==
  ASSUME IInv, NEW r \in Request, CommitReject(r)
  PROVE  IInv'
<1>1. TypeOK /\ Together /\ WhatLeftStands /\ CallIs
  BY DEF IInv, TypeOK, CallIs
<1>2. Working(r) /\ call[r].op = "reject"
  BY DEF CommitReject, At, Working, Idle
<1>3. Ends(r) /\ call'[r] = Idle
  BY <1>1 DEF CommitReject, Finish, Ends, CallIs
<1>4. PICK on, Z : on = call[r].on /\ Z = call[r].sizes
  OBVIOUS
<1>5. /\ InPlace(Z) /\ on \in SUBSET Report
      /\ \A i \in Report : /\ reports'[i].bags = reports[i].bags
                           /\ reports'[i].status = IF i \in on THEN "REJECTED" ELSE reports[i].status
                           /\ i \notin on => reports'[i] = reports[i]
  BY <1>1, <1>2, <1>4, StatusCommit DEF CommitReject, Status
<1>6. Grown(Z) /\ Order' = Order /\ (\A o : OfOrder(o)' = OfOrder(o)) /\ Report' = Report
  BY <1>1, <1>5, InPlaceGrown DEF InPlace
<1>7. /\ history' \in {Crossed, Lost} \cup Told
      /\ Orderly' => /\ Orderly /\ history.apart \subseteq history'.apart
                     /\ history'.sentBack = history.sentBack \cup {reports[i].order : i \in on}
                     /\ \A d \in 1 .. trips \ history'.apart : OfTrip(d) \subseteq on \/ OfTrip(d) \cap on = {}
  <2>1. Apart(OneByOne(r), {reports[i].order : i \in on})
    BY <1>4 DEF CommitReject
  <2>2. {reports[i].order : i \in on} \in SUBSET Nat
    <3>1. \A i \in Report : reports[i].order \in Nat
      BY <1>1, Rows
    <3> QED  BY <1>5, <3>1
  <2> QED  BY <1>1, <1>2, <1>4, <2>1, <2>2, WholeTrips
<1>8. CallIs' /\ Calls'
  BY <1>1, <1>3, <1>6, EndsWhat, CallsKept
<1>9. TypeOK'
  BY <1>1, <1>5, <1>7, <1>8, InPlaceType DEF CommitReject, TypeOK
<1>10. ASSUME Orderly' PROVE WorkOK'
  BY <1>1, <1>2, <1>3, <1>4, <1>6, <1>7, <1>10, WorkKept DEF IInv
<1>11. ASSUME Orderly, NEW i \in on PROVE InReview(i)
  BY <1>2, <1>4, <1>11 DEF IInv, WorkOK, ReadStill
<1>12. ASSUME Orderly' PROVE Together'
  <2>1. "REJECTED" \in Status
    BY DEF Status
  <2>2. /\ Orderly /\ history.apart \subseteq history'.apart
        /\ \A d \in 1 .. trips \ history'.apart : OfTrip(d) \subseteq on \/ OfTrip(d) \cap on = {}
    BY <1>7, <1>12
  <2>3. /\ InPlace(Z) /\ on \in SUBSET Report
        /\ \A i \in Report : reports'[i].status = IF i \in on THEN "REJECTED" ELSE reports[i].status
    BY <1>5
  <2> QED  BY <1>1, <2>1, <2>2, <2>3, TogetherKept
<1>13. ASSUME Orderly' PROVE WhatLeftStands'
  BY <1>1, <1>5, <1>6, <1>7, <1>11, <1>13
     DEF WhatLeftStands, CommitReject, InReview, Out
<1>14. ASSUME Orderly' PROVE OneCounts'
  <2>1. \A i \in Report : Counts(i)' => Counts(i)
    BY <1>5, <1>7, <1>11, <1>14 DEF Counts, InReview
  <2>2. \A i \in Report : reports'[i].status = "REJECTED" =>
            reports[i].status = "REJECTED" \/ reports[i].order \in history'.sentBack
    BY <1>5, <1>7, <1>14
  <2>3. history.sentBack \subseteq history'.sentBack
    BY <1>7, <1>14
  <2> QED  BY <1>1, <1>5, <1>7, <1>14, <2>1, <2>2, <2>3, OneCountsKept DEF IInv
<1>15. ASSUME Orderly' PROVE TaskOK'
  <2>1. reports' # <<>> => reports # <<>>
    BY <1>1, <1>5, InPlaceEmpty
  <2> QED  BY <1>1, <1>2, <1>3, <1>6, <1>7, <1>15, <2>1, TaskKept DEF IInv, CommitReject
<1> QED  BY <1>9, <1>10, <1>12, <1>13, <1>14, <1>15 DEF IInv, Together, WhatLeftStands

\* Approval: what was read of the reports still stands, so the shipments
\* carry what the reports say.
LEMMA ApproveStep ==
  ASSUME IInv, NEW r \in Request, CommitApprove(r)
  PROVE  IInv'
<1>1. TypeOK /\ Together /\ WhatLeftStands /\ CallIs
  BY DEF IInv, TypeOK, CallIs
<1>2. Working(r) /\ call[r].op = "approve"
  BY DEF CommitApprove, At, Working, Idle
<1>3. /\ Ends(r) /\ call'[r] # Idle /\ call'[r].op = "approve"
  <2>1. call' = [call EXCEPT ![r] = [op |-> "approve", step |-> 2]]
    BY <1>2 DEF CommitApprove, ToFollowUp
  <2>2. [op |-> "approve", step |-> 2] # Idle
    BY DEF Idle
  <2> QED  BY <1>1, <2>1, <2>2 DEF Ends, Op, CallIs
<1>4. PICK c : c = call[r]
  OBVIOUS
<1>5. /\ InPlace(c.sizes) /\ c.on \in SUBSET Report
      /\ \A i \in Report : /\ reports'[i].bags = reports[i].bags
                           /\ reports'[i].status = IF i \in c.on THEN "IN_TRANSIT" ELSE reports[i].status
                           /\ i \notin c.on => reports'[i] = reports[i]
  BY <1>1, <1>2, <1>4, StatusCommit DEF CommitApprove, Status, Leaving
<1>6. Grown(c.sizes) /\ Order' = Order /\ (\A o : OfOrder(o)' = OfOrder(o)) /\ Report' = Report
  BY <1>1, <1>5, InPlaceGrown DEF InPlace
<1>7. /\ history' \in {Crossed, Lost} \cup Told
      /\ Orderly' => /\ Orderly /\ history.apart \subseteq history'.apart
                     /\ history'.sentBack = history.sentBack
                     /\ \A d \in 1 .. trips \ history'.apart :
                           OfTrip(d) \subseteq c.on \/ OfTrip(d) \cap c.on = {}
  <2>1. Apart(OneByOne(r), {})
    BY DEF CommitApprove
  <2> QED  BY <1>1, <1>2, <1>4, <2>1, WholeTrips
<1>8. CallIs' /\ Calls'
  BY <1>1, <1>3, <1>6, EndsWhat, CallsKept
<1>9. /\ ship' = [i \in Report |-> IF i \in c.on THEN [at |-> "road", bags |-> c.bags[i]] ELSE ship[i]]
      /\ c.bags \in [c.on -> Nat]
  BY <1>2, <1>4 DEF CommitApprove, Leaving, IInv, TypeOK, Working, AimOK
<1>10. ship' \in Seq(Carried) /\ Len(ship') = Len(ship)
  <2>1. DOMAIN reports = 1 .. Len(reports) /\ Len(reports) \in Nat /\ \A i \in Report : ship[i] \in Carried
    BY <1>1, Rows
  <2>2. \A i \in c.on : c.bags[i] \in Nat
    BY <1>9
  <2>3. \A i \in Report : (IF i \in c.on THEN [at |-> "road", bags |-> c.bags[i]] ELSE ship[i]) \in Carried
    BY <2>1, <2>2 DEF Carried
  <2>4. ship' \in [1 .. Len(reports) -> Carried]
    BY <1>9, <2>1, <2>3 DEF Report
  <2> QED  BY <1>1, <2>1, <2>4, FunctionIsSeq DEF TypeOK
<1>11. TypeOK'
  BY <1>1, <1>5, <1>7, <1>8, <1>10, InPlaceType DEF CommitApprove, TypeOK
<1>12. ASSUME Orderly' PROVE WorkOK'
  BY <1>1, <1>2, <1>3, <1>4, <1>6, <1>7, <1>12, WorkKept DEF IInv
<1>13. ASSUME Orderly, NEW i \in c.on PROVE InReview(i) /\ reports[i].bags = c.bags[i]
  BY <1>2, <1>4, <1>13 DEF IInv, WorkOK, ReadStill
<1>14. ASSUME Orderly' PROVE Together'
  <2>1. "IN_TRANSIT" \in Status
    BY DEF Status
  <2>2. /\ Orderly /\ history.apart \subseteq history'.apart
        /\ \A d \in 1 .. trips \ history'.apart : OfTrip(d) \subseteq c.on \/ OfTrip(d) \cap c.on = {}
    BY <1>7, <1>14
  <2>3. /\ InPlace(c.sizes) /\ c.on \in SUBSET Report
        /\ \A i \in Report : reports'[i].status = IF i \in c.on THEN "IN_TRANSIT" ELSE reports[i].status
    BY <1>5
  <2> QED  BY <1>1, <2>1, <2>2, <2>3, TogetherKept
<1>15. ASSUME Orderly' PROVE WhatLeftStands'
  <2> SUFFICES ASSUME NEW i \in Report, ship'[i].at # "farm"
               PROVE  reports'[i].bags = ship'[i].bags /\ reports'[i].status \in Out
    BY <1>6 DEF WhatLeftStands
  <2>1. CASE i \in c.on
    <3>1. reports[i].bags = c.bags[i]
      BY <1>7, <1>13, <1>15, <2>1
    <3> QED  BY <1>5, <1>9, <2>1, <3>1 DEF Out
  <2>2. CASE i \notin c.on
    <3>1. ship'[i] = ship[i] /\ reports'[i] = reports[i]
      BY <1>5, <1>9, <2>2
    <3> QED  BY <1>1, <1>7, <1>15, <3>1 DEF WhatLeftStands
  <2> QED  BY <2>1, <2>2
<1>16. ASSUME Orderly' PROVE OneCounts'
  <2>1. \A i \in Report : Counts(i)' => Counts(i)
    BY <1>5, <1>7, <1>13, <1>16 DEF Counts, InReview
  <2>2. \A i \in Report : reports'[i].status = "REJECTED" => reports[i].status = "REJECTED"
    BY <1>5
  <2> QED  BY <1>1, <1>5, <1>7, <1>16, <2>1, <2>2, OneCountsKept DEF IInv
<1>17. ASSUME Orderly' PROVE TaskOK'
  <2>1. reports' # <<>> => reports # <<>>
    BY <1>1, <1>5, InPlaceEmpty
  <2> QED  BY <1>1, <1>2, <1>3, <1>7, <1>17, <2>1, TaskKept DEF IInv, CommitApprove
<1> QED  BY <1>11, <1>12, <1>14, <1>15, <1>16, <1>17 DEF IInv, Together, WhatLeftStands

\* An edit: only of reports that have not left.
LEMMA EditStep ==
  ASSUME IInv, NEW r \in Request, NEW n \in 2 .. MaxBags, CommitEdit(r, n)
  PROVE  IInv'
<1>1. TypeOK /\ Together /\ WhatLeftStands /\ CallIs
  BY DEF IInv, TypeOK, CallIs
<1>2. Working(r) /\ call[r].op = "edit"
  BY DEF CommitEdit, At, Working, Idle
<1>3. Ends(r) /\ call'[r] = Idle
  BY <1>1 DEF CommitEdit, Finish, Ends, CallIs
<1>4. PICK on, Z : on = call[r].on /\ Z = call[r].sizes
  OBVIOUS
<1>5. on \subseteq Report /\ Z = {SizeOf(i) : i \in on} /\ n \in Nat
  BY <1>1, <1>2, <1>4, BoundAssumption DEF TypeOK, Working, AimOK
<1>6. /\ DOMAIN reports = 1 .. Len(reports) /\ Len(reports) \in Nat /\ DOMAIN reports = Report
      /\ \A i \in Report : reports[i] \in Row
  BY <1>1, Rows DEF Report
<1>7. reports' = [i \in Report |-> IF i \in on THEN [reports[i] EXCEPT !.bags = n] ELSE reports[i]]
  BY <1>4 DEF CommitEdit
<1>8. /\ reports' \in Seq(Row) /\ Len(reports') = Len(reports) /\ Report' = Report
  <2>1. \A i \in Report : (IF i \in on THEN [reports[i] EXCEPT !.bags = n] ELSE reports[i]) \in Row
    BY <1>5, <1>6, StatusOfRow
  <2>2. reports' \in [1 .. Len(reports) -> Row]
    BY <1>6, <1>7, <2>1
  <2> QED  BY <1>6, <2>2, FunctionIsSeq DEF Report
<1>9. ASSUME NEW i \in Report
      PROVE  /\ reports'[i].order = reports[i].order
             /\ reports'[i].trip = reports[i].trip
             /\ reports'[i].by = reports[i].by
             /\ reports'[i].status = reports[i].status
             /\ i \notin on => reports'[i] = reports[i]
  <2>1. CASE i \in on
    <3>1. reports'[i] = [reports[i] EXCEPT !.bags = n]
      BY <1>7, <2>1
    <3> QED  BY <1>5, <1>6, <2>1, <3>1, StatusOfRow
  <2>2. CASE i \notin on
    BY <1>7, <2>2
  <2> QED  BY <2>1, <2>2
<1>10. InPlace(Z)
  <2>1. \A i \in Report : SizeOf(i) \notin Z => i \notin on
    BY <1>5
  <2> QED  BY <1>8, <1>9, <2>1 DEF InPlace, CommitEdit
<1>11. Grown(Z) /\ Order' = Order /\ (\A o : OfOrder(o)' = OfOrder(o)) /\ history' = history
  BY <1>1, <1>10, InPlaceGrown DEF CommitEdit
<1>12. CallIs' /\ Calls'
  BY <1>1, <1>3, <1>11, EndsWhat, CallsKept
<1>13. TypeOK'
  BY <1>1, <1>10, <1>11, <1>12, InPlaceType DEF CommitEdit, TypeOK
<1>14. Orderly' => Orderly
  BY <1>11 DEF Orderly
<1>15. ASSUME Orderly' PROVE WorkOK'
  BY <1>1, <1>2, <1>3, <1>4, <1>11, <1>14, <1>15, WorkKept DEF IInv
<1>16. ASSUME Orderly, NEW i \in on PROVE Editable(i)
  BY <1>2, <1>4, <1>16 DEF IInv, WorkOK, ReadStill
<1>17. ASSUME Orderly' PROVE Together'
  <2>1. "DRAFT" \in Status /\ {} \in SUBSET Report /\ history.apart \subseteq history'.apart
    BY <1>11 DEF Status
  <2>2. \A i \in Report : reports'[i].status = IF i \in {} THEN "DRAFT" ELSE reports[i].status
    BY <1>9
  <2>3. \A d \in 1 .. trips \ history'.apart : OfTrip(d) \subseteq {} \/ OfTrip(d) \cap {} = {}
    OBVIOUS
  <2> QED  BY <1>1, <1>10, <1>14, <1>17, <2>1, <2>2, <2>3, TogetherKept
<1>18. ASSUME Orderly' PROVE WhatLeftStands'
  <2> SUFFICES ASSUME NEW i \in Report, ship[i].at # "farm"
               PROVE  reports'[i].bags = ship[i].bags /\ reports'[i].status \in Out
    BY <1>8 DEF WhatLeftStands, CommitEdit
  <2>1. reports[i].bags = ship[i].bags /\ reports[i].status \in Out
    BY <1>1, <1>14, <1>18 DEF WhatLeftStands
  <2>2. i \notin on
    BY <1>14, <1>16, <1>18, <2>1 DEF Editable, EDITABLE_STATUSES, Out
  <2> QED  BY <1>9, <2>1, <2>2
<1>19. ASSUME Orderly' PROVE OneCounts'
  <2>1. \A i \in Report : Counts(i)' => Counts(i)
    BY <1>9 DEF Counts
  <2>2. \A i \in Report : reports'[i].status = "REJECTED" => reports[i].status = "REJECTED"
    BY <1>9
  <2> QED  BY <1>1, <1>10, <1>11, <1>14, <1>19, <2>1, <2>2, OneCountsKept DEF IInv
<1>20. ASSUME Orderly' PROVE TaskOK'
  <2>1. reports' # <<>> => reports # <<>>
    BY <1>1, <1>10, InPlaceEmpty
  <2> QED  BY <1>1, <1>2, <1>3, <1>11, <1>14, <1>20, <2>1, TaskKept DEF IInv, CommitEdit
<1> QED  BY <1>13, <1>15, <1>17, <1>18, <1>19, <1>20 DEF IInv, Together, WhatLeftStands
-----------------------------------------------------------------------------
(* Counting in, follow-ups and failures.                                   *)

LEMMA TouchedBy ==
  ASSUME NEW q \in Request, Working(q)
  PROVE  call[q].sizes \subseteq Touched
BY DEF Working, Touched

LEMMA CrossingWhat ==
  ASSUME TypeOK, NEW sizes, Crossing(sizes)
  PROVE  /\ history' \in {Crossed, Lost} \cup Told
         /\ Orderly' => Orderly /\ history' = history /\ sizes \cap Touched = {}
BY DEF Crossing, TypeOK, Orderly

\* Nobody else is at work on the size that is counted in.
LEMMA CountInStep ==
  ASSUME IInv, NEW i \in Report, CountIn(i)
  PROVE  IInv'
<1>1. TypeOK /\ Together /\ WhatLeftStands /\ CallIs
  BY DEF IInv, TypeOK, CallIs
<1>2. /\ reports' \in Seq(Row) /\ Len(reports') = Len(reports) /\ Report' = Report
      /\ \A j \in Report : /\ reports'[j].order = reports[j].order
                           /\ reports'[j].trip = reports[j].trip
                           /\ reports'[j].by = reports[j].by
                           /\ reports'[j].bags = reports[j].bags
                           /\ j = i => reports'[j].status = "RECONCILED"
                           /\ j # i => reports'[j] = reports[j]
  <2>1. PICK set : set = {i}
    OBVIOUS
  <2>2. SetStatus(set, "RECONCILED") /\ set \in SUBSET Report /\ "RECONCILED" \in Status
    BY <2>1 DEF CountIn, Status
  <2>3. \A j : j \in set <=> j = i
    BY <2>1
  <2>4. /\ reports' \in Seq(Row) /\ Len(reports') = Len(reports) /\ Report' = Report
        /\ \A j \in Report : /\ reports'[j].order = reports[j].order
                             /\ reports'[j].trip = reports[j].trip
                             /\ reports'[j].by = reports[j].by
                             /\ reports'[j].bags = reports[j].bags
                             /\ j \in set => reports'[j].status = "RECONCILED"
                             /\ j \notin set => reports'[j] = reports[j]
    BY <1>1, <2>2, StatusSet
  <2> QED  BY <2>3, <2>4
<1>3. PICK Z : Z = {SizeOf(i)}
  OBVIOUS
<1>4. InPlace(Z)
  <2>1. \A j \in Report : SizeOf(j) \notin Z => j # i
    BY <1>3
  <2> QED  BY <1>2, <2>1 DEF InPlace, CountIn
<1>5. Grown(Z) /\ Order' = Order /\ (\A o : OfOrder(o)' = OfOrder(o)) /\ \A d : OfTrip(d)' = OfTrip(d)
  BY <1>1, <1>4, InPlaceGrown
<1>6. /\ history' \in {Crossed, Lost} \cup Told
      /\ Orderly' => Orderly /\ history' = history /\ Z \cap Touched = {}
  BY <1>1, <1>3, CrossingWhat DEF CountIn
<1>7. call' = call /\ trips' = trips /\ task' = task
  BY DEF CountIn
<1>8. Calls' /\ CallIs'
  BY <1>1, <1>5, <1>7, CallsStill DEF CallIs
<1>9. /\ DOMAIN ship = Report /\ \A j \in Report : ship[j] \in Carried
      /\ DOMAIN reports = 1 .. Len(reports) /\ Len(reports) \in Nat /\ DOMAIN reports = Report
  BY <1>1, Rows DEF Report
<1>10. /\ ship[i].at = "road" /\ ship' = [ship EXCEPT ![i] = [ship[i] EXCEPT !.at = "there"]]
  BY DEF CountIn
<1>11. /\ ship' \in Seq(Carried) /\ Len(ship') = Len(ship)
       /\ \A j \in Report : /\ ship'[j].bags = ship[j].bags
                            /\ ship'[j].at = "farm" <=> ship[j].at = "farm"
  <2>1. ship' = [j \in Report |-> IF j = i THEN [ship[i] EXCEPT !.at = "there"] ELSE ship[j]]
    BY <1>9, <1>10
  <2>2. /\ [ship[i] EXCEPT !.at = "there"] \in Carried
        /\ [ship[i] EXCEPT !.at = "there"].bags = ship[i].bags
        /\ [ship[i] EXCEPT !.at = "there"].at = "there"
    BY <1>9 DEF Carried
  <2>3. ship' \in [1 .. Len(reports) -> Carried]
    BY <1>9, <2>1, <2>2
  <2>4. ship' \in Seq(Carried) /\ Len(ship') = Len(ship)
    BY <1>1, <1>9, <2>3, FunctionIsSeq DEF TypeOK
  <2> QED  BY <1>10, <2>1, <2>2, <2>4
<1>12. TypeOK'
  BY <1>1, <1>4, <1>6, <1>7, <1>8, <1>11, InPlaceType DEF TypeOK
<1>13. ASSUME Orderly' PROVE WorkOK'
  <2>1. ASSUME NEW q \in Request, Working(q)'
        PROVE  Working(q) /\ call'[q] = call[q] /\ call[q].sizes \cap Z = {}
    <3>1. Working(q) /\ call'[q] = call[q]
      BY <1>7, <2>1 DEF Working
    <3>2. call[q].sizes \subseteq Touched
      BY <3>1, TouchedBy
    <3> QED  BY <1>6, <1>13, <3>1, <3>2
  <2> QED  BY <1>1, <1>5, <1>6, <1>13, <2>1, WorkStill DEF IInv
<1>14. ASSUME Orderly PROVE reports[i].status \in Out
  BY <1>1, <1>10, <1>14 DEF WhatLeftStands
<1>15. ASSUME Orderly' PROVE Together'
  <2> SUFFICES ASSUME NEW d \in 1 .. trips \ history.apart, NEW j \in OfTrip(d), NEW k \in OfTrip(d)
               PROVE  \/ reports'[j].status = reports'[k].status
                      \/ {reports'[j].status, reports'[k].status} \subseteq Out
    BY <1>5, <1>6, <1>7, <1>15 DEF Together
  <2>1. j \in Report /\ k \in Report
    BY DEF OfTrip
  <2>2. \/ reports[j].status = reports[k].status
        \/ {reports[j].status, reports[k].status} \subseteq Out
    BY <1>1, <1>6, <1>15 DEF Together
  <2>3. CASE j # i /\ k # i
    BY <1>2, <2>1, <2>2, <2>3
  <2>4. CASE j = i \/ k = i
    <3>1. reports[j].status \in Out /\ reports[k].status \in Out
      BY <1>6, <1>14, <1>15, <2>2, <2>4
    <3> QED  BY <1>2, <2>1, <3>1 DEF Out
  <2> QED  BY <2>3, <2>4
<1>16. ASSUME Orderly' PROVE WhatLeftStands'
  <2> SUFFICES ASSUME NEW j \in Report, ship'[j].at # "farm"
               PROVE  reports'[j].bags = ship'[j].bags /\ reports'[j].status \in Out
    BY <1>2 DEF WhatLeftStands
  <2>1. reports[j].bags = ship[j].bags /\ reports[j].status \in Out
    BY <1>1, <1>6, <1>11, <1>16 DEF WhatLeftStands
  <2>2. reports'[j].status \in Out
    BY <1>2, <2>1 DEF Out
  <2> QED  BY <1>2, <1>11, <2>1, <2>2
<1>17. ASSUME Orderly' PROVE OneCounts'
  <2>1. \A j \in Report : Counts(j)' => Counts(j)
    BY <1>2, <1>6, <1>14, <1>17 DEF Counts, Out
  <2>2. \A j \in Report : reports'[j].status = "REJECTED" => reports[j].status = "REJECTED"
    BY <1>2
  <2> QED  BY <1>1, <1>4, <1>6, <1>17, <2>1, <2>2, OneCountsKept DEF IInv
<1>18. ASSUME Orderly' PROVE TaskOK'
  <2>1. TaskOK
    BY <1>6, <1>18 DEF IInv
  <2>2. reports' # <<>> => reports # <<>>
    BY <1>1, <1>4, InPlaceEmpty
  <2>3. \A q \in Request : Following(q)' <=> Following(q)
    BY <1>7 DEF Following
  <2>4. ASSUME NEW o \in Order, \A j \in OfOrder(o) : ship[j].at = "farm"
        PROVE  o \in Order' /\ \A j \in OfOrder(o)' : ship'[j].at = "farm"
    BY <1>5, <1>11, <2>4 DEF OfOrder
  <2>5. task'.at = "TODO" /\ reports' # <<>> /\ ~task'.byHand
           => \E q \in Request : Following(q)' /\ call'[q].op # "approve"
    BY <1>7, <2>1, <2>2, <2>3 DEF TaskOK
  <2>6. task'.at \notin {"NONE", "COMPLETED"} /\ ~task'.byHand =>
          \/ \E o \in Order' : \A j \in OfOrder(o)' : ship'[j].at = "farm"
          \/ \E q \in Request : Following(q)' /\ call'[q].op = "approve"
    BY <1>7, <2>1, <2>3, <2>4 DEF TaskOK
  <2> QED  BY <1>7, <2>1, <2>5, <2>6 DEF TaskOK
<1> QED  BY <1>12, <1>13, <1>15, <1>16, <1>17, <1>18 DEF IInv, Together, WhatLeftStands
\* Steps that leave orders, reports and shipments alone.
StillRows == UNCHANGED <<orders, reports, ship, trips>>

LEMMA StillKept ==
  ASSUME TypeOK, WhatLeftStands, StillRows
  PROVE  /\ Grown({}) /\ InPlace({}) /\ Order' = Order /\ (\A o : OfOrder(o)' = OfOrder(o))
         /\ Orderly /\ history' = history /\ Together => Together'
         /\ Orderly /\ history' = history => WhatLeftStands'
         /\ OneCounts /\ history' = history => OneCounts'
<1>1. InPlace({}) /\ trips' = trips /\ Report' = Report
  BY DEF StillRows, InPlace, TypeOK, Report
<1>2. Grown({}) /\ Order' = Order /\ (\A o : OfOrder(o)' = OfOrder(o)) /\ \A d : OfTrip(d)' = OfTrip(d)
  BY <1>1, InPlaceGrown
<1>3. ASSUME Orderly, history' = history, Together PROVE Together'
  BY <1>1, <1>2, <1>3 DEF Together, StillRows
<1>4. ASSUME Orderly, history' = history PROVE WhatLeftStands'
  BY <1>1, <1>4 DEF WhatLeftStands, StillRows
<1>5. ASSUME OneCounts, history' = history PROVE OneCounts'
  <2>1. \A i \in Report : Counts(i)' => Counts(i)
    BY DEF Counts, StillRows
  <2>2. \A i \in Report : reports'[i].status = "REJECTED" => reports[i].status = "REJECTED"
    BY DEF StillRows
  <2> QED  BY <1>1, <1>5, <2>1, <2>2, OneCountsKept
<1> QED  BY <1>1, <1>2, <1>3, <1>4, <1>5

\* What ends without a transaction takes nothing from the others.
LEMMA EndStill ==
  ASSUME IInv, NEW r \in Request, call[r] # Idle, Finish(r), StillRows,
         task' \in {NoTask} \cup Task,
         history' \in {Crossed, Lost} \cup Told,
         Orderly' => Orderly /\ history' = history,
         Orderly' => TaskOK'
  PROVE  IInv'
<1>1. TypeOK /\ Together /\ WhatLeftStands /\ CallIs
  BY DEF IInv, TypeOK, CallIs
<1>2. /\ CallIs' /\ call'[r] = Idle
      /\ \A q \in Request : q # r => call'[q] = call[q]
  BY <1>1 DEF Finish, CallIs
<1>3. Grown({}) /\ InPlace({})
  BY <1>1, StillKept
<1>4. Calls'
  BY <1>1, <1>2, <1>3, CallsStill
<1>5. TypeOK'
  BY <1>1, <1>2, <1>3, <1>4, InPlaceType DEF StillRows, TypeOK
<1>6. ASSUME Orderly' PROVE WorkOK'
  <2>1. \A q \in Request : Working(q)' => Working(q) /\ call'[q] = call[q] /\ call[q].sizes \cap {} = {}
    BY <1>2 DEF Working
  <2> QED  BY <1>1, <1>3, <1>6, <2>1, WorkStill DEF IInv
<1>7. Orderly' => Together' /\ WhatLeftStands' /\ OneCounts'
  BY <1>1, StillKept DEF IInv
<1> QED  BY <1>5, <1>6, <1>7 DEF IInv, Together, WhatLeftStands

\* A follow-up: the task is done once every order has a report that is out.
LEMMA FollowUpStep ==
  ASSUME IInv, NEW r \in Request, FollowUp(r)
  PROVE  IInv'
<1>1. TypeOK /\ WhatLeftStands /\ CallIs
  BY DEF IInv, TypeOK, CallIs
<1>2. call[r] # Idle /\ Finish(r) /\ StillRows /\ history' = history
  BY DEF FollowUp, StillRows
<1>3. /\ call'[r] = Idle
      /\ \A q \in Request : q # r => call'[q] = call[q]
  BY <1>1, <1>2 DEF Finish, CallIs
<1>4. Orderly' => Orderly
  BY <1>2 DEF Orderly
<1>5. /\ task \in {NoTask} \cup Task /\ task' \in {NoTask} \cup Task
      /\ Closes(r) => task'.at = "COMPLETED"
      /\ ~Closes(r) /\ Starts(r) => task'.at = "IN_PROGRESS" /\ task'.byHand = task.byHand
      /\ ~Closes(r) /\ ~Starts(r) => task' = task
  <2>1. task \in {NoTask} \cup Task
    BY <1>1 DEF TypeOK
  <2>2. task # NoTask => task \in [at : TaskStatus, by : User, byHand : BOOLEAN]
    BY <2>1 DEF Task
  <2>3. CASE Closes(r)
    <3>1. task # NoTask /\ task' = [task EXCEPT !.at = "COMPLETED", !.byHand = FALSE]
      BY <2>3 DEF FollowUp, Closes, NoTask
    <3> QED  BY <2>1, <2>2, <2>3, <3>1 DEF Task, TaskStatus
  <2>4. CASE ~Closes(r) /\ Starts(r)
    <3>1. task # NoTask /\ task' = [task EXCEPT !.at = "IN_PROGRESS"]
      BY <2>4 DEF FollowUp, Starts, NoTask
    <3> QED  BY <2>1, <2>2, <2>4, <3>1 DEF Task, TaskStatus
  <2>5. CASE ~Closes(r) /\ ~Starts(r)
    BY <2>1, <2>5 DEF FollowUp
  <2> QED  BY <2>3, <2>4, <2>5
<1>6. ASSUME Orderly' PROVE TaskOK'
  <2>1. TaskOK
    BY <1>4, <1>6 DEF IInv
  <2>2. \A q \in Request : q # r /\ Following(q) => Following(q)' /\ call'[q] = call[q]
    BY <1>3 DEF Following
  <2>3. ASSUME task'.at = "TODO", reports # <<>>, ~task'.byHand
        PROVE  \E q \in Request : Following(q)' /\ call'[q].op # "approve"
    <3>1. call[r].op = "approve" /\ task.at = "TODO" /\ ~task.byHand
      BY <1>5, <2>3 DEF Starts
    <3>2. PICK q \in Request : Following(q) /\ call[q].op # "approve"
      BY <2>1, <2>3, <3>1 DEF TaskOK
    <3> QED  BY <2>2, <3>1, <3>2
  <2>4. ASSUME task'.at \notin {"NONE", "COMPLETED"}, ~task'.byHand
        PROVE  \/ \E o \in Order' : \A i \in OfOrder(o)' : ship'[i].at = "farm"
               \/ \E q \in Request : Following(q)' /\ call'[q].op = "approve"
    <3>1. Order' = Order /\ (\A o : OfOrder(o)' = OfOrder(o)) /\ ship' = ship
      BY <1>1, <1>2, StillKept DEF StillRows
    <3>2. CASE call[r].op = "approve"
      <4>0. task' = task /\ ~Closes(r) /\ task \in Task
        BY <1>5, <2>4, <3>2 DEF Starts, NoTask
      <4>1. ~AllOut
        BY <2>1, <2>4, <3>2, <4>0 DEF Closes, TaskOK, Task, TaskStatus
      <4>2. PICK o \in Order : \A i \in OfOrder(o) : reports[i].status \notin Out
        BY <4>1 DEF AllOut
      <4>3. \A i \in OfOrder(o) : ship[i].at = "farm"
        BY <1>1, <1>4, <1>6, <4>2 DEF WhatLeftStands, OfOrder
      <4> QED  BY <3>1, <4>3
    <3>3. CASE call[r].op # "approve"
      <4>1. task.at \notin {"NONE", "COMPLETED"} /\ ~task.byHand
        BY <1>5, <2>4, <3>3 DEF Closes, Starts
      <4>2. \/ \E o \in Order : \A i \in OfOrder(o) : ship[i].at = "farm"
            \/ \E q \in Request : Following(q) /\ call[q].op = "approve"
        BY <2>1, <4>1 DEF TaskOK
      <4> QED  BY <2>2, <3>1, <3>3, <4>2
    <3> QED  BY <3>2, <3>3
  <2>5. task'.at = "CANCELLED" => task'.byHand
    BY <1>5, <2>1 DEF TaskOK
  <2> QED  BY <1>2, <2>3, <2>4, <2>5 DEF TaskOK, StillRows
<1>7. task' \in {NoTask} \cup Task
  BY <1>5
<1>8. history' \in {Crossed, Lost} \cup Told
  BY <1>1, <1>2 DEF TypeOK
<1> QED  BY <1>2, <1>4, <1>6, <1>7, <1>8, EndStill

\* A failure: if it loses a follow-up, the history is no longer told.
LEMMA FailStep ==
  ASSUME IInv, NEW r \in Request, Fail(r)
  PROVE  IInv'
<1>1. TypeOK /\ WhatLeftStands /\ CallIs
  BY DEF IInv, TypeOK, CallIs
<1>2. call[r] # Idle /\ Finish(r) /\ StillRows /\ task' = task
  BY DEF Fail, StillRows
<1>3. history' \in {Crossed, Lost} \cup Told
  BY <1>1 DEF Fail, TypeOK
<1>4. Orderly' => Orderly /\ history' = history /\ call[r].step # 2
  BY DEF Fail, Orderly
<1>5. ASSUME Orderly' PROVE TaskOK'
  <2>1. \A q \in Request : Following(q) => Following(q)' /\ call'[q] = call[q]
    BY <1>1, <1>2, <1>4, <1>5 DEF Following, Finish, CallIs
  <2>2. Order' = Order /\ (\A o : OfOrder(o)' = OfOrder(o)) /\ ship' = ship /\ reports' = reports
    BY <1>1, <1>2, StillKept DEF StillRows
  <2>3. TaskOK
    BY <1>4, <1>5 DEF IInv
  <2>4. task'.at = "TODO" /\ reports' # <<>> /\ ~task'.byHand
           => \E q \in Request : Following(q)' /\ call'[q].op # "approve"
    BY <1>2, <2>1, <2>2, <2>3 DEF TaskOK
  <2>5. task'.at \notin {"NONE", "COMPLETED"} /\ ~task'.byHand =>
          \/ \E o \in Order' : \A i \in OfOrder(o)' : ship'[i].at = "farm"
          \/ \E q \in Request : Following(q)' /\ call'[q].op = "approve"
    BY <1>2, <2>1, <2>2, <2>3 DEF TaskOK
  <2> QED  BY <1>2, <2>3, <2>4, <2>5 DEF TaskOK
<1>6. task' \in {NoTask} \cup Task
  BY <1>1, <1>2 DEF TypeOK
<1> QED  BY <1>2, <1>3, <1>4, <1>5, <1>6, EndStill
-----------------------------------------------------------------------------
(* Requests that pass their checks.                                        *)

\* What was checked holds, and nobody else works on these sizes, or the
\* history tells of it.
LEMMA BeginStep ==
  ASSUME IInv, NEW r \in Request, call[r] = Idle, NEW c, c.op \in Op, c.step = 1,
         AimOK(c), Orderly => ReadStill(c), Begin(r, c)
  PROVE  IInv'
<1>1. TypeOK /\ Together /\ WhatLeftStands /\ CallIs
  BY DEF IInv, TypeOK, CallIs
<1>2. /\ CallIs' /\ call'[r] = c
      /\ \A q \in Request : q # r => call'[q] = call[q]
  BY <1>1 DEF Begin, CallIs
<1>3. StillRows /\ task' = task
  BY DEF Begin, StillRows
<1>4. Grown({}) /\ InPlace({})
  BY <1>1, <1>3, StillKept
<1>5. /\ history' \in {Crossed, Lost} \cup Told
      /\ Orderly' => Orderly /\ history' = history /\ c.sizes \cap Touched = {}
  BY <1>1, CrossingWhat DEF Begin
<1>6. ASSUME NEW q \in Request, call'[q] # Idle
      PROVE  /\ call'[q].op \in Op /\ call'[q].step \in {1, 2}
             /\ call'[q].step = 1 => AimOK(call[q])'
  <2>1. PICK d : d = call'[q]
    OBVIOUS
  <2>2. d.op \in Op /\ d.step \in {1, 2} /\ (d.step = 1 => AimOK(d))
    <3>1. CASE q = r
      BY <1>2, <2>1, <3>1
    <3>2. CASE q # r
      BY <1>1, <1>2, <1>6, <2>1, <3>2 DEF TypeOK
    <3> QED  BY <3>1, <3>2
  <2>3. d.step = 1 => AimOK(d)'
    BY <1>1, <1>4, <2>2, AimKept
  <2>4. d.step = 1 => AimOK(call[q])'
    BY <2>1, <2>3 DEF AimOK
  <2> QED  BY <2>1, <2>2, <2>4
<1>7. TypeOK'
  <2>1. Calls'
    BY <1>6 DEF Calls
  <2> QED  BY <1>1, <1>2, <1>3, <1>4, <1>5, <2>1, InPlaceType DEF StillRows, TypeOK
<1>8. ASSUME Orderly' PROVE WorkOK'
  <2>1. Orderly /\ WorkOK /\ ReadStill(c) /\ c.sizes \cap Touched = {}
    BY <1>5, <1>8 DEF IInv
  <2>2. ASSUME NEW q \in Request, q # r, Working(q)'
        PROVE  Working(q) /\ call'[q] = call[q] /\ call[q].sizes \cap c.sizes = {}
    <3>1. Working(q) /\ call'[q] = call[q]
      BY <1>2, <2>2 DEF Working
    <3>2. call[q].sizes \subseteq Touched
      BY <3>1, TouchedBy
    <3> QED  BY <2>1, <3>1, <3>2
  <2>3. ASSUME NEW p \in Request, NEW q \in Request, p # q, Working(p)', Working(q)'
        PROVE  call'[p].sizes \cap call'[q].sizes = {}
    <3>1. CASE p = r
      BY <1>2, <2>2, <2>3, <3>1
    <3>2. CASE q = r
      BY <1>2, <2>2, <2>3, <3>2
    <3>3. CASE p # r /\ q # r
      BY <2>1, <2>2, <2>3, <3>3 DEF WorkOK
    <3> QED  BY <3>1, <3>2, <3>3
  <2>4. ASSUME NEW q \in Request, Working(q)'
        PROVE  ReadStill(call[q])'
    <3>1. PICK d : d = call'[q]
      OBVIOUS
    <3>2. d.op \in Op /\ AimOK(d) /\ ReadStill(d)
      <4>1. CASE q = r
        BY <1>2, <2>1, <3>1, <4>1
      <4>2. CASE q # r
        BY <1>1, <2>1, <2>2, <2>4, <3>1, <4>2 DEF TypeOK, Working, WorkOK
      <4> QED  BY <4>1, <4>2
    <3>3. d.sizes \cap {} = {}
      OBVIOUS
    <3>4. ReadStill(d)'
      BY <1>1, <1>4, <3>2, <3>3, ReadKept
    <3> QED  BY <3>1, <3>4 DEF ReadStill
  <2> QED  BY <2>3, <2>4 DEF WorkOK
<1>9. ASSUME Orderly' PROVE TaskOK'
  <2>1. \A q \in Request : Following(q) => Following(q)' /\ call'[q] = call[q]
    BY <1>2 DEF Following
  <2>2. Order' = Order /\ (\A o : OfOrder(o)' = OfOrder(o)) /\ ship' = ship /\ reports' = reports
    BY <1>1, <1>3, StillKept DEF StillRows
  <2>3. TaskOK
    BY <1>5, <1>9 DEF IInv
  <2>4. task'.at = "TODO" /\ reports' # <<>> /\ ~task'.byHand
           => \E q \in Request : Following(q)' /\ call'[q].op # "approve"
    BY <1>3, <2>1, <2>2, <2>3 DEF TaskOK
  <2>5. task'.at \notin {"NONE", "COMPLETED"} /\ ~task'.byHand =>
          \/ \E o \in Order' : \A i \in OfOrder(o)' : ship'[i].at = "farm"
          \/ \E q \in Request : Following(q)' /\ call'[q].op = "approve"
    BY <1>3, <2>1, <2>2, <2>3 DEF TaskOK
  <2> QED  BY <1>3, <2>3, <2>4, <2>5 DEF TaskOK
<1>10. Orderly' => Together' /\ WhatLeftStands' /\ OneCounts'
  BY <1>1, <1>3, <1>5, StillKept DEF IInv
<1> QED  BY <1>7, <1>8, <1>9, <1>10 DEF IInv, Together, WhatLeftStands

LEMMA BeginLoadStep ==
  ASSUME IInv, NEW r \in Request, CanBegin(r), NEW u \in User,
         NEW some \in SUBSET Size, NEW line \in [some -> 0 .. Len(orders)], NEW submit \in BOOLEAN,
         BeginLoad(r, u, line, submit)
  PROVE  IInv'
<1> DEFINE c == [op |-> "load", step |-> 1, by |-> u, sizes |-> DOMAIN line, line |-> line,
                 submit |-> submit]
<1>1. call[r] = Idle /\ TypeOK
  BY DEF CanBegin, IInv
<1>2. DOMAIN line = some
  OBVIOUS
<1>3. \A s \in some : line[s] # 0 => line[s] \in Order /\ orders[line[s]] = s /\ ~UnderWay(line[s])
  BY <1>2 DEF BeginLoad
<1>4. AimOK(c)
  <2>1. line \in [some -> {0} \cup Order]
    BY <1>3
  <2> QED  BY <1>2, <1>3, <2>1 DEF AimOK
<1>5. ReadStill(c)
  BY <1>2, <1>3 DEF ReadStill
<1>6. c.op \in Op /\ c.step = 1
  BY DEF Op
<1>7. Begin(r, c)
  BY DEF BeginLoad
<1> HIDE DEF c
<1> QED  BY <1>1, <1>4, <1>5, <1>6, <1>7, BeginStep

LEMMA BeginReportStep ==
  ASSUME IInv, NEW r \in Request, CanBegin(r), NEW u \in User, NEW o \in Order, BeginReport(r, u, o)
  PROVE  IInv'
<1> DEFINE c == [op |-> "report", step |-> 1, by |-> u, sizes |-> {orders[o]}, order |-> o]
<1>1. call[r] = Idle /\ TypeOK
  BY DEF CanBegin, IInv
<1>2. orders[o] \in Size
  BY <1>1, Rows
<1>3. AimOK(c)
  BY <1>2 DEF AimOK
<1>4. ReadStill(c) /\ c.op \in Op /\ c.step = 1
  BY DEF ReadStill, Op
<1>5. Begin(r, c)
  BY DEF BeginReport
<1> HIDE DEF c
<1> QED  BY <1>1, <1>3, <1>4, <1>5, BeginStep

\* The requests about a report, or about all reports of a dispatch.
LEMMA BeginOnStep ==
  ASSUME IInv, NEW r \in Request, CanBegin(r), NEW op \in {"submit", "approve", "reject", "edit"},
         NEW u, NEW d \in 0 .. trips, NEW set \in SUBSET Report, d # 0 => set = OfTrip(d),
         op \in {"submit", "edit"} => \A i \in set : Editable(i),
         op \in {"approve", "reject"} => \A i \in set : InReview(i),
         BeginOn(r, op, u, d, set)
  PROVE  IInv'
<1> DEFINE c == [op |-> op, step |-> 1, by |-> u, sizes |-> {SizeOf(i) : i \in set}, on |-> set,
                 trip |-> d, bags |-> [i \in set |-> reports[i].bags]]
<1>1. call[r] = Idle /\ TypeOK
  BY DEF CanBegin, IInv
<1>2. \A i \in Report : SizeOf(i) \in Size /\ reports[i].bags \in Nat
  BY <1>1, Rows, StatusOfRow
<1>3. c.op = op /\ c.step = 1 /\ c.sizes = {SizeOf(i) : i \in set} /\ c.on = set /\ c.trip = d
  OBVIOUS
<1>4. c.bags \in [set -> Nat] /\ \A i \in set : c.bags[i] = reports[i].bags
  BY <1>2
<1>5. Begin(r, c)
  BY DEF BeginOn
<1> HIDE DEF c
<1>6. AimOK(c)
  BY <1>2, <1>3, <1>4 DEF AimOK
<1>7. ReadStill(c)
  BY <1>3, <1>4 DEF ReadStill
<1>8. c.op \in Op
  BY <1>3 DEF Op
<1> QED  BY <1>1, <1>3, <1>5, <1>6, <1>7, <1>8, BeginStep

LEMMA SubjectIs ==
  ASSUME TypeOK, NEW on \in Subjects
  PROVE  on[1] \in 0 .. trips /\ on[2] \in SUBSET Report /\ (on[1] # 0 => on[2] = OfTrip(on[1]))
<1>1. trips \in Nat
  BY DEF TypeOK
<1>2. CASE on \in {<<0, {i}>> : i \in Report}
  BY <1>1, <1>2
<1>3. CASE on \in {<<d, OfTrip(d)>> : d \in 1 .. trips}
  <2>1. PICK d \in 1 .. trips : on = <<d, OfTrip(d)>>
    BY <1>3
  <2>2. OfTrip(d) \subseteq Report
    BY DEF OfTrip
  <2> QED  BY <1>1, <2>1, <2>2
<1> QED  BY <1>2, <1>3 DEF Subjects

LEMMA PrepareStep ==
  ASSUME IInv, NEW r \in Request, CanBegin(r), NEW u \in Loaders, Prepare(r, u)
  PROVE  IInv'
<1>1. TypeOK /\ u \in User
  BY BoundAssumption DEF IInv, Loaders
<1>2. CASE \E some \in SUBSET Size \ {{}}, submit \in BOOLEAN :
              \E line \in [some -> 0 .. Len(orders)] : BeginLoad(r, u, line, submit)
  <2>1. PICK some \in SUBSET Size, submit \in BOOLEAN :
              \E line \in [some -> 0 .. Len(orders)] : BeginLoad(r, u, line, submit)
    BY <1>2
  <2>2. PICK line \in [some -> 0 .. Len(orders)] : BeginLoad(r, u, line, submit)
    BY <2>1
  <2> QED  BY <1>1, <2>2, BeginLoadStep
<1>3. CASE \E o \in Order : BeginReport(r, u, o)
  BY <1>1, <1>3, BeginReportStep
<1>4. CASE \E on \in Subjects : BeginSubmit(r, u, on[1], on[2])
  <2>1. PICK on \in Subjects : BeginSubmit(r, u, on[1], on[2])
    BY <1>4
  <2>2. PICK d, set : d = on[1] /\ set = on[2]
    OBVIOUS
  <2>3. d \in 0 .. trips /\ set \in SUBSET Report /\ (d # 0 => set = OfTrip(d))
    BY <1>1, <2>2, SubjectIs
  <2>4. BeginOn(r, "submit", u, d, set) /\ \A i \in set : Editable(i)
    BY <2>1, <2>2 DEF BeginSubmit, Editable, EDITABLE_STATUSES
  <2> QED  BY <2>3, <2>4, BeginOnStep
<1>5. CASE \E i \in Report : BeginEdit(r, u, i)
  <2>1. PICK i \in Report : BeginEdit(r, u, i)
    BY <1>5
  <2>2. PICK d, set : d = 0 /\ set = {i}
    OBVIOUS
  <2>3. d \in 0 .. trips /\ set \in SUBSET Report /\ (d # 0 => set = OfTrip(d))
    BY <1>1, <2>2 DEF TypeOK
  <2>4. BeginOn(r, "edit", u, d, set) /\ \A j \in set : Editable(j)
    BY <2>1, <2>2 DEF BeginEdit
  <2> QED  BY <2>3, <2>4, BeginOnStep
<1> QED  BY <1>2, <1>3, <1>4, <1>5 DEF Prepare

LEMMA DecideStep ==
  ASSUME IInv, NEW r \in Request, CanBegin(r), Decide(r)
  PROVE  IInv'
<1>1. TypeOK
  BY DEF IInv
<1>2. PICK op \in {"approve", "reject"}, on \in Subjects :
          \E u \in Deciders[op] : BeginDecide(r, op, u, on[1], on[2])
  BY DEF Decide
<1>3. PICK u \in Deciders[op] : BeginDecide(r, op, u, on[1], on[2])
  BY <1>2
<1>4. PICK d, set : d = on[1] /\ set = on[2]
  OBVIOUS
<1>5. d \in 0 .. trips /\ set \in SUBSET Report /\ (d # 0 => set = OfTrip(d))
  BY <1>1, <1>4, SubjectIs
<1>6. BeginOn(r, op, u, d, set) /\ \A i \in set : InReview(i)
  BY <1>3, <1>4 DEF BeginDecide
<1> QED  BY <1>5, <1>6, BeginOnStep
-----------------------------------------------------------------------------
(* The transactions that make orders and reports.                          *)

LEMMA SizesFinite ==
  ASSUME NEW sizes \in SUBSET Size
  PROVE  IsFiniteSet(sizes)
BY BoundAssumption, FS_Subset

\* The first orders, one per size; there is no report yet.
LEMMA AskStep ==
  ASSUME IInv, NEW u \in User, NEW sizes \in SUBSET Size, Ask(u, sizes)
  PROVE  IInv'
<1>1. TypeOK /\ Together /\ WhatLeftStands /\ CallIs
  BY DEF IInv, TypeOK, CallIs
<1>2. /\ orders = <<>> /\ sizes # {} /\ orders' = SetToSeq(sizes)
      /\ reports' = reports /\ ship' = ship /\ trips' = trips /\ call' = call /\ history' = history
      /\ task' \in {NoTask} \cup Task /\ task'.at \in {"NONE", "TODO"}
  BY DEF Ask, NoTask, Task, TaskStatus
<1>3. Order = {} /\ Report = {} /\ reports = <<>>
  <2>1. Order = {}
    BY <1>2 DEF Order
  <2>2. Report = {}
    BY <1>1, <2>1, Rows
  <2>3. reports \in Seq(Row)
    BY <1>1 DEF TypeOK
  <2> QED  BY <2>1, <2>2, <2>3, EmptySeq, LenProperties DEF Report
<1>4. orders' \in Seq(Size) /\ Order' # {}
  <2>1. IsFiniteSet(sizes)
    BY SizesFinite
  <2>2. /\ SetToSeq(sizes) \in [1 .. Cardinality(sizes) -> sizes] /\ Cardinality(sizes) \in Nat
        /\ \A x \in sizes : \E k \in DOMAIN SetToSeq(sizes) : SetToSeq(sizes)[k] = x
    BY <2>1, ListOf
  <2>3. SetToSeq(sizes) \in [1 .. Cardinality(sizes) -> Size]
    BY <2>2
  <2>4. SetToSeq(sizes) \in Seq(Size)
    BY <2>2, <2>3, FunctionIsSeq
  <2> QED  BY <1>2, <2>2, <2>4 DEF Order
<1>5. Report' = {} /\ Grown({})
  BY <1>1, <1>2, <1>3 DEF Grown, Report, TypeOK
<1>6. Calls'
  BY <1>1, <1>2, <1>5, CallsStill
<1>7. TypeOK'
  BY <1>1, <1>2, <1>4, <1>5, <1>6 DEF TypeOK, Calls
<1>8. Orderly' => Orderly
  BY <1>2 DEF Orderly
<1>9. ASSUME Orderly' PROVE WorkOK'
  <2>1. \A q \in Request : Working(q)' => Working(q) /\ call'[q] = call[q] /\ call[q].sizes \cap {} = {}
    BY <1>2 DEF Working
  <2> QED  BY <1>1, <1>5, <1>8, <1>9, <2>1, WorkStill DEF IInv
<1>10. Together' /\ WhatLeftStands' /\ OneCounts'
  BY <1>5 DEF Together, WhatLeftStands, OneCounts, OfTrip, OfOrder
<1>11. TaskOK'
  BY <1>2, <1>3, <1>4, <1>5 DEF TaskOK, OfOrder
<1> QED  BY <1>7, <1>9, <1>10, <1>11 DEF IInv

LEMMA Appended ==
  ASSUME TypeOK, NEW old, old \in Seq(Row), Len(old) = Len(reports), NEW rows, rows \in Seq(Row),
         reports' = old \o rows, Unshipped(rows)
  PROVE  /\ reports' \in Seq(Row) /\ ship' \in Seq(Carried) /\ Len(ship') = Len(reports')
         /\ Report \subseteq Report'
         /\ \A i \in Report : reports'[i] = old[i] /\ ship'[i] = ship[i]
         /\ \A i \in Report' \ Report :
               /\ ship'[i].at = "farm"
               /\ \E k \in DOMAIN rows : i = Len(reports) + k /\ reports'[i] = rows[k]
<1>1. /\ ship \in Seq(Carried) /\ Len(ship) = Len(reports) /\ DOMAIN ship = Report
      /\ DOMAIN reports = 1 .. Len(reports) /\ Len(reports) \in Nat
  BY Rows DEF TypeOK
<1>2. DOMAIN old = Report
  BY <1>1, LenProperties DEF Report
<1>3. DOMAIN rows = 1 .. Len(rows) /\ Len(rows) \in Nat
  BY LenProperties
<1> DEFINE none == [k \in DOMAIN rows |-> NoShip]
<1>4. none \in Seq(Carried) /\ Len(none) = Len(rows) /\ DOMAIN none = DOMAIN rows
  <2>1. NoShip \in Carried
    BY DEF NoShip, Carried
  <2>2. none \in [1 .. Len(rows) -> Carried]
    BY <1>3, <2>1
  <2> QED  BY <1>3, <2>2, FunctionIsSeq
<1>5. \A k \in DOMAIN rows : none[k] = NoShip
  OBVIOUS
<1>6. ship' = ship \o none
  BY DEF Unshipped
<1> HIDE DEF none
<1>7. PICK n \in Nat, m \in Nat : n = Len(reports) /\ m = Len(rows)
  BY <1>1, <1>3
<1>8. Report = 1 .. n /\ DOMAIN rows = 1 .. m /\ Len(old) = n /\ Len(ship) = n /\ Len(none) = m
  BY <1>1, <1>3, <1>4, <1>7 DEF Report
<1>9. /\ reports' \in Seq(Row) /\ Len(reports') = n + m
      /\ \A i \in 1 .. n : reports'[i] = old[i]
      /\ \A k \in 1 .. m : reports'[n + k] = rows[k]
  <2>1. old \o rows \in Seq(Row) /\ Len(old \o rows) = Len(old) + Len(rows)
    BY ConcatProperties
  <2>2. \A i \in 1 .. Len(old) + Len(rows) :
            (old \o rows)[i] = IF i <= Len(old) THEN old[i] ELSE rows[i - Len(old)]
    BY ConcatProperties
  <2>3. PICK cat : cat = old \o rows
    OBVIOUS
  <2>4. cat \in Seq(Row) /\ Len(cat) = n + m /\ reports' = cat
    BY <2>1, <2>3, <1>7, <1>8
  <2>5. \A i \in 1 .. n + m : cat[i] = IF i <= n THEN old[i] ELSE rows[i - n]
    BY <2>2, <2>3, <1>7, <1>8
  <2>6. \A i \in 1 .. n : cat[i] = old[i]
    BY <2>5
  <2>7. ASSUME NEW k \in 1 .. m PROVE cat[n + k] = rows[k]
    <3>1. n + k \in 1 .. n + m /\ ~(n + k <= n) /\ n + k - n = k
      OBVIOUS
    <3> QED  BY <2>5, <3>1
  <2> QED  BY <2>4, <2>6, <2>7
<1>10. /\ ship' \in Seq(Carried) /\ Len(ship') = n + m
       /\ \A i \in 1 .. n : ship'[i] = ship[i]
       /\ \A i \in 1 .. n + m : i > n => ship'[i] = NoShip
  <2>1. ship \o none \in Seq(Carried) /\ Len(ship \o none) = Len(ship) + Len(none)
    BY <1>1, <1>4, ConcatProperties
  <2>2. \A i \in 1 .. Len(ship) + Len(none) :
            (ship \o none)[i] = IF i <= Len(ship) THEN ship[i] ELSE none[i - Len(ship)]
    BY <1>1, <1>4, ConcatProperties
  <2>3. PICK cat : cat = ship \o none
    OBVIOUS
  <2>4. cat \in Seq(Carried) /\ Len(cat) = n + m /\ ship' = cat
    BY <2>1, <2>3, <1>6, <1>8
  <2>5. \A i \in 1 .. n + m : cat[i] = IF i <= n THEN ship[i] ELSE none[i - n]
    BY <2>2, <2>3, <1>6, <1>8
  <2>6. \A i \in 1 .. n : cat[i] = ship[i]
    BY <2>5
  <2>7. ASSUME NEW i \in 1 .. n + m, i > n PROVE cat[i] = NoShip
    <3>1. ~(i <= n) /\ i - n \in 1 .. m
      BY <2>7
    <3>2. cat[i] = none[i - n]
      BY <2>5, <3>1
    <3>3. none[i - n] = NoShip
      BY <1>5, <1>8, <3>1
    <3> QED  BY <3>2, <3>3
  <2> QED  BY <2>4, <2>6, <2>7
<1>11. /\ Report \subseteq Report'
       /\ \A i \in Report' : i \in Report \/ \E k \in 1 .. m : i = n + k
  <2>1. Report' = 1 .. n + m
    BY <1>9, LenProperties DEF Report
  <2> QED  BY <1>8, <2>1, Beyond
<1>12. ASSUME NEW i \in Report' \ Report
       PROVE  /\ ship'[i].at = "farm"
              /\ \E k \in DOMAIN rows : i = Len(reports) + k /\ reports'[i] = rows[k]
  <2>1. PICK k \in 1 .. m : i = n + k
    BY <1>11
  <2>2. reports'[i] = rows[k]
    BY <1>9, <2>1
  <2>3. ship'[i] = NoShip
    <3>1. i \in 1 .. n + m /\ i > n
      BY <2>1
    <3> QED  BY <1>10, <3>1
  <2>4. k \in DOMAIN rows /\ i = Len(reports) + k
    BY <1>7, <1>8, <2>1
  <2>5. ship'[i].at = "farm"
    BY <2>3 DEF NoShip
  <2> QED  BY <2>2, <2>4, <2>5
<1> QED  BY <1>9, <1>10, <1>11, <1>12, <1>8

\* New reports have not left, and those that left are not touched.
LEMMA AppendedStands ==
  ASSUME WhatLeftStands, Orderly, Report \subseteq Report',
         \A i \in Report : ship'[i] = ship[i],
         \A i \in Report : reports'[i] = reports[i] \/ reports[i].status \notin Out,
         \A i \in Report' \ Report : ship'[i].at = "farm"
  PROVE  WhatLeftStands'
<1> SUFFICES ASSUME NEW i \in Report', ship'[i].at # "farm"
             PROVE  reports'[i].bags = ship'[i].bags /\ reports'[i].status \in Out
  BY DEF WhatLeftStands
<1>1. i \in Report
  OBVIOUS
<1>2. ship[i].at # "farm" /\ ship'[i] = ship[i]
  BY <1>1
<1>3. reports[i].bags = ship[i].bags /\ reports[i].status \in Out
  BY <1>1, <1>2 DEF WhatLeftStands
<1> QED  BY <1>1, <1>2, <1>3

\* A single report: its order is one that single reports have to do with.
LEMMA ReportStep ==
  ASSUME IInv, NEW r \in Request, CommitReport(r)
  PROVE  IInv'
<1>1. TypeOK /\ Together /\ WhatLeftStands /\ CallIs
  BY DEF IInv, TypeOK, CallIs
<1>2. Working(r) /\ call[r].op = "report"
  BY DEF CommitReport, At, Working, Idle
<1>3. /\ Ends(r) /\ call'[r] # Idle /\ call'[r].op # "approve"
  <2>1. call' = [call EXCEPT ![r] = [op |-> "report", step |-> 2]]
    BY <1>2 DEF CommitReport, ToFollowUp
  <2>2. [op |-> "report", step |-> 2] # Idle
    BY DEF Idle
  <2> QED  BY <1>1, <2>1, <2>2 DEF Ends, Op, CallIs
<1>4. PICK c : c = call[r]
  OBVIOUS
<1>5. c.by \in User /\ c.order \in Order /\ c.sizes = {orders[c.order]}
  BY <1>1, <1>2, <1>4 DEF TypeOK, Working, AimOK
<1>6. PICK row : row = [order |-> c.order, trip |-> 0, by |-> c.by, bags |-> 1, status |-> "DRAFT"]
  OBVIOUS
<1>7. row \in Row /\ row.order = c.order /\ row.trip = 0 /\ row.status = "DRAFT"
  <2>1. c.order \in Nat
    BY <1>1, <1>5, Rows
  <2> QED  BY <1>5, <1>6, <2>1 DEF Row, Status
<1>8. PICK rows : rows = <<row>>
  OBVIOUS
<1>9. /\ reports' = reports \o rows /\ Unshipped(rows)
      /\ orders' = orders /\ trips' = trips /\ history' = history /\ task' = task
  BY <1>4, <1>6, <1>8 DEF CommitReport, NewReport
<1>10. rows \in Seq(Row) /\ DOMAIN rows = {1} /\ \A k \in DOMAIN rows : rows[k] = row
  BY <1>7, <1>8
<1>11. /\ reports' \in Seq(Row) /\ ship' \in Seq(Carried) /\ Len(ship') = Len(reports')
       /\ Report \subseteq Report'
       /\ \A i \in Report : reports'[i] = reports[i] /\ ship'[i] = ship[i]
       /\ \A i \in Report' \ Report : ship'[i].at = "farm" /\ reports'[i] = row
  <2>1. PICK old : old = reports
    OBVIOUS
  <2>2. old \in Seq(Row) /\ Len(old) = Len(reports) /\ reports' = old \o rows
    BY <1>1, <1>9, <2>1 DEF TypeOK
  <2>3. /\ reports' \in Seq(Row) /\ ship' \in Seq(Carried) /\ Len(ship') = Len(reports')
        /\ Report \subseteq Report'
        /\ \A i \in Report : reports'[i] = old[i] /\ ship'[i] = ship[i]
        /\ \A i \in Report' \ Report :
              /\ ship'[i].at = "farm"
              /\ \E k \in DOMAIN rows : i = Len(reports) + k /\ reports'[i] = rows[k]
    BY <1>1, <1>9, <1>10, <2>2, Appended
  <2> QED  BY <1>10, <2>1, <2>3
<1>12. Order' = Order
  BY <1>9 DEF Order
<1>13. Grown(c.sizes)
  <2>1. trips \in Nat /\ 0 \notin 1 .. trips
    BY <1>1 DEF TypeOK
  <2>2. \A i \in Report' \ Report : reports'[i].trip \notin 1 .. trips /\ reports'[i].status = "DRAFT"
    BY <1>7, <1>11, <2>1
  <2>3. \A i \in Report : reports'[i] = reports[i]
    BY <1>11
  <2>4. Order \subseteq Order' /\ (\A o \in Order : orders'[o] = orders[o]) /\ trips' \in Nat /\ trips <= trips'
    BY <1>9, <1>12, <2>1
  <2> QED  BY <1>11, <2>2, <2>3, <2>4 DEF Grown
<1>14. CallIs' /\ Calls'
  BY <1>1, <1>3, <1>13, EndsWhat, CallsKept
<1>15. TypeOK'
  <2>1. ASSUME NEW i \in Report'
        PROVE  reports'[i].order \in Order' /\ reports'[i].trip \in 0 .. trips'
    <3>1. CASE i \in Report
      BY <1>1, <1>9, <1>11, <1>12, <3>1, Rows
    <3>2. CASE i \notin Report
      <4>1. reports'[i] = row /\ 0 \in 0 .. trips
        BY <1>1, <1>11, <2>1, <3>2 DEF TypeOK
      <4> QED  BY <1>5, <1>7, <1>9, <1>12, <4>1
    <3> QED  BY <3>1, <3>2
  <2> QED  BY <1>1, <1>9, <1>11, <1>14, <2>1 DEF TypeOK, CallIs, Calls
<1>16. Orderly' => Orderly
  BY <1>9 DEF Orderly
<1>17. ASSUME Orderly' PROVE WorkOK'
  BY <1>1, <1>2, <1>3, <1>4, <1>13, <1>16, <1>17, WorkKept DEF IInv
<1>18. ASSUME Orderly' PROVE Together'
  <2>1. trips \in Nat
    BY <1>1 DEF TypeOK
  <2> SUFFICES ASSUME NEW d \in 1 .. trips \ history.apart, NEW i \in OfTrip(d)', NEW j \in OfTrip(d)'
               PROVE  \/ reports'[i].status = reports'[j].status
                      \/ {reports'[i].status, reports'[j].status} \subseteq Out
    BY <1>9 DEF Together
  <2>2. d # 0
    BY <2>1
  <2>3. /\ i \in OfTrip(d) /\ j \in OfTrip(d)
        /\ reports'[i] = reports[i] /\ reports'[j] = reports[j]
    BY <1>7, <1>11, <2>2 DEF OfTrip
  <2> QED  BY <1>1, <1>16, <1>18, <2>3 DEF Together
<1>19. ASSUME Orderly' PROVE WhatLeftStands'
  BY <1>1, <1>11, <1>16, <1>19, AppendedStands
<1>20. ASSUME Orderly' PROVE OneCounts'
  <2>1. OneCounts
    BY <1>16, <1>20 DEF IInv
  <2>2. ASSUME NEW o \in Order' \ history'.sentBack, ~Mixed(o)',
               NEW i \in OfOrder(o)', NEW j \in OfOrder(o)', Counts(i)', Counts(j)'
        PROVE  i = j
    <3>1. \A k \in OfOrder(o)' : reports'[k].trip # 0
      BY <2>2 DEF Mixed
    <3>2. \A k \in OfOrder(o)' : k \in Report /\ k \in OfOrder(o) /\ reports'[k] = reports[k]
      BY <1>7, <1>11, <3>1 DEF OfOrder
    <3>3. OfOrder(o)' = OfOrder(o)
      BY <1>11, <3>2 DEF OfOrder
    <3>4. ~Mixed(o)
      BY <2>2, <3>2, <3>3 DEF Mixed
    <3>5. Counts(i) /\ Counts(j) /\ i \in OfOrder(o) /\ j \in OfOrder(o)
      BY <2>2, <3>2 DEF Counts
    <3> QED  BY <1>9, <1>12, <2>1, <2>2, <3>4, <3>5 DEF OneCounts
  <2>3. \A i \in Report' : reports'[i].status = "REJECTED" => reports'[i].order \in history'.sentBack
    BY <1>7, <1>9, <1>11, <2>1 DEF OneCounts
  <2> QED  BY <2>2, <2>3 DEF OneCounts
<1>21. ASSUME Orderly' PROVE TaskOK'
  <2>1. ASSUME NEW o \in Order, \A i \in OfOrder(o) : ship[i].at = "farm"
        PROVE  o \in Order' /\ \A i \in OfOrder(o)' : ship'[i].at = "farm"
    BY <1>11, <1>12, <2>1 DEF OfOrder
  <2>2. TaskOK
    BY <1>16, <1>21 DEF IInv
  <2>3. task' = task
    BY <1>9
  <2>4. \A o \in Order : /\ o \in Order'
                         /\ (\A i \in OfOrder(o) : ship[i].at = "farm") =>
                                \A i \in OfOrder(o)' : ship'[i].at = "farm"
    <3>1. \A o \in Order : o \in Order'
      BY <1>12
    <3> QED  BY <2>1, <3>1
  <2> QED  BY <1>1, <1>2, <1>3, <2>2, <2>3, <2>4, TaskKept
<1> QED  BY <1>15, <1>17, <1>18, <1>19, <1>20, <1>21 DEF IInv, Together, WhatLeftStands
\* A load: what its transaction makes and replaces.
NewSizes(c) == {s \in c.sizes : c.line[s] = 0}
OrderOf(c, s) ==
    IF c.line[s] # 0 THEN c.line[s]
    ELSE Len(orders) + CHOOSE k \in DOMAIN SetToSeq(NewSizes(c)) : SetToSeq(NewSizes(c))[k] = s
StatusOf(c) == IF c.submit THEN "SUPERVISOR_REVIEW" ELSE "DRAFT"
ReplacedBy(c, i) ==
    /\ reports[i].order \in {c.line[s] : s \in c.sizes} \ {0}
    /\ reports[i].by = c.by /\ reports[i].status = "DRAFT"
OldRows(c) ==
    [i \in Report |-> IF ReplacedBy(c, i) THEN [reports[i] EXCEPT !.status = "CANCELLED"] ELSE reports[i]]
RowsOf(c) ==
    [k \in 1 .. Cardinality(c.sizes) |->
        NewReport(OrderOf(c, SetToSeq(c.sizes)[k]), trips + 1, c.by, StatusOf(c))]
LoadsRows(c) ==
    /\ orders' = orders \o SetToSeq(NewSizes(c))
    /\ reports' = OldRows(c) \o RowsOf(c)
    /\ Unshipped(RowsOf(c))
    /\ trips' = trips + 1
    /\ Apart({reports[i].trip : i \in {i \in Report : ReplacedBy(c, i)}}, {})
    /\ task' = task

LEMMA LoadWhat ==
  ASSUME NEW r \in Request, CommitLoad(r)
  PROVE  LoadsRows(call[r]) /\ At(r, "load") /\ ToFollowUp(r)
BY DEF CommitLoad, LoadsRows, NewSizes, OrderOf, StatusOf, ReplacedBy, OldRows, RowsOf

\* Each size of a load has an order of its size, old or made with it.
LEMMA NewOrders ==
  ASSUME TypeOK, NEW c, AimOK(c), c.op = "load", orders' = orders \o SetToSeq(NewSizes(c))
  PROVE  /\ orders' \in Seq(Size) /\ Order \subseteq Order'
         /\ \A o \in Order : orders'[o] = orders[o]
         /\ \A s \in c.sizes : /\ OrderOf(c, s) \in Order' /\ OrderOf(c, s) \in Nat
                               /\ orders'[OrderOf(c, s)] = s
                               /\ c.line[s] # 0 => OrderOf(c, s) = c.line[s]
                               /\ c.line[s] = 0 => OrderOf(c, s) \notin Order
<1>1. /\ c.sizes \in SUBSET Size /\ c.line \in [c.sizes -> {0} \cup Order]
      /\ \A s \in c.sizes : c.line[s] # 0 => orders[c.line[s]] = s
  BY DEF AimOK
<1> DEFINE some == NewSizes(c)
           new == SetToSeq(some)
<1>2. some \in SUBSET Size
  BY <1>1 DEF NewSizes
<1>3. IsFiniteSet(some)
  BY <1>2, SizesFinite
<1>4. PICK m \in Nat : m = Cardinality(some)
  BY <1>3, FS_CardinalityType
<1>5. /\ new \in [1 .. m -> some] /\ DOMAIN new = 1 .. m
      /\ \A x \in some : \E k \in 1 .. m : new[k] = x
  BY <1>3, <1>4, ListOf
<1>6. orders' = orders \o new
  OBVIOUS
<1>7. \A s \in c.sizes : OrderOf(c, s) = IF c.line[s] # 0 THEN c.line[s]
                                         ELSE Len(orders) + CHOOSE k \in DOMAIN new : new[k] = s
  BY DEF OrderOf
<1>8. \A s \in c.sizes : c.line[s] = 0 => s \in some
  BY DEF NewSizes
<1> HIDE DEF new, some
<1>9. new \in Seq(Size) /\ Len(new) = m
  <2>1. new \in [1 .. m -> Size]
    BY <1>2, <1>5
  <2> QED  BY <2>1, FunctionIsSeq
<1>10. orders \in Seq(Size) /\ DOMAIN orders = 1 .. Len(orders) /\ Len(orders) \in Nat
  BY Rows DEF TypeOK
<1>11. PICK n \in Nat : n = Len(orders)
  BY <1>10
<1>12. Order = 1 .. n
  BY <1>10, <1>11 DEF Order
<1>13. /\ orders' \in Seq(Size) /\ Len(orders') = n + m
       /\ \A i \in 1 .. n : orders'[i] = orders[i]
       /\ \A k \in 1 .. m : orders'[n + k] = new[k]
  <2>1. orders \o new \in Seq(Size) /\ Len(orders \o new) = Len(orders) + Len(new)
    BY <1>9, <1>10, ConcatProperties
  <2>2. \A i \in 1 .. Len(orders) + Len(new) :
            (orders \o new)[i] = IF i <= Len(orders) THEN orders[i] ELSE new[i - Len(orders)]
    BY <1>9, <1>10, ConcatProperties
  <2>3. PICK cat : cat = orders \o new
    OBVIOUS
  <2>4. cat \in Seq(Size) /\ Len(cat) = n + m /\ orders' = cat
    BY <1>6, <1>9, <1>11, <2>1, <2>3
  <2>5. \A i \in 1 .. n + m : cat[i] = IF i <= n THEN orders[i] ELSE new[i - n]
    BY <1>9, <1>11, <2>2, <2>3
  <2>6. \A i \in 1 .. n : cat[i] = orders[i]
    BY <2>5
  <2>7. ASSUME NEW k \in 1 .. m PROVE cat[n + k] = new[k]
    <3>1. n + k \in 1 .. n + m /\ ~(n + k <= n) /\ n + k - n = k
      OBVIOUS
    <3> QED  BY <2>5, <3>1
  <2> QED  BY <2>4, <2>6, <2>7
<1>14. Order' = 1 .. n + m
  BY <1>13, LenProperties DEF Order
<1>15. Order \subseteq Order' /\ \A o \in Order : orders'[o] = orders[o]
  BY <1>12, <1>13, <1>14
<1>16. ASSUME NEW s \in c.sizes
       PROVE  /\ OrderOf(c, s) \in Order' /\ OrderOf(c, s) \in Nat
              /\ orders'[OrderOf(c, s)] = s
              /\ c.line[s] # 0 => OrderOf(c, s) = c.line[s]
              /\ c.line[s] = 0 => OrderOf(c, s) \notin Order
  <2>1. CASE c.line[s] # 0
    <3>1. OrderOf(c, s) = c.line[s] /\ c.line[s] \in Order /\ orders[c.line[s]] = s
      BY <1>1, <1>7, <2>1
    <3>2. PICK o \in Order : o = c.line[s]
      BY <3>1
    <3>3. o \in Order' /\ o \in Nat /\ orders'[o] = s
      <4>1. o \in Nat
        BY <1>12
      <4>2. o \in Order' /\ orders'[o] = orders[o]
        BY <1>15, Zenon
      <4> QED  BY <3>1, <3>2, <4>1, <4>2
    <3> QED  BY <2>1, <3>1, <3>2, <3>3
  <2>2. CASE c.line[s] = 0
    <3>1. PICK k : k = CHOOSE j \in DOMAIN new : new[j] = s
      OBVIOUS
    <3>2. k \in 1 .. m /\ new[k] = s
      BY <1>5, <1>8, <2>2, <3>1
    <3>3. OrderOf(c, s) = n + k
      BY <1>7, <1>11, <2>2, <3>1
    <3>4. n + k \in 1 .. n + m /\ n + k \notin 1 .. n /\ n + k \in Nat
      BY <3>2
    <3> QED  BY <1>12, <1>13, <1>14, <2>2, <3>2, <3>3, <3>4
  <2> QED  BY <2>1, <2>2
<1> QED  BY <1>13, <1>15, <1>16

\* Its reports: one per order.
LEMMA NewRows ==
  ASSUME TypeOK, NEW c, AimOK(c), c.op = "load", orders' = orders \o SetToSeq(NewSizes(c))
  PROVE  /\ RowsOf(c) \in Seq(Row)
         /\ \A k \in DOMAIN RowsOf(c) :
               /\ \E s \in c.sizes : RowsOf(c)[k].order = OrderOf(c, s)
               /\ RowsOf(c)[k].trip = trips + 1 /\ RowsOf(c)[k].by = c.by
               /\ RowsOf(c)[k].status = StatusOf(c)
         /\ \A j, k \in DOMAIN RowsOf(c) : RowsOf(c)[j].order = RowsOf(c)[k].order => j = k
<1>1. c.sizes \in SUBSET Size /\ c.by \in User /\ c.submit \in BOOLEAN
  BY DEF AimOK
<1>2. \A s \in c.sizes : OrderOf(c, s) \in Nat /\ orders'[OrderOf(c, s)] = s
  BY NewOrders
<1>3. IsFiniteSet(c.sizes)
  BY <1>1, SizesFinite
<1>4. PICK n \in Nat : n = Cardinality(c.sizes)
  BY <1>3, FS_CardinalityType
<1>5. PICK list : list = SetToSeq(c.sizes)
  OBVIOUS
<1>6. list \in [1 .. n -> c.sizes] /\ \A j, k \in 1 .. n : list[j] = list[k] => j = k
  BY <1>3, <1>4, <1>5, ListOf
<1>7. PICK rows : rows = RowsOf(c)
  OBVIOUS
<1>8. rows = [k \in 1 .. n |-> NewReport(OrderOf(c, list[k]), trips + 1, c.by, StatusOf(c))]
  BY <1>4, <1>5, <1>7 DEF RowsOf
<1>9. trips \in Nat /\ StatusOf(c) \in Status
  BY DEF TypeOK, StatusOf, Status
<1>10. ASSUME NEW k \in 1 .. n
       PROVE  /\ rows[k] \in Row /\ rows[k].order = OrderOf(c, list[k])
              /\ rows[k].trip = trips + 1 /\ rows[k].by = c.by /\ rows[k].status = StatusOf(c)
  <2>1. rows[k] = [order |-> OrderOf(c, list[k]), trip |-> trips + 1, by |-> c.by, bags |-> 1,
                   status |-> StatusOf(c)]
    BY <1>8 DEF NewReport
  <2>2. list[k] \in c.sizes /\ trips + 1 \in Nat
    BY <1>6, <1>9
  <2>3. OrderOf(c, list[k]) \in Nat
    BY <1>2, <2>2
  <2> QED  BY <1>1, <1>9, <2>1, <2>2, <2>3 DEF Row
<1>11. rows \in Seq(Row) /\ DOMAIN rows = 1 .. n
  <2>1. DOMAIN rows = 1 .. n /\ rows \in [1 .. n -> Row]
    BY <1>8, <1>10
  <2> QED  BY <2>1, FunctionIsSeq
<1>12. ASSUME NEW j \in 1 .. n, NEW k \in 1 .. n, rows[j].order = rows[k].order
       PROVE  j = k
  <2>1. list[j] \in c.sizes /\ list[k] \in c.sizes /\ OrderOf(c, list[j]) = OrderOf(c, list[k])
    BY <1>6, <1>10, <1>12
  <2>2. list[j] = list[k]
    BY <1>2, <2>1
  <2> QED  BY <1>6, <2>2
<1>13. \A k \in 1 .. n : /\ \E s \in c.sizes : rows[k].order = OrderOf(c, s)
                         /\ rows[k].trip = trips + 1 /\ rows[k].by = c.by
                         /\ rows[k].status = StatusOf(c)
  BY <1>6, <1>10
<1> QED  BY <1>7, <1>11, <1>12, <1>13

LEMMA OldRowsAre ==
  ASSUME TypeOK, NEW c
  PROVE  /\ OldRows(c) \in Seq(Row) /\ Len(OldRows(c)) = Len(reports)
         /\ \A i \in Report : /\ OldRows(c)[i].order = reports[i].order
                              /\ OldRows(c)[i].trip = reports[i].trip
                              /\ OldRows(c)[i].by = reports[i].by
                              /\ ReplacedBy(c, i) => OldRows(c)[i].status = "CANCELLED"
                              /\ ~ReplacedBy(c, i) => OldRows(c)[i] = reports[i]
<1>1. /\ DOMAIN reports = 1 .. Len(reports) /\ Len(reports) \in Nat /\ DOMAIN reports = Report
      /\ \A i \in Report : reports[i] \in Row
  BY Rows DEF Report
<1>2. PICK old : old = OldRows(c)
  OBVIOUS
<1>3. old = [i \in Report |-> IF ReplacedBy(c, i) THEN [reports[i] EXCEPT !.status = "CANCELLED"]
                              ELSE reports[i]]
  BY <1>2 DEF OldRows
<1>4. ASSUME NEW i \in Report
      PROVE  /\ old[i] \in Row /\ old[i].order = reports[i].order /\ old[i].trip = reports[i].trip
             /\ old[i].by = reports[i].by
             /\ ReplacedBy(c, i) => old[i].status = "CANCELLED"
             /\ ~ReplacedBy(c, i) => old[i] = reports[i]
  <2>1. CASE ReplacedBy(c, i)
    <3>1. old[i] = [reports[i] EXCEPT !.status = "CANCELLED"] /\ "CANCELLED" \in Status
      BY <1>3, <2>1 DEF Status
    <3> QED  BY <1>1, <2>1, <3>1, StatusOfRow
  <2>2. CASE ~ReplacedBy(c, i)
    BY <1>1, <1>3, <2>2
  <2> QED  BY <2>1, <2>2
<1>5. old \in Seq(Row) /\ Len(old) = Len(reports)
  <2>1. old \in [1 .. Len(reports) -> Row]
    BY <1>1, <1>3, <1>4
  <2> QED  BY <1>1, <2>1, FunctionIsSeq
<1> QED  BY <1>2, <1>4, <1>5
\* The transaction of a load: its orders had nothing under way, the same
\* person's drafts for them are replaced, so only the new reports count.
LEMMA LoadStep ==
  ASSUME IInv, NEW r \in Request, CommitLoad(r)
  PROVE  IInv'
<1>1. TypeOK /\ Together /\ WhatLeftStands /\ CallIs /\ trips \in Nat
  BY DEF IInv, TypeOK, CallIs
<1>2. Working(r) /\ call[r].op = "load"
  BY LoadWhat DEF At, Working, Idle
<1>3. /\ Ends(r) /\ call'[r] # Idle /\ call'[r].op # "approve"
  <2>1. call' = [call EXCEPT ![r] = [op |-> "load", step |-> 2]]
    BY <1>2, LoadWhat DEF ToFollowUp
  <2>2. [op |-> "load", step |-> 2] # Idle
    BY DEF Idle
  <2> QED  BY <1>1, <2>1, <2>2 DEF Ends, Op, CallIs
<1>4. PICK c : c = call[r]
  OBVIOUS
<1>5. AimOK(c) /\ c.op = "load" /\ LoadsRows(c)
  BY <1>1, <1>2, <1>4, LoadWhat DEF TypeOK, Working
<1>6. /\ orders' = orders \o SetToSeq(NewSizes(c)) /\ trips' = trips + 1 /\ task' = task
      /\ Apart({reports[i].trip : i \in {i \in Report : ReplacedBy(c, i)}}, {})
  BY <1>5 DEF LoadsRows
<1>7. /\ orders' \in Seq(Size) /\ Order \subseteq Order'
      /\ \A o \in Order : orders'[o] = orders[o]
      /\ \A s \in c.sizes : /\ OrderOf(c, s) \in Order'
                            /\ c.line[s] # 0 => OrderOf(c, s) = c.line[s]
                            /\ c.line[s] = 0 => OrderOf(c, s) \notin Order
  BY <1>1, <1>5, <1>6, NewOrders
<1>8. PICK rows : rows = RowsOf(c)
  OBVIOUS
<1>9. /\ rows \in Seq(Row)
      /\ \A k \in DOMAIN rows : /\ \E s \in c.sizes : rows[k].order = OrderOf(c, s)
                                /\ rows[k].trip = trips + 1 /\ rows[k].by = c.by
                                /\ rows[k].status = StatusOf(c)
      /\ \A j, k \in DOMAIN rows : rows[j].order = rows[k].order => j = k
  BY <1>1, <1>5, <1>6, <1>8, NewRows
<1>10. PICK old : old = OldRows(c)
  OBVIOUS
<1>11. /\ old \in Seq(Row) /\ Len(old) = Len(reports)
       /\ \A i \in Report : /\ old[i].order = reports[i].order /\ old[i].trip = reports[i].trip
                            /\ old[i].by = reports[i].by
                            /\ ReplacedBy(c, i) => old[i].status = "CANCELLED"
                            /\ ~ReplacedBy(c, i) => old[i] = reports[i]
  BY <1>1, <1>10, OldRowsAre
<1>12. reports' = old \o rows /\ Unshipped(rows)
  BY <1>5, <1>8, <1>10 DEF LoadsRows
<1>13. /\ reports' \in Seq(Row) /\ ship' \in Seq(Carried) /\ Len(ship') = Len(reports')
       /\ Report \subseteq Report'
       /\ \A i \in Report : reports'[i] = old[i] /\ ship'[i] = ship[i]
       /\ \A i \in Report' \ Report :
             /\ ship'[i].at = "farm"
             /\ \E k \in DOMAIN rows : i = Len(reports) + k /\ reports'[i] = rows[k]
  BY <1>1, <1>9, <1>11, <1>12, Appended
\* What the rows are now.
<1>14. \A i \in Report : /\ reports'[i].order = reports[i].order /\ reports'[i].trip = reports[i].trip
                         /\ reports'[i].by = reports[i].by
                         /\ ReplacedBy(c, i) => reports'[i].status = "CANCELLED"
                         /\ ~ReplacedBy(c, i) => reports'[i] = reports[i]
  BY <1>11, <1>13
<1>15. \A i \in Report' \ Report :
          /\ ship'[i].at = "farm" /\ reports'[i].trip = trips + 1 /\ reports'[i].by = c.by
          /\ reports'[i].status = StatusOf(c)
          /\ \E s \in c.sizes : reports'[i].order = OrderOf(c, s)
  BY <1>9, <1>13
<1>16. ASSUME NEW i \in Report' \ Report, NEW j \in Report' \ Report, reports'[i].order = reports'[j].order
       PROVE  i = j
  <2>1. PICK k \in DOMAIN rows : i = Len(reports) + k /\ reports'[i] = rows[k]
    BY <1>13
  <2>2. PICK l \in DOMAIN rows : j = Len(reports) + l /\ reports'[j] = rows[l]
    BY <1>13
  <2>3. k = l
    BY <1>9, <1>16, <2>1, <2>2
  <2> QED  BY <2>1, <2>2, <2>3
<1>17. StatusOf(c) \notin {"CANCELLED", "REJECTED"}
  BY DEF StatusOf
<1>18. \A s \in c.sizes : c.line[s] # 0 => c.line[s] \in Order /\ orders[c.line[s]] = s
  BY <1>5 DEF AimOK
<1>19. \A i \in Report : ReplacedBy(c, i) =>
          reports[i].by = c.by /\ reports[i].status = "DRAFT" /\ SizeOf(i) \in c.sizes
  BY <1>18 DEF ReplacedBy, SizeOf
<1>20. Grown(c.sizes)
  <2>1. \A i \in Report : SizeOf(i) \notin c.sizes => reports'[i] = reports[i]
    BY <1>14, <1>19
  <2>2. trips' \in Nat /\ trips <= trips' /\ trips + 1 \notin 1 .. trips
    BY <1>1, <1>6
  <2>3. ASSUME NEW i \in Report' \ Report
        PROVE  /\ reports'[i].trip \notin 1 .. trips
               /\ reports'[i].order \notin Order \/ orders[reports'[i].order] \in c.sizes
    <3>1. PICK s \in c.sizes : reports'[i].order = OrderOf(c, s)
      BY <1>15
    <3>2. CASE c.line[s] = 0
      BY <1>7, <1>15, <2>2, <3>1, <3>2
    <3>3. CASE c.line[s] # 0
      BY <1>7, <1>15, <1>18, <2>2, <3>1, <3>3
    <3> QED  BY <3>2, <3>3
  <2> QED  BY <1>7, <1>13, <1>14, <2>1, <2>2, <2>3 DEF Grown
<1>21. /\ history' \in {Crossed, Lost} \cup Told
       /\ Orderly' => /\ Orderly
                      /\ history'.apart = history.apart \cup
                            ({reports[i].trip : i \in {i \in Report : ReplacedBy(c, i)}} \ {0})
                      /\ history'.sentBack = history.sentBack
  <2>1. PICK of : of = {reports[i].trip : i \in {i \in Report : ReplacedBy(c, i)}}
    OBVIOUS
  <2>2. of \in SUBSET Nat /\ {} \in SUBSET Nat
    BY <1>1, <2>1, Rows
  <2>3. Apart(of, {})
    BY <1>6, <2>1
  <2> QED  BY <1>1, <2>1, <2>2, <2>3, ApartAdds
<1>22. CallIs' /\ Calls'
  BY <1>1, <1>3, <1>20, EndsWhat, CallsKept
<1>23. TypeOK'
  <2>1. ASSUME NEW i \in Report'
        PROVE  reports'[i].order \in Order' /\ reports'[i].trip \in 0 .. trips'
    <3>1. CASE i \in Report
      <4>1. reports[i].order \in Order /\ reports[i].trip \in 0 .. trips
        BY <1>1, <3>1, Rows
      <4> QED  BY <1>1, <1>6, <1>7, <1>14, <3>1, <4>1
    <3>2. CASE i \notin Report
      <4>1. trips + 1 \in 0 .. trips'
        BY <1>1, <1>6
      <4> QED  BY <1>7, <1>15, <3>2, <4>1
    <3> QED  BY <3>1, <3>2
  <2>2. trips' \in Nat
    BY <1>1, <1>6
  <2>3. task' \in {NoTask} \cup Task
    BY <1>1, <1>6 DEF TypeOK
  <2> QED  BY <1>7, <1>13, <1>21, <1>22, <2>1, <2>2, <2>3 DEF TypeOK, CallIs, Calls
<1>24. ASSUME Orderly' PROVE WorkOK'
  BY <1>1, <1>2, <1>3, <1>4, <1>20, <1>21, <1>24, WorkKept DEF IInv
<1>25. ASSUME Orderly' PROVE Together'
  <2> SUFFICES ASSUME NEW d \in 1 .. trips' \ history'.apart, NEW i \in OfTrip(d)', NEW j \in OfTrip(d)'
               PROVE  \/ reports'[i].status = reports'[j].status
                      \/ {reports'[i].status, reports'[j].status} \subseteq Out
    BY DEF Together
  <2>1. /\ i \in Report' /\ reports'[i].trip = d /\ j \in Report' /\ reports'[j].trip = d
    BY DEF OfTrip
  <2>2. CASE d = trips + 1
    <3>1. \A k \in Report : reports'[k].trip # d
      <4>1. \A k \in Report : reports[k].trip \in 0 .. trips
        BY <1>1, Rows
      <4>2. d \notin 0 .. trips
        BY <1>1, <2>2
      <4> QED  BY <1>14, <4>1, <4>2
    <3> QED  BY <1>15, <2>1, <3>1
  <2>3. CASE d # trips + 1
    <3>1. d \in 1 .. trips
      BY <1>1, <1>6, <2>3
    <3>2. /\ d \in 1 .. trips \ history.apart
          /\ \A k \in Report : reports[k].trip = d => ~ReplacedBy(c, k)
      <4>1. d # 0 /\ d \notin history'.apart
        BY <1>1, <3>1
      <4> QED  BY <1>21, <1>25, <3>1, <4>1
    <3>3. i \in Report /\ j \in Report
      BY <1>15, <2>1, <2>3
    <3>4. /\ reports'[i] = reports[i] /\ reports'[j] = reports[j] /\ i \in OfTrip(d) /\ j \in OfTrip(d)
      BY <1>14, <2>1, <3>2, <3>3 DEF OfTrip
    <3> QED  BY <1>1, <1>21, <1>25, <3>2, <3>4 DEF Together
  <2> QED  BY <2>2, <2>3
<1>26. ASSUME Orderly' PROVE WhatLeftStands'
  <2>1. \A i \in Report : reports'[i] = reports[i] \/ reports[i].status \notin Out
    BY <1>14, <1>19 DEF Out
  <2> QED  BY <1>1, <1>13, <1>21, <1>26, <2>1, AppendedStands
<1>27. ASSUME Orderly' PROVE OneCounts'
  <2>1. OneCounts /\ ReadStill(c) /\ history'.sentBack = history.sentBack
    BY <1>2, <1>4, <1>21, <1>27 DEF IInv, WorkOK
  <2>2. ASSUME NEW o \in Order' \ history.sentBack, ~Mixed(o)',
               NEW i \in OfOrder(o)', NEW j \in OfOrder(o)', Counts(i)', Counts(j)'
        PROVE  i = j
    <3>1. /\ i \in Report' /\ reports'[i].order = o /\ reports'[i].status # "CANCELLED"
          /\ j \in Report' /\ reports'[j].order = o /\ reports'[j].status # "CANCELLED"
      BY <2>2 DEF OfOrder, Counts
    \* Beside a new report for the same order, no old one counts.
    <3>2. ASSUME NEW k \in Report' \ Report, NEW l \in Report, reports'[k].order = o, reports'[l].order = o,
                 reports'[l].status # "CANCELLED"
          PROVE  FALSE
      <4>1. PICK s \in c.sizes : o = OrderOf(c, s)
        BY <1>15, <3>2
      <4>2. reports[l].order = o /\ o \in Order
        BY <1>1, <1>14, <3>2, Rows
      <4>3. c.line[s] # 0 /\ o = c.line[s]
        BY <1>7, <4>1, <4>2
      <4>4. reports[l].by = c.by
        <5>1. k \in OfOrder(o)' /\ l \in OfOrder(o)'
          BY <1>13, <3>2 DEF OfOrder
        <5>2. reports'[k].by = reports'[l].by
          BY <2>2, <5>1 DEF Mixed
        <5> QED  BY <1>14, <1>15, <3>2, <5>2
      <4>5. ~ReplacedBy(c, l) /\ reports'[l] = reports[l]
        BY <1>14, <3>2
      <4>6. reports[l].status # "DRAFT"
        BY <4>2, <4>3, <4>4, <4>5 DEF ReplacedBy
      <4>7. reports[l].status \notin IN_FLIGHT
        BY <1>5, <2>1, <4>2, <4>3 DEF ReadStill, UnderWay, OfOrder
      <4>8. reports[l].status # "REJECTED"
        BY <2>1, <2>2, <4>2 DEF OneCounts
      <4>9. reports[l].status \in Status
        <5>1. reports[l] \in Row
          BY <1>1, Rows
        <5> QED  BY <5>1, StatusOfRow
      <4> QED  BY <3>2, <4>5, <4>6, <4>7, <4>8, <4>9 DEF Status, IN_FLIGHT
    <3>3. CASE i \in Report /\ j \in Report
      <4>1. /\ i \in OfOrder(o) /\ j \in OfOrder(o) /\ Counts(i) /\ Counts(j)
        BY <1>14, <3>1, <3>3 DEF OfOrder, Counts, ReplacedBy
      <4>2. o \in Order
        BY <1>1, <3>3, <4>1, Rows DEF OfOrder
      <4>3. ~Mixed(o)
        <5>1. \A k \in OfOrder(o) : /\ k \in OfOrder(o)'
                                    /\ reports'[k].by = reports[k].by /\ reports'[k].trip = reports[k].trip
          BY <1>13, <1>14 DEF OfOrder
        <5> QED  BY <2>2, <5>1 DEF Mixed
      <4> QED  BY <2>1, <2>2, <4>1, <4>2, <4>3 DEF OneCounts
    <3>4. CASE i \notin Report /\ j \notin Report
      BY <1>16, <3>1, <3>4
    <3>5. CASE i \notin Report /\ j \in Report
      BY <3>1, <3>2, <3>5
    <3>6. CASE i \in Report /\ j \notin Report
      BY <3>1, <3>2, <3>6
    <3> QED  BY <3>3, <3>4, <3>5, <3>6
  <2>3. ASSUME NEW i \in Report', reports'[i].status = "REJECTED"
        PROVE  reports'[i].order \in history'.sentBack
    <3>1. i \in Report
      BY <1>15, <1>17, <2>3
    <3>2. reports[i].status = "REJECTED" /\ reports'[i].order = reports[i].order
      BY <1>14, <2>3, <3>1
    <3> QED  BY <2>1, <3>1, <3>2 DEF OneCounts
  <2> QED  BY <2>1, <2>2, <2>3 DEF OneCounts
<1>28. ASSUME Orderly' PROVE TaskOK'
  <2>1. ASSUME NEW o \in Order, \A i \in OfOrder(o) : ship[i].at = "farm"
        PROVE  \A i \in OfOrder(o)' : ship'[i].at = "farm"
    BY <1>13, <1>14, <2>1 DEF OfOrder
  <2>2. TaskOK
    BY <1>21, <1>28 DEF IInv
  <2>3. \A o \in Order : /\ o \in Order'
                         /\ (\A i \in OfOrder(o) : ship[i].at = "farm") =>
                                \A i \in OfOrder(o)' : ship'[i].at = "farm"
    BY <1>7, <2>1
  <2> QED  BY <1>1, <1>2, <1>3, <1>6, <2>2, <2>3, TaskKept
<1> QED  BY <1>23, <1>24, <1>25, <1>26, <1>27, <1>28 DEF IInv, Together, WhatLeftStands
-----------------------------------------------------------------------------
(* The invariant, and what it gives.                                       *)

LEMMA InitOK ==
  ASSUME Init
  PROVE  IInv
<1>1. /\ orders = <<>> /\ reports = <<>> /\ ship = <<>> /\ trips = 0 /\ task = NoTask
      /\ call = [r \in Request |-> Idle] /\ history = Quiet
  BY DEF Init
<1>2. Order = {} /\ Report = {} /\ Len(ship) = Len(reports)
      /\ orders \in Seq(Size) /\ reports \in Seq(Row) /\ ship \in Seq(Carried)
  BY <1>1 DEF Order, Report
<1>3. history \in Told
  BY <1>1 DEF Quiet, Told
<1>4. TypeOK
  BY <1>1, <1>2, <1>3 DEF TypeOK
<1>5. Together /\ WhatLeftStands /\ OneCounts
  BY <1>1, <1>2 DEF Together, WhatLeftStands, OneCounts
<1>6. WorkOK
  BY <1>1 DEF WorkOK, Working
<1>7. TaskOK
  BY <1>1 DEF TaskOK, NoTask
<1> QED  BY <1>4, <1>5, <1>6, <1>7 DEF IInv

\* What leaves everything but the task alone.
LEMMA AsideStep ==
  ASSUME IInv, UNCHANGED <<orders, reports, ship, trips, call, history>>,
         task' \in {NoTask} \cup Task, TaskOK => TaskOK'
  PROVE  IInv'
<1>1. TypeOK /\ Together /\ WhatLeftStands /\ CallIs
  BY DEF IInv, TypeOK, CallIs
<1>2. StillRows /\ call' = call /\ history' = history
  BY DEF StillRows
<1>3. /\ Grown({}) /\ InPlace({}) /\ Order' = Order /\ \A o : OfOrder(o)' = OfOrder(o)
      /\ Orderly => Together' /\ WhatLeftStands'
      /\ OneCounts => OneCounts'
  BY <1>1, <1>2, StillKept
<1>4. Calls' /\ CallIs'
  BY <1>1, <1>2, <1>3, CallsStill DEF CallIs
<1>5. TypeOK'
  BY <1>1, <1>2, <1>3, <1>4, InPlaceType DEF StillRows, TypeOK
<1>6. Orderly' <=> Orderly
  BY <1>2 DEF Orderly
<1>7. ASSUME WorkOK PROVE WorkOK'
  <2>1. \A q \in Request : Working(q)' => Working(q) /\ call'[q] = call[q] /\ call[q].sizes \cap {} = {}
    BY <1>2 DEF Working
  <2> QED  BY <1>1, <1>3, <1>7, <2>1, WorkStill
<1> QED  BY <1>3, <1>5, <1>6, <1>7 DEF IInv, Together, WhatLeftStands

LEMMA StutterStep ==
  ASSUME IInv, UNCHANGED vars
  PROVE  IInv'
<1>1. TypeOK /\ StillRows /\ call' = call /\ history' = history /\ task' = task
  BY DEF vars, StillRows, IInv
<1>2. Order' = Order /\ \A o : OfOrder(o)' = OfOrder(o)
  BY <1>1, StillKept DEF IInv
<1>3. ASSUME TaskOK PROVE TaskOK'
  <2>1. \A q \in Request : Following(q)' <=> Following(q)
    BY <1>1 DEF Following
  <2> QED  BY <1>1, <1>2, <1>3, <2>1 DEF TaskOK, StillRows
<1> QED  BY <1>1, <1>3, AsideStep DEF StillRows, TypeOK

\* A task moved by hand is where somebody put it.
LEMMA MoveStep ==
  ASSUME IInv, NEW u \in User, NEW to \in MovedTo, MoveTask(u, to)
  PROVE  IInv'
<1>1. task \in Task /\ to \in TaskStatus
  BY BoundAssumption DEF IInv, TypeOK, MoveTask, NoTask, TaskStatus
<1>2. task' \in Task /\ task'.byHand
  BY <1>1 DEF MoveTask, Task
<1>3. TaskOK'
  BY <1>2 DEF TaskOK
<1> QED  BY <1>2, <1>3, AsideStep DEF MoveTask

LEMMA NextStep ==
  ASSUME IInv, [Next]_vars
  PROVE  IInv'
<1>1. ASSUME NEW u \in User, NEW sizes \in SUBSET Size, Ask(u, sizes)
      PROVE  IInv'
  BY <1>1, AskStep
<1>2. ASSUME NEW r \in Request, CanBegin(r), Decide(r)
      PROVE  IInv'
  BY <1>2, DecideStep
<1>3. ASSUME NEW r \in Request, CanBegin(r), NEW u \in Loaders, Prepare(r, u)
      PROVE  IInv'
  BY <1>3, PrepareStep
<1>4. ASSUME NEW r \in Request, CommitLoad(r)
      PROVE  IInv'
  BY <1>4, LoadStep
<1>5. ASSUME NEW r \in Request, CommitReport(r)
      PROVE  IInv'
  BY <1>5, ReportStep
<1>6. ASSUME NEW r \in Request, CommitSubmit(r)
      PROVE  IInv'
  BY <1>6, SubmitStep
<1>7. ASSUME NEW r \in Request, CommitReject(r)
      PROVE  IInv'
  BY <1>7, RejectStep
<1>8. ASSUME NEW r \in Request, NEW n \in 2 .. MaxBags, CommitEdit(r, n)
      PROVE  IInv'
  BY <1>8, EditStep
<1>9. ASSUME NEW r \in Request, CommitApprove(r)
      PROVE  IInv'
  BY <1>9, ApproveStep
<1>10. ASSUME NEW r \in Request, FollowUp(r)
       PROVE  IInv'
  BY <1>10, FollowUpStep
<1>11. ASSUME NEW r \in Request, Fail(r)
       PROVE  IInv'
  BY <1>11, FailStep
<1>12. ASSUME NEW i \in Report, CountIn(i)
       PROVE  IInv'
  BY <1>12, CountInStep
<1>13. ASSUME NEW u \in User, NEW to \in MovedTo, MoveTask(u, to)
       PROVE  IInv'
  BY <1>13, MoveStep
<1>14. CASE UNCHANGED vars
  BY <1>14, StutterStep
<1>15. CASE Next
  BY <1>1, <1>2, <1>3, <1>4, <1>5, <1>6, <1>7, <1>8, <1>9, <1>10, <1>11, <1>12, <1>13, <1>15 DEF Next
<1> QED  BY <1>14, <1>15

\* DeliveryOrdersService and DeliveryReportsService: in every state, whoever
\* races, the rows are well formed, and until requests cross, what a request
\* has checked still holds when it writes.
THEOREM DispatchInductive == Spec => []IInv
<1>1. Init => IInv
  BY InitOK
<1>2. IInv /\ [Next]_vars => IInv'
  BY NextStep
<1> QED  BY <1>1, <1>2, PTL DEF Spec

\* createDispatch: "already has a dispatch under way". An order whose loads
\* one person prepares as whole dispatches has one under way at most, for as
\* long as none was sent back and no two requests for its size overlap.
THEOREM LoadedOnce == Spec => []OneUnderWay
<1>1. IInv => OneUnderWay
  <2> SUFFICES ASSUME IInv, Orderly, NEW o \in Order, o \notin history.sentBack,
                      \A i, j \in OfOrder(o) : reports[i].by = reports[j].by /\ reports[i].trip # 0
               PROVE  Cardinality({i \in OfOrder(o) : reports[i].status \in IN_FLIGHT}) <= 1
    BY DEF OneUnderWay
  <2>1. ~Mixed(o)
    BY DEF Mixed
  <2>2. \A i, j \in OfOrder(o) : Counts(i) /\ Counts(j) => i = j
    BY <2>1 DEF IInv, OneCounts
  <2>3. \A i \in OfOrder(o) : reports[i].status \in IN_FLIGHT => Counts(i)
    BY DEF Counts, IN_FLIGHT
  <2>4. \A i, j \in {i \in OfOrder(o) : reports[i].status \in IN_FLIGHT} : i = j
    BY <2>2, <2>3
  <2> QED  BY <2>4, AtMostOne
<1> QED  BY <1>1, DispatchInductive, PTL

\* submitDispatch, approveDispatch, rejectDispatch: until requests cross, the
\* sizes of a dispatch only handled as one are at one point until counted in.
THEOREM TrucksStayTogether == Spec => []Together
<1>1. IInv => Together
  BY DEF IInv
<1> QED  BY <1>1, DispatchInductive, PTL

\* update, submit and approveInTx: until requests cross, a report whose bags
\* left still says as many as its shipment carries, and that they left.
THEOREM ShipmentsSayWhatLeft == Spec => []WhatLeftStands
<1>1. IInv => WhatLeftStands
  BY DEF IInv
<1> QED  BY <1>1, DispatchInductive, PTL

\* afterReportStep: the farm manager's task is done once the last size is out
\* and never stays "to do" beside a report, in whichever order follow-ups end,
\* until somebody moves it by hand, and again once an approval has closed it.
THEOREM TaskIsCurrent == Spec => []TaskFollows
<1>1. IInv => TaskFollows
  <2> SUFFICES ASSUME IInv, Orderly, task.at # "NONE", ~task.byHand,
                      \A r \in Request : ~Following(r)
               PROVE  /\ reports # <<>> => task.at # "TODO"
                      /\ (\A o \in Order : \E i \in OfOrder(o) : ship[i].at # "farm")
                            => task.at = "COMPLETED"
    BY DEF TaskFollows, Following
  <2>1. TaskOK
    BY DEF IInv
  <2> QED  BY <2>1 DEF TaskOK
<1> QED  BY <1>1, DispatchInductive, PTL
-----------------------------------------------------------------------------
(* The card of the request.                                                *)

\* A bounded set of naturals has a least and a greatest member.
LEMMA Extremes ==
  ASSUME NEW n \in Nat, NEW S \in SUBSET (0 .. n), S # {}
  PROVE  /\ \E x \in S : \A y \in S : x <= y
         /\ \E x \in S : \A y \in S : y <= x
<1>1. IsWellFoundedOn(StrictSubsetOrdering(0 .. n), SUBSET (0 .. n))
  <2>1. FiniteSubsetsOf(0 .. n) = SUBSET (0 .. n)
    <3>1. IsFiniteSet(0 .. n)
      BY FS_Interval
    <3> QED  BY <3>1, FS_FiniteSubsetsOfFinite
  <2>2. IsWellFoundedOn(StrictSubsetOrdering(0 .. n), FiniteSubsetsOf(0 .. n))
    BY FS_StrictSubsetOrderingWellFounded
  <2> QED  BY <2>1, <2>2
<1>2. ASSUME NEW T \in SUBSET (SUBSET (0 .. n)), T # {}
      PROVE  \E A \in T : \A B \in T : B \subseteq A => A = B
  <2>1. \E A \in T : \A B \in T : <<B, A>> \notin StrictSubsetOrdering(0 .. n)
    BY <1>1, <1>2, WFMin
  <2>2. PICK A \in T : \A B \in T : <<B, A>> \notin StrictSubsetOrdering(0 .. n)
    BY <2>1
  <2>3. ASSUME NEW B \in T, B \subseteq A PROVE A = B
    BY <2>2, <2>3 DEF StrictSubsetOrdering
  <2> QED  BY <2>3
<1>3. \E x \in S : \A y \in S : x <= y
  <2> DEFINE T == {0 .. k : k \in S}
  <2>1. T \in SUBSET (SUBSET (0 .. n)) /\ T # {}
    <3>1. \A k \in S : 0 .. k \subseteq 0 .. n
      OBVIOUS
    <3> QED  BY <3>1
  <2>2. PICK A \in T : \A B \in T : B \subseteq A => A = B
    BY <1>2, <2>1
  <2>3. PICK x \in S : A = 0 .. x
    BY <2>2
  <2>4. ASSUME NEW y \in S, y < x PROVE FALSE
    <3>1. 0 .. y \in T /\ 0 .. y \subseteq 0 .. x /\ x \notin 0 .. y /\ x \in 0 .. x
      BY <2>4
    <3> HIDE DEF T
    <3> QED  BY <2>2, <2>3, <3>1
  <2> QED  BY <2>4
<1>4. \E x \in S : \A y \in S : y <= x
  <2> DEFINE T == {k .. n : k \in S}
  <2>1. T \in SUBSET (SUBSET (0 .. n)) /\ T # {}
    <3>1. \A k \in S : k .. n \subseteq 0 .. n
      OBVIOUS
    <3> QED  BY <3>1
  <2>2. PICK A \in T : \A B \in T : B \subseteq A => A = B
    BY <1>2, <2>1
  <2>3. PICK x \in S : A = x .. n
    BY <2>2
  <2>4. ASSUME NEW y \in S, x < y PROVE FALSE
    <3>1. y .. n \in T /\ y .. n \subseteq x .. n /\ x \notin y .. n /\ x \in x .. n
      BY <2>4
    <3> HIDE DEF T
    <3> QED  BY <2>2, <2>3, <3>1
  <2> QED  BY <2>4
<1> QED  BY <1>3, <1>4

LEMMA Greatest ==
  ASSUME NEW n \in Nat, NEW S \in SUBSET (0 .. n), S # {}
  PROVE  Max(S) \in S /\ \A y \in S : y <= Max(S)
<1>1. \E x \in S : \A y \in S : x >= y
  BY Extremes
<1> QED  BY <1>1 DEF Max

LEMMA Least ==
  ASSUME NEW n \in Nat, NEW S \in SUBSET (0 .. n), S # {}
  PROVE  Min(S) \in S /\ \A y \in S : Min(S) <= y
<1>1. \E x \in S : \A y \in S : x <= y
  BY Extremes
<1> QED  BY <1>1 DEF Min

LEMMA Slowest ==
  ASSUME NEW O, O # {}, NEW f \in [O -> 1 .. 4]
  PROVE  /\ Min({f[o] : o \in O}) \in 1 .. 4
         /\ \E o \in O : f[o] = Min({f[p] : p \in O})
         /\ \A o \in O : Min({f[p] : p \in O}) <= f[o]
<1> DEFINE S == {f[o] : o \in O}
<1>1. S \in SUBSET (0 .. 4) /\ S # {}
  <2>1. \A o \in O : f[o] \in 0 .. 4
    OBVIOUS
  <2> QED  BY <2>1
<1>2. Min(S) \in S /\ \A y \in S : Min(S) <= y
  <2> HIDE DEF S
  <2> QED  BY <1>1, Least
<1> QED  BY <1>2

\* When sizes stay where they are or go from one point to the next, so does
\* the slowest of them.
LEMMA OneAhead ==
  ASSUME NEW O, O # {}, NEW f \in [O -> 1 .. 4], NEW g \in [O -> 1 .. 4], NEW k \in 1 .. 3,
         \A o \in O : g[o] = f[o] \/ (f[o] = k /\ g[o] = k + 1)
  PROVE  LET m == Min({f[o] : o \in O})
             n == Min({g[o] : o \in O})
         IN  n = m \/ (m = k /\ n = k + 1)
<1> DEFINE m == Min({f[o] : o \in O})
           n == Min({g[o] : o \in O})
<1>1. m \in 1 .. 4 /\ (\E o \in O : f[o] = m) /\ \A o \in O : m <= f[o]
  BY Slowest
<1>2. n \in 1 .. 4 /\ (\E o \in O : g[o] = n) /\ \A o \in O : n <= g[o]
  BY Slowest
<1> HIDE DEF m, n
<1>3. PICK p \in O : f[p] = m
  BY <1>1
<1>4. PICK q \in O : g[q] = n
  BY <1>2
<1>5. n <= g[p] /\ m <= f[q]
  BY <1>1, <1>2
<1>6. n = m \/ (m = k /\ n = k + 1)
  BY <1>1, <1>2, <1>3, <1>4, <1>5
<1> QED  BY <1>6 DEF m, n

\* How far a report, and an order, is along.
RankOf(i) == STAGE_RANK[StageOfReport(i)]
Rank(o) == STAGE_RANK[Stage(o)]
ReportsRanked == \A i \in Report : Counts(i) =>
    /\ RankOf(i) \in 1 .. 4
    /\ RankOf(i) = IF reports[i].status = "RECONCILED" \/ ship[i].at = "there" THEN 4
                   ELSE IF reports[i].status = "IN_TRANSIT" THEN 3
                   ELSE IF reports[i].status = "SUPERVISOR_REVIEW" THEN 2 ELSE 1
OrdersRanked == \A o \in Order :
    /\ Current(o) \in {0} \cup Report
    /\ Current(o) # 0 => Current(o) \in OfOrder(o) /\ Counts(Current(o))
    /\ \A i \in OfOrder(o) : Counts(i) => i <= Current(o)
    /\ Rank(o) = IF Current(o) = 0 THEN 1 ELSE RankOf(Current(o))
    /\ Rank(o) \in 1 .. 4

LEMMA RanksOfReports ==
  TypeOK => ReportsRanked
<1> SUFFICES ASSUME TypeOK, NEW i \in Report, Counts(i)
             PROVE  /\ RankOf(i) \in 1 .. 4
                    /\ RankOf(i) = IF reports[i].status = "RECONCILED" \/ ship[i].at = "there" THEN 4
                                   ELSE IF reports[i].status = "IN_TRANSIT" THEN 3
                                   ELSE IF reports[i].status = "SUPERVISOR_REVIEW" THEN 2 ELSE 1
  BY DEF ReportsRanked
<1>1. reports[i].status \in {"DRAFT", "SUPERVISOR_REVIEW", "IN_TRANSIT", "RECONCILED", "REJECTED"}
  <2>1. reports[i] \in Row
    BY Rows
  <2> QED  BY <2>1, StatusOfRow DEF Counts, Status
<1>2. CASE reports[i].status = "RECONCILED" \/ ship[i].at = "there"
  BY <1>2 DEF RankOf, StageOfReport, STAGE_RANK
<1>3. CASE ~(reports[i].status = "RECONCILED" \/ ship[i].at = "there")
  BY <1>1, <1>3 DEF RankOf, StageOfReport, STAGE_RANK
<1> QED  BY <1>2, <1>3

LEMMA RanksOfOrders ==
  TypeOK => OrdersRanked
<1> SUFFICES ASSUME TypeOK, NEW o \in Order
             PROVE  /\ Current(o) \in {0} \cup Report
                    /\ Current(o) # 0 => Current(o) \in OfOrder(o) /\ Counts(Current(o))
                    /\ \A i \in OfOrder(o) : Counts(i) => i <= Current(o)
                    /\ Rank(o) = IF Current(o) = 0 THEN 1 ELSE RankOf(Current(o))
                    /\ Rank(o) \in 1 .. 4
  BY DEF OrdersRanked
<1> DEFINE S == {i \in OfOrder(o) : Counts(i)} \cup {0}
<1>1. Report = 1 .. Len(reports) /\ Len(reports) \in Nat /\ OfOrder(o) \subseteq Report
  BY Rows DEF Report, OfOrder
<1>2. S \in SUBSET (0 .. Len(reports)) /\ S # {}
  BY <1>1
<1>3. Current(o) = Max(S)
  BY DEF Current, Counts
<1>4. Current(o) \in S /\ \A i \in S : i <= Current(o)
  <2> HIDE DEF S
  <2> QED  BY <1>1, <1>2, <1>3, Greatest
<1>5. Rank(o) = IF Current(o) = 0 THEN 1 ELSE RankOf(Current(o))
  BY DEF Rank, RankOf, Stage, STAGE_RANK
<1>6. Rank(o) \in 1 .. 4
  <2>1. Current(o) # 0 => RankOf(Current(o)) \in 1 .. 4
    BY <1>1, <1>4, RanksOfReports DEF ReportsRanked
  <2> QED  BY <1>5, <2>1
<1> QED  BY <1>1, <1>4, <1>5, <1>6

\* What CardMoves says of one step.
CardStep ==
    LET before == IF orders = <<>> THEN 1 ELSE Card
        after == Card'
    IN  \/ after = before
        \/ after <= STAGE_RANK.IN_REVIEW
        \/ <<before, after>> = <<STAGE_RANK.IN_REVIEW, STAGE_RANK.ON_THE_WAY>>
        \/ <<before, after>> = <<STAGE_RANK.ON_THE_WAY, STAGE_RANK.ARRIVED>>

\* An order that is no further than in review keeps the request there.
LEMMA HeldBack ==
  ASSUME OrdersRanked', NEW o \in Order', Rank(o)' <= 2
  PROVE  CardStep
<1> DEFINE f == [p \in Order' |-> Rank(p)']
<1>1. f \in [Order' -> 1 .. 4]
  BY DEF OrdersRanked
<1>2. Min({f[p] : p \in Order'}) \in 1 .. 4 /\ Min({f[p] : p \in Order'}) <= f[o]
  <2> HIDE DEF f
  <2> QED  BY <1>1, Slowest
<1>3. Card' = Min({f[p] : p \in Order'})
  BY DEF Card, Rank
<1>4. Card' <= 2
  BY <1>2, <1>3, <1>1
<1> QED  BY <1>4 DEF CardStep, STAGE_RANK

\* A step in which the orders stay, each at its point or going to the next.
LEMMA MovedOn ==
  ASSUME OrdersRanked, OrdersRanked', orders' = orders, orders # <<>>, orders \in Seq(Size),
         NEW k \in {2, 3},
         \A o \in Order : Rank(o)' = Rank(o) \/ (Rank(o) = k /\ Rank(o)' = k + 1)
  PROVE  CardStep
<1> DEFINE f == [p \in Order |-> Rank(p)]
           g == [p \in Order |-> Rank(p)']
<1>1. Order' = Order /\ Order # {}
  <2>1. Len(orders) \in Nat /\ Len(orders) # 0 /\ Order = 1 .. Len(orders)
    BY LenProperties, EmptySeq DEF Order
  <2>2. 1 \in 1 .. Len(orders)
    BY <2>1
  <2>3. Order' = Order
    BY DEF Order
  <2> QED  BY <2>1, <2>2, <2>3
<1>2. f \in [Order -> 1 .. 4] /\ g \in [Order -> 1 .. 4]
  BY <1>1 DEF OrdersRanked
<1>3. \A o \in Order : g[o] = f[o] \/ (f[o] = k /\ g[o] = k + 1)
  OBVIOUS
<1>4. Card = Min({f[p] : p \in Order}) /\ Card' = Min({g[p] : p \in Order})
  BY <1>1 DEF Card, Rank
<1> HIDE DEF f, g
<1>5. Card' = Card \/ (Card = k /\ Card' = k + 1)
  BY <1>1, <1>2, <1>3, <1>4, OneAhead
<1> QED  BY <1>5 DEF CardStep, STAGE_RANK

LEMMA OrderlyBefore ==
  ASSUME NEW of, NEW sent, Apart(of, sent) \/ history' = history, Orderly'
  PROVE  Orderly
BY DEF Apart, Orderly

\* Reports change in place, each keeping its rank, going to the next, or
\* getting one that is no further than in review.
LEMMA CardInPlace ==
  ASSUME TypeOK, TypeOK', NEW Z, InPlace(Z), <<reports, ship>>' # <<reports, ship>>, NEW k \in {2, 3},
         \A i \in Report : Counts(i)' <=> Counts(i),
         \A i \in Report : Counts(i) => \/ RankOf(i)' = RankOf(i)
                                        \/ RankOf(i) = k /\ RankOf(i)' = k + 1
                                        \/ RankOf(i)' <= 2
  PROVE  CardStep
<1>1. OrdersRanked /\ OrdersRanked'
  <2>1. TypeOK' => OrdersRanked'
    BY RanksOfOrders, PTL
  <2> QED  BY <2>1, RanksOfOrders
<1>2. orders' = orders /\ orders \in Seq(Size) /\ Report' = Report /\ \A o : OfOrder(o)' = OfOrder(o)
  BY InPlaceGrown DEF InPlace, TypeOK
<1>3. orders # <<>>
  <2> SUFFICES ASSUME orders = <<>> PROVE FALSE
    OBVIOUS
  <2>1. Order = {} /\ Report = {}
    <3>1. Len(orders) = 0 /\ Order = 1 .. Len(orders)
      BY Rows, EmptySeq DEF Order
    <3> QED  BY <3>1, Rows
  <2>2. Len(reports) = 0 /\ Len(ship) = 0 /\ Len(reports') = 0 /\ Len(ship') = 0
    <3>1. Len(reports) \in Nat /\ Report = 1 .. Len(reports) /\ Len(ship) = Len(reports)
      BY Rows DEF Report, TypeOK
    <3>2. Len(reports') = Len(reports) /\ Len(ship') = Len(reports')
      BY DEF InPlace, TypeOK
    <3>3. Len(reports) = 0
      BY <2>1, <3>1
    <3> QED  BY <3>1, <3>2, <3>3
  <2>3. reports = <<>> /\ ship = <<>> /\ reports' = <<>> /\ ship' = <<>>
    <3>1. reports \in Seq(Row) /\ ship \in Seq(Carried) /\ reports' \in Seq(Row) /\ ship' \in Seq(Carried)
      BY DEF TypeOK, InPlace
    <3> QED  BY <2>2, <3>1, EmptySeq
  <2> QED  BY <2>3
<1>4. ASSUME NEW o \in Order
      PROVE  Rank(o)' = Rank(o) \/ (Rank(o) = k /\ Rank(o)' = k + 1) \/ Rank(o)' <= 2
  <2>1. Current(o)' = Current(o)
    <3>1. {i \in OfOrder(o)' : Counts(i)'} = {i \in OfOrder(o) : Counts(i)}
      BY <1>2 DEF OfOrder
    <3>2. Current(o) = Max({i \in OfOrder(o) : Counts(i)} \cup {0})
      BY DEF Current, Counts
    <3>3. Current(o)' = Max({i \in OfOrder(o)' : Counts(i)'} \cup {0})
      BY DEF Current, Counts
    <3> QED  BY <3>1, <3>2, <3>3
  <2>2. Order' = Order
    BY <1>2 DEF Order
  <2>3. /\ Rank(o) = IF Current(o) = 0 THEN 1 ELSE RankOf(Current(o))
        /\ Current(o) # 0 => Current(o) \in Report /\ Counts(Current(o))
    BY <1>1 DEF OrdersRanked
  <2>4. Rank(o)' = IF Current(o)' = 0 THEN 1 ELSE RankOf(Current(o))'
    BY <1>1, <2>1, <2>2 DEF OrdersRanked
  <2>5. CASE Current(o) = 0
    BY <2>1, <2>3, <2>4, <2>5
  <2>6. CASE Current(o) # 0
    BY <2>1, <2>3, <2>4, <2>6
  <2> QED  BY <2>5, <2>6
<1>5. CASE \E o \in Order : Rank(o)' <= 2
  <2>1. Order' = Order
    BY <1>2 DEF Order
  <2> QED  BY <1>1, <1>5, <2>1, HeldBack
<1>6. CASE \A o \in Order : ~(Rank(o)' <= 2)
  BY <1>1, <1>2, <1>3, <1>4, <1>6, MovedOn
<1> QED  BY <1>5, <1>6

\* A new report of an order becomes its current one, and is not sent yet.
LEMMA CardGrown ==
  ASSUME TypeOK, TypeOK', NEW n \in Report' \ Report,
         \A i \in Report' \ Report : /\ ship'[i].at = "farm"
                                     /\ reports'[i].status \in {"DRAFT", "SUPERVISOR_REVIEW"}
  PROVE  CardStep
<1>1. OrdersRanked' /\ ReportsRanked'
  <2>1. TypeOK' => OrdersRanked' /\ ReportsRanked'
    BY RanksOfOrders, RanksOfReports, PTL
  <2> QED  BY <2>1
<1>2. PICK o \in Order' : o = reports'[n].order
  BY DEF TypeOK
<1>3. n \in OfOrder(o)' /\ Counts(n)'
  BY <1>2 DEF OfOrder, Counts
<1>4. Report = 1 .. Len(reports) /\ Len(reports) \in Nat
  BY Rows DEF Report
<1>5. Report' = 1 .. Len(reports') /\ Len(reports') \in Nat
  BY LenProperties DEF Report, TypeOK
<1>6. Current(o)' \in {0} \cup Report' /\ n <= Current(o)'
  BY <1>1, <1>3 DEF OrdersRanked
<1>7. Current(o)' \in Report' \ Report
  BY <1>4, <1>5, <1>6
<1>8. PICK i \in Report' \ Report : i = Current(o)'
  BY <1>7
<1>9. Counts(i)' /\ i # 0 /\ Rank(o)' = RankOf(i)'
  <2>1. i # 0
    BY <1>5, <1>8
  <2> QED  BY <1>1, <1>8, <2>1 DEF OrdersRanked
<1>10. Rank(o)' <= 2
  BY <1>1, <1>8, <1>9 DEF ReportsRanked
<1> QED  BY <1>1, <1>10, HeldBack

-----------------------------------------------------------------------------
(* Each handler and the card. *)

\* A submission or a rejection puts what it is about in review, or before it.
LEMMA CardAtStatus ==
  ASSUME IInv, IInv', Orderly, NEW r \in Request, NEW s \in {"SUPERVISOR_REVIEW", "REJECTED"},
         Working(r), call[r].op \in {"submit", "reject"},
         SetStatus(call[r].on, s), UNCHANGED <<orders, ship, trips>>,
         <<reports, ship>>' # <<reports, ship>>
  PROVE  CardStep
<1>1. TypeOK /\ TypeOK' /\ WhatLeftStands /\ ReadStill(call[r])
  BY DEF IInv, WorkOK
<1>2. PICK on, Z : on = call[r].on /\ Z = call[r].sizes
  OBVIOUS
<1>3. /\ InPlace(Z) /\ on \in SUBSET Report
      /\ \A i \in Report : /\ reports'[i].status = IF i \in on THEN s ELSE reports[i].status
                           /\ i \notin on => reports'[i] = reports[i]
  BY <1>1, <1>2, StatusCommit DEF Status
<1>4. \A i \in on : Editable(i)
  <2>1. call[r].op = "reject" => \A i \in on : InReview(i)
    BY <1>1, <1>2 DEF ReadStill
  <2>2. call[r].op = "submit" => \A i \in on : Editable(i)
    BY <1>1, <1>2 DEF ReadStill
  <2> QED  BY <2>1, <2>2 DEF InReview, Editable, EDITABLE_STATUSES
<1>5. \A i \in on : Counts(i) /\ ship[i].at = "farm"
  <2>1. \A i \in on : reports[i].status \notin Out \cup {"CANCELLED"}
    BY <1>4 DEF Editable, EDITABLE_STATUSES, Out
  <2> QED  BY <1>1, <1>3, <2>1 DEF WhatLeftStands, Counts
<1>6. \A i \in Report : Counts(i)' <=> Counts(i)
  BY <1>3, <1>5 DEF Counts
<1>7. ReportsRanked /\ ReportsRanked' /\ Report' = Report
  <2>1. TypeOK' => ReportsRanked'
    BY RanksOfReports, PTL
  <2> QED  BY <1>1, <1>3, <2>1, RanksOfReports DEF InPlace
<1>8. ASSUME NEW i \in Report, Counts(i)
      PROVE  RankOf(i)' = RankOf(i) \/ RankOf(i)' <= 2
  <2>1. ship'[i] = ship[i]
    OBVIOUS
  <2>2. CASE i \in on
    <3>1. reports'[i].status = s /\ ship'[i].at = "farm" /\ Counts(i)'
      BY <1>3, <1>5, <1>6, <2>1, <2>2
    <3> QED  BY <1>7, <3>1 DEF ReportsRanked
  <2>3. CASE i \notin on
    <3>1. reports'[i] = reports[i]
      BY <1>3, <2>3
    <3> QED  BY <2>1, <3>1 DEF RankOf, StageOfReport
  <2> QED  BY <2>2, <2>3
<1> QED  BY <1>1, <1>3, <1>6, <1>8, CardInPlace

LEMMA EditInPlace ==
  ASSUME TypeOK, TypeOK', NEW r \in Request, NEW n \in 2 .. MaxBags, CommitEdit(r, n)
  PROVE  InPlace(Size) /\ \A i \in Report : reports'[i].status = reports[i].status
<1>2. PICK on : on = call[r].on
  OBVIOUS
<1>3. /\ DOMAIN reports = 1 .. Len(reports) /\ Len(reports) \in Nat /\ DOMAIN reports = Report
      /\ \A i \in Report : reports[i] \in Row
  BY Rows DEF Report
<1>4. reports' = [i \in Report |-> IF i \in on THEN [reports[i] EXCEPT !.bags = n] ELSE reports[i]]
  BY <1>2 DEF CommitEdit
<1>5. Report' = Report /\ reports' \in Seq(Row) /\ Len(reports') = Len(reports)
  <2>1. Report' = Report
    BY <1>4 DEF Report
  <2>2. reports' \in Seq(Row) /\ Len(reports') \in Nat /\ DOMAIN reports' = 1 .. Len(reports')
    BY LenProperties DEF TypeOK
  <2> QED  BY <1>3, <2>1, <2>2 DEF Report
<1>6. \A i \in Report : /\ reports'[i].order = reports[i].order /\ reports'[i].trip = reports[i].trip
                        /\ reports'[i].by = reports[i].by /\ reports'[i].status = reports[i].status
  <2> SUFFICES ASSUME NEW i \in Report
               PROVE  /\ reports'[i].order = reports[i].order /\ reports'[i].trip = reports[i].trip
                      /\ reports'[i].by = reports[i].by /\ reports'[i].status = reports[i].status
    OBVIOUS
  <2>1. n \in Nat
    BY BoundAssumption
  <2>2. CASE i \in on
    <3>1. reports'[i] = [reports[i] EXCEPT !.bags = n]
      BY <1>4, <2>2
    <3> QED  BY <1>3, <2>1, <3>1, StatusOfRow
  <2>3. CASE i \notin on
    BY <1>4, <2>3
  <2> QED  BY <2>2, <2>3
<1>7. ship' = ship /\ UNCHANGED <<orders, trips>>
  BY DEF CommitEdit
<1>8. InPlace(Size)
  <2>1. \A i \in Report : SizeOf(i) \in Size
    BY Rows
  <2> QED  BY <1>5, <1>6, <1>7, <2>1 DEF InPlace
<1> QED  BY <1>6, <1>8

LEMMA CardEdit ==
  ASSUME IInv, IInv', NEW r \in Request, NEW n \in 2 .. MaxBags, CommitEdit(r, n),
         <<reports, ship>>' # <<reports, ship>>
  PROVE  CardStep
<1>1. TypeOK /\ TypeOK'
  BY DEF IInv
<1>2. InPlace(Size) /\ \A i \in Report : reports'[i].status = reports[i].status
  BY <1>1, EditInPlace
<1>3. ship' = ship
  BY DEF CommitEdit
<1>4. \A i \in Report : (Counts(i)' <=> Counts(i)) /\ RankOf(i)' = RankOf(i)
  BY <1>2, <1>3 DEF Counts, RankOf, StageOfReport
<1> QED  BY <1>1, <1>2, <1>4, CardInPlace

\* An approval takes its reports from review to the road.
LEMMA CardApprove ==
  ASSUME IInv, IInv', Orderly, NEW r \in Request, CommitApprove(r),
         <<reports, ship>>' # <<reports, ship>>
  PROVE  CardStep
<1>1. TypeOK /\ TypeOK' /\ WorkOK /\ WhatLeftStands
  BY DEF IInv
<1>2. Working(r) /\ call[r].op = "approve"
  BY DEF CommitApprove, At, Working, Idle
<1>3. PICK c : c = call[r]
  OBVIOUS
<1>4. /\ InPlace(c.sizes) /\ c.on \in SUBSET Report
      /\ \A i \in Report : /\ reports'[i].status = IF i \in c.on THEN "IN_TRANSIT" ELSE reports[i].status
                           /\ i \notin c.on => reports'[i] = reports[i]
  BY <1>1, <1>2, <1>3, StatusCommit DEF CommitApprove, Status, Leaving
<1>5. ship' = [i \in Report |-> IF i \in c.on THEN [at |-> "road", bags |-> c.bags[i]] ELSE ship[i]]
  BY <1>3 DEF CommitApprove, Leaving
<1>6. \A i \in c.on : InReview(i)
  BY <1>1, <1>2, <1>3 DEF WorkOK, ReadStill
<1>7. \A i \in c.on : Counts(i) /\ reports[i].status = "SUPERVISOR_REVIEW" /\ ship[i].at = "farm"
  BY <1>1, <1>4, <1>6 DEF InReview, Counts, WhatLeftStands, Out
<1>8. \A i \in Report : Counts(i)' <=> Counts(i)
  BY <1>4, <1>7 DEF Counts
<1>9. ReportsRanked /\ ReportsRanked' /\ Report' = Report
  <2>1. TypeOK' => ReportsRanked'
    BY RanksOfReports, PTL
  <2> QED  BY <1>1, <1>4, <2>1, RanksOfReports DEF InPlace
<1>10. ASSUME NEW i \in Report, Counts(i)
       PROVE  RankOf(i)' = RankOf(i) \/ (RankOf(i) = 2 /\ RankOf(i)' = 3)
  <2>1. CASE i \in c.on
    <3>1. RankOf(i) = 2
      BY <1>7, <1>9, <2>1 DEF ReportsRanked
    <3>2. reports'[i].status = "IN_TRANSIT" /\ ship'[i].at = "road" /\ Counts(i)'
      BY <1>4, <1>5, <1>8, <1>10, <2>1
    <3>3. RankOf(i)' = 3
      BY <1>9, <3>2 DEF ReportsRanked
    <3> QED  BY <3>1, <3>3
  <2>2. CASE i \notin c.on
    <3>1. reports'[i] = reports[i] /\ ship'[i] = ship[i]
      BY <1>4, <1>5, <2>2
    <3> QED  BY <3>1 DEF RankOf, StageOfReport
  <2> QED  BY <2>1, <2>2
<1>11. \E k \in {2, 3} : \A i \in Report : Counts(i) =>
           (RankOf(i)' = RankOf(i) \/ (RankOf(i) = k /\ RankOf(i)' = k + 1))
  BY <1>10
<1> QED  BY <1>1, <1>4, <1>8, <1>11, CardInPlace

\* Counting in takes a report from the road to the warehouse.
LEMMA CardCountIn ==
  ASSUME IInv, IInv', Orderly, NEW i \in Report, CountIn(i)
  PROVE  CardStep
<1>1. TypeOK /\ TypeOK' /\ WhatLeftStands
  BY DEF IInv
<1>2. PICK set : set = {i}
  OBVIOUS
<1>3. SetStatus(set, "RECONCILED") /\ set \in SUBSET Report /\ "RECONCILED" \in Status
  BY <1>2 DEF CountIn, Status
<1>4. /\ reports' \in Seq(Row) /\ Len(reports') = Len(reports) /\ Report' = Report
      /\ \A j \in Report : /\ reports'[j].order = reports[j].order
                           /\ reports'[j].trip = reports[j].trip
                           /\ reports'[j].by = reports[j].by
                           /\ j = i => reports'[j].status = "RECONCILED"
                           /\ j # i => reports'[j] = reports[j]
  <2>1. \A j : j \in set <=> j = i
    BY <1>2
  <2>2. /\ reports' \in Seq(Row) /\ Len(reports') = Len(reports) /\ Report' = Report
        /\ \A j \in Report : /\ reports'[j].order = reports[j].order
                             /\ reports'[j].trip = reports[j].trip
                             /\ reports'[j].by = reports[j].by
                             /\ j \in set => reports'[j].status = "RECONCILED"
                             /\ j \notin set => reports'[j] = reports[j]
    BY <1>1, <1>3, StatusSet
  <2> QED  BY <2>1, <2>2
<1>5. InPlace(Size)
  <2>1. UNCHANGED <<orders, trips>>
    BY DEF CountIn
  <2>2. \A j \in Report : SizeOf(j) \in Size
    BY <1>1, Rows
  <2> QED  BY <1>4, <2>1, <2>2 DEF InPlace
<1>6. /\ ship[i].at = "road" /\ ship'[i].at = "there" /\ DOMAIN ship = Report
      /\ \A j \in Report : j # i => ship'[j] = ship[j]
  <2>1. DOMAIN ship = Report /\ ship[i] \in Carried
    BY <1>1, Rows
  <2>2. ship' = [ship EXCEPT ![i].at = "there"] /\ ship[i].at = "road"
    BY DEF CountIn
  <2> QED  BY <2>1, <2>2 DEF Carried
<1>7. <<reports, ship>>' # <<reports, ship>>
  BY <1>6
<1>8. reports[i].status \in Out
  BY <1>1, <1>6 DEF WhatLeftStands
<1>9. \A j \in Report : Counts(j)' <=> Counts(j)
  BY <1>4, <1>8 DEF Counts, Out
<1>10. ReportsRanked /\ ReportsRanked'
  <2>1. TypeOK' => ReportsRanked'
    BY RanksOfReports, PTL
  <2> QED  BY <1>1, <2>1, RanksOfReports
<1>11. ASSUME NEW j \in Report, Counts(j)
       PROVE  RankOf(j)' = RankOf(j) \/ (RankOf(j) = 3 /\ RankOf(j)' = 4)
  <2>1. CASE j = i
    <3>1. RankOf(j) \in {3, 4}
      BY <1>6, <1>8, <1>10, <1>11, <2>1 DEF ReportsRanked, Out
    <3>2. reports'[j].status = "RECONCILED" /\ Counts(j)' /\ j \in Report'
      BY <1>4, <1>9, <1>11, <2>1
    <3>3. RankOf(j)' = 4
      BY <1>10, <3>2 DEF ReportsRanked
    <3> QED  BY <3>1, <3>3
  <2>2. CASE j # i
    <3>1. reports'[j] = reports[j] /\ ship'[j] = ship[j]
      BY <1>4, <1>6, <2>2
    <3> QED  BY <3>1 DEF RankOf, StageOfReport
  <2> QED  BY <2>1, <2>2
<1>12. \E k \in {2, 3} : \A j \in Report : Counts(j) =>
           (RankOf(j)' = RankOf(j) \/ (RankOf(j) = k /\ RankOf(j)' = k + 1))
  BY <1>11
<1> QED  BY <1>1, <1>5, <1>7, <1>9, <1>12, CardInPlace

LEMMA CardReport ==
  ASSUME IInv, IInv', NEW r \in Request, CommitReport(r)
  PROVE  CardStep
<1>1. TypeOK /\ TypeOK'
  BY DEF IInv
<1>2. Working(r) /\ call[r].op = "report"
  BY DEF CommitReport, At, Working, Idle
<1>3. PICK c : c = call[r]
  OBVIOUS
<1>4. c.by \in User /\ c.order \in Nat
  <2>1. c.by \in User /\ c.order \in Order
    BY <1>1, <1>2, <1>3 DEF TypeOK, Working, AimOK
  <2> QED  BY <1>1, <2>1, Rows
<1>5. PICK row : row = [order |-> c.order, trip |-> 0, by |-> c.by, bags |-> 1, status |-> "DRAFT"]
  OBVIOUS
<1>6. row \in Row /\ row.status = "DRAFT"
  BY <1>4, <1>5 DEF Row, Status
<1>7. PICK rows, old : rows = <<row>> /\ old = reports
  OBVIOUS
<1>8. reports' = old \o rows /\ Unshipped(rows)
  BY <1>3, <1>5, <1>7 DEF CommitReport, NewReport
<1>9. rows \in Seq(Row) /\ DOMAIN rows = {1} /\ Len(rows) = 1 /\ \A k \in DOMAIN rows : rows[k] = row
  BY <1>6, <1>7
<1>10. old \in Seq(Row) /\ Len(old) = Len(reports)
  BY <1>1, <1>7 DEF TypeOK
<1>11. \A i \in Report' \ Report :
          /\ ship'[i].at = "farm"
          /\ \E k \in DOMAIN rows : i = Len(reports) + k /\ reports'[i] = rows[k]
  BY <1>1, <1>8, <1>9, <1>10, Appended
<1>12. Report' \ Report # {}
  <2>1. Len(reports) \in Nat /\ Report = 1 .. Len(reports)
    BY <1>1, Rows DEF Report
  <2>2. Len(reports') = Len(reports) + 1
    <3>1. Len(old \o rows) = Len(old) + Len(rows)
      BY <1>9, <1>10, ConcatProperties
    <3> QED  BY <1>8, <1>9, <1>10, <3>1
  <2>3. Report' = 1 .. Len(reports')
    BY <1>1, LenProperties DEF TypeOK, Report
  <2> QED  BY <2>1, <2>2, <2>3
<1>13. \A i \in Report' \ Report : /\ ship'[i].at = "farm"
                                   /\ reports'[i].status \in {"DRAFT", "SUPERVISOR_REVIEW"}
  BY <1>6, <1>9, <1>11
<1> QED  BY <1>1, <1>12, <1>13, CardGrown

LEMMA LoadAppends ==
  ASSUME TypeOK, NEW c, AimOK(c), c.op = "load", LoadsRows(c)
  PROVE  /\ Report \subseteq Report'
         /\ \A i \in Report : /\ ReplacedBy(c, i) \/ reports'[i] = reports[i]
                              /\ ship'[i] = ship[i] /\ reports'[i].order = reports[i].order
         /\ \A i \in Report' \ Report :
               /\ ship'[i].at = "farm"
               /\ \E k \in DOMAIN RowsOf(c) : i = Len(reports) + k /\ reports'[i] = RowsOf(c)[k]
         /\ Len(reports') = Len(reports) + Len(RowsOf(c))
<1>1. PICK rows : rows = RowsOf(c)
  OBVIOUS
<1>2. /\ rows \in Seq(Row)
      /\ \A k \in DOMAIN rows : /\ \E s \in c.sizes : rows[k].order = OrderOf(c, s)
                                /\ rows[k].trip = trips + 1 /\ rows[k].by = c.by
                                /\ rows[k].status = StatusOf(c)
      /\ \A j, k \in DOMAIN rows : rows[j].order = rows[k].order => j = k
  BY <1>1, NewRows DEF LoadsRows
<1>3. PICK old : old = OldRows(c)
  OBVIOUS
<1>4. /\ old \in Seq(Row) /\ Len(old) = Len(reports)
      /\ \A i \in Report : /\ old[i].order = reports[i].order /\ old[i].trip = reports[i].trip
                           /\ old[i].by = reports[i].by
                           /\ ReplacedBy(c, i) => old[i].status = "CANCELLED"
                           /\ ~ReplacedBy(c, i) => old[i] = reports[i]
  BY <1>3, OldRowsAre
<1>5. reports' = old \o rows /\ Unshipped(rows)
  BY <1>1, <1>3 DEF LoadsRows
<1>6. /\ reports' \in Seq(Row) /\ ship' \in Seq(Carried) /\ Len(ship') = Len(reports')
      /\ Report \subseteq Report'
      /\ \A i \in Report : reports'[i] = old[i] /\ ship'[i] = ship[i]
      /\ \A i \in Report' \ Report :
            /\ ship'[i].at = "farm"
            /\ \E k \in DOMAIN rows : i = Len(reports) + k /\ reports'[i] = rows[k]
  BY <1>2, <1>4, <1>5, Appended
<1>7. Len(reports') = Len(reports) + Len(rows)
  <2>1. Len(old \o rows) = Len(old) + Len(rows)
    <3>1. old \in Seq(Row)
      BY <1>4
    <3>2. rows \in Seq(Row)
      BY <1>2
    <3> QED  BY ONLY <3>1, <3>2, ConcatProperties
  <2> QED  BY <1>4, <1>5, <2>1
<1> QED  BY <1>1, <1>4, <1>6, <1>7

LEMMA CardLoad ==
  ASSUME IInv, IInv', NEW r \in Request, CommitLoad(r), <<reports, ship>>' # <<reports, ship>>
  PROVE  CardStep
<1>1. TypeOK /\ TypeOK'
  BY DEF IInv
<1>2. Working(r) /\ call[r].op = "load"
  BY LoadWhat DEF At, Working, Idle
<1>3. PICK c : c = call[r]
  OBVIOUS
<1>4. AimOK(c) /\ c.op = "load" /\ LoadsRows(c)
  BY <1>1, <1>2, <1>3, LoadWhat DEF TypeOK, Working
<1>5. PICK rows : rows = RowsOf(c)
  OBVIOUS
<1>6. orders' = orders \o SetToSeq(NewSizes(c))
  BY <1>4 DEF LoadsRows
<1>7. rows \in Seq(Row) /\ \A k \in DOMAIN rows : rows[k].status = StatusOf(c)
  BY <1>1, <1>4, <1>5, <1>6, NewRows
<1>8. /\ Report \subseteq Report'
      /\ \A i \in Report : /\ ReplacedBy(c, i) \/ reports'[i] = reports[i]
                           /\ ship'[i] = ship[i]
      /\ \A i \in Report' \ Report :
            /\ ship'[i].at = "farm"
            /\ \E k \in DOMAIN rows : i = Len(reports) + k /\ reports'[i] = rows[k]
      /\ Len(reports') = Len(reports) + Len(rows)
  BY <1>1, <1>4, <1>5, LoadAppends
<1>9. StatusOf(c) \in {"DRAFT", "SUPERVISOR_REVIEW"}
  BY DEF StatusOf
<1>10. \A i \in Report' \ Report : /\ ship'[i].at = "farm"
                                   /\ reports'[i].status \in {"DRAFT", "SUPERVISOR_REVIEW"}
  BY <1>7, <1>8, <1>9
<1>11. CASE Report' \ Report # {}
  BY <1>1, <1>10, <1>11, CardGrown
\* A truck has a size at least: without a new report there is no load.
<1>12. CASE Report' \ Report = {}
  <2>1. Report' = Report
    BY <1>8, <1>12
  <2>2. /\ Len(reports) \in Nat /\ Report = 1 .. Len(reports)
        /\ Len(reports') \in Nat /\ Report' = 1 .. Len(reports')
    BY <1>1, Rows, LenProperties DEF TypeOK, Report
  <2>3. Len(reports') = Len(reports)
    BY <2>1, <2>2
  <2>4. Len(rows) = 0
    <3>1. Len(rows) \in Nat
      BY <1>7, LenProperties
    <3> QED  BY <1>8, <2>2, <2>3, <3>1
  <2>5. c.sizes = {}
    <3>1. IsFiniteSet(c.sizes)
      BY <1>4, SizesFinite DEF AimOK
    <3>2. PICK n \in Nat : n = Cardinality(c.sizes)
      BY <3>1, FS_CardinalityType
    <3>3. DOMAIN rows = 1 .. n
      BY <1>5, <3>2 DEF RowsOf
    <3>4. DOMAIN rows = {}
      BY <1>7, <2>4, LenProperties
    <3>5. n = 0
      BY <3>2, <3>3, <3>4
    <3> QED  BY <3>1, <3>2, <3>5, FS_EmptySet
  <2>6. \A i \in Report : reports'[i] = reports[i] /\ ship'[i] = ship[i]
    <3>1. \A i \in Report : ~ReplacedBy(c, i)
      BY <2>5 DEF ReplacedBy
    <3> QED  BY <1>8, <3>1
  <2>7. reports' = reports
    BY <1>1, <2>2, <2>3, <2>6, SeqEqual DEF TypeOK
  <2>8. ship' = ship
    BY <1>1, <2>2, <2>3, <2>6, SeqEqual DEF TypeOK
  <2> QED  BY <2>7, <2>8
<1> QED  BY <1>11, <1>12

LEMMA CardNext ==
  ASSUME IInv, IInv', [Next]_vars, <<reports, ship>>' # <<reports, ship>>, Orderly'
  PROVE  CardStep
<1>1. ASSUME NEW u \in User, NEW sizes \in SUBSET Size, Ask(u, sizes) PROVE FALSE
  BY <1>1 DEF Ask
<1>2. ASSUME NEW r \in Request, Decide(r) PROVE FALSE
  BY <1>2 DEF Decide, BeginDecide, BeginOn, Begin
<1>3. ASSUME NEW r \in Request, NEW u \in Loaders, Prepare(r, u) PROVE FALSE
  BY <1>3 DEF Prepare, BeginLoad, BeginReport, BeginSubmit, BeginEdit, BeginOn, Begin
<1>4. ASSUME NEW r \in Request, CommitLoad(r) PROVE CardStep
  BY <1>4, CardLoad
<1>5. ASSUME NEW r \in Request, CommitReport(r) PROVE CardStep
  BY <1>5, CardReport
<1>6. ASSUME NEW r \in Request, CommitSubmit(r) PROVE CardStep
  <2>1. Orderly /\ Working(r) /\ call[r].op = "submit"
    BY <1>6, OrderlyBefore DEF CommitSubmit, At, Working, Idle
  <2>2. SetStatus(call[r].on, "SUPERVISOR_REVIEW") /\ UNCHANGED <<orders, ship, trips>>
    BY <1>6 DEF CommitSubmit
  <2> QED  BY <2>1, <2>2, CardAtStatus
<1>7. ASSUME NEW r \in Request, CommitReject(r) PROVE CardStep
  <2>1. Orderly /\ Working(r) /\ call[r].op = "reject"
    BY <1>7, OrderlyBefore DEF CommitReject, At, Working, Idle
  <2>2. SetStatus(call[r].on, "REJECTED") /\ UNCHANGED <<orders, ship, trips>>
    BY <1>7 DEF CommitReject
  <2> QED  BY <2>1, <2>2, CardAtStatus
<1>8. ASSUME NEW r \in Request, NEW n \in 2 .. MaxBags, CommitEdit(r, n) PROVE CardStep
  BY <1>8, CardEdit
<1>9. ASSUME NEW r \in Request, CommitApprove(r) PROVE CardStep
  <2>1. Orderly
    BY <1>9, OrderlyBefore DEF CommitApprove
  <2> QED  BY <1>9, <2>1, CardApprove
<1>10. ASSUME NEW r \in Request, FollowUp(r) \/ Fail(r) PROVE FALSE
  BY <1>10 DEF FollowUp, Fail
<1>11. ASSUME NEW i \in Report, CountIn(i) PROVE CardStep
  <2>1. Orderly
    BY <1>11 DEF CountIn, Crossing, Orderly
  <2> QED  BY <1>11, <2>1, CardCountIn
<1>12. ASSUME NEW u \in User, NEW to \in MovedTo, MoveTask(u, to) PROVE FALSE
  BY <1>12 DEF MoveTask
<1>13. CASE UNCHANGED vars
  BY <1>13 DEF vars
<1>14. CASE Next
  BY <1>1, <1>2, <1>3, <1>4, <1>5, <1>6, <1>7, <1>8, <1>9, <1>10, <1>11, <1>12, <1>14 DEF Next
<1> QED  BY <1>13, <1>14

\* trackingOf and buildRequestCards: until requests cross, the card of the
\* request goes back no further than to review, and forward from there one
\* point at a time, by approval and arrival. Supply.tla takes this for granted.
THEOREM CardsMoveInOrder == Spec => CardMoves
<1>1. IInv /\ IInv' /\ [Next]_vars =>
         [<<reports, ship>>' # <<reports, ship>> /\ Orderly' => CardStep]_vars
  BY CardNext
<1>2. CardMoves <=> [][<<reports, ship>>' # <<reports, ship>> /\ Orderly' => CardStep]_vars
  BY DEF CardMoves, CardStep
<1> QED  BY <1>1, <1>2, DispatchInductive, PTL DEF Spec

-----------------------------------------------------------------------------
(* Bags are neither lost nor made. *)

LEMMA ReportsAddUp ==
  ASSUME TypeOK
  PROVE  /\ IsFiniteSet(Report)
         /\ \A s : OfSize(s) \in SUBSET Report /\ IsFiniteSet(OfSize(s))
         /\ Shipped \in [Report -> Nat] /\ \A i \in Report : Shipped[i] = ship[i].bags
<1>1. IsFiniteSet(Report)
  <2>1. Report = 1 .. Len(reports) /\ Len(reports) \in Nat
    BY Rows DEF Report
  <2> QED  BY <2>1, FS_Interval
<1>2. ASSUME NEW s PROVE OfSize(s) \in SUBSET Report /\ IsFiniteSet(OfSize(s))
  <2>1. OfSize(s) \in SUBSET Report
    BY DEF OfSize
  <2> QED  BY <1>1, <2>1, FS_Subset
<1>3. \A i \in Report : ship[i].bags \in Nat
  BY Rows DEF Carried
<1>4. Shipped \in [Report -> Nat] /\ \A i \in Report : Shipped[i] = ship[i].bags
  BY <1>3 DEF Shipped
<1> QED  BY <1>1, <1>2, <1>4

CanBeAdded ==
  /\ IsFiniteSet(Report)
  /\ \A s : OfSize(s) \in SUBSET Report /\ IsFiniteSet(OfSize(s))
  /\ Shipped \in [Report -> Nat] /\ \A i \in Report : Shipped[i] = ship[i].bags

LEMMA ReportsAddUpNow == TypeOK => CanBeAdded
BY ReportsAddUp DEF CanBeAdded

\* A step that takes nothing from the farm, and makes no report with bags.
LEMMA StockStill ==
  ASSUME TypeOK, TypeOK', StockOK, farm' = farm, Report \subseteq Report',
         \A i \in Report : /\ ship'[i].bags = ship[i].bags /\ SizeOf(i)' = SizeOf(i)
                           /\ ship'[i].at = "farm" => ship[i].at = "farm",
         \A i \in Report' \ Report : ship'[i].bags = 0
  PROVE  StockOK'
<1>1. \A i \in Report' : ship'[i].at = "farm" => ship'[i].bags = 0
  BY DEF StockOK
<1>2. ASSUME NEW s \in Size
      PROVE  SumFunctionOnSet(Shipped', OfSize(s)') = SumFunctionOnSet(Shipped, OfSize(s))
  <2>1. PICK f, g, S, T : f = Shipped' /\ g = Shipped /\ S = OfSize(s)' /\ T = OfSize(s)
    OBVIOUS
  <2>2. g \in [Report -> Nat] /\ (\A i \in Report : g[i] = ship[i].bags) /\ T \in SUBSET Report
    BY <2>1, ReportsAddUp
  <2>3. /\ f \in [Report' -> Nat] /\ (\A i \in Report' : f[i] = ship'[i].bags)
        /\ S \in SUBSET Report' /\ IsFiniteSet(S)
    <3>1. TypeOK' => CanBeAdded'
      BY ReportsAddUpNow, PTL
    <3>2. CanBeAdded'
      BY <3>1
    <3> QED  BY <2>1, <3>2 DEF CanBeAdded
  <2>4. \A i : i \in T <=> i \in Report /\ SizeOf(i) = s
    BY <2>1 DEF OfSize
  <2>5. \A i : i \in S <=> i \in Report' /\ SizeOf(i)' = s
    BY <2>1 DEF OfSize
  <2>6. T \in SUBSET S /\ \A i \in S \ T : i \in Report' \ Report
    BY <2>4, <2>5
  <2>7. /\ \A i \in S : f[i] \in Nat
        /\ \A i \in T : g[i] = f[i]
        /\ \A i \in S \ T : f[i] = 0
    BY <2>2, <2>3, <2>6
  <2>8. SumFunctionOnSet(f, S) = SumFunctionOnSet(g, T)
    BY <2>3, <2>6, <2>7, SumWithin
  <2> QED  BY <2>1, <2>8
<1> QED  BY <1>1, <1>2 DEF StockOK, BagsConserved

LEMMA StockInPlace ==
  ASSUME TypeOK, TypeOK', StockOK, NEW Z, InPlace(Z), farm' = farm,
         \A i \in Report : ship'[i].bags = ship[i].bags /\ (ship'[i].at = "farm" => ship[i].at = "farm")
  PROVE  StockOK'
<1>1. Report' = Report /\ \A i \in Report : SizeOf(i)' = SizeOf(i)
  BY DEF InPlace, SizeOf
<1> QED  BY <1>1, StockStill

\* New reports have no shipment.
LEMMA StockAppended ==
  ASSUME TypeOK, TypeOK', StockOK, farm' = farm, NEW rows \in Seq(Row), Unshipped(rows),
         Report \subseteq Report', \A i \in Report : reports'[i].order = reports[i].order,
         \A o \in Order : orders'[o] = orders[o]
  PROVE  StockOK'
<1>1. /\ ship \in Seq(Carried) /\ DOMAIN ship = Report /\ Report = 1 .. Len(ship) /\ Len(ship) \in Nat
  BY Rows, LenProperties DEF TypeOK
<1> DEFINE none == [k \in DOMAIN rows |-> NoShip]
<1>2. DOMAIN rows = 1 .. Len(rows) /\ Len(rows) \in Nat
  BY LenProperties
<1>3. none \in Seq(Carried) /\ Len(none) = Len(rows)
  <2>1. NoShip \in Carried
    BY DEF NoShip, Carried
  <2>2. none \in [1 .. Len(rows) -> Carried]
    BY <1>2, <2>1
  <2> QED  BY <1>2, <2>2, FunctionIsSeq
<1>4. \A k \in DOMAIN rows : none[k] = NoShip
  OBVIOUS
<1>5. ship' = ship \o none
  BY DEF Unshipped
<1> HIDE DEF none
<1>6. /\ \A i \in 1 .. Len(ship) : (ship \o none)[i] = ship[i]
      /\ \A i \in 1 .. Len(ship) + Len(none) : i \notin 1 .. Len(ship) =>
            i - Len(ship) \in 1 .. Len(none) /\ (ship \o none)[i] = none[i - Len(ship)]
      /\ Len(ship \o none) = Len(ship) + Len(none)
  <2>1. Len(none) \in Nat
    BY <1>2, <1>3
  <2>2. /\ Len(ship \o none) = Len(ship) + Len(none)
        /\ \A i \in 1 .. Len(ship) + Len(none) :
              (ship \o none)[i] = IF i <= Len(ship) THEN ship[i] ELSE none[i - Len(ship)]
    BY <1>1, <1>3, ConcatProperties
  <2> QED  BY <1>1, <2>1, <2>2
<1>7. Report' = 1 .. Len(ship')
  <2>1. reports' \in Seq(Row) /\ Len(ship') = Len(reports')
    BY DEF TypeOK
  <2> QED  BY <2>1, LenProperties DEF Report
<1>8. ASSUME NEW i \in Report' \ Report PROVE ship'[i].bags = 0
  <2>1. i \in 1 .. Len(ship) + Len(none) /\ i \notin 1 .. Len(ship)
    BY <1>1, <1>5, <1>6, <1>7
  <2>2. ship'[i] = none[i - Len(ship)] /\ i - Len(ship) \in DOMAIN rows
    BY <1>2, <1>3, <1>5, <1>6, <2>1
  <2> QED  BY <1>4, <2>2 DEF NoShip
<1>9. \A i \in Report : ship'[i] = ship[i]
  BY <1>1, <1>5, <1>6
<1>10. \A i \in Report : SizeOf(i)' = SizeOf(i)
  <2>1. \A i \in Report : reports[i].order \in Order
    BY DEF TypeOK
  <2> QED  BY <2>1 DEF SizeOf
<1> QED  BY <1>8, <1>9, <1>10, StockStill

\* An approval takes from the farm what its shipments carry.
LEMMA StockApprove ==
  ASSUME IInv, TypeOK', StockOK, NEW r \in Request, CommitApprove(r)
  PROVE  StockOK'
<1>1. TypeOK
  BY DEF IInv
<1>2. Working(r) /\ call[r].op = "approve"
  BY DEF CommitApprove, At, Working, Idle
<1>3. PICK c : c = call[r]
  OBVIOUS
<1>4. InPlace(c.sizes) /\ c.on \in SUBSET Report
  BY <1>1, <1>2, <1>3, StatusCommit DEF CommitApprove, Status, Leaving
<1>5. c.bags \in [c.on -> Nat]
  BY <1>1, <1>2, <1>3 DEF TypeOK, Working, AimOK
<1>6. /\ ship' = [i \in Report |-> IF i \in c.on THEN [at |-> "road", bags |-> c.bags[i]] ELSE ship[i]]
      /\ \A i \in c.on : ship[i].at = "farm"
      /\ \A s \in Size : Load(r, c.on, s) <= farm[s]
      /\ farm' = [s \in Size |-> farm[s] - Load(r, c.on, s)]
  BY <1>3 DEF CommitApprove, Leaving, HasShip
<1>7. Report' = Report /\ \A s : OfSize(s)' = OfSize(s)
  BY <1>4 DEF InPlace, OfSize, SizeOf
<1>8. /\ IsFiniteSet(Report)
      /\ \A s : OfSize(s) \in SUBSET Report /\ IsFiniteSet(OfSize(s))
      /\ Shipped \in [Report -> Nat] /\ \A i \in Report : Shipped[i] = ship[i].bags
  BY <1>1, ReportsAddUp
<1>9. Shipped' = [i \in Report |-> ship'[i].bags]
  BY <1>7 DEF Shipped
<1>10. \A i \in Report : Shipped'[i] = IF i \in c.on THEN c.bags[i] ELSE Shipped[i]
  BY <1>6, <1>8, <1>9
<1>11. ASSUME NEW s \in Size
       PROVE  /\ Load(r, c.on, s) \in Nat
              /\ SumFunctionOnSet(Shipped', OfSize(s)') =
                    SumFunctionOnSet(Shipped, OfSize(s)) + Load(r, c.on, s)
  <2>1. PICK b : b = [i \in c.on |-> IF SizeOf(i) = s THEN c.bags[i] ELSE 0]
    OBVIOUS
  <2>2. PICK e : e = [i \in Report |-> IF i \in c.on THEN c.bags[i] ELSE 0]
    OBVIOUS
  <2>3. PICK S : S = OfSize(s)
    OBVIOUS
  <2>4. S \in SUBSET Report /\ IsFiniteSet(S) /\ IsFiniteSet(c.on) /\ \A i \in Report : i \in S <=> SizeOf(i) = s
    <3>1. IsFiniteSet(c.on)
      BY <1>4, <1>8, FS_Subset
    <3> QED  BY <1>8, <2>3, <3>1 DEF OfSize
  <2>5. Load(r, c.on, s) = SumFunctionOnSet(b, c.on)
    BY <1>3, <2>1 DEF Load
  <2>6. \A i \in c.on : b[i] \in Nat /\ (i \in S => b[i] = c.bags[i]) /\ (i \notin S => b[i] = 0)
    BY <1>4, <1>5, <2>1, <2>4
  <2>7. \A i \in Report : e[i] = (IF i \in c.on THEN c.bags[i] ELSE 0) /\ e[i] \in Nat
    BY <1>5, <2>2
  <2>8. SumFunctionOnSet(b, c.on) \in Nat
    BY <2>4, <2>6, SumRest
  <2>9. SumFunctionOnSet(b, c.on) = SumFunctionOnSet(b, c.on \cap S)
    <3>1. PICK T : T = c.on \cap S
      OBVIOUS
    <3>2. T \in SUBSET c.on /\ (\A i \in c.on : b[i] \in Nat) /\ \A i \in c.on \ T : b[i] = 0
      BY <2>6, <3>1
    <3>3. SumFunctionOnSet(b, c.on) = SumFunctionOnSet(b, T)
      BY <2>4, <3>2, SumWithin
    <3> QED  BY <3>1, <3>3
  <2>10. SumFunctionOnSet(e, S) = SumFunctionOnSet(b, c.on \cap S)
    <3>1. PICK T : T = c.on \cap S
      OBVIOUS
    <3>2. /\ T \in SUBSET S /\ \A i \in S : e[i] \in Nat
          /\ \A i \in T : b[i] = e[i]
          /\ \A i \in S \ T : e[i] = 0
      BY <2>4, <2>6, <2>7, <3>1
    <3>3. SumFunctionOnSet(e, S) = SumFunctionOnSet(b, T)
      BY <2>4, <3>2, SumWithin
    <3> QED  BY <3>1, <3>3
  <2>11. SumFunctionOnSet(Shipped', S) = SumFunctionOnSet(Shipped, S) + SumFunctionOnSet(e, S)
    <3>1. PICK f, h : f = Shipped /\ h = Shipped'
      OBVIOUS
    <3>2. \A i \in c.on : ship[i].bags = 0
      BY <1>4, <1>6 DEF StockOK
    <3>3. ASSUME NEW i \in S PROVE f[i] \in Nat /\ e[i] \in Nat /\ h[i] = f[i] + e[i]
      <4>1. i \in Report /\ f[i] = ship[i].bags /\ f[i] \in Nat
        BY <1>8, <2>4, <3>1
      <4>2. h[i] = IF i \in c.on THEN c.bags[i] ELSE f[i]
        BY <1>10, <3>1, <4>1
      <4> QED  BY <2>7, <3>2, <4>1, <4>2
    <3>4. SumFunctionOnSet(h, S) = SumFunctionOnSet(f, S) + SumFunctionOnSet(e, S)
      BY <2>4, <3>3, SumPlus
    <3> QED  BY <3>1, <3>4
  <2> QED  BY <1>7, <2>3, <2>5, <2>8, <2>9, <2>10, <2>11
<1>12. ASSUME NEW s \in Size
       PROVE  /\ farm'[s] \in Nat
              /\ farm'[s] + SumFunctionOnSet(Shipped', OfSize(s)') = Opening[s]
  <2>1. farm[s] \in Nat /\ farm[s] + SumFunctionOnSet(Shipped, OfSize(s)) = Opening[s]
    BY DEF StockOK, BagsConserved
  <2>2. farm'[s] = farm[s] - Load(r, c.on, s) /\ Load(r, c.on, s) <= farm[s] /\ Load(r, c.on, s) \in Nat
    BY <1>6, <1>11
  <2>3. SumFunctionOnSet(Shipped, OfSize(s)) \in Nat
    <3>1. PICK f, S : f = Shipped /\ S = OfSize(s)
      OBVIOUS
    <3>2. IsFiniteSet(S) /\ \A i \in S : f[i] \in Nat
      BY <1>8, <3>1
    <3>3. SumFunctionOnSet(f, S) \in Nat
      BY <3>2, SumRest
    <3> QED  BY <3>1, <3>3
  <2>4. SumFunctionOnSet(Shipped', OfSize(s)') = SumFunctionOnSet(Shipped, OfSize(s)) + Load(r, c.on, s)
    BY <1>11
  <2>5. PICK n \in Nat, l \in Nat : n = SumFunctionOnSet(Shipped, OfSize(s)) /\ l = Load(r, c.on, s)
    BY <2>2, <2>3
  <2> QED  BY <2>1, <2>2, <2>4, <2>5
<1>13. farm' \in [Size -> Nat]
  BY <1>6, <1>12
<1>14. \A i \in Report' : ship'[i].at = "farm" => ship'[i].bags = 0
  <2> SUFFICES ASSUME NEW i \in Report, ship'[i].at = "farm" PROVE ship'[i].bags = 0
    BY <1>7
  <2>1. ship'[i] = IF i \in c.on THEN [at |-> "road", bags |-> c.bags[i]] ELSE ship[i]
    BY <1>6
  <2>2. i \notin c.on
    BY <2>1
  <2> QED  BY <2>1, <2>2 DEF StockOK
<1> QED  BY <1>12, <1>13, <1>14 DEF StockOK, BagsConserved

LEMMA StockNext ==
  ASSUME IInv, IInv', StockOK, [Next]_vars
  PROVE  StockOK'
<1>1. TypeOK /\ TypeOK'
  BY DEF IInv
<1>2. ASSUME UNCHANGED <<reports, ship, farm>>, orders' = orders \/ orders = <<>> PROVE StockOK'
  <2>1. Report' = Report
    BY <1>2 DEF Report
  <2>2. \A i \in Report : SizeOf(i)' = SizeOf(i)
    <3>1. CASE orders' = orders
      BY <1>2, <3>1 DEF SizeOf
    <3>2. CASE orders = <<>>
      <4>1. Order = {}
        BY <1>1, <3>2, Rows, EmptySeq DEF Order
      <4> QED  BY <1>1, <4>1, Rows
    <3> QED  BY <1>2, <3>1, <3>2
  <2> QED  BY <1>1, <1>2, <2>1, <2>2, StockStill
<1>3. ASSUME NEW u \in User, NEW sizes \in SUBSET Size, Ask(u, sizes) PROVE StockOK'
  BY <1>2, <1>3 DEF Ask
<1>4. ASSUME NEW r \in Request, Decide(r) PROVE StockOK'
  BY <1>2, <1>4 DEF Decide, BeginDecide, BeginOn, Begin
<1>5. ASSUME NEW r \in Request, NEW u \in Loaders, Prepare(r, u) PROVE StockOK'
  <2>1. UNCHANGED <<orders, reports, ship, farm>>
    BY <1>5 DEF Prepare, BeginLoad, BeginReport, BeginSubmit, BeginEdit, BeginOn, Begin
  <2> QED  BY <1>2, <2>1
<1>6. ASSUME NEW r \in Request, CommitLoad(r) PROVE StockOK'
  <2>1. Working(r) /\ call[r].op = "load"
    BY <1>6, LoadWhat DEF At, Working, Idle
  <2>2. PICK c : c = call[r]
    OBVIOUS
  <2>3. AimOK(c) /\ c.op = "load" /\ LoadsRows(c)
    BY <1>1, <1>6, <2>1, <2>2, LoadWhat DEF TypeOK, Working
  <2>4. PICK rows : rows = RowsOf(c)
    OBVIOUS
  <2>5. orders' = orders \o SetToSeq(NewSizes(c)) /\ Unshipped(rows)
    BY <2>3, <2>4 DEF LoadsRows
  <2>6. rows \in Seq(Row)
    BY <1>1, <2>3, <2>4, <2>5, NewRows
  <2>7. \A o \in Order : orders'[o] = orders[o]
    BY <1>1, <2>3, <2>5, NewOrders
  <2>8. Report \subseteq Report' /\ \A i \in Report : reports'[i].order = reports[i].order
    BY <1>1, <2>3, LoadAppends
  <2>9. farm' = farm
    BY <1>6 DEF CommitLoad
  <2> QED  BY <1>1, <2>5, <2>6, <2>7, <2>8, <2>9, StockAppended
<1>7. ASSUME NEW r \in Request, CommitReport(r) PROVE StockOK'
  <2>1. Working(r) /\ call[r].op = "report"
    BY <1>7 DEF CommitReport, At, Working, Idle
  <2>2. PICK c : c = call[r]
    OBVIOUS
  <2>3. c.by \in User /\ c.order \in Nat
    <3>1. c.by \in User /\ c.order \in Order
      BY <1>1, <2>1, <2>2 DEF TypeOK, Working, AimOK
    <3> QED  BY <1>1, <3>1, Rows
  <2>4. PICK row : row = [order |-> c.order, trip |-> 0, by |-> c.by, bags |-> 1, status |-> "DRAFT"]
    OBVIOUS
  <2>5. PICK rows : rows = <<row>>
    OBVIOUS
  <2>6. row \in Row /\ rows \in Seq(Row)
    BY <2>3, <2>4, <2>5 DEF Row, Status
  <2>7. reports' = reports \o rows /\ Unshipped(rows) /\ orders' = orders /\ farm' = farm
    BY <1>7, <2>2, <2>4, <2>5 DEF CommitReport, NewReport
  <2>8. reports \in Seq(Row)
    BY <1>1 DEF TypeOK
  <2>9. /\ Report = 1 .. Len(reports) /\ Len(reports) \in Nat /\ Len(rows) \in Nat
        /\ Len(reports \o rows) = Len(reports) + Len(rows)
        /\ \A i \in 1 .. Len(reports) : (reports \o rows)[i] = reports[i]
    <3>1. Report = 1 .. Len(reports) /\ Len(reports) \in Nat /\ Len(rows) \in Nat
      BY <2>6, <2>8, LenProperties DEF Report
    <3>2. /\ Len(reports \o rows) = Len(reports) + Len(rows)
          /\ \A i \in 1 .. Len(reports) + Len(rows) :
                (reports \o rows)[i] = IF i <= Len(reports) THEN reports[i] ELSE rows[i - Len(reports)]
      BY <2>6, <2>8, ConcatProperties
    <3> QED  BY <3>1, <3>2
  <2>10. Report' = 1 .. Len(reports')
    BY <1>1, LenProperties DEF TypeOK, Report
  <2>11. Report \subseteq Report' /\ \A i \in Report : reports'[i].order = reports[i].order
    BY <2>7, <2>9, <2>10
  <2> QED  BY <1>1, <2>6, <2>7, <2>11, StockAppended
<1>8. ASSUME NEW r \in Request, CommitSubmit(r) \/ CommitReject(r) PROVE StockOK'
  <2>1. PICK s \in Status : SetStatus(call[r].on, s)
    BY <1>8 DEF CommitSubmit, CommitReject, Status
  <2>2. Working(r) /\ call[r].op \notin {"load", "report"} /\ UNCHANGED <<orders, trips, ship, farm>>
    BY <1>8 DEF CommitSubmit, CommitReject, At, Working, Idle
  <2>3. InPlace(call[r].sizes)
    BY <1>1, <2>1, <2>2, StatusCommit
  <2> QED  BY <1>1, <2>2, <2>3, StockInPlace
<1>9. ASSUME NEW r \in Request, NEW n \in 2 .. MaxBags, CommitEdit(r, n) PROVE StockOK'
  <2>1. InPlace(Size) /\ ship' = ship /\ farm' = farm
    BY <1>9, <1>1, EditInPlace DEF CommitEdit
  <2> QED  BY <1>1, <2>1, StockInPlace
<1>10. ASSUME NEW r \in Request, CommitApprove(r) PROVE StockOK'
  BY <1>1, <1>10, StockApprove
<1>11. ASSUME NEW r \in Request, FollowUp(r) \/ Fail(r) PROVE StockOK'
  BY <1>2, <1>11 DEF FollowUp, Fail
<1>12. ASSUME NEW i \in Report, CountIn(i) PROVE StockOK'
  <2>1. PICK set : set = {i}
    OBVIOUS
  <2>2. SetStatus(set, "RECONCILED") /\ set \in SUBSET Report /\ "RECONCILED" \in Status
    BY <1>12, <2>1 DEF CountIn, Status
  <2>3. Report' = Report /\ \A j \in Report : reports'[j].order = reports[j].order
    BY <1>1, <2>2, StatusSet
  <2>4. orders' = orders /\ farm' = farm /\ ship' = [ship EXCEPT ![i].at = "there"]
    BY <1>12 DEF CountIn
  <2>5. \A j \in Report : ship'[j].bags = ship[j].bags /\ (ship'[j].at = "farm" => ship[j].at = "farm")
    <3>1. DOMAIN ship = Report /\ \A j \in Report : ship[j] \in Carried
      BY <1>1, Rows
    <3> QED  BY <2>4, <3>1 DEF Carried
  <2>6. \A j \in Report : SizeOf(j)' = SizeOf(j)
    BY <2>3, <2>4 DEF SizeOf
  <2> QED  BY <1>1, <2>3, <2>4, <2>5, <2>6, StockStill
<1>13. ASSUME NEW u \in User, NEW to \in MovedTo, MoveTask(u, to) PROVE StockOK'
  BY <1>2, <1>13 DEF MoveTask
<1>14. CASE UNCHANGED vars
  BY <1>2, <1>14 DEF vars
<1>15. CASE Next
  BY <1>3, <1>4, <1>5, <1>6, <1>7, <1>8, <1>9, <1>10, <1>11, <1>12, <1>13, <1>15 DEF Next
<1> QED  BY <1>14, <1>15

\* approveInTx and receive: however requests race, each bag that is no longer
\* at the farm is on the one shipment of the report it left with.
THEOREM BagsAreConserved == Spec => []BagsConserved
<1>1. Init => StockOK
  <2> SUFFICES ASSUME Init PROVE StockOK
    OBVIOUS
  <2>1. farm = Opening /\ Report = {} /\ farm \in [Size -> Nat]
    BY BoundAssumption DEF Init, Report
  <2>2. ASSUME NEW s \in Size PROVE farm[s] + SumFunctionOnSet(Shipped, OfSize(s)) = Opening[s]
    <3>1. OfSize(s) = {}
      BY <2>1 DEF OfSize
    <3>2. SumFunctionOnSet(Shipped, OfSize(s)) = 0
      BY <3>1, SumParts, FS_EmptySet
    <3>3. farm[s] \in Nat
      BY <2>1
    <3> QED  BY <2>1, <3>2, <3>3
  <2> QED  BY <2>1, <2>2 DEF StockOK, BagsConserved
<1>2. IInv /\ IInv' /\ StockOK /\ [Next]_vars => StockOK'
  BY StockNext
<1>3. StockOK => BagsConserved
  BY DEF StockOK
<1> QED  BY <1>1, <1>2, <1>3, DispatchInductive, PTL DEF Spec
=============================================================================
