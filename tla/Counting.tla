-------------------------------- MODULE Counting --------------------------------
(***************************************************************************)
(* Facts that the proofs of several components need: sizes of sets,        *)
(* induction, definitions by recursion, and what filter returns.           *)
(***************************************************************************)
EXTENDS Integers, FiniteSets, SequencesExt, Arrays, FiniteSetTheorems, WellFoundedInduction,
        TLAPS

(* Two sets that differ in one element at most: what becomes of the count. *)
LEMMA OneMember ==
    ASSUME NEW S, NEW T, NEW x, IsFiniteSet(S), \A y : y # x => (y \in T <=> y \in S)
    PROVE  /\ IsFiniteSet(T)
           /\ Cardinality(S) \in Nat /\ Cardinality(T) \in Nat
           /\ Cardinality(T) = Cardinality(S) + (IF x \in T THEN 1 ELSE 0)
                                              - (IF x \in S THEN 1 ELSE 0)
<1> DEFINE R == S \ {x}
<1>1. /\ IsFiniteSet(R)
      /\ Cardinality(R) = IF x \in S THEN Cardinality(S) - 1 ELSE Cardinality(S)
  BY FS_RemoveElement
<1>2. T = IF x \in T THEN R \cup {x} ELSE R
  OBVIOUS
<1>3. /\ IsFiniteSet(R \cup {x})
      /\ Cardinality(R \cup {x}) = Cardinality(R) + 1
  BY <1>1, FS_AddElement
<1>4. IsFiniteSet(T) /\ Cardinality(T) = Cardinality(R) + IF x \in T THEN 1 ELSE 0
  <2>1. CASE x \in T
    BY <1>2, <1>3, <2>1
  <2>2. CASE x \notin T
    <3>1. Cardinality(R) \in Nat BY <1>1, FS_CardinalityType
    <3>2. T = R BY <1>2, <2>2
    <3> QED BY <1>1, <2>2, <3>1, <3>2
  <2> QED BY <2>1, <2>2
<1>5. Cardinality(S) \in Nat /\ Cardinality(T) \in Nat
  BY <1>4, FS_CardinalityType
<1> QED BY <1>1, <1>4, <1>5

(* A set that loses only members of another: at most as many as it has.    *)
LEMMA SomeLeave ==
    ASSUME NEW S, NEW T, NEW B, IsFiniteSet(S), IsFiniteSet(B), T \subseteq S, S \ B \subseteq T
    PROVE  /\ IsFiniteSet(T)
           /\ Cardinality(S) \in Nat /\ Cardinality(T) \in Nat /\ Cardinality(B) \in Nat
           /\ Cardinality(T) <= Cardinality(S)
           /\ Cardinality(S) <= Cardinality(T) + Cardinality(B)
<1>1. IsFiniteSet(T) /\ Cardinality(T) <= Cardinality(S)
  BY FS_Subset
<1>2. /\ IsFiniteSet(S \ B) /\ Cardinality(S \ B) = Cardinality(S) - Cardinality(S \cap B)
      /\ IsFiniteSet(S \cap B) /\ Cardinality(S \cap B) <= Cardinality(B)
  <2>1. S \cap B \in SUBSET B
    OBVIOUS
  <2> QED BY <2>1, FS_Difference, FS_Subset
<1>3. Cardinality(S \ B) <= Cardinality(T)
  <2>1. S \ B \in SUBSET T
    OBVIOUS
  <2> QED BY <1>1, <2>1, FS_Subset
<1>4. /\ Cardinality(S) \in Nat /\ Cardinality(T) \in Nat /\ Cardinality(B) \in Nat
      /\ Cardinality(S \cap B) \in Nat /\ Cardinality(S \ B) \in Nat
  BY <1>1, <1>2, FS_CardinalityType
<1> QED BY <1>1, <1>2, <1>3, <1>4

(* Multiples grow with what is multiplied.                                 *)
LEMMA Multiples ==
    ASSUME NEW n \in Nat, NEW a \in Nat, NEW b \in Nat
    PROVE  /\ n * a \in Nat /\ n * b \in Nat
           /\ a <= b => n * a <= n * b
           /\ a + 1 <= b => n * a + n <= n * b
<1>1. n * a \in Nat /\ n * b \in Nat
  OBVIOUS
<1>2. ASSUME a <= b PROVE n * a <= n * b
  <2>1. n * (b - a) \in Nat /\ n * b = n * a + n * (b - a)
    BY <1>2
  <2> QED BY <1>1, <2>1
<1>3. ASSUME a + 1 <= b PROVE n * a + n <= n * b
  <2>1. b - a - 1 \in Nat
    BY <1>3
  <2>2. n * (b - a - 1) \in Nat /\ n * b = n * a + n + n * (b - a - 1)
    BY <2>1
  <2> QED BY <1>1, <2>2
<1> QED BY <1>1, <1>2, <1>3

--------------------------------------------------------------------------------
(* A set of numbers has a least one.                                       *)
LEMMA LeastNumber ==
    ASSUME NEW S, S \subseteq Nat, S # {}
    PROVE  \E n \in S : \A m \in S : n <= m
<1> DEFINE R == OpToRel(<, Nat)
<1>1. IsWellFoundedOn(R, Nat)
  BY NatLessThanWellFounded
<1>2. ASSUME NEW m \in Nat, NEW n \in Nat, m < n PROVE <<m, n>> \in R
  <2>1. R = {ss \in Nat \X Nat : ss[1] < ss[2]}
    BY DEF OpToRel
  <2> HIDE DEF R
  <2>2. <<m, n>> \in Nat \X Nat /\ <<m, n>>[1] = m /\ <<m, n>>[2] = n
    OBVIOUS
  <2> QED BY <1>2, <2>1, <2>2
<1> HIDE DEF R
<1>3. PICK n \in S : \A m \in S : ~ (<<m, n>> \in R)
  BY <1>1, WFMin
<1>4. ASSUME NEW m \in S PROVE n <= m
  <2>1. m \in Nat /\ n \in Nat
    OBVIOUS
  <2>2. ~ (m < n)
    BY <1>2, <1>3, <2>1
  <2> QED BY <2>1, <2>2
<1> QED BY <1>4

(* Induction up to a number, on what a set of numbers says.                *)
LEMMA UpTo ==
    ASSUME NEW S, NEW n \in Nat, 0 \in S, \A i \in 1..n : i - 1 \in S => i \in S
    PROVE  0..n \subseteq S
<1> DEFINE T == (0..n) \ S
<1>1. SUFFICES ASSUME T # {} PROVE FALSE
  OBVIOUS
<1>2. PICK i \in T : \A k \in T : i <= k
  <2>1. T \subseteq Nat
    OBVIOUS
  <2> HIDE DEF T
  <2> QED BY <1>1, <2>1, LeastNumber
<1>3. i \in 1..n /\ i - 1 \in S
  BY <1>2
<1> QED BY <1>3

(* f goes from c to the next value and on, n times, each time as g says.   *)
Iterates(f, V, c, n, g) ==
    /\ f \in [0..n -> V]
    /\ f[0] = c
    /\ \A i \in 1..n : f[i] = g[<<f[i - 1], i>>]

Steps(V, n) == [V \X (1..n) -> V]

(* A definition that goes from each value to the next defines a function.  *)
LEMMA Iteration ==
    ASSUME NEW V, NEW c \in V, NEW n \in Nat, NEW g \in Steps(V, n)
    PROVE  \E f : Iterates(f, V, c, n, g)
<1> USE DEF Steps
<1> DEFINE S == {m \in 0..n : \E f : Iterates(f, V, c, m, g)}
<1>1. 0 \in S
  <2>1. Iterates([i \in 0..0 |-> c], V, c, 0, g)
    BY DEF Iterates
  <2> QED BY <2>1
<1>2. ASSUME NEW m \in 1..n, m - 1 \in S PROVE m \in S
  <2>1. PICK f : Iterates(f, V, c, m - 1, g)
    BY <1>2
  <2> DEFINE h == [i \in 0..m |-> IF i = m THEN g[<<f[m - 1], m>>] ELSE f[i]]
  <2>2. f[m - 1] \in V /\ g[<<f[m - 1], m>>] \in V
    <3>1. f[m - 1] \in V
      BY <2>1 DEF Iterates
    <3>2. <<f[m - 1], m>> \in V \X (1..n)
      BY <3>1
    <3> QED BY <3>1, <3>2
  <2>3. h \in [0..m -> V] /\ h[0] = c
    BY <2>1, <2>2 DEF Iterates
  <2>4. ASSUME NEW i \in 1..m PROVE h[i] = g[<<h[i - 1], i>>]
    <3>1. CASE i = m
      <4>1. m \in 0..m /\ m - 1 \in 0..m /\ m - 1 # m
        OBVIOUS
      <4>2. h[m] = g[<<f[m - 1], m>>] /\ h[m - 1] = f[m - 1]
        BY <4>1
      <4> HIDE DEF h
      <4> QED BY <3>1, <4>2
    <3>2. CASE i # m
      <4>1. i \in 1..(m - 1) /\ i \in 0..m /\ i - 1 \in 0..m /\ i - 1 # m
        BY <3>2
      <4>2. h[i] = f[i] /\ h[i - 1] = f[i - 1]
        BY <3>2, <4>1
      <4> HIDE DEF h
      <4> QED BY <2>1, <4>1, <4>2 DEF Iterates
    <3> QED BY <3>1, <3>2
  <2>5. Iterates(h, V, c, m, g)
    BY <2>3, <2>4 DEF Iterates
  <2> QED BY <2>5
<1>3. n \in S
  <2> HIDE DEF S
  <2> QED BY <1>1, <1>2, UpTo
<1> QED BY <1>3
--------------------------------------------------------------------------------
(* f and q agree wherever m is below n.                                    *)
AgreeBelow(f, q, D, m, n) == \A y \in D : m[y] < n => f[y] = q[y]

(* Functions that agree on x whenever they agree on everything smaller     *)
(* agree.                                                                  *)
LEMMA Agreement ==
    ASSUME NEW D, NEW m \in [D -> Nat], NEW f, NEW q,
           \A x \in D : AgreeBelow(f, q, D, m, m[x]) => f[x] = q[x]
    PROVE  \A x \in D : f[x] = q[x]
<1> DEFINE S == {m[x] : x \in {y \in D : f[y] # q[y]}}
<1>1. SUFFICES ASSUME S # {} PROVE FALSE
  OBVIOUS
<1>2. PICK n \in S : \A k \in S : n <= k
  <2>1. S \subseteq Nat
    OBVIOUS
  <2> HIDE DEF S
  <2> QED BY <1>1, <2>1, LeastNumber
<1>3. PICK x \in D : m[x] = n /\ f[x] # q[x]
  BY <1>2
<1>4. ASSUME NEW y \in D, m[y] < m[x] PROVE f[y] = q[y]
  <2>1. ASSUME f[y] # q[y] PROVE FALSE
    <3>1. m[y] \in S
      BY <2>1
    <3>2. n <= m[y] /\ m[y] \in Nat /\ m[x] \in Nat
      BY <1>2, <3>1
    <3> QED BY <1>3, <1>4, <3>2
  <2> QED BY <2>1
<1> QED BY <1>3, <1>4 DEF AgreeBelow

(* Where m is below n, f has a result that R allows.                       *)
AllowedBelow(f, R, D, m, n) == \A y \in D : m[y] < n => f[y] \in R[y]

(* g makes the result for x from those for the arguments where m is less:  *)
(* one that R allows if those are, and the same one if those are the same. *)
Recurses(g, D, V, m, R) ==
    /\ m \in [D -> Nat] /\ R \in [D -> SUBSET V]
    /\ \A x \in D : \A f \in [D -> V] : AllowedBelow(f, R, D, m, m[x]) => g[<<f, x>>] \in R[x]
    /\ \A x \in D : \A f, q \in [D -> V] :
         AllowedBelow(f, R, D, m, m[x]) /\ AgreeBelow(f, q, D, m, m[x])
             => g[<<f, x>>] = g[<<q, x>>]

(* h has the results that g makes, all allowed.                            *)
Solution(h, g, D, V, R) ==
    h \in [D -> V] /\ \A x \in D : h[x] \in R[x] /\ h[x] = g[<<h, x>>]

(* A definition by recursion defines a function, whose results are allowed *)
(* if those made from allowed results are.                                 *)
LEMMA Recursion ==
    ASSUME NEW D, NEW V, NEW v \in V, NEW m, NEW R, NEW g, Recurses(g, D, V, m, R)
    PROVE  \E h : Solution(h, g, D, V, R)
<1> DEFINE Solves(f, n) == \A x \in D : m[x] < n => f[x] \in R[x] /\ f[x] = g[<<f, x>>]
<1> USE DEF Recurses
<1>1. \A x \in D : R[x] \subseteq V /\ m[x] \in Nat
  OBVIOUS
<1>2. ASSUME NEW f \in [D -> V], NEW n \in Nat, Solves(f, n), NEW x \in D, m[x] <= n
      PROVE  AllowedBelow(f, R, D, m, m[x])
  <2>1. ASSUME NEW y \in D, m[y] < m[x] PROVE f[y] \in R[y]
    <3>1. m[y] < n
      BY <1>1, <1>2, <2>1
    <3> QED BY <1>2, <3>1
  <2> QED BY <2>1 DEF AllowedBelow
<1>3. ASSUME NEW n \in Nat PROVE \E f \in [D -> V] : Solves(f, n)
  <2> DEFINE S == {k \in Nat : \E f \in [D -> V] : Solves(f, k)}
  <2>1. 0 \in S
    <3> DEFINE f == [x \in D |-> v]
    <3>1. f \in [D -> V]
      OBVIOUS
    <3>2. Solves(f, 0)
      BY <1>1
    <3> QED BY <3>1, <3>2
  <2>2. ASSUME NEW k \in 1..n, k - 1 \in S PROVE k \in S
    <3>1. PICK f \in [D -> V] : Solves(f, k - 1)
      BY <2>2
    <3>2. k - 1 \in Nat
      OBVIOUS
    <3> DEFINE q == [x \in D |-> IF m[x] < k - 1 THEN f[x]
                                 ELSE IF m[x] = k - 1 THEN g[<<f, x>>] ELSE v]
    <3>3. ASSUME NEW x \in D, m[x] < k PROVE q[x] \in R[x] /\ q[x] = g[<<f, x>>]
      <4>1. CASE m[x] < k - 1
        BY <3>1, <4>1
      <4>2. CASE m[x] = k - 1
        <5>1. g[<<f, x>>] \in R[x]
          BY <1>2, <3>1, <3>2, <4>2
        <5> QED BY <4>2, <5>1
      <4> QED BY <1>1, <3>3, <4>1, <4>2
    <3>4. q \in [D -> V]
      <4>1. ASSUME NEW x \in D PROVE q[x] \in V
        BY <1>1, <3>3
      <4> QED BY <4>1
    <3>5. ASSUME NEW x \in D, m[x] < k PROVE q[x] = g[<<q, x>>]
      <4>1. AgreeBelow(f, q, D, m, m[x])
        <5>1. ASSUME NEW y \in D, m[y] < m[x] PROVE f[y] = q[y]
          <6>1. m[y] < k - 1
            BY <1>1, <3>5, <5>1
          <6> QED BY <6>1
        <5> HIDE DEF q
        <5> QED BY <5>1 DEF AgreeBelow
      <4>2. AllowedBelow(f, R, D, m, m[x])
        BY <1>1, <1>2, <3>1, <3>2, <3>5
      <4> HIDE DEF q
      <4> QED BY <3>3, <3>4, <3>5, <4>1, <4>2
    <3>6. Solves(q, k)
      BY <3>3, <3>5
    <3> HIDE DEF q
    <3> QED BY <3>4, <3>6
  <2> HIDE DEF S
  <2>3. n \in S
    BY <2>1, <2>2, UpTo
  <2> QED BY <2>3 DEF S
<1> DEFINE F(n) == CHOOSE f : f \in [D -> V] /\ Solves(f, n)
<1>4. ASSUME NEW n \in Nat PROVE F(n) \in [D -> V] /\ Solves(F(n), n)
  <2>1. \E f : f \in [D -> V] /\ Solves(f, n)
    BY <1>3
  <2> HIDE DEF Solves
  <2> QED BY <2>1
<1> HIDE DEF F
<1>5. ASSUME NEW f \in [D -> V], NEW q \in [D -> V], NEW n \in Nat, Solves(f, n), Solves(q, n)
      PROVE  AgreeBelow(f, q, D, m, n)
  <2> DEFINE E == {x \in D : m[x] < n}
             l == [x \in E |-> m[x]]
  <2>1. l \in [E -> Nat]
    BY <1>1
  <2>2. ASSUME NEW x \in E, AgreeBelow(f, q, E, l, l[x]) PROVE f[x] = q[x]
    <3>1. AgreeBelow(f, q, D, m, m[x])
      <4>1. ASSUME NEW y \in D, m[y] < m[x] PROVE f[y] = q[y]
        <5>1. y \in E /\ l[y] < l[x]
          BY <1>1, <4>1
        <5> QED BY <2>2, <5>1 DEF AgreeBelow
      <4> QED BY <4>1 DEF AgreeBelow
    <3>2. AllowedBelow(f, R, D, m, m[x])
      BY <1>1, <1>2, <1>5
    <3>3. g[<<f, x>>] = g[<<q, x>>]
      BY <3>1, <3>2
    <3>4. f[x] = g[<<f, x>>] /\ q[x] = g[<<q, x>>]
      BY <1>5
    <3> QED BY <3>3, <3>4
  <2>3. \A x \in E : f[x] = q[x]
    <3> HIDE DEF E, l
    <3> QED BY <2>1, <2>2, Agreement
  <2> QED BY <2>3 DEF AgreeBelow
<1>6. ASSUME NEW f \in [D -> V], NEW n \in Nat, NEW k \in Nat, k <= n, Solves(f, n)
      PROVE  Solves(f, k)
  BY <1>1, <1>6
<1> HIDE DEF Solves
<1> DEFINE h == [x \in D |-> F(m[x] + 1)[x]]
<1>7. ASSUME NEW x \in D
      PROVE  LET f == F(m[x] + 1)
             IN  f \in [D -> V] /\ f[x] \in R[x] /\ f[x] = g[<<f, x>>]
  <2>1. m[x] + 1 \in Nat /\ m[x] < m[x] + 1
    BY <1>1
  <2> QED BY <1>4, <2>1 DEF Solves
<1>8. h \in [D -> V]
  BY <1>7
<1>9. ASSUME NEW x \in D PROVE h[x] \in R[x] /\ h[x] = g[<<h, x>>]
  <2> DEFINE f == F(m[x] + 1)
  <2>1. f \in [D -> V] /\ Solves(f, m[x] + 1) /\ m[x] + 1 \in Nat /\ m[x] <= m[x] + 1
    BY <1>1, <1>4
  <2>2. ASSUME NEW y \in D, m[y] < m[x] PROVE f[y] = h[y]
    <3> DEFINE q == F(m[y] + 1)
    <3>1. m[y] + 1 \in Nat /\ m[y] + 1 <= m[x] + 1 /\ m[y] < m[y] + 1
      BY <1>1, <2>2
    <3>2. q \in [D -> V] /\ Solves(q, m[y] + 1)
      BY <1>4, <3>1
    <3> HIDE DEF f, q
    <3>3. Solves(f, m[y] + 1)
      BY <1>6, <2>1, <3>1
    <3>4. f[y] = q[y]
      BY <1>5, <2>1, <3>1, <3>2, <3>3 DEF AgreeBelow
    <3>5. h[y] = q[y]
      BY DEF q
    <3> QED BY <3>4, <3>5
  <2>3. h[x] = f[x] /\ f[x] \in R[x] /\ f[x] = g[<<f, x>>]
    BY <1>7
  <2> HIDE DEF h, f
  <2>4. AgreeBelow(f, h, D, m, m[x]) /\ AllowedBelow(f, R, D, m, m[x])
    BY <1>2, <2>1, <2>2 DEF AgreeBelow
  <2> QED BY <1>8, <2>1, <2>3, <2>4
<1> HIDE DEF h
<1>10. Solution(h, g, D, V, R)
  BY <1>8, <1>9 DEF Solution
<1> QED BY <1>10

(* q has, where it agrees with a function below x, what g makes of that.   *)
Follows(q, g, D, V, m, R) ==
    \A x \in D : \A f \in [D -> V] :
        AllowedBelow(f, R, D, m, m[x]) /\ AgreeBelow(f, q, D, m, m[x]) => g[<<f, x>>] = q[x]

(* A function that satisfies the recursive definition has allowed results. *)
LEMMA RecursionOK ==
    ASSUME NEW D, NEW V, NEW v \in V, NEW m, NEW R, NEW g, Recurses(g, D, V, m, R),
           NEW q, Follows(q, g, D, V, m, R)
    PROVE  \A x \in D : q[x] \in R[x]
<1>0. m \in [D -> Nat]
  BY DEF Recurses
<1>1. PICK h : Solution(h, g, D, V, R)
  BY Recursion
<1>2. ASSUME NEW x \in D, AgreeBelow(h, q, D, m, m[x]) PROVE h[x] = q[x]
  <2>1. AllowedBelow(h, R, D, m, m[x])
    BY <1>1 DEF AllowedBelow, Solution
  <2> QED BY <1>1, <1>2, <2>1 DEF Solution, Follows
<1>3. \A x \in D : h[x] = q[x]
  BY <1>0, <1>2, Agreement
<1> QED BY <1>1, <1>3 DEF Solution

--------------------------------------------------------------------------------
(* u has what is kept of the first i elements of a list, for every i.      *)
Filters(u, S, list, keep) ==
    /\ u \in [0..Len(list) -> Seq(S)]
    /\ u[0] = <<>>
    /\ \A i \in 1..Len(list) :
         u[i] = IF list[i] \in keep THEN Append(u[i - 1], list[i]) ELSE u[i - 1]
    /\ filter(list, keep) = u[Len(list)]

(* The steps by which filter goes through a list.                          *)
LEMMA FilterDef ==
    ASSUME NEW S, NEW list \in Seq(S), NEW keep
    PROVE  \E u : Filters(u, S, list, keep)
<1> DEFINE n == Len(list)
           V == Seq(S)
           c == <<>>
           step(s, i) == IF list[i] \in keep THEN Append(s, list[i]) ELSE s
           g == [x \in V \X (1..n) |-> step(x[1], x[2])]
           Def(u) == u = [i \in 0..n |-> IF i = 0 THEN c
                                         ELSE IF list[i] \in keep THEN Append(u[i - 1], list[i])
                                         ELSE u[i - 1]]
           upTo == CHOOSE u : Def(u)
<1>1. n \in Nat /\ c \in V
  OBVIOUS
<1>2. ASSUME NEW s \in V, NEW i \in 1..n PROVE step(s, i) \in V
  OBVIOUS
<1>3. g \in Steps(V, n)
  <2> HIDE DEF step, V, n
  <2> QED BY <1>2 DEF Steps
<1>4. ASSUME NEW s \in V, NEW i \in 1..n PROVE g[<<s, i>>] = step(s, i)
  <2> HIDE DEF step, V, n
  <2> QED OBVIOUS
<1>5. PICK f : Iterates(f, V, c, n, g)
  <2> HIDE DEF g, V, n, c
  <2> QED BY <1>1, <1>3, Iteration
<1>6. Def(f)
  <2>0. f \in [0..n -> V] /\ f[0] = c
    BY <1>5 DEF Iterates
  <2>1. ASSUME NEW i \in 1..n PROVE f[i] = step(f[i - 1], i)
    <3> HIDE DEF g, step, V
    <3>1. f[i - 1] \in V
      BY <1>1, <2>0
    <3> QED BY <1>4, <1>5, <3>1 DEF Iterates
  <2>2. f = [i \in 0..n |-> IF i = 0 THEN c ELSE step(f[i - 1], i)]
    <3>1. f = [i \in 0..n |-> f[i]]
      BY <2>0
    <3>2. \A i \in 0..n : f[i] = IF i = 0 THEN c ELSE step(f[i - 1], i)
      <4> HIDE DEF c, step, V, g
      <4> QED BY <1>1, <2>0, <2>1
    <3> HIDE DEF c, step, V, g
    <3> QED BY <3>1, <3>2
  <2> QED BY <2>2
<1>7. Def(upTo)
  <2> HIDE DEF Def
  <2> QED BY <1>6
<1>8. filter(list, keep) = upTo[n]
  BY DEF filter
<1> HIDE DEF upTo
<1>9. upTo[0] = c /\ \A i \in 1..n : upTo[i] = step(upTo[i - 1], i)
  <2>1. upTo = [i \in 0..n |-> IF i = 0 THEN c ELSE step(upTo[i - 1], i)]
    BY <1>7
  <2> HIDE DEF c, step, V, Def
  <2>2. \A i \in 0..n : upTo[i] = IF i = 0 THEN c ELSE step(upTo[i - 1], i)
    BY <2>1
  <2>3. 0 \in 0..n /\ \A i \in 1..n : i \in 0..n /\ i # 0
    BY <1>1
  <2> QED BY <2>2, <2>3
<1>10. upTo = [i \in 0..n |-> upTo[i]]
  BY <1>7
<1> HIDE DEF Def, g
<1>11. 0..n \subseteq {i \in 0..n : upTo[i] \in V}
  <2> DEFINE T == {i \in 0..n : upTo[i] \in V}
  <2>1. 0 \in T
    <3> HIDE DEF V, c
    <3> QED BY <1>1, <1>9
  <2>2. ASSUME NEW i \in 1..n, i - 1 \in T PROVE i \in T
    <3> HIDE DEF V, step
    <3> QED BY <1>2, <1>9, <2>2
  <2> HIDE DEF T
  <2>3. 0..n \subseteq T
    BY <1>1, <2>1, <2>2, UpTo
  <2> QED BY <2>3 DEF T
<1>12. upTo \in [0..n -> V]
  <2> HIDE DEF V
  <2> QED BY <1>10, <1>11
<1>13. Filters(upTo, S, list, keep)
  BY <1>8, <1>9, <1>12 DEF Filters
<1> QED BY <1>13

(* One more element: what becomes of the list so far.                      *)
LEMMA AppendOK ==
    ASSUME NEW S, NEW s \in Seq(S), NEW x \in S
    PROVE  /\ Append(s, x) \in Seq(S) /\ Len(Append(s, x)) = Len(s) + 1 /\ Len(s) \in Nat
           /\ \A k \in 1..Len(s) : Append(s, x)[k] = s[k]
           /\ Append(s, x)[Len(s) + 1] = x
  OBVIOUS

(* A filtered list has the elements to keep, all of them, in a list that   *)
(* is no longer and repeats nothing that was not repeated.                 *)
LEMMA FilterOK ==
    ASSUME NEW S, NEW list \in Seq(S), NEW keep
    PROVE  /\ filter(list, keep) \in Seq(S)
           /\ Len(filter(list, keep)) <= Len(list)
           /\ ToSet(filter(list, keep)) = ToSet(list) \cap keep
           /\ IsInjective(list) => IsInjective(filter(list, keep))
<1> DEFINE n == Len(list)
<1>1. n \in Nat /\ \A i \in 1..n : list[i] \in S
  OBVIOUS
<1>0. PICK u : Filters(u, S, list, keep)
  BY FilterDef
<1>2. /\ u \in [0..n -> Seq(S)]
      /\ u[0] = <<>>
      /\ \A i \in 1..n : u[i] = IF list[i] \in keep THEN Append(u[i - 1], list[i]) ELSE u[i - 1]
      /\ filter(list, keep) = u[n]
  BY <1>0 DEF Filters
<1> DEFINE OnlyKept(i) == \A k \in 1..Len(u[i]) :
                            \E l \in 1..i : u[i][k] = list[l] /\ list[l] \in keep
           AllKept(i) == \A l \in 1..i : list[l] \in keep =>
                           \E k \in 1..Len(u[i]) : u[i][k] = list[l]
           Once(i) == \A k, m \in 1..Len(u[i]) : u[i][k] = u[i][m] => k = m
           P(i) == /\ Len(u[i]) <= i /\ OnlyKept(i) /\ AllKept(i)
                   /\ IsInjective(list) => Once(i)
           T == {i \in 0..n : P(i)}
<1>3. 0 \in T
  <2>1. Len(u[0]) = 0
    BY <1>2
  <2>2. P(0)
    BY <2>1
  <2> QED BY <1>1, <2>2
<1>4. ASSUME NEW i \in 1..n, i - 1 \in T PROVE i \in T
  <2> DEFINE s == u[i - 1]
  <2>1. i - 1 \in 0..n /\ i \in 0..n /\ s \in Seq(S) /\ Len(s) \in Nat /\ list[i] \in S
    <3>1. i - 1 \in 0..n /\ i \in 0..n
      BY <1>1
    <3>2. s \in Seq(S)
      BY <1>2, <3>1
    <3> HIDE DEF s
    <3> QED BY <1>1, <3>1, <3>2
  <2>2. P(i - 1)
    BY <1>4
  <2>3. CASE list[i] \notin keep
    <3>1. u[i] = s
      BY <1>2, <2>3
    <3>2. Len(u[i]) <= i /\ OnlyKept(i)
      <4>1. Len(s) <= i - 1 /\ OnlyKept(i - 1)
        BY <2>2
      <4>2. ASSUME NEW k \in 1..Len(u[i])
            PROVE  \E l \in 1..i : u[i][k] = list[l] /\ list[l] \in keep
        <5>1. PICK l \in 1..(i - 1) : u[i][k] = list[l] /\ list[l] \in keep
          BY <3>1, <4>1
        <5>2. l \in 1..i
          OBVIOUS
        <5> QED BY <5>1, <5>2
      <4>3. Len(u[i]) <= i
        <5> HIDE DEF s, OnlyKept
        <5> QED BY <2>1, <3>1, <4>1
      <4> QED BY <4>2, <4>3
    <3>3. AllKept(i)
      <4> SUFFICES ASSUME NEW l \in 1..i, list[l] \in keep
                   PROVE  \E k \in 1..Len(u[i]) : u[i][k] = list[l]
        OBVIOUS
      <4>1. l \in 1..(i - 1)
        <5>1. l # i
          BY <2>3
        <5> QED BY <5>1
      <4>2. AllKept(i - 1)
        BY <2>2
      <4> QED BY <3>1, <4>1, <4>2
    <3>4. IsInjective(list) => Once(i)
      BY <2>2, <3>1
    <3> HIDE DEF s, OnlyKept, AllKept, Once
    <3> QED BY <2>1, <3>2, <3>3, <3>4
  <2>4. CASE list[i] \in keep
    <3> DEFINE x == list[i]
    <3>1. u[i] = Append(s, x)
      BY <1>2, <2>4
    <3>2. /\ u[i] \in Seq(S) /\ Len(u[i]) = Len(s) + 1
          /\ \A k \in 1..Len(s) : u[i][k] = s[k]
          /\ u[i][Len(s) + 1] = x
      <4> HIDE DEF s, x
      <4> QED BY <2>1, <3>1, AppendOK DEF x
    <3>3. Len(u[i]) <= i
      BY <2>1, <2>2, <3>2
    <3>4. OnlyKept(i)
      <4> SUFFICES ASSUME NEW k \in 1..Len(u[i])
                   PROVE  \E l \in 1..i : u[i][k] = list[l] /\ list[l] \in keep
        OBVIOUS
      <4>1. CASE k = Len(s) + 1
        BY <2>1, <2>4, <3>2, <4>1
      <4>2. CASE k # Len(s) + 1
        <5>1. k \in 1..Len(s) /\ u[i][k] = s[k]
          BY <2>1, <3>2, <4>2
        <5>2. PICK l \in 1..(i - 1) : s[k] = list[l] /\ list[l] \in keep
          BY <2>2, <5>1
        <5>3. l \in 1..i
          BY <2>1
        <5> QED BY <5>1, <5>2, <5>3
      <4> QED BY <4>1, <4>2
    <3>5. AllKept(i)
      <4> SUFFICES ASSUME NEW l \in 1..i, list[l] \in keep
                   PROVE  \E k \in 1..Len(u[i]) : u[i][k] = list[l]
        OBVIOUS
      <4>1. CASE l = i
        <5>1. Len(s) + 1 \in 1..Len(u[i])
          BY <2>1, <3>2
        <5> QED BY <3>2, <4>1, <5>1
      <4>2. CASE l # i
        <5>1. l \in 1..(i - 1)
          BY <2>1, <4>2
        <5>2. PICK k \in 1..Len(s) : s[k] = list[l]
          BY <2>2, <5>1
        <5>3. k \in 1..Len(u[i]) /\ u[i][k] = s[k]
          BY <2>1, <3>2
        <5> QED BY <5>2, <5>3
      <4> QED BY <4>1, <4>2
    <3>6. IsInjective(list) => Once(i)
      <4> SUFFICES ASSUME IsInjective(list), NEW k \in 1..Len(u[i]), NEW m \in 1..Len(u[i]),
                          u[i][k] = u[i][m]
                   PROVE  k = m
        OBVIOUS
      <4>1. \A l \in 1..(i - 1) : list[l] # x
        <5>1. DOMAIN list = 1..n
          OBVIOUS
        <5>2. ASSUME NEW l \in 1..(i - 1) PROVE l \in 1..n /\ l # i
          BY <1>1
        <5> HIDE DEF n
        <5> QED BY <5>1, <5>2 DEF IsInjective
      <4>2. \A l \in 1..Len(s) : s[l] # x
        BY <2>2, <4>1
      <4>3. Once(i - 1)
        BY <2>2
      <4>4. k \in 1..Len(s) \/ k = Len(s) + 1
        BY <2>1, <3>2
      <4>5. m \in 1..Len(s) \/ m = Len(s) + 1
        BY <2>1, <3>2
      <4> HIDE DEF x
      <4> QED BY <3>2, <4>2, <4>3, <4>4, <4>5
    <3> HIDE DEF s, x, OnlyKept, AllKept, Once
    <3> QED BY <2>1, <3>3, <3>4, <3>5, <3>6
  <2> QED BY <2>3, <2>4
<1>5. P(n)
  <2> HIDE DEF T
  <2>1. 0..n \subseteq T
    BY <1>1, <1>3, <1>4, UpTo
  <2> HIDE DEF P
  <2>2. n \in T
    BY <1>1, <2>1
  <2> QED BY <2>2 DEF T
<1> DEFINE r == filter(list, keep)
<1>6. r \in Seq(S) /\ r = u[n] /\ DOMAIN r = 1..Len(r) /\ DOMAIN list = 1..n
  <2>1. u[n] \in Seq(S)
    BY <1>1, <1>2
  <2>2. r = u[n]
    BY <1>2
  <2> HIDE DEF r
  <2> QED BY <2>1, <2>2
<1> HIDE DEF r
<1>7. ToSet(r) = ToSet(list) \cap keep
  <2>1. ASSUME NEW k \in 1..Len(r) PROVE r[k] \in keep /\ \E l \in 1..n : r[k] = list[l]
    BY <1>5, <1>6
  <2>2. ASSUME NEW l \in 1..n, list[l] \in keep PROVE \E k \in 1..Len(r) : list[l] = r[k]
    BY <1>5, <1>6, <2>2
  <2> HIDE DEF n
  <2>3. ToSet(r) = {r[k] : k \in 1..Len(r)} /\ ToSet(list) = {list[l] : l \in 1..n}
    BY <1>6 DEF ToSet
  <2>4. ASSUME NEW x \in ToSet(r) PROVE x \in ToSet(list) \cap keep
    BY <2>1, <2>3
  <2>5. ASSUME NEW x \in ToSet(list), x \in keep PROVE x \in ToSet(r)
    BY <2>2, <2>3, <2>5
  <2> QED BY <2>4, <2>5
<1>8. IsInjective(list) => IsInjective(r)
  <2>1. IsInjective(list) => Once(n)
    BY <1>5
  <2> QED BY <1>6, <2>1 DEF IsInjective
<1>9. Len(r) <= n
  BY <1>5, <1>6
<1> QED BY <1>6, <1>7, <1>8, <1>9 DEF r
================================================================================
