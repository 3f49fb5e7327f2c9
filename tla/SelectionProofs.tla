---------------------------- MODULE SelectionProofs ----------------------------
(***************************************************************************)
(* Who is chosen and what comes first: the load balancer, for any fleet,   *)
(* and the binary heap, for any items.                                     *)
(***************************************************************************)
EXTENDS LoadBalancer, PriorityQueue, Counting

(* b has the least loaded of the first i elements of a list, for every i.  *)
Reduces(b, S, list) ==
    /\ b \in [1..Len(list) -> S]
    /\ b[1] = list[1]
    /\ \A i \in 2..Len(list) :
         b[i] = IF lessLoaded(list[i], b[i - 1]) THEN list[i] ELSE b[i - 1]
    /\ leastLoaded(list) = b[Len(list)]

(* The steps by which leastLoaded goes through a list.                     *)
LEMMA LeastLoadedDef ==
    ASSUME NEW S, NEW list \in Seq(S), list # <<>>
    PROVE  \E b : Reduces(b, S, list)
<1> DEFINE n == Len(list)
           c == list[1]
           step(w, i) == IF lessLoaded(list[i], w) THEN list[i] ELSE w
           g == [x \in S \X (1..(n - 1)) |-> step(x[1], x[2] + 1)]
           Def(b) == b = [i \in 1..n |-> IF i = 1 THEN list[1]
                                         ELSE IF lessLoaded(list[i], b[i - 1]) THEN list[i]
                                         ELSE b[i - 1]]
           best == CHOOSE b : Def(b)
<1>1. n \in Nat /\ n >= 1 /\ n - 1 \in Nat /\ \A i \in 1..n : list[i] \in S
  OBVIOUS
<1>2. c \in S /\ \A i \in 1..n : list[i] \in S
  BY <1>1
<1> HIDE DEF n, c
<1>3. ASSUME NEW w \in S, NEW i \in 1..n PROVE step(w, i) \in S
  BY <1>2
<1> HIDE DEF step
<1>4. g \in Steps(S, n - 1)
  <2>1. ASSUME NEW w \in S, NEW i \in 1..(n - 1) PROVE step(w, i + 1) \in S
    <3>1. i + 1 \in 1..n
      BY <1>1
    <3> QED BY <1>3, <3>1
  <2> QED BY <2>1 DEF Steps
<1>5. ASSUME NEW w \in S, NEW i \in 1..(n - 1) PROVE g[<<w, i>>] = step(w, i + 1)
  OBVIOUS
<1>6. PICK f : Iterates(f, S, c, n - 1, g)
  <2> HIDE DEF g
  <2> QED BY <1>1, <1>2, <1>4, Iteration
<1>7. f \in [0..(n - 1) -> S] /\ f[0] = c
  BY <1>6 DEF Iterates
<1>8. ASSUME NEW i \in 1..(n - 1) PROVE f[i] = step(f[i - 1], i + 1)
  <2>1. f[i - 1] \in S
    BY <1>1, <1>7
  <2>2. f[i] = g[<<f[i - 1], i>>]
    BY <1>6 DEF Iterates
  <2> QED BY <1>5, <2>1, <2>2
<1> DEFINE h == [i \in 1..n |-> f[i - 1]]
<1>9. \A i \in 1..n : h[i] = IF i = 1 THEN c ELSE step(h[i - 1], i)
  <2> SUFFICES ASSUME NEW i \in 1..n PROVE h[i] = IF i = 1 THEN c ELSE step(h[i - 1], i)
    OBVIOUS
  <2>1. CASE i = 1
    BY <1>7, <2>1
  <2>2. CASE i # 1
    <3>1. i - 1 \in 1..(n - 1) /\ i - 1 \in 1..n /\ (i - 1) + 1 = i /\ i \in 1..n
      BY <1>1, <2>2
    <3>2. h[i] = f[i - 1] /\ h[i - 1] = f[(i - 1) - 1]
      BY <3>1
    <3>3. f[i - 1] = step(f[(i - 1) - 1], i)
      BY <1>8, <3>1
    <3> QED BY <2>2, <3>2, <3>3
  <2> QED BY <2>1, <2>2
<1>10. Def(h)
  <2>1. h = [i \in 1..n |-> h[i]]
    OBVIOUS
  <2> HIDE DEF h
  <2>2. h = [i \in 1..n |-> IF i = 1 THEN c ELSE step(h[i - 1], i)]
    BY <1>9, <2>1
  <2> QED BY <2>2 DEF step, c
<1>11. Def(best)
  <2> HIDE DEF Def
  <2> QED BY <1>10
<1>12. leastLoaded(list) = best[n]
  BY DEF leastLoaded, n
<1> HIDE DEF best
<1>13. best[1] = c /\ \A i \in 2..n : best[i] = step(best[i - 1], i)
  <2>1. best = [i \in 1..n |-> IF i = 1 THEN c ELSE step(best[i - 1], i)]
    BY <1>11 DEF step, c
  <2> HIDE DEF Def
  <2>2. \A i \in 1..n : best[i] = IF i = 1 THEN c ELSE step(best[i - 1], i)
    BY <2>1
  <2>3. 1 \in 1..n /\ \A i \in 2..n : i \in 1..n /\ i # 1
    BY <1>1
  <2> QED BY <2>2, <2>3
<1>14. best = [i \in 1..n |-> best[i]]
  BY <1>11
<1> HIDE DEF Def, g, h
<1>15. ASSUME NEW i \in 1..n PROVE best[i] \in S
  <2> DEFINE T == {m \in 0..(n - 1) : best[m + 1] \in S}
  <2>1. 0 \in T
    BY <1>1, <1>2, <1>13
  <2>2. ASSUME NEW m \in 1..(n - 1), m - 1 \in T PROVE m \in T
    <3>1. m + 1 \in 2..n /\ m + 1 \in 1..n /\ (m + 1) - 1 = m /\ (m - 1) + 1 = m
      BY <1>1
    <3>2. best[m] \in S
      BY <2>2, <3>1
    <3>3. best[m + 1] = step(best[m], m + 1)
      BY <1>13, <3>1
    <3> QED BY <1>3, <3>1, <3>2, <3>3
  <2> HIDE DEF T
  <2>3. 0..(n - 1) \subseteq T
    BY <1>1, <2>1, <2>2, UpTo
  <2>4. i - 1 \in 0..(n - 1) /\ (i - 1) + 1 = i
    BY <1>1
  <2> QED BY <2>3, <2>4 DEF T
<1>16. best \in [1..n -> S]
  BY <1>14, <1>15
<1>17. Reduces(best, S, list)
  BY <1>12, <1>13, <1>16 DEF Reduces, n, c, step
<1> QED BY <1>17

(* Ratios are ordered, cross-multiplied as the model has them.             *)
LEMMA RatiosOrdered ==
    ASSUME NEW a \in Nat, NEW b \in Nat \ {0}, NEW c \in Nat, NEW d \in Nat \ {0},
           NEW e \in Nat, NEW f \in Nat \ {0}, a * d <= c * b, c * f <= e * d
    PROVE  a * f <= e * b
<1>1. (a * d) * f <= (c * b) * f
  OBVIOUS
<1>2. (c * f) * b <= (e * d) * b
  OBVIOUS
<1>3. (a * f) * d <= (e * b) * d
  BY <1>1, <1>2
<1> QED BY <1>3

(* leastLoaded returns an element of the list, and none is less loaded.    *)
LEMMA LeastLoadedOK ==
    ASSUME NEW S, NEW list \in Seq(S), list # <<>>,
           \A w \in ToSet(list) : rows[w].jobs \in Nat /\ maxConcurrency[w] \in Nat \ {0}
    PROVE  /\ leastLoaded(list) \in ToSet(list)
           /\ \A v \in ToSet(list) : rows[v].jobs * maxConcurrency[leastLoaded(list)]
                                       >= rows[leastLoaded(list)].jobs * maxConcurrency[v]
<1> DEFINE n == Len(list)
           jobs(w) == rows[w].jobs
           room(w) == maxConcurrency[w]
           first(m) == {list[k] : k \in 1..m}
           least(w, m) == /\ w \in first(m)
                          /\ \A v \in first(m) : jobs(w) * room(v) <= jobs(v) * room(w)
<1>1. n \in Nat /\ n >= 1 /\ n - 1 \in Nat /\ DOMAIN list = 1..n
  OBVIOUS
<1>2. first(n) = ToSet(list)
  BY <1>1 DEF ToSet
<1>3. ASSUME NEW m \in 1..n, NEW w \in first(m) PROVE jobs(w) \in Nat /\ room(w) \in Nat \ {0}
  <2>1. w \in first(n)
    BY <1>1
  <2> QED BY <1>2, <2>1
<1>4. PICK b : Reduces(b, S, list)
  BY LeastLoadedDef
<1>5. /\ b[1] = list[1] /\ leastLoaded(list) = b[n]
      /\ \A i \in 2..n : b[i] = IF lessLoaded(list[i], b[i - 1]) THEN list[i] ELSE b[i - 1]
  BY <1>4 DEF Reduces
<1> DEFINE T == {m \in 0..(n - 1) : least(b[m + 1], m + 1)}
<1> HIDE DEF n, jobs, room
<1>6. 0 \in T
  <2>1. 1 \in 1..n /\ first(1) = {list[1]}
    BY <1>1
  <2>2. jobs(list[1]) * room(list[1]) <= jobs(list[1]) * room(list[1])
    BY <1>3, <2>1
  <2>3. least(b[1], 1)
    BY <1>5, <2>1, <2>2
  <2> HIDE DEF least
  <2> QED BY <1>1, <2>3
<1>7. ASSUME NEW m \in 1..(n - 1), m - 1 \in T PROVE m \in T
  <2> DEFINE w == b[m]
             x == list[m + 1]
  <2>1. /\ m + 1 \in 2..n /\ m + 1 \in 1..n /\ m \in 1..n /\ m \in 0..(n - 1)
        /\ (m + 1) - 1 = m /\ (m - 1) + 1 = m
    BY <1>1
  <2>2. least(w, m)
    <3> HIDE DEF least
    <3> QED BY <1>7, <2>1
  <2>3. first(m + 1) = first(m) \cup {x}
    BY <2>1
  <2>4. b[m + 1] = IF lessLoaded(x, w) THEN x ELSE w
    BY <1>5, <2>1
  <2>5. lessLoaded(x, w) <=> jobs(x) * room(w) < jobs(w) * room(x)
    BY DEF lessLoaded, jobs, room
  <2>6. \A v \in first(m + 1) : jobs(v) \in Nat /\ room(v) \in Nat \ {0}
    BY <1>3, <2>1
  <2>7. w \in first(m + 1) /\ x \in first(m + 1)
    BY <2>2, <2>3
  <2> HIDE DEF w, x
  <2>8. CASE lessLoaded(x, w)
    <3>1. jobs(x) * room(w) <= jobs(w) * room(x)
      BY <2>5, <2>6, <2>7, <2>8
    <3>2. ASSUME NEW v \in first(m) PROVE jobs(x) * room(v) <= jobs(v) * room(x)
      <4>1. jobs(w) * room(v) <= jobs(v) * room(w)
        BY <2>2
      <4>2. jobs(v) \in Nat /\ room(v) \in Nat \ {0}
        BY <2>3, <2>6
      <4> HIDE DEF first
      <4> QED BY <2>6, <2>7, <3>1, <4>1, <4>2, RatiosOrdered
    <3>3. jobs(x) * room(x) <= jobs(x) * room(x)
      BY <2>6, <2>7
    <3>4. least(x, m + 1)
      <4> HIDE DEF first
      <4> QED BY <2>3, <2>7, <3>2, <3>3
    <3> HIDE DEF least
    <3> QED BY <2>1, <2>4, <2>8, <3>4
  <2>9. CASE ~ lessLoaded(x, w)
    <3>1. jobs(w) * room(x) <= jobs(x) * room(w)
      BY <2>5, <2>6, <2>7, <2>9
    <3>2. least(w, m + 1)
      <4> HIDE DEF first
      <4> QED BY <2>2, <2>3, <2>7, <3>1
    <3> HIDE DEF least
    <3> QED BY <2>1, <2>4, <2>9, <3>2
  <2> QED BY <2>8, <2>9
<1>8. least(b[n], n)
  <2> HIDE DEF T
  <2>1. 0..(n - 1) \subseteq T
    BY <1>1, <1>6, <1>7, UpTo
  <2>2. n - 1 \in 0..(n - 1) /\ (n - 1) + 1 = n
    BY <1>1
  <2> HIDE DEF least
  <2> QED BY <2>1, <2>2 DEF T
<1>9. ASSUME NEW v \in ToSet(list)
      PROVE  jobs(v) * room(b[n]) >= jobs(b[n]) * room(v)
  <2>1. jobs(b[n]) * room(v) <= jobs(v) * room(b[n])
    BY <1>2, <1>8
  <2>2. 1 <= n /\ n \in 1..n /\ v \in first(n) /\ b[n] \in first(n)
    BY <1>1, <1>2, <1>8
  <2>3. /\ jobs(b[n]) \in Nat /\ room(v) \in Nat /\ jobs(v) \in Nat /\ room(b[n]) \in Nat
    BY <1>3, <2>2
  <2> HIDE DEF first
  <2> QED BY <2>1, <2>3
<1>10. b[n] \in ToSet(list)
  BY <1>2, <1>8
<1> QED BY <1>5, <1>9, <1>10 DEF jobs, room

--------------------------------------------------------------------------------
(* The rows, which only others write.                                      *)
RowsOK ==
    /\ rows \in [FleetMembers -> [status : Statuses, jobs : Nat]]
    /\ \A w \in FleetMembers : rows[w].jobs <= maxConcurrency[w]

(* The rows keep their types.                                              *)
LEMMA RowsStep ==
    ASSUME RowsOK, [BalancerNext]_balancerVars
    PROVE  RowsOK'
<1>1. ASSUME NEW t \in JobTypes, SelectInTurn(t) PROVE UNCHANGED rows
  BY <1>1 DEF SelectInTurn
<1>2. ASSUME UNCHANGED rows PROVE RowsOK'
  BY <1>2 DEF RowsOK
<1>3. ASSUME NEW w \in FleetMembers, RowChanges(w) PROVE RowsOK'
  <2>1. PICK s \in Statuses, n \in 0..maxConcurrency[w] :
          rows' = [rows EXCEPT ![w] = [status |-> s, jobs |-> n]]
    BY <1>3 DEF RowChanges
  <2>2. maxConcurrency[w] \in Nat
    BY FleetAssumption DEF FleetMembers
  <2>3. n \in Nat /\ n <= maxConcurrency[w]
    BY <2>2
  <2>4. [status |-> s, jobs |-> n] \in [status : Statuses, jobs : Nat]
    BY <2>3
  <2> QED BY <2>1, <2>3, <2>4 DEF RowsOK
<1> QED BY <1>1, <1>2, <1>3 DEF BalancerNext, balancerVars

(* The rows are of their types from the start.                             *)
LEMMA RowsInit == BalancerInit => RowsOK
<1> SUFFICES ASSUME BalancerInit PROVE RowsOK
  OBVIOUS
<1>1. [status |-> "ONLINE", jobs |-> 0] \in [status : Statuses, jobs : Nat]
  BY FleetAssumption
<1>2. \A w \in FleetMembers : maxConcurrency[w] \in Nat
  BY FleetAssumption DEF FleetMembers
<1> QED BY <1>1, <1>2 DEF BalancerInit, RowsOK

(* The list a selection chooses from.                                      *)
LEMMA EligibleOK ==
    ASSUME RowsOK, NEW t
    PROVE  /\ filterEligible(t) \in Seq(FleetMembers)
           /\ Len(filterEligible(t)) <= Len(Fleet)
           /\ IsInjective(filterEligible(t))
           /\ \A w \in ToSet(filterEligible(t)) :
                rows[w].jobs \in Nat /\ maxConcurrency[w] \in Nat \ {0}
<1> DEFINE keep == {w \in FleetMembers : Eligible(t, w)}
           list == filter(Fleet, keep)
<1>1. Fleet \in Seq(FleetMembers) /\ IsInjective(Fleet)
  BY FleetAssumption DEF FleetMembers
<1>2. /\ list \in Seq(FleetMembers) /\ Len(list) <= Len(Fleet)
      /\ IsInjective(list) /\ ToSet(list) = ToSet(Fleet) \cap keep
  <2> HIDE DEF keep
  <2> QED BY <1>1, FilterOK
<1>3. ASSUME NEW w \in keep PROVE rows[w].jobs \in Nat /\ maxConcurrency[w] \in Nat \ {0}
  <2>1. rows[w].jobs \in Nat /\ rows[w].jobs < maxConcurrency[w]
    BY DEF Eligible, RowsOK
  <2>2. maxConcurrency[w] \in Nat
    BY FleetAssumption DEF FleetMembers
  <2> QED BY <2>1, <2>2
<1>4. list = filterEligible(t)
  BY DEF filterEligible
<1> HIDE DEF keep, list
<1> QED BY <1>2, <1>3, <1>4

(* With any rows, the strategies by load return a worker such that none of *)
(* those they may choose from is less loaded.                              *)
LEMMA BestSelected == RowsOK => SelectionIsBest
<1> SUFFICES ASSUME RowsOK, NEW t \in JobTypes
             PROVE  LET list == filterEligible(t)
                        all  == ToSet(list)
                        near == IF all \cap Matching[t] # {} THEN all \cap Matching[t] ELSE all
                        best(S) == {w \in S : \A v \in S : rows[v].jobs * maxConcurrency[w]
                                                             >= rows[w].jobs * maxConcurrency[v]}
                    IN  list # <<>> => /\ leastLoaded(list) \in best(all)
                                       /\ affinity(t, list) \in best(near)
  BY DEF SelectionIsBest
<1> DEFINE list == filterEligible(t)
           all  == ToSet(list)
           near == IF all \cap Matching[t] # {} THEN all \cap Matching[t] ELSE all
           best(S) == {w \in S : \A v \in S : rows[v].jobs * maxConcurrency[w]
                                                >= rows[w].jobs * maxConcurrency[v]}
           match == filter(list, Matching[t])
<1>1. /\ list \in Seq(FleetMembers)
      /\ \A w \in all : rows[w].jobs \in Nat /\ maxConcurrency[w] \in Nat \ {0}
  BY EligibleOK
<1>2. affinity(t, list) = leastLoaded(IF match # <<>> THEN match ELSE list)
  BY DEF affinity
<1> HIDE DEF list
<1>3. match \in Seq(FleetMembers) /\ ToSet(match) = all \cap Matching[t]
  BY <1>1, FilterOK
<1> HIDE DEF match
<1>4. ASSUME NEW l \in Seq(FleetMembers), l # <<>>, ToSet(l) \subseteq all
      PROVE  leastLoaded(l) \in best(ToSet(l))
  <2>1. \A w \in ToSet(l) : rows[w].jobs \in Nat /\ maxConcurrency[w] \in Nat \ {0}
    BY <1>1, <1>4
  <2> HIDE DEF all
  <2> QED BY <1>4, <2>1, LeastLoadedOK
<1>5. match # <<>> <=> all \cap Matching[t] # {}
  <2>1. match # <<>> <=> ToSet(match) # {}
    <3>1. DOMAIN match = 1..Len(match) /\ Len(match) \in Nat /\ (match # <<>> <=> Len(match) >= 1)
      BY <1>3
    <3> QED BY <3>1 DEF ToSet
  <2> QED BY <1>3, <2>1
<1>6. ASSUME list # <<>> PROVE leastLoaded(list) \in best(all)
  <2> HIDE DEF best
  <2> QED BY <1>1, <1>4, <1>6
<1>7. ASSUME list # <<>> PROVE affinity(t, list) \in best(near)
  <2> HIDE DEF best, all
  <2>1. CASE match # <<>>
    BY <1>2, <1>3, <1>4, <1>5, <2>1
  <2>2. CASE match = <<>>
    BY <1>2, <1>5, <1>6, <1>7, <2>2
  <2> QED BY <2>1, <2>2
<1> QED BY <1>6, <1>7 DEF list

(* What LEAST_LOADED and AFFINITY select, in every state of the table.     *)
THEOREM SelectionBest == BalancerSpec => []SelectionIsBest
<1>1. RowsOK /\ [BalancerNext]_balancerVars => RowsOK'
  BY RowsStep
<1> QED BY <1>1, RowsInit, BestSelected, PTL DEF BalancerSpec

--------------------------------------------------------------------------------
(* The next index is the one after, or the first again.                    *)
LEMMA NextTurn ==
    ASSUME NEW r \in Nat, NEW n \in Nat \ {0}
    PROVE  /\ r % n \in 0..(n - 1)
           /\ r < n => r % n = r
           /\ (r + 1) % n = IF r % n = n - 1 THEN 0 ELSE (r % n) + 1
<1>1. r % n \in 0..(n - 1)
  OBVIOUS
<1>2. r < n => r % n = r
  OBVIOUS
<1>3. (r + 1) % n = IF r % n = n - 1 THEN 0 ELSE (r % n) + 1
  <2> DEFINE q == r \div n
             m == r % n
             p == (r + 1) \div n
             k == (r + 1) % n
  <2>1. /\ q \in Int /\ m \in 0..(n - 1) /\ r = n * q + m
        /\ p \in Int /\ k \in 0..(n - 1) /\ r + 1 = n * p + k
    OBVIOUS
  <2> HIDE DEF q, m, p, k
  <2>2. n * (p - q) = m + 1 - k
    BY <2>1
  <2>3. p - q < 2 /\ p - q > -1
    <3>1. ASSUME p - q >= 2 PROVE FALSE
      <4>1. n * (p - q) >= n * 2
        BY <2>1, <3>1
      <4> QED BY <2>1, <2>2, <4>1
    <3>2. ASSUME p - q <= -1 PROVE FALSE
      <4>1. n * (p - q) <= -n
        BY <2>1, <3>2
      <4> QED BY <2>1, <2>2, <4>1
    <3> QED BY <2>1, <3>1, <3>2
  <2>4. p - q = 0 \/ p - q = 1
    BY <2>1, <2>3
  <2>5. k = m + 1 \/ (n = m + 1 - k)
    BY <2>1, <2>2, <2>4
  <2>6. k = IF m = n - 1 THEN 0 ELSE m + 1
    BY <2>1, <2>5
  <2> QED BY <2>6 DEF k, m
<1> QED BY <1>1, <1>2, <1>3

(* The place in a list of n that was chosen so many turns ago, when the    *)
(* next turn is that of index r.                                           *)
Place(r, ago, n) == IF r - ago >= 1 THEN r - ago ELSE r - ago + n

(* The latest selections are the places before the index, going round.     *)
TurnsInv ==
    /\ rrIndex \in Nat
    /\ rrIndex < Len(Fleet) \/ rrIndex = 0
    /\ turns \in [list : Seq(FleetMembers), picks : Seq(FleetMembers)]
    /\ IsInjective(turns.list)
    /\ Len(turns.picks) <= Len(turns.list)
    /\ Len(turns.picks) > 0 => rrIndex < Len(turns.list)
    /\ \A i \in 1..Len(turns.picks) :
         turns.picks[i] = turns.list[Place(rrIndex, Len(turns.picks) - i, Len(turns.list))]

(* Places chosen less than a round ago are different ones.                 *)
LEMMA PlacesDiffer ==
    ASSUME NEW n \in Nat, NEW r \in Nat, r < n, NEW a \in 0..(n - 1), NEW b \in 0..(n - 1)
    PROVE  /\ Place(r, a, n) \in 1..n
           /\ Place(r, a, n) = Place(r, b, n) => a = b
  BY DEF Place

(* Selections from one list within a round are of different workers.       *)
LEMMA RoundIsFair == TurnsInv => TurnsAreFair
<1> SUFFICES ASSUME TurnsInv PROVE TurnsAreFair
  OBVIOUS
<1> DEFINE list == turns.list
           picks == turns.picks
           n == Len(list)
           m == Len(picks)
<1>1. /\ list \in Seq(FleetMembers) /\ picks \in Seq(FleetMembers)
      /\ IsInjective(list) /\ m <= n /\ (m > 0 => rrIndex < n) /\ rrIndex \in Nat
      /\ \A i \in 1..m : picks[i] = list[Place(rrIndex, m - i, n)]
  BY DEF TurnsInv
<1>2. TurnsAreFair <=> \A i, k \in DOMAIN picks : picks[i] = picks[k] => i = k
  BY DEF TurnsAreFair
<1> HIDE DEF list, picks
<1>3. /\ n \in Nat /\ m \in Nat /\ DOMAIN list = 1..n /\ DOMAIN picks = 1..m
  BY <1>1
<1> HIDE DEF n, m
<1>4. ASSUME NEW i \in 1..m, NEW k \in 1..m, picks[i] = picks[k] PROVE i = k
  <2>1. m > 0 /\ rrIndex < n /\ m - i \in 0..(n - 1) /\ m - k \in 0..(n - 1)
    BY <1>1, <1>3
  <2> DEFINE a == Place(rrIndex, m - i, n)
             b == Place(rrIndex, m - k, n)
  <2>2. a \in 1..n /\ b \in 1..n /\ (a = b => m - i = m - k)
    BY <1>1, <1>3, <2>1, PlacesDiffer
  <2>3. list[a] = list[b]
    BY <1>1, <1>4
  <2> HIDE DEF a, b
  <2>4. a = b
    BY <1>1, <1>3, <2>2, <2>3 DEF IsInjective
  <2> QED BY <1>3, <2>2, <2>4
<1> QED BY <1>2, <1>3, <1>4

(* A selection in turn: with the same list one place on, with another one  *)
(* from a new start.                                                       *)
LEMMA TurnTaken ==
    ASSUME RowsOK, TurnsInv, NEW t, SelectInTurn(t)
    PROVE  TurnsInv'
<1> DEFINE list == filterEligible(t)
           n == Len(list)
           q == rrIndex % n
           r == rrIndex'
           old == IF turns.list = list THEN turns.picks ELSE <<>>
           kept == IF Len(old) = n THEN Tail(old) ELSE old
           w == list[q + 1]
           new == Append(kept, w)
<1>1. /\ list \in Seq(FleetMembers) /\ n <= Len(Fleet) /\ IsInjective(list) /\ list # <<>>
      /\ r = (rrIndex + 1) % n /\ turns' = [list |-> list, picks |-> new]
  <2>1. /\ list # <<>> /\ r = nextIndex(list) /\ turns' = turnsAfter(list, roundRobin(list))
    BY DEF SelectInTurn
  <2>2. turnsAfter(list, roundRobin(list)) = [list |-> list, picks |-> new]
    BY DEF turnsAfter, roundRobin
  <2> QED BY <2>1, <2>2, EligibleOK DEF nextIndex
<1> HIDE DEF list
<1>2. n \in Nat \ {0} /\ DOMAIN list = 1..n /\ Len(Fleet) \in Nat
  BY <1>1, FleetAssumption
<1>3. rrIndex \in Nat
  BY DEF TurnsInv
<1>4. /\ q \in 0..(n - 1) /\ r = (IF q = n - 1 THEN 0 ELSE q + 1)
      /\ rrIndex < n => q = rrIndex
  <2> HIDE DEF n
  <2> QED BY <1>1, <1>2, <1>3, NextTurn
<1>5. w \in FleetMembers
  <2>1. q + 1 \in 1..n
    BY <1>2, <1>4
  <2> QED BY <1>1, <1>2, <2>1
<1>6. /\ old \in Seq(FleetMembers) /\ Len(old) <= n
      /\ Len(old) > 0 => rrIndex < n
      /\ \A i \in 1..Len(old) : old[i] = list[Place(rrIndex, Len(old) - i, n)]
  <2>1. CASE turns.list = list
    BY <2>1 DEF TurnsInv
  <2>2. CASE turns.list # list
    <3>1. old = <<>> /\ Len(old) = 0
      BY <2>2
    <3> HIDE DEF old
    <3> QED BY <1>2, <3>1
  <2> QED BY <2>1, <2>2
<1> HIDE DEF q, r, n, old, w
<1> DEFINE d == IF Len(old) = n THEN 1 ELSE 0
<1>7. /\ kept \in Seq(FleetMembers) /\ Len(kept) = Len(old) - d /\ Len(kept) <= n - 1
      /\ \A i \in 1..Len(kept) : i + d \in 1..Len(old) /\ kept[i] = old[i + d]
  <2>1. Len(old) \in Nat
    BY <1>6
  <2>2. CASE Len(old) = n
    <3>1. old # <<>> /\ kept = Tail(old)
      BY <1>2, <1>6, <2>2
    <3>2. /\ Tail(old) \in Seq(FleetMembers) /\ Len(Tail(old)) = Len(old) - 1
          /\ \A i \in 1..Len(Tail(old)) : i + 1 \in 1..Len(old) /\ Tail(old)[i] = old[i + 1]
      BY <1>6, <3>1
    <3> HIDE DEF kept
    <3> QED BY <1>2, <2>1, <2>2, <3>1, <3>2
  <2>3. CASE Len(old) # n
    BY <1>2, <1>6, <2>1, <2>3
  <2> QED BY <2>2, <2>3
<1> HIDE DEF kept
<1>8. /\ new \in Seq(FleetMembers) /\ Len(new) = Len(kept) + 1 /\ Len(kept) \in Nat
      /\ \A i \in 1..Len(kept) : new[i] = kept[i]
      /\ new[Len(kept) + 1] = w
  BY <1>5, <1>7, AppendOK
<1> HIDE DEF new
<1>9. ASSUME NEW i \in 1..Len(new) PROVE new[i] = list[Place(r, Len(new) - i, n)]
  <2>1. CASE i = Len(kept) + 1
    <3>1. Len(new) - i = 0
      BY <1>8, <2>1
    <3>2. Place(r, 0, n) = q + 1
      BY <1>2, <1>4 DEF Place
    <3> QED BY <1>8, <2>1, <3>1, <3>2 DEF w
  <2>2. CASE i # Len(kept) + 1
    <3>1. i \in 1..Len(kept) /\ new[i] = kept[i]
      BY <1>8, <2>2
    <3>2. i + d \in 1..Len(old) /\ kept[i] = old[i + d]
      BY <1>7, <3>1
    <3>3. old[i + d] = list[Place(rrIndex, Len(old) - (i + d), n)]
      BY <1>6, <3>2
    <3>4. Len(old) \in Nat /\ Len(old) > 0 /\ rrIndex < n /\ q = rrIndex
      BY <1>4, <1>6, <3>2
    <3> DEFINE a == Len(old) - (i + d)
    <3>5. a \in Nat /\ a <= n - 2 /\ Len(new) - i = a + 1
      <4>1. d \in {0, 1}
        OBVIOUS
      <4> HIDE DEF d
      <4> QED BY <1>2, <1>7, <1>8, <3>1, <3>2, <3>4, <4>1
    <3> HIDE DEF a
    <3>6. Place(r, a + 1, n) = Place(rrIndex, a, n)
      BY <1>2, <1>3, <1>4, <3>4, <3>5 DEF Place
    <3> QED BY <3>1, <3>2, <3>3, <3>5, <3>6 DEF a
  <2> QED BY <2>1, <2>2
<1>10. /\ r \in Nat /\ r < n /\ r < Len(Fleet) /\ Len(new) <= n
  BY <1>1, <1>2, <1>4, <1>7, <1>8
<1>11. turns'.list = list /\ turns'.picks = new
  BY <1>1
<1>12. turns' \in [list : Seq(FleetMembers), picks : Seq(FleetMembers)]
  BY <1>1, <1>8
<1> QED BY <1>1, <1>9, <1>10, <1>11, <1>12 DEF TurnsInv, r, n

(* The invariant behind the theorems on the index.                         *)
LEMMA BalancerInvariant == BalancerSpec => [](RowsOK /\ TurnsInv)
<1>1. BalancerInit => RowsOK /\ TurnsInv
  <2> SUFFICES ASSUME BalancerInit PROVE TurnsInv
    BY RowsInit
  <2>1. <<>> \in Seq(FleetMembers) /\ Len(<<>>) = 0 /\ DOMAIN <<>> = {}
    OBVIOUS
  <2>2. IsInjective(<<>>)
    BY <2>1 DEF IsInjective
  <2> QED BY <2>1, <2>2 DEF BalancerInit, TurnsInv
<1>2. RowsOK /\ TurnsInv /\ [BalancerNext]_balancerVars => RowsOK' /\ TurnsInv'
  <2> SUFFICES ASSUME RowsOK, TurnsInv, [BalancerNext]_balancerVars PROVE TurnsInv'
    BY RowsStep
  <2>1. ASSUME UNCHANGED <<rrIndex, turns>> PROVE TurnsInv'
    BY <2>1 DEF TurnsInv
  <2>2. ASSUME NEW t \in JobTypes, SelectInTurn(t) PROVE TurnsInv'
    BY <2>2, TurnTaken
  <2> QED BY <2>1, <2>2 DEF BalancerNext, RowChanges, balancerVars
<1> QED BY <1>1, <1>2, PTL DEF BalancerSpec

(* Whatever the rows do and whichever types of jobs are placed, round      *)
(* robin gives everybody on a list a turn before anybody has a second.     *)
THEOREM TurnsFair == BalancerSpec => []TurnsAreFair
BY BalancerInvariant, RoundIsFair, PTL

(* The index never points behind the table, whatever lists it was used on. *)
THEOREM BalancerTypeCorrect == BalancerSpec => []BalancerTypeOK
<1>1. RowsOK /\ TurnsInv => BalancerTypeOK
  <2> SUFFICES ASSUME RowsOK, TurnsInv PROVE BalancerTypeOK
    OBVIOUS
  <2>1. ASSUME NEW w \in FleetMembers
        PROVE  rows[w].status \in Statuses /\ rows[w].jobs \in 0..maxConcurrency[w]
    <3>1. maxConcurrency[w] \in Nat
      BY FleetAssumption DEF FleetMembers
    <3> QED BY <3>1 DEF RowsOK
  <2> QED BY <2>1 DEF BalancerTypeOK, TurnsInv
<1> QED BY <1>1, BalancerInvariant, PTL

--------------------------------------------------------------------------------
(* The heap.                                                               *)

(* How often x is in an array.                                             *)
Copies(s, x) == Cardinality({i \in DOMAIN s : s[i] = x})

SameItems(a, b) == Len(a) = Len(b) /\ \A x \in Items : Copies(a, x) = Copies(b, x)

(* No item is before its parent.                                           *)
Ordered(a) == \A i \in 2..Len(a) : ~ before(a[i], a[i \div 2])

--------------------------------------------------------------------------------
(* compareFn orders the items, up to ties.                                 *)
LEMMA ItemsOrdered ==
    /\ \A x \in Items : ~ before(x, x)
    /\ \A x, y \in Items : before(x, y) => ~ before(y, x)
    /\ \A x, y, z \in Items : ~ before(x, y) /\ ~ before(y, z) => ~ before(x, z)
BY ItemsAssumption DEF before

(* Counts are numbers, and zero for what is not there.                     *)
LEMMA CopiesOK ==
    ASSUME NEW a \in Seq(Items), NEW x
    PROVE  /\ IsFiniteSet({i \in DOMAIN a : a[i] = x})
           /\ Copies(a, x) \in Nat
           /\ Copies(a, x) > 0 <=> \E i \in 1..Len(a) : a[i] = x
<1> DEFINE S == {i \in DOMAIN a : a[i] = x}
<1>1. DOMAIN a = 1..Len(a) /\ Len(a) \in Nat
  OBVIOUS
<1>2. S \subseteq 1..Len(a) /\ IsFiniteSet(1..Len(a))
  BY <1>1, FS_Interval
<1>3. IsFiniteSet(S) /\ Cardinality(S) \in Nat /\ (Cardinality(S) = 0 <=> S = {})
  <2> HIDE DEF S
  <2> QED BY <1>2, FS_Subset, FS_CardinalityType, FS_EmptySet
<1>4. S # {} <=> \E i \in 1..Len(a) : a[i] = x
  BY <1>1
<1> HIDE DEF S
<1> QED BY <1>3, <1>4 DEF S, Copies

(* An array as a bag.                                                      *)
LEMMA BagOf ==
    ASSUME NEW a \in Seq(Items)
    PROVE  ToBag(a) = [x \in {y \in Items : Copies(a, y) > 0} |-> Copies(a, x)]
<1>1. Range(a) = {y \in Items : Copies(a, y) > 0}
  <2>1. DOMAIN a = 1..Len(a) /\ \A i \in 1..Len(a) : a[i] \in Items
    OBVIOUS
  <2>2. Range(a) = {a[i] : i \in 1..Len(a)}
    BY <2>1 DEF Range
  <2>3. \A y : Copies(a, y) > 0 <=> \E i \in 1..Len(a) : a[i] = y
    BY CopiesOK
  <2> QED BY <2>1, <2>2, <2>3
<1> QED BY <1>1 DEF ToBag, Copies

(* One more item at the end.                                               *)
LEMMA AppendCopies ==
    ASSUME NEW a \in Seq(Items), NEW z \in Items, NEW x
    PROVE  Copies(Append(a, z), x) = Copies(a, x) + IF x = z THEN 1 ELSE 0
<1> DEFINE n == Len(a) + 1
           b == Append(a, z)
           S == {i \in DOMAIN a : a[i] = x}
           T == {i \in DOMAIN b : b[i] = x}
<1>1. /\ DOMAIN a = 1..Len(a) /\ DOMAIN b = 1..n /\ Len(a) \in Nat
      /\ b[n] = z /\ \A i \in 1..Len(a) : b[i] = a[i]
  BY AppendOK
<1>2. IsFiniteSet(S) /\ Cardinality(S) \in Nat
  BY CopiesOK DEF Copies
<1>3. \A y : y # n => (y \in T <=> y \in S)
  <2> HIDE DEF b
  <2> QED BY <1>1
<1>4. n \notin S /\ (n \in T <=> x = z)
  <2> HIDE DEF b
  <2> QED BY <1>1
<1> HIDE DEF S, T, n
<1>5. Cardinality(T) = Cardinality(S) + IF x = z THEN 1 ELSE 0
  BY <1>2, <1>3, <1>4, OneMember
<1> QED BY <1>5 DEF Copies, S, T

(* swap exchanges two items.                                               *)
LEMMA SwapOK ==
    ASSUME NEW a \in Seq(Items), NEW i \in 1..Len(a), NEW k \in 1..Len(a)
    PROVE  /\ swap(a, i, k) \in Seq(Items)
           /\ swap(a, i, k)[i] = a[k] /\ swap(a, i, k)[k] = a[i]
           /\ \A l \in 1..Len(a) : l # i /\ l # k => swap(a, i, k)[l] = a[l]
           /\ SameItems(a, swap(a, i, k))
<1> DEFINE b == swap(a, i, k)
<1>1. /\ Len(a) \in Nat /\ DOMAIN a = 1..Len(a) /\ a[i] \in Items /\ a[k] \in Items
  OBVIOUS
<1>2. b = [l \in 1..Len(a) |-> IF l = k THEN a[i] ELSE IF l = i THEN a[k] ELSE a[l]]
  BY <1>1 DEF swap
<1>3. b \in Seq(Items) /\ Len(b) = Len(a) /\ DOMAIN b = 1..Len(a)
  <2> HIDE DEF b
  <2> QED BY <1>1, <1>2
<1>4. /\ b[i] = a[k] /\ b[k] = a[i]
      /\ \A l \in 1..Len(a) : l # i /\ l # k => b[l] = a[l]
  <2> HIDE DEF b
  <2> QED BY <1>2
<1> HIDE DEF b
<1>5. ASSUME NEW x \in Items PROVE Copies(b, x) = Copies(a, x)
  <2> DEFINE S == {l \in DOMAIN a : a[l] = x}
             T == {l \in DOMAIN b : b[l] = x}
             M == {l \in 1..Len(a) : IF l = i THEN b[i] = x ELSE a[l] = x}
  <2>1. IsFiniteSet(S) /\ Cardinality(S) \in Nat
    BY CopiesOK DEF Copies
  <2>2. CASE i = k
    <3>1. T = S
      BY <1>1, <1>3, <1>4, <2>2
    <3> QED BY <3>1 DEF Copies
  <2>3. CASE i # k
    <3>1. /\ \A y : y # i => (y \in M <=> y \in S)
          /\ i \in M <=> a[k] = x
          /\ i \in S <=> a[i] = x
      BY <1>1, <1>4
    <3>2. /\ \A y : y # k => (y \in T <=> y \in M)
          /\ k \in T <=> a[i] = x
          /\ k \in M <=> a[k] = x
      BY <1>1, <1>3, <1>4, <2>3
    <3> HIDE DEF S, T, M
    <3>3. /\ IsFiniteSet(M) /\ Cardinality(M) \in Nat
          /\ Cardinality(M) = Cardinality(S) + (IF a[k] = x THEN 1 ELSE 0)
                                             - (IF a[i] = x THEN 1 ELSE 0)
      BY <2>1, <3>1, OneMember
    <3>4. Cardinality(T) = Cardinality(M) + (IF a[i] = x THEN 1 ELSE 0)
                                          - (IF a[k] = x THEN 1 ELSE 0)
      BY <3>2, <3>3, OneMember
    <3>5. Cardinality(T) = Cardinality(S)
      BY <2>1, <3>3, <3>4
    <3> QED BY <3>5 DEF Copies, S, T
  <2> QED BY <2>2, <2>3
<1> QED BY <1>3, <1>4, <1>5 DEF b, SameItems

--------------------------------------------------------------------------------
(* Ordered, but for k, which may be before its parent; the children of k   *)
(* are not before that parent.                                             *)
NearlyUp(a, k) ==
    \A i \in 2..Len(a) :
        /\ i # k => ~ before(a[i], a[i \div 2])
        /\ i \div 2 = k /\ k > 1 => ~ before(a[i], a[k \div 2])

(* Ordered, but for the children of k, which may be before it; they are    *)
(* not before its parent.                                                  *)
NearlyDown(a, k) ==
    \A i \in 2..Len(a) :
        /\ i \div 2 # k => ~ before(a[i], a[i \div 2])
        /\ i \div 2 = k /\ k > 1 => ~ before(a[i], a[k \div 2])

(* One turn of bubbleUp's loop.                                            *)
LEMMA UpStep ==
    ASSUME NEW a \in Seq(Items), NEW k \in 2..Len(a), before(a[k], a[k \div 2])
    PROVE  LET b == swap(a, k, k \div 2)
           IN  /\ b \in Seq(Items) /\ SameItems(a, b)
               /\ k \div 2 \in 1..(k - 1)
               /\ NearlyUp(a, k) => NearlyUp(b, k \div 2)
<1> DEFINE l == k \div 2
           b == swap(a, k, l)
<1>1. /\ Len(a) \in Nat /\ k \in Nat /\ l \in 1..(k - 1) /\ l \in 1..Len(a) /\ k \in 1..Len(a)
  OBVIOUS
<1> HIDE DEF l
<1>2. /\ b \in Seq(Items) /\ SameItems(a, b) /\ Len(b) = Len(a)
      /\ b[k] = a[l] /\ b[l] = a[k]
      /\ \A i \in 1..Len(a) : i # k /\ i # l => b[i] = a[i]
  BY <1>1, SwapOK DEF SameItems
<1> HIDE DEF b
<1>3. \A i \in 1..Len(a) : a[i] \in Items
  OBVIOUS
<1>4. ASSUME NearlyUp(a, k), NEW i \in 2..Len(a), i # l PROVE ~ before(b[i], b[i \div 2])
  <2>1. i \div 2 \in 1..Len(a) /\ i \in 1..Len(a) /\ i \div 2 # i
    OBVIOUS
  <2>2. CASE i = k
    BY <1>1, <1>2, <1>3, <2>2, ItemsOrdered DEF l
  <2>3. CASE i # k /\ i \div 2 = l
    <3>1. ~ before(a[i], a[l]) /\ b[i] = a[i] /\ b[l] = a[k]
      BY <1>2, <1>4, <2>1, <2>3 DEF NearlyUp
    <3>2. ~ before(a[l], a[k])
      BY <1>1, <1>3, ItemsOrdered DEF l
    <3>3. ~ before(a[i], a[k])
      BY <1>1, <1>3, <2>1, <3>1, <3>2, ItemsOrdered
    <3> QED BY <2>3, <3>1, <3>3
  <2>4. CASE i # k /\ i \div 2 = k
    <3>1. ~ before(a[i], a[l])
      BY <1>4, <2>4 DEF NearlyUp, l
    <3> QED BY <1>2, <1>4, <2>1, <2>4, <3>1
  <2>5. CASE i # k /\ i \div 2 # k /\ i \div 2 # l
    <3>1. ~ before(a[i], a[i \div 2])
      BY <1>4, <2>5 DEF NearlyUp
    <3> QED BY <1>2, <1>4, <2>1, <2>5, <3>1
  <2> QED BY <2>2, <2>3, <2>4, <2>5
<1>5. ASSUME NearlyUp(a, k), NEW i \in 2..Len(a), i \div 2 = l, l > 1
      PROVE  ~ before(b[i], b[l \div 2])
  <2>1. /\ l \div 2 \in 1..Len(a) /\ l \div 2 # l /\ l \div 2 # k /\ l \in 2..Len(a) /\ l # k
        /\ i \in 1..Len(a) /\ i # l
    BY <1>1, <1>5
  <2>2. ~ before(a[l], a[l \div 2]) /\ b[l \div 2] = a[l \div 2]
    BY <1>2, <1>5, <2>1 DEF NearlyUp
  <2>3. CASE i = k
    BY <1>2, <2>2, <2>3
  <2>4. CASE i # k
    <3>1. ~ before(a[i], a[l]) /\ b[i] = a[i]
      BY <1>2, <1>5, <2>1, <2>4 DEF NearlyUp
    <3>2. ~ before(a[i], a[l \div 2])
      BY <1>1, <1>3, <2>1, <2>2, <3>1, ItemsOrdered
    <3> QED BY <2>2, <3>1, <3>2
  <2> QED BY <2>3, <2>4
<1>6. NearlyUp(a, k) => NearlyUp(b, l)
  BY <1>2, <1>4, <1>5 DEF NearlyUp
<1> QED BY <1>1, <1>2, <1>6 DEF b, l

(* Where the loop ends, the heap is ordered.                               *)
LEMMA UpEnd ==
    ASSUME NEW a \in Seq(Items), NEW k \in Nat \ {0}, NearlyUp(a, k),
           ~ (k \in 2..Len(a) /\ before(a[k], a[k \div 2]))
    PROVE  Ordered(a)
BY DEF NearlyUp, Ordered

(* What bubbleUp may make of an array and a position in it.                *)
Risen(p) == {b \in Seq(Items) : SameItems(p[1], b) /\ (NearlyUp(p[1], p[2]) => Ordered(b))}

(* bubbleUp keeps the items, and mends the order.                          *)
LEMMA BubbleUpOK ==
    ASSUME NEW a \in Seq(Items), NEW k \in Nat \ {0}
    PROVE  /\ bubbleUp(a, k) \in Seq(Items)
           /\ SameItems(a, bubbleUp(a, k))
           /\ NearlyUp(a, k) => Ordered(bubbleUp(a, k))
<1> DEFINE D == Places
           V == Seq(Items)
           Turns(p) == p[2] \in 2..Len(p[1]) /\ before(p[1][p[2]], p[1][p[2] \div 2])
           next(p) == <<swap(p[1], p[2], p[2] \div 2), p[2] \div 2>>
           Body(u, p) == IF Turns(p) THEN u[next(p)] ELSE p[1]
           up == CHOOSE u : u = [p \in D |-> Body(u, p)]
           m == [p \in D |-> p[2]]
           R == [p \in D |-> Risen(p)]
           g == [x \in [D -> V] \X D |-> Body(x[1], x[2])]
<1>1. bubbleUp(a, k) = up[<<a, k>>]
  BY DEF bubbleUp
<1>2. ASSUME NEW p \in D PROVE p[1] \in Seq(Items) /\ p[2] \in Nat \ {0} /\ p = <<p[1], p[2]>>
  BY DEF Places
<1>3. ASSUME NEW p \in D, Turns(p)
      PROVE  next(p) \in D /\ m[next(p)] < m[p] /\ Risen(next(p)) \subseteq Risen(p)
  <2> DEFINE b == swap(p[1], p[2], p[2] \div 2)
             l == p[2] \div 2
  <2>1. /\ b \in Seq(Items) /\ SameItems(p[1], b) /\ l \in 1..(p[2] - 1)
        /\ NearlyUp(p[1], p[2]) => NearlyUp(b, l)
    BY <1>2, <1>3, UpStep
  <2>2. next(p) = <<b, l>> /\ p[2] \in Nat
    BY <1>2
  <2> HIDE DEF b, l, next
  <2>3. next(p) \in D /\ m[next(p)] < m[p]
    BY <1>2, <2>1, <2>2 DEF Places
  <2>4. Risen(next(p)) \subseteq Risen(p)
    BY <2>1, <2>2 DEF Risen, SameItems
  <2> QED BY <2>3, <2>4
<1>4. ASSUME NEW p \in D, ~ Turns(p) PROVE p[1] \in Risen(p)
  BY <1>2, <1>4, UpEnd DEF Risen, SameItems
<1>5. ASSUME NEW p \in D, NEW f, NEW q, AgreeBelow(f, q, D, m, m[p])
      PROVE  Body(f, p) = Body(q, p)
  <2> HIDE DEF m, Turns, next, D
  <2> QED BY <1>3, <1>5 DEF AgreeBelow
<1>6. ASSUME NEW f \in [D -> V], NEW p \in D PROVE g[<<f, p>>] = Body(f, p)
  <2> HIDE DEF Body, D, V
  <2> QED OBVIOUS
<1>7. Recurses(g, D, V, m, R)
  <2>1. m \in [D -> Nat] /\ R \in [D -> SUBSET V]
    BY <1>2 DEF Risen
  <2>2. ASSUME NEW p \in D, NEW f \in [D -> V], AllowedBelow(f, R, D, m, m[p])
        PROVE  g[<<f, p>>] \in R[p]
    <3>1. Body(f, p) \in Risen(p)
      <4> HIDE DEF m, Turns, next, D
      <4> QED BY <1>3, <1>4, <2>2 DEF AllowedBelow
    <3> HIDE DEF Body, D, V, g
    <3> QED BY <1>6, <3>1
  <2>3. ASSUME NEW p \in D, NEW f \in [D -> V], NEW q \in [D -> V],
               AgreeBelow(f, q, D, m, m[p])
        PROVE  g[<<f, p>>] = g[<<q, p>>]
    <3> HIDE DEF g, Body, D, V, m
    <3> QED BY <1>5, <1>6, <2>3
  <2> HIDE DEF g, m, R, D, V
  <2> QED BY <2>1, <2>2, <2>3 DEF Recurses
<1>8. <<>> \in V
  OBVIOUS
<1>9. up = [p \in D |-> Body(up, p)]
  <2>1. PICK h : Solution(h, g, D, V, R)
    <3> HIDE DEF g, m, R, D, V
    <3> QED BY <1>7, <1>8, Recursion
  <2>2. h = [p \in D |-> Body(h, p)]
    <3> HIDE DEF g, R, D, V, Body
    <3> QED BY <1>6, <2>1 DEF Solution
  <2> HIDE DEF Body, D
  <2> QED BY <2>2
<1>10. \A p \in D : up[p] \in R[p]
  <2>1. ASSUME NEW p \in D, NEW f \in [D -> V], AgreeBelow(f, up, D, m, m[p])
        PROVE  g[<<f, p>>] = up[p]
    <3> HIDE DEF g, up, Body, D, V, m
    <3> QED BY <1>5, <1>6, <1>9, <2>1
  <2> HIDE DEF g, m, R, D, V, up
  <2>2. Follows(up, g, D, V, m, R)
    BY <2>1 DEF Follows
  <2> QED BY <1>7, <1>8, <2>2, RecursionOK
<1>11. <<a, k>> \in D
  BY DEF Places
<1> HIDE DEF up
<1> QED BY <1>1, <1>10, <1>11 DEF Risen

--------------------------------------------------------------------------------
(* smallest is k, or a child that is before it and not after the other.    *)
LEMMA SmallestOK ==
    ASSUME NEW a \in Seq(Items), NEW k \in Nat \ {0}
    PROVE  LET s == smallest(a, k)
           IN  /\ \/ s = k
                  \/ s \in 2..Len(a) /\ s \div 2 = k /\ k \in 1..Len(a) /\ before(a[s], a[k])
               /\ \A i \in 2..Len(a) : i \div 2 = k => ~ before(a[i], a[s])
<1> DEFINE s == smallest(a, k)
           left == IF 2*k <= Len(a) /\ before(a[2*k], a[k]) THEN 2*k ELSE k
<1>1. Len(a) \in Nat /\ \A i \in 1..Len(a) : a[i] \in Items
  OBVIOUS
<1>2. s = IF 2*k + 1 <= Len(a) /\ before(a[2*k + 1], a[left]) THEN 2*k + 1 ELSE left
  BY DEF smallest
<1>3. \A i \in 2..Len(a) : i \div 2 = k => (i = 2*k \/ i = 2*k + 1) /\ k \in 1..Len(a)
  OBVIOUS
<1>4. (2*k + 1) \div 2 = k /\ (2*k) \div 2 = k
  OBVIOUS
<1> SUFFICES /\ s = k \/ (s \in 2..Len(a) /\ s \div 2 = k /\ k \in 1..Len(a) /\ before(a[s], a[k]))
             /\ \A i \in 2..Len(a) : i \div 2 = k => ~ before(a[i], a[s])
  OBVIOUS
<1> HIDE DEF s
<1>5. CASE 2*k > Len(a)
  BY <1>1, <1>2, <1>3, <1>5
<1>6. CASE 2*k = Len(a)
  <2>1. k \in 1..Len(a) /\ 2*k \in 2..Len(a) /\ s = left
    BY <1>1, <1>2, <1>6
  <2> QED BY <1>1, <1>3, <1>4, <1>6, <2>1, ItemsOrdered
<1>7. CASE 2*k + 1 <= Len(a)
  <2>1. k \in 1..Len(a) /\ 2*k \in 2..Len(a) /\ 2*k + 1 \in 2..Len(a)
    BY <1>1, <1>7
  <2>2. a[k] \in Items /\ a[2*k] \in Items /\ a[2*k + 1] \in Items
    BY <1>1, <2>1
  <2>3. (left = k \/ (left = 2*k /\ before(a[2*k], a[k]))) /\ ~ before(a[2*k], a[left])
    BY <2>1, <2>2, ItemsOrdered
  <2> HIDE DEF left
  <2>4. CASE s = left
    <3>1. ~ before(a[2*k + 1], a[left])
      BY <1>2, <1>7, <2>2, <2>3, <2>4, ItemsOrdered
    <3> QED BY <1>3, <1>4, <2>1, <2>3, <2>4, <3>1
  <2>5. CASE s # left
    <3>1. s = 2*k + 1 /\ before(a[2*k + 1], a[left])
      BY <1>2, <2>5
    <3>2. ~ before(a[2*k], a[2*k + 1]) /\ ~ before(a[2*k + 1], a[2*k + 1])
      BY <2>2, <2>3, <3>1, ItemsOrdered
    <3>3. before(a[2*k + 1], a[k])
      BY <2>2, <2>3, <3>1, ItemsOrdered
    <3> QED BY <1>3, <1>4, <2>1, <3>1, <3>2, <3>3
  <2> QED BY <2>4, <2>5
<1>8. 2*k > Len(a) \/ 2*k = Len(a) \/ 2*k + 1 <= Len(a)
  BY <1>1
<1> QED BY <1>5, <1>6, <1>7, <1>8

(* One turn of sinkDown's loop.                                            *)
LEMMA DownStep ==
    ASSUME NEW a \in Seq(Items), NEW k \in Nat \ {0}, smallest(a, k) # k
    PROVE  LET s == smallest(a, k)
               b == swap(a, k, s)
           IN  /\ b \in Seq(Items) /\ SameItems(a, b)
               /\ s \in Nat /\ k < s /\ k \in 1..Len(a) /\ s \in 1..Len(a)
               /\ NearlyDown(a, k) => NearlyDown(b, s)
<1> DEFINE s == smallest(a, k)
           b == swap(a, k, s)
<1>1. /\ Len(a) \in Nat /\ s \in 2..Len(a) /\ s \div 2 = k /\ k \in 1..Len(a)
      /\ before(a[s], a[k]) /\ \A i \in 2..Len(a) : i \div 2 = k => ~ before(a[i], a[s])
  BY SmallestOK
<1> HIDE DEF s
<1>2. s \in 1..Len(a) /\ k < s
  BY <1>1
<1>3. /\ b \in Seq(Items) /\ SameItems(a, b) /\ Len(b) = Len(a)
      /\ b[k] = a[s] /\ b[s] = a[k]
      /\ \A i \in 1..Len(a) : i # k /\ i # s => b[i] = a[i]
  BY <1>1, <1>2, SwapOK DEF SameItems
<1> HIDE DEF b
<1>4. \A i \in 1..Len(a) : a[i] \in Items
  OBVIOUS
<1>5. ASSUME NearlyDown(a, k), NEW i \in 2..Len(a), i \div 2 # s
      PROVE  ~ before(b[i], b[i \div 2])
  <2>1. i \div 2 \in 1..Len(a) /\ i \in 1..Len(a) /\ i \div 2 # i
    OBVIOUS
  <2>2. CASE i = s
    BY <1>1, <1>2, <1>3, <1>4, <2>2, ItemsOrdered
  <2>3. CASE i # s /\ i \div 2 = k
    <3>1. ~ before(a[i], a[s]) /\ b[i] = a[i]
      BY <1>1, <1>3, <2>1, <2>3
    <3> QED BY <1>3, <2>3, <3>1
  <2>4. CASE i = k
    <3>1. ~ before(a[s], a[k \div 2]) /\ b[k \div 2] = a[k \div 2]
      BY <1>1, <1>3, <1>5, <2>1, <2>4 DEF NearlyDown
    <3> QED BY <1>3, <2>4, <3>1
  <2>5. CASE i # s /\ i # k /\ i \div 2 # k
    <3>1. ~ before(a[i], a[i \div 2])
      BY <1>5, <2>5 DEF NearlyDown
    <3> QED BY <1>3, <1>5, <2>1, <2>5, <3>1
  <2> QED BY <2>2, <2>3, <2>4, <2>5
<1>6. ASSUME NearlyDown(a, k), NEW i \in 2..Len(a), i \div 2 = s
      PROVE  ~ before(b[i], b[s \div 2])
  <2>1. i \in 1..Len(a) /\ i # s /\ i # k /\ s # k
    BY <1>1, <1>2, <1>6
  <2>2. ~ before(a[i], a[s])
    BY <1>6, <2>1 DEF NearlyDown
  <2> QED BY <1>1, <1>3, <2>1, <2>2
<1>7. NearlyDown(a, k) => NearlyDown(b, s)
  BY <1>3, <1>5, <1>6 DEF NearlyDown
<1> QED BY <1>1, <1>2, <1>3, <1>7 DEF b, s

(* Where the loop ends, the heap is ordered.                               *)
LEMMA DownEnd ==
    ASSUME NEW a \in Seq(Items), NEW k \in Nat \ {0}, NearlyDown(a, k), smallest(a, k) = k
    PROVE  Ordered(a)
BY SmallestOK DEF NearlyDown, Ordered

(* What sinkDown may make of an array and a position in it.                *)
Sunk(p) == {b \in Seq(Items) : SameItems(p[1], b) /\ (NearlyDown(p[1], p[2]) => Ordered(b))}

(* sinkDown keeps the items, and mends the order.                          *)
LEMMA SinkDownOK ==
    ASSUME NEW a \in Seq(Items), NEW k \in Nat \ {0}
    PROVE  /\ sinkDown(a, k) \in Seq(Items)
           /\ SameItems(a, sinkDown(a, k))
           /\ NearlyDown(a, k) => Ordered(sinkDown(a, k))
<1> DEFINE D == Places
           V == Seq(Items)
           Turns(p) == smallest(p[1], p[2]) # p[2]
           next(p) == <<swap(p[1], p[2], smallest(p[1], p[2])), smallest(p[1], p[2])>>
           Body(u, p) == IF smallest(p[1], p[2]) = p[2] THEN p[1] ELSE u[next(p)]
           down == CHOOSE u : u = [p \in D |-> Body(u, p)]
           m == [p \in D |-> IF p[2] <= Len(p[1]) THEN Len(p[1]) - p[2] ELSE 0]
           R == [p \in D |-> Sunk(p)]
           g == [x \in [D -> V] \X D |-> Body(x[1], x[2])]
<1>1. sinkDown(a, k) = down[<<a, k>>]
  BY DEF sinkDown
<1>2. ASSUME NEW p \in D PROVE p[1] \in Seq(Items) /\ p[2] \in Nat \ {0} /\ p = <<p[1], p[2]>>
  BY DEF Places
<1>3. ASSUME NEW p \in D, Turns(p)
      PROVE  next(p) \in D /\ m[next(p)] < m[p] /\ Sunk(next(p)) \subseteq Sunk(p)
  <2> DEFINE l == smallest(p[1], p[2])
             b == swap(p[1], p[2], l)
  <2>1. /\ b \in Seq(Items) /\ SameItems(p[1], b) /\ Len(p[1]) \in Nat
        /\ l \in Nat /\ p[2] < l /\ p[2] \in 1..Len(p[1]) /\ l \in 1..Len(p[1])
        /\ NearlyDown(p[1], p[2]) => NearlyDown(b, l)
    BY <1>2, <1>3, DownStep
  <2>2. next(p) = <<b, l>> /\ p[2] \in Nat
    BY <1>2
  <2> HIDE DEF b, l, next
  <2>3. Len(b) = Len(p[1]) /\ l <= Len(b) /\ next(p) \in D /\ next(p)[1] = b /\ next(p)[2] = l
    BY <2>1, <2>2 DEF Places, SameItems
  <2>4. m[next(p)] = Len(p[1]) - l /\ m[p] = Len(p[1]) - p[2]
    <3> HIDE DEF D
    <3> QED BY <2>1, <2>3
  <2>5. Sunk(next(p)) \subseteq Sunk(p)
    BY <2>1, <2>2 DEF Sunk, SameItems
  <2> QED BY <1>2, <2>1, <2>3, <2>5, <2>4
<1>4. ASSUME NEW p \in D, ~ Turns(p) PROVE p[1] \in Sunk(p)
  BY <1>2, <1>4, DownEnd DEF Sunk, SameItems
<1>5. ASSUME NEW p \in D, NEW f, NEW q, AgreeBelow(f, q, D, m, m[p])
      PROVE  Body(f, p) = Body(q, p)
  <2> HIDE DEF m, next, D
  <2> QED BY <1>3, <1>5 DEF AgreeBelow
<1>6. ASSUME NEW f \in [D -> V], NEW p \in D PROVE g[<<f, p>>] = Body(f, p)
  <2> HIDE DEF Body, D, V
  <2> QED OBVIOUS
<1>7. Recurses(g, D, V, m, R)
  <2>1. m \in [D -> Nat] /\ R \in [D -> SUBSET V]
    BY <1>2 DEF Sunk
  <2>2. ASSUME NEW p \in D, NEW f \in [D -> V], AllowedBelow(f, R, D, m, m[p])
        PROVE  g[<<f, p>>] \in R[p]
    <3>1. Body(f, p) \in Sunk(p)
      <4> HIDE DEF m, next, D
      <4> QED BY <1>3, <1>4, <2>2 DEF AllowedBelow
    <3> HIDE DEF Body, D, V, g
    <3> QED BY <1>6, <3>1
  <2>3. ASSUME NEW p \in D, NEW f \in [D -> V], NEW q \in [D -> V],
               AgreeBelow(f, q, D, m, m[p])
        PROVE  g[<<f, p>>] = g[<<q, p>>]
    <3> HIDE DEF g, Body, D, V, m
    <3> QED BY <1>5, <1>6, <2>3
  <2> HIDE DEF g, m, R, D, V
  <2> QED BY <2>1, <2>2, <2>3 DEF Recurses
<1>8. <<>> \in V
  OBVIOUS
<1>9. down = [p \in D |-> Body(down, p)]
  <2>1. PICK h : Solution(h, g, D, V, R)
    <3> HIDE DEF g, m, R, D, V
    <3> QED BY <1>7, <1>8, Recursion
  <2>2. h = [p \in D |-> Body(h, p)]
    <3> HIDE DEF g, R, D, V, Body
    <3> QED BY <1>6, <2>1 DEF Solution
  <2> HIDE DEF Body, D
  <2> QED BY <2>2
<1>10. \A p \in D : down[p] \in R[p]
  <2>1. ASSUME NEW p \in D, NEW f \in [D -> V], AgreeBelow(f, down, D, m, m[p])
        PROVE  g[<<f, p>>] = down[p]
    <3> HIDE DEF g, down, Body, D, V, m
    <3> QED BY <1>5, <1>6, <1>9, <2>1
  <2> HIDE DEF g, m, R, D, V, down
  <2>2. Follows(down, g, D, V, m, R)
    BY <2>1 DEF Follows
  <2> QED BY <1>7, <1>8, <2>2, RecursionOK
<1>11. <<a, k>> \in D
  BY DEF Places
<1> HIDE DEF down
<1> QED BY <1>1, <1>10, <1>11 DEF Sunk

--------------------------------------------------------------------------------
(* In an ordered heap no item is before the first.                         *)
LEMMA RootLeast ==
    ASSUME NEW a \in Seq(Items), Ordered(a), NEW i \in 1..Len(a)
    PROVE  ~ before(a[i], a[1])
<1> DEFINE S == {l \in 1..Len(a) : before(a[l], a[1])}
<1>1. SUFFICES ASSUME S # {} PROVE FALSE
  OBVIOUS
<1>2. S \subseteq Nat
  OBVIOUS
<1>3. PICK n \in S : \A l \in S : n <= l
  <2> HIDE DEF S
  <2> QED BY <1>1, <1>2, LeastNumber
<1>4. Len(a) \in Nat /\ n \in 1..Len(a) /\ before(a[n], a[1]) /\ a[1] \in Items /\ a[n] \in Items
  BY <1>3
<1>5. n # 1
  BY <1>4, ItemsOrdered
<1>6. n \in 2..Len(a) /\ n \div 2 \in 1..Len(a) /\ n \div 2 < n
  BY <1>4, <1>5
<1>7. ~ before(a[n \div 2], a[1]) /\ a[n \div 2] \in Items
  <2>1. n \div 2 \notin S
    <3> HIDE DEF S
    <3> QED BY <1>3, <1>4, <1>6
  <2> QED BY <1>6, <2>1
<1>8. ~ before(a[n], a[n \div 2])
  BY <1>6 DEF Ordered
<1> QED BY <1>4, <1>7, <1>8, ItemsOrdered

(* One item more, as bags.                                                 *)
LEMMA BagMore ==
    ASSUME NEW a \in Seq(Items), NEW b \in Seq(Items), NEW z \in Items,
           \A x \in Items : Copies(b, x) = Copies(a, x) + IF x = z THEN 1 ELSE 0
    PROVE  ToBag(b) = ToBag(a) (+) SetToBag({z})
<1> DEFINE A == {y \in Items : Copies(a, y) > 0}
           B == {y \in Items : Copies(b, y) > 0}
<1>1. \A x : Copies(a, x) \in Nat /\ Copies(b, x) \in Nat
  BY CopiesOK
<1>2. B = A \cup {z}
  BY <1>1
<1>3. ToBag(a) = [x \in A |-> Copies(a, x)] /\ ToBag(b) = [x \in B |-> Copies(b, x)]
  BY BagOf
<1>4. SetToBag({z}) = [x \in {z} |-> 1]
  BY DEF SetToBag
<1>5. \A x \in B : Copies(b, x) = (IF x \in A THEN Copies(a, x) ELSE 0)
                                  + (IF x \in {z} THEN 1 ELSE 0)
  BY <1>1
<1> HIDE DEF A, B
<1>6. ToBag(a) (+) SetToBag({z}) =
      [x \in A \cup {z} |-> (IF x \in A THEN Copies(a, x) ELSE 0) + (IF x \in {z} THEN 1 ELSE 0)]
  BY <1>3, <1>4 DEF (+)
<1> QED BY <1>2, <1>3, <1>5, <1>6

(* One item less.                                                          *)
LEMMA BagLess ==
    ASSUME NEW a \in Seq(Items), NEW b \in Seq(Items), NEW z \in Items,
           \A x \in Items : Copies(a, x) = Copies(b, x) + IF x = z THEN 1 ELSE 0
    PROVE  ToBag(b) = ToBag(a) (-) SetToBag({z})
<1> DEFINE A == {y \in Items : Copies(a, y) > 0}
           B == {y \in Items : Copies(b, y) > 0}
           C == [x \in A |-> IF x \in {z} THEN Copies(a, x) - 1 ELSE Copies(a, x)]
<1>1. \A x : Copies(a, x) \in Nat /\ Copies(b, x) \in Nat
  BY CopiesOK
<1>2. \A x \in A : C[x] = Copies(b, x)
  BY <1>1
<1>3. B \subseteq A /\ A \subseteq Items
  BY <1>1
<1>4. ToBag(a) = [x \in A |-> Copies(a, x)] /\ ToBag(b) = [x \in B |-> Copies(b, x)]
  BY BagOf
<1>5. SetToBag({z}) = [x \in {z} |-> 1]
  BY DEF SetToBag
<1>6. {x \in A : C[x] > 0} = B
  <2> HIDE DEF C
  <2> QED BY <1>2, <1>3
<1> HIDE DEF A, B
<1>7. ToBag(a) (-) SetToBag({z}) = [x \in {d \in A : C[d] > 0} |-> C[x]]
  BY <1>4, <1>5 DEF (-)
<1> HIDE DEF C
<1> QED BY <1>2, <1>3, <1>4, <1>6, <1>7

(* What the last item leaves of a heap of several, in the first's place.   *)
LEMMA PopCopies ==
    ASSUME NEW a \in Seq(Items), Len(a) > 1
    PROVE  LET c == [Front(a) EXCEPT ![1] = Last(a)]
           IN  /\ c \in Seq(Items) /\ Len(c) = Len(a) - 1
               /\ \A i \in 2..Len(c) : c[i] = a[i]
               /\ \A x \in Items : Copies(a, x) = Copies(c, x) + IF x = a[1] THEN 1 ELSE 0
<1> DEFINE n == Len(a)
           c == [Front(a) EXCEPT ![1] = Last(a)]
           b == swap(a, 1, n)
<1>1. n \in Nat /\ n > 1 /\ \A i \in 1..n : a[i] \in Items
  OBVIOUS
<1>2. c = [i \in 1..(n - 1) |-> IF i = 1 THEN a[n] ELSE a[i]]
  <2>1. Front(a) = [i \in 1..(n - 1) |-> a[i]]
    BY <1>1 DEF Front
  <2>2. Last(a) = a[n]
    BY DEF Last
  <2> QED BY <1>1, <2>1, <2>2
<1>3. c \in Seq(Items) /\ Len(c) = n - 1
  <2> HIDE DEF c
  <2> QED BY <1>1, <1>2
<1>4. /\ b \in Seq(Items) /\ SameItems(a, b) /\ Len(b) = n
      /\ b[1] = a[n] /\ b[n] = a[1] /\ \A i \in 1..n : i # 1 /\ i # n => b[i] = a[i]
  BY <1>1, SwapOK DEF SameItems
<1> HIDE DEF c, b
<1>5. b = Append(c, a[1])
  <2>1. Append(c, a[1]) \in Seq(Items) /\ Len(Append(c, a[1])) = n
    BY <1>1, <1>3
  <2>2. ASSUME NEW i \in 1..n PROVE b[i] = Append(c, a[1])[i]
    <3>1. Append(c, a[1])[n] = a[1] /\ \A l \in 1..(n - 1) : Append(c, a[1])[l] = c[l]
      BY <1>1, <1>3
    <3> QED BY <1>1, <1>2, <1>4, <3>1
  <2> QED BY <1>4, <2>1, <2>2
<1>6. ASSUME NEW x \in Items PROVE Copies(a, x) = Copies(c, x) + IF x = a[1] THEN 1 ELSE 0
  BY <1>1, <1>3, <1>4, <1>5, AppendCopies DEF SameItems
<1>7. \A i \in 2..Len(c) : c[i] = a[i]
  BY <1>1, <1>2, <1>3
<1> QED BY <1>3, <1>6, <1>7 DEF c

--------------------------------------------------------------------------------
(* The inductive invariant: the array is a heap.                           *)
HeapInv == HeapTypeOK /\ Ordered(heap)

(* A new item at the end may be before its parent, and only that.          *)
LEMMA PushOK ==
    ASSUME HeapInv, NEW x \in Items, Push(x)
    PROVE  HeapInv' /\ ToBag(heap') = ToBag(heap) (+) SetToBag({x})
<1> DEFINE a == Append(heap, x)
           n == Len(heap) + 1
           b == bubbleUp(a, n)
<1>1. heap \in Seq(Items) /\ Ordered(heap) /\ popped \in Items \cup {Nothing}
  BY DEF HeapInv, HeapTypeOK
<1>2. /\ a \in Seq(Items) /\ Len(a) = n /\ n \in Nat \ {0}
      /\ \A i \in 1..Len(heap) : a[i] = heap[i]
  BY <1>1
<1>3. NearlyUp(a, n)
  <2> HIDE DEF a
  <2>1. ASSUME NEW i \in 2..n
        PROVE  (i # n => ~ before(a[i], a[i \div 2])) /\ i \div 2 # n
    <3>1. i \div 2 # n /\ (i # n => i \in 2..Len(heap) /\ i \in 1..Len(heap) /\ i \div 2 \in 1..Len(heap))
      BY <1>1
    <3> QED BY <1>1, <1>2, <3>1 DEF Ordered
  <2> QED BY <1>2, <2>1 DEF NearlyUp
<1>4. b \in Seq(Items) /\ SameItems(a, b) /\ Ordered(b)
  <2> HIDE DEF a, n
  <2> QED BY <1>2, <1>3, BubbleUpOK
<1>5. heap' = b /\ popped' = popped
  BY DEF Push
<1>6. \A y \in Items : Copies(b, y) = Copies(heap, y) + IF y = x THEN 1 ELSE 0
  BY <1>1, <1>4, AppendCopies DEF SameItems
<1> HIDE DEF b
<1>7. ToBag(b) = ToBag(heap) (+) SetToBag({x})
  BY <1>1, <1>4, <1>6, BagMore
<1>8. HeapInv'
  BY <1>1, <1>4, <1>5 DEF HeapInv, HeapTypeOK, Ordered
<1> QED BY <1>5, <1>7, <1>8

(* The first item is a least one; without it, with the last in its place,  *)
(* the rest is a heap but for the children of the first.                   *)
LEMMA PopOK ==
    ASSUME HeapInv, Pop
    PROVE  /\ HeapInv'
           /\ heap[1] \in Items /\ Copies(heap, heap[1]) > 0 /\ popped' = heap[1]
           /\ \A y \in Items : Copies(heap, y) > 0 => ~ before(y, heap[1])
           /\ ToBag(heap') = ToBag(heap) (-) SetToBag({heap[1]})
<1>1. heap \in Seq(Items) /\ Ordered(heap) /\ heap # <<>>
  BY DEF HeapInv, HeapTypeOK, Pop
<1>2. Len(heap) \in Nat \ {0} /\ heap[1] \in Items /\ Head(heap) = heap[1]
  BY <1>1
<1>3. Copies(heap, heap[1]) > 0
  <2>1. 1 \in 1..Len(heap)
    BY <1>2
  <2> QED BY <1>1, <2>1, CopiesOK
<1>4. \A y \in Items : Copies(heap, y) > 0 => ~ before(y, heap[1])
  BY <1>1, CopiesOK, RootLeast
<1>5. popped' = heap[1]
  BY <1>2 DEF Pop
<1>6. /\ heap' \in Seq(Items) /\ Ordered(heap')
      /\ \A y \in Items : Copies(heap, y) = Copies(heap', y) + IF y = heap[1] THEN 1 ELSE 0
  <2>1. CASE Len(heap) = 1
    <3> DEFINE e == <<>>
    <3>1. heap' = e
      BY <2>1 DEF Pop
    <3>2. e \in Seq(Items) /\ Len(e) = 0 /\ heap = Append(e, heap[1])
      BY <1>1, <1>2, <2>1
    <3> HIDE DEF e
    <3>3. ASSUME NEW y \in Items PROVE Copies(heap, y) = Copies(e, y) + IF y = heap[1] THEN 1 ELSE 0
      <4>1. Copies(Append(e, heap[1]), y) = Copies(e, y) + IF y = heap[1] THEN 1 ELSE 0
        BY <1>2, <3>2, AppendCopies
      <4> QED BY <3>2, <4>1
    <3> QED BY <3>1, <3>2, <3>3 DEF Ordered
  <2>2. CASE Len(heap) # 1
    <3>0. Len(heap) > 1
      <4>1. \A n \in Nat \ {0} : n # 1 => n > 1
        OBVIOUS
      <4> QED BY <1>2, <2>2, <4>1, Zenon
    <3> DEFINE c == [Front(heap) EXCEPT ![1] = Last(heap)]
               b == sinkDown(c, 1)
    <3>1. heap' = b
      BY <2>2, Zenon DEF Pop
    <3>2. /\ c \in Seq(Items) /\ Len(c) = Len(heap) - 1 /\ \A i \in 2..Len(c) : c[i] = heap[i]
          /\ \A y \in Items : Copies(heap, y) = Copies(c, y) + IF y = heap[1] THEN 1 ELSE 0
      BY <1>1, <3>0, PopCopies
    <3> HIDE DEF c
    <3>3. NearlyDown(c, 1)
      <4>1. ASSUME NEW i \in 2..Len(c), i \div 2 # 1 PROVE ~ before(c[i], c[i \div 2])
        <5>1. i \in 2..Len(heap) /\ i \div 2 \in 2..Len(c)
          BY <1>2, <3>2, <4>1
        <5> QED BY <1>1, <3>2, <5>1 DEF Ordered
      <4> QED BY <4>1 DEF NearlyDown
    <3>4. b \in Seq(Items) /\ SameItems(c, b) /\ Ordered(b)
      BY <3>2, <3>3, SinkDownOK
    <3> HIDE DEF b
    <3> QED BY <3>1, <3>2, <3>4 DEF SameItems
  <2> QED BY <2>1, <2>2
<1>7. ToBag(heap') = ToBag(heap) (-) SetToBag({heap[1]})
  BY <1>1, <1>2, <1>6, BagLess
<1>8. HeapInv'
  BY <1>2, <1>5, <1>6 DEF HeapInv, HeapTypeOK, Ordered
<1> QED BY <1>2, <1>3, <1>4, <1>5, <1>7, <1>8

(* The bag of an empty heap.                                               *)
LEMMA EmptyHeap == ToBag(<<>>) = EmptyBag
<1> DEFINE e == <<>>
<1>1. e \in Seq(Items) /\ Len(e) = 0
  OBVIOUS
<1>2. ASSUME NEW y \in Items PROVE ~ (Copies(e, y) > 0)
  <2> HIDE DEF e
  <2>1. 1..Len(e) = {}
    BY <1>1
  <2> QED BY <1>1, <2>1, CopiesOK
<1> QED BY <1>1, <1>2, BagOf DEF EmptyBag, SetToBag

(* Every step of the heap keeps it one, and is a step of the bag.          *)
LEMMA HeapStep ==
    ASSUME HeapInv, [HeapNext]_queueVars
    PROVE  HeapInv' /\ [Contents!Next]_<<ToBag(heap), popped>>
<1>1. CASE PopEmpty
  <2>1. heap = <<>> /\ heap' = heap /\ popped' = Nothing
    BY <1>1 DEF PopEmpty
  <2>2. HeapInv'
    BY <2>1 DEF HeapInv, HeapTypeOK, Ordered
  <2>3. Contents!Pop
    BY <2>1, EmptyHeap DEF Contents!Pop, Contents!EmptyBag, EmptyBag, Contents!SetToBag, SetToBag
  <2> QED BY <2>2, <2>3 DEF Contents!Next
<1>2. CASE Pop
  <2> DEFINE x == heap[1]
  <2>1. /\ HeapInv' /\ x \in Items /\ Copies(heap, x) > 0 /\ popped' = x
        /\ \A y \in Items : Copies(heap, y) > 0 => ~ before(y, x)
        /\ ToBag(heap') = ToBag(heap) (-) SetToBag({x})
    BY <1>2, PopOK
  <2>2. DOMAIN ToBag(heap) = {y \in Items : Copies(heap, y) > 0}
    BY BagOf DEF HeapInv, HeapTypeOK
  <2> HIDE DEF x
  <2>3. Contents!Pop
    BY <2>1, <2>2 DEF Contents!Pop, Contents!BagToSet, Contents!(-), (-),
                      Contents!SetToBag, SetToBag
  <2> QED BY <2>1, <2>3 DEF Contents!Next
<1>3. CASE Clear
  <2>1. heap' = <<>> /\ popped' = popped /\ <<>> \in Seq(Items) /\ Len(<<>>) = 0
    BY <1>3 DEF Clear
  <2>2. HeapInv'
    BY <2>1 DEF HeapInv, HeapTypeOK, Ordered
  <2>3. Contents!Clear
    BY <2>1, EmptyHeap DEF Contents!Clear, Contents!EmptyBag, EmptyBag, Contents!SetToBag, SetToBag
  <2> QED BY <2>2, <2>3 DEF Contents!Next
<1>4. ASSUME NEW x \in Items, Push(x) PROVE HeapInv' /\ Contents!Next
  <2>1. HeapInv' /\ ToBag(heap') = ToBag(heap) (+) SetToBag({x}) /\ popped' = popped
    BY <1>4, PushOK DEF Push
  <2>2. Contents!Push(x)
    BY <2>1 DEF Contents!Push, Contents!(+), (+), Contents!SetToBag, SetToBag
  <2> QED BY <2>1, <2>2 DEF Contents!Next
<1>5. CASE UNCHANGED queueVars
  <2>1. heap' = heap /\ popped' = popped
    BY <1>5 DEF queueVars
  <2> QED BY <2>1 DEF HeapInv, HeapTypeOK, Ordered
<1> QED BY <1>1, <1>2, <1>3, <1>4, <1>5 DEF HeapNext

(* An empty heap is an empty bag.                                          *)
LEMMA HeapStart ==
    ASSUME HeapInit PROVE HeapInv /\ Contents!Init
<1>1. heap = <<>> /\ popped = Nothing /\ <<>> \in Seq(Items) /\ Len(<<>>) = 0
  BY DEF HeapInit
<1>2. HeapInv
  BY <1>1 DEF HeapInv, HeapTypeOK, Ordered
<1>3. Contents!Init
  BY <1>1, EmptyHeap DEF Contents!Init, Contents!EmptyBag, EmptyBag, Contents!SetToBag, SetToBag
<1> QED BY <1>2, <1>3

(* Whatever is pushed and popped, with ties and duplicates, the heap is a  *)
(* priority queue: PriorityQueue.ts pops a least item and loses none.      *)
THEOREM HeapIsAPriorityQueue == HeapSpec => ImplementsPriorityBag /\ []HeapTypeOK
<1>0. HeapInv => HeapTypeOK
  BY DEF HeapInv
<1>1. HeapInit => HeapInv /\ Contents!Init
  BY HeapStart
<1>2. HeapInv /\ [HeapNext]_queueVars => HeapInv' /\ [Contents!Next]_<<ToBag(heap), popped>>
  BY HeapStep
<1> QED BY <1>0, <1>1, <1>2, PTL DEF HeapSpec, ImplementsPriorityBag, Contents!Spec
================================================================================
