------------------------- MODULE VentureRound_proofs -------------------------
(***************************************************************************)
(* Proofs about modules CompanyLife and VentureRound, for any number of    *)
(* agents and companies, any fees, wages and shares and any length of a    *)
(* run: what formation, launch, closing and failure leave behind agrees    *)
(* (CompaniesConsistent), and none of them makes or loses a cent           *)
(* (MoneyExact).                                                           *)
(*                                                                         *)
(* The inductive invariant IInv adds to these two what a handler relies on *)
(* that others have written.  StageInv and IdleInv: a company has the      *)
(* status its stage says, and until it is active nothing but its capital.  *)
(* FilingInv: where the incorporation contract stands in a tick, which is  *)
(* why the fee is paid on the day it falls due and never breaches.         *)
(* WorkInv: employers, rows and contracts agree, and a job that is not     *)
(* filled has no row, so that a launch never hires twice.  RoundInv: a     *)
(* settled proposal keeps the terms its talk ended with, which no later    *)
(* talk can change.  DeployedInv, MoneyInv and CounselInv: the books as    *)
(* sums over the companies.                                                *)
(*                                                                         *)
(* Three handlers work through a list, company after company, in one       *)
(* transaction: the launches, the closings and the creditors of a failed   *)
(* company.  For each a set of worlds is shown to be kept by one step, and *)
(* the whole by induction on the length of the list.  The sections before  *)
(* the invariant hold what this takes: induction stated with sets, sums    *)
(* over agents, least and first elements, the waterfall and the lifecycle  *)
(* of a contract.                                                          *)
(***************************************************************************)
EXTENDS VentureRound, FiniteSetTheorems, WellFoundedInduction, TLAPS

-----------------------------------------------------------------------------
(* Induction over the naturals, stated with a set instead of an operator,   *)
(* and what it gives: a function defined by recursion up to a bound exists. *)

(* A set of numbers with 0 and every successor has them all: else its
   complement would have a least element. *)
LEMMA NatSetInduction ==
  ASSUME NEW S, 0 \in S, \A n \in Nat : n \in S => n + 1 \in S
  PROVE  Nat \subseteq S
<1> DEFINE R == OpToRel(<, Nat)
           T == Nat \ S
<1> SUFFICES ASSUME T # {}
             PROVE  FALSE
  OBVIOUS
<1>1. IsWellFoundedOn(R, Nat)
  BY Zenon, NatLessThanWellFounded
<1>2. PICK x \in T : \A y \in T : ~(<<y, x>> \in R)
  <2> HIDE DEF R
  <2> QED BY <1>1, WFMin
<1>3. x \in Nat /\ x # 0 /\ x - 1 \in Nat
  OBVIOUS
<1>4. <<x - 1, x>> \in R
  BY <1>3 DEF OpToRel
<1>5. x - 1 \in T
  <2>1. x - 1 \in S => (x - 1) + 1 \in S
    BY <1>3
  <2>2. (x - 1) + 1 = x
    BY <1>3
  <2> QED BY <1>3, <2>1, <2>2
<1> HIDE DEF R, T
<1> QED BY <1>2, <1>4, <1>5

(* Functions that take a value of V to a value of V, one for each step, ... *)
Steps(N, V) == [1..N -> [V -> V]]
(* ... and a function that starts at base and follows them. *)
Follows(f, N, V, base, step) ==
  f \in [0..N -> V] /\ f[0] = base /\ \A k \in 1..N : f[k] = step[k][f[k - 1]]

(* By induction on n there is such a function up to n. *)
LEMMA BoundedRecursion ==
  ASSUME NEW N \in Nat, NEW V, NEW base \in V, NEW step \in Steps(N, V)
  PROVE  \E f : Follows(f, N, V, base, step)
<1> DEFINE Upto(n, f) == f[0] = base /\ \A k \in 1..n : f[k] = step[k][f[k - 1]]
           S == {n \in Nat : n <= N => \E f \in [0..n -> V] : Upto(n, f)}
<1>1. 0 \in S
  <2> DEFINE f == [k \in 0..0 |-> base]
  <2>1. f \in [0..0 -> V] /\ f[0] = base
    OBVIOUS
  <2>2. Upto(0, f)
    BY <2>1
  <2> QED BY <2>1, <2>2
<1>2. ASSUME NEW n \in Nat, n \in S
      PROVE  n + 1 \in S
  <2> HIDE DEF Upto
  <2> SUFFICES ASSUME n + 1 <= N
               PROVE  \E g \in [0..(n + 1) -> V] : Upto(n + 1, g)
    OBVIOUS
  <2> USE DEF Upto
  <2>1. PICK f \in [0..n -> V] : Upto(n, f)
    BY <1>2
  <2>2. step[n + 1] \in [V -> V] /\ f[n] \in V
    BY DEF Steps
  <2> DEFINE g == [k \in 0..(n + 1) |-> IF k <= n THEN f[k] ELSE step[n + 1][f[n]]]
  <2>3. g \in [0..(n + 1) -> V] /\ g[0] = base
    BY <2>1, <2>2
  <2>4. ASSUME NEW k \in 1..(n + 1)
        PROVE  g[k] = step[k][g[k - 1]]
    <3>1. CASE k <= n
      BY <2>1, <3>1
    <3>2. CASE k = n + 1
      BY <3>2
    <3> QED BY <3>1, <3>2
  <2> QED BY <2>3, <2>4
<1> HIDE DEF S
<1>3. Nat \subseteq S
  BY <1>1, <1>2, NatSetInduction
<1> QED BY <1>3 DEF S, Follows

-----------------------------------------------------------------------------
(* Sums from 1 to n.                                                       *)

Summand(N) == [1 .. N -> Int]
Recursive(u, f, n) == u = [i \in 0 .. n |-> IF i = 0 THEN 0 ELSE u[i - 1] + f[i]]

(* One function holds the sums of f up to each bound. *)
LEMMA SumTable ==
  ASSUME NEW N \in Nat, NEW f \in Summand(N)
  PROVE  \E s \in [0 .. N -> Int] :
           /\ s[0] = 0
           /\ \A n \in 1 .. N : s[n] = s[n - 1] + f[n]
           /\ \A n \in 0 .. N : sumTo(f, n) = s[n]
<1> DEFINE step == [k \in 1 .. N |-> [v \in Int |-> v + f[k]]]
<1>1. \A k \in 1 .. N : f[k] \in Int
  BY DEF Summand
<1>2. step \in Steps(N, Int)
  BY <1>1 DEF Steps
<1> HIDE DEF step
<1>3. PICK s : Follows(s, N, Int, 0, step)
  <2>1. 0 \in Int
    OBVIOUS
  <2> QED BY <1>2, <2>1, BoundedRecursion
<1>4. s \in [0 .. N -> Int] /\ s[0] = 0 /\ \A k \in 1 .. N : s[k] = step[k][s[k - 1]]
  BY <1>3 DEF Follows
<1>5. ASSUME NEW k \in 1 .. N
      PROVE  s[k] = s[k - 1] + f[k]
  <2>1. k - 1 \in 0 .. N
    OBVIOUS
  <2>2. s[k - 1] \in Int
    BY <1>4, <2>1
  <2>3. step[k][s[k - 1]] = s[k - 1] + f[k]
    BY <2>2 DEF step
  <2> QED BY <1>4, <2>3
<1>6. ASSUME NEW n \in 0 .. N
      PROVE  sumTo(f, n) = s[n]
  <2> DEFINE g == CHOOSE u : Recursive(u, f, n)
  <2>1. Recursive([i \in 0 .. n |-> s[i]], f, n)
    <3>1. ASSUME NEW i \in 0 .. n
          PROVE  s[i] = IF i = 0 THEN 0 ELSE [j \in 0 .. n |-> s[j]][i - 1] + f[i]
      <4>1. CASE i = 0
        BY <1>4, <4>1
      <4>2. CASE i # 0
        <5>1. i \in 1 .. N /\ i - 1 \in 0 .. n
          BY <4>2
        <5> QED BY <1>5, <4>2, <5>1
      <4> QED BY <4>1, <4>2
    <3> QED BY <3>1 DEF Recursive
  <2>2. Recursive(g, f, n)
    BY <2>1
  <2>3. sumTo(f, n) = g[n]
    BY DEF sumTo, Recursive
  <2> HIDE DEF g
  <2> DEFINE S == {i \in Nat : i <= n => g[i] = s[i]}
  <2>4. 0 \in S
    BY <1>4, <2>2 DEF Recursive
  <2>5. ASSUME NEW i \in Nat, i \in S
        PROVE  i + 1 \in S
    <3> SUFFICES ASSUME i + 1 <= n
                 PROVE  g[i + 1] = s[i + 1]
      OBVIOUS
    <3>1. i + 1 \in 1 .. N /\ i + 1 \in 0 .. n /\ i + 1 # 0 /\ (i + 1) - 1 = i /\ i <= n
      OBVIOUS
    <3>2. g[i + 1] = g[i] + f[i + 1]
      BY <2>2, <3>1 DEF Recursive
    <3>3. s[i + 1] = s[i] + f[i + 1]
      BY <1>5, <3>1
    <3> QED BY <2>5, <3>1, <3>2, <3>3
  <2> HIDE DEF S
  <2>6. Nat \subseteq S
    BY <2>4, <2>5, NatSetInduction
  <2> QED BY <2>3, <2>6 DEF S
<1> QED BY <1>4, <1>5, <1>6

(* What the sum is, step by step. *)
LEMMA SumSteps ==
  ASSUME NEW N \in Nat, NEW f \in Summand(N)
  PROVE  /\ sumTo(f, 0) = 0
         /\ \A n \in 0 .. N : sumTo(f, n) \in Int
         /\ \A n \in Nat : n + 1 <= N => sumTo(f, n + 1) = sumTo(f, n) + f[n + 1]
<1>1. PICK s \in [0 .. N -> Int] :
        /\ s[0] = 0
        /\ \A n \in 1 .. N : s[n] = s[n - 1] + f[n]
        /\ \A n \in 0 .. N : sumTo(f, n) = s[n]
  BY SumTable
<1>2. ASSUME NEW n \in Nat, n + 1 <= N
      PROVE  sumTo(f, n + 1) = sumTo(f, n) + f[n + 1]
  <2>1. n + 1 \in 1 .. N /\ n + 1 \in 0 .. N /\ n \in 0 .. N /\ (n + 1) - 1 = n
    BY <1>2
  <2> QED BY <1>1, <2>1
<1>3. 0 \in 0 .. N
  OBVIOUS
<1> QED BY <1>1, <1>2, <1>3

(* The sum of a sum. *)
LEMMA SumAdds ==
  ASSUME NEW N \in Nat, NEW f \in Summand(N), NEW g \in Summand(N), NEW h \in Summand(N),
         \A n \in 1 .. N : h[n] = f[n] + g[n]
  PROVE  sumTo(h, N) = sumTo(f, N) + sumTo(g, N)
<1> DEFINE S == {n \in Nat : n <= N => sumTo(h, n) = sumTo(f, n) + sumTo(g, n)}
<1>1. 0 \in S
  BY SumSteps
<1>2. ASSUME NEW n \in Nat, n \in S
      PROVE  n + 1 \in S
  <2> SUFFICES ASSUME n + 1 <= N
               PROVE  sumTo(h, n + 1) = sumTo(f, n + 1) + sumTo(g, n + 1)
    OBVIOUS
  <2>1. n + 1 \in 1 .. N /\ n \in 0 .. N /\ n <= N
    OBVIOUS
  <2>2. /\ sumTo(h, n + 1) = sumTo(h, n) + h[n + 1]
        /\ sumTo(f, n + 1) = sumTo(f, n) + f[n + 1]
        /\ sumTo(g, n + 1) = sumTo(g, n) + g[n + 1]
    BY SumSteps
  <2>3. sumTo(h, n) = sumTo(f, n) + sumTo(g, n) /\ sumTo(f, n) \in Int /\ sumTo(g, n) \in Int
    BY <1>2, <2>1, SumSteps
  <2>4. f[n + 1] \in Int /\ g[n + 1] \in Int /\ h[n + 1] = f[n + 1] + g[n + 1]
    BY <2>1 DEF Summand
  <2> QED BY <2>2, <2>3, <2>4
<1> HIDE DEF S
<1>3. Nat \subseteq S
  BY <1>1, <1>2, NatSetInduction
<1> QED BY <1>3 DEF S

(* One term changes. *)
LEMMA SumChange ==
  ASSUME NEW N \in Nat, NEW f \in Summand(N), NEW g \in Summand(N), NEW c \in 1 .. N,
         \A n \in 1 .. N : n # c => g[n] = f[n]
  PROVE  sumTo(g, N) = sumTo(f, N) - f[c] + g[c]
<1> DEFINE S == {n \in Nat : n <= N =>
                   sumTo(g, n) = IF n < c THEN sumTo(f, n) ELSE sumTo(f, n) - f[c] + g[c]}
<1>1. 0 \in S
  BY SumSteps
<1>2. ASSUME NEW n \in Nat, n \in S
      PROVE  n + 1 \in S
  <2> SUFFICES ASSUME n + 1 <= N
               PROVE  sumTo(g, n + 1) = IF n + 1 < c THEN sumTo(f, n + 1)
                                        ELSE sumTo(f, n + 1) - f[c] + g[c]
    OBVIOUS
  <2>1. /\ sumTo(f, n + 1) = sumTo(f, n) + f[n + 1]
        /\ sumTo(g, n + 1) = sumTo(g, n) + g[n + 1]
    BY SumSteps
  <2>2. n \in 0 .. N /\ n <= N /\ n + 1 \in 1 .. N
    OBVIOUS
  <2>3. sumTo(f, n) \in Int /\ sumTo(g, n) \in Int
    BY <2>2, SumSteps
  <2>4. f[n + 1] \in Int /\ g[n + 1] \in Int /\ f[c] \in Int /\ g[c] \in Int
    BY <2>2 DEF Summand
  <2>5. sumTo(g, n) = IF n < c THEN sumTo(f, n) ELSE sumTo(f, n) - f[c] + g[c]
    BY <1>2, <2>2
  <2>6. CASE n + 1 = c
    BY <2>1, <2>3, <2>4, <2>5, <2>6
  <2>7. CASE n + 1 # c
    <3>1. g[n + 1] = f[n + 1]
      BY <2>2, <2>7
    <3>2. n < c <=> n + 1 < c
      BY <2>7
    <3> QED BY <2>1, <2>3, <2>4, <2>5, <3>1, <3>2
  <2> QED BY <2>6, <2>7
<1> HIDE DEF S
<1>3. Nat \subseteq S
  BY <1>1, <1>2, NatSetInduction
<1> QED BY <1>3 DEF S

(* A term v at each of the places in S, and nothing elsewhere. *)
LEMMA SumCount ==
  ASSUME NEW N \in Nat, NEW S \in SUBSET (1 .. N), NEW v \in Int,
         NEW f \in Summand(N), \A n \in 1 .. N : f[n] = IF n \in S THEN v ELSE 0
  PROVE  sumTo(f, N) = v * Cardinality(S)
<1> DEFINE Q == {n \in Nat : n <= N => sumTo(f, n) = v * Cardinality(S \cap (1 .. n))}
<1>1. 0 \in Q
  <2>1. S \cap (1 .. 0) = {}
    OBVIOUS
  <2>2. Cardinality(S \cap (1 .. 0)) = 0
    BY <2>1, FS_EmptySet
  <2> QED BY <2>2, SumSteps
<1>2. ASSUME NEW n \in Nat, n \in Q
      PROVE  n + 1 \in Q
  <2> SUFFICES ASSUME n + 1 <= N
               PROVE  sumTo(f, n + 1) = v * Cardinality(S \cap (1 .. (n + 1)))
    OBVIOUS
  <2> DEFINE T == S \cap (1 .. n)
  <2>1. sumTo(f, n + 1) = sumTo(f, n) + f[n + 1] /\ n + 1 \in 1 .. N
    BY SumSteps
  <2>2. sumTo(f, n) = v * Cardinality(T)
    BY <1>2
  <2>3. IsFiniteSet(T) /\ Cardinality(T) \in Nat
    <3>1. IsFiniteSet(1 .. n) /\ T \in SUBSET (1 .. n)
      BY FS_Interval
    <3>2. IsFiniteSet(T)
      BY <3>1, FS_Subset
    <3> QED BY <3>2, FS_CardinalityType
  <2>4. CASE n + 1 \in S
    <3>1. S \cap (1 .. (n + 1)) = T \cup {n + 1} /\ n + 1 \notin T
      BY <2>4
    <3>2. Cardinality(S \cap (1 .. (n + 1))) = Cardinality(T) + 1
      BY <2>3, <3>1, FS_AddElement
    <3>3. f[n + 1] = v
      BY <2>1, <2>4
    <3> HIDE DEF T
    <3>4. v * (Cardinality(T) + 1) = v * Cardinality(T) + v
      BY <2>3
    <3>5. sumTo(f, n + 1) = v * Cardinality(T) + v
      BY <2>1, <2>2, <3>3
    <3> QED BY <3>2, <3>4, <3>5
  <2>5. CASE n + 1 \notin S
    <3>1. S \cap (1 .. (n + 1)) = T
      BY <2>5
    <3>2. f[n + 1] = 0
      BY <2>1, <2>5
    <3>3. v * Cardinality(T) \in Int
      BY <2>3
    <3> HIDE DEF T
    <3>4. sumTo(f, n + 1) = v * Cardinality(T)
      BY <2>1, <2>2, <3>2, <3>3
    <3> QED BY <3>1, <3>4
  <2> QED BY <2>4, <2>5
<1> HIDE DEF Q
<1>3. Nat \subseteq Q
  BY <1>1, <1>2, NatSetInduction
<1>4. S \cap (1 .. N) = S
  OBVIOUS
<1> QED BY <1>3, <1>4 DEF Q

-----------------------------------------------------------------------------
(* Sums over agents, and over those of them who have a company.            *)

LEMMA TownFacts ==
  /\ Population \in Nat /\ Agents = 1 .. Population
  /\ Companies \subseteq Agents /\ Companies # {} /\ Agents \subseteq Nat /\ 0 \notin Agents
  /\ {Fee, Capital, Wage, Bill, RowPrice, ShortfallDays, MaxAge} \subseteq Nat \ {0}
  /\ WalletLevels \subseteq Nat /\ CashLevels \subseteq Nat /\ FundCash \in Nat
  /\ {PitchDelay, Lifetime, FundSize, FoundingShares, Dividend} \subseteq Nat \ {0}
BY TownAssumption, RoundAssumption DEF Agents, Companies

LEMMA TownNumbers ==
  /\ Fee \in Nat \ {0} /\ Capital \in Nat \ {0} /\ Wage \in Nat \ {0} /\ Bill \in Nat \ {0}
  /\ RowPrice \in Nat \ {0} /\ ShortfallDays \in Nat \ {0} /\ MaxAge \in Nat \ {0}
  /\ PitchDelay \in Nat \ {0} /\ Lifetime \in Nat \ {0} /\ FundSize \in Nat \ {0}
  /\ FoundingShares \in Nat \ {0} /\ Dividend \in Nat \ {0}
BY TownFacts

Spread(f) == [a \in Agents |-> IF a \in DOMAIN f THEN f[a] ELSE 0]

LEMMA SpreadType ==
  ASSUME NEW D \in SUBSET Agents, NEW f \in [D -> Int]
  PROVE  /\ Spread(f) \in Summand(Population) /\ sumOver(f) = sumTo(Spread(f), Population)
         /\ \A n \in 1 .. Population : Spread(f)[n] = IF n \in D THEN f[n] ELSE 0
<1>1. DOMAIN f = D /\ \A a \in D : f[a] \in Int
  OBVIOUS
<1>2. Agents = 1 .. Population
  BY TownFacts
<1> QED BY <1>1, <1>2 DEF Spread, Summand, sumOver

LEMMA OverInt ==
  ASSUME NEW D \in SUBSET Agents, NEW f \in [D -> Int]
  PROVE  sumOver(f) \in Int
<1>1. Population \in Nat /\ Population \in 0 .. Population
  BY TownFacts
<1> QED BY <1>1, SpreadType, SumSteps

LEMMA OverOne ==
  ASSUME NEW D \in SUBSET Agents, NEW f \in [D -> Int], NEW g \in [D -> Int], NEW c \in D,
         \A x \in D : x # c => g[x] = f[x]
  PROVE  sumOver(g) = sumOver(f) - f[c] + g[c]
<1>1. Population \in Nat /\ c \in 1 .. Population
  BY TownFacts
<1>2. /\ Spread(f) \in Summand(Population) /\ sumOver(f) = sumTo(Spread(f), Population)
      /\ \A n \in 1 .. Population : Spread(f)[n] = IF n \in D THEN f[n] ELSE 0
  BY SpreadType
<1>3. /\ Spread(g) \in Summand(Population) /\ sumOver(g) = sumTo(Spread(g), Population)
      /\ \A n \in 1 .. Population : Spread(g)[n] = IF n \in D THEN g[n] ELSE 0
  BY SpreadType
<1>4. \A n \in 1 .. Population : n # c => Spread(g)[n] = Spread(f)[n]
  BY <1>2, <1>3
<1>5. sumTo(Spread(g), Population)
        = sumTo(Spread(f), Population) - Spread(f)[c] + Spread(g)[c]
  BY <1>1, <1>2, <1>3, <1>4, SumChange
<1> QED BY <1>1, <1>2, <1>3, <1>5

LEMMA OverAdds ==
  ASSUME NEW D \in SUBSET Agents, NEW f \in [D -> Int], NEW g \in [D -> Int], NEW h \in [D -> Int],
         \A x \in D : h[x] = f[x] + g[x]
  PROVE  sumOver(h) = sumOver(f) + sumOver(g)
<1>1. Population \in Nat
  BY TownFacts
<1>2. /\ Spread(f) \in Summand(Population) /\ sumOver(f) = sumTo(Spread(f), Population)
      /\ \A n \in 1 .. Population : Spread(f)[n] = IF n \in D THEN f[n] ELSE 0
  BY SpreadType
<1>3. /\ Spread(g) \in Summand(Population) /\ sumOver(g) = sumTo(Spread(g), Population)
      /\ \A n \in 1 .. Population : Spread(g)[n] = IF n \in D THEN g[n] ELSE 0
  BY SpreadType
<1>4. /\ Spread(h) \in Summand(Population) /\ sumOver(h) = sumTo(Spread(h), Population)
      /\ \A n \in 1 .. Population : Spread(h)[n] = IF n \in D THEN h[n] ELSE 0
  BY SpreadType
<1>5. \A n \in 1 .. Population : Spread(h)[n] = Spread(f)[n] + Spread(g)[n]
  BY <1>2, <1>3, <1>4
<1> QED BY <1>1, <1>2, <1>3, <1>4, <1>5, SumAdds

Marks(f, D, S, v) == \A x \in D : f[x] = IF x \in S THEN v ELSE 0

LEMMA OverCount ==
  ASSUME NEW D \in SUBSET Agents, NEW S \in SUBSET D, NEW v \in Int, NEW f \in [D -> Int],
         Marks(f, D, S, v)
  PROVE  sumOver(f) = v * Cardinality(S)
<1>1. Population \in Nat /\ S \in SUBSET (1 .. Population)
  BY TownFacts
<1>2. /\ Spread(f) \in Summand(Population) /\ sumOver(f) = sumTo(Spread(f), Population)
      /\ \A n \in 1 .. Population : Spread(f)[n] = IF n \in D THEN f[n] ELSE 0
  BY SpreadType
<1>3. \A n \in 1 .. Population : Spread(f)[n] = IF n \in S THEN v ELSE 0
  BY <1>2 DEF Marks
<1> QED BY <1>1, <1>2, <1>3, SumCount

LEMMA OverNothing ==
  ASSUME NEW D \in SUBSET Agents, NEW f \in [D -> Int], \A x \in D : f[x] = 0
  PROVE  sumOver(f) = 0
<1>1. {} \in SUBSET D /\ Marks(f, D, {}, 0)
  BY DEF Marks
<1>2. sumOver(f) = 0 * Cardinality({}) /\ Cardinality({}) = 0
  BY <1>1, OverCount, FS_EmptySet
<1> QED BY <1>2

(* A function that is nothing but for one agent adds up to that value. *)
LEMMA OverSingle ==
  ASSUME NEW x0, NEW v \in Int, NEW q \in [Agents -> Int],
         \A x \in Agents : q[x] = IF x0 = x THEN v ELSE 0
  PROVE  sumOver(q) = IF x0 \in Agents THEN v ELSE 0
<1>1. Agents \in SUBSET Agents
  OBVIOUS
<1>2. CASE x0 \in Agents
  <2> DEFINE z == [x \in Agents |-> 0]
  <2>1. z \in [Agents -> Int] /\ (\A x \in Agents : z[x] = 0) /\ z[x0] = 0
    BY <1>2
  <2>2. \A x \in Agents : x # x0 => q[x] = z[x]
    BY <2>1
  <2> HIDE DEF z
  <2>3. sumOver(z) = 0
    BY <1>1, <2>1, OverNothing
  <2>4. sumOver(q) = sumOver(z) - z[x0] + q[x0]
    BY <1>1, <1>2, <2>1, <2>2, OverOne
  <2>5. q[x0] = v
    BY <1>2
  <2> QED BY <1>2, <2>1, <2>3, <2>4, <2>5
<1>3. CASE x0 \notin Agents
  <2>1. \A x \in Agents : q[x] = 0
    BY <1>3
  <2>2. sumOver(q) = 0
    BY <1>1, <2>1, OverNothing
  <2> QED BY <1>3, <2>2
<1> QED BY <1>2, <1>3

LEMMA OverSame ==
  ASSUME NEW D \in SUBSET Agents, NEW f \in [D -> Int], NEW g \in [D -> Int],
         \A x \in D : f[x] = g[x]
  PROVE  sumOver(f) = sumOver(g)
<1>1. f = g
  OBVIOUS
<1> QED BY <1>1

-----------------------------------------------------------------------------
(* Least, greatest and first elements                                      *)

LEMMA Least ==
  ASSUME NEW S \in SUBSET Nat, S # {}
  PROVE  \E x \in S : \A y \in S : x <= y
<1> DEFINE R == OpToRel(<, Nat)
<1>1. IsWellFoundedOn(R, Nat)
  BY Zenon, NatLessThanWellFounded
<1>2. PICK x \in S : \A y \in S : ~(<<y, x>> \in R)
  <2> HIDE DEF R
  <2> QED BY <1>1, WFMin
<1>3. ASSUME NEW y \in S
      PROVE  x <= y
  <2> SUFFICES ASSUME y < x
               PROVE  FALSE
    OBVIOUS
  <2>1. <<y, x>> \in R
    BY DEF OpToRel
  <2> HIDE DEF R
  <2> QED BY <1>2, <2>1
<1> QED BY <1>3

LEMMA Smallest ==
  ASSUME NEW S \in SUBSET Nat, S # {}
  PROVE  Min(S) \in S /\ \A y \in S : Min(S) <= y
<1>1. \E x \in S : \A y \in S : x <= y
  BY Least
<1> QED BY <1>1 DEF Min

(* The number that is left to the top is least for the greatest. *)
LEMMA Greatest ==
  ASSUME NEW n \in Nat, NEW S \in SUBSET (0 .. n), S # {}
  PROVE  Max(S) \in S /\ \A y \in S : Max(S) >= y
<1> DEFINE T == {n - x : x \in S}
<1>1. T \in SUBSET Nat /\ T # {}
  <2>1. \A x \in S : n - x \in Nat
    OBVIOUS
  <2>2. T \in SUBSET Nat
    BY <2>1
  <2>3. PICK x \in S : TRUE
    OBVIOUS
  <2>4. n - x \in T
    OBVIOUS
  <2> QED BY <2>2, <2>4
<1> HIDE DEF T
<1>2. PICK t \in T : \A u \in T : t <= u
  BY <1>1, Least
<1> USE DEF T
<1>3. n - t \in S /\ \A y \in S : n - t >= y
  <2>1. PICK x \in S : t = n - x
    OBVIOUS
  <2>2. ASSUME NEW y \in S
        PROVE  x >= y
    <3>1. n - y \in T
      OBVIOUS
    <3>2. n - x <= n - y
      BY <1>2, <2>1, <3>1
    <3> QED BY <3>2
  <2>3. n - t = x
    BY <2>1
  <2> QED BY <2>2, <2>3
<1>4. \E x \in S : \A y \in S : x >= y
  BY <1>3
<1> QED BY <1>4 DEF Max

LEMMA MaxOfTwo ==
  ASSUME NEW x \in Int, NEW y \in Int
  PROVE  Max({x, y}) = IF x >= y THEN x ELSE y
<1> DEFINE m == IF x >= y THEN x ELSE y
<1>1. m \in {x, y} /\ \A z \in {x, y} : m >= z
  OBVIOUS
<1>2. \A z \in {x, y} : (\A w \in {x, y} : z >= w) => z = m
  OBVIOUS
<1> HIDE DEF m
<1>3. Max({x, y}) \in {x, y} /\ \A z \in {x, y} : Max({x, y}) >= z
  BY <1>1 DEF Max
<1>4. Max({x, y}) = m
  BY <1>2, <1>3
<1> QED BY <1>4 DEF m

LEMMA MinOfTwo ==
  ASSUME NEW x \in Int, NEW y \in Int
  PROVE  Min({x, y}) = IF x <= y THEN x ELSE y
<1> DEFINE m == IF x <= y THEN x ELSE y
<1>1. m \in {x, y} /\ \A z \in {x, y} : m <= z
  OBVIOUS
<1>2. \A z \in {x, y} : (\A w \in {x, y} : z <= w) => z = m
  OBVIOUS
<1> HIDE DEF m
<1>3. Min({x, y}) \in {x, y} /\ \A z \in {x, y} : Min({x, y}) <= z
  BY <1>1 DEF Min
<1>4. Min({x, y}) = m
  BY <1>2, <1>3
<1> QED BY <1>4 DEF m

(* The first of some companies is one of them. *)
LEMMA FirstOne ==
  ASSUME company \in [Companies -> CompanyRows], NEW S \in SUBSET Companies, S # {}
  PROVE  first(S) \in S
<1>1. \A c \in S : company[c].age \in 0 .. MaxAge /\ c \in Nat
  BY TownFacts DEF CompanyRows
<1> DEFINE Ages == {company[c].age : c \in S}
<1>2. MaxAge \in Nat /\ Ages \in SUBSET (0 .. MaxAge) /\ Ages # {}
  <2>1. MaxAge \in Nat
    BY TownFacts
  <2>2. Ages \in SUBSET (0 .. MaxAge)
    BY <1>1
  <2>3. PICK c \in S : TRUE
    OBVIOUS
  <2>4. company[c].age \in Ages
    OBVIOUS
  <2> QED BY <2>1, <2>2, <2>4
<1> DEFINE top == Max(Ages)
           Oldest == {c \in S : company[c].age = top}
<1>3. top \in Ages /\ \A y \in Ages : top >= y
  <2> HIDE DEF Ages
  <2> QED BY <1>2, Greatest
<1>4. Oldest \in SUBSET Nat /\ Oldest # {}
  BY <1>1, <1>3
<1>5. PICK x \in Oldest : \A y \in Oldest : x <= y
  <2> HIDE DEF Oldest
  <2> QED BY <1>4, Least
<1>6. ASSUME NEW d \in S \ {x}
      PROVE  before(x, d)
  <2>1. company[d].age <= top /\ company[x].age = top
    BY <1>1, <1>2, <1>3
  <2>2. CASE company[d].age = top
    BY <1>1, <1>5, <2>1, <2>2 DEF before
  <2>3. CASE company[d].age # top
    BY <1>1, <1>2, <1>3, <2>1, <2>3 DEF before
  <2> QED BY <2>2, <2>3
<1>7. \E c \in S : \A d \in S \ {c} : before(c, d)
  BY <1>6
<1> QED BY <1>7 DEF first

-----------------------------------------------------------------------------
(* Sums of natural numbers                                                 *)

LEMMA SumAgree ==
  ASSUME NEW N \in Nat, NEW M \in Nat, NEW f \in Summand(N), NEW g \in Summand(M),
         NEW p \in Nat, p <= N, p <= M, \A n \in 1 .. p : f[n] = g[n]
  PROVE  sumTo(f, p) = sumTo(g, p)
<1> DEFINE Q == {n \in Nat : n <= p => sumTo(f, n) = sumTo(g, n)}
<1>1. 0 \in Q
  BY SumSteps
<1>2. ASSUME NEW n \in Nat, n \in Q
      PROVE  n + 1 \in Q
  <2> SUFFICES ASSUME n + 1 <= p
               PROVE  sumTo(f, n + 1) = sumTo(g, n + 1)
    OBVIOUS
  <2>1. n + 1 <= N /\ n + 1 <= M /\ n + 1 \in 1 .. p /\ n <= p
    OBVIOUS
  <2>2. /\ sumTo(f, n + 1) = sumTo(f, n) + f[n + 1]
        /\ sumTo(g, n + 1) = sumTo(g, n) + g[n + 1]
    BY <2>1, SumSteps
  <2> QED BY <1>2, <2>1, <2>2
<1> HIDE DEF Q
<1>3. Nat \subseteq Q
  BY <1>1, <1>2, NatSetInduction
<1> QED BY <1>3 DEF Q

LEMMA SumNatural ==
  ASSUME NEW N \in Nat, NEW f \in [1 .. N -> Nat]
  PROVE  /\ f \in Summand(N)
         /\ \A n \in 0 .. N : sumTo(f, n) \in Nat
         /\ \A m, n \in 0 .. N : m <= n => sumTo(f, m) <= sumTo(f, n)
<1>0. f \in Summand(N)
  BY DEF Summand
<1> DEFINE Q == {n \in Nat : n <= N =>
                   sumTo(f, n) \in Nat /\ \A m \in 0 .. n : sumTo(f, m) <= sumTo(f, n)}
<1>1. 0 \in Q
  <2>1. sumTo(f, 0) = 0
    BY <1>0, SumSteps
  <2>2. \A m \in 0 .. 0 : m = 0
    OBVIOUS
  <2> QED BY <2>1, <2>2
<1>2. ASSUME NEW n \in Nat, n \in Q
      PROVE  n + 1 \in Q
  <2> SUFFICES ASSUME n + 1 <= N
               PROVE  /\ sumTo(f, n + 1) \in Nat
                      /\ \A m \in 0 .. n + 1 : sumTo(f, m) <= sumTo(f, n + 1)
    OBVIOUS
  <2>1. sumTo(f, n + 1) = sumTo(f, n) + f[n + 1] /\ f[n + 1] \in Nat
    BY <1>0, SumSteps
  <2>2. sumTo(f, n) \in Nat /\ \A m \in 0 .. n : sumTo(f, m) <= sumTo(f, n)
    BY <1>2
  <2>3. ASSUME NEW m \in 0 .. n + 1
        PROVE  sumTo(f, m) <= sumTo(f, n + 1)
    <3>1. CASE m = n + 1
      BY <2>1, <2>2, <3>1
    <3>2. CASE m # n + 1
      <4>1. m \in 0 .. n /\ m \in 0 .. N
        BY <3>2
      <4>2. sumTo(f, m) \in Int
        BY <1>0, <4>1, SumSteps
      <4> QED BY <2>1, <2>2, <4>1, <4>2
    <3> QED BY <3>1, <3>2
  <2> QED BY <2>1, <2>2, <2>3
<1> HIDE DEF Q
<1>3. Nat \subseteq Q
  BY <1>1, <1>2, NatSetInduction
<1>4. ASSUME NEW n \in 0 .. N
      PROVE  sumTo(f, n) \in Nat /\ \A m \in 0 .. n : sumTo(f, m) <= sumTo(f, n)
  BY <1>3 DEF Q
<1>5. ASSUME NEW m \in 0 .. N, NEW n \in 0 .. N, m <= n
      PROVE  sumTo(f, m) <= sumTo(f, n)
  <2>1. m \in 0 .. n
    BY <1>5
  <2> QED BY <1>4, <2>1
<1> QED BY <1>0, <1>4, <1>5

-----------------------------------------------------------------------------
(* The waterfall                                                           *)

Recovered(paid) == [i \in DOMAIN paid |-> paid[i].recovered]
Share(paid, creditor) ==
  [i \in DOMAIN paid |-> IF paid[i].claim.creditor = creditor THEN paid[i].recovered ELSE 0]

(* Each claim is paid in full or takes what the claims before it leave. *)
LEMMA Waterfall ==
  ASSUME NEW pool \in Nat, NEW claims \in Seq(ClaimRows)
  PROVE  LET paid == allocateCreditorWaterfall(pool, claims)
             r == Recovered(paid)
             total == claimTotal(claims)
         IN  /\ paid \in Seq(RecoveryRows) /\ Len(paid) = Len(claims)
             /\ \A i \in 1 .. Len(claims) : paid[i].claim = claims[i]
             /\ sumTo(r, Len(claims)) = IF total <= pool THEN total ELSE pool
             /\ \A i, j \in 1 .. Len(claims) :
                  i < j /\ r[i] < claims[i].amount => r[j] = 0
<1> DEFINE N == Len(claims)
           a == amounts(claims)
           paid == allocateCreditorWaterfall(pool, claims)
           r == Recovered(paid)
<1>1. N \in Nat /\ DOMAIN claims = 1 .. N /\ \A i \in 1 .. N : claims[i] \in ClaimRows
  OBVIOUS
<1>2. a \in [1 .. N -> Nat]
  BY <1>1 DEF amounts, ClaimRows
<1>3. /\ a \in Summand(N)
      /\ \A n \in 0 .. N : sumTo(a, n) \in Nat
      /\ \A m, n \in 0 .. N : m <= n => sumTo(a, m) <= sumTo(a, n)
  BY <1>1, <1>2, SumNatural
<1>4. ASSUME NEW i \in 1 .. N
      PROVE  /\ i - 1 \in 0 .. N /\ i \in 0 .. N
             /\ sumTo(a, i) = sumTo(a, i - 1) + a[i]
             /\ a[i] \in Nat /\ sumTo(a, i - 1) \in Nat
  <2>1. i - 1 \in Nat /\ (i - 1) + 1 = i /\ i - 1 \in 0 .. N /\ i <= N
    BY <1>1
  <2>2. sumTo(a, (i - 1) + 1) = sumTo(a, i - 1) + a[(i - 1) + 1]
    BY <1>1, <1>3, <2>1, SumSteps
  <2> QED BY <1>2, <1>3, <2>1, <2>2
<1> DEFINE left(i) == pool - sumTo(a, i - 1)
           takes(i) == IF left(i) <= 0 THEN 0 ELSE IF a[i] <= left(i) THEN a[i] ELSE left(i)
<1>5. ASSUME NEW i \in 1 .. N
      PROVE  Max({0, Min({a[i], left(i)})}) = takes(i) /\ takes(i) \in Nat
  <2>1. a[i] \in Int /\ left(i) \in Int /\ a[i] >= 0
    BY <1>4
  <2>2. Min({a[i], left(i)}) = IF a[i] <= left(i) THEN a[i] ELSE left(i)
    BY <2>1, MinOfTwo
  <2> DEFINE m == Min({a[i], left(i)})
  <2>3. m = (IF a[i] <= left(i) THEN a[i] ELSE left(i)) /\ m \in Int /\ 0 \in Int
    BY <2>1, <2>2
  <2> HIDE DEF m
  <2>4. Max({0, m}) = IF 0 >= m THEN 0 ELSE m
    BY <2>3, MaxOfTwo
  <2>5. Max({0, m}) = takes(i) /\ takes(i) \in Nat
    <3> HIDE DEF left
    <3> QED BY <2>1, <2>3, <2>4
  <2> QED BY <2>5 DEF m
<1>6. paid = [i \in 1 .. N |-> [claim |-> claims[i], recovered |-> takes(i)]]
  <2>1. paid = [i \in 1 .. N |->
                  [claim |-> claims[i], recovered |-> Max({0, Min({claims[i].amount, left(i)})})]]
    BY <1>1 DEF allocateCreditorWaterfall
  <2>2. \A i \in 1 .. N : a[i] = claims[i].amount
    BY <1>1 DEF amounts
  <2> HIDE DEF takes, left
  <2> QED BY <1>5, <2>1, <2>2
<1>7. ASSUME NEW i \in 1 .. N
      PROVE  /\ paid[i].claim = claims[i] /\ paid[i].recovered = takes(i)
             /\ paid[i] \in RecoveryRows
  <2> HIDE DEF takes, paid
  <2>1. paid[i] = [claim |-> claims[i], recovered |-> takes(i)]
    BY <1>6
  <2>2. claims[i] \in ClaimRows /\ takes(i) \in Nat
    BY <1>1, <1>5
  <2> QED BY <2>1, <2>2 DEF RecoveryRows
<1>8. paid \in Seq(RecoveryRows) /\ Len(paid) = N
  <2> HIDE DEF takes, paid
  <2>1. paid \in [1 .. N -> RecoveryRows]
    BY <1>6, <1>7
  <2> QED BY <1>1, <2>1
<1>9. r = [i \in 1 .. N |-> takes(i)] /\ r \in [1 .. N -> Nat]
  <2> HIDE DEF takes, paid
  <2>1. DOMAIN paid = 1 .. N
    BY <1>6
  <2>2. r = [i \in 1 .. N |-> paid[i].recovered]
    BY <2>1 DEF Recovered
  <2>3. \A i \in 1 .. N : paid[i].recovered = takes(i) /\ takes(i) \in Nat
    <3> HIDE DEF takes, paid
    <3> QED BY <1>5, <1>7
  <2> HIDE DEF r
  <2> QED BY <2>2, <2>3
<1>10. /\ r \in Summand(N) /\ \A n \in 0 .. N : sumTo(r, n) \in Nat
  BY <1>1, <1>9, SumNatural
<1>11. \A i \in 1 .. N : r[i] = takes(i)
  BY <1>9
<1> HIDE DEF r, paid, a, N
<1> DEFINE Q == {n \in Nat : n <= N =>
                   sumTo(r, n) = IF sumTo(a, n) <= pool THEN sumTo(a, n) ELSE pool}
<1>12. 0 \in Q
  <2>1. sumTo(r, 0) = 0 /\ sumTo(a, 0) = 0
    BY <1>1, <1>3, <1>10, SumSteps
  <2> QED BY <2>1
<1>13. ASSUME NEW n \in Nat, n \in Q
       PROVE  n + 1 \in Q
  <2> SUFFICES ASSUME n + 1 <= N
               PROVE  sumTo(r, n + 1) = IF sumTo(a, n + 1) <= pool THEN sumTo(a, n + 1) ELSE pool
    OBVIOUS
  <2>1. n + 1 \in 1 .. N /\ (n + 1) - 1 = n
    BY <1>1
  <2>2. sumTo(r, n + 1) = sumTo(r, n) + r[n + 1]
    BY <1>1, <1>10, SumSteps
  <2>3. /\ sumTo(a, n + 1) = sumTo(a, n) + a[n + 1]
        /\ a[n + 1] \in Nat /\ sumTo(a, n) \in Nat
    BY <1>4, <2>1
  <2>4. sumTo(r, n) = IF sumTo(a, n) <= pool THEN sumTo(a, n) ELSE pool
    BY <1>1, <1>13
  <2>5. r[n + 1] = IF pool - sumTo(a, n) <= 0 THEN 0
                   ELSE IF a[n + 1] <= pool - sumTo(a, n) THEN a[n + 1] ELSE pool - sumTo(a, n)
    BY <1>11, <2>1
  <2> DEFINE u == sumTo(r, n)
             v == sumTo(a, n)
             x == a[n + 1]
             y == r[n + 1]
  <2>6. /\ x \in Nat /\ v \in Nat /\ u = (IF v <= pool THEN v ELSE pool)
        /\ y = IF pool - v <= 0 THEN 0 ELSE IF x <= pool - v THEN x ELSE pool - v
    BY <2>3, <2>4, <2>5
  <2>7. sumTo(r, n + 1) = u + y /\ sumTo(a, n + 1) = v + x
    BY <2>2, <2>3
  <2> HIDE DEF u, v, x, y
  <2>8. u + y = IF v + x <= pool THEN v + x ELSE pool
    BY <2>6
  <2> QED BY <2>7, <2>8
<1> HIDE DEF Q
<1>14. N \in Q
  BY <1>1, <1>12, <1>13, NatSetInduction
<1>15. sumTo(r, N) = IF claimTotal(claims) <= pool THEN claimTotal(claims) ELSE pool
  BY <1>1, <1>14 DEF Q, claimTotal, a, N
<1>16. ASSUME NEW i \in 1 .. N, NEW j \in 1 .. N, i < j, r[i] < claims[i].amount
       PROVE  r[j] = 0
  <2>1. a[i] = claims[i].amount
    BY <1>1 DEF amounts, a
  <2>2. pool < sumTo(a, i)
    <3>1. takes(i) < a[i]
      BY <1>11, <1>16, <2>1
    <3>2. /\ a[i] \in Nat /\ sumTo(a, i - 1) \in Nat
          /\ sumTo(a, i) = sumTo(a, i - 1) + a[i]
      BY <1>4
    <3> QED BY <3>1, <3>2
  <2>3. i <= j - 1 /\ i \in 0 .. N /\ j - 1 \in 0 .. N
    BY <1>1, <1>16
  <2>4. sumTo(a, i) <= sumTo(a, j - 1) /\ sumTo(a, i) \in Nat /\ sumTo(a, j - 1) \in Nat
    BY <1>3, <2>3
  <2>5. takes(j) = 0
    BY <2>2, <2>4
  <2> QED BY <1>11, <2>5
<1>17. \A i \in 1 .. N : paid[i].claim = claims[i]
  <2> HIDE DEF takes
  <2> QED BY <1>7
<1> QED BY <1>8, <1>15, <1>16, <1>17 DEF r, paid, N

(* What the creditors are paid adds up to what the claims recovered. *)
LEMMA EveryShare ==
  ASSUME NEW paid \in Seq(RecoveryRows)
  PROVE  /\ \A x \in Agents \cup {Nobody} : recoveredBy(paid, x) \in Nat
         /\ sumOver([x \in Agents |-> recoveredBy(paid, x)]) + recoveredBy(paid, Nobody)
              = sumTo(Recovered(paid), Len(paid))
<1> DEFINE N == Len(paid)
           r == Recovered(paid)
           part(x) == Share(paid, x)
<1>1. /\ N \in Nat /\ DOMAIN paid = 1 .. N
      /\ \A i \in 1 .. N : paid[i].recovered \in Nat /\ paid[i].claim.creditor \in Agents \cup {Nobody}
  <2>1. N \in Nat /\ DOMAIN paid = 1 .. N /\ \A i \in 1 .. N : paid[i] \in RecoveryRows
    OBVIOUS
  <2> HIDE DEF N
  <2>2. \A p \in RecoveryRows : p.recovered \in Nat /\ p.claim.creditor \in Agents \cup {Nobody}
    BY DEF RecoveryRows, ClaimRows
  <2> QED BY <2>1, <2>2
<1>2. /\ \A i \in 1 .. N : r[i] = paid[i].recovered
      /\ r \in [1 .. N -> Nat]
  BY <1>1 DEF Recovered
<1>3. ASSUME NEW x
      PROVE  /\ part(x) \in [1 .. N -> Nat]
             /\ \A i \in 1 .. N : part(x)[i] = IF paid[i].claim.creditor = x THEN r[i] ELSE 0
             /\ recoveredBy(paid, x) = sumTo(part(x), N)
  BY <1>1, <1>2 DEF Share, recoveredBy
<1> HIDE DEF r, part, N
<1>4. r \in Summand(N) /\ \A x : part(x) \in Summand(N)
  BY <1>1, <1>2, <1>3, SumNatural
<1>5. \A x : \A n \in 0 .. N : sumTo(part(x), n) \in Nat
  BY <1>1, <1>3, SumNatural
<1>6. 0 \in 0 .. N /\ N \in 0 .. N
  BY <1>1
<1> DEFINE P(n) == [x \in Agents |-> sumTo(part(x), n)]
           Q == {n \in Nat : n <= N => sumOver(P(n)) + sumTo(part(Nobody), n) = sumTo(r, n)}
<1>7. ASSUME NEW n \in 0 .. N
      PROVE  P(n) \in [Agents -> Int]
  BY <1>5, <1>7
<1>8. 0 \in Q
  <2>1. sumTo(r, 0) = 0 /\ \A x : sumTo(part(x), 0) = 0
    BY <1>1, <1>4, SumSteps
  <2>2. \A x \in Agents : P(0)[x] = 0
    BY <2>1
  <2>3. sumOver(P(0)) = 0
    <3>1. P(0) \in [Agents -> Int] /\ Agents \in SUBSET Agents
      BY <1>6, <1>7
    <3> HIDE DEF P
    <3> QED BY <2>2, <3>1, OverNothing
  <2> QED BY <2>1, <2>3
<1>9. ASSUME NEW n \in Nat, n \in Q
      PROVE  n + 1 \in Q
  <2> SUFFICES ASSUME n + 1 <= N
               PROVE  sumOver(P(n + 1)) + sumTo(part(Nobody), n + 1) = sumTo(r, n + 1)
    OBVIOUS
  <2> DEFINE x0 == paid[n + 1].claim.creditor
             q == [x \in Agents |-> part(x)[n + 1]]
  <2>1. n + 1 \in 1 .. N /\ n \in 0 .. N /\ n + 1 \in 0 .. N /\ n <= N
    BY <1>1
  <2>2. sumTo(r, n + 1) = sumTo(r, n) + r[n + 1] /\ r[n + 1] \in Nat
    BY <1>1, <1>2, <1>4, <2>1, SumSteps
  <2>3. \A x : sumTo(part(x), n + 1) = sumTo(part(x), n) + part(x)[n + 1]
    BY <1>1, <1>4, SumSteps
  <2>4. \A x : part(x)[n + 1] = IF x0 = x THEN r[n + 1] ELSE 0
    BY <1>3, <2>1
  <2>5. x0 \in Agents \cup {Nobody}
    BY <1>1, <2>1
  <2>6. sumOver(P(n)) + sumTo(part(Nobody), n) = sumTo(r, n)
    BY <1>9, <2>1
  <2>7. /\ P(n) \in [Agents -> Int] /\ P(n + 1) \in [Agents -> Int] /\ q \in [Agents -> Int]
        /\ \A x \in Agents : P(n + 1)[x] = P(n)[x] + q[x]
    <3>1. P(n) \in [Agents -> Int] /\ P(n + 1) \in [Agents -> Int]
      BY <1>7, <2>1
    <3>2. \A x \in Agents : q[x] \in Int
      BY <2>2, <2>4
    <3> QED BY <2>3, <3>1, <3>2
  <2>q. q \in [Agents -> Int]
    BY <2>7
  <2>8. sumOver(P(n + 1)) = sumOver(P(n)) + sumOver(q)
    <3> HIDE DEF P, q
    <3>1. Agents \in SUBSET Agents
      OBVIOUS
    <3> QED BY <2>7, <3>1, OverAdds
  <2>9. \A x \in Agents : q[x] = IF x0 = x THEN r[n + 1] ELSE 0
    BY <2>4
  <2>10. sumOver(q) = IF x0 \in Agents THEN r[n + 1] ELSE 0
    <3>1. r[n + 1] \in Int
      BY <2>2
    <3> DEFINE v == r[n + 1]
    <3> HIDE DEF q, x0, v
    <3>2. v \in Int /\ q \in [Agents -> Int] /\ \A x \in Agents : q[x] = IF x0 = x THEN v ELSE 0
      BY <2>q, <2>9, <3>1 DEF v
    <3>3. sumOver(q) = IF x0 \in Agents THEN v ELSE 0
      BY <3>2, OverSingle
    <3> QED BY <3>3 DEF v
  <2>11. sumTo(part(Nobody), n) \in Int /\ sumOver(P(n)) \in Int
    <3>1. sumTo(part(Nobody), n) \in Nat
      BY <1>5, <2>1
    <3>2. Agents \in SUBSET Agents
      OBVIOUS
    <3> HIDE DEF P
    <3>3. sumOver(P(n)) \in Int
      BY <2>7, <3>2, OverInt
    <3> QED BY <3>1, <3>3
  <2>12. CASE x0 \in Agents
    <3>1. x0 # Nobody
      BY <2>12, TownFacts DEF Nobody
    <3>2. sumOver(q) = r[n + 1] /\ part(Nobody)[n + 1] = 0
      <4> HIDE DEF q, x0
      <4> QED BY <2>4, <2>10, <2>12, <3>1
    <3> HIDE DEF P, q
    <3> QED BY <2>2, <2>3, <2>6, <2>8, <2>11, <3>2
  <2>13. CASE x0 \notin Agents
    <3>1. x0 = Nobody
      BY <2>5, <2>13
    <3>2. sumOver(q) = 0 /\ part(Nobody)[n + 1] = r[n + 1]
      <4> HIDE DEF q, x0
      <4> QED BY <2>4, <2>10, <2>13, <3>1
    <3> HIDE DEF P, q
    <3> QED BY <2>2, <2>3, <2>6, <2>8, <2>11, <3>2
  <2> QED BY <2>12, <2>13
<1> HIDE DEF Q
<1>10. N \in Q
  BY <1>1, <1>8, <1>9, NatSetInduction
<1>11. sumOver(P(N)) + sumTo(part(Nobody), N) = sumTo(r, N)
  BY <1>1, <1>10 DEF Q
<1>12. [x \in Agents |-> recoveredBy(paid, x)] = P(N)
  BY <1>3
<1>13. \A x : recoveredBy(paid, x) \in Nat
  BY <1>3, <1>5, <1>6
<1> QED BY <1>3, <1>11, <1>12, <1>13 DEF r, N

-----------------------------------------------------------------------------
(* Legal contracts: what a transition and a new day make of one.           *)

LEMMA Transitions ==
  /\ LEGAL_CONTRACT_TRANSITIONS["draft"] = {"signed"}
  /\ LEGAL_CONTRACT_TRANSITIONS["signed"] = {"active"}
  /\ LEGAL_CONTRACT_TRANSITIONS["active"] = {"completed", "terminated", "breached"}
  /\ \A s \in {"none", "completed", "terminated", "breached"} : LEGAL_CONTRACT_TRANSITIONS[s] = {}
<1>1. {"draft", "signed", "active", "none", "completed", "terminated", "breached"} = ContractStatuses
  BY DEF ContractStatuses
<1> QED BY <1>1 DEF LEGAL_CONTRACT_TRANSITIONS

LEMMA Transition ==
  ASSUME NEW k \in LegalContracts, NEW s \in ContractStatuses
  PROVE  LET n == transitionLegalContract(k, s)
         IN  /\ n \in LegalContracts
             /\ n.unsigned = k.unsigned /\ n.wait = k.wait /\ n.obligation = k.obligation
             /\ n.status = IF s \in LEGAL_CONTRACT_TRANSITIONS[k.status] THEN s ELSE k.status
BY DEF transitionLegalContract, LegalContracts

(* A signed contract comes into force; one that carries nothing pending, or no
   fee that has fired, is otherwise left as it is. *)
LEMMA Today ==
  ASSUME NEW k \in LegalContracts
  PROVE  LET n == legalContractToday(k)
         IN  /\ n \in LegalContracts
             /\ k.obligation \notin {"pending", "fired"} =>
                  /\ n.obligation = k.obligation
                  /\ n.status = IF k.status = "signed" THEN "active" ELSE k.status
             /\ k.status = "signed" /\ k.obligation = "pending" =>
                  n.status = "active" /\ n.obligation = "fired"
<1> DEFINE today == [k EXCEPT !.wait = 0]
           active == IF today.status = "signed" THEN transitionLegalContract(today, "active") ELSE today
<1>1. /\ today \in LegalContracts /\ today.status = k.status /\ today.obligation = k.obligation
      /\ today.wait = 0
  BY DEF LegalContracts
<1>2. "active" \in ContractStatuses /\ "breached" \in ContractStatuses
  BY DEF ContractStatuses
<1> HIDE DEF today
<1>3. /\ active \in LegalContracts /\ active.obligation = k.obligation /\ active.wait = 0
      /\ active.status = IF k.status = "signed" THEN "active" ELSE k.status
  BY <1>1, <1>2, Transition, Transitions
<1>4. legalContractToday(k) = IF overdueObligation(k) THEN transitionLegalContract(active, "breached")
                              ELSE fireLegalObligation(active)
  BY DEF legalContractToday, today
<1> HIDE DEF active
<1>5. transitionLegalContract(active, "breached") \in LegalContracts
  BY <1>2, <1>3, Transition
<1>6. /\ fireLegalObligation(active) \in LegalContracts
      /\ fireLegalObligation(active).status = active.status
      /\ fireLegalObligation(active).obligation =
           IF active.status = "active" /\ active.obligation = "pending" THEN "fired" ELSE active.obligation
  BY <1>3 DEF fireLegalObligation, dueLegalObligation, LegalContracts, ObligationStatuses
<1> QED BY <1>3, <1>4, <1>5, <1>6 DEF overdueObligation

LEMMA Terminated ==
  ASSUME NEW k \in LegalContracts
  PROVE  /\ terminated(k) \in LegalContracts /\ terminated(k).obligation = k.obligation
         /\ terminated(k).status = IF k.status = "active" THEN "terminated" ELSE k.status
<1>1. "terminated" \in ContractStatuses /\ k.status \in ContractStatuses
  BY DEF ContractStatuses, LegalContracts
<1>2. "terminated" \in LEGAL_CONTRACT_TRANSITIONS[k.status] <=> k.status = "active"
  BY <1>1, Transitions DEF ContractStatuses
<1> QED BY <1>1, <1>2, Transition DEF terminated

(* A contract that both parties have signed. *)
LEMMA BothSign ==
  ASSUME NEW type \in ContractTypes, NEW wait \in 0 .. 1
  PROVE  LET k == signLegalContract(signLegalContract(createContractFromTemplate(type, wait)))
         IN  /\ k \in LegalContracts /\ k.status = "signed"
             /\ k.obligation = IF type = "incorporation" THEN "pending" ELSE "none"
<1> DEFINE d == createContractFromTemplate(type, wait)
           one == [d EXCEPT !.unsigned = 1]
           two == [d EXCEPT !.unsigned = 0]
<1>1. /\ d \in LegalContracts /\ d.status = "draft" /\ d.unsigned = 2
      /\ d.obligation = IF type = "incorporation" THEN "pending" ELSE "none"
  BY DEF createContractFromTemplate, templateObligations, LegalContracts, ContractStatuses,
         ObligationStatuses
<1> HIDE DEF d
<1>2. /\ one \in LegalContracts /\ two \in LegalContracts
      /\ one.unsigned = 1 /\ two.unsigned = 0
      /\ [d EXCEPT !.unsigned = @ - 1] = one /\ [one EXCEPT !.unsigned = @ - 1] = two
      /\ two.status = "draft" /\ two.obligation = d.obligation
  <2>1. DOMAIN d = {"status", "unsigned", "wait", "obligation"}
    BY <1>1 DEF LegalContracts
  <2>2. one \in LegalContracts /\ one.unsigned = 1
    BY <1>1 DEF LegalContracts
  <2>3. two \in LegalContracts /\ two.unsigned = 0
    BY <1>1 DEF LegalContracts
  <2>4. two.status = "draft" /\ two.obligation = d.obligation
    BY <1>1 DEF LegalContracts
  <2>5. [d EXCEPT !.unsigned = @ - 1] = one
    BY <1>1
  <2>6. [one EXCEPT !.unsigned = @ - 1] = two
    <3>1. [one EXCEPT !.unsigned = @ - 1] = [one EXCEPT !.unsigned = 0]
      BY <2>2
    <3>2. [one EXCEPT !.unsigned = 0] = two
      BY <1>1 DEF LegalContracts
    <3> QED BY <3>1, <3>2
  <2> QED BY <2>2, <2>3, <2>4, <2>5, <2>6
<1> HIDE DEF one, two
<1>3. signLegalContract(d) = one
  BY <1>2 DEF signLegalContract, allPartiesSigned
<1>4. signLegalContract(one) = transitionLegalContract(two, "signed")
  BY <1>2 DEF signLegalContract, allPartiesSigned
<1>5. "signed" \in ContractStatuses
  BY DEF ContractStatuses
<1>6. /\ transitionLegalContract(two, "signed") \in LegalContracts
      /\ transitionLegalContract(two, "signed").status = "signed"
      /\ transitionLegalContract(two, "signed").obligation = two.obligation
  BY <1>2, <1>5, Transition, Transitions
<1> QED BY <1>1, <1>2, <1>3, <1>4, <1>6 DEF d

LEMMA ContractsDrawn ==
  /\ incorporationSigned \in LegalContracts
  /\ incorporationSigned.status = "signed" /\ incorporationSigned.obligation = "pending"
  /\ employmentSigned \in LegalContracts
  /\ employmentSigned.status = "active" /\ employmentSigned.obligation = "none"
  /\ investmentSigned \in LegalContracts
  /\ investmentSigned.status = "signed" /\ investmentSigned.obligation = "none"
<1>1. {"incorporation", "employment", "investment"} = ContractTypes /\ 0 \in 0 .. 1 /\ 1 \in 0 .. 1
  BY DEF ContractTypes
<1>2. /\ incorporationSigned \in LegalContracts
      /\ incorporationSigned.status = "signed" /\ incorporationSigned.obligation = "pending"
  BY <1>1, BothSign DEF incorporationSigned
<1>3. /\ investmentSigned \in LegalContracts
      /\ investmentSigned.status = "signed" /\ investmentSigned.obligation = "none"
  BY <1>1, BothSign DEF investmentSigned
<1> DEFINE k == signLegalContract(signLegalContract(createContractFromTemplate("employment", 0)))
<1>4. k \in LegalContracts /\ k.status = "signed" /\ k.obligation = "none"
  BY <1>1, BothSign
<1>5. employmentSigned = transitionLegalContract(k, "active")
  BY DEF employmentSigned
<1>6. "active" \in ContractStatuses
  BY DEF ContractStatuses
<1> HIDE DEF k
<1> QED BY <1>2, <1>3, <1>4, <1>5, <1>6, Transition, Transitions

-----------------------------------------------------------------------------
(* The inductive invariant.                                                *)

TalkRows == [status : {"none", "active", "agreement", "declined", "ended", "expired"},
             amount : Nat, preMoney : Nat]
Balances == [counsel : Nat, utility : Nat, fund : Nat, row : Int]

\* Every variable keeps to its rows, those TypeOK leaves out included.
RowTypes ==
  /\ TypeOK
  /\ talk \in [Companies -> TalkRows]
  /\ pitched \in Seq(Companies)
  /\ windDown_ \in [Companies -> [pool : Nat, claims : Seq(RecoveryRows)]]
  /\ others \in Balances
  /\ offering \in [Companies -> BOOLEAN] /\ stock \in [Companies -> {0, 1}]
  /\ arrears \in [Companies -> {0, Bill}]

NoShares == [total |-> 0, founder |-> 0, fund |-> 0]
Unstarted == {"none", "forming", "registered"}

\* A company's stage in the pipeline goes with its status.
StageInv ==
  \A c \in Companies :
    LET s == company[c].status
        g == company[c].stage
    IN  /\ s = "none" <=> g = "none"
        /\ s = "forming" => g \in {"agreement_drafted", "fee_paid"}
        /\ s = "registered" => g \in {"registered", "account_opened", "capitalized"}
        /\ s \in {"active", "closed"} => g = "active"

\* Until it is active it has nothing but the capital it was paid.
IdleInv ==
  \A c \in Companies : company[c].status \in Unstarted =>
    /\ employment[c].status = "none" /\ job[c] = "none" /\ notice[c] = none
    /\ ~offering[c] /\ stock[c] = 0 /\ arrears[c] = 0
    /\ proposal[c].status = "none" /\ shares[c] = NoShares
    /\ cash[c] = IF company[c].stage = "capitalized" THEN Capital ELSE 0

\* The contract of a draft is signed until the next day, then its fee is due
\* and is paid on that day.
Signing == {"launch", "settlement", "metrics", "obligations"} \cup Failures
Filing == {"goals", "decisions", "investments", "formation"} \cup Failures

FilingInv ==
  \A c \in Companies :
    LET g == company[c].stage
        k == contract[c]["incorporation"]
    IN  /\ g = "none" => k.status = "none" /\ k.obligation = "none"
        /\ g = "agreement_drafted" =>
             \/ k.status = "signed" /\ k.obligation = "pending" /\ phase \in Signing
             \/ k.status = "active" /\ k.obligation = "fired" /\ phase \in Filing
        /\ g \notin {"none", "agreement_drafted"} =>
             k.status \in {"active", "terminated"} /\ k.obligation \in {"completed", "waived"}

\* Employers, employment rows and contracts agree, and only a filled job has one.
WorkRows(boss, work, legal, due, post) ==
  \A c \in Companies :
    LET k == legal[c]["employment"]
    IN  /\ k.status \in {"none", "active", "terminated"} /\ k.obligation = "none"
        /\ work[c].status = "active" <=> k.status = "active"
        /\ \A a \in Agents : boss[a] = c <=> work[c].status = "active" /\ work[c].agent = a
        /\ due[c] = 1 => work[c].status = "active"
        /\ post[c] # "filled" => work[c].status = "none"

WorkInv == WorkRows(employer, employment, contract, notice, job)

\* A closed proposal, its contract and its shares come together, on its terms.
RoundRows(row, terms, legal, table) ==
  \A c \in Companies :
    LET k == legal[c]["investment"]
        closed == row[c].status = "completed"
    IN  /\ k.status \in {"none", "signed", "active", "terminated"} /\ k.obligation = "none"
        /\ row[c].status = "negotiating" => row[c].left >= 1
        /\ row[c].status \in {"agreed", "completed"} =>
             terms[c].status = "agreement" /\ termsWithinConversationBounds(terms[c])
        /\ table[c].total = table[c].founder + table[c].fund
        /\ closed <=> k.status # "none"
        /\ closed <=> table[c].fund > 0
        /\ row[c].status = "expired" => terms[c].status = "expired"
        /\ closed => terms[c].amount * FoundingShares = terms[c].preMoney * table[c].fund

RoundInv == RoundRows(proposal, talk, contract, shares)

\* Whatever has been active has its founder's shares.
IssuedInv ==
  \A c \in Companies : company[c].status \notin Unstarted => shares[c].founder = FoundingShares

\* What the fund has paid, company by company.
PaidFor(row, terms) == [c \in Companies |-> IF row[c].status = "completed" THEN terms[c].amount ELSE 0]
DeployedInv == deployed = sumOver(PaidFor(proposal, talk))

MoneyInv == totalMoney = 0

Filed == {c \in Companies : company[c].stage \notin {"none", "agreement_drafted"}}
CounselInv == others.counsel = Fee * Cardinality(Filed)

IInv ==
  /\ RowTypes /\ StageInv /\ IdleInv /\ FilingInv /\ WorkInv /\ FailureIsFinal
  /\ RoundInv /\ IssuedInv /\ DeployedInv /\ MoneyInv /\ CounselInv /\ WaterfallExact

(* What no step changes, every part of it keeps. *)
LEMMA StageKept ==
  ASSUME StageInv, UNCHANGED company
  PROVE  StageInv'
BY DEF StageInv

LEMMA IdleKept ==
  ASSUME IdleInv,
         UNCHANGED <<company, employment, job, notice, offering, stock, arrears, proposal, shares, cash>>
  PROVE  IdleInv'
BY DEF IdleInv

LEMMA FilingKept ==
  ASSUME FilingInv, UNCHANGED <<company, contract>>,
         phase \in Signing => phase' \in Signing, phase \in Filing => phase' \in Filing
  PROVE  FilingInv'
BY DEF FilingInv

LEMMA WorkKept ==
  ASSUME WorkInv, UNCHANGED <<employer, employment, contract, notice, job>>
  PROVE  WorkInv'
BY DEF WorkInv, WorkRows

LEMMA FinalKept ==
  ASSUME FailureIsFinal,
         UNCHANGED <<company, employment, contract, job, notice, offering, stock, arrears, cash, employer>>
  PROVE  FailureIsFinal'
BY DEF FailureIsFinal

LEMMA RoundKept ==
  ASSUME RoundInv, UNCHANGED <<proposal, talk, contract, shares>>
  PROVE  RoundInv'
BY DEF RoundInv, RoundRows

LEMMA IssuedKept ==
  ASSUME IssuedInv, UNCHANGED <<company, shares>>
  PROVE  IssuedInv'
BY DEF IssuedInv

LEMMA DeployedKept ==
  ASSUME DeployedInv, UNCHANGED <<deployed, proposal, talk>>
  PROVE  DeployedInv'
BY DEF DeployedInv, PaidFor

LEMMA MoneyKept ==
  ASSUME MoneyInv, UNCHANGED <<wallet, cash, others>>
  PROVE  MoneyInv'
BY DEF MoneyInv, totalMoney

LEMMA CounselKept ==
  ASSUME CounselInv, UNCHANGED <<company, others>>
  PROVE  CounselInv'
BY DEF CounselInv, Filed

LEMMA WaterfallKept ==
  ASSUME WaterfallExact, UNCHANGED windDown_
  PROVE  WaterfallExact'
BY DEF WaterfallExact

(* Founding shares are issued where a company becomes active, and only there. *)
LEMMA SharesKept ==
  ASSUME RowTypes, issueFounding, UNCHANGED company
  PROVE  shares' = shares
BY DEF RowTypes, TypeOK, issueFounding

(* The solvency handler visits a company, or the day is over. *)
LEMMA NextCompany ==
  ASSUME RowTypes, phase = "metrics", nextCompany
  PROVE  turn' \in Companies /\ phase' \in {"metrics", "obligations"}
<1>1. turn \in Companies /\ Companies \subseteq 0 .. Population /\ Population \in Nat
  BY TownFacts DEF RowTypes, TypeOK
<1>2. Min(Companies) \in Companies
  BY <1>1, Smallest, TownFacts
<1>3. CASE turn = Max(Companies)
  BY <1>2, <1>3 DEF nextCompany, after
<1>4. CASE turn # Max(Companies)
  <2>1. Max(Companies) \in Companies /\ \A y \in Companies : Max(Companies) >= y
    BY <1>1, Greatest
  <2> DEFINE S == {c \in Companies : c > turn}
  <2>0. Companies \subseteq Nat
    BY <1>1
  <2> DEFINE m == Max(Companies)
  <2>2. m \in Nat /\ turn \in Nat /\ m \in Companies /\ m >= turn /\ turn # m
    BY <1>1, <1>4, <2>0, <2>1
  <2> HIDE DEF m
  <2>3. S \in SUBSET Nat /\ S # {}
    <3>1. m > turn
      BY <2>2
    <3> QED BY <2>0, <2>2, <3>1
  <2>4. Min(S) \in S
    BY <2>3, Smallest
  <2>5. turn' = Min(S) /\ phase' = phase
    BY <1>4 DEF nextCompany
  <2> QED BY <2>4, <2>5
<1> QED BY <1>3, <1>4

-----------------------------------------------------------------------------
(* The handlers that change little: one lemma each.                         *)

\* What no handler of the company's life but the closings changes.
roundKept == UNCHANGED <<proposal, talk, pitched, deployed, dividend>>

LEMMA NoPhaseFails ==
  /\ "goals" \notin Failures /\ "decisions" \notin Failures /\ "investments" \notin Failures
  /\ "formation" \notin Failures /\ "launch" \notin Failures /\ "settlement" \notin Failures
  /\ "metrics" \notin Failures /\ "obligations" \notin Failures
BY Zenon DEF Failures

LEMMA GoalsStep ==
  ASSUME IInv, goalsProgress, issueFounding, roundKept
  PROVE  IInv'
<1> USE DEF IInv, goalsProgress, roundKept
<1>1. shares' = shares
  BY SharesKept
<1>2. phase = "goals" /\ phase' = "decisions"
  BY DEF after
<1>3. RowTypes'
  BY <1>1, <1>2 DEF RowTypes, TypeOK, after
<1>4. FilingInv'
  <2>1. (phase \in Signing => phase' \in Signing) /\ (phase \in Filing => phase' \in Filing)
    BY <1>2, NoPhaseFails DEF Signing, Filing
  <2> QED BY <2>1, FilingKept
<1> QED BY <1>1, <1>3, <1>4, StageKept, IdleKept, WorkKept, FinalKept, RoundKept, IssuedKept,
           DeployedKept, MoneyKept, CounselKept, WaterfallKept

LEMMA FailStep ==
  ASSUME IInv, phase' \in Failures, shares' = shares, roundKept,
         phase \in {"formation", "investments", "metrics"},
         UNCHANGED <<turn, goal, wallet, employer, company, cash, contract, job, employment, notice,
                     offering, stock, arrears, streak, windDown_, others>>
  PROVE  IInv'
<1> USE DEF IInv, roundKept
<1>3. RowTypes'
  BY DEF RowTypes, TypeOK
<1>4. FilingInv'
  <2>1. (phase \in Signing => phase' \in Signing) /\ (phase \in Filing => phase' \in Filing)
    BY DEF Signing, Filing
  <2> QED BY <2>1, FilingKept
<1> QED BY <1>3, <1>4, StageKept, IdleKept, WorkKept, FinalKept, RoundKept, IssuedKept,
           DeployedKept, MoneyKept, CounselKept, WaterfallKept

LEMMA UnfundedStep ==
  ASSUME IInv, formationUnfunded, issueFounding, roundKept
  PROVE  IInv'
<1>1. shares' = shares
  BY SharesKept DEF IInv, formationUnfunded
<1>2. phase' \in Failures /\ phase = "formation"
  BY DEF formationUnfunded, fail, Failures
<1> QED BY <1>1, <1>2, FailStep DEF formationUnfunded

LEMMA DanglingStep ==
  ASSUME IInv, leftDangling, issueFounding, roundKept
  PROVE  IInv'
<1>1. /\ phase' \in Failures /\ phase = "metrics"
      /\ UNCHANGED <<turn, goal, wallet, employer, company, cash, contract, job, employment, notice,
                     offering, stock, arrears, streak, windDown_, others>>
  BY Zenon DEF leftDangling, fail, Failures
<1>2. shares' = shares
  BY <1>1, SharesKept DEF IInv
<1> QED BY <1>1, <1>2, FailStep

(* The streak of shortfalls, which ends below its bound or in a wind-down. *)
LEMMA VisitStep ==
  ASSUME IInv, phase = "metrics", nextCompany, shares' = shares, roundKept,
         streak' \in [Companies -> 0 .. ShortfallDays - 1],
         UNCHANGED <<goal, wallet, employer, company, cash, contract, job, employment, notice,
                     offering, stock, arrears, windDown_, others>>
  PROVE  IInv'
<1> USE DEF IInv, roundKept
<1>1. turn' \in Companies /\ phase' \in {"metrics", "obligations"}
  BY NextCompany
<1>3. RowTypes'
  BY <1>1 DEF RowTypes, TypeOK, after
<1>4. FilingInv'
  <2>1. (phase \in Signing => phase' \in Signing) /\ (phase \in Filing => phase' \in Filing)
    BY <1>1, NoPhaseFails DEF Signing, Filing
  <2> QED BY <2>1, FilingKept
<1> QED BY <1>3, <1>4, StageKept, IdleKept, WorkKept, FinalKept, RoundKept, IssuedKept,
           DeployedKept, MoneyKept, CounselKept, WaterfallKept

LEMMA NotAssessedStep ==
  ASSUME IInv, notAssessed, issueFounding, roundKept
  PROVE  IInv'
<1>1. shares' = shares
  BY SharesKept DEF IInv, notAssessed
<1>2. streak' \in [Companies -> 0 .. ShortfallDays - 1]
  BY DEF IInv, RowTypes, TypeOK, notAssessed
<1> QED BY <1>1, <1>2, VisitStep DEF notAssessed

LEMMA AssessStep ==
  ASSUME IInv, assessCompany, issueFounding, roundKept
  PROVE  IInv'
<1>1. shares' = shares
  BY SharesKept DEF IInv, assessCompany
<1>2. streak' \in [Companies -> 0 .. ShortfallDays - 1]
  <2>1. /\ streak \in [Companies -> 0 .. ShortfallDays - 1] /\ turn \in Companies
        /\ streak' = [streak EXCEPT ![turn] = assessCompanySolvency(turn)]
        /\ ~(assessCompanySolvency(turn) >= ShortfallDays)
    BY DEF IInv, RowTypes, TypeOK, assessCompany, insolvent
  <2>2. ShortfallDays \in Nat \ {0}
    BY TownFacts
  <2>3. assessCompanySolvency(turn) \in Nat
    BY <2>1, <2>2 DEF assessCompanySolvency
  <2> QED BY <2>1, <2>2, <2>3
<1> QED BY <1>1, <1>2, VisitStep DEF assessCompany

(* An employee gives notice; a closed company has none left to do so. *)
LEMMA NoticeStep ==
  ASSUME IInv, NEW c \in Companies, requestEmploymentTermination(c), issueFounding, roundKept
  PROVE  IInv'
<1> USE DEF IInv, requestEmploymentTermination, roundKept
<1>1. shares' = shares
  BY SharesKept
<1>2. notice \in [Companies -> none .. noticeDays] /\ company[c].status \notin Unstarted
      /\ company[c].status # "closed"
  BY DEF RowTypes, TypeOK, IdleInv, FailureIsFinal
<1>3. RowTypes'
  <2>1. notice' \in [Companies -> none .. noticeDays]
    BY <1>2 DEF noticeDays, none
  <2> QED BY <1>1, <2>1 DEF RowTypes, TypeOK
<1>4. FilingInv' /\ StageInv' /\ RoundInv' /\ IssuedInv' /\ DeployedInv' /\ MoneyInv' /\ CounselInv'
      /\ WaterfallExact'
  BY <1>1, FilingKept, StageKept, RoundKept, IssuedKept, DeployedKept, MoneyKept, CounselKept,
     WaterfallKept
<1>5. IdleInv'
  BY <1>1, <1>2 DEF IdleInv
<1>6. WorkInv'
  BY <1>2 DEF WorkInv, WorkRows
<1>7. FailureIsFinal'
  BY <1>2 DEF FailureIsFinal
<1> QED BY <1>3, <1>4, <1>5, <1>6, <1>7

LEMMA TermsTypes ==
  /\ ask \in Nat \ {0} /\ preMoney \in Nat \ {0}
  /\ boundedMinimum(ask) \in Nat \ {0} /\ boundedMinimum(preMoney) \in Nat \ {0}
  /\ Terms \subseteq [amount : Nat, preMoney : Nat]
<1>1. ask \in Nat \ {0} /\ preMoney \in Nat \ {0}
  BY TownNumbers DEF ask, preMoney
<1>2. ASSUME NEW v \in Nat \ {0}
      PROVE  boundedMinimum(v) \in Nat \ {0}
  <2>1. (v * 4) \div 5 \in Int
    OBVIOUS
  <2> DEFINE d == (v * 4) \div 5
  <2> HIDE DEF d
  <2>2. Max({1, d}) = IF 1 >= d THEN 1 ELSE d
    BY <2>1, MaxOfTwo DEF d
  <2>3. boundedMinimum(v) = Max({1, d})
    BY DEF boundedMinimum, d
  <2> QED BY <2>1, <2>2, <2>3 DEF d
<1>3. boundedMinimum(ask) \in Nat \ {0} /\ boundedMinimum(preMoney) \in Nat \ {0}
  BY <1>1, <1>2
<1> QED BY <1>1, <1>3 DEF Terms

(* What is said in a talk touches no proposal that has closed on its terms. *)
LEMMA TalkStep ==
  ASSUME IInv, conversationPhase
  PROVE  IInv'
<1> USE DEF IInv, conversationPhase
<1>2. phase = "decisions" /\ phase' = "investments"
  BY DEF after
<1>3. talk' \in [Companies -> TalkRows]
      /\ \A c \in Companies : talk'[c] = talk[c] \/ talk[c].status = "active"
  <2>1. talk \in [Companies -> TalkRows]
    BY DEF RowTypes
  <2>2. Outcomes \subseteq TalkRows
    <3>1. Terms \subseteq [amount : Nat, preMoney : Nat]
      BY TermsTypes
    <3> QED BY <3>1 DEF Outcomes, NoTalk, TalkRows
  <2> QED BY <2>1, <2>2
<1>4. RowTypes'
  BY <1>2, <1>3 DEF RowTypes, TypeOK, after
<1>5. FilingInv'
  <2>1. (phase \in Signing => phase' \in Signing) /\ (phase \in Filing => phase' \in Filing)
    BY <1>2, NoPhaseFails DEF Signing, Filing
  <2> QED BY <2>1, FilingKept
<1>6. RoundInv'
  <2>1. \A c \in Companies : proposal[c].status \in {"agreed", "completed", "expired"} => talk'[c] = talk[c]
    BY <1>3 DEF RoundInv, RoundRows
  <2> QED BY <2>1 DEF RoundInv, RoundRows
<1>7. DeployedInv'
  <2>1. \A c \in Companies : proposal[c].status = "completed" => talk'[c] = talk[c]
    BY <1>3 DEF RoundInv, RoundRows
  <2>2. PaidFor(proposal, talk') = PaidFor(proposal, talk)
    BY <2>1 DEF PaidFor
  <2> QED BY <2>2 DEF DeployedInv
<1> QED BY <1>4, <1>5, <1>6, <1>7, StageKept, IdleKept, WorkKept, FinalKept, IssuedKept,
           MoneyKept, CounselKept, WaterfallKept

-----------------------------------------------------------------------------
(* Settlement: the rest of the world's balance makes up for what it moves.  *)

LEMMA SettlementStep ==
  ASSUME IInv, settlement, issueFounding, roundKept
  PROVE  IInv'
<1> USE DEF IInv, roundKept
<1>1. shares' = shares
  BY SharesKept DEF settlement
<1>2. phase = "settlement" /\ phase' = "metrics" /\ turn' = Min(Companies)
  BY DEF settlement, after
<1>3. /\ cash \in [Companies -> Nat] /\ wallet \in [Agents -> Nat] /\ others \in Balances
      /\ stock \in [Companies -> {0, 1}] /\ arrears \in [Companies -> {0, Bill}]
  BY DEF RowTypes, TypeOK
<1>4. /\ cash' \in [Companies -> Nat]
      /\ \A c \in Companies : company[c].status # "active" => cash'[c] = cash[c]
  <2>1. CashLevels \cup {cash[c] : c \in Companies} \subseteq Nat
    <3>1. CashLevels \subseteq Nat
      BY TownFacts
    <3> QED BY <1>3, <3>1
  <2> QED BY <2>1 DEF settlement, trading
<1>5. wallet' \in [Agents -> Nat]
  <2>1. WalletLevels \cup {wallet[a] : a \in Agents} \subseteq Nat
    <3>1. WalletLevels \subseteq Nat
      BY TownFacts
    <3> QED BY <1>3, <3>1
  <2> QED BY <2>1 DEF settlement
<1>6. /\ stock' \in [Companies -> {0, 1}]
      /\ \A c \in Companies : ~offering[c] => stock'[c] = stock[c]
  BY <1>3 DEF settlement
<1>7. /\ arrears' \in [Companies -> {0, Bill}]
      /\ \A c \in Companies : ~offering[c] => arrears'[c] = arrears[c]
  BY <1>3 DEF settlement
<1>8. /\ sumOver(wallet) \in Int /\ sumOver(wallet') \in Int
      /\ sumOver(cash) \in Int /\ sumOver(cash') \in Int
  <2>1. Agents \in SUBSET Agents /\ Companies \in SUBSET Agents
    BY TownFacts
  <2>2. /\ wallet \in [Agents -> Int] /\ wallet' \in [Agents -> Int]
        /\ cash \in [Companies -> Int] /\ cash' \in [Companies -> Int]
    BY <1>3, <1>4, <1>5
  <2> QED BY <2>1, <2>2, OverInt
<1>9. /\ others' \in Balances
      /\ others'.counsel = others.counsel /\ others'.utility = others.utility
      /\ others'.fund = others.fund
      /\ others'.row = others.row + sumOver(wallet) - sumOver(wallet') + sumOver(cash) - sumOver(cash')
  BY <1>3, <1>8 DEF settlement, Balances
<1>10. UNCHANGED <<goal, employer, company, contract, job, employment, notice, offering, streak, windDown_>>
  BY DEF settlement
<1>11. turn' \in Companies
  <2>1. Companies \in SUBSET Nat /\ Companies # {}
    BY TownFacts
  <2> QED BY <1>2, <2>1, Smallest
<1>12. RowTypes'
  BY <1>1, <1>2, <1>4, <1>5, <1>6, <1>7, <1>9, <1>10, <1>11 DEF RowTypes, TypeOK, after
<1>13. IdleInv'
  BY <1>1, <1>4, <1>6, <1>7, <1>10 DEF IdleInv, Unstarted
<1>14. FailureIsFinal'
  BY <1>4, <1>6, <1>7, <1>10 DEF FailureIsFinal
<1>15. MoneyInv'
  <2>1. /\ others.counsel \in Int /\ others.utility \in Int /\ others.fund \in Int /\ others.row \in Int
    BY <1>3 DEF Balances
  <2>2. /\ totalMoney = sumOver(wallet) + sumOver(cash) + others.counsel + others.utility
                        + others.fund + others.row
        /\ totalMoney' = sumOver(wallet') + sumOver(cash') + others'.counsel + others'.utility
                        + others'.fund + others'.row
    BY DEF totalMoney
  <2>3. totalMoney = 0
    BY DEF MoneyInv
  <2>4. totalMoney' = 0
    BY <1>8, <1>9, <2>1, <2>2, <2>3
  <2> QED BY <2>4 DEF MoneyInv
<1>16. CounselInv'
  BY <1>9, <1>10 DEF CounselInv, Filed
<1>17. FilingInv'
  <2>1. (phase \in Signing => phase' \in Signing) /\ (phase \in Filing => phase' \in Filing)
    BY <1>2, NoPhaseFails DEF Signing, Filing
  <2> QED BY <1>10, <2>1, FilingKept
<1> QED BY <1>1, <1>10, <1>12, <1>13, <1>14, <1>15, <1>16, <1>17, StageKept, WorkKept, RoundKept,
           IssuedKept, DeployedKept, WaterfallKept

-----------------------------------------------------------------------------
(* Obligations: contracts come into force, and notices run out.             *)

LEMMA ObligationsStep ==
  ASSUME IInv, processLegalObligations, issueFounding, roundKept
  PROVE  IInv'
<1> USE DEF IInv, roundKept
<1>1. UNCHANGED <<turn, goal, wallet, cash, job, offering, stock, arrears, streak, windDown_, others>>
  BY DEF processLegalObligations
<1>2. phase = "obligations" /\ phase' = "goals"
  BY DEF processLegalObligations, after
<1>3. /\ company \in [Companies -> CompanyRows] /\ employment \in [Companies -> EmploymentRows]
      /\ contract \in [Companies -> [ContractTypes -> LegalContracts]]
      /\ notice \in [Companies -> none .. noticeDays]
      /\ employer \in [Agents -> Companies \cup {Nobody}] /\ MaxAge \in Nat
  BY TownNumbers DEF RowTypes, TypeOK
<1>4. /\ company' \in [Companies -> CompanyRows]
      /\ \A c \in Companies : company'[c].status = company[c].status /\ company'[c].stage = company[c].stage
      /\ \A c \in Companies : company[c].stage # "active" => company'[c] = company[c]
  <2>1. \A c \in Companies : company[c] \in CompanyRows
    BY <1>3
  <2>2. ASSUME NEW c \in Companies, company[c].age < MaxAge
        PROVE  LET n == [company[c] EXCEPT !.age = @ + 1]
               IN  n \in CompanyRows /\ n.status = company[c].status /\ n.stage = company[c].stage
    <3> DEFINE n == [company[c] EXCEPT !.age = @ + 1]
    <3>1. company[c].age \in 0 .. MaxAge /\ company[c].age + 1 \in 0 .. MaxAge
      BY <1>3, <2>1, <2>2 DEF CompanyRows
    <3>2. n = [status |-> company[c].status, stage |-> company[c].stage, age |-> company[c].age + 1]
      BY <2>1 DEF CompanyRows
    <3> HIDE DEF n
    <3>3. n \in CompanyRows
      BY <2>1, <3>1, <3>2 DEF CompanyRows
    <3> QED BY <3>2, <3>3 DEF n
  <2>3. company' = [c \in Companies |->
          IF company[c].stage = "active" /\ company[c].age < MaxAge
          THEN [company[c] EXCEPT !.age = @ + 1] ELSE company[c]]
    BY DEF processLegalObligations
  <2> QED BY <2>1, <2>2, <2>3
<1>5. shares' = shares
  BY <1>4 DEF RowTypes, TypeOK, issueFounding
<1>6. /\ notice' \in [Companies -> none .. noticeDays]
      /\ \A c \in Companies : notice[c] = none => notice'[c] = none
      /\ \A c \in Companies : notice'[c] # 1
      /\ \A c \in Companies : c \in terminationsDue <=> notice[c] = 1
  <2>1. notice' = [c \in Companies |-> IF notice[c] > 0 THEN notice[c] - 1 ELSE notice[c]]
    BY DEF processLegalObligations
  <2> QED BY <1>3, <2>1 DEF none, noticeDays, terminationsDue
<1>7. /\ employment' \in [Companies -> EmploymentRows]
      /\ \A c \in Companies : employment'[c].agent = employment[c].agent
      /\ \A c \in Companies : employment'[c].status =
           IF c \in terminationsDue THEN "ended" ELSE employment[c].status
  <2>1. employment' = [c \in Companies |->
       IF c \in terminationsDue THEN [employment[c] EXCEPT !.status = "ended"] ELSE employment[c]]
    BY DEF processLegalObligations, processEmploymentTerminations
  <2>2. ASSUME NEW c \in Companies
        PROVE  /\ [employment[c] EXCEPT !.status = "ended"] \in EmploymentRows
               /\ [employment[c] EXCEPT !.status = "ended"].status = "ended"
               /\ [employment[c] EXCEPT !.status = "ended"].agent = employment[c].agent
    BY <1>3 DEF EmploymentRows
  <2> QED BY <1>3, <2>1, <2>2
<1>8. /\ employer' \in [Agents -> Companies \cup {Nobody}]
      /\ \A a \in Agents : employer'[a] =
           IF \E c \in terminationsDue : employment[c].agent = a THEN Nobody ELSE employer[a]
  BY <1>3 DEF processLegalObligations, processEmploymentTerminations
<1>9. ASSUME NEW c \in Companies, NEW t \in ContractTypes
      PROVE  LET k == contract[c][t]
                 n == contract'[c][t]
             IN  /\ n \in LegalContracts
                 /\ k.obligation \notin {"pending", "fired"} =>
                      /\ n.obligation = k.obligation
                      /\ n.status = IF k.status \in {"signed", "active"}
                                    THEN IF t = "employment" /\ c \in terminationsDue
                                         THEN "terminated" ELSE "active"
                                    ELSE k.status
                 /\ t # "employment" /\ k.status = "signed" /\ k.obligation = "pending" =>
                      n.status = "active" /\ n.obligation = "fired"
  <2> DEFINE k == contract[c][t]
             d == legalContractToday(k)
  <2>1. k \in LegalContracts
    BY <1>3
  <2>2. /\ d \in LegalContracts
        /\ k.obligation \notin {"pending", "fired"} =>
             /\ d.obligation = k.obligation
             /\ d.status = IF k.status = "signed" THEN "active" ELSE k.status
        /\ k.status = "signed" /\ k.obligation = "pending" =>
             d.status = "active" /\ d.obligation = "fired"
    BY <2>1, Today
  <2>3. contract'[c][t] = IF t = "employment" /\ c \in terminationsDue THEN terminated(d) ELSE d
    BY DEF processLegalObligations
  <2> HIDE DEF d, k
  <2>4. /\ terminated(d) \in LegalContracts /\ terminated(d).obligation = d.obligation
        /\ terminated(d).status = IF d.status = "active" THEN "terminated" ELSE d.status
    BY <2>2, Terminated
  <2> QED BY <2>2, <2>3, <2>4 DEF k
<1>10. contract' \in [Companies -> [ContractTypes -> LegalContracts]]
  <2>1. contract' = [c \in Companies |-> [t \in ContractTypes |-> contract'[c][t]]]
    BY DEF processLegalObligations
  <2> QED BY <1>9, <2>1
<1>11. RowTypes'
  BY <1>1, <1>2, <1>4, <1>5, <1>6, <1>7, <1>8, <1>10 DEF RowTypes, TypeOK, after
<1>12. StageInv'
  BY <1>4 DEF StageInv
<1>13. IdleInv'
  <2> SUFFICES ASSUME NEW c \in Companies, company[c].status \in Unstarted
               PROVE  /\ employment'[c].status = "none" /\ job[c] = "none" /\ notice'[c] = none
                      /\ ~offering[c] /\ stock[c] = 0 /\ arrears[c] = 0
                      /\ proposal[c].status = "none" /\ shares[c] = NoShares
                      /\ cash[c] = IF company'[c].stage = "capitalized" THEN Capital ELSE 0
    BY <1>1, <1>4, <1>5 DEF IdleInv
  <2>1. notice[c] = none
    BY DEF IdleInv
  <2>2. c \notin terminationsDue
    BY <1>6, <2>1 DEF none
  <2> QED BY <1>4, <1>6, <1>7, <2>2 DEF IdleInv
<1>14. FilingInv'
  <2>1. "incorporation" \in ContractTypes /\ "incorporation" # "employment"
    BY DEF ContractTypes
  <2>2. phase \notin Filing /\ phase' \in Filing
    BY <1>2, NoPhaseFails DEF Filing
  <2> SUFFICES ASSUME NEW c \in Companies
               PROVE  LET g == company'[c].stage
                          k == contract'[c]["incorporation"]
                      IN  /\ g = "none" => k.status = "none" /\ k.obligation = "none"
                          /\ g = "agreement_drafted" =>
                               \/ k.status = "signed" /\ k.obligation = "pending" /\ phase' \in Signing
                               \/ k.status = "active" /\ k.obligation = "fired" /\ phase' \in Filing
                          /\ g \notin {"none", "agreement_drafted"} =>
                               k.status \in {"active", "terminated"} /\ k.obligation \in {"completed", "waived"}
    BY DEF FilingInv
  <2> DEFINE k == contract[c]["incorporation"]
             n == contract'[c]["incorporation"]
  <2>3. /\ k.obligation \notin {"pending", "fired"} =>
             /\ n.obligation = k.obligation
             /\ n.status = IF k.status \in {"signed", "active"} THEN "active" ELSE k.status
        /\ k.status = "signed" /\ k.obligation = "pending" =>
             n.status = "active" /\ n.obligation = "fired"
    BY <1>9, <2>1
  <2>4. /\ company[c].stage = "none" => k.status = "none" /\ k.obligation = "none"
        /\ company[c].stage = "agreement_drafted" => k.status = "signed" /\ k.obligation = "pending"
        /\ company[c].stage \notin {"none", "agreement_drafted"} =>
             k.status \in {"active", "terminated"} /\ k.obligation \in {"completed", "waived"}
    BY <2>2 DEF FilingInv
  <2> HIDE DEF k, n
  <2>5. company'[c].stage = company[c].stage
    BY <1>4
  <2>6. /\ company[c].stage = "none" => n.status = "none" /\ n.obligation = "none"
        /\ company[c].stage = "agreement_drafted" => n.status = "active" /\ n.obligation = "fired"
        /\ company[c].stage \notin {"none", "agreement_drafted"} =>
             n.status \in {"active", "terminated"} /\ n.obligation \in {"completed", "waived"}
    BY <2>3, <2>4
  <2> QED BY <2>2, <2>5, <2>6 DEF n
<1>15. WorkInv'
  <2>1. "employment" \in ContractTypes
    BY DEF ContractTypes
  <2> SUFFICES ASSUME NEW c \in Companies
               PROVE  LET n == contract'[c]["employment"]
                      IN  /\ n.status \in {"none", "active", "terminated"} /\ n.obligation = "none"
                          /\ employment'[c].status = "active" <=> n.status = "active"
                          /\ \A a \in Agents : employer'[a] = c
                               <=> employment'[c].status = "active" /\ employment'[c].agent = a
                          /\ notice'[c] = 1 => employment'[c].status = "active"
                          /\ job'[c] # "filled" => employment'[c].status = "none"
    BY DEF WorkInv, WorkRows
  <2> DEFINE k == contract[c]["employment"]
             n == contract'[c]["employment"]
  <2>2. /\ k.status \in {"none", "active", "terminated"} /\ k.obligation = "none"
        /\ employment[c].status = "active" <=> k.status = "active"
        /\ notice[c] = 1 => employment[c].status = "active"
        /\ job[c] # "filled" => employment[c].status = "none"
    BY DEF WorkInv, WorkRows
  <2>3. \A d \in Companies : \A a \in Agents :
          employer[a] = d <=> employment[d].status = "active" /\ employment[d].agent = a
    BY DEF WorkInv, WorkRows
  <2>4. /\ n.obligation = k.obligation
        /\ n.status = IF k.status = "active"
                      THEN IF c \in terminationsDue THEN "terminated" ELSE "active" ELSE k.status
    BY <1>9, <2>1, <2>2
  <2> HIDE DEF k, n
  <2>5. employment'[c].status = IF c \in terminationsDue THEN "ended" ELSE employment[c].status
    BY <1>7
  <2>6. c \in terminationsDue => employment[c].status = "active"
    BY <1>6, <2>2
  <2>7. ASSUME NEW a \in Agents
        PROVE  employer'[a] = c <=> employment'[c].status = "active" /\ employment'[c].agent = a
    <3>1. \A d \in terminationsDue : d \in Companies /\ employment[d].status = "active"
      <4>1. \A d \in Companies : notice[d] = 1 => employment[d].status = "active"
        BY DEF WorkInv, WorkRows
      <4> QED BY <1>6, <4>1 DEF terminationsDue
    <3>2. c # Nobody
      BY TownFacts DEF Nobody
    <3>3. CASE \E d \in terminationsDue : employment[d].agent = a
      <4>1. PICK d \in terminationsDue : employment[d].agent = a
        BY <3>3
      <4>2. employer[a] = d
        BY <2>3, <3>1, <4>1
      <4>3. employer'[a] = Nobody
        BY <1>8, <3>3
      <4>4. c # d => ~(employment[c].status = "active" /\ employment[c].agent = a)
        BY <2>3, <4>2
      <4> QED BY <1>7, <2>5, <3>2, <4>1, <4>3, <4>4
    <3>4. CASE ~ \E d \in terminationsDue : employment[d].agent = a
      <4>1. employer'[a] = employer[a]
        BY <1>8, <3>4
      <4> QED BY <1>7, <2>3, <2>5, <3>4, <4>1
    <3> QED BY <3>3, <3>4
  <2>8. notice'[c] # 1 /\ job' = job
    BY <1>1, <1>6
  <2>9. /\ n.status \in {"none", "active", "terminated"} /\ n.obligation = "none"
        /\ employment'[c].status = "active" <=> n.status = "active"
    BY <2>2, <2>4, <2>5
  <2>10. job'[c] # "filled" => employment'[c].status = "none"
    BY <2>2, <2>5, <2>6, <2>8
  <2> QED BY <2>7, <2>8, <2>9, <2>10 DEF n
<1>16. RoundInv'
  <2>1. "investment" \in ContractTypes /\ "investment" # "employment"
    BY DEF ContractTypes
  <2> SUFFICES ASSUME NEW c \in Companies
               PROVE  LET n == contract'[c]["investment"]
                          k == contract[c]["investment"]
                      IN  /\ n.status \in {"none", "signed", "active", "terminated"} /\ n.obligation = "none"
                          /\ n.status # "none" <=> k.status # "none"
    BY <1>5 DEF RoundInv, RoundRows
  <2> DEFINE k == contract[c]["investment"]
             n == contract'[c]["investment"]
  <2>2. k.status \in {"none", "signed", "active", "terminated"} /\ k.obligation = "none"
    BY DEF RoundInv, RoundRows
  <2>3. /\ n.obligation = k.obligation
        /\ n.status = IF k.status \in {"signed", "active"} THEN "active" ELSE k.status
    BY <1>9, <2>1, <2>2
  <2> HIDE DEF k, n
  <2>4. /\ n.status \in {"none", "signed", "active", "terminated"} /\ n.obligation = "none"
        /\ n.status # "none" <=> k.status # "none"
    BY <2>2, <2>3
  <2> QED BY <2>4 DEF k, n
<1>17. IssuedInv'
  BY <1>4, <1>5 DEF IssuedInv
<1>18. FailureIsFinal'
  <2> SUFFICES ASSUME NEW c \in Companies, company[c].status = "closed"
               PROVE  /\ employment'[c].status # "active"
                      /\ \A t \in ContractTypes : contract'[c][t].status \notin {"draft", "signed", "active"}
                      /\ job[c] # "open" /\ notice'[c] = none
                      /\ ~offering[c] /\ stock[c] = 0 /\ arrears[c] = 0 /\ cash[c] = 0
                      /\ \A a \in Agents : employer'[a] # c
    BY <1>1, <1>4 DEF FailureIsFinal
  <2>1. /\ employment[c].status # "active" /\ notice[c] = none
        /\ \A t \in ContractTypes : contract[c][t].status \notin {"draft", "signed", "active"}
        /\ job[c] # "open"
        /\ ~offering[c] /\ stock[c] = 0 /\ arrears[c] = 0 /\ cash[c] = 0
        /\ \A a \in Agents : employer[a] # c
    BY DEF FailureIsFinal
  <2>2. company[c].stage = "active" /\ c # Nobody
    BY TownFacts DEF StageInv, Nobody
  <2>3. ASSUME NEW t \in ContractTypes
        PROVE  contract'[c][t].status \notin {"draft", "signed", "active"}
    <3>1. contract[c][t].obligation \notin {"pending", "fired"}
      <4>1. contract[c]["incorporation"].obligation \notin {"pending", "fired"}
        BY <2>2 DEF FilingInv
      <4>2. contract[c]["employment"].obligation = "none"
        BY DEF WorkInv, WorkRows
      <4>3. contract[c]["investment"].obligation = "none"
        BY DEF RoundInv, RoundRows
      <4> QED BY <4>1, <4>2, <4>3 DEF ContractTypes
    <3>2. contract'[c][t].status = contract[c][t].status
      BY <1>9, <2>1, <3>1
    <3> QED BY <2>1, <3>2
  <2>4. c \notin terminationsDue
    BY <1>6, <2>1 DEF none
  <2> QED BY <1>6, <1>7, <1>8, <2>1, <2>2, <2>3, <2>4
<1>19. CounselInv'
  <2>1. Filed' = Filed
    BY <1>4 DEF Filed
  <2> QED BY <1>1, <2>1 DEF CounselInv
<1> QED BY <1>1, <1>5, <1>11, <1>12, <1>13, <1>14, <1>15, <1>16, <1>17, <1>18, <1>19,
           DeployedKept, MoneyKept, WaterfallKept

-----------------------------------------------------------------------------
(* Formation: a stage of every company, one fee and one capital each.       *)

LEMMA StagesInOrder ==
  /\ ToSet(Stages) = {"agreement_drafted", "fee_paid", "registered", "account_opened",
                      "capitalized", "active"}
  /\ Stages[1] = "agreement_drafted" /\ Stages[2] = "fee_paid" /\ Stages[3] = "registered"
  /\ Stages[4] = "account_opened" /\ Stages[5] = "capitalized" /\ Stages[6] = "active"
BY DEF Stages, ToSet

LEMMA NextStage ==
  ASSUME NEW c \in Companies, company[c].stage \in {"none"} \cup ToSet(Stages)
  PROVE  nextStage(c) = CASE company[c].stage = "agreement_drafted" ->
                               IF c \in payingFee THEN "fee_paid" ELSE "agreement_drafted"
                          [] company[c].stage = "fee_paid" -> "registered"
                          [] company[c].stage = "registered" -> "account_opened"
                          [] company[c].stage = "account_opened" -> "capitalized"
                          [] company[c].stage = "capitalized" -> "active"
                          [] OTHER -> company[c].stage
<1> DEFINE s == company[c].stage
           i == CHOOSE j \in 1 .. 5 : Stages[j] = s
<1>1. nextStage(c) = IF s \in {"none", "active"} \/ (s = "agreement_drafted" /\ c \notin payingFee)
                     THEN s ELSE Stages[i + 1]
  BY DEF nextStage
<1>2. ASSUME NEW k \in 1 .. 5, Stages[k] = s
      PROVE  Stages[i + 1] = Stages[k + 1]
  <2>1. i \in 1 .. 5 /\ Stages[i] = s
    BY <1>2
  <2>2. i = k
    <3> HIDE DEF i
    <3> QED BY <1>2, <2>1, StagesInOrder
  <2> QED BY <2>2
<1> HIDE DEF i
<1>3. 1 \in 1 .. 5 /\ 2 \in 1 .. 5 /\ 3 \in 1 .. 5 /\ 4 \in 1 .. 5 /\ 5 \in 1 .. 5
  OBVIOUS
<1>4. /\ s = "agreement_drafted" => Stages[i + 1] = Stages[1 + 1]
      /\ s = "fee_paid" => Stages[i + 1] = Stages[2 + 1]
      /\ s = "registered" => Stages[i + 1] = Stages[3 + 1]
      /\ s = "account_opened" => Stages[i + 1] = Stages[4 + 1]
      /\ s = "capitalized" => Stages[i + 1] = Stages[5 + 1]
  BY <1>2, <1>3, StagesInOrder
<1>5. 1 + 1 = 2 /\ 2 + 1 = 3 /\ 3 + 1 = 4 /\ 4 + 1 = 5 /\ 5 + 1 = 6
  OBVIOUS
<1>6. s \in {"none", "agreement_drafted", "fee_paid", "registered", "account_opened",
             "capitalized", "active"}
  BY StagesInOrder
<1> HIDE DEF s
<1>7. nextStage(c) = CASE s = "agreement_drafted" ->
                               IF c \in payingFee THEN "fee_paid" ELSE "agreement_drafted"
                          [] s = "fee_paid" -> "registered"
                          [] s = "registered" -> "account_opened"
                          [] s = "account_opened" -> "capitalized"
                          [] s = "capitalized" -> "active"
                          [] OTHER -> s
  BY <1>1, <1>4, <1>5, <1>6, StagesInOrder
<1> QED BY <1>7 DEF s

(* What formation makes of a company's row. *)
Formed(c) ==
  LET s == company[c].stage
      t == company[c].status
      g == company'[c].stage
      u == company'[c].status
  IN  /\ s = "none" => IF c \in readyToForm THEN g = "agreement_drafted" /\ u = "forming"
                       ELSE g = "none" /\ u = t
      /\ s = "agreement_drafted" => g = "fee_paid" /\ u = t
      /\ s = "fee_paid" => g = "registered" /\ u = "registered"
      /\ s = "registered" => g = "account_opened" /\ u = t
      /\ s = "account_opened" => g = "capitalized" /\ u = t
      /\ s = "capitalized" => g = "active" /\ u = "active"
      /\ s = "active" => g = "active" /\ u = t

LEMMA FormedRows ==
  ASSUME IInv, formCompanies, NEW c \in Companies
  PROVE  company'[c] \in CompanyRows /\ Formed(c)
<1> DEFINE s == company[c].stage
           t == company[c].status
           n == updateCompanyStage(c)
<1>1. company[c] \in CompanyRows
  BY DEF IInv, RowTypes, TypeOK
<1>2. /\ s \in {"none"} \cup ToSet(Stages) /\ company[c].age \in 0 .. MaxAge
      /\ t \in {"none", "forming", "registered", "active", "closed"}
  BY <1>1 DEF CompanyRows
<1>3. /\ t = "none" <=> s = "none"
      /\ t = "forming" => s \in {"agreement_drafted", "fee_paid"}
      /\ t = "registered" => s \in {"registered", "account_opened", "capitalized"}
      /\ t \in {"active", "closed"} => s = "active"
  BY DEF IInv, StageInv
<1>4. s = "agreement_drafted" => c \in payingFee
  <2>1. phase \notin Signing
    BY NoPhaseFails DEF formCompanies, Signing
  <2> QED BY <2>1 DEF IInv, FilingInv, payingFee
<1>5. company'[c] = IF c \in readyToForm THEN requestCompanyFormation ELSE n
  BY DEF formCompanies, processAchievedFounderGoals
<1>6. c \in readyToForm => t = "none"
  BY DEF readyToForm, hasFounded
<1>7. /\ requestCompanyFormation \in CompanyRows
      /\ requestCompanyFormation.stage = "agreement_drafted"
      /\ requestCompanyFormation.status = "forming"
  BY StagesInOrder, TownNumbers DEF requestCompanyFormation, CompanyRows
<1> DEFINE m == nextStage(c)
<1>8. m = CASE s = "agreement_drafted" -> "fee_paid"
            [] s = "fee_paid" -> "registered"
            [] s = "registered" -> "account_opened"
            [] s = "account_opened" -> "capitalized"
            [] s = "capitalized" -> "active"
            [] OTHER -> s
  BY <1>2, <1>4, NextStage
<1>9. n = [status |-> CASE m = "registered" /\ t = "forming" -> "registered"
                        [] m = "active" /\ t = "registered"  -> "active"
                        [] OTHER -> t,
           stage |-> m, age |-> company[c].age]
  <2>1. company[c] = [status |-> t, stage |-> s, age |-> company[c].age]
    BY <1>1 DEF CompanyRows
  <2> DEFINE r == company[c]
             q == CASE m = "registered" /\ r.status = "forming" -> "registered"
                    [] m = "active" /\ r.status = "registered"  -> "active"
                    [] OTHER -> r.status
             v == [r EXCEPT !.stage = m]
  <2>2. v = [status |-> t, stage |-> m, age |-> r.age] /\ v.status = t
    <3> HIDE DEF m
    <3> QED BY <2>1
  <2>3. n = [v EXCEPT !.status = CASE m = "registered" /\ @ = "forming" -> "registered"
                                   [] m = "active" /\ @ = "registered"  -> "active"
                                   [] OTHER -> @]
    BY DEF updateCompanyStage
  <2>4. n = [v EXCEPT !.status = q]
    <3> HIDE DEF n, v, m
    <3> QED BY <2>2, <2>3
  <2>5. n = [status |-> q, stage |-> m, age |-> r.age]
    <3> HIDE DEF n, v, m, q
    <3> QED BY <2>2, <2>4
  <2> QED BY <2>5
<1> HIDE DEF m, n, s, t
<1>10. n \in CompanyRows /\ n.stage = m
       /\ n.status = CASE m = "registered" /\ t = "forming" -> "registered"
                       [] m = "active" /\ t = "registered"  -> "active"
                       [] OTHER -> t
  <2>1. m \in {"none"} \cup ToSet(Stages)
    BY <1>2, <1>8, StagesInOrder
  <2> QED BY <1>2, <1>9, <2>1 DEF CompanyRows
<1>11. company'[c] \in CompanyRows
  BY <1>5, <1>7, <1>10
<1>12. Formed(c)
  <2>1. s \in {"none", "agreement_drafted", "fee_paid", "registered", "account_opened",
             "capitalized", "active"}
    BY <1>2, StagesInOrder
  <2>2. CASE s = "none"
    BY <1>3, <1>5, <1>7, <1>8, <1>10, <2>2 DEF Formed, s, t
  <2>3. CASE s # "none"
    <3>1. company'[c] = n
      BY <1>3, <1>5, <1>6, <2>3
    <3>2. company'[c].stage = m /\ company'[c].status = n.status
      BY <1>10, <3>1
    <3>3. /\ s = "agreement_drafted" => n.status = t
          /\ s = "fee_paid" => n.status = "registered"
          /\ s = "registered" => n.status = t
          /\ s = "account_opened" => n.status = t
          /\ s = "capitalized" => n.status = "active"
          /\ s = "active" => n.status = t
      BY <1>2, <1>3, <1>8, <1>10
    <3> QED BY <1>8, <2>3, <3>2, <3>3 DEF Formed, s, t
  <2> QED BY <2>2, <2>3
<1> QED BY <1>11, <1>12

(* Every contract but the incorporation stays; that one is drawn or completed. *)
LEMMA FormedContracts ==
  ASSUME IInv, formCompanies
  PROVE  /\ contract' \in [Companies -> [ContractTypes -> LegalContracts]]
         /\ \A c \in Companies : \A t \in ContractTypes :
              t # "incorporation" => contract'[c][t] = contract[c][t]
         /\ \A c \in Companies :
              LET k == contract[c]["incorporation"]
                  n == contract'[c]["incorporation"]
              IN  /\ c \in readyToForm => n = incorporationSigned
                  /\ c \in payingFee => n.status = k.status /\ n.obligation = "completed"
                  /\ c \notin readyToForm \cup payingFee => n = k
<1>1. contract \in [Companies -> [ContractTypes -> LegalContracts]] /\ "incorporation" \in ContractTypes
  BY DEF IInv, RowTypes, TypeOK, ContractTypes
<1> DEFINE paid(c) == IF c \in payingFee
                      THEN [contract[c] EXCEPT !["incorporation"] = completeLegalObligation(@)]
                      ELSE contract[c]
<1>2. contract' = [c \in Companies |->
        IF c \in readyToForm THEN [paid(c) EXCEPT !["incorporation"] = incorporationSigned] ELSE paid(c)]
  BY DEF formCompanies, processAchievedFounderGoals
<1>3. ASSUME NEW c \in Companies, c \in payingFee
      PROVE  LET k == contract[c]["incorporation"]
                 n == completeLegalObligation(k)
             IN  n \in LegalContracts /\ n.status = k.status /\ n.obligation = "completed"
  <2> DEFINE k == contract[c]["incorporation"]
  <2>1. k \in LegalContracts
    BY <1>1
  <2>2. k.obligation = "fired"
    <3>1. phase \notin Signing
      BY NoPhaseFails DEF formCompanies, Signing
    <3> QED BY <1>3, <3>1 DEF IInv, FilingInv, payingFee
  <2> HIDE DEF k
  <2>3. completeLegalObligation(k) = [k EXCEPT !.obligation = "completed"]
    BY <2>2 DEF completeLegalObligation
  <2>4. "completed" \in ObligationStatuses
    BY DEF ObligationStatuses
  <2>5. /\ completeLegalObligation(k) \in LegalContracts
        /\ completeLegalObligation(k).status = k.status
        /\ completeLegalObligation(k).obligation = "completed"
    BY <2>1, <2>3, <2>4 DEF LegalContracts
  <2> QED BY <2>5 DEF k
<1>4. ASSUME NEW c \in Companies
      PROVE  /\ paid(c) \in [ContractTypes -> LegalContracts]
             /\ \A t \in ContractTypes : t # "incorporation" => paid(c)[t] = contract[c][t]
             /\ c \in payingFee => paid(c)["incorporation"] = completeLegalObligation(contract[c]["incorporation"])
             /\ c \notin payingFee => paid(c) = contract[c]
  BY <1>1, <1>3
<1> HIDE DEF paid
<1>5. incorporationSigned \in LegalContracts
  BY ContractsDrawn
<1>6. ASSUME NEW c \in Companies
      PROVE  /\ contract'[c] \in [ContractTypes -> LegalContracts]
             /\ \A t \in ContractTypes : t # "incorporation" => contract'[c][t] = paid(c)[t]
             /\ c \in readyToForm => contract'[c]["incorporation"] = incorporationSigned
             /\ c \notin readyToForm => contract'[c] = paid(c)
  BY <1>1, <1>2, <1>4, <1>5
<1>7. contract' \in [Companies -> [ContractTypes -> LegalContracts]]
  BY <1>2, <1>6
<1>8. ASSUME NEW c \in Companies
      PROVE  ~(c \in readyToForm /\ c \in payingFee)
  BY DEF IInv, StageInv, readyToForm, hasFounded, payingFee
<1> QED BY <1>3, <1>4, <1>6, <1>7, <1>8

(* The companies are finite, and so is every set of them. *)
LEMMA FiniteTown ==
  ASSUME NEW S \in SUBSET Companies
  PROVE  IsFiniteSet(S) /\ Cardinality(S) \in Nat
<1>0. 1 \in Int /\ Population \in Int
  BY TownFacts
<1>1. IsFiniteSet(1 .. Population)
  BY <1>0, FS_Interval
<1>2. S \subseteq 1 .. Population
  BY TownFacts
<1>3. IsFiniteSet(S)
  BY <1>1, <1>2, FS_Subset
<1> QED BY <1>3, FS_CardinalityType

(* What formation moves, it takes from the founders. *)
LEMMA FormedMoney ==
  ASSUME IInv, formCompanies
  PROVE  /\ wallet' \in [Agents -> Nat] /\ cash' \in [Companies -> Nat] /\ others' \in Balances
         /\ \A c \in Companies :
              cash'[c] = IF company[c].stage = "account_opened" THEN cash[c] + Capital ELSE cash[c]
         /\ MoneyInv'
         /\ others'.counsel = others.counsel + Fee * Cardinality(payingFee)
<1>1. /\ wallet \in [Agents -> Nat] /\ cash \in [Companies -> Nat] /\ others \in Balances
  BY DEF IInv, RowTypes, TypeOK
<1>2. /\ Fee \in Nat /\ Capital \in Nat /\ Companies \subseteq Agents /\ Founders = Companies
  BY TownNumbers, TownFacts DEF Companies
<1>3. /\ payingFee \subseteq Companies /\ depositing \subseteq Companies
      /\ payingFee \cap depositing = {}
      /\ \A c \in payingFee : wallet[c] >= Fee
      /\ \A c \in depositing : wallet[c] >= Capital
  BY DEF formCompanies, canFund, payingFee, depositing
<1> DEFINE fee == [a \in Agents |-> IF a \in payingFee THEN Fee ELSE 0]
           put == [a \in Agents |-> IF a \in depositing THEN Capital ELSE 0]
           got == [c \in Companies |-> IF c \in depositing THEN Capital ELSE 0]
           mid == [a \in Agents |-> wallet[a] - fee[a]]
<1>4. /\ \A a \in Agents : wallet'[a] = wallet[a] - fee[a] - put[a]
      /\ wallet' = [a \in Agents |-> wallet[a] - fee[a] - put[a]]
  BY <1>2, <1>3 DEF formCompanies, processCompanyFormations
<1>5. /\ \A c \in Companies : cash'[c] = cash[c] + got[c]
      /\ cash' = [c \in Companies |-> cash[c] + got[c]]
  BY <1>1, <1>2, <1>3 DEF formCompanies, processCompanyFormations, paidIn
<1>6. /\ wallet' \in [Agents -> Nat]
  <2>1. ASSUME NEW a \in Agents
        PROVE  wallet[a] - fee[a] - put[a] \in Nat
    <3>1. wallet[a] \in Nat
      BY <1>1
    <3>2. CASE a \in payingFee
      BY <1>2, <1>3, <3>1, <3>2
    <3>3. CASE a \notin payingFee
      BY <1>2, <1>3, <3>1, <3>3
    <3> QED BY <3>2, <3>3
  <2> HIDE DEF fee, put
  <2> QED BY <1>4, <2>1
<1>7. cash' \in [Companies -> Nat]
  BY <1>1, <1>2, <1>5
<1>8. \A c \in Companies :
        cash'[c] = IF company[c].stage = "account_opened" THEN cash[c] + Capital ELSE cash[c]
  BY <1>1, <1>2, <1>5 DEF depositing
<1>9. /\ fee \in [Agents -> Int] /\ put \in [Agents -> Int] /\ mid \in [Agents -> Int]
      /\ got \in [Companies -> Int] /\ wallet \in [Agents -> Int] /\ wallet' \in [Agents -> Int]
      /\ cash \in [Companies -> Int] /\ cash' \in [Companies -> Int]
      /\ \A a \in Agents : wallet[a] = mid[a] + fee[a]
      /\ \A a \in Agents : mid[a] = wallet'[a] + put[a]
  <2>1. \A a \in Agents : wallet[a] \in Int /\ fee[a] \in Int /\ put[a] \in Int
    BY <1>1, <1>2
  <2>2. got \in [Companies -> Int] /\ wallet \in [Agents -> Int] /\ wallet' \in [Agents -> Int]
        /\ cash \in [Companies -> Int] /\ cash' \in [Companies -> Int]
    BY <1>1, <1>2, <1>6, <1>7
  <2>3. fee \in [Agents -> Int] /\ put \in [Agents -> Int]
    BY <2>1
  <2> HIDE DEF fee, put
  <2> QED BY <1>4, <2>1, <2>2, <2>3
<1>10. Agents \in SUBSET Agents /\ Companies \in SUBSET Agents
  BY <1>2
<1> DEFINE p == Cardinality(payingFee)
           d == Cardinality(depositing)
<1>11. p \in Nat /\ d \in Nat
  BY <1>3, FiniteTown
<1>12. /\ Marks(fee, Agents, payingFee, Fee) /\ Marks(put, Agents, depositing, Capital)
       /\ Marks(got, Companies, depositing, Capital)
  BY DEF Marks
<1>13. payingFee \in SUBSET Agents /\ depositing \in SUBSET Agents /\ depositing \in SUBSET Companies
  BY <1>2, <1>3
<1> HIDE DEF fee, put, got, mid
<1>14. sumOver(fee) = Fee * p /\ sumOver(put) = Capital * d /\ sumOver(got) = Capital * d
  BY <1>2, <1>9, <1>10, <1>12, <1>13, OverCount
<1>15. sumOver(wallet) = sumOver(mid) + sumOver(fee)
  BY <1>9, <1>10, OverAdds
<1>16. sumOver(mid) = sumOver(wallet') + sumOver(put)
  BY <1>9, <1>10, OverAdds
<1>17. sumOver(cash') = sumOver(cash) + sumOver(got)
  BY <1>5, <1>9, <1>10, OverAdds
<1>18. /\ sumOver(wallet') \in Int /\ sumOver(cash) \in Int
  BY <1>9, <1>10, OverInt
<1> DEFINE moved == Fee * p
           paid == Capital * d
<1>19. moved \in Nat /\ paid \in Int
  BY <1>2, <1>11
<1>20. /\ others' \in Balances
       /\ others'.counsel = others.counsel + moved /\ others'.utility = others.utility
       /\ others'.fund = others.fund /\ others'.row = others.row
  <2>1. others' = [others EXCEPT !.counsel = @ + moved]
    BY DEF formCompanies, processCompanyFormations
  <2> HIDE DEF moved
  <2> QED BY <1>1, <1>19, <2>1 DEF Balances
<1>21. MoneyInv'
  <2>1. /\ others.counsel \in Int /\ others.utility \in Int /\ others.fund \in Int /\ others.row \in Int
    BY <1>1 DEF Balances
  <2>2. /\ totalMoney = sumOver(wallet) + sumOver(cash) + others.counsel + others.utility
                        + others.fund + others.row
        /\ totalMoney' = sumOver(wallet') + sumOver(cash') + others'.counsel + others'.utility
                        + others'.fund + others'.row
    BY DEF totalMoney
  <2>3. totalMoney = 0
    BY DEF IInv, MoneyInv
  <2>4. /\ sumOver(wallet) = sumOver(wallet') + paid + moved
        /\ sumOver(cash') = sumOver(cash) + paid
    BY <1>14, <1>15, <1>16, <1>17
  <2> HIDE DEF moved, paid
  <2>5. totalMoney' = 0
    BY <1>18, <1>19, <1>20, <2>1, <2>2, <2>3, <2>4
  <2> QED BY <2>5 DEF MoneyInv
<1> QED BY <1>6, <1>7, <1>8, <1>20, <1>21

LEMMA FormStep ==
  ASSUME IInv, formCompanies, issueFounding, roundKept
  PROVE  IInv'
<1> USE DEF IInv, roundKept
<1>1. phase = "formation" /\ phase' = "launch"
      /\ UNCHANGED <<turn, goal, employer, job, employment, notice, offering, stock, arrears,
                     streak, windDown_>>
  BY DEF formCompanies, after
<1>2. \A c \in Companies : company'[c] \in CompanyRows /\ Formed(c)
  BY FormedRows
<1>3. company' \in [Companies -> CompanyRows]
  <2>1. company' = [c \in Companies |-> company'[c]]
    BY DEF formCompanies, processAchievedFounderGoals
  <2> QED BY <1>2, <2>1
<1>4. /\ contract' \in [Companies -> [ContractTypes -> LegalContracts]]
      /\ \A c \in Companies : \A t \in ContractTypes :
           t # "incorporation" => contract'[c][t] = contract[c][t]
      /\ \A c \in Companies :
           LET k == contract[c]["incorporation"]
               n == contract'[c]["incorporation"]
           IN  /\ c \in readyToForm => n = incorporationSigned
               /\ c \in payingFee => n.status = k.status /\ n.obligation = "completed"
               /\ c \notin readyToForm \cup payingFee => n = k
  BY FormedContracts
<1>5. /\ wallet' \in [Agents -> Nat] /\ cash' \in [Companies -> Nat] /\ others' \in Balances
      /\ \A c \in Companies :
           cash'[c] = IF company[c].stage = "account_opened" THEN cash[c] + Capital ELSE cash[c]
      /\ MoneyInv'
      /\ others'.counsel = others.counsel + Fee * Cardinality(payingFee)
  BY FormedMoney
<1>6. \A c \in Companies :
        LET s == company[c].stage
            t == company[c].status
        IN  /\ s \in {"none", "agreement_drafted", "fee_paid", "registered", "account_opened",
                      "capitalized", "active"}
            /\ t \in {"none", "forming", "registered", "active", "closed"}
            /\ t = "none" <=> s = "none"
            /\ t = "forming" => s \in {"agreement_drafted", "fee_paid"}
            /\ t = "registered" => s \in {"registered", "account_opened", "capitalized"}
            /\ t \in {"active", "closed"} => s = "active"
  <2>1. \A c \in Companies : company[c] \in CompanyRows
    BY DEF RowTypes, TypeOK
  <2> QED BY <2>1, StagesInOrder DEF CompanyRows, StageInv
<1>7. StageInv'
  BY <1>2, <1>6 DEF StageInv, Formed
<1>8. ASSUME NEW c \in Companies
      PROVE  /\ company'[c].status \in Unstarted => company[c].status \in Unstarted
             /\ company'[c].status \notin Unstarted /\ company[c].status \in Unstarted =>
                  company'[c].status = "active" /\ company[c].stage = "capitalized"
             /\ company[c].status = "closed" <=> company'[c].status = "closed"
             /\ company[c].status = "active" => company'[c].status = "active"
  BY <1>2, <1>6 DEF Formed, Unstarted
<1> DEFINE Table == [total |-> FoundingShares, founder |-> FoundingShares, fund |-> 0]
           starts(c) == company'[c].status = "active" /\ company[c].status # "active"
<1>9. shares' = [c \in Companies |-> IF starts(c) THEN Table ELSE shares[c]]
  BY DEF issueFounding
<1>10. FoundingShares \in Nat \ {0} /\ Capital \in Nat
  BY TownNumbers
<1>11. Table \in CapTables /\ Table.total = FoundingShares /\ Table.founder = FoundingShares /\ Table.fund = 0
  BY <1>10 DEF CapTables
<1> HIDE DEF Table
<1>12. /\ shares' \in [Companies -> CapTables]
       /\ \A c \in Companies : shares'[c] = IF starts(c) THEN Table ELSE shares[c]
  <2>1. shares \in [Companies -> CapTables]
    BY DEF RowTypes, TypeOK
  <2> HIDE DEF starts
  <2> QED BY <1>9, <1>11, <2>1
<1>13. RowTypes'
  BY <1>1, <1>3, <1>4, <1>5, <1>12 DEF RowTypes, TypeOK, after
<1>14. \A c \in Companies : starts(c) => company[c].status \in Unstarted
  BY <1>2, <1>6 DEF Formed, Unstarted
<1>15. IdleInv'
  <2> SUFFICES ASSUME NEW c \in Companies, company'[c].status \in Unstarted
               PROVE  shares'[c] = NoShares
                      /\ cash'[c] = IF company'[c].stage = "capitalized" THEN Capital ELSE 0
    BY <1>1, <1>8 DEF IdleInv
  <2>1. /\ shares[c] = NoShares
        /\ cash[c] = IF company[c].stage = "capitalized" THEN Capital ELSE 0
    BY <1>8 DEF IdleInv
  <2>2. shares'[c] = NoShares
    BY <1>12, <2>1 DEF Unstarted
  <2>3. /\ company'[c].stage = "capitalized" <=> company[c].stage = "account_opened"
        /\ company[c].stage # "capitalized"
    BY <1>2, <1>6 DEF Formed, Unstarted
  <2> QED BY <1>5, <1>10, <2>1, <2>2, <2>3
<1>16. FilingInv'
  <2>1. phase \notin Signing /\ phase' \in Signing
    BY <1>1, NoPhaseFails DEF Signing
  <2> SUFFICES ASSUME NEW c \in Companies
               PROVE  LET g == company'[c].stage
                          k == contract'[c]["incorporation"]
                      IN  /\ g = "none" => k.status = "none" /\ k.obligation = "none"
                          /\ g = "agreement_drafted" => k.status = "signed" /\ k.obligation = "pending"
                          /\ g \notin {"none", "agreement_drafted"} =>
                               k.status \in {"active", "terminated"} /\ k.obligation \in {"completed", "waived"}
    BY <2>1 DEF FilingInv
  <2> DEFINE k == contract[c]["incorporation"]
             n == contract'[c]["incorporation"]
             s == company[c].stage
             g == company'[c].stage
  <2>2. /\ c \in readyToForm => n = incorporationSigned
        /\ c \in payingFee => n.status = k.status /\ n.obligation = "completed"
        /\ c \notin readyToForm \cup payingFee => n = k
    BY <1>4
  <2>3. /\ s = "none" => k.status = "none" /\ k.obligation = "none"
        /\ s = "agreement_drafted" => k.status = "active" /\ c \in payingFee
        /\ s \notin {"none", "agreement_drafted"} =>
             k.status \in {"active", "terminated"} /\ k.obligation \in {"completed", "waived"}
    BY <2>1 DEF FilingInv, payingFee
  <2>4. c \in payingFee => s = "agreement_drafted"
    BY DEF payingFee
  <2>5. c \in readyToForm => s = "none"
    BY <1>6 DEF readyToForm, hasFounded
  <2>6. /\ s = "none" => IF c \in readyToForm THEN g = "agreement_drafted" ELSE g = "none"
        /\ s # "none" => g \notin {"none", "agreement_drafted"}
    BY <1>2, <1>6 DEF Formed
  <2> HIDE DEF k, n, s, g
  <2>7. /\ g = "none" => n.status = "none" /\ n.obligation = "none"
        /\ g = "agreement_drafted" => n.status = "signed" /\ n.obligation = "pending"
        /\ g \notin {"none", "agreement_drafted"} =>
             n.status \in {"active", "terminated"} /\ n.obligation \in {"completed", "waived"}
    BY <2>2, <2>3, <2>4, <2>5, <2>6, ContractsDrawn
  <2> QED BY <2>7 DEF n, g
<1>17. WorkInv'
  <2>1. \A c \in Companies : contract'[c]["employment"] = contract[c]["employment"]
    BY <1>4 DEF ContractTypes
  <2> QED BY <1>1, <2>1 DEF WorkInv, WorkRows
<1>18. FailureIsFinal'
  <2> SUFFICES ASSUME NEW c \in Companies, company[c].status = "closed"
               PROVE  cash'[c] = cash[c] /\ contract'[c] = contract[c]
    BY <1>1, <1>8 DEF FailureIsFinal
  <2>1. c \notin readyToForm /\ c \notin payingFee /\ company[c].stage = "active"
    BY <1>6 DEF readyToForm, hasFounded, payingFee
  <2>2. contract'[c]["incorporation"] = contract[c]["incorporation"]
    BY <1>4, <2>1
  <2>3. \A t \in ContractTypes : contract'[c][t] = contract[c][t]
    BY <1>4, <2>2
  <2>4. contract[c] \in [ContractTypes -> LegalContracts] /\ contract'[c] \in [ContractTypes -> LegalContracts]
    BY <1>4 DEF RowTypes, TypeOK
  <2>5. contract'[c] = contract[c]
    BY <2>3, <2>4
  <2> QED BY <1>5, <2>1, <2>5
<1>19. RoundInv'
  <2> SUFFICES ASSUME NEW c \in Companies
               PROVE  LET k == contract'[c]["investment"]
                          closed == proposal[c].status = "completed"
                      IN  /\ k.status \in {"none", "signed", "active", "terminated"} /\ k.obligation = "none"
                          /\ proposal[c].status = "negotiating" => proposal[c].left >= 1
                          /\ proposal[c].status \in {"agreed", "completed"} =>
                               talk[c].status = "agreement" /\ termsWithinConversationBounds(talk[c])
                          /\ shares'[c].total = shares'[c].founder + shares'[c].fund
                          /\ closed <=> k.status # "none"
                          /\ closed <=> shares'[c].fund > 0
                          /\ proposal[c].status = "expired" => talk[c].status = "expired"
                          /\ closed => talk[c].amount * FoundingShares = talk[c].preMoney * shares'[c].fund
    BY DEF RoundInv, RoundRows
  <2>1. contract'[c]["investment"] = contract[c]["investment"]
    BY <1>4 DEF ContractTypes
  <2>2. CASE starts(c)
    <3>1. proposal[c].status = "none"
      BY <1>14, <2>2 DEF IdleInv
    <3>2. shares'[c] = Table
      BY <1>12, <2>2
    <3>3. shares'[c].total = shares'[c].founder + shares'[c].fund /\ ~(shares'[c].fund > 0)
      BY <1>10, <1>11, <3>2
    <3> QED BY <2>1, <3>1, <3>3 DEF RoundInv, RoundRows
  <2>3. CASE ~starts(c)
    <3>1. shares'[c] = shares[c]
      BY <1>12, <2>3
    <3> QED BY <2>1, <3>1 DEF RoundInv, RoundRows
  <2> QED BY <2>2, <2>3
<1>20. IssuedInv'
  <2> SUFFICES ASSUME NEW c \in Companies, company'[c].status \notin Unstarted
               PROVE  shares'[c].founder = FoundingShares
    BY DEF IssuedInv
  <2>1. CASE starts(c)
    BY <1>11, <1>12, <2>1
  <2>2. CASE ~starts(c)
    <3>1. company[c].status \notin Unstarted
      BY <1>8, <2>2 DEF Unstarted
    <3> QED BY <1>12, <2>2, <3>1 DEF IssuedInv
  <2> QED BY <2>1, <2>2
<1>21. CounselInv'
  <2>1. /\ Filed' = Filed \cup payingFee /\ Filed \cap payingFee = {}
        /\ Filed \subseteq Companies /\ payingFee \subseteq Companies
    <3>1. \A c \in Companies : company[c].stage = "agreement_drafted" => c \in payingFee
      <4>1. phase \notin Signing
        BY <1>1, NoPhaseFails DEF Signing
      <4> QED BY <4>1 DEF FilingInv, payingFee
    <3>2. \A c \in payingFee : c \in Companies /\ company[c].stage = "agreement_drafted"
      BY DEF payingFee
    <3>3. \A c \in Companies : company'[c].stage \notin {"none", "agreement_drafted"}
                                 <=> company[c].stage # "none"
      BY <1>2, <1>6 DEF Formed
    <3> QED BY <3>1, <3>2, <3>3 DEF Filed
  <2> DEFINE old == Filed
             new == Filed'
  <2>2. /\ IsFiniteSet(old) /\ Cardinality(old) \in Nat
        /\ IsFiniteSet(payingFee) /\ Cardinality(payingFee) \in Nat
    BY <2>1, FiniteTown
  <2>3. Cardinality(old \cup payingFee) = Cardinality(old) + Cardinality(payingFee)
    <3>1. Cardinality(old \cup payingFee)
            = Cardinality(old) + Cardinality(payingFee) - Cardinality(old \cap payingFee)
      BY <2>2, FS_Union
    <3>2. Cardinality(old \cap payingFee) = 0
      BY <2>1, FS_EmptySet
    <3> QED BY <2>2, <3>1, <3>2
  <2>4. others.counsel = Fee * Cardinality(old) /\ Fee \in Nat
    BY TownNumbers DEF CounselInv
  <2> DEFINE x == Cardinality(old)
             y == Cardinality(payingFee)
  <2>5. others'.counsel = Fee * x + Fee * y
    BY <1>5, <2>4
  <2>6. Fee * x + Fee * y = Fee * (x + y)
    <3> HIDE DEF x, y, old
    <3> QED BY <2>2, <2>4 DEF x, y
  <2>7. others'.counsel = Fee * Cardinality(Filed')
    BY <2>1, <2>3, <2>5, <2>6
  <2> QED BY <2>7 DEF CounselInv
<1> QED BY <1>1, <1>5, <1>7, <1>13, <1>15, <1>16, <1>17, <1>18, <1>19, <1>20, <1>21,
           DeployedKept, WaterfallKept

-----------------------------------------------------------------------------
(* Liquidation: everything of the company is ended, paid out or cleared.    *)

LEMMA ClaimsAdd ==
  ASSUME NEW s \in Seq(ClaimRows), NEW x \in ClaimRows
  PROVE  claimTotal(Append(s, x)) = claimTotal(s) + x.amount /\ claimTotal(s) \in Nat
<1> DEFINE n == Len(s)
           b == Append(s, x)
           f == amounts(s)
           g == amounts(b)
<1>1. /\ n \in Nat /\ DOMAIN s = 1 .. n /\ b \in Seq(ClaimRows) /\ Len(b) = n + 1
      /\ DOMAIN b = 1 .. n + 1 /\ b[n + 1] = x /\ \A i \in 1 .. n : b[i] = s[i]
  OBVIOUS
<1>2. /\ \A i \in 1 .. n : s[i] \in ClaimRows /\ s[i].amount \in Nat
      /\ \A i \in 1 .. n + 1 : b[i] \in ClaimRows /\ b[i].amount \in Nat
  <2>1. \A y \in ClaimRows : y.amount \in Nat
    BY DEF ClaimRows
  <2>2. \A i \in 1 .. n : s[i] \in ClaimRows
    OBVIOUS
  <2>3. ASSUME NEW i \in 1 .. n + 1
        PROVE  b[i] \in ClaimRows
    <3>1. i = n + 1 \/ i \in 1 .. n
      BY <1>1
    <3> HIDE DEF n, b
    <3> QED BY <1>1, <2>2, <3>1
  <2> QED BY <2>1, <2>2, <2>3
<1> HIDE DEF n, b
<1>3. /\ f \in [1 .. n -> Nat] /\ g \in [1 .. n + 1 -> Nat]
      /\ \A i \in 1 .. n : f[i] = g[i]
      /\ g[n + 1] = x.amount
  BY <1>1, <1>2 DEF amounts
<1> HIDE DEF f, g
<1>4. /\ f \in Summand(n) /\ g \in Summand(n + 1) /\ n + 1 \in Nat
      /\ \A m \in 0 .. n : sumTo(f, m) \in Nat
  <2>1. f \in Summand(n) /\ \A m \in 0 .. n : sumTo(f, m) \in Nat
    BY <1>1, <1>3, SumNatural
  <2> DEFINE o == n + 1
  <2>2. o \in Nat /\ g \in [1 .. o -> Nat]
    BY <1>1, <1>3
  <2> HIDE DEF o
  <2>3. g \in Summand(o)
    BY <2>2, SumNatural
  <2> QED BY <2>1, <2>2, <2>3 DEF o
<1>5. sumTo(f, n) = sumTo(g, n)
  <2> DEFINE o == n + 1
  <2>1. o \in Nat /\ n <= o /\ n <= n /\ g \in Summand(o)
    BY <1>1, <1>4
  <2> HIDE DEF o
  <2> QED BY <1>1, <1>3, <1>4, <2>1, SumAgree
<1>6. sumTo(g, n + 1) = sumTo(g, n) + g[n + 1]
  BY <1>1, <1>4, SumSteps
<1>7. claimTotal(b) = sumTo(g, n + 1) /\ claimTotal(s) = sumTo(f, n) /\ sumTo(f, n) \in Nat
  <2>1. n \in 0 .. n
    BY <1>1
  <2> QED BY <1>1, <1>4, <2>1 DEF claimTotal, f, g, n
<1> QED BY <1>3, <1>5, <1>6, <1>7 DEF b

(* What the creditors are due, with the founder's residual, takes the pool. *)
LEMMA PoolClaimed ==
  ASSUME IInv, NEW c \in Companies, NEW pool \in Nat
  PROVE  claimsWithResidual(c, pool) \in Seq(ClaimRows)
         /\ claimTotal(claimsWithResidual(c, pool)) >= pool
         /\ claimTotal(claimsWithResidual(c, pool)) \in Nat
<1> DEFINE wage == [kind |-> "employee_wage", creditor |-> employment[c].agent, amount |-> Wage]
           trade == [kind |-> "trade", creditor |-> Nobody, amount |-> arrears[c]]
           claims == automaticClaims(c)
           left == pool - claimTotal(claims)
           rest == [kind |-> "equity_residual", creditor |-> c, amount |-> left]
<1>1. /\ employment[c].agent \in Agents \cup {Nobody} /\ arrears[c] \in Nat /\ Wage \in Nat \ {0}
      /\ c \in Agents
  <2>1. employment[c] \in EmploymentRows /\ arrears[c] \in {0, Bill}
    BY DEF IInv, RowTypes, TypeOK
  <2> QED BY <2>1, TownNumbers, TownFacts DEF EmploymentRows
<1>2. wage \in ClaimRows /\ (arrears[c] > 0 => trade \in ClaimRows)
  <2>1. wage \in ClaimRows
    BY <1>1 DEF ClaimRows
  <2>2. ASSUME arrears[c] > 0
        PROVE  trade \in ClaimRows
    <3>1. arrears[c] \in Nat \ {0}
      BY <1>1, <2>2
    <3> QED BY <3>1 DEF ClaimRows
  <2> QED BY <2>1, <2>2
<1>3. claims = (IF employment[c].status = "active" THEN <<wage>> ELSE <<>>)
               \o (IF arrears[c] > 0 THEN <<trade>> ELSE <<>>)
  BY DEF automaticClaims
<1> HIDE DEF wage, trade
<1>4. claims \in Seq(ClaimRows)
  <2>1. (IF employment[c].status = "active" THEN <<wage>> ELSE <<>>) \in Seq(ClaimRows)
    BY <1>2
  <2>2. (IF arrears[c] > 0 THEN <<trade>> ELSE <<>>) \in Seq(ClaimRows)
    BY <1>2
  <2> HIDE DEF claims
  <2> QED BY <1>3, <2>1, <2>2
<1>5. claimsWithResidual(c, pool) = IF left > 0 THEN Append(claims, rest) ELSE claims
  BY DEF claimsWithResidual
<1> HIDE DEF claims
<1>6. claimTotal(claims) \in Nat
  <2>1. [kind |-> "employee_wage", creditor |-> Nobody, amount |-> 1] \in ClaimRows
    BY DEF ClaimRows
  <2> QED BY <1>4, <2>1, ClaimsAdd
<1>7. CASE left > 0
  <2>1. rest \in ClaimRows /\ rest.amount = left
    BY <1>1, <1>6, <1>7 DEF ClaimRows
  <2> HIDE DEF rest
  <2>2. claimTotal(Append(claims, rest)) = claimTotal(claims) + left
    BY <1>4, <2>1, ClaimsAdd
  <2>3. Append(claims, rest) \in Seq(ClaimRows)
    BY <1>4, <2>1
  <2> QED BY <1>5, <1>6, <1>7, <2>2, <2>3
<1>8. CASE ~(left > 0)
  BY <1>4, <1>5, <1>6, <1>8
<1> QED BY <1>7, <1>8

(* What teardown makes of one contract. *)
TornDown(k) ==
  IF k.status = "active" THEN transitionLegalContract(waiveObligation(k), "terminated") ELSE k

LEMMA Teardown ==
  ASSUME NEW k \in LegalContracts
  PROVE  /\ TornDown(k) \in LegalContracts
         /\ TornDown(k).status = IF k.status = "active" THEN "terminated" ELSE k.status
         /\ k.obligation \notin {"pending", "fired"} => TornDown(k).obligation = k.obligation
<1>1. /\ waiveObligation(k) \in LegalContracts /\ waiveObligation(k).status = k.status
      /\ k.obligation \notin {"pending", "fired"} => waiveObligation(k).obligation = k.obligation
  BY DEF waiveObligation, LegalContracts, ObligationStatuses
<1>2. "terminated" \in ContractStatuses
  BY DEF ContractStatuses
<1> DEFINE w == waiveObligation(k)
           n == transitionLegalContract(w, "terminated")
<1> HIDE DEF w
<1>3. /\ n \in LegalContracts /\ n.obligation = w.obligation
      /\ w.status = "active" => n.status = "terminated"
  BY <1>1, <1>2, Transition, Transitions DEF w
<1> HIDE DEF n
<1> QED BY <1>1, <1>3 DEF TornDown, w, n

PaidExactly(paid, pool) ==
  /\ \A i, j \in DOMAIN paid :
       i < j /\ paid[i].recovered < paid[i].claim.amount => paid[j].recovered = 0
  /\ sumTo([i \in DOMAIN paid |-> paid[i].recovered], Len(paid)) = pool

LEMMA PaidExactlyAll ==
  WaterfallExact <=> \A c \in Companies : PaidExactly(windDown_[c].claims, windDown_[c].pool)
BY Zenon DEF WaterfallExact, PaidExactly

LEMMA PaidExactlyNext ==
  WaterfallExact' <=> \A c \in Companies : PaidExactly(windDown_'[c].claims, windDown_'[c].pool)
BY Zenon DEF WaterfallExact, PaidExactly

(* The creditors get the pool, in the order of their claims, and no more. *)
LEMMA LiquidatedMoney ==
  ASSUME IInv, windDown(turn)
  PROVE  /\ wallet' \in [Agents -> Nat] /\ cash' \in [Companies -> Nat] /\ others' \in Balances
         /\ windDown_' \in [Companies -> [pool : Nat, claims : Seq(RecoveryRows)]]
         /\ others'.counsel = others.counsel
         /\ MoneyInv' /\ WaterfallExact'
<1> DEFINE c == turn
           pool == cash[c] + salvageProceeds(c)
           due == claimsWithResidual(c, pool)
           paid == allocateCreditorWaterfall(pool, due)
           share == [a \in Agents |-> recoveredBy(paid, a)]
<1>1. /\ wallet \in [Agents -> Nat] /\ cash \in [Companies -> Nat] /\ others \in Balances
      /\ stock \in [Companies -> {0, 1}] /\ turn \in Companies
      /\ windDown_ \in [Companies -> [pool : Nat, claims : Seq(RecoveryRows)]]
  BY DEF IInv, RowTypes, TypeOK
<1>2. salvageProceeds(c) \in Nat
  <2>1. INVENTORY_SALVAGE_RATE_BP \in Nat /\ RowPrice \in Nat \ {0}
    BY TownNumbers DEF INVENTORY_SALVAGE_RATE_BP
  <2> DEFINE d == (RowPrice * INVENTORY_SALVAGE_RATE_BP) \div 10000
  <2>2. d \in Int
    BY <2>1
  <2>3. inventorySalvageUnitPrice = Max({1, d})
    BY DEF inventorySalvageUnitPrice
  <2> HIDE DEF d
  <2>4. Max({1, d}) = IF 1 >= d THEN 1 ELSE d
    BY <2>2, MaxOfTwo
  <2>5. inventorySalvageUnitPrice \in Nat
    BY <2>2, <2>3, <2>4
  <2>6. stock[c] = 0 \/ stock[c] = 1
    BY <1>1
  <2> QED BY <2>5, <2>6 DEF salvageProceeds
<1>3. pool \in Nat
  BY <1>1, <1>2
<1> HIDE DEF due, pool, c
<1>4. due \in Seq(ClaimRows) /\ claimTotal(due) >= pool /\ claimTotal(due) \in Nat
  BY <1>1, <1>3, PoolClaimed DEF due, c
<1>5. /\ paid \in Seq(RecoveryRows) /\ Len(paid) = Len(due)
      /\ \A i \in 1 .. Len(due) : paid[i].claim = due[i]
      /\ sumTo(Recovered(paid), Len(due)) = pool
      /\ \A i, j \in 1 .. Len(due) :
           i < j /\ Recovered(paid)[i] < due[i].amount => Recovered(paid)[j] = 0
  <2>1. /\ paid \in Seq(RecoveryRows) /\ Len(paid) = Len(due)
        /\ \A i \in 1 .. Len(due) : paid[i].claim = due[i]
        /\ sumTo(Recovered(paid), Len(due))
             = IF claimTotal(due) <= pool THEN claimTotal(due) ELSE pool
        /\ \A i, j \in 1 .. Len(due) :
             i < j /\ Recovered(paid)[i] < due[i].amount => Recovered(paid)[j] = 0
    BY <1>3, <1>4, Waterfall
  <2> HIDE DEF paid
  <2> QED BY <1>3, <1>4, <2>1
<1> HIDE DEF paid
<1>6. /\ \A x \in Agents \cup {Nobody} : recoveredBy(paid, x) \in Nat
      /\ sumOver(share) + recoveredBy(paid, Nobody) = pool
  BY <1>5, EveryShare
<1>7. /\ windDown_' = [windDown_ EXCEPT ![c] = [pool |-> pool, claims |-> paid]]
      /\ wallet' = [a \in Agents |-> wallet[a] + recoveredBy(paid, a)]
      /\ others' = [others EXCEPT !.utility = @ + recoveredBy(paid, Nobody),
                                  !.row = @ - salvageProceeds(c)]
      /\ cash' = [cash EXCEPT ![c] = 0]
  BY DEF windDown, paid, due, pool, c
<1>8. c \in Companies
  BY <1>1 DEF c
<1>9. wallet' \in [Agents -> Nat] /\ \A a \in Agents : wallet'[a] = wallet[a] + share[a]
  BY <1>1, <1>6, <1>7
<1>10. cash' \in [Companies -> Nat] /\ cash'[c] = 0 /\ \A x \in Companies : x # c => cash'[x] = cash[x]
  BY <1>1, <1>7, <1>8
<1> DEFINE got == recoveredBy(paid, Nobody)
<1>11. got \in Nat
  BY <1>6
<1> HIDE DEF got
<1>12. /\ others' \in Balances
       /\ others'.counsel = others.counsel /\ others'.fund = others.fund
       /\ others'.utility = others.utility + got
       /\ others'.row = others.row - salvageProceeds(c)
  <2>1. others' = [others EXCEPT !.utility = others.utility + got, !.row = others.row - salvageProceeds(c)]
    BY <1>1, <1>7 DEF got, Balances
  <2>2. others.utility \in Nat /\ others.row \in Int
    BY <1>1 DEF Balances
  <2>3. others.utility + got \in Nat /\ others.row - salvageProceeds(c) \in Int
    BY <1>2, <1>11, <2>2
  <2> QED BY <1>1, <2>1, <2>3 DEF Balances
<1>13. windDown_' \in [Companies -> [pool : Nat, claims : Seq(RecoveryRows)]]
       /\ windDown_'[c] = [pool |-> pool, claims |-> paid]
       /\ \A x \in Companies : x # c => windDown_'[x] = windDown_[x]
  BY <1>1, <1>3, <1>5, <1>7, <1>8
<1>14. share \in [Agents -> Int] /\ wallet \in [Agents -> Int] /\ wallet' \in [Agents -> Int]
       /\ cash \in [Companies -> Int] /\ cash' \in [Companies -> Int]
       /\ Agents \in SUBSET Agents /\ Companies \in SUBSET Agents
  <2>1. \A a \in Agents : recoveredBy(paid, a) \in Int
    BY <1>6
  <2>2. share \in [Agents -> Int]
    BY <2>1
  <2>3. wallet \in [Agents -> Int] /\ wallet' \in [Agents -> Int]
    BY <1>1, <1>9
  <2>4. cash \in [Companies -> Int] /\ cash' \in [Companies -> Int]
    BY <1>1, <1>10
  <2> QED BY <2>2, <2>3, <2>4, TownFacts
<1> HIDE DEF share
<1>15. sumOver(wallet') = sumOver(wallet) + sumOver(share)
  BY <1>9, <1>14, OverAdds
<1>16. sumOver(cash') = sumOver(cash) - cash[c] + cash'[c]
  BY <1>8, <1>10, <1>14, OverOne
<1>17. sumOver(wallet) \in Int /\ sumOver(share) \in Int /\ sumOver(cash) \in Int /\ cash[c] \in Int
  BY <1>8, <1>14, OverInt
<1>18. MoneyInv'
  <2>1. /\ others.counsel \in Int /\ others.utility \in Int /\ others.fund \in Int /\ others.row \in Int
    BY <1>1 DEF Balances
  <2>2. /\ totalMoney = sumOver(wallet) + sumOver(cash) + others.counsel + others.utility
                        + others.fund + others.row
        /\ totalMoney' = sumOver(wallet') + sumOver(cash') + others'.counsel + others'.utility
                        + others'.fund + others'.row
    BY DEF totalMoney
  <2>3. totalMoney = 0
    BY DEF IInv, MoneyInv
  <2>4. sumOver(share) + got = cash[c] + salvageProceeds(c)
    BY <1>6 DEF got, pool
  <2>5. totalMoney' = 0
    BY <1>2, <1>10, <1>11, <1>12, <1>15, <1>16, <1>17, <2>1, <2>2, <2>3, <2>4
  <2> QED BY <2>5 DEF MoneyInv
<1>19. WaterfallExact'
  <2> SUFFICES ASSUME NEW x \in Companies
               PROVE  PaidExactly(windDown_'[x].claims, windDown_'[x].pool)
    BY PaidExactlyNext
  <2>1. CASE x # c
    <3>1. windDown_'[x] = windDown_[x]
      BY <1>13, <2>1
    <3> QED BY <3>1 DEF IInv, WaterfallExact, PaidExactly
  <2>2. CASE x = c
    <3>1. windDown_'[x].claims = paid /\ windDown_'[x].pool = pool
      BY <1>13, <2>2
    <3>2. DOMAIN paid = 1 .. Len(due)
      BY <1>5
    <3>3. \A i \in 1 .. Len(due) : Recovered(paid)[i] = paid[i].recovered
      BY <3>2 DEF Recovered
    <3>4. \A i, j \in 1 .. Len(due) :
            i < j /\ paid[i].recovered < paid[i].claim.amount => paid[j].recovered = 0
      BY <1>5, <3>3
    <3>5. sumTo([i \in DOMAIN paid |-> paid[i].recovered], Len(paid)) = pool
      BY <1>5 DEF Recovered
    <3> QED BY <3>1, <3>2, <3>4, <3>5 DEF PaidExactly
  <2> QED BY <2>1, <2>2
<1> QED BY <1>9, <1>10, <1>12, <1>13, <1>18, <1>19

LEMMA LiquidateStep ==
  ASSUME IInv, liquidate, issueFounding, roundKept
  PROVE  IInv'
<1> USE DEF IInv, roundKept
<1> DEFINE c == turn
<1>1. /\ phase = "metrics" /\ company[c].status = "active" /\ postconditionsHold(c) /\ windDown(c)
      /\ streak' = [streak EXCEPT ![c] = 0] /\ nextCompany /\ goal' = goal
  BY DEF liquidate
<1>2. /\ company \in [Companies -> CompanyRows] /\ employment \in [Companies -> EmploymentRows]
      /\ contract \in [Companies -> [ContractTypes -> LegalContracts]]
      /\ notice \in [Companies -> none .. noticeDays] /\ job \in [Companies -> JobStatuses]
      /\ employer \in [Agents -> Companies \cup {Nobody}]
      /\ shares \in [Companies -> CapTables]
      /\ streak \in [Companies -> 0 .. ShortfallDays - 1]
      /\ offering \in [Companies -> BOOLEAN] /\ stock \in [Companies -> {0, 1}]
      /\ arrears \in [Companies -> {0, Bill}] /\ turn \in Companies
  BY DEF RowTypes, TypeOK
<1>3. c \in Companies /\ c # Nobody
  BY <1>2, TownFacts DEF Nobody
<1>4. turn' \in Companies /\ phase' \in {"metrics", "obligations"}
  BY <1>1, NextCompany
<1>5. /\ wallet' \in [Agents -> Nat] /\ cash' \in [Companies -> Nat] /\ others' \in Balances
      /\ windDown_' \in [Companies -> [pool : Nat, claims : Seq(RecoveryRows)]]
      /\ others'.counsel = others.counsel
      /\ MoneyInv' /\ WaterfallExact'
  BY <1>1, LiquidatedMoney
<1> HIDE DEF c
<1>6. /\ cash'[c] = 0 /\ \A x \in Companies : x # c => cash'[x] = cash[x]
      /\ offering' \in [Companies -> BOOLEAN] /\ ~offering'[c]
      /\ \A x \in Companies : x # c => offering'[x] = offering[x]
      /\ stock' \in [Companies -> {0, 1}] /\ stock'[c] = 0
      /\ \A x \in Companies : x # c => stock'[x] = stock[x]
      /\ arrears' \in [Companies -> {0, Bill}] /\ arrears'[c] = 0
      /\ \A x \in Companies : x # c => arrears'[x] = arrears[x]
  <2>1. /\ cash' = [cash EXCEPT ![c] = 0] /\ offering' = [offering EXCEPT ![c] = FALSE]
        /\ stock' = [stock EXCEPT ![c] = 0] /\ arrears' = [arrears EXCEPT ![c] = 0]
    BY <1>1 DEF windDown
  <2>2. cash \in [Companies -> Nat]
    BY DEF RowTypes, TypeOK
  <2>3. cash'[c] = 0 /\ \A x \in Companies : x # c => cash'[x] = cash[x]
    BY <1>3, <2>1, <2>2
  <2>4. stock' \in [Companies -> {0, 1}] /\ stock'[c] = 0
        /\ \A x \in Companies : x # c => stock'[x] = stock[x]
    BY <1>2, <1>3, <2>1
  <2>5. arrears' \in [Companies -> {0, Bill}] /\ arrears'[c] = 0
        /\ \A x \in Companies : x # c => arrears'[x] = arrears[x]
    BY <1>2, <1>3, <2>1
  <2>6. offering' \in [Companies -> BOOLEAN] /\ ~offering'[c]
        /\ \A x \in Companies : x # c => offering'[x] = offering[x]
    BY <1>2, <1>3, <2>1
  <2> QED BY <2>3, <2>4, <2>5, <2>6
<1>7. /\ company' \in [Companies -> CompanyRows]
      /\ company'[c].status = "closed" /\ company'[c].stage = company[c].stage
      /\ \A x \in Companies : x # c => company'[x] = company[x]
  <2> DEFINE r == [status |-> "closed", stage |-> company[c].stage, age |-> 0]
  <2>1. company' = [company EXCEPT ![c].status = "closed", ![c].age = 0]
    BY <1>1 DEF windDown
  <2>2. company[c] \in CompanyRows
    BY <1>2, <1>3
  <2>3. company' = [company EXCEPT ![c] = r]
    <3> DEFINE q == [company[c] EXCEPT !.status = "closed"]
               v == [company EXCEPT ![c] = q]
    <3>1. q = [status |-> "closed", stage |-> company[c].stage, age |-> company[c].age]
      BY <2>2 DEF CompanyRows
    <3>2. v \in [Companies -> {v[x] : x \in Companies}] /\ v[c] = q
      BY <1>2, <1>3
    <3>3. company' = [v EXCEPT ![c] = [v[c] EXCEPT !.age = 0]]
      BY <1>2, <1>3, <2>1
    <3>4. [q EXCEPT !.age = 0] = r
      <4> HIDE DEF q
      <4> QED BY <3>1
    <3>5. company' = [v EXCEPT ![c] = r]
      BY <3>2, <3>3, <3>4
    <3> HIDE DEF r, q
    <3> QED BY <1>2, <1>3, <3>5
  <2>4. r \in CompanyRows /\ r.status = "closed" /\ r.stage = company[c].stage
    BY <2>2, TownNumbers DEF CompanyRows
  <2> HIDE DEF r
  <2> QED BY <1>2, <1>3, <2>3, <2>4
<1>8. /\ employment' \in [Companies -> EmploymentRows]
      /\ employment'[c].agent = employment[c].agent
      /\ employment'[c].status = IF employment[c].status = "active" THEN "ended" ELSE employment[c].status
      /\ \A x \in Companies : x # c => employment'[x] = employment[x]
  <2> DEFINE r == [status |-> IF employment[c].status = "active" THEN "ended" ELSE employment[c].status,
                   agent |-> employment[c].agent]
  <2>1. employment' = [employment EXCEPT ![c].status = IF @ = "active" THEN "ended" ELSE @]
    BY <1>1 DEF windDown, terminateCompanyRelationshipsForFailure
  <2>2. employment[c] \in EmploymentRows
    BY <1>2, <1>3
  <2>3. employment' = [employment EXCEPT ![c] = r]
    <3>1. employment' = [employment EXCEPT ![c].status =
                           IF employment[c].status = "active" THEN "ended" ELSE employment[c].status]
      BY <1>2, <1>3, <2>1
    <3> DEFINE v == IF employment[c].status = "active" THEN "ended" ELSE employment[c].status
    <3>2. employment' = [employment EXCEPT ![c] = [employment[c] EXCEPT !.status = v]]
      BY <1>2, <1>3, <3>1
    <3>3. [employment[c] EXCEPT !.status = v] = r
      <4> HIDE DEF v
      <4> QED BY <2>2 DEF EmploymentRows, v
    <3> HIDE DEF r, v
    <3> QED BY <3>2, <3>3
  <2>4. r \in EmploymentRows
        /\ r.status = (IF employment[c].status = "active" THEN "ended" ELSE employment[c].status)
        /\ r.agent = employment[c].agent
    BY <2>2 DEF EmploymentRows
  <2> HIDE DEF r
  <2> QED BY <1>2, <1>3, <2>3, <2>4
<1>9. /\ employer' \in [Agents -> Companies \cup {Nobody}]
      /\ \A a \in Agents : employer'[a] =
           IF employment[c].status = "active" /\ employment[c].agent = a THEN Nobody ELSE employer[a]
  BY <1>1, <1>2 DEF windDown, terminateCompanyRelationshipsForFailure
<1>10. /\ notice' \in [Companies -> none .. noticeDays] /\ notice'[c] = none
       /\ \A x \in Companies : x # c => notice'[x] = notice[x]
  <2>1. notice' = [notice EXCEPT ![c] = none]
    BY <1>1 DEF windDown, terminateCompanyRelationshipsForFailure, abandonTerminations
  <2>2. none \in none .. noticeDays
    BY DEF none, noticeDays
  <2> QED BY <1>2, <1>3, <2>1, <2>2
<1>11. /\ job' \in [Companies -> JobStatuses] /\ job'[c] # "open"
       /\ job'[c] = IF job[c] = "open" THEN "withdrawn" ELSE job[c]
       /\ \A x \in Companies : x # c => job'[x] = job[x]
  <2>1. job' = [job EXCEPT ![c] = IF @ = "open" THEN "withdrawn" ELSE @]
    BY <1>1 DEF windDown, terminateCompanyRelationshipsForFailure
  <2> QED BY <1>2, <1>3, <2>1 DEF JobStatuses
<1>12. /\ contract' \in [Companies -> [ContractTypes -> LegalContracts]]
       /\ \A x \in Companies : x # c => contract'[x] = contract[x]
       /\ \A t \in ContractTypes : contract'[c][t] = TornDown(contract[c][t])
  <2>1. contract' = [contract EXCEPT ![c] = terminateContracts(c)]
    BY <1>1 DEF windDown, terminateCompanyRelationshipsForFailure
  <2>2. terminateContracts(c) = [t \in ContractTypes |-> TornDown(contract[c][t])]
    BY DEF terminateContracts, TornDown
  <2>3. \A t \in ContractTypes : TornDown(contract[c][t]) \in LegalContracts
    BY <1>2, <1>3, Teardown
  <2>4. terminateContracts(c) \in [ContractTypes -> LegalContracts]
    BY <2>2, <2>3
  <2> QED BY <1>2, <1>3, <2>1, <2>2, <2>4
<1>13. \A t \in ContractTypes :
         LET k == contract[c][t]
             n == contract'[c][t]
         IN  /\ n.status = IF k.status = "active" THEN "terminated" ELSE k.status
             /\ k.obligation \notin {"pending", "fired"} => n.obligation = k.obligation
             /\ n.status \notin {"signed", "active"}
  <2>1. \A t \in ContractTypes : contract[c][t] \in LegalContracts
    BY <1>2, <1>3
  <2>2. \A t \in ContractTypes : TornDown(contract[c][t]).status \notin {"signed", "active"}
    BY <1>1 DEF postconditionsHold, terminateContracts, TornDown
  <2> QED BY <1>12, <2>1, <2>2, Teardown
<1>14. shares' = shares
  <2>1. \A x \in Companies : ~(company'[x].status = "active" /\ company[x].status # "active")
    BY <1>7
  <2> QED BY <1>2, <2>1 DEF issueFounding
<1>15. streak' \in [Companies -> 0 .. ShortfallDays - 1]
  <2>1. 0 \in 0 .. ShortfallDays - 1
    BY TownNumbers
  <2> QED BY <1>1, <1>2, <2>1
<1>16. RowTypes'
  <2>1. \A x \in Companies : ToSet(windDown_'[x].claims) \subseteq RecoveryRows
    BY <1>5 DEF ToSet
  <2> QED BY <1>1, <1>4, <1>5, <1>6, <1>7, <1>8, <1>9, <1>10, <1>11, <1>12, <1>14, <1>15, <2>1
          DEF RowTypes, TypeOK, after
<1>17. company[c].stage = "active" /\ company[c].status \notin Unstarted
  BY <1>1, <1>3 DEF StageInv, Unstarted
<1>18. StageInv'
  <2> SUFFICES ASSUME NEW x \in Companies
               PROVE  LET s == company'[x].status
                          g == company'[x].stage
                      IN  /\ s = "none" <=> g = "none"
                          /\ s = "forming" => g \in {"agreement_drafted", "fee_paid"}
                          /\ s = "registered" => g \in {"registered", "account_opened", "capitalized"}
                          /\ s \in {"active", "closed"} => g = "active"
    BY DEF StageInv
  <2>1. CASE x = c
    BY <1>7, <1>17, <2>1
  <2>2. CASE x # c
    BY <1>7, <2>2 DEF StageInv
  <2> QED BY <2>1, <2>2
<1>19. IdleInv'
  <2> SUFFICES ASSUME NEW x \in Companies, company'[x].status \in Unstarted
               PROVE  /\ employment'[x].status = "none" /\ job'[x] = "none" /\ notice'[x] = none
                      /\ ~offering'[x] /\ stock'[x] = 0 /\ arrears'[x] = 0
                      /\ proposal'[x].status = "none" /\ shares'[x] = NoShares
                      /\ cash'[x] = IF company'[x].stage = "capitalized" THEN Capital ELSE 0
    BY DEF IdleInv
  <2>1. x # c
    BY <1>7 DEF Unstarted
  <2> QED BY <1>6, <1>7, <1>8, <1>10, <1>11, <1>14, <2>1 DEF IdleInv
<1>20. FilingInv'
  <2>1. "incorporation" \in ContractTypes
    BY DEF ContractTypes
  <2>2. (phase \in Signing => phase' \in Signing) /\ phase \notin Filing
    BY <1>1, <1>4, NoPhaseFails DEF Signing, Filing
  <2> SUFFICES ASSUME NEW x \in Companies
               PROVE  LET g == company'[x].stage
                          k == contract'[x]["incorporation"]
                      IN  /\ g = "none" => k.status = "none" /\ k.obligation = "none"
                          /\ g = "agreement_drafted" =>
                               \/ k.status = "signed" /\ k.obligation = "pending" /\ phase' \in Signing
                               \/ k.status = "active" /\ k.obligation = "fired" /\ phase' \in Filing
                          /\ g \notin {"none", "agreement_drafted"} =>
                               k.status \in {"active", "terminated"} /\ k.obligation \in {"completed", "waived"}
    BY DEF FilingInv
  <2>3. CASE x = c
    <3> DEFINE k == contract[c]["incorporation"]
               n == contract'[c]["incorporation"]
    <3>1. k.status \in {"active", "terminated"} /\ k.obligation \in {"completed", "waived"}
      BY <1>3, <1>17 DEF FilingInv
    <3>2. /\ n.status = IF k.status = "active" THEN "terminated" ELSE k.status
          /\ k.obligation \notin {"pending", "fired"} => n.obligation = k.obligation
      BY <1>13, <2>1
    <3>3. company'[x].stage = "active"
      BY <1>7, <1>17, <2>3
    <3> HIDE DEF k, n
    <3>4. n.status \in {"active", "terminated"} /\ n.obligation \in {"completed", "waived"}
      BY <3>1, <3>2
    <3> QED BY <2>3, <3>3, <3>4 DEF n
  <2>4. CASE x # c
    <3>1. company'[x] = company[x] /\ contract'[x] = contract[x]
      BY <1>7, <1>12, <2>4
    <3> QED BY <2>2, <3>1 DEF FilingInv
  <2> QED BY <2>3, <2>4
<1>21. WorkInv'
  <2>1. "employment" \in ContractTypes
    BY DEF ContractTypes
  <2>2. \A d \in Companies : \A a \in Agents :
          employer[a] = d <=> employment[d].status = "active" /\ employment[d].agent = a
    BY DEF WorkInv, WorkRows
  <2> SUFFICES ASSUME NEW x \in Companies
               PROVE  LET n == contract'[x]["employment"]
                      IN  /\ n.status \in {"none", "active", "terminated"} /\ n.obligation = "none"
                          /\ employment'[x].status = "active" <=> n.status = "active"
                          /\ \A a \in Agents : employer'[a] = x
                               <=> employment'[x].status = "active" /\ employment'[x].agent = a
                          /\ notice'[x] = 1 => employment'[x].status = "active"
                          /\ job'[x] # "filled" => employment'[x].status = "none"
    BY DEF WorkInv, WorkRows
  <2>3. CASE x = c
    <3> DEFINE k == contract[c]["employment"]
               n == contract'[c]["employment"]
    <3>1. /\ k.status \in {"none", "active", "terminated"} /\ k.obligation = "none"
          /\ job[c] # "filled" => employment[c].status = "none"
      BY <1>3 DEF WorkInv, WorkRows
    <3>2. /\ n.status = IF k.status = "active" THEN "terminated" ELSE k.status
          /\ k.obligation \notin {"pending", "fired"} => n.obligation = k.obligation
      BY <1>13, <2>1
    <3> HIDE DEF k, n
    <3>3. n.status \in {"none", "terminated"} /\ n.obligation = "none"
      BY <3>1, <3>2
    <3>4. employment'[c].status # "active"
      BY <1>8
    <3>5. \A a \in Agents : employer'[a] # c
      BY <1>3, <1>9, <2>2
    <3>6. notice'[c] # 1
      BY <1>10 DEF none
    <3>7. job'[c] # "filled" => employment'[c].status = "none"
      BY <1>8, <1>11, <3>1
    <3> QED BY <2>3, <3>3, <3>4, <3>5, <3>6, <3>7 DEF n
  <2>4. CASE x # c
    <3>1. contract'[x] = contract[x] /\ employment'[x] = employment[x] /\ notice'[x] = notice[x]
          /\ job'[x] = job[x] /\ x # Nobody
      BY <1>8, <1>10, <1>11, <1>12, <2>4, TownFacts DEF Nobody
    <3>2. ASSUME NEW a \in Agents
          PROVE  employer'[a] = x <=> employer[a] = x
      BY <1>3, <1>9, <2>2, <2>4, <3>1
    <3> QED BY <3>1, <3>2 DEF WorkInv, WorkRows
  <2> QED BY <2>3, <2>4
<1>22. RoundInv'
  <2>1. "investment" \in ContractTypes
    BY DEF ContractTypes
  <2> SUFFICES ASSUME NEW x \in Companies
               PROVE  LET n == contract'[x]["investment"]
                          k == contract[x]["investment"]
                      IN  /\ n.status \in {"none", "signed", "active", "terminated"} /\ n.obligation = "none"
                          /\ n.status # "none" <=> k.status # "none"
    BY <1>14 DEF RoundInv, RoundRows
  <2>2. CASE x = c
    <3> DEFINE k == contract[c]["investment"]
               n == contract'[c]["investment"]
    <3>1. k.status \in {"none", "signed", "active", "terminated"} /\ k.obligation = "none"
      BY <1>3 DEF RoundInv, RoundRows
    <3>2. /\ n.status = IF k.status = "active" THEN "terminated" ELSE k.status
          /\ k.obligation \notin {"pending", "fired"} => n.obligation = k.obligation
      BY <1>13, <2>1
    <3> HIDE DEF k, n
    <3>3. /\ n.status \in {"none", "signed", "active", "terminated"} /\ n.obligation = "none"
          /\ n.status # "none" <=> k.status # "none"
      BY <3>1, <3>2
    <3> QED BY <2>2, <3>3 DEF k, n
  <2>3. CASE x # c
    <3>1. contract'[x] = contract[x]
      BY <1>12, <2>3
    <3> QED BY <3>1 DEF RoundInv, RoundRows
  <2> QED BY <2>2, <2>3
<1>23. IssuedInv'
  <2>1. shares[c].founder = FoundingShares
    BY <1>3, <1>17 DEF IssuedInv
  <2> SUFFICES ASSUME NEW x \in Companies, company'[x].status \notin Unstarted
               PROVE  shares[x].founder = FoundingShares
    BY <1>14 DEF IssuedInv
  <2>2. CASE x = c
    BY <2>1, <2>2
  <2>3. CASE x # c
    BY <1>7, <2>3 DEF IssuedInv
  <2> QED BY <2>2, <2>3
<1>24. FailureIsFinal'
  <2> SUFFICES ASSUME NEW x \in Companies, company'[x].status = "closed"
               PROVE  /\ employment'[x].status # "active"
                      /\ \A t \in ContractTypes : contract'[x][t].status \notin {"draft", "signed", "active"}
                      /\ job'[x] # "open" /\ notice'[x] = none
                      /\ ~offering'[x] /\ stock'[x] = 0 /\ arrears'[x] = 0 /\ cash'[x] = 0
                      /\ \A a \in Agents : employer'[a] # x
    BY DEF FailureIsFinal
  <2>1. employment'[x].status # "active" => \A a \in Agents : employer'[a] # x
    BY <1>21 DEF WorkInv, WorkRows
  <2>2. CASE x = c
    <3>1. \A t \in ContractTypes : contract'[c][t].status # "draft"
      <4>1. contract[c]["incorporation"].status # "draft"
        BY <1>3, <1>17 DEF FilingInv
      <4>2. contract[c]["employment"].status # "draft"
        BY <1>3 DEF WorkInv, WorkRows
      <4>3. contract[c]["investment"].status # "draft"
        BY <1>3 DEF RoundInv, RoundRows
      <4>4. \A t \in ContractTypes : contract[c][t].status # "draft"
        BY <4>1, <4>2, <4>3 DEF ContractTypes
      <4> QED BY <1>13, <4>4
    <3>2. \A t \in ContractTypes : contract'[c][t].status \notin {"draft", "signed", "active"}
      BY <1>13, <3>1
    <3>3. employment'[c].status # "active"
      BY <1>8
    <3> QED BY <1>6, <1>10, <1>11, <2>1, <2>2, <3>2, <3>3
  <2>3. CASE x # c
    <3>1. company[x].status = "closed"
      BY <1>7, <2>3
    <3>2. /\ employment[x].status # "active"
          /\ \A t \in ContractTypes : contract[x][t].status \notin {"draft", "signed", "active"}
          /\ job[x] # "open" /\ notice[x] = none
          /\ ~offering[x] /\ stock[x] = 0 /\ arrears[x] = 0 /\ cash[x] = 0
      BY <3>1 DEF FailureIsFinal
    <3>3. contract'[x] = contract[x] /\ employment'[x] = employment[x] /\ notice'[x] = notice[x]
          /\ job'[x] = job[x]
      BY <1>8, <1>10, <1>11, <1>12, <2>3
    <3> QED BY <1>6, <2>1, <2>3, <3>2, <3>3
  <2> QED BY <2>2, <2>3
<1>25. CounselInv'
  <2>1. \A x \in Companies : company'[x].stage = company[x].stage
    BY <1>7
  <2>2. Filed' = Filed
    BY <2>1 DEF Filed
  <2> QED BY <1>5, <2>2 DEF CounselInv
<1> QED BY <1>5, <1>14, <1>16, <1>18, <1>19, <1>20, <1>21, <1>22, <1>23, <1>24, <1>25, DeployedKept

-----------------------------------------------------------------------------
(* Launches: company after company hires, and what it hires agrees.         *)

LaunchRows ==
  [employer : [Agents -> Companies \cup {Nobody}], employment : [Companies -> EmploymentRows],
   contract : [Companies -> [ContractTypes -> LegalContracts]],
   job : [Companies -> JobStatuses], offering : [Companies -> BOOLEAN],
   queue : SUBSET eligibleCompanies]

\* The rows the launches leave alone, and the companies they leave alone.
LaunchKeeps(w) ==
  /\ \A c \in Companies : \A t \in ContractTypes :
       t # "employment" => w.contract[c][t] = contract[c][t]
  /\ \A c \in Companies : c \notin eligibleCompanies =>
       /\ w.employment[c] = employment[c] /\ w.contract[c] = contract[c]
       /\ w.job[c] = job[c] /\ w.offering[c] = offering[c]

LaunchSound(w) ==
  /\ WorkRows(w.employer, w.employment, w.contract, notice, w.job)
  /\ LaunchKeeps(w)
  /\ \A c \in w.queue : w.job[c] # "filled"

LaunchWorlds == {w \in LaunchRows : LaunchSound(w)}

\* A world with one company's launch done: its job is posted, or filled.
Posted(w, c) ==
  [employer |-> w.employer, employment |-> w.employment, contract |-> w.contract,
   job |-> [w.job EXCEPT ![c] = "open"], offering |-> w.offering, queue |-> w.queue \ {c}]
Hired(w, c, a, on) ==
  [employer |-> [w.employer EXCEPT ![a] = c],
   employment |-> [w.employment EXCEPT ![c] = [status |-> "active", agent |-> a]],
   contract |-> [w.contract EXCEPT ![c] = [w.contract[c] EXCEPT !["employment"] = employmentSigned]],
   job |-> [w.job EXCEPT ![c] = "filled"],
   offering |-> [w.offering EXCEPT ![c] = on], queue |-> w.queue \ {c}]

(* A record with some of its fields updated, written out. *)
FiveUpdated(e, m, k, j, o, q, c, a, row, s, f, on) ==
  [[employer |-> e, employment |-> m, contract |-> k, job |-> j, offering |-> o, queue |-> q]
     EXCEPT !.employer[a] = c, !.employment[c] = row, !.contract[c]["employment"] = s,
            !.job[c] = f, !.offering[c] = on]
    = [employer |-> [e EXCEPT ![a] = c], employment |-> [m EXCEPT ![c] = row],
       contract |-> [k EXCEPT ![c] = [k[c] EXCEPT !["employment"] = s]],
       job |-> [j EXCEPT ![c] = f], offering |-> [o EXCEPT ![c] = on], queue |-> q]

QueueUpdated(e, m, k, j, o, q, c) ==
  [[employer |-> e, employment |-> m, contract |-> k, job |-> j, offering |-> o, queue |-> q]
     EXCEPT !.queue = @ \ {c}]
    = [employer |-> e, employment |-> m, contract |-> k, job |-> j, offering |-> o, queue |-> q \ {c}]

LEMMA FiveUpdates ==
  ASSUME NEW e, NEW m, NEW k, NEW j, NEW o, NEW q, NEW c, NEW a, NEW row, NEW s, NEW f, NEW on
  PROVE  FiveUpdated(e, m, k, j, o, q, c, a, row, s, f, on)
<1> DEFINE Row(e1, m1, k1, j1, o1) ==
             [employer |-> e1, employment |-> m1, contract |-> k1, job |-> j1, offering |-> o1, queue |-> q]
           e2 == [e EXCEPT ![a] = c]
           m2 == [m EXCEPT ![c] = row]
           k2 == [k EXCEPT ![c] = [k[c] EXCEPT !["employment"] = s]]
           j2 == [j EXCEPT ![c] = f]
           o2 == [o EXCEPT ![c] = on]
<1>1. [Row(e, m, k, j, o) EXCEPT !.employer[a] = c] = Row(e2, m, k, j, o)
  OBVIOUS
<1>2. [Row(e2, m, k, j, o) EXCEPT !.employment[c] = row] = Row(e2, m2, k, j, o)
  <2> HIDE DEF e2
  <2> QED OBVIOUS
<1>3. [Row(e2, m2, k, j, o) EXCEPT !.contract[c]["employment"] = s] = Row(e2, m2, k2, j, o)
  <2> HIDE DEF e2, m2
  <2> QED OBVIOUS
<1>4. [Row(e2, m2, k2, j, o) EXCEPT !.job[c] = f] = Row(e2, m2, k2, j2, o)
  <2> HIDE DEF e2, m2, k2
  <2> QED OBVIOUS
<1>5. [Row(e2, m2, k2, j2, o) EXCEPT !.offering[c] = on] = Row(e2, m2, k2, j2, o2)
  <2> HIDE DEF e2, m2, k2, j2
  <2> QED OBVIOUS
<1>6. [Row(e, m, k, j, o) EXCEPT !.employer[a] = c, !.employment[c] = row,
         !.contract[c]["employment"] = s, !.job[c] = f, !.offering[c] = on]
        = [[[[[Row(e, m, k, j, o) EXCEPT !.employer[a] = c] EXCEPT !.employment[c] = row]
             EXCEPT !.contract[c]["employment"] = s] EXCEPT !.job[c] = f] EXCEPT !.offering[c] = on]
  BY Zenon
<1> DEFINE x1 == [Row(e, m, k, j, o) EXCEPT !.employer[a] = c]
           x2 == [x1 EXCEPT !.employment[c] = row]
           x3 == [x2 EXCEPT !.contract[c]["employment"] = s]
           x4 == [x3 EXCEPT !.job[c] = f]
           x5 == [x4 EXCEPT !.offering[c] = on]
<1>7. x5 = Row(e2, m2, k2, j2, o2)
  <2> HIDE DEF Row, e2, m2, k2, j2, o2
  <2>1. x1 = Row(e2, m, k, j, o)
    BY Zenon, <1>1
  <2> HIDE DEF x1
  <2>2. x2 = Row(e2, m2, k, j, o)
    BY Zenon, <1>2, <2>1
  <2> HIDE DEF x2
  <2>3. x3 = Row(e2, m2, k2, j, o)
    BY Zenon, <1>3, <2>2
  <2> HIDE DEF x3
  <2>4. x4 = Row(e2, m2, k2, j2, o)
    BY Zenon, <1>4, <2>3
  <2> HIDE DEF x4
  <2>5. x5 = Row(e2, m2, k2, j2, o2)
    BY Zenon, <1>5, <2>4
  <2> QED BY Zenon, <2>5
<1>8. [Row(e, m, k, j, o) EXCEPT !.employer[a] = c, !.employment[c] = row,
         !.contract[c]["employment"] = s, !.job[c] = f, !.offering[c] = on] = x5
  BY Zenon, <1>6
<1> QED BY Zenon, <1>7, <1>8 DEF FiveUpdated

LEMMA QueueUpdate ==
  ASSUME NEW e, NEW m, NEW k, NEW j, NEW o, NEW q, NEW c
  PROVE  QueueUpdated(e, m, k, j, o, q, c)
BY DEF QueueUpdated

LEMMA LaunchOneRows ==
  ASSUME NEW w \in LaunchRows, NEW c \in Companies
  PROVE  \/ [launchOne(w, c) EXCEPT !.queue = @ \ {c}] = Posted(w, c)
         \/ \E a \in Agents : /\ w.employer[a] = Nobody
                              /\ [launchOne(w, c) EXCEPT !.queue = @ \ {c}] = Hired(w, c, a, TRUE)
<1> DEFINE p == [employer |-> w.employer, employment |-> w.employment, contract |-> w.contract,
                 job |-> [w.job EXCEPT ![c] = "open"], offering |-> w.offering, queue |-> w.queue]
           idle == {a \in Agents : w.employer[a] = Nobody}
           hireable == launchCandidate(c, w.employer)
           a == Min(hireable)
<1>1. w = [employer |-> w.employer, employment |-> w.employment, contract |-> w.contract,
           job |-> w.job, offering |-> w.offering, queue |-> w.queue]
  BY DEF LaunchRows
<1>2. postJob(c, w) = p
  <2>1. postJob(c, w) = [w EXCEPT !.job = [w.job EXCEPT ![c] = "open"]]
    BY <1>1 DEF postJob
  <2> DEFINE j == [w.job EXCEPT ![c] = "open"]
  <2> HIDE DEF j
  <2>2. [w EXCEPT !.job = j] = [employer |-> w.employer, employment |-> w.employment,
           contract |-> w.contract, job |-> j, offering |-> w.offering, queue |-> w.queue]
    BY <1>1
  <2> QED BY <2>1, <2>2 DEF j
<1>3. hireable \subseteq idle
  BY DEF launchCandidate
<1>4. CASE hireable = {}
  <2>1. launchOne(w, c) = p
    BY <1>2, <1>4 DEF launchOne
  <2>2. [p EXCEPT !.queue = @ \ {c}] = Posted(w, c)
    <3> DEFINE j == [w.job EXCEPT ![c] = "open"]
    <3> HIDE DEF j
    <3>1. QueueUpdated(w.employer, w.employment, w.contract, j, w.offering, w.queue, c)
      BY Zenon, QueueUpdate
    <3> QED BY Zenon, <3>1 DEF QueueUpdated, Posted, j
  <2> QED BY <2>1, <2>2
<1>5. CASE hireable # {}
  <2>1. launchOne(w, c) = hireApplication(c, a, p)
    <3> HIDE DEF p, a
    <3> QED BY <1>2, <1>5 DEF launchOne, a
  <2>2. a \in hireable
    <3>1. hireable \in SUBSET Nat
      BY <1>3, TownFacts
    <3> HIDE DEF hireable
    <3> QED BY <1>5, <3>1, Smallest
  <2>3. a \in Agents /\ w.employer[a] = Nobody
    BY <1>3, <2>2
  <2> HIDE DEF a
  <2>4. [hireApplication(c, a, p) EXCEPT !.queue = @ \ {c}] = Hired(w, c, a, TRUE)
    <3> DEFINE on == TRUE
    <3>1. hireApplication(c, a, p) =
            [p EXCEPT !.employer[a] = c,
                      !.employment[c] = [status |-> "active", agent |-> a],
                      !.contract[c]["employment"] = employmentSigned,
                      !.job[c] = "filled",
                      !.offering[c] = on]
      BY DEF hireApplication
    <3> HIDE DEF on
    <3> DEFINE row == [status |-> "active", agent |-> a]
               open == [w.job EXCEPT ![c] = "open"]
               full == "filled"
               e == [w.employer EXCEPT ![a] = c]
               m == [w.employment EXCEPT ![c] = row]
               k == [w.contract EXCEPT ![c] = [w.contract[c] EXCEPT !["employment"] = employmentSigned]]
               j == [open EXCEPT ![c] = full]
               o == [w.offering EXCEPT ![c] = on]
               h == [employer |-> e, employment |-> m, contract |-> k, job |-> j, offering |-> o,
                     queue |-> w.queue]
    <3>2. [[employer |-> w.employer, employment |-> w.employment, contract |-> w.contract,
            job |-> open, offering |-> w.offering, queue |-> w.queue]
             EXCEPT !.employer[a] = c, !.employment[c] = row,
                    !.contract[c]["employment"] = employmentSigned,
                    !.job[c] = full, !.offering[c] = on] = h
      <4> HIDE DEF row, open, full
      <4>1. FiveUpdated(w.employer, w.employment, w.contract, open, w.offering, w.queue,
                        c, a, row, employmentSigned, full, on)
        BY Zenon, FiveUpdates
      <4> QED BY Zenon, <4>1 DEF FiveUpdated
    <3>3. hireApplication(c, a, p) = h
      BY Zenon, <3>1, <3>2
    <3>4. j = [w.job EXCEPT ![c] = full]
      <4>1. w.job \in [Companies -> JobStatuses]
        BY DEF LaunchRows
      <4> HIDE DEF full
      <4> QED BY <4>1
    <3>5. [h EXCEPT !.queue = @ \ {c}]
            = [employer |-> e, employment |-> m, contract |-> k, job |-> j, offering |-> o,
               queue |-> w.queue \ {c}]
      <4> HIDE DEF e, m, k, j, o
      <4>1. QueueUpdated(e, m, k, j, o, w.queue, c)
        BY Zenon, QueueUpdate
      <4> QED BY Zenon, <4>1 DEF QueueUpdated
    <3>6. Hired(w, c, a, on)
            = [employer |-> e, employment |-> m, contract |-> k, job |-> [w.job EXCEPT ![c] = full],
               offering |-> o, queue |-> w.queue \ {c}]
      BY Zenon DEF Hired
    <3> HIDE DEF e, m, k, j, o, h
    <3>7. [hireApplication(c, a, p) EXCEPT !.queue = @ \ {c}] = Hired(w, c, a, on)
      BY Zenon, <3>3, <3>4, <3>5, <3>6
    <3> QED BY Zenon, <3>7 DEF on
  <2> QED BY <2>1, <2>3, <2>4
<1> QED BY <1>4, <1>5

LEMMA PostedSound ==
  ASSUME IInv, NEW w \in LaunchWorlds, NEW c \in w.queue
  PROVE  Posted(w, c) \in LaunchWorlds
<1> DEFINE n == Posted(w, c)
<1>1. /\ w \in LaunchRows /\ WorkRows(w.employer, w.employment, w.contract, notice, w.job)
      /\ LaunchKeeps(w) /\ \A d \in w.queue : w.job[d] # "filled"
  BY DEF LaunchWorlds, LaunchSound
<1>2. c \in eligibleCompanies /\ c \in Companies /\ w.job \in [Companies -> JobStatuses]
  BY <1>1 DEF LaunchRows, eligibleCompanies
<1>3. /\ n.employer = w.employer /\ n.employment = w.employment /\ n.contract = w.contract
      /\ n.job = [w.job EXCEPT ![c] = "open"] /\ n.offering = w.offering /\ n.queue = w.queue \ {c}
  BY DEF Posted
<1>4. n \in LaunchRows
  <2> DEFINE j == [w.job EXCEPT ![c] = "open"]
  <2>1. j \in [Companies -> JobStatuses]
    BY <1>2 DEF JobStatuses
  <2> HIDE DEF j
  <2>2. [employer |-> w.employer, employment |-> w.employment, contract |-> w.contract,
         job |-> j, offering |-> w.offering, queue |-> w.queue \ {c}] \in LaunchRows
    BY <1>1, <2>1 DEF LaunchRows
  <2> QED BY <2>2 DEF Posted, j
<1> HIDE DEF n
<1>5. WorkRows(n.employer, n.employment, n.contract, notice, n.job)
  <2>1. w.job[c] # "filled" /\ \A d \in Companies : d # c => n.job[d] = w.job[d]
    BY <1>1, <1>2, <1>3
  <2> QED BY <1>1, <1>3, <2>1 DEF WorkRows
<1>6. LaunchKeeps(n)
  BY <1>1, <1>2, <1>3 DEF LaunchKeeps
<1>7. \A d \in n.queue : n.job[d] # "filled"
  BY <1>1, <1>2, <1>3
<1> QED BY <1>4, <1>5, <1>6, <1>7 DEF LaunchWorlds, LaunchSound, n

LEMMA HiredSound ==
  ASSUME IInv, NEW w \in LaunchWorlds, NEW c \in w.queue, NEW a \in Agents, w.employer[a] = Nobody
  PROVE  Hired(w, c, a, TRUE) \in LaunchWorlds
<1> DEFINE on == TRUE
           n == Hired(w, c, a, on)
           row == [status |-> "active", agent |-> a]
           legal == [w.contract[c] EXCEPT !["employment"] = employmentSigned]
<1>0. on \in BOOLEAN
  OBVIOUS
<1> HIDE DEF on
<1>1. /\ w \in LaunchRows /\ WorkRows(w.employer, w.employment, w.contract, notice, w.job)
      /\ LaunchKeeps(w) /\ \A d \in w.queue : w.job[d] # "filled"
  BY DEF LaunchWorlds, LaunchSound
<1>2. /\ c \in eligibleCompanies /\ c \in Companies /\ c # Nobody
      /\ w.job \in [Companies -> JobStatuses] /\ w.employer \in [Agents -> Companies \cup {Nobody}]
      /\ w.employment \in [Companies -> EmploymentRows]
      /\ w.contract \in [Companies -> [ContractTypes -> LegalContracts]]
      /\ w.offering \in [Companies -> BOOLEAN] /\ w.queue \in SUBSET eligibleCompanies
  <2>1. /\ w.job \in [Companies -> JobStatuses] /\ w.employer \in [Agents -> Companies \cup {Nobody}]
        /\ w.employment \in [Companies -> EmploymentRows]
        /\ w.contract \in [Companies -> [ContractTypes -> LegalContracts]]
        /\ w.offering \in [Companies -> BOOLEAN] /\ w.queue \in SUBSET eligibleCompanies
    BY <1>1 DEF LaunchRows
  <2>2. c \in eligibleCompanies /\ eligibleCompanies \subseteq Companies
    BY <2>1 DEF eligibleCompanies
  <2> QED BY <2>1, <2>2, TownFacts DEF Nobody
<1>3. /\ row \in EmploymentRows /\ row.status = "active" /\ row.agent = a
  BY DEF EmploymentRows
<1>4. /\ legal \in [ContractTypes -> LegalContracts] /\ legal["employment"] = employmentSigned
      /\ \A t \in ContractTypes : t # "employment" => legal[t] = w.contract[c][t]
  <2>1. "employment" \in ContractTypes /\ w.contract[c] \in [ContractTypes -> LegalContracts]
    BY <1>2 DEF ContractTypes
  <2> QED BY <2>1, ContractsDrawn
<1> HIDE DEF row, legal
<1>5. /\ n.employer = [w.employer EXCEPT ![a] = c] /\ n.employment = [w.employment EXCEPT ![c] = row]
      /\ n.contract = [w.contract EXCEPT ![c] = legal]
      /\ n.job = [w.job EXCEPT ![c] = "filled"] /\ n.offering = [w.offering EXCEPT ![c] = on]
      /\ n.queue = w.queue \ {c}
  BY DEF Hired, row, legal
<1>6. n \in LaunchRows
  <2> DEFINE e == [w.employer EXCEPT ![a] = c]
             m == [w.employment EXCEPT ![c] = row]
             k == [w.contract EXCEPT ![c] = legal]
             j == [w.job EXCEPT ![c] = "filled"]
             o == [w.offering EXCEPT ![c] = on]
  <2>1. e \in [Agents -> Companies \cup {Nobody}] /\ m \in [Companies -> EmploymentRows]
    BY <1>2, <1>3
  <2>2. k \in [Companies -> [ContractTypes -> LegalContracts]]
    BY <1>2, <1>4
  <2>3. j \in [Companies -> JobStatuses]
    BY <1>2 DEF JobStatuses
  <2>4. o \in [Companies -> BOOLEAN]
    BY <1>0, <1>2
  <2> HIDE DEF e, m, k, j, o
  <2>5. [employer |-> e, employment |-> m, contract |-> k, job |-> j, offering |-> o,
         queue |-> w.queue \ {c}] \in LaunchRows
    BY <1>2, <2>1, <2>2, <2>3, <2>4 DEF LaunchRows
  <2> QED BY <2>5 DEF Hired, e, m, k, j, o, row, legal
<1> HIDE DEF n
<1>7. /\ n.employer[a] = c /\ \A b \in Agents : b # a => n.employer[b] = w.employer[b]
      /\ n.employment[c] = row /\ n.contract[c] = legal /\ n.job[c] = "filled"
      /\ \A d \in Companies : d # c =>
           /\ n.employment[d] = w.employment[d] /\ n.contract[d] = w.contract[d]
           /\ n.job[d] = w.job[d] /\ n.offering[d] = w.offering[d]
  BY <1>2, <1>5
<1>8. WorkRows(n.employer, n.employment, n.contract, notice, n.job)
  <2> SUFFICES ASSUME NEW d \in Companies
               PROVE  LET k == n.contract[d]["employment"]
                      IN  /\ k.status \in {"none", "active", "terminated"} /\ k.obligation = "none"
                          /\ n.employment[d].status = "active" <=> k.status = "active"
                          /\ \A b \in Agents : n.employer[b] = d
                               <=> n.employment[d].status = "active" /\ n.employment[d].agent = b
                          /\ notice[d] = 1 => n.employment[d].status = "active"
                          /\ n.job[d] # "filled" => n.employment[d].status = "none"
    BY DEF WorkRows
  <2>1. CASE d = c
    <3>1. w.employment[c].status = "none"
      BY <1>1, <1>2 DEF WorkRows
    <3>2. \A b \in Agents : w.employer[b] # c
      BY <1>1, <1>2, <3>1 DEF WorkRows
    <3>3. \A b \in Agents : n.employer[b] = c <=> a = b
      BY <1>7, <3>2
    <3>4. n.contract[d]["employment"] = employmentSigned
      BY <1>4, <1>7, <2>1
    <3> QED BY <1>3, <1>7, <2>1, <3>3, <3>4, ContractsDrawn
  <2>2. CASE d # c
    <3>1. ASSUME NEW b \in Agents
          PROVE  n.employer[b] = d <=> w.employer[b] = d
      <4>1. d # Nobody
        BY TownFacts DEF Nobody
      <4> QED BY <1>7, <2>2, <4>1
    <3>2. /\ n.employment[d] = w.employment[d] /\ n.contract[d] = w.contract[d] /\ n.job[d] = w.job[d]
      BY <1>7, <2>2
    <3> QED BY <1>1, <3>1, <3>2 DEF WorkRows
  <2> QED BY <2>1, <2>2
<1>9. LaunchKeeps(n)
  <2>1. ASSUME NEW d \in Companies, NEW t \in ContractTypes, t # "employment"
        PROVE  n.contract[d][t] = contract[d][t]
    <3>1. n.contract[d][t] = w.contract[d][t]
      BY <1>4, <1>7, <2>1
    <3> QED BY <1>1, <2>1, <3>1 DEF LaunchKeeps
  <2>2. ASSUME NEW d \in Companies, d \notin eligibleCompanies
        PROVE  /\ n.employment[d] = employment[d] /\ n.contract[d] = contract[d]
               /\ n.job[d] = job[d] /\ n.offering[d] = offering[d]
    <3>1. d # c
      BY <1>2, <2>2
    <3> QED BY <1>1, <1>7, <2>2, <3>1 DEF LaunchKeeps
  <2> QED BY <2>1, <2>2 DEF LaunchKeeps
<1>10. \A d \in n.queue : n.job[d] # "filled"
  <2>1. \A d \in n.queue : d \in w.queue /\ d # c /\ d \in Companies
    BY <1>2, <1>5 DEF eligibleCompanies
  <2> QED BY <1>1, <1>7, <2>1
<1>11. n \in LaunchWorlds
  BY <1>6, <1>8, <1>9, <1>10 DEF LaunchWorlds, LaunchSound
<1> QED BY <1>11 DEF n, on

LEMMA LaunchNextSound ==
  ASSUME IInv, NEW w \in LaunchWorlds
  PROVE  launchNext(w) \in LaunchWorlds
<1>1. CASE w.queue = {}
  BY <1>1 DEF launchNext
<1>2. CASE w.queue # {}
  <2> DEFINE c == first(w.queue)
  <2>1. w \in LaunchRows /\ w.queue \in SUBSET Companies
    BY DEF LaunchWorlds, LaunchRows, eligibleCompanies
  <2>2. company \in [Companies -> CompanyRows]
    BY DEF IInv, RowTypes, TypeOK
  <2>3. c \in w.queue /\ c \in Companies
    BY <1>2, <2>1, <2>2, FirstOne
  <2>4. launchNext(w) = [launchOne(w, c) EXCEPT !.queue = @ \ {c}]
    BY <1>2 DEF launchNext
  <2> HIDE DEF c
  <2>5. \/ launchNext(w) = Posted(w, c)
        \/ \E a \in Agents : w.employer[a] = Nobody /\ launchNext(w) = Hired(w, c, a, TRUE)
    BY Zenon, <2>1, <2>3, <2>4, LaunchOneRows
  <2>6. Posted(w, c) \in LaunchWorlds
    BY <2>3, PostedSound
  <2>7. \A a \in Agents : w.employer[a] = Nobody => Hired(w, c, a, TRUE) \in LaunchWorlds
    BY Zenon, <2>3, HiredSound
  <2> QED BY Zenon, <2>5, <2>6, <2>7
<1> QED BY <1>1, <1>2

LEMMA LaunchStartSound ==
  ASSUME IInv
  PROVE  launchStart \in LaunchWorlds
<1> DEFINE n == launchStart
<1>1. /\ n.employer = employer /\ n.employment = employment /\ n.contract = contract
      /\ n.job = job /\ n.offering = offering /\ n.queue = eligibleCompanies
  BY DEF launchStart
<1>2. n \in LaunchRows
  BY DEF launchStart, LaunchRows, IInv, RowTypes, TypeOK
<1> HIDE DEF n
<1>3. LaunchSound(n)
  BY <1>1 DEF LaunchSound, LaunchKeeps, IInv, WorkInv, eligibleCompanies
<1> QED BY <1>2, <1>3 DEF LaunchWorlds, n

LaunchedBy(u, n) == u = [k \in 0 .. n |-> IF k = 0 THEN launchStart ELSE launchNext(u[k - 1])]

(* By induction on the companies launched, the rows they leave are sound. *)
LEMMA LaunchedSound ==
  ASSUME IInv
  PROVE  launched \in LaunchWorlds
<1> DEFINE N == Cardinality(eligibleCompanies)
           V == LaunchWorlds
           step == [k \in 1 .. N |-> [w \in V |-> launchNext(w)]]
           base == launchStart
<1>1. N \in Nat
  BY FiniteTown DEF eligibleCompanies
<1> HIDE DEF N
<1>2. \A w \in V : launchNext(w) \in V
  BY LaunchNextSound
<1>3. base \in V
  BY LaunchStartSound
<1> HIDE DEF V, base
<1>4. step \in Steps(N, V)
  BY <1>2 DEF Steps
<1>5. \A k \in 1 .. N : \A w \in V : step[k][w] = launchNext(w)
  OBVIOUS
<1> HIDE DEF step
<1>6. PICK f : Follows(f, N, V, base, step)
  BY <1>1, <1>3, <1>4, BoundedRecursion
<1>7. LaunchedBy(f, N)
  <2>1. f \in [0 .. N -> V] /\ f[0] = base /\ \A k \in 1 .. N : f[k] = step[k][f[k - 1]]
    BY <1>6 DEF Follows
  <2>2. ASSUME NEW k \in 0 .. N
        PROVE  f[k] = IF k = 0 THEN base ELSE launchNext(f[k - 1])
    <3>1. CASE k = 0
      BY <2>1, <3>1
    <3>2. CASE k # 0
      <4>1. k \in 1 .. N /\ k - 1 \in 0 .. N
        BY <1>1, <3>2
      <4>2. f[k - 1] \in V
        BY <2>1, <4>1
      <4> QED BY <1>5, <2>1, <3>2, <4>1, <4>2
    <3> QED BY <3>1, <3>2
  <2> QED BY <2>1, <2>2 DEF LaunchedBy, base
<1> DEFINE g == CHOOSE u : LaunchedBy(u, N)
<1>8. LaunchedBy(g, N)
  BY <1>7
<1>9. launched = g[N]
  BY DEF launched, LaunchedBy, N
<1> HIDE DEF g
<1> DEFINE Q == {i \in Nat : i <= N => g[i] \in V}
<1>10. 0 \in Q
  <2>1. 0 \in 0 .. N
    BY <1>1
  <2>2. g[0] = base
    BY <1>8, <2>1 DEF LaunchedBy, base
  <2> QED BY <1>3, <2>2
<1>11. ASSUME NEW i \in Nat, i \in Q
       PROVE  i + 1 \in Q
  <2> SUFFICES ASSUME i + 1 <= N
               PROVE  g[i + 1] \in V
    OBVIOUS
  <2>1. i + 1 \in 0 .. N /\ i + 1 # 0 /\ (i + 1) - 1 = i /\ i <= N
    BY <1>1
  <2>2. g[i + 1] = launchNext(g[i])
    BY <1>8, <2>1 DEF LaunchedBy
  <2>3. g[i] \in V
    BY <1>11, <2>1
  <2> QED BY <1>2, <2>2, <2>3
<1> HIDE DEF Q
<1>12. N \in Q
  BY <1>1, <1>10, <1>11, NatSetInduction
<1> QED BY <1>1, <1>9, <1>12 DEF Q, V

LEMMA LaunchStep ==
  ASSUME IInv, processLaunches, issueFounding, roundKept
  PROVE  IInv'
<1> USE DEF IInv, roundKept
<1>1. /\ phase = "launch" /\ phase' = "settlement"
      /\ UNCHANGED <<turn, goal, wallet, company, cash, notice, stock, arrears, streak,
                     windDown_, others>>
  BY DEF processLaunches, after
<1>2. shares' = shares
  BY <1>1, SharesKept
<1>3. /\ launched \in LaunchRows /\ LaunchSound(launched)
  BY LaunchedSound DEF LaunchWorlds
<1>4. /\ employer' = launched.employer /\ employment' = launched.employment
      /\ contract' = launched.contract /\ job' = launched.job /\ offering' = launched.offering
  BY DEF processLaunches
<1>5. /\ employer' \in [Agents -> Companies \cup {Nobody}] /\ employment' \in [Companies -> EmploymentRows]
      /\ contract' \in [Companies -> [ContractTypes -> LegalContracts]]
      /\ job' \in [Companies -> JobStatuses] /\ offering' \in [Companies -> BOOLEAN]
  BY <1>3, <1>4 DEF LaunchRows
<1>6. RowTypes'
  BY <1>1, <1>2, <1>5 DEF RowTypes, TypeOK, after
<1>7. WorkInv'
  BY <1>1, <1>3, <1>4 DEF LaunchSound, WorkInv
<1>8. /\ \A c \in Companies : \A t \in ContractTypes :
           t # "employment" => contract'[c][t] = contract[c][t]
      /\ \A c \in Companies : company[c].status # "active" =>
           /\ employment'[c] = employment[c] /\ contract'[c] = contract[c]
           /\ job'[c] = job[c] /\ offering'[c] = offering[c]
  BY <1>3, <1>4 DEF LaunchSound, LaunchKeeps, eligibleCompanies
<1>9. IdleInv'
  BY <1>1, <1>2, <1>8 DEF IdleInv, Unstarted
<1>10. FilingInv'
  <2>1. \A c \in Companies : contract'[c]["incorporation"] = contract[c]["incorporation"]
    BY <1>8 DEF ContractTypes
  <2>2. phase \notin Filing /\ phase' \in Signing
    BY <1>1, NoPhaseFails DEF Filing, Signing
  <2> QED BY <1>1, <2>1, <2>2 DEF FilingInv
<1>11. FailureIsFinal'
  <2>1. \A c \in Companies : employment'[c].status # "active" => \A a \in Agents : employer'[a] # c
    BY <1>7 DEF WorkInv, WorkRows
  <2> QED BY <1>1, <1>8, <2>1 DEF FailureIsFinal
<1>12. RoundInv'
  <2>1. \A c \in Companies : contract'[c]["investment"] = contract[c]["investment"]
    BY <1>8 DEF ContractTypes
  <2> QED BY <1>2, <2>1 DEF RoundInv, RoundRows
<1> QED BY <1>1, <1>2, <1>6, <1>7, <1>9, <1>10, <1>11, <1>12, StageKept, IssuedKept, DeployedKept,
           MoneyKept, CounselKept, WaterfallKept

-----------------------------------------------------------------------------
(* Closings: proposal after proposal closes as a whole, is rejected, or the *)
(* tick fails.                                                              *)

CloseRow(u, k, o, b, d, s, p) ==
  [fault |-> u, contract |-> k, others |-> o, cash |-> b, deployed |-> d, shares |-> s, proposal |-> p]

\* What a close writes to the rows of one company, written out.
Completed(p, c, done) == [p EXCEPT ![c] = [p[c] EXCEPT !.status = done]]
Drawn(k, c, legal) == [k EXCEPT ![c] = [k[c] EXCEPT !["investment"] = legal]]
Called(o, called, amount) == [o EXCEPT !.fund = o.fund + called - amount]
Moved(o, called) == [o EXCEPT !.row = o.row - called]
Funded(b, c, amount) == [b EXCEPT ![c] = b[c] + amount]
Staked(s, c, terms) ==
  [s EXCEPT ![c] = insertOwnershipStake(s[c], quotePricedRound(s[c].total, terms).issued)]

LEMMA CloseUpdates ==
  ASSUME NEW w, NEW c
  PROVE  LET amount == talk[c].amount
             called == capitalCall(w.others.fund, amount)
         IN  closePrepared(w, c)
               = CloseRow(w.fault, Drawn(w.contract, c, investmentSigned),
                          Moved(Called(w.others, called, amount), called),
                          Funded(w.cash, c, amount), w.deployed + amount,
                          Staked(w.shares, c, talk[c]), Completed(w.proposal, c, "completed"))
<1> DEFINE amount == talk[c].amount
           called == capitalCall(w.others.fund, amount)
           done == "completed"
           legal == investmentSigned
           terms == talk[c]
<1>1. closePrepared(w, c) =
        [fault    |-> w.fault,
         proposal |-> [w.proposal EXCEPT ![c].status = done],
         contract |-> [w.contract EXCEPT ![c]["investment"] = legal],
         others   |-> [w.others EXCEPT !.fund = @ + called - amount, !.row = @ - called],
         cash     |-> [w.cash EXCEPT ![c] = @ + amount],
         deployed |-> w.deployed + amount,
         shares   |-> [w.shares EXCEPT ![c] =
                         insertOwnershipStake(@, quotePricedRound(@.total, terms).issued)]]
  BY Zenon DEF closePrepared, deployCapital
<1> HIDE DEF amount, called, done, legal, terms
<1>2. [w.proposal EXCEPT ![c].status = done] = Completed(w.proposal, c, done)
  BY DEF Completed
<1>3. [w.contract EXCEPT ![c]["investment"] = legal] = Drawn(w.contract, c, legal)
  BY DEF Drawn
<1>4. [w.others EXCEPT !.fund = @ + called - amount, !.row = @ - called]
        = Moved(Called(w.others, called, amount), called)
  BY DEF Moved, Called
<1>5. [w.cash EXCEPT ![c] = @ + amount] = Funded(w.cash, c, amount)
  BY DEF Funded
<1>6. [w.shares EXCEPT ![c] = insertOwnershipStake(@, quotePricedRound(@.total, terms).issued)]
        = Staked(w.shares, c, terms)
  BY DEF Staked
<1> QED BY Zenon, <1>1, <1>2, <1>3, <1>4, <1>5, <1>6 DEF CloseRow, amount, called, done, legal, terms

\* The other outcomes of a close change one field.
FaultUpdated(u, k, o, b, d, s, p, v) ==
  [CloseRow(u, k, o, b, d, s, p) EXCEPT !.fault = v] = CloseRow(v, k, o, b, d, s, p)
RejectUpdated(u, k, o, b, d, s, p, c, no) ==
  [CloseRow(u, k, o, b, d, s, p) EXCEPT !.proposal[c].status = no]
    = CloseRow(u, k, o, b, d, s, Completed(p, c, no))

LEMMA OtherUpdates ==
  ASSUME NEW u, NEW k, NEW o, NEW b, NEW d, NEW s, NEW p, NEW c, NEW v
  PROVE  /\ FaultUpdated(u, k, o, b, d, s, p, v)
         /\ RejectUpdated(u, k, o, b, d, s, p, c, v)
<1>1. FaultUpdated(u, k, o, b, d, s, p, v)
  BY DEF FaultUpdated, CloseRow
<1>2. RejectUpdated(u, k, o, b, d, s, p, c, v)
  BY DEF RejectUpdated, CloseRow, Completed
<1> QED BY <1>1, <1>2

CloseRows ==
  [fault : {NoFault} \cup Failures, contract : [Companies -> [ContractTypes -> LegalContracts]],
   others : Balances, cash : [Companies -> Nat], deployed : 0 .. FundSize,
   shares : [Companies -> CapTables], proposal : [Companies -> ProposalRows]]

\* The talks as the closings leave them.
Spoken == [c \in Companies |-> closedTalk(c)]

\* The rows the closings leave alone, and the companies they leave alone.
CloseKeeps(w) ==
  /\ w.others.counsel = others.counsel
  /\ \A c \in Companies : \A t \in ContractTypes :
       t # "investment" => w.contract[c][t] = contract[c][t]
  /\ \A c \in Companies : w.shares[c].founder = shares[c].founder
  /\ \A c \in Companies : company[c].status # "active" =>
       w.cash[c] = cash[c] /\ w.contract[c] = contract[c] /\ w.shares[c] = shares[c]

\* What the fund has paid is what its rounds were promised, and no money is made.
ClosePays(w) ==
  /\ w.deployed = sumOver(PaidFor(w.proposal, Spoken))
  /\ sumOver(wallet) + sumOver(w.cash) + w.others.counsel + w.others.utility
       + w.others.fund + w.others.row = 0

CloseSound(w, new) ==
  /\ RoundRows(w.proposal, Spoken, w.contract, w.shares)
  /\ CloseKeeps(w)
  /\ ClosePays(w)
  /\ \A c \in Companies : company[c].status \in Unstarted => w.proposal[c].status = "none"
  /\ \A c \in Companies : w.proposal[c].status \in {"agreed", "completed"} => Spoken[c] = talk[c]
  /\ \A c \in new : w.proposal[c].status = "negotiating"

CloseWorlds(new) == {w \in CloseRows : CloseSound(w, new)}

LEMMA FaultNames ==
  /\ NoFault \notin Failures /\ "ready" \notin Failures /\ "rejected" \notin Failures
  /\ "cannot issue investment shares" \in Failures
  /\ "requires its open negotiated fund" \in Failures
  /\ "investment close lacks matching rows" \in Failures
BY Zenon DEF Failures, NoFault

(* A proposal settles on what its talk came to. *)
LEMMA SettledSound ==
  ASSUME IInv, NEW c \in Companies
  PROVE  /\ settled(c) \in ProposalRows /\ Spoken[c] \in TalkRows
         /\ settled(c).status = "negotiating" => settled(c).left >= 1
         /\ settled(c).status \in {"agreed", "completed"} =>
              /\ Spoken[c] = talk[c] /\ talk[c].status = "agreement"
              /\ termsWithinConversationBounds(talk[c])
         /\ settled(c).status = "completed" <=> proposal[c].status = "completed"
         /\ settled(c).status = "expired" => Spoken[c].status = "expired"
         /\ proposal[c].status = "none" => settled(c).status = "none"
<1>1. /\ proposal[c] \in ProposalRows /\ talk[c] \in TalkRows /\ Lifetime \in Nat
      /\ proposal[c].status = "negotiating" => proposal[c].left >= 1
      /\ proposal[c].status \in {"agreed", "completed"} =>
           talk[c].status = "agreement" /\ termsWithinConversationBounds(talk[c])
      /\ proposal[c].status = "expired" => talk[c].status = "expired"
  BY TownNumbers DEF IInv, RowTypes, TypeOK, RoundInv, RoundRows
<1>2. Spoken[c] = closedTalk(c)
  BY DEF Spoken
<1>3. Spoken[c] \in TalkRows
  BY <1>1, <1>2 DEF closedTalk, NoTalk, TalkRows
<1>4. CASE ~running(c)
  <2>1. settled(c) = proposal[c] /\ Spoken[c] = talk[c]
    BY <1>2, <1>4 DEF settled, closedTalk, expires
  <2> QED BY <1>1, <1>3, <1>4, <2>1 DEF running
<1>5. CASE running(c) /\ talk[c].status = "active" /\ ~expires(c)
  <2>1. settled(c) = [proposal[c] EXCEPT !.left = proposal[c].left - 1]
    BY <1>5 DEF settled
  <2>2. proposal[c].left - 1 \in 0 .. Lifetime /\ proposal[c].left - 1 >= 1
    BY <1>1, <1>5 DEF ProposalRows, running, expires
  <2>3. settled(c) \in ProposalRows /\ settled(c).status = "negotiating" /\ settled(c).left >= 1
    BY <1>1, <1>5, <2>1, <2>2 DEF ProposalRows, running
  <2> QED BY <1>1, <1>3, <1>5, <2>3 DEF running
<1>6. CASE expires(c)
  <2>1. settled(c) = [status |-> "expired", left |-> 0]
    BY <1>6 DEF settled, transitionTerminal, expires
  <2>2. Spoken[c].status = "expired"
    BY <1>2, <1>6 DEF closedTalk, NoTalk
  <2>3. settled(c) \in ProposalRows
    BY <1>1, <2>1 DEF ProposalRows, ProposalStatuses
  <2> QED BY <1>1, <1>3, <1>6, <2>1, <2>2, <2>3 DEF running, expires
<1>7. CASE running(c) /\ talk[c].status # "active"
  <2>1. /\ settled(c) = [status |-> transitionTerminal(c), left |-> 0] /\ Spoken[c] = talk[c]
        /\ transitionTerminal(c) \in {"agreed", "rejected"}
        /\ transitionTerminal(c) = "agreed" =>
             talk[c].status = "agreement" /\ termsWithinConversationBounds(talk[c])
    BY <1>2, <1>7 DEF settled, closedTalk, expires, transitionTerminal
  <2>2. settled(c) \in ProposalRows
    BY <1>1, <2>1 DEF ProposalRows, ProposalStatuses
  <2>3. settled(c).status = transitionTerminal(c)
    BY <2>1
  <2> QED BY <1>1, <1>3, <1>7, <2>1, <2>2, <2>3 DEF running
<1> QED BY <1>4, <1>5, <1>6, <1>7

LEMMA ClosingStartSound ==
  ASSUME IInv, NEW new \in SUBSET candidates
  PROVE  closingStart(new) \in CloseWorlds(new)
<1> DEFINE n == closingStart(new)
<1>1. /\ n.fault = NoFault /\ n.contract = contract /\ n.others = others /\ n.cash = cash
      /\ n.deployed = deployed /\ n.shares = shares
      /\ n.proposal = [c \in Companies |-> IF c \in new THEN propose ELSE settled(c)]
  BY DEF closingStart
<1>2. /\ new \in SUBSET Companies /\ Lifetime \in Nat \ {0}
      /\ \A c \in new : company[c].status = "active" /\ proposal[c].status = "none"
  BY TownNumbers DEF candidates
<1>3. propose \in ProposalRows /\ propose.status = "negotiating" /\ propose.left >= 1
  BY <1>2 DEF propose, ProposalRows, ProposalStatuses
<1>4. \A c \in Companies : n.proposal[c] = IF c \in new THEN propose ELSE settled(c)
  BY <1>1
<1>5. n.proposal \in [Companies -> ProposalRows]
  BY <1>1, <1>3, SettledSound
<1>6. n \in CloseRows
  <2> DEFINE p == [c \in Companies |-> IF c \in new THEN propose ELSE settled(c)]
  <2>1. p \in [Companies -> ProposalRows]
    BY <1>1, <1>5
  <2> HIDE DEF p
  <2>2. [fault |-> NoFault, contract |-> contract, others |-> others, cash |-> cash,
         deployed |-> deployed, shares |-> shares, proposal |-> p] \in CloseRows
    BY <2>1 DEF CloseRows, IInv, RowTypes, TypeOK
  <2> QED BY <2>2 DEF closingStart, p
<1> HIDE DEF n
<1>7. \A c \in Companies : n.proposal[c].status = "completed" <=> proposal[c].status = "completed"
  BY <1>2, <1>3, <1>4, SettledSound
<1>8. RoundRows(n.proposal, Spoken, n.contract, n.shares)
  <2> SUFFICES ASSUME NEW c \in Companies
               PROVE  LET k == contract[c]["investment"]
                          closed == n.proposal[c].status = "completed"
                      IN  /\ k.status \in {"none", "signed", "active", "terminated"}
                          /\ k.obligation = "none"
                          /\ n.proposal[c].status = "negotiating" => n.proposal[c].left >= 1
                          /\ n.proposal[c].status \in {"agreed", "completed"} =>
                               Spoken[c].status = "agreement" /\ termsWithinConversationBounds(Spoken[c])
                          /\ shares[c].total = shares[c].founder + shares[c].fund
                          /\ closed <=> k.status # "none"
                          /\ closed <=> shares[c].fund > 0
                          /\ n.proposal[c].status = "expired" => Spoken[c].status = "expired"
                          /\ closed => Spoken[c].amount * FoundingShares
                                         = Spoken[c].preMoney * shares[c].fund
    BY <1>1 DEF RoundRows
  <2>1. RoundRows(proposal, talk, contract, shares)
    BY DEF IInv, RoundInv
  <2>2. CASE c \in new
    BY <1>2, <1>3, <1>4, <1>7, <2>1, <2>2 DEF RoundRows
  <2>3. CASE c \notin new
    <3>1. n.proposal[c] = settled(c)
      BY <1>4, <2>3
    <3> QED BY <1>7, <2>1, <3>1, SettledSound DEF RoundRows
  <2> QED BY <2>2, <2>3
<1>9. \A c \in Companies : n.proposal[c].status \in {"agreed", "completed"} => Spoken[c] = talk[c]
  BY <1>3, <1>4, SettledSound
<1>10. PaidFor(n.proposal, Spoken) = PaidFor(proposal, talk)
  BY <1>7, <1>9 DEF PaidFor
<1>11. ClosePays(n)
  BY <1>1, <1>10 DEF ClosePays, IInv, DeployedInv, MoneyInv, totalMoney
<1>12. CloseKeeps(n)
  BY <1>1 DEF CloseKeeps
<1>13. \A c \in Companies : company[c].status \in Unstarted => n.proposal[c].status = "none"
  <2>1. \A c \in Companies : company[c].status \in Unstarted => proposal[c].status = "none" /\ c \notin new
    BY <1>2 DEF IInv, IdleInv, Unstarted
  <2> QED BY <1>4, <2>1, SettledSound
<1>14. \A c \in new : n.proposal[c].status = "negotiating"
  BY <1>2, <1>3, <1>4
<1>15. CloseSound(n, new)
  BY <1>8, <1>9, <1>11, <1>12, <1>13, <1>14 DEF CloseSound
<1> QED BY <1>6, <1>15 DEF CloseWorlds, n

(* A world is the record of its rows, and a failure leaves them as they are. *)
LEMMA FaultSound ==
  ASSUME NEW new, NEW w \in CloseWorlds(new), NEW v \in Failures
  PROVE  [w EXCEPT !.fault = v] \in CloseWorlds(new)
<1> DEFINE n == CloseRow(v, w.contract, w.others, w.cash, w.deployed, w.shares, w.proposal)
<1>1. w \in CloseRows /\ CloseSound(w, new)
  BY DEF CloseWorlds
<1>2. w = CloseRow(w.fault, w.contract, w.others, w.cash, w.deployed, w.shares, w.proposal)
  BY <1>1 DEF CloseRows, CloseRow
<1>3. FaultUpdated(w.fault, w.contract, w.others, w.cash, w.deployed, w.shares, w.proposal, v)
  BY OtherUpdates
<1>4. [w EXCEPT !.fault = v] = n
  BY Zenon, <1>2, <1>3 DEF FaultUpdated
<1>5. n \in CloseRows
  BY <1>1 DEF CloseRows, CloseRow
<1>6. /\ n.contract = w.contract /\ n.others = w.others /\ n.cash = w.cash
      /\ n.deployed = w.deployed /\ n.shares = w.shares /\ n.proposal = w.proposal
  BY DEF CloseRow
<1> HIDE DEF n
<1>7. CloseSound(n, new)
  BY <1>1, <1>6 DEF CloseSound, CloseKeeps, ClosePays
<1> QED BY <1>4, <1>5, <1>7 DEF CloseWorlds

(* A refusal closes nothing. *)
LEMMA RejectSound ==
  ASSUME IInv, NEW new \in SUBSET candidates, NEW w \in CloseWorlds(new), NEW c \in Companies,
         w.proposal[c].status = "agreed"
  PROVE  [w EXCEPT !.proposal[c].status = "rejected"] \in CloseWorlds(new)
<1> DEFINE p == Completed(w.proposal, c, "rejected")
           n == CloseRow(w.fault, w.contract, w.others, w.cash, w.deployed, w.shares, p)
<1>1. w \in CloseRows /\ CloseSound(w, new)
  BY DEF CloseWorlds
<1>2. w = CloseRow(w.fault, w.contract, w.others, w.cash, w.deployed, w.shares, w.proposal)
  BY <1>1 DEF CloseRows, CloseRow
<1>3. RejectUpdated(w.fault, w.contract, w.others, w.cash, w.deployed, w.shares, w.proposal, c,
                    "rejected")
  BY OtherUpdates
<1>4. [w EXCEPT !.proposal[c].status = "rejected"] = n
  BY Zenon, <1>2, <1>3 DEF RejectUpdated
<1>5. /\ p \in [Companies -> ProposalRows] /\ p[c].status = "rejected"
      /\ \A d \in Companies : d # c => p[d] = w.proposal[d]
  <2>1. w.proposal \in [Companies -> ProposalRows]
    BY <1>1 DEF CloseRows
  <2>2. w.proposal[c] \in ProposalRows
    BY <2>1
  <2> DEFINE r == [w.proposal[c] EXCEPT !.status = "rejected"]
  <2>3. r \in ProposalRows /\ r.status = "rejected"
    BY <2>2 DEF ProposalRows, ProposalStatuses
  <2> HIDE DEF r
  <2>4. p = [w.proposal EXCEPT ![c] = r]
    BY DEF Completed, r
  <2> QED BY <2>1, <2>3, <2>4
<1> HIDE DEF p
<1>6. n \in CloseRows
  BY <1>1, <1>5 DEF CloseRows, CloseRow
<1>7. /\ n.contract = w.contract /\ n.others = w.others /\ n.cash = w.cash
      /\ n.deployed = w.deployed /\ n.shares = w.shares /\ n.proposal = p
  BY DEF CloseRow
<1> HIDE DEF n
<1>8. \A d \in Companies : \/ n.proposal[d].status = w.proposal[d].status
                           \/ d = c /\ n.proposal[d].status = "rejected"
  <2>1. \A d \in Companies : d = c \/ n.proposal[d] = w.proposal[d]
    BY <1>5, <1>7
  <2>2. n.proposal[c].status = "rejected"
    BY <1>5, <1>7
  <2> QED BY <2>1, <2>2
<1>9. RoundRows(n.proposal, Spoken, n.contract, n.shares)
  <2>1. RoundRows(w.proposal, Spoken, w.contract, w.shares)
    BY <1>1 DEF CloseSound
  <2>2. \A d \in Companies :
          \/ n.proposal[d] = w.proposal[d]
          \/ w.proposal[d].status = "agreed" /\ n.proposal[d].status = "rejected"
    <3>1. \A d \in Companies : d = c \/ n.proposal[d] = w.proposal[d]
      BY <1>5, <1>7
    <3>2. n.proposal[c].status = "rejected"
      BY <1>5, <1>7
    <3> QED BY <3>1, <3>2
  <2> QED BY <1>7, <2>1, <2>2 DEF RoundRows
<1>10. PaidFor(n.proposal, Spoken) = PaidFor(w.proposal, Spoken)
  BY <1>8 DEF PaidFor
<1>11. CloseKeeps(n) /\ ClosePays(n)
  BY <1>1, <1>7, <1>10 DEF CloseSound, CloseKeeps, ClosePays
<1>12. \A d \in Companies : company[d].status \in Unstarted => n.proposal[d].status = "none"
  <2>1. company[c].status \notin Unstarted
    BY <1>1 DEF CloseSound
  <2> QED BY <1>1, <1>8, <2>1 DEF CloseSound
<1>13. \A d \in Companies : n.proposal[d].status \in {"agreed", "completed"} => Spoken[d] = talk[d]
  BY <1>1, <1>8 DEF CloseSound
<1>14. \A d \in new : n.proposal[d].status = "negotiating"
  <2>1. new \in SUBSET Companies /\ c \notin new
    BY <1>1 DEF CloseSound, candidates
  <2> QED BY <1>1, <1>8, <2>1 DEF CloseSound
<1>15. CloseSound(n, new)
  BY <1>9, <1>11, <1>12, <1>13, <1>14 DEF CloseSound
<1> QED BY <1>4, <1>6, <1>15 DEF CloseWorlds

(* A closing issues whole shares of the founder's company for the capital of *)
(* its round, which the fund has or calls.                                    *)
LEMMA ClosedSound ==
  ASSUME IInv, NEW new \in SUBSET candidates, NEW w \in CloseWorlds(new), NEW c \in Companies,
         w.proposal[c].status = "agreed", company[c].status = "active",
         investments_validate_close(closePrepared(w, c), c)
  PROVE  closePrepared(w, c) \in CloseWorlds(new)
<1> DEFINE amount == talk[c].amount
           called == capitalCall(w.others.fund, amount)
           n == closePrepared(w, c)
           k == Drawn(w.contract, c, investmentSigned)
           o == Moved(Called(w.others, called, amount), called)
           b == Funded(w.cash, c, amount)
           d == w.deployed + amount
           s == Staked(w.shares, c, talk[c])
           p == Completed(w.proposal, c, "completed")
<1>1. /\ w \in CloseRows /\ CloseSound(w, new)
      /\ w.contract \in [Companies -> [ContractTypes -> LegalContracts]] /\ w.others \in Balances
      /\ w.cash \in [Companies -> Nat] /\ w.deployed \in 0 .. FundSize
      /\ w.shares \in [Companies -> CapTables] /\ w.proposal \in [Companies -> ProposalRows]
  BY DEF CloseWorlds, CloseRows
<1>2. n = CloseRow(w.fault, k, o, b, d, s, p)
  BY Zenon, CloseUpdates
<1>3. /\ n.contract = k /\ n.others = o /\ n.cash = b /\ n.deployed = d /\ n.shares = s
      /\ n.proposal = p /\ n.fault = w.fault
  <2> HIDE DEF n, k, o, b, d, s, p
  <2> QED BY <1>2 DEF CloseRow
<1>4. /\ Spoken[c] = talk[c] /\ talk[c] \in TalkRows /\ talk[c].status = "agreement"
      /\ amount \in Nat \ {0} /\ talk[c].preMoney \in Nat \ {0}
  <2>1. Spoken[c] = talk[c] /\ Spoken[c].status = "agreement" /\ termsWithinConversationBounds(Spoken[c])
    BY <1>1 DEF CloseSound, RoundRows
  <2>2. talk[c] \in TalkRows
    BY DEF IInv, RowTypes
  <2>3. amount >= boundedMinimum(ask) /\ talk[c].preMoney >= boundedMinimum(preMoney)
        /\ amount \in Nat /\ talk[c].preMoney \in Nat
    BY <2>1, <2>2, TermsTypes DEF termsWithinConversationBounds, TalkRows
  <2> QED BY <2>1, <2>2, <2>3, TermsTypes
<1>5. /\ w.shares[c].founder = FoundingShares /\ w.shares[c].fund = 0
      /\ w.shares[c].total = FoundingShares /\ FoundingShares \in Nat \ {0}
      /\ w.contract[c]["investment"].status = "none"
  <2>1. shares[c].founder = FoundingShares
    BY DEF IInv, IssuedInv, Unstarted
  <2>2. /\ ~(w.shares[c].fund > 0) /\ w.contract[c]["investment"].status = "none"
        /\ w.shares[c].total = w.shares[c].founder + w.shares[c].fund
    BY <1>1 DEF CloseSound, RoundRows
  <2>3. w.shares[c].fund \in Nat /\ w.shares[c].founder = shares[c].founder
    BY <1>1 DEF CloseSound, CloseKeeps, CapTables
  <2> QED BY <2>1, <2>2, <2>3, TownNumbers
<1> DEFINE issued == quotePricedRound(w.shares[c].total, talk[c]).issued
<1>6. issued \in Nat
  <2> DEFINE price == talk[c].preMoney \div w.shares[c].total
             m == Max({price, 1})
  <2>1. price \in Nat
    BY <1>4, <1>5
  <2>2. issued = amount \div m
    BY DEF quotePricedRound
  <2> HIDE DEF price
  <2>3. m = IF price >= 1 THEN price ELSE 1
    BY <2>1, MaxOfTwo
  <2> HIDE DEF m
  <2>4. m \in Nat \ {0}
    BY <2>1, <2>3
  <2> HIDE DEF amount, issued
  <2> QED BY <1>4, <2>2, <2>4
<1>7. /\ s \in [Companies -> CapTables] /\ s[c].founder = FoundingShares /\ s[c].fund = issued
      /\ s[c].total = FoundingShares + issued
      /\ \A x \in Companies : x # c => s[x] = w.shares[x]
  <2> DEFINE row == insertOwnershipStake(w.shares[c], issued)
  <2>1. s = [w.shares EXCEPT ![c] = row]
    BY DEF Staked
  <2> HIDE DEF issued, s
  <2>2. w.shares[c] \in CapTables
    BY <1>1
  <2>3. row = [total |-> w.shares[c].total + issued, founder |-> w.shares[c].founder,
               fund |-> w.shares[c].fund + issued]
    <3> DEFINE t == w.shares[c]
               one == [t EXCEPT !.fund = t.fund + issued]
    <3>1. row = [one EXCEPT !.total = t.total + issued]
      BY DEF insertOwnershipStake
    <3>2. one = [total |-> t.total, founder |-> t.founder, fund |-> t.fund + issued]
      BY <2>2 DEF CapTables
    <3> HIDE DEF one, t, row
    <3>3. row = [total |-> t.total + issued, founder |-> t.founder, fund |-> t.fund + issued]
      BY <3>1, <3>2
    <3> QED BY <3>3 DEF t
  <2> HIDE DEF row
  <2>4. /\ row \in CapTables /\ row.founder = FoundingShares /\ row.fund = issued
        /\ row.total = FoundingShares + issued
    BY <1>5, <1>6, <2>3 DEF CapTables
  <2> QED BY <1>1, <2>1, <2>4
<1>8. /\ p \in [Companies -> ProposalRows] /\ p[c].status = "completed"
      /\ \A x \in Companies : x # c => p[x] = w.proposal[x]
  <2>2. w.proposal[c] \in ProposalRows
    BY <1>1
  <2> DEFINE r == [w.proposal[c] EXCEPT !.status = "completed"]
  <2>3. r \in ProposalRows /\ r.status = "completed"
    BY <2>2 DEF ProposalRows, ProposalStatuses
  <2> HIDE DEF r
  <2>4. p = [w.proposal EXCEPT ![c] = r]
    BY DEF Completed, r
  <2> HIDE DEF p
  <2> QED BY <1>1, <2>3, <2>4
<1>9. /\ k \in [Companies -> [ContractTypes -> LegalContracts]]
      /\ k[c]["investment"] = investmentSigned
      /\ \A t \in ContractTypes : t # "investment" => k[c][t] = w.contract[c][t]
      /\ \A x \in Companies : x # c => k[x] = w.contract[x]
  <2> DEFINE r == [w.contract[c] EXCEPT !["investment"] = investmentSigned]
  <2>1. "investment" \in ContractTypes /\ w.contract[c] \in [ContractTypes -> LegalContracts]
    BY <1>1 DEF ContractTypes
  <2>2. r \in [ContractTypes -> LegalContracts] /\ r["investment"] = investmentSigned
        /\ \A t \in ContractTypes : t # "investment" => r[t] = w.contract[c][t]
    BY <2>1, ContractsDrawn
  <2> HIDE DEF r
  <2>4. k = [w.contract EXCEPT ![c] = r]
    BY DEF Drawn, r
  <2> HIDE DEF k
  <2> QED BY <1>1, <2>2, <2>4
<1>10. /\ b \in [Companies -> Nat] /\ b[c] = w.cash[c] + amount
       /\ \A x \in Companies : x # c => b[x] = w.cash[x]
  <2>1. b = [w.cash EXCEPT ![c] = w.cash[c] + amount] /\ w.cash[c] + amount \in Nat
    BY <1>1, <1>4 DEF Funded
  <2> HIDE DEF b, amount
  <2> QED BY <1>1, <2>1
<1>11. /\ o \in Balances /\ o.counsel = w.others.counsel /\ o.utility = w.others.utility
       /\ o.fund + o.row = w.others.fund + w.others.row - amount
  <2>1. /\ w.others.counsel \in Nat /\ w.others.utility \in Nat /\ w.others.fund \in Nat
        /\ w.others.row \in Int
    BY <1>1 DEF Balances
  <2>2. amount - w.others.fund \in Int
    BY <1>4, <2>1
  <2> DEFINE x == amount - w.others.fund
  <2>3. called = Max({0, x})
    BY DEF capitalCall
  <2> HIDE DEF x, called
  <2>4. called = IF 0 >= x THEN 0 ELSE x
    BY <2>2, <2>3, MaxOfTwo DEF x
  <2> USE DEF x
  <2>5. called \in Nat /\ w.others.fund + called - amount \in Nat
    BY <1>4, <2>1, <2>4
  <2> HIDE DEF amount, x
  <2> DEFINE f == w.others.fund + called - amount
             r == w.others.row - called
  <2>6. o = [counsel |-> w.others.counsel, utility |-> w.others.utility, fund |-> f, row |-> r]
    <3>1. Called(w.others, called, amount)
            = [counsel |-> w.others.counsel, utility |-> w.others.utility, fund |-> f,
               row |-> w.others.row]
      BY <1>1 DEF Called, Balances
    <3> DEFINE q == Called(w.others, called, amount)
    <3> HIDE DEF q, f
    <3>2. Moved(q, called) = [counsel |-> w.others.counsel, utility |-> w.others.utility, fund |-> f,
                              row |-> r]
      BY <3>1 DEF Moved, q
    <3> QED BY <3>2 DEF q
  <2>7. f \in Nat /\ r \in Int /\ f + r = w.others.fund + w.others.row - amount
    BY <1>4, <2>1, <2>5
  <2> HIDE DEF f, r, o
  <2> QED BY <2>1, <2>6, <2>7 DEF Balances
<1> HIDE DEF amount, called, n, k, o, b, s, p, issued
<1>12. /\ issued * talk[c].preMoney = FoundingShares * amount /\ d <= FundSize
       /\ n.shares[c].total = n.shares[c].founder + n.shares[c].fund
  BY <1>3, <1>7 DEF investments_validate_close, n, amount
<1>13. issued > 0
  <2>1. FoundingShares * amount > 0
    BY <1>4, <1>5
  <2>2. issued # 0
    <3> SUFFICES ASSUME issued = 0
                 PROVE  FALSE
      OBVIOUS
    <3>1. issued * talk[c].preMoney = 0
      BY <1>4
    <3> QED BY <1>12, <2>1, <3>1
  <2> QED BY <1>6, <2>2
<1>14. n \in CloseRows
  <2>1. d \in 0 .. FundSize
    BY <1>1, <1>4, <1>12, TownNumbers
  <2> HIDE DEF d
  <2>2. w.fault \in {NoFault} \cup Failures
    BY <1>1 DEF CloseRows
  <2> QED BY <1>2, <1>7, <1>8, <1>9, <1>10, <1>11, <2>1, <2>2 DEF CloseRow, CloseRows
<1>15. RoundRows(n.proposal, Spoken, n.contract, n.shares)
  <2> SUFFICES ASSUME NEW x \in Companies
               PROVE  LET q == k[x]["investment"]
                          closed == p[x].status = "completed"
                      IN  /\ q.status \in {"none", "signed", "active", "terminated"}
                          /\ q.obligation = "none"
                          /\ p[x].status = "negotiating" => p[x].left >= 1
                          /\ p[x].status \in {"agreed", "completed"} =>
                               Spoken[x].status = "agreement" /\ termsWithinConversationBounds(Spoken[x])
                          /\ s[x].total = s[x].founder + s[x].fund
                          /\ closed <=> q.status # "none"
                          /\ closed <=> s[x].fund > 0
                          /\ p[x].status = "expired" => Spoken[x].status = "expired"
                          /\ closed => Spoken[x].amount * FoundingShares = Spoken[x].preMoney * s[x].fund
    BY <1>3 DEF RoundRows
  <2>1. RoundRows(w.proposal, Spoken, w.contract, w.shares)
    BY <1>1 DEF CloseSound
  <2>2. CASE x = c
    <3>1. Spoken[c].status = "agreement" /\ termsWithinConversationBounds(Spoken[c])
      BY <2>1 DEF RoundRows
    <3>2. Spoken[c].amount * FoundingShares = Spoken[c].preMoney * s[c].fund
      <4>1. /\ Spoken[c].amount = amount /\ Spoken[c].preMoney = talk[c].preMoney /\ s[c].fund = issued
            /\ amount \in Nat /\ talk[c].preMoney \in Nat
        BY <1>4, <1>7 DEF amount
      <4>2. amount * FoundingShares = FoundingShares * amount
        BY <1>5, <4>1
      <4>3. issued * talk[c].preMoney = talk[c].preMoney * issued
        BY <1>6, <4>1
      <4> QED BY <1>12, <4>1, <4>2, <4>3
    <3>3. s[c].fund > 0 /\ s[c].total = s[c].founder + s[c].fund
      BY <1>5, <1>6, <1>7, <1>13
    <3> QED BY <1>8, <1>9, <2>2, <3>1, <3>2, <3>3, ContractsDrawn
  <2>3. CASE x # c
    <3>1. p[x] = w.proposal[x] /\ k[x] = w.contract[x] /\ s[x] = w.shares[x]
      BY <1>7, <1>8, <1>9, <2>3
    <3> QED BY <2>1, <3>1 DEF RoundRows
  <2> QED BY <2>2, <2>3
<1>16. CloseKeeps(n)
  <2>1. CloseKeeps(w)
    BY <1>1 DEF CloseSound
  <2>2. \A x \in Companies : \A t \in ContractTypes : t # "investment" => k[x][t] = contract[x][t]
    <3> SUFFICES ASSUME NEW x \in Companies, NEW t \in ContractTypes, t # "investment"
                 PROVE  k[x][t] = contract[x][t]
      OBVIOUS
    <3>1. k[x][t] = w.contract[x][t]
      BY <1>9
    <3> QED BY <2>1, <3>1 DEF CloseKeeps
  <2>3. \A x \in Companies : s[x].founder = shares[x].founder
    <3>1. \A x \in Companies : s[x].founder = w.shares[x].founder
      BY <1>5, <1>7
    <3> QED BY <2>1, <3>1 DEF CloseKeeps
  <2>4. \A x \in Companies : company[x].status # "active" =>
          b[x] = cash[x] /\ k[x] = contract[x] /\ s[x] = shares[x]
    <3>1. \A x \in Companies : company[x].status # "active" => x # c
      OBVIOUS
    <3> QED BY <1>7, <1>9, <1>10, <2>1, <3>1 DEF CloseKeeps
  <2> QED BY <1>3, <1>11, <2>1, <2>2, <2>3, <2>4 DEF CloseKeeps
<1>17. ClosePays(n)
  <2>0. Companies \in SUBSET Agents /\ Agents \in SUBSET Agents
    BY TownFacts
  <2>1. n.deployed = sumOver(PaidFor(n.proposal, Spoken))
    <3> DEFINE f == PaidFor(w.proposal, Spoken)
               g == PaidFor(n.proposal, Spoken)
    <3>1. \A x \in Companies : Spoken[x].amount \in Nat
      BY SettledSound DEF TalkRows
    <3>2. /\ f \in [Companies -> Int] /\ g \in [Companies -> Int] /\ f[c] = 0 /\ g[c] = amount
          /\ \A x \in Companies : x # c => g[x] = f[x]
      BY <1>3, <1>4, <1>8, <3>1 DEF PaidFor, amount
    <3> HIDE DEF f, g
    <3>3. sumOver(g) = sumOver(f) - f[c] + g[c] /\ sumOver(f) \in Int
      BY <2>0, <3>2, OverOne, OverInt
    <3>4. w.deployed = sumOver(f)
      BY <1>1 DEF CloseSound, ClosePays, f
    <3> QED BY <1>3, <1>4, <3>2, <3>3, <3>4 DEF g
  <2>2. sumOver(n.cash) = sumOver(w.cash) + amount /\ sumOver(w.cash) \in Int
    <3>1. b \in [Companies -> Int] /\ w.cash \in [Companies -> Int] /\ w.cash[c] \in Int
      BY <1>1, <1>10
    <3>2. sumOver(b) = sumOver(w.cash) - w.cash[c] + b[c] /\ sumOver(w.cash) \in Int
      BY <1>10, <2>0, <3>1, OverOne, OverInt
    <3> QED BY <1>3, <1>4, <1>10, <3>1, <3>2
  <2>3. sumOver(wallet) \in Int
    <3>1. wallet \in [Agents -> Int]
      BY DEF IInv, RowTypes, TypeOK
    <3> QED BY <2>0, <3>1, OverInt
  <2>4. sumOver(wallet) + sumOver(w.cash) + w.others.counsel + w.others.utility
          + w.others.fund + w.others.row = 0
    BY <1>1 DEF CloseSound, ClosePays
  <2>5. /\ w.others.counsel \in Int /\ w.others.utility \in Int /\ w.others.fund \in Int
        /\ w.others.row \in Int /\ o.fund \in Int /\ o.row \in Int
    BY <1>1, <1>11 DEF Balances
  <2>6. sumOver(wallet) + sumOver(n.cash) + n.others.counsel + n.others.utility
          + n.others.fund + n.others.row = 0
    BY <1>3, <1>4, <1>11, <2>2, <2>3, <2>4, <2>5
  <2> QED BY <2>1, <2>6 DEF ClosePays
<1>18. \A x \in Companies : company[x].status \in Unstarted => n.proposal[x].status = "none"
  <2>1. company[c].status \notin Unstarted
    BY DEF Unstarted
  <2> QED BY <1>1, <1>3, <1>8, <2>1 DEF CloseSound
<1>19. \A x \in Companies : n.proposal[x].status \in {"agreed", "completed"} => Spoken[x] = talk[x]
  BY <1>1, <1>3, <1>4, <1>8 DEF CloseSound
<1>20. \A x \in new : n.proposal[x].status = "negotiating"
  <2>1. new \in SUBSET Companies /\ c \notin new
    BY <1>1 DEF CloseSound, candidates
  <2> QED BY <1>1, <1>3, <1>8, <2>1 DEF CloseSound
<1>21. CloseSound(n, new)
  BY <1>15, <1>16, <1>17, <1>18, <1>19, <1>20 DEF CloseSound
<1> QED BY <1>14, <1>21 DEF CloseWorlds, n

LEMMA CloseOneSound ==
  ASSUME IInv, NEW new \in SUBSET candidates, NEW w \in CloseWorlds(new), NEW c \in Companies
  PROVE  closeOne(w, c) \in CloseWorlds(new)
<1> DEFINE idle == w.fault # NoFault \/ w.proposal[c].status # "agreed"
           ready == prepare(w, c)
           valid == investments_validate_close(closePrepared(w, c), c)
<1>1. CASE idle
  <2>1. closeOne(w, c) = w
    BY Zenon, <1>1 DEF closeOne
  <2> QED BY Zenon, <2>1
<1>2. ready \in Failures \cup {"ready", "rejected"}
  BY Zenon, FaultNames DEF prepare
<1>3. CASE ~idle /\ ready \in Failures
  <2>1. ready # "ready" /\ ready # "rejected"
    BY Zenon, <1>3, FaultNames
  <2>2. closeOne(w, c) = [w EXCEPT !.fault = ready]
    BY Zenon, <1>3, <2>1 DEF closeOne
  <2>3. [w EXCEPT !.fault = ready] \in CloseWorlds(new)
    BY Zenon, <1>3, FaultSound
  <2> QED BY Zenon, <2>2, <2>3
<1>4. CASE ~idle /\ ready = "rejected"
  <2>1. closeOne(w, c) = [w EXCEPT !.proposal[c].status = "rejected"]
    BY Zenon, <1>4 DEF closeOne
  <2>2. [w EXCEPT !.proposal[c].status = "rejected"] \in CloseWorlds(new)
    BY Zenon, <1>4, RejectSound
  <2> QED BY Zenon, <2>1, <2>2
<1>5. CASE ~idle /\ ready = "ready" /\ ~valid
  <2>1. closeOne(w, c) = [w EXCEPT !.fault = "investment close lacks matching rows"]
    BY Zenon, <1>5 DEF closeOne
  <2>2. [w EXCEPT !.fault = "investment close lacks matching rows"] \in CloseWorlds(new)
    BY Zenon, FaultSound, FaultNames
  <2> QED BY Zenon, <2>1, <2>2
<1>6. CASE ~idle /\ ready = "ready" /\ valid
  <2>1. closeOne(w, c) = closePrepared(w, c)
    BY Zenon, <1>6 DEF closeOne
  <2>2. company[c].status = "active"
    BY <1>6 DEF prepare, assertCompanyCanIssue
  <2>3. closePrepared(w, c) \in CloseWorlds(new)
    BY Zenon, <1>6, <2>2, ClosedSound
  <2> QED BY Zenon, <2>1, <2>3
<1> QED BY Zenon, <1>1, <1>2, <1>3, <1>4, <1>5, <1>6

ClosingBy(u, new) ==
  u = [k \in 0 .. Len(pitched) |->
         IF k = 0 THEN closingStart(new) ELSE closeOne(u[k - 1], pitched[k])]

(* By induction on the pitches, what the closings leave is sound. *)
LEMMA ClosingSound ==
  ASSUME IInv, NEW new \in SUBSET candidates
  PROVE  closing(new) \in CloseWorlds(new)
<1> DEFINE N == Len(pitched)
           V == CloseWorlds(new)
           step == [k \in 1 .. N |-> [w \in V |-> closeOne(w, pitched[k])]]
           base == closingStart(new)
<1>1. N \in Nat /\ \A k \in 1 .. N : pitched[k] \in Companies
  BY DEF IInv, RowTypes
<1> HIDE DEF N
<1>2. \A k \in 1 .. N : \A w \in V : closeOne(w, pitched[k]) \in V
  BY <1>1, CloseOneSound
<1>3. base \in V
  BY ClosingStartSound
<1> HIDE DEF V, base
<1>4. step \in Steps(N, V)
  BY <1>2 DEF Steps
<1>5. \A k \in 1 .. N : \A w \in V : step[k][w] = closeOne(w, pitched[k])
  OBVIOUS
<1> HIDE DEF step
<1>6. PICK f : Follows(f, N, V, base, step)
  BY <1>1, <1>3, <1>4, BoundedRecursion
<1>7. ClosingBy(f, new)
  <2>1. f \in [0 .. N -> V] /\ f[0] = base /\ \A k \in 1 .. N : f[k] = step[k][f[k - 1]]
    BY <1>6 DEF Follows
  <2>2. ASSUME NEW k \in 0 .. N
        PROVE  f[k] = IF k = 0 THEN base ELSE closeOne(f[k - 1], pitched[k])
    <3>1. CASE k = 0
      BY <2>1, <3>1
    <3>2. CASE k # 0
      <4>1. k \in 1 .. N /\ k - 1 \in 0 .. N
        BY <1>1, <3>2
      <4>2. f[k - 1] \in V
        BY <2>1, <4>1
      <4> QED BY <1>5, <2>1, <3>2, <4>1, <4>2
    <3> QED BY <3>1, <3>2
  <2> QED BY <2>1, <2>2 DEF ClosingBy, base, N
<1> DEFINE g == CHOOSE u : ClosingBy(u, new)
<1>8. ClosingBy(g, new)
  BY <1>7
<1>9. closing(new) = g[N]
  BY DEF closing, ClosingBy, N
<1> HIDE DEF g
<1> DEFINE Q == {i \in Nat : i <= N => g[i] \in V}
<1>10. 0 \in Q
  <2>1. 0 \in 0 .. N
    BY <1>1
  <2>2. g[0] = base
    BY <1>8, <2>1 DEF ClosingBy, base, N
  <2> QED BY <1>3, <2>2
<1>11. ASSUME NEW i \in Nat, i \in Q
       PROVE  i + 1 \in Q
  <2> SUFFICES ASSUME i + 1 <= N
               PROVE  g[i + 1] \in V
    OBVIOUS
  <2>1. i + 1 \in 0 .. N /\ i + 1 \in 1 .. N /\ i + 1 # 0 /\ (i + 1) - 1 = i /\ i <= N
    BY <1>1
  <2>2. g[i + 1] = closeOne(g[i], pitched[i + 1])
    BY <1>8, <2>1 DEF ClosingBy, N
  <2>3. g[i] \in V
    BY <1>11, <2>1
  <2> QED BY <1>2, <2>1, <2>2, <2>3
<1> HIDE DEF Q
<1>12. N \in Q
  BY <1>1, <1>10, <1>11, NatSetInduction
<1> QED BY <1>1, <1>9, <1>12 DEF Q, V

-----------------------------------------------------------------------------
(* Investments.                                                            *)

(* One company pitches at a time, and it has never done so before. *)
LEMMA Proposed ==
  ASSUME IInv, NEW busy \in SUBSET Founders
  PROVE  /\ proposeEligible(busy) \in SUBSET candidates
         /\ proposeEligible(busy) # {} => first(proposeEligible(busy)) \in Companies
<1> DEFINE free == candidates \ busy
<1>1. free \in SUBSET Companies /\ company \in [Companies -> CompanyRows]
  BY DEF candidates, IInv, RowTypes, TypeOK
<1>2. proposeEligible(busy) = {} \/ (free # {} /\ proposeEligible(busy) = {first(free)})
  BY DEF proposeEligible
<1>3. free # {} => first(free) \in free
  BY <1>1, FirstOne
<1> DEFINE new == proposeEligible(busy)
<1>4. new \in SUBSET candidates /\ new \in SUBSET Companies
  BY <1>1, <1>2, <1>3
<1> HIDE DEF new
<1>5. new # {} => first(new) \in new
  BY <1>1, <1>4, FirstOne
<1> QED BY <1>4, <1>5 DEF new

LEMMA InvestmentsStep ==
  ASSUME IInv, investmentsPhase
  PROVE  IInv'
<1> USE DEF IInv
<1>1. /\ phase = "investments" /\ phase' = "formation"
      /\ UNCHANGED <<turn, goal, wallet, employer, company, job, employment, notice, offering, stock,
                     arrears, streak, windDown_, dividend>>
  BY DEF investmentsPhase, after
<1>2. PICK busy \in SUBSET Founders :
        LET new == proposeEligible(busy)
            w == closing(new)
        IN  /\ proposal' = w.proposal /\ contract' = w.contract /\ others' = w.others
            /\ cash' = w.cash /\ deployed' = w.deployed /\ shares' = w.shares
            /\ pitched' = IF new = {} THEN pitched ELSE Append(pitched, first(new))
            /\ talk' = [c \in Companies |->
                 IF c \in new THEN [NoTalk EXCEPT !.status = "active"]
                 ELSE IF w.proposal[c].status = "rejected" THEN [NoTalk EXCEPT !.status = "ended"]
                 ELSE closedTalk(c)]
  BY Zenon DEF investmentsPhase
<1> DEFINE new == proposeEligible(busy)
           w == closing(new)
<1>3. /\ new \in SUBSET candidates /\ new \in SUBSET Companies
      /\ new # {} => first(new) \in Companies
  BY Proposed DEF candidates
<1>4. w \in CloseRows /\ CloseSound(w, new)
  BY <1>3, ClosingSound DEF CloseWorlds
<1>5. /\ proposal' = w.proposal /\ contract' = w.contract /\ others' = w.others
      /\ cash' = w.cash /\ deployed' = w.deployed /\ shares' = w.shares
      /\ pitched' = IF new = {} THEN pitched ELSE Append(pitched, first(new))
      /\ talk' = [c \in Companies |->
           IF c \in new THEN [NoTalk EXCEPT !.status = "active"]
           ELSE IF w.proposal[c].status = "rejected" THEN [NoTalk EXCEPT !.status = "ended"]
           ELSE Spoken[c]]
  BY <1>2 DEF Spoken
<1> HIDE DEF new, w
<1>6. /\ contract' \in [Companies -> [ContractTypes -> LegalContracts]]
      /\ others' \in Balances /\ cash' \in [Companies -> Nat] /\ deployed' \in 0 .. FundSize
      /\ shares' \in [Companies -> CapTables] /\ proposal' \in [Companies -> ProposalRows]
  BY <1>4, <1>5 DEF CloseRows
<1>7. pitched' \in Seq(Companies) /\ talk' \in [Companies -> TalkRows]
  <2>1. pitched \in Seq(Companies)
    BY DEF RowTypes
  <2>2. pitched' \in Seq(Companies)
    BY <1>3, <1>5, <2>1
  <2>3. [NoTalk EXCEPT !.status = "active"] \in TalkRows /\ [NoTalk EXCEPT !.status = "ended"] \in TalkRows
    BY DEF NoTalk, TalkRows
  <2>4. \A c \in Companies : Spoken[c] \in TalkRows
    BY SettledSound
  <2> QED BY <1>5, <2>2, <2>3, <2>4
<1>8. RowTypes'
  BY <1>1, <1>6, <1>7 DEF RowTypes, TypeOK, after
<1>9. \A c \in Companies : proposal'[c].status \in {"agreed", "completed", "expired"} => talk'[c] = Spoken[c]
  BY <1>3, <1>4, <1>5 DEF CloseSound
<1>10. RoundInv'
  <2>1. RoundRows(proposal', Spoken, contract', shares')
    BY <1>4, <1>5 DEF CloseSound
  <2> QED BY <1>9, <2>1 DEF RoundInv, RoundRows
<1>11. DeployedInv'
  <2>1. PaidFor(proposal', talk') = PaidFor(proposal', Spoken)
    BY <1>9 DEF PaidFor
  <2> QED BY <1>4, <1>5, <2>1 DEF CloseSound, ClosePays, DeployedInv
<1>12. MoneyInv' /\ others'.counsel = others.counsel
  BY <1>1, <1>4, <1>5 DEF CloseSound, ClosePays, CloseKeeps, MoneyInv, totalMoney
<1>13. CounselInv'
  BY <1>1, <1>12 DEF CounselInv, Filed
<1>14. /\ \A c \in Companies : \A t \in ContractTypes :
            t # "investment" => contract'[c][t] = contract[c][t]
       /\ \A c \in Companies : shares'[c].founder = shares[c].founder
       /\ \A c \in Companies : company[c].status # "active" =>
            cash'[c] = cash[c] /\ contract'[c] = contract[c] /\ shares'[c] = shares[c]
       /\ \A c \in Companies : company[c].status \in Unstarted => proposal'[c].status = "none"
  BY <1>4, <1>5 DEF CloseSound, CloseKeeps
<1>15. IdleInv'
  BY <1>1, <1>14 DEF IdleInv, Unstarted
<1>16. FilingInv'
  <2>1. \A c \in Companies : contract'[c]["incorporation"] = contract[c]["incorporation"]
    BY <1>14 DEF ContractTypes
  <2>2. phase \notin Signing /\ phase' \in Filing
    BY <1>1, NoPhaseFails DEF Filing, Signing
  <2> QED BY <1>1, <2>1, <2>2 DEF FilingInv
<1>17. WorkInv'
  <2>1. \A c \in Companies : contract'[c]["employment"] = contract[c]["employment"]
    BY <1>14 DEF ContractTypes
  <2> QED BY <1>1, <2>1 DEF WorkInv, WorkRows
<1>18. FailureIsFinal'
  BY <1>1, <1>14 DEF FailureIsFinal
<1>19. IssuedInv'
  BY <1>1, <1>14 DEF IssuedInv
<1> QED BY <1>1, <1>8, <1>10, <1>11, <1>12, <1>13, <1>15, <1>16, <1>17, <1>18, <1>19, StageKept,
           WaterfallKept

LEMMA InvestmentFailedStep ==
  ASSUME IInv, investmentFailed
  PROVE  IInv'
<1>1. {} \in SUBSET candidates
  OBVIOUS
<1>2. closing({}) \in CloseRows
  BY <1>1, ClosingSound DEF CloseWorlds
<1>3. closing({}).fault \in {NoFault} \cup Failures
  BY <1>2 DEF CloseRows
<1>4. phase' \in Failures
  BY <1>3 DEF investmentFailed, fail
<1>5. /\ phase = "investments" /\ shares' = shares /\ roundKept
      /\ UNCHANGED <<turn, goal, wallet, employer, company, cash, contract, job, employment, notice,
                     offering, stock, arrears, streak, windDown_, others>>
  BY DEF investmentFailed, roundVars, roundKept
<1> QED BY <1>4, <1>5, FailStep

-----------------------------------------------------------------------------
(* Dividends.                                                              *)

(* A part's share of an amount is at most the amount. *)
LEMMA ShareOf ==
  ASSUME NEW x \in Nat, NEW part \in Nat, NEW total \in Nat \ {0}, part <= total
  PROVE  (x * part) \div total \in 0 .. x
<1> DEFINE m == x * part
           q == m \div total
<1>1. m \in Nat /\ m <= x * total
  <2>1. x * total = x * part + x * (total - part)
    OBVIOUS
  <2>2. x * part \in Nat /\ x * (total - part) \in Nat
    OBVIOUS
  <2> QED BY <2>1, <2>2
<1> HIDE DEF m
<1>2. q \in Nat /\ q * total <= m
  BY <1>1
<1> HIDE DEF q
<1>3. q <= x
  <2> SUFFICES ASSUME q >= x + 1
               PROVE  FALSE
    BY <1>2
  <2>1. q * total = (x + 1) * total + (q - (x + 1)) * total
    BY <1>2
  <2>2. (q - (x + 1)) * total \in Nat
    BY <1>2
  <2>3. (x + 1) * total = x * total + total
    OBVIOUS
  <2>4. x * total \in Nat /\ q * total \in Nat
    BY <1>2
  <2> QED BY <1>1, <1>2, <2>1, <2>2, <2>3, <2>4
<1> QED BY <1>2, <1>3 DEF q, m

LEMMA AllocateExact ==
  ASSUME NEW x \in Nat, NEW table \in CapTables,
         table.total = table.founder + table.fund, table.founder \in Nat, table.total > 0
  PROVE  LET split == allocate(x, table)
         IN  /\ split.amount = x /\ split.founder \in Nat /\ split.fund \in Nat
             /\ split.founder + split.fund = x
             /\ split = [amount |-> x, founder |-> split.founder, fund |-> split.fund]
<1> DEFINE f == (x * table.founder) \div table.total
           u == (x * table.fund) \div table.total
           left == x - f - u
           extra == IF left = 1 /\ (x * table.founder) % table.total >= (x * table.fund) % table.total
                    THEN 1 ELSE 0
<1>1. table.fund \in Nat /\ table.total \in Nat \ {0}
      /\ table.founder <= table.total /\ table.fund <= table.total
  BY DEF CapTables
<1>2. f \in 0 .. x /\ u \in 0 .. x
  BY <1>1, ShareOf
<1>3. allocate(x, table) = [amount |-> x, founder |-> f + extra, fund |-> u + left - extra]
  BY DEF allocate
<1>4. extra \in {0, 1} /\ (extra = 1 => left = 1)
  OBVIOUS
<1> HIDE DEF f, u, extra
<1>5. f + extra \in Nat /\ u + left - extra \in Nat /\ f + extra + (u + left - extra) = x
  BY <1>2, <1>4
<1> HIDE DEF left
<1> QED BY <1>3, <1>5

LEMMA DistributeStep ==
  ASSUME IInv, NEW c \in Companies, distribute(c)
  PROVE  IInv'
<1> USE DEF IInv
<1> DEFINE split == allocate(Dividend, shares[c])
<1>1. /\ phase = "decisions" /\ company[c].status = "active" /\ Dividend <= cash[c]
      /\ dividend' = [dividend EXCEPT ![c] = split]
      /\ wallet' = [wallet EXCEPT ![c] = @ + split.founder]
      /\ others' = [others EXCEPT !.fund = @ + split.fund]
      /\ cash' = [cash EXCEPT ![c] = @ - Dividend]
      /\ UNCHANGED <<phase, turn, goal, employer, company, contract, job, employment, notice, offering,
                     stock, arrears, streak, windDown_, proposal, talk, pitched, shares, deployed>>
  BY DEF distribute
<1>2. /\ wallet \in [Agents -> Nat] /\ cash \in [Companies -> Nat] /\ others \in Balances
      /\ dividend \in [Companies -> DistributionRows] /\ Dividend \in Nat \ {0}
      /\ c \in Agents /\ wallet[c] \in Nat /\ cash[c] \in Nat /\ shares[c] \in CapTables
      /\ Companies \in SUBSET Agents /\ Agents \in SUBSET Agents
  BY TownFacts, TownNumbers DEF RowTypes, TypeOK
<1>3. shares[c].founder = FoundingShares /\ FoundingShares \in Nat \ {0}
      /\ shares[c].total = shares[c].founder + shares[c].fund
  BY <1>1, TownNumbers DEF IssuedInv, Unstarted, RoundInv, RoundRows
<1>4. shares[c].fund \in Nat /\ shares[c].total > 0
  BY <1>2, <1>3 DEF CapTables
<1>5. /\ split.amount = Dividend /\ split.founder \in Nat /\ split.fund \in Nat
      /\ split.founder + split.fund = Dividend
      /\ split = [amount |-> Dividend, founder |-> split.founder, fund |-> split.fund]
  BY <1>2, <1>3, <1>4, AllocateExact
<1> HIDE DEF split
<1>6. split \in DistributionRows
  BY <1>5 DEF DistributionRows
<1>7. /\ wallet' \in [Agents -> Nat] /\ wallet'[c] = wallet[c] + split.founder
      /\ \A a \in Agents : a # c => wallet'[a] = wallet[a]
  BY <1>1, <1>2, <1>5
<1>8. /\ cash' \in [Companies -> Nat] /\ cash'[c] = cash[c] - Dividend
      /\ \A x \in Companies : x # c => cash'[x] = cash[x]
  BY <1>1, <1>2
<1>9. /\ others' \in Balances /\ others'.counsel = others.counsel /\ others'.utility = others.utility
      /\ others'.row = others.row /\ others'.fund = others.fund + split.fund
  BY <1>1, <1>2, <1>5 DEF Balances
<1>10. dividend' \in [Companies -> DistributionRows]
  BY <1>1, <1>2, <1>6
<1>11. RowTypes'
  BY <1>1, <1>7, <1>8, <1>9, <1>10 DEF RowTypes, TypeOK
<1>12. IdleInv'
  <2>1. \A x \in Companies : company[x].status \in Unstarted => cash'[x] = cash[x]
    BY <1>1, <1>8 DEF Unstarted
  <2> QED BY <1>1, <2>1 DEF IdleInv
<1>13. FilingInv'
  BY <1>1, FilingKept
<1>14. FailureIsFinal'
  <2>1. \A x \in Companies : company[x].status = "closed" => cash'[x] = cash[x]
    BY <1>1, <1>8
  <2> QED BY <1>1, <2>1 DEF FailureIsFinal
<1>15. MoneyInv'
  <2>1. /\ wallet \in [Agents -> Int] /\ wallet' \in [Agents -> Int]
        /\ cash \in [Companies -> Int] /\ cash' \in [Companies -> Int]
    BY <1>2, <1>7, <1>8
  <2>2. sumOver(wallet') = sumOver(wallet) - wallet[c] + wallet'[c] /\ sumOver(wallet) \in Int
    <3>1. sumOver(wallet) \in Int
      BY <1>2, <2>1, OverInt
    <3>2. sumOver(wallet') = sumOver(wallet) - wallet[c] + wallet'[c]
      BY <1>2, <1>7, <2>1, OverOne
    <3> QED BY <3>1, <3>2
  <2>3. sumOver(cash') = sumOver(cash) - cash[c] + cash'[c] /\ sumOver(cash) \in Int
    <3>1. sumOver(cash) \in Int
      BY <1>2, <2>1, OverInt
    <3>2. sumOver(cash') = sumOver(cash) - cash[c] + cash'[c]
      BY <1>2, <1>8, <2>1, OverOne
    <3> QED BY <3>1, <3>2
  <2>4. sumOver(wallet') = sumOver(wallet) + split.founder
    BY <1>2, <1>5, <1>7, <2>2
  <2>5. sumOver(cash') = sumOver(cash) - Dividend
    BY <1>2, <1>8, <2>3
  <2>6. /\ others.counsel \in Int /\ others.utility \in Int /\ others.fund \in Int /\ others.row \in Int
    BY <1>2 DEF Balances
  <2> QED BY <1>2, <1>5, <1>9, <2>2, <2>3, <2>4, <2>5, <2>6 DEF MoneyInv, totalMoney
<1>16. CounselInv'
  BY <1>1, <1>9 DEF CounselInv, Filed
<1> QED BY <1>1, <1>11, <1>12, <1>13, <1>14, <1>15, <1>16, StageKept, WorkKept, RoundKept, IssuedKept,
           DeployedKept, WaterfallKept

-----------------------------------------------------------------------------
(* The invariant, and what follows from it.                                *)

(* A step in which nothing changes. *)
LEMMA StutterStep ==
  ASSUME IInv, UNCHANGED vars
  PROVE  IInv'
<1> USE DEF IInv
<1>1. /\ UNCHANGED <<phase, turn, goal, wallet, employer, company, cash, contract, job>>
      /\ UNCHANGED <<employment, notice, offering, stock, arrears, streak, windDown_, others>>
      /\ UNCHANGED <<proposal, talk, pitched, shares, deployed, dividend>>
  BY DEF vars, lifeVars, roundVars
<1>2. RowTypes'
  BY <1>1 DEF RowTypes, TypeOK
<1> QED BY <1>1, <1>2, StageKept, IdleKept, FilingKept, WorkKept, FinalKept, RoundKept, IssuedKept,
           DeployedKept, MoneyKept, CounselKept, WaterfallKept

(* Nothing is founded, pitched, issued or paid at the start of a run. *)
LEMMA InitSound ==
  ASSUME Init
  PROVE  IInv
<1> USE DEF Init, LifeInit
<1>1. /\ FundCash \in Nat /\ WalletLevels \subseteq Nat /\ Companies \subseteq Agents /\ Companies # {}
      /\ Companies \in SUBSET Agents /\ Agents \in SUBSET Agents /\ Companies \subseteq Nat
  BY TownFacts
<1>2. wallet \in [Agents -> Nat] /\ wallet \in [Agents -> Int] /\ sumOver(wallet) \in Int
  <2>1. wallet \in [Agents -> Nat]
    <3> DEFINE levels == WalletLevels \cup {0}
    <3>1. levels \subseteq Nat
      BY <1>1
    <3>2. wallet \in [Agents -> levels]
      OBVIOUS
    <3> HIDE DEF levels, Init, LifeInit
    <3> QED BY <3>1, <3>2
  <2> HIDE DEF Init, LifeInit
  <2>2. wallet \in [Agents -> Int]
    BY <2>1
  <2> QED BY <1>1, <2>1, <2>2, OverInt
<1>3. noContract \in LegalContracts /\ noContract.status = "none" /\ noContract.obligation = "none"
  BY DEF noContract, LegalContracts, ContractStatuses, ObligationStatuses
<1>4. TypeOK
  <2>1. turn \in Companies
    BY <1>1, Smallest
  <2>2. phase \in DOMAIN after
    BY DEF after
  <2>3. employer \in [Agents -> Companies \cup {Nobody}] /\ goal \in [Founders -> {"active", "achieved"}]
        /\ cash \in [Companies -> Nat] /\ job \in [Companies -> JobStatuses]
    BY DEF JobStatuses
  <2>4. company \in [Companies -> CompanyRows]
    BY TownNumbers DEF NoCompany, CompanyRows
  <2>5. employment \in [Companies -> EmploymentRows]
    BY DEF NoEmployment, EmploymentRows
  <2>6. proposal \in [Companies -> ProposalRows]
    BY TownNumbers DEF NoProposal, ProposalRows, ProposalStatuses
  <2>7. shares \in [Companies -> CapTables]
    BY DEF CapTables
  <2>8. dividend \in [Companies -> DistributionRows]
    BY DEF NoDividend, DistributionRows
  <2>9. \A c \in Companies : ToSet(windDown_[c].claims) \subseteq RecoveryRows
    BY DEF NoWindDown, ToSet
  <2>10. contract \in [Companies -> [ContractTypes -> LegalContracts]]
    BY <1>3
  <2>11. notice \in [Companies -> none .. noticeDays]
    BY DEF none, noticeDays
  <2>12. streak \in [Companies -> 0 .. ShortfallDays - 1]
    BY TownNumbers
  <2>13. deployed \in 0 .. FundSize
    BY TownNumbers
  <2> HIDE DEF Init, LifeInit
  <2> QED BY <1>2, <2>1, <2>2, <2>3, <2>4, <2>5, <2>6, <2>7, <2>8, <2>9, <2>10, <2>11, <2>12, <2>13
          DEF TypeOK
<1>5. RowTypes
  <2>1. talk \in [Companies -> TalkRows]
    BY DEF NoTalk, TalkRows
  <2>2. pitched \in Seq(Companies)
    OBVIOUS
  <2>3. windDown_ \in [Companies -> [pool : Nat, claims : Seq(RecoveryRows)]]
    <3>1. <<>> \in Seq(RecoveryRows)
      OBVIOUS
    <3> QED BY <3>1 DEF NoWindDown
  <2>4. others \in Balances
    BY <1>1, <1>2 DEF Balances
  <2>5. offering \in [Companies -> BOOLEAN] /\ stock \in [Companies -> {0, 1}]
        /\ arrears \in [Companies -> {0, Bill}]
    OBVIOUS
  <2> HIDE DEF Init, LifeInit
  <2> QED BY <1>4, <2>1, <2>2, <2>3, <2>4, <2>5 DEF RowTypes
<1>6. \A c \in Companies :
        /\ company[c].status = "none" /\ company[c].stage = "none"
        /\ employment[c].status = "none" /\ job[c] = "none" /\ notice[c] = none
        /\ ~offering[c] /\ stock[c] = 0 /\ arrears[c] = 0 /\ cash[c] = 0
        /\ proposal[c].status = "none" /\ shares[c] = NoShares
        /\ \A t \in ContractTypes : contract[c][t] = noContract
        /\ windDown_[c] = NoWindDown
  BY DEF NoCompany, NoEmployment, NoProposal, NoShares
<1>7. \A a \in Agents : employer[a] = Nobody
  OBVIOUS
<1>8. \A c \in Companies : c # Nobody
  BY TownFacts DEF Nobody
<1>9. FundCash \in Int /\ others = [counsel |-> 0, utility |-> 0, fund |-> FundCash,
                                     row |-> - FundCash - sumOver(wallet)] /\ deployed = 0
  BY <1>1
<1>10. cash \in [Companies -> Int]
  OBVIOUS
<1> HIDE DEF Init, LifeInit
<1>11. StageInv
  BY <1>6 DEF StageInv
<1>12. IdleInv
  BY <1>6 DEF IdleInv
<1>13. "incorporation" \in ContractTypes /\ "employment" \in ContractTypes /\ "investment" \in ContractTypes
  BY DEF ContractTypes
<1>14. FilingInv
  BY <1>3, <1>6, <1>13 DEF FilingInv
<1>15. WorkInv
  <2>1. notice \in [Companies -> none .. noticeDays] /\ none # 1
    BY <1>4 DEF TypeOK, none
  <2> QED BY <1>3, <1>6, <1>7, <1>8, <1>13, <2>1 DEF WorkInv, WorkRows
<1>16. FailureIsFinal
  BY <1>6 DEF FailureIsFinal
<1>17. RoundInv
  BY <1>3, <1>6, <1>13 DEF RoundInv, RoundRows, NoShares
<1>18. IssuedInv
  BY <1>6 DEF IssuedInv, Unstarted
<1>19. DeployedInv
  <2> DEFINE f == PaidFor(proposal, talk)
  <2>1. f \in [Companies -> Int] /\ \A c \in Companies : f[c] = 0
    BY <1>6 DEF PaidFor
  <2> HIDE DEF f
  <2>2. sumOver(f) = 0
    BY <1>1, <2>1, OverNothing
  <2> QED BY <1>9, <2>2 DEF DeployedInv, f
<1>20. MoneyInv
  <2>1. sumOver(cash) = 0
    BY <1>1, <1>6, <1>10, OverNothing
  <2> QED BY <1>2, <1>9, <2>1 DEF MoneyInv, totalMoney
<1>21. CounselInv
  <2>1. Filed = {}
    BY <1>6 DEF Filed
  <2>2. Cardinality(Filed) = 0 /\ Fee * 0 = 0
    BY <2>1, FS_EmptySet, TownNumbers
  <2> QED BY <1>9, <2>2 DEF CounselInv
<1>22. WaterfallExact
  <2>1. PaidExactly(<<>>, 0)
    <3> DEFINE e == [i \in DOMAIN <<>> |-> <<>>[i].recovered]
    <3>1. e \in Summand(0) /\ 0 \in Nat
      BY DEF Summand
    <3> HIDE DEF e
    <3>2. sumTo(e, 0) = 0
      BY <3>1, SumSteps
    <3> QED BY <3>2 DEF PaidExactly, e
  <2> QED BY <1>6, <2>1, PaidExactlyAll DEF NoWindDown
<1> QED BY <1>5, <1>11, <1>12, <1>14, <1>15, <1>16, <1>17, <1>18, <1>19, <1>20, <1>21, <1>22 DEF IInv

(* Every handler keeps the invariant. *)
LEMMA StepSound ==
  ASSUME IInv, [Next]_vars
  PROVE  IInv'
<1>1. CASE UNCHANGED vars
  BY <1>1, StutterStep
<1>2. CASE lifeStep
  <2>1. LifeNext /\ issueFounding /\ roundKept
    BY <1>2 DEF lifeStep, roundKept
  <2>2. CASE processLegalObligations
    BY <2>1, <2>2, ObligationsStep
  <2>3. CASE goalsProgress
    BY <2>1, <2>3, GoalsStep
  <2>4. ASSUME NEW c \in Companies, requestEmploymentTermination(c)
        PROVE  IInv'
    BY <2>1, <2>4, NoticeStep
  <2>5. CASE formCompanies
    BY <2>1, <2>5, FormStep
  <2>6. CASE formationUnfunded
    BY <2>1, <2>6, UnfundedStep
  <2>7. CASE processLaunches
    BY <2>1, <2>7, LaunchStep
  <2>8. CASE settlement
    BY <2>1, <2>8, SettlementStep
  <2>9. CASE assessCompany
    BY <2>1, <2>9, AssessStep
  <2>10. CASE notAssessed
    BY <2>1, <2>10, NotAssessedStep
  <2>11. CASE liquidate
    BY <2>1, <2>11, LiquidateStep
  <2>12. CASE leftDangling
    BY <2>1, <2>12, DanglingStep
  <2> QED BY <2>1, <2>2, <2>3, <2>4, <2>5, <2>6, <2>7, <2>8, <2>9, <2>10, <2>11, <2>12 DEF LifeNext
<1>3. CASE conversationPhase
  BY <1>3, TalkStep
<1>4. CASE investmentsPhase
  BY <1>4, InvestmentsStep
<1>5. CASE investmentFailed
  BY <1>5, InvestmentFailedStep
<1>6. ASSUME NEW c \in Companies, distribute(c)
      PROVE  IInv'
  BY <1>6, DistributeStep
<1> QED BY <1>1, <1>2, <1>3, <1>4, <1>5, <1>6 DEF Next

(* The invariant holds from the first tick to the last. *)
THEOREM RoundInvariant == Spec => []IInv
BY InitSound, StepSound, PTL DEF Spec

(* What the rows of the tables promise each other follows from it. *)
LEMMA InvariantConsistent ==
  ASSUME IInv
  PROVE  CompaniesConsistent
<1> USE DEF IInv
<1>1. TypeOK /\ FailureIsFinal
  BY DEF RowTypes
<1>2. EmploymentAgrees
  BY DEF EmploymentAgrees, WorkInv, WorkRows
<1>3. CloseIsAtomic
  <2>1. \A c \in Companies : shares[c].founder \in {0, FoundingShares}
    BY DEF RowTypes, TypeOK, CapTables
  <2>2. others.fund >= 0
    BY DEF RowTypes, Balances
  <2>3. deployed = sumOver([c \in Companies |->
                      IF proposal[c].status = "completed" THEN talk[c].amount ELSE 0])
    BY DEF DeployedInv, PaidFor
  <2> QED BY <2>1, <2>2, <2>3 DEF CloseIsAtomic, RoundInv, RoundRows
<1> QED BY <1>1, <1>2, <1>3 DEF CompaniesConsistent

(* And so do the sums of the money moved. *)
LEMMA InvariantExact ==
  ASSUME IInv
  PROVE  MoneyExact
<1> USE DEF IInv
<1>1. totalMoney = 0 /\ WaterfallExact
  BY DEF MoneyInv
<1>2. others.counsel = Fee * Cardinality({c \in Companies :
        company[c].stage \notin {"none", "agreement_drafted"}})
  BY DEF CounselInv, Filed
<1>3. ASSUME NEW c \in Companies
      PROVE  /\ company[c].stage = "capitalized" => cash[c] = Capital
             /\ contract[c]["incorporation"].status # "breached"
  <2>1. company[c].status \in {"none", "forming", "registered", "active", "closed"}
    BY DEF RowTypes, TypeOK, CompanyRows
  <2>2. company[c].stage = "capitalized" => company[c].status = "registered"
    BY <2>1 DEF StageInv
  <2>3. company[c].stage = "capitalized" => cash[c] = Capital
    BY <2>2 DEF IdleInv, Unstarted
  <2> QED BY <2>3 DEF FilingInv
<1> QED BY <1>1, <1>2, <1>3 DEF MoneyExact, FormationPaidOnce

(* Whichever of formation, launch, closing and failure comes first on a tick, *)
(* rows, contracts, employers and cap tables agree, a closing is all or       *)
(* nothing, and nothing of a failed company comes back.                       *)
THEOREM CompaniesConsistentHolds == Spec => []CompaniesConsistent
BY RoundInvariant, InvariantConsistent, PTL

(* Fees and capital are paid once per company through every restart of the    *)
(* pipeline, creditors get the pool in the order of their claims, and the     *)
(* balances of the town add up to what they were.                             *)
THEOREM MoneyExactHolds == Spec => []MoneyExact
BY RoundInvariant, InvariantExact, PTL
=============================================================================
