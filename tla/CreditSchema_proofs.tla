------------------------- MODULE CreditSchema_proofs -------------------------
(***************************************************************************)
(* The books of the bank's loans are kept (BooksKept), the schema refuses  *)
(* no write of the handlers (SchemaAccepts), and every loan keeps its      *)
(* contract (LoanContracts), for any number of companies, any principal,   *)
(* term, rate and calendar, any breakers and any balances.                 *)
(*                                                                         *)
(* Three layers.  Sums over rows and companies: one changed summand        *)
(* changes the sum by as much (SumChange), and the rows of a schedule      *)
(* repay the principal exactly (RowsRepay).  One loan: it stands behind p  *)
(* completed rows and its misses (StandsAt), and a collection or a miss    *)
(* takes it to another such place (CollectLoan, MissLoan).  The run: the   *)
(* inductive invariant IInv holds the ledger against the loans, both in    *)
(* the world in hand (WorldInv) and in the committed one a rollback        *)
(* returns to (CommittedInv), and says that no company's loan is more than *)
(* one step of its contract beyond the last commit (LoanInv).              *)
(***************************************************************************)
EXTENDS CreditSchema, FiniteSetTheorems, WellFoundedInduction, TLAPS

-----------------------------------------------------------------------------
(* Induction over the naturals, stated with a set instead of an operator,   *)
(* and what it gives: a function defined by recursion up to a bound exists. *)

(* A set of numbers with 0 and every successor has them all: else its
   complement would have a least element. *)
LEMMA NatSetInduction ==
  ASSUME NEW S, 0 \in S, \A n \in Nat : n \in S => n + 1 \in S
  PROVE  Nat \subseteq S
<1> DEFINE R == OpToRel(<, Nat)
           T == Nat \ S
<1> SUFFICES ASSUME T # {}
             PROVE  FALSE
  OBVIOUS
<1>1. IsWellFoundedOn(R, Nat)
  BY Zenon, NatLessThanWellFounded
<1>2. PICK x \in T : \A y \in T : ~(<<y, x>> \in R)
  <2> HIDE DEF R
  <2> QED BY <1>1, WFMin
<1>3. x \in Nat /\ x # 0 /\ x - 1 \in Nat
  OBVIOUS
<1>4. <<x - 1, x>> \in R
  BY <1>3 DEF OpToRel
<1>5. x - 1 \in T
  <2>1. x - 1 \in S => (x - 1) + 1 \in S
    BY <1>3
  <2>2. (x - 1) + 1 = x
    BY <1>3
  <2> QED BY <1>3, <2>1, <2>2
<1> HIDE DEF R, T
<1> QED BY <1>2, <1>4, <1>5

(* Functions that take a value of V to a value of V, one for each step, ... *)
Steps(N, V) == [1..N -> [V -> V]]
(* ... and a function that starts at base and follows them. *)
Follows(f, N, V, base, step) ==
  f \in [0..N -> V] /\ f[0] = base /\ \A k \in 1..N : f[k] = step[k][f[k - 1]]

(* By induction on n there is such a function up to n. *)
LEMMA BoundedRecursion ==
  ASSUME NEW N \in Nat, NEW V, NEW base \in V, NEW step \in Steps(N, V)
  PROVE  \E f : Follows(f, N, V, base, step)
<1> DEFINE Upto(n, f) == f[0] = base /\ \A k \in 1..n : f[k] = step[k][f[k - 1]]
           S == {n \in Nat : n <= N => \E f \in [0..n -> V] : Upto(n, f)}
<1>1. 0 \in S
  <2> DEFINE f == [k \in 0..0 |-> base]
  <2>1. f \in [0..0 -> V] /\ f[0] = base
    OBVIOUS
  <2>2. Upto(0, f)
    BY <2>1
  <2> QED BY <2>1, <2>2
<1>2. ASSUME NEW n \in Nat, n \in S
      PROVE  n + 1 \in S
  <2> HIDE DEF Upto
  <2> SUFFICES ASSUME n + 1 <= N
               PROVE  \E g \in [0..(n + 1) -> V] : Upto(n + 1, g)
    OBVIOUS
  <2> USE DEF Upto
  <2>1. PICK f \in [0..n -> V] : Upto(n, f)
    BY <1>2
  <2>2. step[n + 1] \in [V -> V] /\ f[n] \in V
    BY DEF Steps
  <2> DEFINE g == [k \in 0..(n + 1) |-> IF k <= n THEN f[k] ELSE step[n + 1][f[n]]]
  <2>3. g \in [0..(n + 1) -> V] /\ g[0] = base
    BY <2>1, <2>2
  <2>4. ASSUME NEW k \in 1..(n + 1)
        PROVE  g[k] = step[k][g[k - 1]]
    <3>1. CASE k <= n
      BY <2>1, <3>1
    <3>2. CASE k = n + 1
      BY <3>2
    <3> QED BY <3>1, <3>2
  <2> QED BY <2>3, <2>4
<1> HIDE DEF S
<1>3. Nat \subseteq S
  BY <1>1, <1>2, NatSetInduction
<1> QED BY <1>3 DEF S, Follows

-----------------------------------------------------------------------------
(* Sums from 1 to n.                                                       *)

Summand(N) == [1 .. N -> Int]
Recursive(u, f, n) == u = [i \in 0 .. n |-> IF i = 0 THEN 0 ELSE u[i - 1] + f[i]]

(* One function holds the sums of f up to each bound. *)
LEMMA SumTable ==
  ASSUME NEW N \in Nat, NEW f \in Summand(N)
  PROVE  \E s \in [0 .. N -> Int] :
           /\ s[0] = 0
           /\ \A n \in 1 .. N : s[n] = s[n - 1] + f[n]
           /\ \A n \in 0 .. N : sumTo(f, n) = s[n]
<1> DEFINE step == [k \in 1 .. N |-> [v \in Int |-> v + f[k]]]
<1>1. \A k \in 1 .. N : f[k] \in Int
  BY DEF Summand
<1>2. step \in Steps(N, Int)
  BY <1>1 DEF Steps
<1> HIDE DEF step
<1>3. PICK s : Follows(s, N, Int, 0, step)
  BY <1>2, BoundedRecursion
<1>4. s \in [0 .. N -> Int] /\ s[0] = 0 /\ \A k \in 1 .. N : s[k] = step[k][s[k - 1]]
  BY <1>3 DEF Follows
<1>5. ASSUME NEW k \in 1 .. N
      PROVE  s[k] = s[k - 1] + f[k]
  <2>1. k - 1 \in 0 .. N
    OBVIOUS
  <2>2. s[k - 1] \in Int
    BY <1>4, <2>1
  <2>3. step[k][s[k - 1]] = s[k - 1] + f[k]
    BY <2>2 DEF step
  <2> QED BY <1>4, <2>3
<1>6. ASSUME NEW n \in 0 .. N
      PROVE  sumTo(f, n) = s[n]
  <2> DEFINE g == CHOOSE u : Recursive(u, f, n)
  <2>1. Recursive([i \in 0 .. n |-> s[i]], f, n)
    <3>1. ASSUME NEW i \in 0 .. n
          PROVE  s[i] = IF i = 0 THEN 0 ELSE [j \in 0 .. n |-> s[j]][i - 1] + f[i]
      <4>1. CASE i = 0
        BY <1>4, <4>1
      <4>2. CASE i # 0
        <5>1. i \in 1 .. N /\ i - 1 \in 0 .. n
          BY <4>2
        <5> QED BY <1>5, <4>2, <5>1
      <4> QED BY <4>1, <4>2
    <3> QED BY <3>1 DEF Recursive
  <2>2. Recursive(g, f, n)
    BY <2>1
  <2>3. sumTo(f, n) = g[n]
    BY DEF sumTo, Recursive
  <2> HIDE DEF g
  <2> DEFINE S == {i \in Nat : i <= n => g[i] = s[i]}
  <2>4. 0 \in S
    BY <1>4, <2>2 DEF Recursive
  <2>5. ASSUME NEW i \in Nat, i \in S
        PROVE  i + 1 \in S
    <3> SUFFICES ASSUME i + 1 <= n
                 PROVE  g[i + 1] = s[i + 1]
      OBVIOUS
    <3>1. i + 1 \in 1 .. N /\ i + 1 \in 0 .. n /\ i + 1 # 0 /\ (i + 1) - 1 = i /\ i <= n
      OBVIOUS
    <3>2. g[i + 1] = g[i] + f[i + 1]
      BY <2>2, <3>1 DEF Recursive
    <3>3. s[i + 1] = s[i] + f[i + 1]
      BY <1>5, <3>1
    <3> QED BY <2>5, <3>1, <3>2, <3>3
  <2> HIDE DEF S
  <2>6. Nat \subseteq S
    BY <2>4, <2>5, NatSetInduction
  <2> QED BY <2>3, <2>6 DEF S
<1> QED BY <1>4, <1>5, <1>6

(* What the sum is, step by step. *)
LEMMA SumSteps ==
  ASSUME NEW N \in Nat, NEW f \in Summand(N)
  PROVE  /\ sumTo(f, 0) = 0
         /\ \A n \in 0 .. N : sumTo(f, n) \in Int
         /\ \A n \in Nat : n + 1 <= N => sumTo(f, n + 1) = sumTo(f, n) + f[n + 1]
<1>1. PICK s \in [0 .. N -> Int] :
        /\ s[0] = 0
        /\ \A n \in 1 .. N : s[n] = s[n - 1] + f[n]
        /\ \A n \in 0 .. N : sumTo(f, n) = s[n]
  BY SumTable
<1>2. ASSUME NEW n \in Nat, n + 1 <= N
      PROVE  sumTo(f, n + 1) = sumTo(f, n) + f[n + 1]
  <2>1. n + 1 \in 1 .. N /\ n + 1 \in 0 .. N /\ n \in 0 .. N /\ (n + 1) - 1 = n
    BY <1>2
  <2> QED BY <1>1, <2>1
<1>3. 0 \in 0 .. N
  OBVIOUS
<1> QED BY <1>1, <1>2, <1>3

(* The sum of a sum, and of functions that agree. *)
LEMMA SumAdds ==
  ASSUME NEW N \in Nat, NEW f \in Summand(N), NEW g \in Summand(N), NEW h \in Summand(N),
         \A n \in 1 .. N : h[n] = f[n] + g[n]
  PROVE  sumTo(h, N) = sumTo(f, N) + sumTo(g, N)
<1> DEFINE S == {n \in Nat : n <= N => sumTo(h, n) = sumTo(f, n) + sumTo(g, n)}
<1>1. 0 \in S
  BY SumSteps
<1>2. ASSUME NEW n \in Nat, n \in S
      PROVE  n + 1 \in S
  <2> SUFFICES ASSUME n + 1 <= N
               PROVE  sumTo(h, n + 1) = sumTo(f, n + 1) + sumTo(g, n + 1)
    OBVIOUS
  <2>1. n + 1 \in 1 .. N /\ n \in 0 .. N /\ n <= N
    OBVIOUS
  <2>2. /\ sumTo(h, n + 1) = sumTo(h, n) + h[n + 1]
        /\ sumTo(f, n + 1) = sumTo(f, n) + f[n + 1]
        /\ sumTo(g, n + 1) = sumTo(g, n) + g[n + 1]
    BY SumSteps
  <2>3. sumTo(h, n) = sumTo(f, n) + sumTo(g, n) /\ sumTo(f, n) \in Int /\ sumTo(g, n) \in Int
    BY <1>2, <2>1, SumSteps
  <2>4. f[n + 1] \in Int /\ g[n + 1] \in Int /\ h[n + 1] = f[n + 1] + g[n + 1]
    BY <2>1 DEF Summand
  <2> QED BY <2>2, <2>3, <2>4
<1> HIDE DEF S
<1>3. Nat \subseteq S
  BY <1>1, <1>2, NatSetInduction
<1> QED BY <1>3 DEF S

LEMMA SumSame ==
  ASSUME NEW N \in Nat, NEW f \in Summand(N), NEW g \in Summand(N), NEW p \in 0 .. N,
         \A n \in 1 .. p : f[n] = g[n],
         \A n \in p + 1 .. N : f[n] = 0
  PROVE  sumTo(f, N) = sumTo(g, p)
<1> DEFINE S == {n \in Nat : n <= N => sumTo(f, n) = IF n <= p THEN sumTo(g, n) ELSE sumTo(g, p)}
<1>1. 0 \in S
  BY SumSteps
<1>2. ASSUME NEW n \in Nat, n \in S
      PROVE  n + 1 \in S
  <2> SUFFICES ASSUME n + 1 <= N
               PROVE  sumTo(f, n + 1) = IF n + 1 <= p THEN sumTo(g, n + 1) ELSE sumTo(g, p)
    OBVIOUS
  <2>1. /\ sumTo(f, n + 1) = sumTo(f, n) + f[n + 1]
        /\ sumTo(g, n + 1) = sumTo(g, n) + g[n + 1]
    BY SumSteps
  <2>2. n \in 0 .. N /\ n <= N
    OBVIOUS
  <2>3. sumTo(g, p) \in Int /\ sumTo(g, n) \in Int
    BY <2>2, SumSteps
  <2>4. CASE n + 1 <= p
    <3>1. n + 1 \in 1 .. p /\ n <= p
      BY <2>4
    <3> QED BY <1>2, <2>1, <2>2, <2>4, <3>1
  <2>5. CASE ~(n + 1 <= p)
    <3>1. n + 1 \in p + 1 .. N
      BY <2>5
    <3>2. n <= p => n = p
      BY <2>5
    <3> QED BY <1>2, <2>1, <2>2, <2>3, <2>5, <3>1, <3>2
  <2> QED BY <2>4, <2>5
<1> HIDE DEF S
<1>3. Nat \subseteq S
  BY <1>1, <1>2, NatSetInduction
<1>4. N <= p => N = p
  OBVIOUS
<1> QED BY <1>3, <1>4 DEF S

(* Nothing negative: the sum is at least any of its terms. *)
LEMMA SumFloor ==
  ASSUME NEW N \in Nat, NEW f \in [1 .. N -> Nat]
  PROVE  sumTo(f, N) \in Nat /\ \A k \in 1 .. N : f[k] <= sumTo(f, N)
<1>0. f \in Summand(N)
  BY DEF Summand
<1> DEFINE S == {n \in Nat : n <= N =>
                   sumTo(f, n) \in Nat /\ \A k \in 1 .. n : f[k] <= sumTo(f, n)}
<1>1. 0 \in S
  BY <1>0, SumSteps
<1>2. ASSUME NEW n \in Nat, n \in S
      PROVE  n + 1 \in S
  <2> SUFFICES ASSUME n + 1 <= N
               PROVE  /\ sumTo(f, n + 1) \in Nat
                      /\ \A k \in 1 .. n + 1 : f[k] <= sumTo(f, n + 1)
    OBVIOUS
  <2>1. sumTo(f, n + 1) = sumTo(f, n) + f[n + 1]
    BY <1>0, SumSteps
  <2>2. f[n + 1] \in Nat /\ sumTo(f, n) \in Nat /\ \A k \in 1 .. n : f[k] <= sumTo(f, n)
    BY <1>2
  <2>3. ASSUME NEW k \in 1 .. n + 1
        PROVE  f[k] <= sumTo(f, n + 1)
    <3>1. CASE k = n + 1
      BY <2>1, <2>2, <3>1
    <3>2. CASE k # n + 1
      <4>1. k \in 1 .. n /\ f[k] \in Nat
        BY <3>2
      <4> QED BY <2>1, <2>2, <4>1
    <3> QED BY <3>1, <3>2
  <2> QED BY <2>1, <2>2, <2>3
<1> HIDE DEF S
<1>3. Nat \subseteq S
  BY <1>1, <1>2, NatSetInduction
<1> QED BY <1>3 DEF S

(* One term changes. *)
LEMMA SumChange ==
  ASSUME NEW N \in Nat, NEW f \in Summand(N), NEW g \in Summand(N), NEW c \in 1 .. N,
         \A n \in 1 .. N : n # c => g[n] = f[n]
  PROVE  sumTo(g, N) = sumTo(f, N) - f[c] + g[c]
<1> DEFINE S == {n \in Nat : n <= N =>
                   sumTo(g, n) = IF n < c THEN sumTo(f, n) ELSE sumTo(f, n) - f[c] + g[c]}
<1>1. 0 \in S
  BY SumSteps
<1>2. ASSUME NEW n \in Nat, n \in S
      PROVE  n + 1 \in S
  <2> SUFFICES ASSUME n + 1 <= N
               PROVE  sumTo(g, n + 1) = IF n + 1 < c THEN sumTo(f, n + 1)
                                        ELSE sumTo(f, n + 1) - f[c] + g[c]
    OBVIOUS
  <2>1. /\ sumTo(f, n + 1) = sumTo(f, n) + f[n + 1]
        /\ sumTo(g, n + 1) = sumTo(g, n) + g[n + 1]
    BY SumSteps
  <2>2. n \in 0 .. N /\ n <= N /\ n + 1 \in 1 .. N
    OBVIOUS
  <2>3. sumTo(f, n) \in Int /\ sumTo(g, n) \in Int
    BY <2>2, SumSteps
  <2>4. f[n + 1] \in Int /\ g[n + 1] \in Int /\ f[c] \in Int /\ g[c] \in Int
    BY <2>2 DEF Summand
  <2>5. sumTo(g, n) = IF n < c THEN sumTo(f, n) ELSE sumTo(f, n) - f[c] + g[c]
    BY <1>2, <2>2
  <2>6. CASE n + 1 = c
    BY <2>1, <2>3, <2>4, <2>5, <2>6
  <2>7. CASE n + 1 # c
    <3>1. g[n + 1] = f[n + 1]
      BY <2>2, <2>7
    <3>2. n < c <=> n + 1 < c
      BY <2>7
    <3> QED BY <2>1, <2>3, <2>4, <2>5, <3>1, <3>2
  <2> QED BY <2>6, <2>7
<1> HIDE DEF S
<1>3. Nat \subseteq S
  BY <1>1, <1>2, NatSetInduction
<1> QED BY <1>3 DEF S

-----------------------------------------------------------------------------
(* The schedule.                                                           *)

LEMMA ScaleFacts ==
  /\ NCompanies \in Nat \ {0} /\ Principal \in Nat \ {0} /\ Term \in Nat \ {0}
  /\ DaysPerMonth \in Nat \ {0} /\ ShortfallDays \in Nat \ {0}
  /\ RateBp \in Nat /\ Reserve \in Nat /\ ReserveMinBp \in Nat
  /\ OpeningCapital \in Nat /\ CapitalMinBp \in Nat
  /\ Term <= Principal
  /\ CashLevels \subseteq Nat /\ DepositLevels \subseteq Nat
BY ScaleAssumption

LEMMA Quotient ==
  ASSUME NEW a \in Nat, NEW b \in Nat \ {0}
  PROVE  a \div b \in Nat /\ b * (a \div b) <= a /\ (b <= a => a \div b >= 1)
OBVIOUS

LEMMA Multiples ==
  ASSUME NEW a \in Nat, NEW b \in Nat, NEW x \in Nat, a <= b
  PROVE  a * x \in Nat /\ a * x <= b * x /\ (a + 1) * x = a * x + x
OBVIOUS

LEMMA RegularPrincipal ==
  /\ regularPrincipal \in Nat \ {0}
  /\ Term * regularPrincipal <= Principal
BY ScaleFacts, Quotient DEF regularPrincipal

(* Every row opens on something, and repays something. *)
LEMMA RowAmounts ==
  ASSUME NEW k \in Rows
  PROVE  /\ openingPrincipal(k) \in Nat \ {0}
         /\ principalDue(k) \in Nat \ {0}
<1> DEFINE r == regularPrincipal
<1>1. r \in Nat \ {0} /\ Term * r <= Principal
  BY RegularPrincipal
<1>2. k - 1 \in Nat /\ k \in Nat /\ k <= Term /\ Term \in Nat
  BY ScaleFacts DEF Rows
<1> HIDE DEF r
<1>3. (k - 1) * r \in Nat /\ k * r = (k - 1) * r + r
  <2>1. ((k - 1) + 1) * r = (k - 1) * r + r /\ (k - 1) * r \in Nat
    BY <1>1, <1>2, Multiples
  <2> QED BY <1>2, <2>1
<1>4. k * r \in Nat /\ k * r <= Term * r
  BY <1>1, <1>2, Multiples
<1>5. Term * r \in Nat
  BY <1>1, <1>2, Multiples
<1> DEFINE x == (k - 1) * r
           y == k * r
           z == Term * r
<1>6. x \in Nat /\ y = x + r /\ y <= z /\ z <= Principal /\ z \in Nat
  BY <1>1, <1>3, <1>4, <1>5
<1>7. openingPrincipal(k) = Principal - x
  BY DEF openingPrincipal, r
<1> HIDE DEF x, y, z
<1>8. openingPrincipal(k) \in Nat \ {0}
  BY <1>1, <1>6, <1>7, ScaleFacts
<1> QED BY <1>1, <1>8 DEF principalDue, r

LEMMA Rounding ==
  ASSUME NEW x \in Nat, NEW n \in Nat
  PROVE  mulDiv(x, n, 10000 * 360) \in Nat
<1>1. x * n \in Nat
  OBVIOUS
<1> DEFINE y == x * n
<1> HIDE DEF y
<1>2. y \div (10000 * 360) \in Nat
  BY <1>1, Quotient DEF y
<1> QED BY <1>2 DEF mulDiv, y

LEMMA RowInterest ==
  ASSUME NEW k \in Rows
  PROVE  interestDue(k) \in Nat
<1>1. RateBp * 30 \in Nat
  BY ScaleFacts
<1> QED BY <1>1, RowAmounts, Rounding DEF interestDue

Principals(ks) == [k \in Rows |-> IF k \in ks THEN principalDue(k) ELSE 0]
Interests(ks) == [k \in Rows |-> IF k \in ks THEN interestDue(k) ELSE 0]

LEMMA AmountsOf ==
  ASSUME NEW ks
  PROVE  /\ Principals(ks) \in [1 .. Term -> Nat] /\ Principals(ks) \in Summand(Term)
         /\ Interests(ks) \in [1 .. Term -> Nat] /\ Interests(ks) \in Summand(Term)
         /\ principalOf(ks) = sumTo(Principals(ks), Term)
         /\ interestOf(ks) = sumTo(Interests(ks), Term)
<1>1. \A k \in Rows : principalDue(k) \in Nat /\ interestDue(k) \in Nat
  BY RowAmounts, RowInterest
<1>2. Principals(ks) \in [1 .. Term -> Nat]
  BY <1>1 DEF Principals, Rows
<1>3. Interests(ks) \in [1 .. Term -> Nat]
  BY <1>1 DEF Interests, Rows
<1>4. Principals(ks) \in Summand(Term) /\ Interests(ks) \in Summand(Term)
  BY <1>2, <1>3 DEF Summand
<1> QED BY <1>2, <1>3, <1>4 DEF Principals, Interests, principalOf, interestOf

(* What a set of rows is worth: never negative, positive if it has a row,
   and additive. *)
LEMMA Worth ==
  ASSUME NEW ks
  PROVE  /\ principalOf(ks) \in Nat /\ interestOf(ks) \in Nat
         /\ \A k \in Rows : k \in ks => principalOf(ks) >= 1
<1>1. Term \in Nat
  BY ScaleFacts
<1>2. principalOf(ks) \in Nat /\ interestOf(ks) \in Nat
  BY <1>1, AmountsOf, SumFloor
<1>3. ASSUME NEW k \in Rows, k \in ks
      PROVE  principalOf(ks) >= 1
  <2>1. Principals(ks)[k] <= principalOf(ks)
    BY <1>1, AmountsOf, SumFloor DEF Rows
  <2>2. Principals(ks)[k] = principalDue(k)
    BY <1>3 DEF Principals
  <2> QED BY <1>2, <2>1, <2>2, RowAmounts
<1> QED BY <1>2, <1>3

LEMMA WorthAdds ==
  ASSUME NEW ks, NEW js, \A k \in Rows : ~(k \in ks /\ k \in js)
  PROVE  /\ principalOf(ks \cup js) = principalOf(ks) + principalOf(js)
         /\ interestOf(ks \cup js) = interestOf(ks) + interestOf(js)
<1>1. Term \in Nat
  BY ScaleFacts
<1>2. \A k \in Rows : principalDue(k) \in Nat /\ interestDue(k) \in Nat
  BY RowAmounts, RowInterest
<1>3. \A k \in 1 .. Term : Principals(ks \cup js)[k] = Principals(ks)[k] + Principals(js)[k]
  BY <1>2 DEF Principals, Rows
<1>4. \A k \in 1 .. Term : Interests(ks \cup js)[k] = Interests(ks)[k] + Interests(js)[k]
  BY <1>2 DEF Interests, Rows
<1>5. principalOf(ks \cup js) = principalOf(ks) + principalOf(js)
  <2>1. /\ Principals(ks) \in Summand(Term) /\ principalOf(ks) = sumTo(Principals(ks), Term)
        /\ Principals(js) \in Summand(Term) /\ principalOf(js) = sumTo(Principals(js), Term)
        /\ Principals(ks \cup js) \in Summand(Term)
        /\ principalOf(ks \cup js) = sumTo(Principals(ks \cup js), Term)
    BY AmountsOf
  <2>2. sumTo(Principals(ks \cup js), Term) = sumTo(Principals(ks), Term) + sumTo(Principals(js), Term)
    BY <1>1, <1>3, <2>1, SumAdds
  <2> QED BY <2>1, <2>2
<1>6. interestOf(ks \cup js) = interestOf(ks) + interestOf(js)
  <2>1. /\ Interests(ks) \in Summand(Term) /\ interestOf(ks) = sumTo(Interests(ks), Term)
        /\ Interests(js) \in Summand(Term) /\ interestOf(js) = sumTo(Interests(js), Term)
        /\ Interests(ks \cup js) \in Summand(Term)
        /\ interestOf(ks \cup js) = sumTo(Interests(ks \cup js), Term)
    BY AmountsOf
  <2>2. sumTo(Interests(ks \cup js), Term) = sumTo(Interests(ks), Term) + sumTo(Interests(js), Term)
    BY <1>1, <1>4, <2>1, SumAdds
  <2> QED BY <2>1, <2>2
<1> QED BY <1>5, <1>6

LEMMA WorthOfNothing ==
  ASSUME NEW ks, \A k \in Rows : k \notin ks
  PROVE  principalOf(ks) = 0 /\ interestOf(ks) = 0
<1>1. Term \in Nat /\ 0 \in 0 .. Term
  BY ScaleFacts
<1>2. /\ \A k \in 1 .. 0 : Principals(ks)[k] = Principals(ks)[k]
      /\ \A k \in 0 + 1 .. Term : Principals(ks)[k] = 0
  BY DEF Principals, Rows
<1>3. /\ \A k \in 1 .. 0 : Interests(ks)[k] = Interests(ks)[k]
      /\ \A k \in 0 + 1 .. Term : Interests(ks)[k] = 0
  BY DEF Interests, Rows
<1>4. principalOf(ks) = 0
  <2>1. sumTo(Principals(ks), Term) = sumTo(Principals(ks), 0)
    BY <1>1, <1>2, AmountsOf, SumSame
  <2> QED BY <1>1, <2>1, AmountsOf, SumSteps
<1>5. interestOf(ks) = 0
  <2>1. sumTo(Interests(ks), Term) = sumTo(Interests(ks), 0)
    BY <1>1, <1>3, AmountsOf, SumSame
  <2> QED BY <1>1, <2>1, AmountsOf, SumSteps
<1> QED BY <1>4, <1>5

(* The rows repay the principal exactly: all but the last the same, and the
   last one the rest. *)
LEMMA RowsRepay == principalOf(Rows) = Principal
<1> DEFINE f == Principals(Rows)
           r == regularPrincipal
           S == {n \in Nat : n < Term => sumTo(f, n) = n * r}
<1>0. Term \in Nat \ {0} /\ r \in Nat
  BY ScaleFacts, RegularPrincipal
<1>1. f \in Summand(Term) /\ principalOf(Rows) = sumTo(f, Term)
  BY AmountsOf
<1>2. /\ sumTo(f, 0) = 0
      /\ \A n \in 0 .. Term : sumTo(f, n) \in Int
      /\ \A n \in Nat : n + 1 <= Term => sumTo(f, n + 1) = sumTo(f, n) + f[n + 1]
  BY <1>0, <1>1, SumSteps
<1>3. \A k \in Rows : f[k] = principalDue(k)
  BY DEF Principals
<1> HIDE DEF f, r
<1>4. 0 \in S
  BY <1>0, <1>2
<1>5. ASSUME NEW n \in Nat, n \in S
      PROVE  n + 1 \in S
  <2> SUFFICES ASSUME n + 1 < Term
               PROVE  sumTo(f, n + 1) = (n + 1) * r
    OBVIOUS
  <2>1. n + 1 \in Rows /\ n + 1 # Term /\ n < Term /\ n + 1 <= Term
    BY <1>0 DEF Rows
  <2>2. f[n + 1] = r
    BY <1>3, <2>1 DEF principalDue, r
  <2>3. (n + 1) * r = n * r + r
    BY <1>0, Multiples
  <2> QED BY <1>2, <1>5, <2>1, <2>2, <2>3
<1> HIDE DEF S
<1>6. Nat \subseteq S
  BY <1>4, <1>5, NatSetInduction
<1>7. PICK m \in Nat : m + 1 = Term
  <2>1. Term - 1 \in Nat /\ (Term - 1) + 1 = Term
    BY <1>0
  <2> QED BY <2>1
<1>8. sumTo(f, m) = m * r
  BY <1>0, <1>6, <1>7 DEF S
<1>9. f[Term] = Principal - m * r
  <2>1. Term \in Rows /\ Term - 1 = m
    BY <1>0, <1>7 DEF Rows
  <2>2. principalDue(Term) = Principal - (Term - 1) * r
    BY <2>1 DEF principalDue, openingPrincipal, r
  <2> QED BY <1>3, <2>1, <2>2
<1>10. sumTo(f, Term) = sumTo(f, m) + f[Term]
  BY <1>0, <1>2, <1>7
<1>11. m * r \in Nat
  BY <1>0, Multiples
<1> DEFINE x == m * r
<1>12. x \in Nat /\ sumTo(f, m) = x /\ f[Term] = Principal - x
  BY <1>8, <1>9, <1>11
<1> HIDE DEF x
<1> QED BY <1>1, <1>10, <1>12, ScaleFacts

(* The first rows, and the rows after them. *)
LEMMA FirstRows ==
  ASSUME NEW p \in 0 .. Term, NEW k \in 0 .. Term, p <= k
  PROVE  /\ principalOf(1 .. k) = principalOf(1 .. p) + principalOf(p + 1 .. k)
         /\ interestOf(1 .. k) = interestOf(1 .. p) + interestOf(p + 1 .. k)
         /\ p < k => principalOf(p + 1 .. k) >= 1
<1>1. 1 .. k = (1 .. p) \cup (p + 1 .. k)
  BY ScaleFacts
<1>2. \A j \in Rows : ~(j \in 1 .. p /\ j \in p + 1 .. k)
  BY ScaleFacts DEF Rows
<1>3. p < k => k \in Rows /\ k \in p + 1 .. k
  BY ScaleFacts DEF Rows
<1> QED BY <1>1, <1>2, <1>3, WorthAdds, Worth

(* What is left to repay after p rows. *)
LEMMA LeftAfter ==
  ASSUME NEW p \in 0 .. Term
  PROVE  /\ Principal - principalOf(1 .. p) \in 0 .. Principal
         /\ Principal - principalOf(1 .. p) = principalOf(p + 1 .. Term)
         /\ p < Term => Principal - principalOf(1 .. p) > 0
         /\ p = Term => Principal - principalOf(1 .. p) = 0
<1>1. Term \in 0 .. Term /\ p <= Term
  BY ScaleFacts
<1>2. principalOf(1 .. Term) = Principal
  BY RowsRepay DEF Rows
<1>3. /\ Principal = principalOf(1 .. p) + principalOf(p + 1 .. Term)
      /\ p < Term => principalOf(p + 1 .. Term) >= 1
  BY <1>1, <1>2, FirstRows
<1>4. principalOf(1 .. p) \in Nat /\ principalOf(p + 1 .. Term) \in Nat
  BY Worth
<1> QED BY <1>2, <1>3, <1>4, ScaleFacts

-----------------------------------------------------------------------------
(* One loan: p rows are completed, the missed ones follow, the rest is due. *)

RowsAt(l, p) ==
  \A k \in Rows :
    /\ k <= p => l.rows[k] = "completed"
    /\ p < k /\ k <= p + l.misses => l.rows[k] = "missed"
    /\ p + l.misses < k => l.rows[k] = "due"

StandsAt(l, p) ==
  /\ p \in 0 .. Term
  /\ RowsAt(l, p)
  /\ l.status = "none" => l = NoLoan
  /\ l.status # "none" => l.outstanding = Principal - principalOf(1 .. p)
  /\ liveLoan(l) => p < Term /\ l.misses < 3 /\ p + l.misses <= Term
  /\ l.status = "paid_off" => p = Term /\ l.misses = 0
  /\ l.status = "defaulted" => l.misses = 3 /\ p + 3 <= Term

LoanSound(l) == \E p : StandsAt(l, p)

\* Its rows are evaluated on their day: before the collection of the day, and after.
Today(l) == liveLoan(l) => \A k \in Rows : l.rows[k] = "due" => k * DaysPerMonth >= l.age
OnTime(l) == liveLoan(l) => \A k \in Rows : l.rows[k] = "due" => k * DaysPerMonth > l.age

paidOf(l) == Cardinality(completedOf(l))

LEMMA RowFacts ==
  ASSUME NEW l \in LoanRows
  PROVE  /\ l.status \in {"none", "disbursed", "repaying", "paid_off", "defaulted"}
         /\ l.age \in 0 .. Term * DaysPerMonth + 1 /\ l.outstanding \in 0 .. Principal
         /\ l.misses \in 0 .. 3 /\ l.rows \in [Rows -> InstallmentRows]
         /\ l = [status |-> l.status, age |-> l.age, outstanding |-> l.outstanding,
                 misses |-> l.misses, rows |-> l.rows]
BY DEF LoanRows, LOAN_DEFAULT_CONSECUTIVE_MISSES

(* A row of loans with columns of its own: in full, and as updates of l. *)
RowOf(s, a, o, n, w) == [status |-> s, age |-> a, outstanding |-> o, misses |-> n, rows |-> w]
SetOutstanding(l, o) == [l EXCEPT !.outstanding = o]
SetMisses(l, n) == [l EXCEPT !.misses = n]
SetStatus(l, s) == [l EXCEPT !.status = s]
SetRows(l, w) == [l EXCEPT !.rows = w]
PaidRow(l, s, o, n, w) == [l EXCEPT !.outstanding = o, !.misses = n, !.status = s, !.rows = w]
MissedRow(l, s, n, w) == [l EXCEPT !.misses = n, !.status = s, !.rows = w]

LEMMA RowChange ==
  ASSUME NEW l \in LoanRows, NEW s, NEW o, NEW n, NEW w
  PROVE  /\ PaidRow(l, s, o, n, w) = RowOf(s, l.age, o, n, w)
         /\ MissedRow(l, s, n, w) = RowOf(s, l.age, l.outstanding, n, w)
<1>1. ASSUME NEW t, NEW a, NEW p, NEW m, NEW v, NEW x
      PROVE  SetOutstanding(RowOf(t, a, p, m, v), x) = RowOf(t, a, x, m, v)
  BY DEF RowOf, SetOutstanding
<1>2. ASSUME NEW t, NEW a, NEW p, NEW m, NEW v, NEW x
      PROVE  SetMisses(RowOf(t, a, p, m, v), x) = RowOf(t, a, p, x, v)
  BY DEF RowOf, SetMisses
<1>3. ASSUME NEW t, NEW a, NEW p, NEW m, NEW v, NEW x
      PROVE  SetStatus(RowOf(t, a, p, m, v), x) = RowOf(x, a, p, m, v)
  BY DEF RowOf, SetStatus
<1>4. ASSUME NEW t, NEW a, NEW p, NEW m, NEW v, NEW x
      PROVE  SetRows(RowOf(t, a, p, m, v), x) = RowOf(t, a, p, m, x)
  BY DEF RowOf, SetRows
<1>5. /\ PaidRow(l, s, o, n, w) = SetRows(SetStatus(SetMisses(SetOutstanding(l, o), n), s), w)
      /\ MissedRow(l, s, n, w) = SetRows(SetStatus(SetMisses(l, n), s), w)
  BY DEF PaidRow, MissedRow, SetOutstanding, SetMisses, SetStatus, SetRows
<1>6. l = RowOf(l.status, l.age, l.outstanding, l.misses, l.rows)
  BY RowFacts DEF RowOf
<1> DEFINE a == l.age
           p == l.outstanding
           t == l.status
           m == l.misses
           v == l.rows
<1>7. l = RowOf(t, a, p, m, v)
  BY <1>6
<1>8. /\ PaidRow(l, s, o, n, w) = RowOf(s, a, o, n, w)
      /\ MissedRow(l, s, n, w) = RowOf(s, a, p, n, w)
  <2> HIDE DEF a, p, t, m, v
  <2> QED BY <1>1, <1>2, <1>3, <1>4, <1>5, <1>7
<1> QED BY <1>8

LEMMA Completed ==
  ASSUME NEW l, NEW p, StandsAt(l, p), l.misses \in Nat
  PROVE  completedOf(l) = 1 .. p /\ paidOf(l) = p
<1>1. p \in Int /\ p >= 0 /\ p <= Term /\ Term \in Nat
  BY ScaleFacts DEF StandsAt
<1>2. completedOf(l) = 1 .. p
  <2>1. ASSUME NEW k \in Rows
        PROVE  l.rows[k] = "completed" <=> k <= p
    <3>1. k \in Int
      BY <1>1 DEF Rows
    <3> QED BY <1>1, <3>1 DEF StandsAt, RowsAt
  <2>2. \A k : k \in 1 .. p <=> k \in Rows /\ k <= p
    BY <1>1 DEF Rows
  <2> QED BY <2>1, <2>2 DEF completedOf
<1>3. Cardinality(1 .. p) = IF 1 > p THEN 0 ELSE p - 1 + 1
  BY <1>1, FS_Interval
<1>4. (IF 1 > p THEN 0 ELSE p - 1 + 1) = p
  BY <1>1
<1> QED BY <1>2, <1>3, <1>4 DEF paidOf

LEMMA Later ==
  ASSUME NEW a \in Nat, NEW b \in Nat, NEW x \in Nat \ {0}, a < b
  PROVE  a * x < b * x /\ a * x \in Nat /\ b * x \in Nat
<1>1. (a + 1) * x <= b * x /\ (a + 1) * x = a * x + x /\ a * x \in Nat /\ b * x \in Nat
  BY Multiples
<1> DEFINE y == a * x
           z == b * x
           w == (a + 1) * x
<1>2. w <= z /\ w = y + x /\ y \in Nat /\ z \in Nat
  BY <1>1
<1> HIDE DEF y, z, w
<1>3. y < z
  BY <1>2
<1> QED BY <1>2, <1>3 DEF y, z

(* The row due today is the first that is not yet evaluated, and it is
   collected with the missed ones before it. *)
LEMMA DuePlace ==
  ASSUME NEW l \in LoanRows, NEW p, StandsAt(l, p), Today(l), NEW k \in dueRows(l)
  PROVE  /\ liveLoan(l) /\ k \in Rows /\ l.rows[k] = "due" /\ l.age = k * DaysPerMonth
         /\ k = p + l.misses + 1
         /\ targets(l, k) = p + 1 .. k
<1>1. liveLoan(l) /\ k \in Rows /\ l.rows[k] = "due" /\ l.age = k * DaysPerMonth
  BY DEF dueRows
<1>2. p \in 0 .. Term /\ l.misses \in 0 .. 3 /\ p + l.misses <= Term
  BY <1>1, RowFacts DEF StandsAt
<1>3. k \in Nat /\ k <= Term /\ Term \in Nat /\ p \in Nat /\ l.misses \in Nat /\ k >= 1
  BY <1>1, <1>2, ScaleFacts DEF Rows
<1> DEFINE q == p + l.misses + 1
<1>4. q <= k
  BY <1>1, <1>2, <1>3 DEF StandsAt, RowsAt
<1>5. q \in Rows /\ l.rows[q] = "due"
  BY <1>2, <1>3, <1>4 DEF StandsAt, RowsAt, Rows
<1>6. q * DaysPerMonth >= l.age
  BY <1>1, <1>5 DEF Today
<1>7. ~(q < k)
  <2> SUFFICES ASSUME q < k
               PROVE  FALSE
    OBVIOUS
  <2>1. q \in Nat /\ DaysPerMonth \in Nat \ {0}
    BY <1>3, ScaleFacts
  <2> HIDE DEF q
  <2>2. q * DaysPerMonth < k * DaysPerMonth /\ q * DaysPerMonth \in Nat /\ k * DaysPerMonth \in Nat
    BY <1>3, <2>1, Later
  <2> QED BY <1>1, <1>6, <2>2
<1>8. k = p + l.misses + 1
  BY <1>3, <1>4, <1>7
<1>9. targets(l, k) = p + 1 .. k
  <2>1. ASSUME NEW j \in 1 .. k
        PROVE  (j = k \/ l.rows[j] = "missed") <=> j \in p + 1 .. k
    <3>1. j \in Rows /\ j \in Int
      BY <1>3 DEF Rows
    <3>2. j <= p => l.rows[j] = "completed" /\ j # k
      BY <1>3, <1>8, <3>1 DEF StandsAt, RowsAt
    <3>3. p < j /\ j # k => l.rows[j] = "missed"
      BY <1>3, <1>8, <3>1 DEF StandsAt, RowsAt
    <3> QED BY <1>3, <3>1, <3>2, <3>3
  <2>2. p + 1 .. k \subseteq 1 .. k
    BY <1>3
  <2> QED BY <2>1, <2>2 DEF targets
<1> QED BY <1>1, <1>8, <1>9

(* What a day does to a loan, in the terms of the contract. *)
PaysAll(l, m) ==
  /\ liveLoan(l)
  /\ paidOf(m) = paidOf(l) + l.misses + 1
  /\ m.misses = 0
  /\ m.status = IF paidOf(m) = Term THEN "paid_off" ELSE "repaying"

Misses(l, m) ==
  /\ liveLoan(l)
  /\ paidOf(l) + l.misses < Term
  /\ m.misses = l.misses + 1
  /\ m.status = IF m.misses = LOAN_DEFAULT_CONSECUTIVE_MISSES THEN "defaulted" ELSE "repaying"
  /\ paidOf(m) = paidOf(l)

\* A collection moves the loan, and its amounts are those of its rows.
Collected(l, m, ks) ==
  /\ m \in LoanRows /\ LoanSound(m) /\ OnTime(m)
  /\ PaysAll(l, m)
  /\ principalOf(ks) \in Nat \ {0} /\ interestOf(ks) \in Nat
  /\ m.outstanding = l.outstanding - principalOf(ks)
  /\ m.status = "paid_off" <=> m.outstanding = 0
  /\ interestOf(completedOf(m)) = interestOf(completedOf(l)) + interestOf(ks)
  /\ ks \subseteq Rows
  /\ \A j \in Rows : m.rows[j] = IF j \in ks THEN "completed" ELSE l.rows[j]
  /\ \A j \in ks : l.rows[j] \in {"due", "missed"}

LEMMA CollectLoan ==
  ASSUME NEW l \in LoanRows, LoanSound(l), Today(l), NEW k \in dueRows(l)
  PROVE  Collected(l, loanStateAfterCollection(l, targets(l, k)), targets(l, k))
<1> DEFINE ks == targets(l, k)
           m == loanStateAfterCollection(l, ks)
<1>1. PICK p : StandsAt(l, p)
  BY DEF LoanSound
<1>2. /\ liveLoan(l) /\ k \in Rows /\ l.rows[k] = "due" /\ l.age = k * DaysPerMonth
      /\ k = p + l.misses + 1
      /\ ks = p + 1 .. k
  BY <1>1, DuePlace
<1> HIDE DEF ks
<1>3. /\ p \in 0 .. Term /\ p \in Nat /\ l.misses \in Nat /\ k \in Nat /\ k \in 0 .. Term
      /\ p < k /\ k >= 1 /\ Term \in Nat /\ k <= Term
  <2>1. p \in 0 .. Term /\ Term \in Nat
    BY <1>1, ScaleFacts DEF StandsAt
  <2>2. l.misses \in Nat
    BY RowFacts
  <2>3. k \in 1 .. Term
    BY <1>2 DEF Rows
  <2> QED BY <1>2, <2>1, <2>2, <2>3
<1>4. /\ m.status = IF l.outstanding = principalOf(ks) THEN "paid_off" ELSE "repaying"
      /\ m.age = l.age /\ m.outstanding = l.outstanding - principalOf(ks) /\ m.misses = 0
      /\ m.rows = [j \in Rows |-> IF j \in ks THEN "completed" ELSE l.rows[j]]
      /\ m = [status |-> m.status, age |-> m.age, outstanding |-> m.outstanding,
              misses |-> m.misses, rows |-> m.rows]
  <2> DEFINE s == IF l.outstanding = principalOf(ks) THEN "paid_off" ELSE "repaying"
             w == [j \in Rows |-> IF j \in ks THEN "completed" ELSE l.rows[j]]
             o == l.outstanding - principalOf(ks)
  <2>1. m = PaidRow(l, s, o, 0, w)
    BY DEF loanStateAfterCollection, PaidRow
  <2> HIDE DEF s, w, o, m
  <2>2. m = RowOf(s, l.age, o, 0, w)
    BY <2>1, RowChange
  <2> QED BY <2>2 DEF s, w, o, RowOf
<1> HIDE DEF m
<1>5. /\ principalOf(1 .. k) = principalOf(1 .. p) + principalOf(ks)
      /\ interestOf(1 .. k) = interestOf(1 .. p) + interestOf(ks)
      /\ principalOf(ks) >= 1
  BY <1>2, <1>3, FirstRows
<1>6. /\ principalOf(ks) \in Nat \ {0} /\ interestOf(ks) \in Nat
      /\ principalOf(1 .. k) \in Nat /\ principalOf(1 .. p) \in Nat
  BY <1>5, Worth
<1>7. l.outstanding = Principal - principalOf(1 .. p)
  BY <1>1, <1>2 DEF StandsAt, liveLoan
<1>8. m.outstanding = Principal - principalOf(1 .. k)
  BY <1>4, <1>5, <1>6, <1>7, ScaleFacts
<1>9. /\ m.outstanding \in 0 .. Principal
      /\ k < Term => m.outstanding > 0
      /\ k = Term => m.outstanding = 0
  BY <1>3, <1>8, LeftAfter
<1>10. l.outstanding = principalOf(ks) <=> k = Term
  <2>1. l.outstanding \in Int
    BY RowFacts
  <2> QED BY <1>3, <1>4, <1>6, <1>9, <2>1
<1>11. m.status = IF k = Term THEN "paid_off" ELSE "repaying"
  BY <1>4, <1>10
<1>12. \A j \in Rows : m.rows[j] = IF j \in ks THEN "completed" ELSE l.rows[j]
  BY <1>4
<1>13. \A j \in ks : j \in Rows /\ l.rows[j] \in {"due", "missed"}
  <2> SUFFICES ASSUME NEW j \in ks
               PROVE  j \in Rows /\ l.rows[j] \in {"due", "missed"}
    OBVIOUS
  <2>1. j \in p + 1 .. k
    BY <1>2
  <2>2. j \in Rows /\ p < j
    BY <1>3, <2>1 DEF Rows
  <2>3. j <= p + l.misses \/ j = k
    BY <1>2, <1>3, <2>1
  <2> QED BY <1>1, <1>2, <2>2, <2>3 DEF StandsAt, RowsAt
<1>14. RowsAt(m, k)
  <2> SUFFICES ASSUME NEW j \in Rows
               PROVE  /\ j <= k => m.rows[j] = "completed"
                      /\ ~(k < j /\ j <= k + m.misses)
                      /\ k + m.misses < j => m.rows[j] = "due"
    BY DEF RowsAt
  <2>1. j \in Nat /\ j >= 1
    BY <1>3 DEF Rows
  <2>2. ASSUME j <= k
        PROVE  m.rows[j] = "completed"
    <3>1. j \in ks \/ j <= p
      BY <1>2, <1>3, <2>1, <2>2
    <3>2. j <= p => l.rows[j] = "completed"
      BY <1>1 DEF StandsAt, RowsAt
    <3> QED BY <1>12, <3>1, <3>2
  <2>3. ASSUME k < j
        PROVE  m.rows[j] = "due"
    <3>1. j \notin ks
      BY <1>2, <1>3, <2>1, <2>3
    <3>2. p + l.misses < j
      BY <1>2, <1>3, <2>1, <2>3
    <3>3. l.rows[j] = "due"
      BY <1>1, <3>2 DEF StandsAt, RowsAt
    <3> QED BY <1>12, <3>1, <3>3
  <2> QED BY <1>3, <1>4, <2>1, <2>2, <2>3
<1>15. StandsAt(m, k)
  BY <1>3, <1>4, <1>8, <1>11, <1>14 DEF StandsAt, liveLoan
<1>16. m \in LoanRows
  <2>1. m.rows \in [Rows -> InstallmentRows]
    BY <1>4, RowFacts DEF InstallmentRows
  <2>2. m.status \in {"none", "disbursed", "repaying", "paid_off", "defaulted"}
    BY <1>11
  <2>3. m.misses \in 0 .. LOAN_DEFAULT_CONSECUTIVE_MISSES
    BY <1>4 DEF LOAN_DEFAULT_CONSECUTIVE_MISSES
  <2>4. m.age \in 0 .. Term * DaysPerMonth + 1
    BY <1>4, RowFacts
  <2> QED BY <1>4, <1>9, <2>1, <2>2, <2>3, <2>4 DEF LoanRows
<1>17. OnTime(m)
  <2> SUFFICES ASSUME NEW j \in Rows, m.rows[j] = "due"
               PROVE  j * DaysPerMonth > m.age
    BY DEF OnTime
  <2>1. j \in Nat /\ ~(j <= k)
    BY <1>3, <1>14 DEF RowsAt, Rows
  <2>2. k * DaysPerMonth < j * DaysPerMonth
    BY <1>3, <2>1, Later, ScaleFacts
  <2>3. k * DaysPerMonth \in Nat /\ j * DaysPerMonth \in Nat
    BY <1>3, <2>1, Multiples, ScaleFacts
  <2> QED BY <1>2, <1>4, <2>2, <2>3
<1>18. completedOf(l) = 1 .. p /\ paidOf(l) = p /\ completedOf(m) = 1 .. k /\ paidOf(m) = k
  BY <1>1, <1>3, <1>4, <1>15, Completed
<1>19. PaysAll(l, m)
  BY <1>2, <1>4, <1>11, <1>18 DEF PaysAll
<1>20. m.status = "paid_off" <=> m.outstanding = 0
  BY <1>3, <1>9, <1>11
<1>21. interestOf(completedOf(m)) = interestOf(completedOf(l)) + interestOf(ks)
  BY <1>5, <1>18
<1>22. LoanSound(m)
  BY <1>15 DEF LoanSound
<1>23. Collected(l, m, ks)
  BY <1>4, <1>6, <1>12, <1>13, <1>16, <1>17, <1>19, <1>20, <1>21, <1>22 DEF Collected
<1> QED BY <1>23 DEF ks, m

\* A miss moves nothing but the count, the row and the status.
Missed(l, m, k) ==
  /\ m \in LoanRows /\ LoanSound(m) /\ OnTime(m)
  /\ Misses(l, m)
  /\ m.outstanding = l.outstanding /\ m.outstanding > 0
  /\ completedOf(m) = completedOf(l)
  /\ m.status = "defaulted" =>
       m.misses = 3 /\ Cardinality({j \in Rows : m.rows[j] = "missed"}) = 3
  /\ k \in Rows /\ l.rows[k] = "due"
  /\ \A j \in Rows : m.rows[j] = IF j = k THEN "missed" ELSE l.rows[j]

LEMMA MissLoan ==
  ASSUME NEW l \in LoanRows, LoanSound(l), Today(l), NEW k \in dueRows(l)
  PROVE  Missed(l, loanStateAfterMiss(l, k), k)
<1> DEFINE m == loanStateAfterMiss(l, k)
<1>1. PICK p : StandsAt(l, p)
  BY DEF LoanSound
<1>2. /\ liveLoan(l) /\ k \in Rows /\ l.rows[k] = "due" /\ l.age = k * DaysPerMonth
      /\ k = p + l.misses + 1
  BY <1>1, DuePlace
<1>3. /\ p \in 0 .. Term /\ p \in Nat /\ l.misses \in Nat /\ k \in Nat /\ l.misses < 3
      /\ p < Term /\ k >= 1 /\ Term \in Nat /\ k <= Term
  <2>1. p \in 0 .. Term /\ Term \in Nat
    BY <1>1, ScaleFacts DEF StandsAt
  <2>2. l.misses \in Nat
    BY RowFacts
  <2>3. k \in 1 .. Term
    BY <1>2 DEF Rows
  <2>4. l.misses < 3 /\ p < Term
    BY <1>1, <1>2 DEF StandsAt
  <2> QED BY <1>2, <2>1, <2>2, <2>3, <2>4
<1>4. /\ m.status = IF l.misses + 1 >= 3 THEN "defaulted" ELSE "repaying"
      /\ m.age = l.age /\ m.outstanding = l.outstanding /\ m.misses = l.misses + 1
      /\ m.rows = [l.rows EXCEPT ![k] = "missed"]
      /\ m = [status |-> m.status, age |-> m.age, outstanding |-> m.outstanding,
              misses |-> m.misses, rows |-> m.rows]
  <2> DEFINE s == IF l.misses + 1 >= 3 THEN "defaulted" ELSE "repaying"
             w == [l.rows EXCEPT ![k] = "missed"]
  <2>1. m = MissedRow(l, s, l.misses + 1, w)
    BY RowFacts DEF loanStateAfterMiss, LOAN_DEFAULT_CONSECUTIVE_MISSES, MissedRow
  <2> HIDE DEF s, w, m
  <2>2. m = RowOf(s, l.age, l.outstanding, l.misses + 1, w)
    BY <2>1, RowChange
  <2> QED BY <2>2 DEF s, w, RowOf
<1> HIDE DEF m
<1>5. \A j \in Rows : m.rows[j] = IF j = k THEN "missed" ELSE l.rows[j]
  BY <1>2, <1>4, RowFacts
<1>6. m.outstanding = Principal - principalOf(1 .. p) /\ m.outstanding > 0
  <2>1. l.outstanding = Principal - principalOf(1 .. p)
    BY <1>1, <1>2 DEF StandsAt, liveLoan
  <2> QED BY <1>3, <1>4, <2>1, LeftAfter
<1>7. RowsAt(m, p)
  <2> SUFFICES ASSUME NEW j \in Rows
               PROVE  /\ j <= p => m.rows[j] = "completed"
                      /\ p < j /\ j <= p + m.misses => m.rows[j] = "missed"
                      /\ p + m.misses < j => m.rows[j] = "due"
    BY DEF RowsAt
  <2>1. j \in Nat /\ p + m.misses = k
    BY <1>2, <1>3, <1>4 DEF Rows
  <2>2. j <= p => j # k /\ l.rows[j] = "completed"
    BY <1>1, <1>2, <1>3, <2>1 DEF StandsAt, RowsAt
  <2>3. p < j /\ j < k => l.rows[j] = "missed"
    BY <1>1, <1>2, <1>3, <2>1 DEF StandsAt, RowsAt
  <2>4. k < j => l.rows[j] = "due"
    BY <1>1, <1>2, <1>3, <2>1 DEF StandsAt, RowsAt
  <2> QED BY <1>3, <1>5, <2>1, <2>2, <2>3, <2>4
<1>8. StandsAt(m, p)
  <2>1. m.status = "defaulted" => m.misses = 3 /\ p + 3 <= Term
    BY <1>2, <1>3, <1>4
  <2>2. liveLoan(m) => p < Term /\ m.misses < 3 /\ p + m.misses <= Term
    BY <1>2, <1>3, <1>4 DEF liveLoan
  <2>3. m.status \in {"defaulted", "repaying"}
    BY <1>4
  <2> QED BY <1>3, <1>6, <1>7, <2>1, <2>2, <2>3 DEF StandsAt
<1>9. m \in LoanRows
  <2>1. m.rows \in [Rows -> InstallmentRows]
    BY <1>4, RowFacts DEF InstallmentRows
  <2>2. m.status \in {"none", "disbursed", "repaying", "paid_off", "defaulted"}
    BY <1>4
  <2>3. m.misses \in 0 .. LOAN_DEFAULT_CONSECUTIVE_MISSES
    BY <1>3, <1>4 DEF LOAN_DEFAULT_CONSECUTIVE_MISSES
  <2>4. m.age \in 0 .. Term * DaysPerMonth + 1 /\ m.outstanding \in 0 .. Principal
    BY <1>4, RowFacts
  <2> QED BY <1>4, <2>1, <2>2, <2>3, <2>4 DEF LoanRows
<1>10. OnTime(m)
  <2> SUFFICES ASSUME NEW j \in Rows, m.rows[j] = "due"
               PROVE  j * DaysPerMonth > m.age
    BY DEF OnTime
  <2>1. j \in Nat /\ k < j
    BY <1>2, <1>3, <1>4, <1>7 DEF RowsAt, Rows
  <2>2. k * DaysPerMonth < j * DaysPerMonth
    BY <1>3, <2>1, Later, ScaleFacts
  <2>3. k * DaysPerMonth \in Nat /\ j * DaysPerMonth \in Nat
    BY <1>3, <2>1, Multiples, ScaleFacts
  <2> QED BY <1>2, <1>4, <2>2, <2>3
<1>11. completedOf(l) = 1 .. p /\ paidOf(l) = p /\ completedOf(m) = 1 .. p /\ paidOf(m) = p
  BY <1>1, <1>3, <1>4, <1>8, Completed
<1>12. Misses(l, m)
  BY <1>2, <1>3, <1>4, <1>11 DEF Misses, LOAN_DEFAULT_CONSECUTIVE_MISSES
<1>13. ASSUME m.status = "defaulted"
       PROVE  m.misses = 3 /\ Cardinality({j \in Rows : m.rows[j] = "missed"}) = 3
  <2>1. m.misses = 3 /\ p + 3 <= Term
    BY <1>8, <1>13 DEF StandsAt
  <2>2. {j \in Rows : m.rows[j] = "missed"} = p + 1 .. p + 3
    <3>1. ASSUME NEW j \in Rows
          PROVE  m.rows[j] = "missed" <=> j \in p + 1 .. p + 3
      <4>1. j \in Nat
        BY <1>3 DEF Rows
      <4> QED BY <1>3, <1>7, <2>1, <4>1 DEF RowsAt
    <3>2. p + 1 .. p + 3 \subseteq Rows
      BY <1>3, <2>1 DEF Rows
    <3> QED BY <3>1, <3>2
  <2>3. Cardinality(p + 1 .. p + 3) = 3
    <3>1. p + 1 \in Int /\ p + 3 \in Int
      BY <1>3
    <3>2. Cardinality(p + 1 .. p + 3) = IF p + 1 > p + 3 THEN 0 ELSE (p + 3) - (p + 1) + 1
      BY <3>1, FS_Interval
    <3> QED BY <1>3, <3>2
  <2> QED BY <2>1, <2>2, <2>3
<1>14. LoanSound(m)
  BY <1>8 DEF LoanSound
<1>15. Missed(l, m, k)
  BY <1>2, <1>4, <1>5, <1>6, <1>9, <1>10, <1>11, <1>12, <1>13, <1>14 DEF Missed
<1> QED BY <1>15 DEF m

-----------------------------------------------------------------------------
(* The books of a world, the one in hand or the committed one.             *)

BankRows == [source : Int, income : Nat, loss : Nat]

Typed(s, sh, cs, ap, l, a, bs, b, d, r) ==
  /\ s \in [Companies -> {"active", "closed"}]
  /\ sh \in [Companies -> 0 .. ShortfallDays]
  /\ cs \in [Companies -> Nat]
  /\ ap \in [Companies -> ApplicationRows]
  /\ l \in [Companies -> LoanRows]
  /\ a \in [Companies -> 0 .. Principal]
  /\ bs \in {"active", "lending_halted"}
  /\ b \in BankRows
  /\ d \in Nat /\ r \in Int

\* A company still active has not been short long enough to end.
Days(s, sh) == \A c \in Companies : s[c] = "active" => sh[c] < ShortfallDays

Loans(l) == \A c \in Companies : LoanSound(l[c])

lossOf(l) == IF l.status = "defaulted" THEN l.outstanding ELSE 0
Owed(l) == [c \in Companies |-> l[c].outstanding]
Lost(l) == [c \in Companies |-> lossOf(l[c])]
Earned(l) == [c \in Companies |-> interestOf(completedOf(l[c]))]
Sum(f) == sumTo(f, NCompanies)

Backed(l, a) == \A c \in Companies : a[c] = IF liveLoan(l[c]) THEN l[c].outstanding ELSE 0

Ledger(l, a, b, cs, d, r) ==
  /\ Backed(l, a)
  /\ b.loss = Sum(Lost(l))
  /\ b.income = Sum(Earned(l))
  /\ b.source = -2 * Sum(Owed(l))
  /\ r + d + Sum(cs) + Sum(a) + b.source + b.income + b.loss = 0

LEMMA SumOne ==
  ASSUME NEW f \in [Companies -> Int], NEW g \in [Companies -> Int], NEW c \in Companies,
         \A x \in Companies : x # c => g[x] = f[x]
  PROVE  Sum(g) = Sum(f) - f[c] + g[c] /\ Sum(f) \in Int
<1>1. NCompanies \in Nat /\ f \in Summand(NCompanies) /\ g \in Summand(NCompanies)
  BY ScaleFacts DEF Companies, Summand
<1>2. c \in 1 .. NCompanies /\ \A x \in 1 .. NCompanies : x # c => g[x] = f[x]
  BY DEF Companies
<1>3. Sum(g) = Sum(f) - f[c] + g[c]
  BY <1>1, <1>2, SumChange DEF Sum
<1>4. NCompanies \in 0 .. NCompanies
  BY <1>1
<1>5. Sum(f) \in Int
  BY <1>1, <1>4, SumSteps DEF Sum
<1> QED BY <1>3, <1>5

LEMMA FirstCompany == 1 \in Companies
BY ScaleFacts DEF Companies

LEMMA SumInt ==
  ASSUME NEW f \in [Companies -> Int]
  PROVE  Sum(f) \in Int
BY FirstCompany, SumOne

LEMMA SumNat ==
  ASSUME NEW f \in [Companies -> Nat]
  PROVE  Sum(f) \in Nat
BY ScaleFacts, SumFloor DEF Sum, Companies

LEMMA SumOfZeros ==
  ASSUME NEW f \in [Companies -> Int], \A c \in Companies : f[c] = 0
  PROVE  Sum(f) = 0
<1>1. NCompanies \in Nat /\ f \in Summand(NCompanies) /\ 0 \in 0 .. NCompanies
  BY ScaleFacts DEF Companies, Summand
<1>2. /\ \A n \in 1 .. 0 : f[n] = f[n]
      /\ \A n \in 0 + 1 .. NCompanies : f[n] = 0
  BY DEF Companies
<1>3. sumTo(f, NCompanies) = sumTo(f, 0)
  BY <1>1, <1>2, SumSame
<1> QED BY <1>1, <1>3, SumSteps DEF Sum

(* What the columns of the loans sum up to, and what one loan does to it. *)
LEMMA ColumnTypes ==
  ASSUME NEW l \in [Companies -> LoanRows]
  PROVE  /\ Owed(l) \in [Companies -> Int] /\ Lost(l) \in [Companies -> Int]
         /\ Earned(l) \in [Companies -> Int]
<1>1. \A c \in Companies : l[c].outstanding \in Int
  BY RowFacts
<1>2. \A c \in Companies : lossOf(l[c]) \in Int
  BY <1>1 DEF lossOf
<1>3. \A c \in Companies : interestOf(completedOf(l[c])) \in Int
  BY Worth
<1> QED BY <1>1, <1>2, <1>3 DEF Owed, Lost, Earned

LEMMA OneLoan ==
  ASSUME NEW l \in [Companies -> LoanRows], NEW m \in [Companies -> LoanRows],
         NEW c \in Companies, \A x \in Companies : x # c => m[x] = l[x]
  PROVE  /\ Sum(Owed(m)) = Sum(Owed(l)) - l[c].outstanding + m[c].outstanding
         /\ Sum(Lost(m)) = Sum(Lost(l)) - lossOf(l[c]) + lossOf(m[c])
         /\ Sum(Earned(m)) = Sum(Earned(l)) - interestOf(completedOf(l[c]))
                               + interestOf(completedOf(m[c]))
         /\ Sum(Owed(l)) \in Int /\ Sum(Lost(l)) \in Int /\ Sum(Earned(l)) \in Int
<1>1. /\ Owed(l) \in [Companies -> Int] /\ Owed(m) \in [Companies -> Int]
      /\ Lost(l) \in [Companies -> Int] /\ Lost(m) \in [Companies -> Int]
      /\ Earned(l) \in [Companies -> Int] /\ Earned(m) \in [Companies -> Int]
  BY ColumnTypes
<1>2. /\ \A x \in Companies : x # c => Owed(m)[x] = Owed(l)[x]
      /\ Owed(l)[c] = l[c].outstanding /\ Owed(m)[c] = m[c].outstanding
  BY DEF Owed
<1>3. /\ \A x \in Companies : x # c => Lost(m)[x] = Lost(l)[x]
      /\ Lost(l)[c] = lossOf(l[c]) /\ Lost(m)[c] = lossOf(m[c])
  BY DEF Lost
<1>4. /\ \A x \in Companies : x # c => Earned(m)[x] = Earned(l)[x]
      /\ Earned(l)[c] = interestOf(completedOf(l[c]))
      /\ Earned(m)[c] = interestOf(completedOf(m[c]))
  BY DEF Earned
<1>5. Sum(Owed(m)) = Sum(Owed(l)) - Owed(l)[c] + Owed(m)[c] /\ Sum(Owed(l)) \in Int
  BY <1>1, <1>2, SumOne
<1>6. Sum(Lost(m)) = Sum(Lost(l)) - Lost(l)[c] + Lost(m)[c] /\ Sum(Lost(l)) \in Int
  BY <1>1, <1>3, SumOne
<1>7. Sum(Earned(m)) = Sum(Earned(l)) - Earned(l)[c] + Earned(m)[c] /\ Sum(Earned(l)) \in Int
  BY <1>1, <1>4, SumOne
<1> QED BY <1>2, <1>3, <1>4, <1>5, <1>6, <1>7

LEMMA BankFields ==
  ASSUME NEW b \in BankRows
  PROVE  b.source \in Int /\ b.income \in Nat /\ b.loss \in Nat
BY DEF BankRows

PaidIn(b, x, y) == [b EXCEPT !.source = @ + x, !.income = @ + y]
LentOut(b, x) == [b EXCEPT !.source = @ - x]
WrittenOff(b, y) == [b EXCEPT !.loss = @ + y]
Balances(b, s, i, n) == b \in BankRows /\ b.source = s /\ b.income = i /\ b.loss = n

LEMMA BankMoves ==
  ASSUME NEW b \in BankRows, NEW x \in Int, NEW y \in Nat
  PROVE  /\ Balances(PaidIn(b, x, y), b.source + x, b.income + y, b.loss)
         /\ Balances(LentOut(b, x), b.source - x, b.income, b.loss)
         /\ Balances(WrittenOff(b, y), b.source, b.income, b.loss + y)
<1> DEFINE u == b.source + x
           v == b.income + y
           w == b.loss + y
           t == b.source - x
<1>1. u \in Int /\ t \in Int /\ v \in Nat /\ w \in Nat
  BY BankFields
<1>2. Balances([b EXCEPT !.source = u, !.income = v], u, v, b.loss)
  <2> HIDE DEF u, v, w, t
  <2> QED BY <1>1 DEF BankRows, Balances
<1>3. Balances([b EXCEPT !.source = t], t, b.income, b.loss)
  <2> HIDE DEF u, v, w, t
  <2> QED BY <1>1 DEF BankRows, Balances
<1>4. Balances([b EXCEPT !.loss = w], b.source, b.income, w)
  <2> HIDE DEF u, v, w, t
  <2> QED BY <1>1 DEF BankRows, Balances
<1> QED BY <1>2, <1>3, <1>4 DEF PaidIn, LentOut, WrittenOff

-----------------------------------------------------------------------------
(* The inductive invariant.                                                *)

SameLoan(l, m) == m.status = l.status /\ m.misses = l.misses /\ m.rows = l.rows

Takes(l, m) ==
  l.status = "none" /\ m.status = "disbursed" /\ m.misses = l.misses /\ paidOf(m) = paidOf(l)

\* Since the last commit a loan made at most one step of its contract.
KeptLoan(l, m) == SameLoan(l, m) \/ Takes(l, m) \/ PaysAll(l, m) \/ Misses(l, m)

Place ==
  /\ stage \in {"idle", "collect", "credit", "settle", "solvency", "commit"}
  /\ turn \in Companies
  /\ failure \in {"none", "borrower account is not active", "no active bank"}

\* The world as the tick in hand has left it so far.
WorldInv ==
  /\ Typed(status, shortfall, cash, application, loan, asset, bankStatus, bank, deposits, row)
  /\ Days(status, shortfall)
  /\ Loans(loan)
  /\ Ledger(loan, asset, bank, cash, deposits, row)

\* What a rollback returns to.
CommittedInv ==
  /\ Typed(committed.status, committed.shortfall, committed.cash, committed.application,
           committed.loan, committed.asset, committed.bankStatus, committed.bank,
           committed.deposits, committed.row)
  /\ Days(committed.status, committed.shortfall)
  /\ Loans(committed.loan)
  /\ Ledger(committed.loan, committed.asset, committed.bank, committed.cash,
            committed.deposits, committed.row)
  /\ \A c \in Companies : OnTime(committed.loan[c])

\* The loans before which the day's collection still stands.
ToCollect(c) == stage = "collect" /\ c >= turn

\* No due day has passed a loan by, and since the last commit each has taken
\* at most one step of its contract.
LoanInv ==
  \A c \in Companies :
    /\ IF ToCollect(c) THEN Today(loan[c]) ELSE OnTime(loan[c])
    /\ IF stage = "idle" \/ ToCollect(c)
       THEN SameLoan(committed.loan[c], loan[c])
       ELSE KeptLoan(committed.loan[c], loan[c])

IInv == Place /\ WorldInv /\ CommittedInv /\ LoanInv

LEMMA Advance ==
  ASSUME NEW s, turn \in Companies, advanceTo(s)
  PROVE  /\ turn' \in Companies
         /\ \/ stage' = s /\ turn' = 1 /\ turn = NCompanies
            \/ stage' = stage /\ turn' = turn + 1 /\ turn < NCompanies
<1>1. NCompanies \in Nat \ {0} /\ turn \in 1 .. NCompanies
  BY ScaleFacts DEF Companies
<1>2. CASE turn = NCompanies
  BY <1>1, <1>2 DEF advanceTo, Companies
<1>3. CASE turn # NCompanies
  <2>1. stage' = stage /\ turn' = turn + 1
    BY <1>3 DEF advanceTo
  <2> QED BY <1>1, <1>3, <2>1 DEF Companies
<1> QED BY <1>2, <1>3

(* A loan that was not touched since the commit makes its one step now. *)
LEMMA FirstStep ==
  ASSUME NEW l, NEW m, NEW n, SameLoan(l, m)
  PROVE  /\ PaysAll(m, n) => PaysAll(l, n)
         /\ Misses(m, n) => Misses(l, n)
         /\ Takes(m, n) => Takes(l, n)
<1>1. paidOf(l) = paidOf(m) /\ liveLoan(l) = liveLoan(m)
      /\ m.misses = l.misses /\ m.status = l.status
  BY DEF SameLoan, paidOf, completedOf, liveLoan
<1>2. PaysAll(m, n) => PaysAll(l, n)
  BY <1>1 DEF PaysAll
<1>3. Misses(m, n) => Misses(l, n)
  BY <1>1 DEF Misses
<1>4. Takes(m, n) => Takes(l, n)
  BY <1>1 DEF Takes
<1> QED BY <1>2, <1>3, <1>4

LEMMA SoonToday ==
  ASSUME NEW l \in LoanRows, OnTime(l)
  PROVE  Today(l)
<1> SUFFICES ASSUME liveLoan(l), NEW k \in Rows, l.rows[k] = "due"
             PROVE  k * DaysPerMonth >= l.age
  BY DEF Today
<1>1. k * DaysPerMonth > l.age
  BY DEF OnTime
<1>2. k \in Nat /\ DaysPerMonth \in Nat
  BY ScaleFacts DEF Rows
<1>3. k * DaysPerMonth \in Nat
  BY <1>2
<1>4. Term * DaysPerMonth \in Nat
  BY ScaleFacts
<1> QED BY <1>1, <1>3, <1>4, RowFacts

(* The loans after the collection of the turn's loan. *)
LEMMA AfterCollection ==
  ASSUME Place, LoanInv, stage = "collect", advanceTo("credit"), committed' = committed,
         \A c \in Companies : c # turn => loan'[c] = loan[c],
         OnTime(loan'[turn]), KeptLoan(committed.loan[turn], loan'[turn])
  PROVE  LoanInv'
<1>1. turn \in Companies
  BY DEF Place
<1>2. NCompanies \in Nat /\ \A c \in Companies : c \in Nat /\ c <= NCompanies
  BY ScaleFacts DEF Companies
<1> SUFFICES ASSUME NEW c \in Companies
             PROVE  /\ IF ToCollect(c)' THEN Today(loan[c])' ELSE OnTime(loan[c])'
                    /\ IF stage' = "idle" \/ ToCollect(c)'
                       THEN SameLoan(committed'.loan[c], loan'[c])
                       ELSE KeptLoan(committed'.loan[c], loan'[c])
  BY DEF LoanInv
<1>3. stage' # "idle" /\ (ToCollect(c)' => c > turn) /\ (c > turn => c # turn)
  BY <1>1, <1>2, Advance DEF ToCollect
<1>4. c # turn /\ ~ToCollect(c)' => ~ToCollect(c)
  BY <1>1, <1>2, Advance DEF ToCollect
<1>5. ToCollect(c)' => ToCollect(c)
  BY <1>1, <1>2, <1>3 DEF ToCollect
<1>6. CASE c = turn
  <2>1. ~ToCollect(c)'
    BY <1>3, <1>6
  <2>2. OnTime(loan[c])'
    BY <1>6 DEF OnTime
  <2> QED BY <1>3, <1>6, <2>1, <2>2
<1>7. CASE c # turn
  <2>1. loan'[c] = loan[c]
    BY <1>7
  <2>2. Today(loan[c]) => Today(loan[c])'
    BY <2>1 DEF Today, liveLoan
  <2>3. OnTime(loan[c]) => OnTime(loan[c])'
    BY <2>1 DEF OnTime, liveLoan
  <2> QED BY <1>3, <1>4, <1>5, <1>7, <2>1, <2>2, <2>3 DEF LoanInv
<1> QED BY <1>6, <1>7

(* The loans after a later phase of the tick, in which one of them may start. *)
LEMMA AfterPhase ==
  ASSUME LoanInv, stage \notin {"idle", "collect"}, stage' \notin {"idle", "collect"},
         committed' = committed,
         \A c \in Companies :
           \/ loan'[c] = loan[c]
           \/ OnTime(loan'[c]) /\ KeptLoan(committed.loan[c], loan'[c])
  PROVE  LoanInv'
<1> SUFFICES ASSUME NEW c \in Companies
             PROVE  OnTime(loan[c])' /\ KeptLoan(committed'.loan[c], loan'[c])
  BY DEF LoanInv, ToCollect
<1>1. OnTime(loan[c]) /\ KeptLoan(committed.loan[c], loan[c])
  BY DEF LoanInv, ToCollect
<1>2. CASE loan'[c] = loan[c]
  BY <1>1, <1>2 DEF OnTime, liveLoan
<1>3. CASE OnTime(loan'[c]) /\ KeptLoan(committed.loan[c], loan'[c])
  BY <1>3 DEF OnTime, liveLoan
<1> QED BY <1>2, <1>3

-----------------------------------------------------------------------------
(* One lemma for each step of a tick.                                      *)

LEMMA QuietWorld ==
  ASSUME WorldInv, UNCHANGED <<status, shortfall, cash, loan, asset, bank, deposits, row>>,
         application' \in [Companies -> ApplicationRows],
         bankStatus' \in {"active", "lending_halted"}
  PROVE  WorldInv'
<1>1. Typed(status, shortfall, cash, application', loan, asset, bankStatus', bank, deposits, row)
  BY DEF WorldInv, Typed
<1> QED BY <1>1 DEF WorldInv

LEMMA CommittedStays ==
  ASSUME CommittedInv, committed' = committed
  PROVE  CommittedInv'
BY DEF CommittedInv

LEMMA TypedFacts ==
  ASSUME WorldInv
  PROVE  /\ status \in [Companies -> {"active", "closed"}]
         /\ shortfall \in [Companies -> 0 .. ShortfallDays]
         /\ cash \in [Companies -> Nat] /\ cash \in [Companies -> Int]
         /\ application \in [Companies -> ApplicationRows]
         /\ loan \in [Companies -> LoanRows]
         /\ asset \in [Companies -> 0 .. Principal] /\ asset \in [Companies -> Int]
         /\ bankStatus \in {"active", "lending_halted"}
         /\ bank \in BankRows
         /\ deposits \in Nat /\ row \in Int
<1>1. 0 .. Principal \subseteq Int /\ Nat \subseteq Int
  BY ScaleFacts
<1> QED BY <1>1 DEF WorldInv, Typed

(* The day that beginTick adds to the age of a loan changes nothing else. *)
LEMMA DayOlder ==
  ASSUME IInv, beginTick, NEW c \in Companies
  PROVE  /\ loan'[c] \in LoanRows
         /\ SameLoan(loan[c], loan'[c]) /\ loan'[c].outstanding = loan[c].outstanding
         /\ loan[c].status = "none" => loan'[c] = loan[c]
         /\ loan'[c].age \in {loan[c].age, loan[c].age + 1}
<1> DEFINE l == loan[c]
<1>1. l \in LoanRows
  BY TypedFacts DEF IInv
<1>2. loan'[c] = IF liveLoan(l) /\ l.age < Term * DaysPerMonth + 1
                 THEN [l EXCEPT !.age = @ + 1] ELSE l
  BY DEF beginTick
<1> HIDE DEF l
<1>3. Term * DaysPerMonth + 1 \in Nat
  BY ScaleFacts
<1> DEFINE top == Term * DaysPerMonth + 1
           up == l.age + 1
<1>4. l.age < top => up \in 0 .. top
  <2>1. l.age \in 0 .. top
    BY <1>1, RowFacts
  <2> HIDE DEF top
  <2> QED BY <1>3, <2>1 DEF top
<1>5. CASE liveLoan(l) /\ l.age < top
  <2>1. loan'[c] = [l EXCEPT !.age = up]
    BY <1>2, <1>5
  <2>2. up \in 0 .. top
    BY <1>4, <1>5
  <2>3. l \in [status : {"none", "disbursed", "repaying", "paid_off", "defaulted"},
               age : 0 .. top, outstanding : 0 .. Principal,
               misses : 0 .. LOAN_DEFAULT_CONSECUTIVE_MISSES, rows : [Rows -> InstallmentRows]]
    BY <1>1 DEF LoanRows
  <2>4. l.status # "none"
    BY <1>5 DEF liveLoan
  <2> HIDE DEF up, top
  <2>5. /\ loan'[c] \in [status : {"none", "disbursed", "repaying", "paid_off", "defaulted"},
               age : 0 .. top, outstanding : 0 .. Principal,
               misses : 0 .. LOAN_DEFAULT_CONSECUTIVE_MISSES, rows : [Rows -> InstallmentRows]]
        /\ loan'[c].age = up /\ loan'[c].outstanding = l.outstanding
        /\ loan'[c].status = l.status /\ loan'[c].misses = l.misses /\ loan'[c].rows = l.rows
    BY <2>1, <2>2, <2>3
  <2> QED BY <2>4, <2>5 DEF SameLoan, LoanRows, up, top, l
<1>6. CASE ~(liveLoan(l) /\ l.age < top)
  BY <1>1, <1>2, <1>6 DEF SameLoan, l
<1> QED BY <1>5, <1>6

LEMMA StepBegin == IInv /\ beginTick => IInv'
<1> SUFFICES ASSUME IInv, beginTick
             PROVE  IInv'
  OBVIOUS
<1>1. Place'
  BY ScaleFacts DEF IInv, Place, beginTick, Companies
<1>2. /\ stage = "idle" /\ stage' = "collect" /\ turn' = 1
      /\ UNCHANGED <<committed, failure, status, shortfall, cash, application, asset,
                     bankStatus, bank, deposits, row>>
  BY DEF beginTick
<1>3. loan \in [Companies -> LoanRows]
  BY TypedFacts DEF IInv
<1>4. \A c \in Companies :
         /\ loan'[c] \in LoanRows
         /\ SameLoan(loan[c], loan'[c]) /\ loan'[c].outstanding = loan[c].outstanding
         /\ loan[c].status = "none" => loan'[c] = loan[c]
         /\ loan'[c].age \in {loan[c].age, loan[c].age + 1}
  BY DayOlder
<1>5. loan' \in [Companies -> LoanRows]
  <2>1. loan' = [c \in Companies |-> loan'[c]]
    BY DEF beginTick
  <2> QED BY <1>4, <2>1
<1>6. \A c \in Companies :
        /\ loan'[c].status = loan[c].status /\ loan'[c].rows = loan[c].rows
        /\ loan'[c].misses = loan[c].misses /\ loan'[c].outstanding = loan[c].outstanding
        /\ completedOf(loan'[c]) = completedOf(loan[c])
        /\ liveLoan(loan'[c]) = liveLoan(loan[c])
  BY <1>4 DEF SameLoan, completedOf, liveLoan
<1>7. Owed(loan') = Owed(loan) /\ Lost(loan') = Lost(loan) /\ Earned(loan') = Earned(loan)
  BY <1>6 DEF Owed, Lost, Earned, lossOf
<1>8. Ledger(loan', asset, bank, cash, deposits, row)
  <2>1. Ledger(loan, asset, bank, cash, deposits, row)
    BY DEF IInv, WorldInv
  <2>2. Backed(loan, asset) => Backed(loan', asset)
    BY <1>6 DEF Backed
  <2> QED BY <1>7, <2>1, <2>2 DEF Ledger
<1>9. Loans(loan')
  <2> SUFFICES ASSUME NEW c \in Companies
               PROVE  LoanSound(loan'[c])
    BY DEF Loans
  <2>1. PICK p : StandsAt(loan[c], p)
    BY DEF IInv, WorldInv, Loans, LoanSound
  <2>2. StandsAt(loan'[c], p)
    BY <1>4, <1>6, <2>1 DEF StandsAt, RowsAt
  <2> QED BY <2>2 DEF LoanSound
<1>10. WorldInv'
  <2>1. Typed(status, shortfall, cash, application, loan', asset, bankStatus, bank, deposits, row)
    BY <1>5 DEF IInv, WorldInv, Typed
  <2> QED BY <1>2, <1>8, <1>9, <2>1 DEF IInv, WorldInv
<1>11. LoanInv'
  <2> SUFFICES ASSUME NEW c \in Companies
               PROVE  Today(loan'[c]) /\ SameLoan(committed.loan[c], loan'[c])
    <3>1. \A c \in Companies : ToCollect(c)'
      BY <1>2, ScaleFacts DEF ToCollect, Companies
    <3>2. \A c \in Companies : Today(loan'[c]) => Today(loan[c])'
      BY DEF Today, liveLoan
    <3> QED BY <1>2, <3>1, <3>2 DEF LoanInv
  <2>1. OnTime(loan[c]) /\ SameLoan(committed.loan[c], loan[c])
    BY <1>2 DEF IInv, LoanInv, ToCollect
  <2>2. SameLoan(committed.loan[c], loan'[c])
    BY <1>4, <2>1 DEF SameLoan
  <2>3. ASSUME liveLoan(loan'[c]), NEW k \in Rows, loan'[c].rows[k] = "due"
        PROVE  k * DaysPerMonth >= loan'[c].age
    <3>1. k * DaysPerMonth > loan[c].age
      BY <1>6, <2>1, <2>3 DEF OnTime
    <3>2. k \in Nat /\ DaysPerMonth \in Nat
      BY ScaleFacts DEF Rows
    <3> DEFINE x == k * DaysPerMonth
               a == loan[c].age
    <3>3. x \in Nat
      BY <3>2
    <3>4. Term * DaysPerMonth \in Nat
      BY ScaleFacts
    <3>5. a \in Nat
      BY <1>3, <3>4, RowFacts
    <3>6. x > a /\ loan'[c].age \in {a, a + 1}
      BY <1>4, <3>1
    <3> HIDE DEF x, a
    <3>7. x >= loan'[c].age
      BY <3>3, <3>5, <3>6
    <3> QED BY <3>7 DEF x
  <2> QED BY <2>2, <2>3 DEF Today
<1> QED BY <1>1, <1>2, <1>10, <1>11, CommittedStays DEF IInv

(* A rollback returns to the committed world. *)
LEMMA StepFail == ASSUME NEW why \in {"borrower account is not active", "no active bank"},
                         IInv, failTick(why)
                  PROVE  IInv'
<1>1. Place'
  <2>1. stage' = "idle" /\ turn' = 1 /\ failure' = why
    BY DEF failTick
  <2>2. 1 \in Companies
    BY FirstCompany
  <2>3. why \in {"none", "borrower account is not active", "no active bank"}
    OBVIOUS
  <2>4. stage' \in {"idle", "collect", "credit", "settle", "solvency", "commit"}
    BY <2>1
  <2> QED BY <2>1, <2>2, <2>3, <2>4 DEF Place
<1>2. WorldInv'
  BY DEF IInv, CommittedInv, WorldInv, failTick
<1>3. CommittedInv'
  BY CommittedStays DEF IInv, failTick
<1>4. LoanInv'
  <2> SUFFICES ASSUME NEW c \in Companies
               PROVE  OnTime(loan[c])' /\ SameLoan(committed'.loan[c], loan'[c])
    BY DEF LoanInv, ToCollect, failTick
  <2>1. loan' = committed.loan /\ committed' = committed
    BY DEF failTick
  <2>2. OnTime(committed.loan[c])
    BY DEF IInv, CommittedInv
  <2> QED BY <2>1, <2>2 DEF OnTime, liveLoan, SameLoan
<1> QED BY <1>1, <1>2, <1>3, <1>4 DEF IInv

LEMMA StepCommit == IInv /\ commitTick => IInv'
<1> SUFFICES ASSUME IInv, commitTick
             PROVE  IInv'
  OBVIOUS
<1>1. /\ committed'.status = status /\ committed'.shortfall = shortfall
      /\ committed'.cash = cash /\ committed'.application = application
      /\ committed'.loan = loan /\ committed'.asset = asset
      /\ committed'.bankStatus = bankStatus /\ committed'.bank = bank
      /\ committed'.deposits = deposits /\ committed'.row = row
  BY DEF commitTick, worldRecord
<1>2. UNCHANGED <<turn, failure, world>> /\ stage = "commit" /\ stage' = "idle"
  BY DEF commitTick
<1>3. Place'
  BY <1>2 DEF IInv, Place
<1>4. WorldInv'
  BY <1>2 DEF IInv, WorldInv, world
<1>5. \A c \in Companies : OnTime(loan[c])
  BY <1>2 DEF IInv, LoanInv, ToCollect
<1>6. CommittedInv'
  <2>1. \A c \in Companies : OnTime(committed'.loan[c])
    BY <1>1, <1>5
  <2> QED BY <1>1, <2>1 DEF IInv, WorldInv, CommittedInv, OnTime, liveLoan
<1>7. LoanInv'
  <2> SUFFICES ASSUME NEW c \in Companies
               PROVE  OnTime(loan[c])' /\ SameLoan(committed'.loan[c], loan'[c])
    BY <1>2 DEF LoanInv, ToCollect
  <2> QED BY <1>1, <1>2, <1>5 DEF OnTime, liveLoan, SameLoan, world
<1> QED BY <1>3, <1>4, <1>6, <1>7 DEF IInv

(* Steps that leave the world as it is. *)
LEMMA Unmoved ==
  ASSUME LoanInv, UNCHANGED <<committed, loan>>, stage \notin {"idle", "collect"},
         stage' \notin {"idle", "collect"}
  PROVE  LoanInv'
BY AfterPhase

LEMMA StepNothingDue ==
  ASSUME IInv, stage = "collect", nothingDue(turn)
  PROVE  IInv'
<1>1. /\ dueRows(loan[turn]) = {} /\ advanceTo("credit")
      /\ UNCHANGED <<committed, failure, world>>
  BY DEF nothingDue
<1>2. Place'
  BY <1>1, Advance DEF IInv, Place
<1>3. WorldInv' /\ CommittedInv'
  BY <1>1, CommittedStays DEF IInv, WorldInv, world
<1>4. turn \in Companies /\ loan' = loan /\ committed' = committed
  BY <1>1 DEF IInv, Place, world
<1>5. ToCollect(turn)
  BY <1>4, ScaleFacts DEF ToCollect, Companies
<1>6. Today(loan[turn]) /\ SameLoan(committed.loan[turn], loan[turn])
  BY <1>4, <1>5 DEF IInv, LoanInv
<1>7. OnTime(loan[turn])
  <2> DEFINE l == loan[turn]
  <2> SUFFICES ASSUME liveLoan(l), NEW k \in Rows, l.rows[k] = "due"
               PROVE  k * DaysPerMonth > l.age
    BY DEF OnTime
  <2>1. k * DaysPerMonth >= l.age
    BY <1>6 DEF Today
  <2>2. k * DaysPerMonth # l.age
    BY <1>1 DEF dueRows
  <2>3. l \in LoanRows
    BY <1>4, TypedFacts DEF IInv
  <2>4. k \in Nat /\ DaysPerMonth \in Nat /\ Term \in Nat
    BY ScaleFacts DEF Rows
  <2>5. k * DaysPerMonth \in Nat /\ Term * DaysPerMonth + 1 \in Nat
    BY <2>4
  <2>6. l.age \in Int
    BY <2>3, <2>5, RowFacts
  <2> HIDE DEF l
  <2> QED BY <2>1, <2>2, <2>5, <2>6
<1>8. LoanInv'
  <2>1. OnTime(loan'[turn])
    BY <1>4, <1>7
  <2>2. KeptLoan(committed.loan[turn], loan'[turn])
    BY <1>4, <1>6 DEF KeptLoan
  <2>3. Place /\ LoanInv
    BY DEF IInv
  <2>4. \A c \in Companies : c # turn => loan'[c] = loan[c]
    BY <1>4
  <2> QED BY <1>1, <1>4, <2>1, <2>2, <2>3, <2>4, AfterCollection
<1> QED BY <1>2, <1>3, <1>8 DEF IInv

(* Facts about the loan whose turn it is. *)
LEMMA TurnFacts ==
  ASSUME IInv
  PROVE  /\ turn \in Companies /\ loan[turn] \in LoanRows /\ LoanSound(loan[turn])
         /\ asset[turn] = IF liveLoan(loan[turn]) THEN loan[turn].outstanding ELSE 0
         /\ cash[turn] \in Nat /\ asset[turn] \in Nat
         /\ stage = "collect" => /\ Today(loan[turn])
                                 /\ SameLoan(committed.loan[turn], loan[turn])
<1>1. turn \in Companies
  BY DEF IInv, Place
<1>2. stage = "collect" => ToCollect(turn)
  BY <1>1, ScaleFacts DEF ToCollect, Companies
<1>3. loan[turn] \in LoanRows /\ cash[turn] \in Nat /\ asset[turn] \in 0 .. Principal
  BY <1>1, TypedFacts DEF IInv
<1>4. LoanSound(loan[turn])
  BY <1>1 DEF IInv, WorldInv, Loans
<1>5. asset[turn] = IF liveLoan(loan[turn]) THEN loan[turn].outstanding ELSE 0
  BY <1>1 DEF IInv, WorldInv, Ledger, Backed
<1>6. asset[turn] \in Nat
  BY <1>3, ScaleFacts
<1> QED BY <1>1, <1>2, <1>3, <1>4, <1>5, <1>6 DEF IInv, LoanInv

(* One company's loan, cash and asset move, and the bank's accounts with them. *)
Moves(c, dOwed, dLost, dEarned, dCash, dAsset, dRest) ==
  /\ Sum(Owed(loan')) = Sum(Owed(loan)) + dOwed
  /\ Sum(Lost(loan')) = Sum(Lost(loan)) + dLost
  /\ Sum(Earned(loan')) = Sum(Earned(loan)) + dEarned
  /\ Sum(cash') = Sum(cash) + dCash
  /\ Sum(asset') = Sum(asset) + dAsset
  /\ bank'.source = bank.source - 2 * dOwed
  /\ bank'.loss = bank.loss + dLost
  /\ bank'.income = bank.income + dEarned
  /\ deposits' + row' = deposits + row + dRest

LEMMA MovesBalance ==
  ASSUME WorldInv, Backed(loan', asset'), NEW c,
         NEW dOwed \in Int, NEW dLost \in Int, NEW dEarned \in Int,
         NEW dCash \in Int, NEW dAsset \in Int, NEW dRest \in Int,
         deposits' \in Int, row' \in Int,
         Moves(c, dOwed, dLost, dEarned, dCash, dAsset, dRest),
         dCash + dAsset + dRest - 2 * dOwed + dLost + dEarned = 0
  PROVE  Ledger(loan', asset', bank', cash', deposits', row')
<1>1. /\ Sum(Owed(loan)) \in Int /\ Sum(Lost(loan)) \in Int /\ Sum(Earned(loan)) \in Int
      /\ Sum(cash) \in Int /\ Sum(asset) \in Int
  BY TypedFacts, ColumnTypes, SumInt
<1>2. bank.source \in Int /\ bank.loss \in Int /\ bank.income \in Int
      /\ deposits \in Int /\ row \in Int
  BY TypedFacts, BankFields
<1>3. /\ bank.loss = Sum(Lost(loan)) /\ bank.income = Sum(Earned(loan))
      /\ bank.source = -2 * Sum(Owed(loan))
      /\ row + deposits + Sum(cash) + Sum(asset) + bank.source + bank.income + bank.loss = 0
  BY DEF WorldInv, Ledger
<1>4. bank'.loss = Sum(Lost(loan')) /\ bank'.income = Sum(Earned(loan'))
  BY <1>1, <1>3 DEF Moves
<1>5. bank'.source = -2 * Sum(Owed(loan'))
  <2>1. bank'.source = bank.source - 2 * dOwed /\ Sum(Owed(loan')) = Sum(Owed(loan)) + dOwed
    BY DEF Moves
  <2> QED BY <1>1, <1>3, <2>1
<1>6. row' + deposits' + Sum(cash') + Sum(asset') + bank'.source + bank'.income + bank'.loss = 0
  <2> DEFINE sc == Sum(cash)
             sa == Sum(asset)
  <2>1. /\ Sum(cash') = sc + dCash /\ Sum(asset') = sa + dAsset
        /\ bank'.source = bank.source - 2 * dOwed
        /\ bank'.loss = bank.loss + dLost /\ bank'.income = bank.income + dEarned
        /\ deposits' + row' = deposits + row + dRest
    BY DEF Moves
  <2>2. sc \in Int /\ sa \in Int
        /\ row + deposits + sc + sa + bank.source + bank.income + bank.loss = 0
    BY <1>1, <1>3
  <2> DEFINE s == bank.source
             e == bank.income
             n == bank.loss
             z == deposits + row
  <2>3. s \in Int /\ e \in Int /\ n \in Int /\ z \in Int /\ z + sc + sa + s + e + n = 0
    BY <1>2, <2>2
  <2>4. /\ Sum(cash') = sc + dCash /\ Sum(asset') = sa + dAsset
        /\ bank'.source = s - 2 * dOwed /\ bank'.loss = n + dLost /\ bank'.income = e + dEarned
        /\ row' + deposits' = z + dRest
    BY <2>1
  <2> HIDE DEF sc, sa, s, e, n, z
  <2>5. /\ (z + dRest) + (sc + dCash) + (sa + dAsset) + (s - 2 * dOwed) + (e + dEarned)
             + (n + dLost) = 0
    BY <2>2, <2>3
  <2> QED BY <2>4, <2>5
<1> QED BY <1>4, <1>5, <1>6 DEF Ledger

LEMMA StepCollect ==
  ASSUME IInv, stage = "collect", collect(turn)
  PROVE  IInv'
<1> DEFINE c == turn
           l == loan[turn]
<1>1. /\ turn \in Companies /\ l \in LoanRows /\ LoanSound(l) /\ Today(l)
      /\ SameLoan(committed.loan[turn], l)
      /\ cash[turn] \in Nat /\ asset[turn] = IF liveLoan(l) THEN l.outstanding ELSE 0
  BY TurnFacts
<1>2. PICK k \in dueRows(l) :
        LET ks == targets(l, k)
        IN  /\ status[c] = "active"
            /\ canCollect(c, ks)
            /\ cash' = [cash EXCEPT ![c] = @ - principalOf(ks) - interestOf(ks)]
            /\ asset' = [asset EXCEPT ![c] = @ - principalOf(ks)]
            /\ bank' = [bank EXCEPT !.source = @ + 2 * principalOf(ks),
                                    !.income = @ + interestOf(ks)]
            /\ loan' = [loan EXCEPT ![c] = loanStateAfterCollection(@, ks)]
            /\ advanceTo("credit")
            /\ UNCHANGED <<committed, failure, status, shortfall, application,
                           bankStatus, deposits, row>>
  BY DEF collect
<1> DEFINE ks == targets(l, k)
           m == loanStateAfterCollection(l, ks)
           p == principalOf(ks)
           i == interestOf(ks)
<1>3. Collected(l, m, ks)
  BY <1>1, CollectLoan
<1>4. /\ loan \in [Companies -> LoanRows]
      /\ cash \in [Companies -> Nat] /\ cash \in [Companies -> Int]
      /\ asset \in [Companies -> Int] /\ asset \in [Companies -> 0 .. Principal]
      /\ bank \in BankRows
  BY TypedFacts DEF IInv
<1>5. /\ loan' = [loan EXCEPT ![turn] = m]
      /\ cash' = [cash EXCEPT ![turn] = cash[turn] - p - i]
      /\ asset' = [asset EXCEPT ![turn] = asset[turn] - p]
      /\ bank' = [bank EXCEPT !.source = @ + 2 * p, !.income = @ + i]
      /\ cash[turn] >= p + i
      /\ advanceTo("credit")
      /\ UNCHANGED <<committed, failure, status, shortfall, application,
                     bankStatus, deposits, row>>
  BY <1>2 DEF canCollect
<1> HIDE DEF ks, m, p, i, l
<1>6. /\ p \in Nat \ {0} /\ i \in Nat /\ m \in LoanRows /\ liveLoan(l)
      /\ m.outstanding = l.outstanding - p
      /\ m.status \in {"paid_off", "repaying"}
      /\ m.status = "paid_off" <=> m.outstanding = 0
      /\ interestOf(completedOf(m)) = interestOf(completedOf(l)) + i
  BY <1>3 DEF Collected, PaysAll, p, i
<1>7. /\ loan'[turn] = m /\ \A x \in Companies : x # turn => loan'[x] = loan[x]
      /\ loan' \in [Companies -> LoanRows]
  BY <1>1, <1>4, <1>5, <1>6
<1>8. l.outstanding \in Nat /\ m.outstanding \in 0 .. Principal /\ asset[turn] = l.outstanding
      /\ m.outstanding \in Nat
  BY <1>1, <1>6, RowFacts, ScaleFacts
<1>9. cash[turn] - p - i \in Nat /\ asset[turn] - p = m.outstanding
  BY <1>1, <1>5, <1>6, <1>8
<1>10. /\ cash'[turn] = cash[turn] - p - i /\ \A x \in Companies : x # turn => cash'[x] = cash[x]
       /\ cash' \in [Companies -> Nat]
  BY <1>1, <1>4, <1>5, <1>9
<1>11. /\ asset'[turn] = m.outstanding /\ \A x \in Companies : x # turn => asset'[x] = asset[x]
       /\ asset' \in [Companies -> 0 .. Principal]
  <2>1. asset' = [asset EXCEPT ![turn] = m.outstanding]
    BY <1>5, <1>9
  <2> QED BY <1>1, <1>4, <1>8, <2>1
<1>12. /\ bank' \in BankRows /\ bank'.source = bank.source + 2 * p
       /\ bank'.income = bank.income + i /\ bank'.loss = bank.loss
  <2>1. 2 * p \in Int /\ i \in Nat
    BY <1>6
  <2>2. bank' = PaidIn(bank, 2 * p, i)
    BY <1>5 DEF PaidIn
  <2>3. Balances(PaidIn(bank, 2 * p, i), bank.source + 2 * p, bank.income + i, bank.loss)
    BY <1>4, <2>1, BankMoves
  <2> QED BY <2>2, <2>3 DEF Balances
<1>13. Typed(status', shortfall', cash', application', loan', asset', bankStatus', bank',
             deposits', row')
  BY <1>5, <1>7, <1>10, <1>11, <1>12 DEF IInv, WorldInv, Typed
<1>14. Loans(loan')
  <2>1. LoanSound(m)
    BY <1>3 DEF Collected
  <2>2. \A x \in Companies : LoanSound(loan[x])
    BY DEF IInv, WorldInv, Loans
  <2>3. \A x \in Companies : x = turn \/ loan'[x] = loan[x]
    BY <1>7
  <2> QED BY <1>7, <2>1, <2>2, <2>3 DEF Loans
<1>15. Backed(loan', asset')
  <2>1. m.outstanding = IF liveLoan(m) THEN m.outstanding ELSE 0
    BY <1>6 DEF liveLoan
  <2>2. Backed(loan, asset)
    BY DEF IInv, WorldInv, Ledger
  <2>3. ASSUME NEW x \in Companies
        PROVE  asset'[x] = IF liveLoan(loan'[x]) THEN loan'[x].outstanding ELSE 0
    <3>1. CASE x = turn
      BY <1>7, <1>11, <2>1, <3>1
    <3>2. CASE x # turn
      <4>1. loan'[x] = loan[x] /\ asset'[x] = asset[x]
        BY <1>7, <1>11, <3>2
      <4>2. asset[x] = IF liveLoan(loan[x]) THEN loan[x].outstanding ELSE 0
        BY <2>2 DEF Backed
      <4> QED BY <4>1, <4>2
    <3> QED BY <3>1, <3>2
  <2> QED BY <2>3 DEF Backed
<1>16. Ledger(loan', asset', bank', cash', deposits', row')
  <2>1. /\ Sum(Owed(loan')) = Sum(Owed(loan)) - l.outstanding + m.outstanding
        /\ Sum(Lost(loan')) = Sum(Lost(loan)) - lossOf(l) + lossOf(m)
        /\ Sum(Earned(loan')) = Sum(Earned(loan)) - interestOf(completedOf(l))
                                  + interestOf(completedOf(m))
        /\ Sum(Owed(loan)) \in Int /\ Sum(Lost(loan)) \in Int /\ Sum(Earned(loan)) \in Int
    BY <1>1, <1>4, <1>7, OneLoan DEF l
  <2>2. lossOf(l) = 0 /\ lossOf(m) = 0
    BY <1>6 DEF lossOf, liveLoan
  <2>3. interestOf(completedOf(l)) \in Nat
    BY Worth
  <2>4. Sum(cash') = Sum(cash) - cash[turn] + cash'[turn] /\ Sum(cash) \in Int
    <3>1. cash' \in [Companies -> Int]
      BY <1>10
    <3> QED BY <1>1, <1>4, <1>10, <3>1, SumOne
  <2>5. Sum(asset') = Sum(asset) - asset[turn] + asset'[turn] /\ Sum(asset) \in Int
    <3>1. asset' \in [Companies -> Int]
      BY <1>11, ScaleFacts
    <3> QED BY <1>1, <1>4, <1>11, <3>1, SumOne
  <2>6. bank.source \in Int /\ bank.loss \in Nat /\ bank.income \in Nat
    BY <1>4, BankFields
  <2>7. Sum(Owed(loan')) = Sum(Owed(loan)) + (0 - p) /\ Sum(Lost(loan')) = Sum(Lost(loan)) + 0
    BY <1>6, <1>8, <2>1, <2>2
  <2>8. Sum(Earned(loan')) = Sum(Earned(loan)) + i
    BY <1>6, <2>1, <2>3
  <2>9. Sum(cash') = Sum(cash) + (0 - p - i)
    BY <1>1, <1>6, <1>10, <2>4
  <2>10. Sum(asset') = Sum(asset) + (0 - p)
    BY <1>6, <1>8, <1>11, <2>5
  <2>11. deposits \in Int /\ row \in Int /\ deposits' \in Int /\ row' \in Int
    BY <1>5, TypedFacts DEF IInv
  <2>12. deposits' + row' = deposits + row + 0
    BY <1>5, <2>11
  <2>13. bank'.source = bank.source - 2 * (0 - p) /\ bank'.loss = bank.loss + 0
    BY <1>6, <1>12, <2>6
  <2>14. Moves(turn, 0 - p, 0, i, 0 - p - i, 0 - p, 0)
    BY <1>12, <2>7, <2>8, <2>9, <2>10, <2>12, <2>13 DEF Moves
  <2>15. (0 - p - i) + (0 - p) + 0 - 2 * (0 - p) + 0 + i = 0
    BY <1>6
  <2>16. 0 - p \in Int /\ 0 - p - i \in Int /\ i \in Int
    BY <1>6
  <2>17. WorldInv
    BY DEF IInv
  <2> DEFINE u == 0 - p
             v == 0 - p - i
  <2>18. Moves(turn, u, 0, i, v, u, 0) /\ v + u + 0 - 2 * u + 0 + i = 0 /\ u \in Int /\ v \in Int
    BY <2>14, <2>15, <2>16
  <2> HIDE DEF u, v
  <2> QED BY <1>15, <2>11, <2>16, <2>17, <2>18, MovesBalance
<1>17. Place'
  BY <1>1, <1>5, Advance DEF IInv, Place
<1>18. WorldInv'
  BY <1>5, <1>13, <1>14, <1>16 DEF IInv, WorldInv
<1>19. LoanInv'
  <2>1. OnTime(m)
    BY <1>3 DEF Collected
  <2>2. KeptLoan(committed.loan[turn], m)
    <3>1. PaysAll(l, m)
      BY <1>3 DEF Collected
    <3> QED BY <1>1, <3>1, FirstStep DEF KeptLoan
  <2>3. Place /\ LoanInv
    BY DEF IInv
  <2> QED BY <1>5, <1>7, <2>1, <2>2, <2>3, AfterCollection
<1>20. CommittedInv'
  BY <1>5, CommittedStays DEF IInv
<1> QED BY <1>17, <1>18, <1>19, <1>20 DEF IInv

LEMMA StepMiss ==
  ASSUME IInv, stage = "collect", recordMiss(turn)
  PROVE  IInv'
<1> DEFINE l == loan[turn]
<1>1. /\ turn \in Companies /\ l \in LoanRows /\ LoanSound(l) /\ Today(l)
      /\ SameLoan(committed.loan[turn], l)
      /\ asset[turn] = IF liveLoan(l) THEN l.outstanding ELSE 0
  BY TurnFacts
<1>2. PICK k \in dueRows(l) :
        LET n == loanStateAfterMiss(l, k)
        IN  /\ status[turn] = "active"
            /\ ~canCollect(turn, targets(l, k))
            /\ loan' = [loan EXCEPT ![turn] = n]
            /\ IF n.status = "defaulted"
               THEN recordDefault(turn, n.outstanding)
               ELSE UNCHANGED <<asset, bank>>
            /\ advanceTo("credit")
            /\ UNCHANGED <<committed, failure, status, shortfall, cash, application,
                           bankStatus, deposits, row>>
  BY DEF recordMiss
<1> DEFINE m == loanStateAfterMiss(l, k)
<1>3. Missed(l, m, k)
  BY <1>1, MissLoan
<1>4. /\ loan \in [Companies -> LoanRows]
      /\ cash \in [Companies -> Int]
      /\ asset \in [Companies -> Int] /\ asset \in [Companies -> 0 .. Principal]
      /\ bank \in BankRows
  BY TypedFacts DEF IInv
<1>5. /\ loan' = [loan EXCEPT ![turn] = m]
      /\ m.status = "defaulted" => recordDefault(turn, m.outstanding)
      /\ m.status # "defaulted" => UNCHANGED <<asset, bank>>
      /\ advanceTo("credit")
      /\ UNCHANGED <<committed, failure, status, shortfall, cash, application,
                     bankStatus, deposits, row>>
  BY <1>2
<1> HIDE DEF m, l
<1>6. /\ m \in LoanRows /\ liveLoan(l) /\ m.status \in {"defaulted", "repaying"}
      /\ m.outstanding = l.outstanding /\ completedOf(m) = completedOf(l)
  BY <1>3 DEF Missed, Misses
<1>7. /\ loan'[turn] = m /\ \A x \in Companies : x # turn => loan'[x] = loan[x]
      /\ loan' \in [Companies -> LoanRows]
  BY <1>1, <1>4, <1>5, <1>6
<1> DEFINE o == m.outstanding
           dAsset == IF m.status = "defaulted" THEN 0 - o ELSE 0
           dLost == IF m.status = "defaulted" THEN o ELSE 0
<1>8. o \in Nat /\ asset[turn] = o /\ 0 \in 0 .. Principal
  BY <1>1, <1>6, RowFacts, ScaleFacts
<1>9. /\ asset' \in [Companies -> 0 .. Principal]
      /\ asset'[turn] = IF m.status = "defaulted" THEN 0 ELSE o
      /\ \A x \in Companies : x # turn => asset'[x] = asset[x]
  <2>1. CASE m.status = "defaulted"
    <3>1. asset' = [asset EXCEPT ![turn] = asset[turn] - o]
      BY <1>5, <2>1 DEF recordDefault
    <3>2. asset[turn] - o = 0
      BY <1>8
    <3>3. asset' = [asset EXCEPT ![turn] = 0]
      BY <3>1, <3>2
    <3> HIDE DEF o
    <3> QED BY <1>1, <1>4, <1>8, <2>1, <3>3
  <2>2. CASE m.status # "defaulted"
    BY <1>4, <1>5, <1>8, <2>2
  <2> QED BY <2>1, <2>2
<1>10. Balances(bank', bank.source, bank.income, bank.loss + dLost)
  <2>1. CASE m.status = "defaulted"
    <3>1. bank' = WrittenOff(bank, o)
      BY <1>5, <2>1 DEF recordDefault, WrittenOff
    <3>2. 0 \in Int
      OBVIOUS
    <3> HIDE DEF o
    <3>3. Balances(WrittenOff(bank, o), bank.source, bank.income, bank.loss + o)
      BY <1>4, <1>8, <3>2, BankMoves
    <3> QED BY <2>1, <3>1, <3>3
  <2>2. CASE m.status # "defaulted"
    <3>1. bank.loss + dLost = bank.loss
      BY <1>4, <2>2, BankFields
    <3>2. bank' = bank
      BY <1>5, <2>2
    <3> HIDE DEF dLost
    <3> QED BY <1>4, <3>1, <3>2 DEF Balances
  <2> QED BY <2>1, <2>2
<1>11. Typed(status', shortfall', cash', application', loan', asset', bankStatus', bank',
             deposits', row')
  BY <1>5, <1>7, <1>9, <1>10 DEF IInv, WorldInv, Typed, Balances
<1>12. Loans(loan')
  <2>1. LoanSound(m)
    BY <1>3 DEF Missed
  <2>2. \A x \in Companies : LoanSound(loan[x])
    BY DEF IInv, WorldInv, Loans
  <2>3. \A x \in Companies : x = turn \/ loan'[x] = loan[x]
    BY <1>7
  <2> QED BY <1>7, <2>1, <2>2, <2>3 DEF Loans
<1>13. Backed(loan', asset')
  <2>1. asset'[turn] = IF liveLoan(m) THEN m.outstanding ELSE 0
    BY <1>6, <1>9 DEF liveLoan
  <2>2. Backed(loan, asset)
    BY DEF IInv, WorldInv, Ledger
  <2>3. ASSUME NEW x \in Companies
        PROVE  asset'[x] = IF liveLoan(loan'[x]) THEN loan'[x].outstanding ELSE 0
    <3>1. CASE x = turn
      BY <1>7, <2>1, <3>1
    <3>2. CASE x # turn
      <4>1. loan'[x] = loan[x] /\ asset'[x] = asset[x]
        BY <1>7, <1>9, <3>2
      <4>2. asset[x] = IF liveLoan(loan[x]) THEN loan[x].outstanding ELSE 0
        BY <2>2 DEF Backed
      <4> QED BY <4>1, <4>2
    <3> QED BY <3>1, <3>2
  <2> QED BY <2>3 DEF Backed
<1>14. Ledger(loan', asset', bank', cash', deposits', row')
  <2>1. /\ Sum(Owed(loan')) = Sum(Owed(loan)) - l.outstanding + m.outstanding
        /\ Sum(Lost(loan')) = Sum(Lost(loan)) - lossOf(l) + lossOf(m)
        /\ Sum(Earned(loan')) = Sum(Earned(loan)) - interestOf(completedOf(l))
                                  + interestOf(completedOf(m))
        /\ Sum(Owed(loan)) \in Int /\ Sum(Lost(loan)) \in Int /\ Sum(Earned(loan)) \in Int
    BY <1>1, <1>4, <1>7, OneLoan DEF l
  <2>2. lossOf(l) = 0 /\ lossOf(m) = dLost
    BY <1>6 DEF lossOf, liveLoan
  <2>3. interestOf(completedOf(l)) \in Nat
    BY Worth
  <2>4. Sum(asset') = Sum(asset) - asset[turn] + asset'[turn] /\ Sum(asset) \in Int
    <3>1. asset' \in [Companies -> Int]
      BY <1>9, ScaleFacts
    <3> QED BY <1>1, <1>4, <1>9, <3>1, SumOne
  <2>5. Sum(cash') = Sum(cash) + 0 /\ Sum(cash) \in Int
    BY <1>4, <1>5, SumInt
  <2>6. bank.source \in Int /\ bank.loss \in Nat /\ bank.income \in Nat
    BY <1>4, BankFields
  <2>7. dLost \in Int /\ dAsset \in Int /\ 0 + dAsset + 0 - 2 * 0 + dLost + 0 = 0
    BY <1>8
  <2>8. Sum(Owed(loan')) = Sum(Owed(loan)) + 0 /\ Sum(Earned(loan')) = Sum(Earned(loan)) + 0
    BY <1>6, <1>8, <2>1, <2>3
  <2>9. Sum(Lost(loan')) = Sum(Lost(loan)) + dLost
    BY <2>1, <2>2, <2>7
  <2>10. Sum(asset') = Sum(asset) + dAsset
    <3>1. asset'[turn] - asset[turn] = dAsset
      BY <1>8, <1>9
    <3>2. asset'[turn] \in Int /\ asset[turn] \in Int
      BY <1>8, <1>9
    <3> QED BY <2>4, <2>7, <3>1, <3>2
  <2>11. deposits \in Int /\ row \in Int /\ deposits' \in Int /\ row' \in Int
         /\ deposits' + row' = deposits + row + 0
    BY <1>5, TypedFacts DEF IInv
  <2>12. /\ bank'.source = bank.source - 2 * 0 /\ bank'.loss = bank.loss + dLost
         /\ bank'.income = bank.income + 0
    BY <1>10, <2>6 DEF Balances
  <2> HIDE DEF dLost, dAsset
  <2>13. Moves(turn, 0, dLost, 0, 0, dAsset, 0)
    BY <2>5, <2>8, <2>9, <2>10, <2>11, <2>12 DEF Moves
  <2>14. WorldInv /\ 0 \in Int
    BY DEF IInv
  <2> QED BY <1>13, <2>7, <2>11, <2>13, <2>14, MovesBalance
<1>15. Place'
  BY <1>1, <1>5, Advance DEF IInv, Place
<1>16. WorldInv'
  BY <1>5, <1>11, <1>12, <1>14 DEF IInv, WorldInv
<1>17. LoanInv'
  <2>1. OnTime(m)
    BY <1>3 DEF Missed
  <2>2. KeptLoan(committed.loan[turn], m)
    <3>1. Misses(l, m)
      BY <1>3 DEF Missed
    <3> QED BY <1>1, <3>1, FirstStep DEF KeptLoan
  <2>3. Place /\ LoanInv
    BY DEF IInv
  <2> QED BY <1>5, <1>7, <2>1, <2>2, <2>3, AfterCollection
<1>18. CommittedInv'
  BY <1>5, CommittedStays DEF IInv
<1> QED BY <1>15, <1>16, <1>17, <1>18 DEF IInv

LEMMA StepObligations == IInv /\ processDueInstallments => IInv'
<1> SUFFICES ASSUME IInv, processDueInstallments
             PROVE  IInv'
  OBVIOUS
<1>1. CASE nothingDue(turn)
  BY <1>1, StepNothingDue DEF processDueInstallments
<1>2. CASE collect(turn)
  BY <1>2, StepCollect DEF processDueInstallments
<1>3. CASE recordMiss(turn)
  BY <1>3, StepMiss DEF processDueInstallments
<1>4. CASE borrowerAccountClosed(turn)
  BY <1>4, StepFail DEF borrowerAccountClosed
<1> QED BY <1>1, <1>2, <1>3, <1>4 DEF processDueInstallments

(* Steps of the credit lifecycle that move no money. *)
LEMMA StepApplication ==
  ASSUME IInv, stage = "credit", advanceTo("settle"),
         UNCHANGED <<committed, failure, status, shortfall, cash, loan, asset, bank, deposits, row>>,
         application' \in [Companies -> ApplicationRows],
         bankStatus' \in {"active", "lending_halted"}
  PROVE  IInv'
<1>1. Place' /\ stage' \in {"credit", "settle"}
  BY Advance DEF IInv, Place
<1>2. WorldInv'
  BY QuietWorld DEF IInv
<1>3. CommittedInv'
  BY CommittedStays DEF IInv
<1>4. LoanInv'
  BY <1>1, Unmoved DEF IInv
<1> QED BY <1>1, <1>2, <1>3, <1>4 DEF IInv

LEMMA NewLoanFacts ==
  /\ NewLoan.status = "disbursed" /\ NewLoan.age = 0 /\ NewLoan.outstanding = Principal
  /\ NewLoan.misses = 0 /\ NewLoan.rows = [k \in Rows |-> "due"]
  /\ NewLoan \in LoanRows /\ StandsAt(NewLoan, 0) /\ OnTime(NewLoan)
  /\ NoLoan \in LoanRows /\ StandsAt(NoLoan, 0)
  /\ paidOf(NewLoan) = 0 /\ paidOf(NoLoan) = 0
  /\ completedOf(NewLoan) = {} /\ completedOf(NoLoan) = {}
<1>1. /\ NewLoan = [status |-> "disbursed", age |-> 0, outstanding |-> Principal, misses |-> 0,
                    rows |-> [k \in Rows |-> "due"]]
  <2> DEFINE w == [k \in Rows |-> "due"]
  <2>1. NoLoan = RowOf("none", 0, 0, 0, w)
    BY DEF NoLoan, RowOf
  <2>2. NewLoan = SetOutstanding(SetStatus(NoLoan, "disbursed"), Principal)
    BY DEF NewLoan, SetOutstanding, SetStatus
  <2> HIDE DEF w
  <2>3. SetStatus(RowOf("none", 0, 0, 0, w), "disbursed") = RowOf("disbursed", 0, 0, 0, w)
    BY DEF SetStatus, RowOf
  <2>4. SetOutstanding(RowOf("disbursed", 0, 0, 0, w), Principal)
          = RowOf("disbursed", 0, Principal, 0, w)
    BY DEF SetOutstanding, RowOf
  <2> QED BY <2>1, <2>2, <2>3, <2>4 DEF RowOf, w
<1>2. /\ NewLoan.status = "disbursed" /\ NewLoan.age = 0 /\ NewLoan.outstanding = Principal
      /\ NewLoan.misses = 0 /\ NewLoan.rows = [k \in Rows |-> "due"]
  BY <1>1
<1>3. 0 \in 0 .. Term * DaysPerMonth + 1 /\ 0 \in 0 .. Principal /\ Principal \in 0 .. Principal
      /\ 0 \in 0 .. LOAN_DEFAULT_CONSECUTIVE_MISSES /\ 0 \in 0 .. Term /\ 0 < Term /\ Term \in Nat
  <2>1. Term * DaysPerMonth + 1 \in Nat
    BY ScaleFacts
  <2> QED BY <2>1, ScaleFacts DEF LOAN_DEFAULT_CONSECUTIVE_MISSES
<1>4. [k \in Rows |-> "due"] \in [Rows -> InstallmentRows]
  BY DEF InstallmentRows
<1>5. NewLoan \in LoanRows /\ NoLoan \in LoanRows
  BY <1>1, <1>3, <1>4 DEF LoanRows, NoLoan
<1>6. RowsAt(NewLoan, 0) /\ RowsAt(NoLoan, 0)
  BY <1>2, <1>3 DEF RowsAt, NoLoan, Rows
<1>7. principalOf(1 .. 0) = 0
  BY WorthOfNothing
<1>8. StandsAt(NewLoan, 0)
  <2>1. NewLoan.outstanding = Principal - principalOf(1 .. 0)
    BY <1>2, <1>7, ScaleFacts
  <2>2. 0 < Term /\ NewLoan.misses < 3 /\ 0 + NewLoan.misses <= Term
    BY <1>2, <1>3
  <2> QED BY <1>2, <1>3, <1>6, <2>1, <2>2 DEF StandsAt
<1>9. StandsAt(NoLoan, 0)
  BY <1>3, <1>6 DEF StandsAt, NoLoan, liveLoan
<1>10. OnTime(NewLoan)
  <2> SUFFICES ASSUME NEW k \in Rows
               PROVE  k * DaysPerMonth > NewLoan.age
    BY DEF OnTime
  <2>1. k \in Nat /\ 0 < k
    BY <1>3 DEF Rows
  <2>2. 0 * DaysPerMonth < k * DaysPerMonth /\ 0 * DaysPerMonth = 0
    BY <2>1, Later, ScaleFacts
  <2>3. k * DaysPerMonth \in Nat
    BY <2>1, Multiples, ScaleFacts
  <2> QED BY <1>2, <2>2, <2>3
<1>11. 1 .. 0 = {}
  OBVIOUS
<1>12. /\ completedOf(NewLoan) = {} /\ paidOf(NewLoan) = 0
       /\ completedOf(NoLoan) = {} /\ paidOf(NoLoan) = 0
  <2>1. NewLoan.misses \in Nat /\ NoLoan.misses \in Nat
    BY <1>2 DEF NoLoan
  <2> QED BY <1>8, <1>9, <1>11, <2>1, Completed
<1> QED BY <1>2, <1>5, <1>8, <1>9, <1>10, <1>12

LEMMA StepDisburse ==
  ASSUME IInv, stage = "credit", tryDisburseApprovedApplication(turn), systemicPassed
  PROVE  IInv'
<1> DEFINE l == loan[turn]
<1>1. /\ turn \in Companies /\ cash[turn] \in Nat /\ LoanSound(l)
      /\ asset[turn] = IF liveLoan(l) THEN l.outstanding ELSE 0
  BY TurnFacts
<1>2. /\ l.status = "none"
      /\ loan' = [loan EXCEPT ![turn] = NewLoan]
      /\ asset' = [asset EXCEPT ![turn] = asset[turn] + Principal]
      /\ cash' = [cash EXCEPT ![turn] = cash[turn] + Principal]
      /\ bank' = LentOut(bank, 2 * Principal)
      /\ advanceTo("settle") /\ bankStatus' = bankStatusAfter
      /\ UNCHANGED <<committed, failure, status, shortfall, application, deposits, row>>
  BY DEF tryDisburseApprovedApplication, LentOut
<1>3. /\ loan \in [Companies -> LoanRows]
      /\ cash \in [Companies -> Int] /\ cash \in [Companies -> Nat]
      /\ asset \in [Companies -> Int] /\ asset \in [Companies -> 0 .. Principal]
      /\ bank \in BankRows
  BY TypedFacts DEF IInv
<1>4. l = NoLoan
  <2>1. PICK p : StandsAt(l, p)
    BY <1>1 DEF LoanSound
  <2> QED BY <1>2, <2>1 DEF StandsAt
<1>5. asset[turn] = 0 /\ Principal \in Nat /\ Principal \in 0 .. Principal
  BY <1>1, <1>2, ScaleFacts DEF liveLoan
<1>6. /\ loan'[turn] = NewLoan /\ \A x \in Companies : x # turn => loan'[x] = loan[x]
      /\ loan' \in [Companies -> LoanRows]
  BY <1>1, <1>2, <1>3, NewLoanFacts
<1>7. /\ asset'[turn] = Principal /\ \A x \in Companies : x # turn => asset'[x] = asset[x]
      /\ asset' \in [Companies -> 0 .. Principal]
  <2>1. asset' = [asset EXCEPT ![turn] = Principal]
    BY <1>2, <1>5
  <2> QED BY <1>1, <1>3, <1>5, <2>1
<1>8. /\ cash'[turn] = cash[turn] + Principal /\ \A x \in Companies : x # turn => cash'[x] = cash[x]
      /\ cash' \in [Companies -> Nat]
  <2>1. cash[turn] + Principal \in Nat
    BY <1>1, <1>5
  <2> QED BY <1>1, <1>2, <1>3, <2>1
<1>9. Balances(bank', bank.source - 2 * Principal, bank.income, bank.loss)
  <2>1. bank' = LentOut(bank, 2 * Principal)
    BY <1>2
  <2>2. 2 * Principal \in Int /\ 0 \in Nat
    BY <1>5
  <2>3. Balances(LentOut(bank, 2 * Principal), bank.source - 2 * Principal, bank.income, bank.loss)
    BY <1>3, <2>2, BankMoves
  <2> QED BY <2>1, <2>3
<1>10. bankStatus' \in {"active", "lending_halted"}
  BY <1>2 DEF bankStatusAfter
<1>11. Typed(status', shortfall', cash', application', loan', asset', bankStatus', bank',
             deposits', row')
  BY <1>2, <1>6, <1>7, <1>8, <1>9, <1>10 DEF IInv, WorldInv, Typed, Balances
<1>12. Loans(loan')
  <2>1. LoanSound(NewLoan)
    BY NewLoanFacts DEF LoanSound
  <2>2. \A x \in Companies : LoanSound(loan[x])
    BY DEF IInv, WorldInv, Loans
  <2>3. \A x \in Companies : x = turn \/ loan'[x] = loan[x]
    BY <1>6
  <2> QED BY <1>6, <2>1, <2>2, <2>3 DEF Loans
<1>13. Backed(loan', asset')
  <2>1. Principal = IF liveLoan(NewLoan) THEN NewLoan.outstanding ELSE 0
    BY NewLoanFacts DEF liveLoan
  <2>2. Backed(loan, asset)
    BY DEF IInv, WorldInv, Ledger
  <2>3. ASSUME NEW x \in Companies
        PROVE  asset'[x] = IF liveLoan(loan'[x]) THEN loan'[x].outstanding ELSE 0
    <3>1. CASE x = turn
      BY <1>6, <1>7, <2>1, <3>1
    <3>2. CASE x # turn
      <4>1. loan'[x] = loan[x] /\ asset'[x] = asset[x]
        BY <1>6, <1>7, <3>2
      <4>2. asset[x] = IF liveLoan(loan[x]) THEN loan[x].outstanding ELSE 0
        BY <2>2 DEF Backed
      <4> QED BY <4>1, <4>2
    <3> QED BY <3>1, <3>2
  <2> QED BY <2>3 DEF Backed
<1>14. Ledger(loan', asset', bank', cash', deposits', row')
  <2>1. /\ Sum(Owed(loan')) = Sum(Owed(loan)) - l.outstanding + NewLoan.outstanding
        /\ Sum(Lost(loan')) = Sum(Lost(loan)) - lossOf(l) + lossOf(NewLoan)
        /\ Sum(Earned(loan')) = Sum(Earned(loan)) - interestOf(completedOf(l))
                                  + interestOf(completedOf(NewLoan))
        /\ Sum(Owed(loan)) \in Int /\ Sum(Lost(loan)) \in Int /\ Sum(Earned(loan)) \in Int
    BY <1>1, <1>3, <1>6, OneLoan DEF l
  <2>2. /\ lossOf(l) = 0 /\ lossOf(NewLoan) = 0 /\ l.outstanding = 0
        /\ completedOf(l) = completedOf(NewLoan)
    BY <1>4, NewLoanFacts DEF lossOf, NoLoan
  <2>3. interestOf(completedOf(l)) \in Nat
    BY Worth
  <2>4. Sum(asset') = Sum(asset) - asset[turn] + asset'[turn] /\ Sum(asset) \in Int
    <3>1. asset' \in [Companies -> Int]
      BY <1>7, ScaleFacts
    <3> QED BY <1>1, <1>3, <1>7, <3>1, SumOne
  <2>5. Sum(cash') = Sum(cash) - cash[turn] + cash'[turn] /\ Sum(cash) \in Int
    <3>1. cash' \in [Companies -> Int]
      BY <1>8
    <3> QED BY <1>1, <1>3, <1>8, <3>1, SumOne
  <2>6. bank.source \in Int /\ bank.loss \in Nat /\ bank.income \in Nat
    BY <1>3, BankFields
  <2> DEFINE P == Principal
  <2>7. /\ Sum(Owed(loan')) = Sum(Owed(loan)) + P /\ Sum(Lost(loan')) = Sum(Lost(loan)) + 0
        /\ Sum(Earned(loan')) = Sum(Earned(loan)) + 0
    BY <1>5, <2>1, <2>2, <2>3, NewLoanFacts
  <2>8. Sum(asset') = Sum(asset) + P /\ Sum(cash') = Sum(cash) + P
    BY <1>1, <1>5, <1>7, <1>8, <2>4, <2>5
  <2>9. deposits \in Int /\ row \in Int /\ deposits' \in Int /\ row' \in Int
        /\ deposits' + row' = deposits + row + 0
    BY <1>2, TypedFacts DEF IInv
  <2>10. /\ bank'.source = bank.source - 2 * P /\ bank'.loss = bank.loss + 0
         /\ bank'.income = bank.income + 0
    BY <1>9, <2>6 DEF Balances
  <2>11. P \in Int /\ P + P + 0 - 2 * P + 0 + 0 = 0 /\ 0 \in Int
    BY <1>5
  <2> HIDE DEF P
  <2>12. Moves(turn, P, 0, 0, P, P, 0)
    BY <2>7, <2>8, <2>9, <2>10 DEF Moves
  <2>13. WorldInv
    BY DEF IInv
  <2> QED BY <1>13, <2>9, <2>11, <2>12, <2>13, MovesBalance
<1>15. Place' /\ stage' \in {"credit", "settle"}
  BY <1>1, <1>2, Advance DEF IInv, Place
<1>16. WorldInv'
  BY <1>2, <1>11, <1>12, <1>14 DEF IInv, WorldInv
<1>17. LoanInv'
  <2>1. KeptLoan(committed.loan[turn], l)
    BY <1>1 DEF IInv, LoanInv, ToCollect
  <2>2. SameLoan(committed.loan[turn], l)
    BY <1>2, <2>1 DEF KeptLoan, Takes, PaysAll, Misses
  <2>3. Takes(l, NewLoan)
    BY <1>4, NewLoanFacts DEF Takes, NoLoan
  <2>4. KeptLoan(committed.loan[turn], NewLoan)
    BY <2>2, <2>3, FirstStep DEF KeptLoan
  <2>5. OnTime(NewLoan)
    BY NewLoanFacts
  <2>6. \A x \in Companies : \/ loan'[x] = loan[x]
                             \/ OnTime(loan'[x]) /\ KeptLoan(committed.loan[x], loan'[x])
    BY <1>6, <2>4, <2>5
  <2>7. LoanInv /\ stage \notin {"idle", "collect"} /\ stage' \notin {"idle", "collect"}
        /\ committed' = committed
    BY <1>2, <1>15 DEF IInv
  <2> QED BY <2>6, <2>7, AfterPhase
<1>18. CommittedInv'
  BY <1>2, CommittedStays DEF IInv
<1> QED BY <1>15, <1>16, <1>17, <1>18 DEF IInv

LEMMA StepCredit == IInv /\ processCreditLifecycle => IInv'
<1> SUFFICES ASSUME IInv, processCreditLifecycle
             PROVE  IInv'
  OBVIOUS
<1>1. /\ stage = "credit" /\ turn \in Companies
      /\ application \in [Companies -> ApplicationRows]
      /\ bankStatus \in {"active", "lending_halted"}
      /\ bankStatusAfter \in {"active", "lending_halted"}
  BY TypedFacts DEF IInv, Place, processCreditLifecycle, bankStatusAfter
<1>2. CASE noCreditStep(turn)
  BY <1>1, <1>2, StepApplication DEF noCreditStep, world
<1>3. CASE submitApplication(turn)
  <2>1. application' \in [Companies -> ApplicationRows]
    BY <1>1, <1>3 DEF submitApplication, ApplicationRows
  <2> QED BY <1>1, <1>3, <2>1, StepApplication DEF submitApplication
<1>4. CASE noActiveBank(turn)
  BY <1>4, StepFail DEF noActiveBank
<1>5. CASE beginReview(turn)
  <2>1. application' \in [Companies -> ApplicationRows]
    BY <1>1, <1>5 DEF beginReview, ApplicationRows
  <2> QED BY <1>1, <1>5, <2>1, StepApplication DEF beginReview
<1>6. CASE decideApplication(turn)
  <2>1. application' \in [Companies -> ApplicationRows]
    BY <1>1, <1>6 DEF decideApplication, ApplicationRows
  <2> QED BY <1>1, <1>6, <2>1, StepApplication DEF decideApplication
<1>7. CASE tryDisburseApprovedApplication(turn)
  <2>1. CASE systemicPassed
    BY <1>1, <1>7, <2>1, StepDisburse
  <2>2. CASE ~systemicPassed
    BY <1>1, <1>7, <2>2, StepApplication DEF tryDisburseApprovedApplication
  <2> QED BY <2>1, <2>2
<1> QED BY <1>2, <1>3, <1>4, <1>5, <1>6, <1>7 DEF processCreditLifecycle

LEMMA StepSettle == IInv /\ settle => IInv'
<1> SUFFICES ASSUME IInv, settle
             PROVE  IInv'
  OBVIOUS
<1>1. /\ stage = "settle" /\ stage' = "solvency"
      /\ UNCHANGED <<turn, committed, failure, status, shortfall, application, loan, asset,
                     bankStatus, bank>>
      /\ deposits' \in Nat
      /\ row' = row + totalDeposits - totalDeposits'
  BY ScaleFacts DEF settle
<1>2. /\ cash \in [Companies -> Nat] /\ deposits \in Nat /\ row \in Int /\ bank \in BankRows
      /\ loan \in [Companies -> LoanRows] /\ asset \in [Companies -> Int]
  BY TypedFacts DEF IInv
<1>3. cash' \in [Companies -> Nat]
  <2>1. PICK levels \in [Companies -> CashLevels] :
          cash' = [c \in Companies |-> IF status[c] = "active" THEN levels[c] ELSE cash[c]]
    BY DEF settle
  <2>2. \A c \in Companies : levels[c] \in Nat /\ cash[c] \in Nat
    BY <1>2, ScaleFacts
  <2> QED BY <2>1, <2>2
<1> DEFINE sc == Sum(cash)
           sc2 == Sum(cash')
           rest == Sum(asset) + bank.source + bank.income + bank.loss
<1>4. sc \in Nat /\ sc2 \in Nat
  BY <1>2, <1>3, SumNat
<1>5. totalDeposits = deposits + sc /\ totalDeposits' = deposits' + sc2
  BY DEF totalDeposits, sumCash, Sum
<1>6. rest \in Int /\ row + deposits + sc + rest = 0
  <2>1. Sum(asset) \in Int /\ bank.source \in Int /\ bank.income \in Nat /\ bank.loss \in Nat
    BY <1>2, SumInt, BankFields
  <2>2. row + deposits + sc + Sum(asset) + bank.source + bank.income + bank.loss = 0
    BY DEF IInv, WorldInv, Ledger
  <2> QED BY <1>2, <1>4, <2>1, <2>2
<1> HIDE DEF sc, sc2
<1>7. row' \in Int /\ row' + deposits' + sc2 + rest = 0
  <2> DEFINE d == deposits'
             a == totalDeposits
             b == totalDeposits'
  <2>1. /\ d \in Nat /\ row' = row + a - b /\ a = deposits + sc /\ b = d + sc2
        /\ deposits \in Nat /\ row \in Int
    BY <1>1, <1>2, <1>5
  <2> HIDE DEF rest, a, b, d
  <2>2. row' = row + (deposits + sc) - (d + sc2) /\ row' \in Int
    BY <1>4, <2>1
  <2>3. row' + d + sc2 + rest = 0
    BY <1>4, <1>6, <2>1, <2>2
  <2> QED BY <2>2, <2>3 DEF d
<1>8. row' + deposits' + sc2 + Sum(asset) + bank.source + bank.income + bank.loss = 0
  <2>1. Sum(asset) \in Int /\ bank.source \in Int /\ bank.income \in Nat /\ bank.loss \in Nat
    BY <1>2, SumInt, BankFields
  <2> QED BY <1>1, <1>4, <1>7, <2>1
<1>9. Ledger(loan', asset', bank', cash', deposits', row')
  <2>1. Ledger(loan, asset, bank, cash', deposits', row')
    BY <1>8 DEF IInv, WorldInv, Ledger, sc2
  <2> QED BY <1>1, <2>1
<1>10. WorldInv'
  <2>1. Typed(status', shortfall', cash', application', loan', asset', bankStatus', bank',
              deposits', row')
    BY <1>1, <1>3, <1>7 DEF IInv, WorldInv, Typed
  <2> QED BY <1>1, <1>9, <2>1 DEF IInv, WorldInv
<1>11. Place'
  BY <1>1 DEF IInv, Place
<1>12. CommittedInv' /\ LoanInv'
  BY <1>1, CommittedStays, Unmoved DEF IInv
<1> QED BY <1>10, <1>11, <1>12 DEF IInv

LEMMA StepAssess == IInv /\ assessAll => IInv'
<1> SUFFICES ASSUME IInv, assessAll
             PROVE  IInv'
  OBVIOUS
<1>1. stage = "solvency" /\ turn \in Companies
  BY DEF IInv, Place, assessAll
<1>2. CASE alreadyClosed(turn)
  <2>1. advanceTo("commit") /\ UNCHANGED <<committed, failure, world>>
    BY <1>2 DEF alreadyClosed
  <2>2. Place' /\ stage' \in {"solvency", "commit"}
    BY <1>1, <2>1, Advance DEF IInv, Place
  <2>3. WorldInv'
    BY <2>1 DEF IInv, WorldInv, world
  <2>4. CommittedInv' /\ LoanInv'
    BY <1>1, <2>1, <2>2, CommittedStays, Unmoved DEF IInv, world
  <2> QED BY <2>2, <2>3, <2>4 DEF IInv
<1>3. CASE assessCompany(turn)
  <2>1. PICK short \in BOOLEAN :
          LET days == IF short THEN shortfall[turn] + 1 ELSE 0
          IN  /\ shortfall' = [shortfall EXCEPT ![turn] = days]
              /\ IF days >= ShortfallDays THEN windDown(turn)
                 ELSE UNCHANGED <<status, cash, deposits>>
    BY <1>3 DEF assessCompany
  <2> DEFINE days == IF short THEN shortfall[turn] + 1 ELSE 0
  <2>2. /\ shortfall' = [shortfall EXCEPT ![turn] = days]
        /\ days >= ShortfallDays => windDown(turn)
        /\ ~(days >= ShortfallDays) => UNCHANGED <<status, cash, deposits>>
    BY <2>1
  <2>3. /\ status[turn] = "active" /\ advanceTo("commit")
        /\ UNCHANGED <<committed, failure, application, loan, asset, bankStatus, bank, row>>
    BY <1>3 DEF assessCompany
  <2>4. /\ status \in [Companies -> {"active", "closed"}]
        /\ shortfall \in [Companies -> 0 .. ShortfallDays]
        /\ cash \in [Companies -> Nat] /\ cash \in [Companies -> Int]
        /\ deposits \in Nat /\ row \in Int /\ bank \in BankRows
        /\ loan \in [Companies -> LoanRows] /\ asset \in [Companies -> Int]
    BY TypedFacts DEF IInv
  <2>5. days \in 0 .. ShortfallDays /\ ShortfallDays \in Nat
    <3>1. shortfall[turn] < ShortfallDays
      BY <1>1, <2>3 DEF IInv, WorldInv, Days
    <3>2. shortfall[turn] \in 0 .. ShortfallDays /\ ShortfallDays \in Nat
      BY <1>1, <2>4, ScaleFacts
    <3> QED BY <3>1, <3>2
  <2> HIDE DEF days
  <2>6. /\ shortfall' \in [Companies -> 0 .. ShortfallDays] /\ shortfall'[turn] = days
        /\ \A x \in Companies : x # turn => shortfall'[x] = shortfall[x]
    BY <1>1, <2>2, <2>4, <2>5
  <2>7. /\ status' \in [Companies -> {"active", "closed"}]
        /\ \A x \in Companies : x # turn => status'[x] = status[x]
        /\ days >= ShortfallDays => status'[turn] = "closed"
    BY <1>1, <2>2, <2>4 DEF windDown
  <2>8. Days(status', shortfall')
    <3>1. \A x \in Companies : status[x] = "active" => shortfall[x] < ShortfallDays
      BY DEF IInv, WorldInv, Days
    <3>2. days >= ShortfallDays \/ days < ShortfallDays
      BY <2>5
    <3> QED BY <2>6, <2>7, <3>1, <3>2 DEF Days
  <2>9. /\ cash' \in [Companies -> Nat] /\ deposits' \in Nat
        /\ deposits' + Sum(cash') = deposits + Sum(cash)
    <3>1. CASE days >= ShortfallDays
      <4>1. cash' = [cash EXCEPT ![turn] = 0] /\ deposits' = deposits + cash[turn]
        BY <2>2, <3>1 DEF windDown
      <4>2. cash' \in [Companies -> Nat] /\ cash' \in [Companies -> Int] /\ cash'[turn] = 0
            /\ cash[turn] \in Nat
            /\ \A x \in Companies : x # turn => cash'[x] = cash[x]
        BY <1>1, <2>4, <4>1
      <4>3. Sum(cash') = Sum(cash) - cash[turn] + cash'[turn] /\ Sum(cash) \in Int
        BY <1>1, <2>4, <4>2, SumOne
      <4> QED BY <2>4, <4>1, <4>2, <4>3
    <3>2. CASE ~(days >= ShortfallDays)
      BY <2>2, <2>4, <3>2
    <3> QED BY <3>1, <3>2
  <2>10. Ledger(loan', asset', bank', cash', deposits', row')
    <3>1. Sum(cash) \in Int /\ Sum(cash') \in Int /\ Sum(asset) \in Int
      <4>1. cash' \in [Companies -> Int]
        BY <2>9
      <4> QED BY <2>4, <4>1, SumInt
    <3>2. bank.source \in Int /\ bank.income \in Nat /\ bank.loss \in Nat
      BY <2>4, BankFields
    <3>3. row + deposits + Sum(cash) + Sum(asset) + bank.source + bank.income + bank.loss = 0
      BY DEF IInv, WorldInv, Ledger
    <3> DEFINE x == Sum(cash)
               y == Sum(cash')
               z == Sum(asset)
    <3>4. x \in Int /\ y \in Int /\ z \in Int /\ deposits' + y = deposits + x
          /\ row + deposits + x + z + bank.source + bank.income + bank.loss = 0
      BY <2>9, <3>1, <3>3
    <3>5. row + deposits' + y + z + bank.source + bank.income + bank.loss = 0
      <4> DEFINE d == deposits'
                 b == bank.source + bank.income + bank.loss
      <4>1. d \in Nat /\ b \in Int /\ d + y = deposits + x /\ row + deposits + x + z + b = 0
        BY <2>4, <2>9, <3>2, <3>4
      <4> HIDE DEF x, y, z, d, b
      <4>2. row + d + y + z + b = 0
        BY <2>4, <3>4, <4>1
      <4> QED BY <2>4, <3>2, <3>4, <4>1, <4>2 DEF d, b
    <3>6. Ledger(loan, asset, bank, cash', deposits', row)
      BY <3>5 DEF IInv, WorldInv, Ledger
    <3> QED BY <2>3, <3>6
  <2>11. WorldInv'
    <3>1. Typed(status', shortfall', cash', application', loan', asset', bankStatus', bank',
                deposits', row')
      BY <2>3, <2>6, <2>7, <2>9 DEF IInv, WorldInv, Typed
    <3> QED BY <2>3, <2>8, <2>10, <3>1 DEF IInv, WorldInv
  <2>12. Place' /\ stage' \in {"solvency", "commit"}
    BY <1>1, <2>3, Advance DEF IInv, Place
  <2>13. CommittedInv' /\ LoanInv'
    BY <1>1, <2>3, <2>12, CommittedStays, Unmoved DEF IInv
  <2> QED BY <2>11, <2>12, <2>13 DEF IInv
<1> QED BY <1>1, <1>2, <1>3 DEF assessAll

LEMMA StepResume == IInv /\ resume => IInv'
<1> SUFFICES ASSUME IInv, resume
             PROVE  IInv'
  OBVIOUS
<1>1. UNCHANGED <<stage, turn, committed, world>> /\ failure' = "none"
  BY DEF resume
<1>2. Place' /\ CommittedInv'
  BY <1>1, CommittedStays DEF IInv, Place
<1>3. WorldInv'
  BY <1>1 DEF IInv, WorldInv, world
<1>4. LoanInv'
  BY <1>1 DEF IInv, LoanInv, ToCollect, Today, OnTime, liveLoan, world
<1> QED BY <1>2, <1>3, <1>4 DEF IInv

LEMMA StepInv == IInv /\ [Next]_vars => IInv'
<1> SUFFICES ASSUME IInv, [Next]_vars
             PROVE  IInv'
  OBVIOUS
<1>1. CASE UNCHANGED vars
  <2>1. UNCHANGED <<stage, turn, committed, failure, world>>
    BY <1>1 DEF vars
  <2>2. Place' /\ CommittedInv'
    BY <2>1, CommittedStays DEF IInv, Place
  <2>3. WorldInv'
    BY <2>1 DEF IInv, WorldInv, world
  <2>4. LoanInv'
    BY <2>1 DEF IInv, LoanInv, ToCollect, Today, OnTime, liveLoan, world
  <2> QED BY <2>2, <2>3, <2>4 DEF IInv
<1> QED BY <1>1, StepBegin, StepObligations, StepCredit, StepSettle, StepAssess, StepCommit,
           StepResume DEF Next

LEMMA InitInv == Init => IInv
<1> SUFFICES ASSUME Init
             PROVE  IInv
  OBVIOUS
<1>1. /\ stage = "idle" /\ turn = 1 /\ failure = "none"
      /\ status = [c \in Companies |-> "active"]
      /\ shortfall = [c \in Companies |-> 0]
      /\ cash \in [Companies -> Nat]
      /\ application = [c \in Companies |-> "none"]
      /\ loan = [c \in Companies |-> NoLoan]
      /\ asset = [c \in Companies |-> 0]
      /\ bankStatus = "active"
      /\ bank = [source |-> 0, income |-> 0, loss |-> 0]
      /\ deposits \in Nat
      /\ row = - totalDeposits
  BY ScaleFacts DEF Init
<1>2. Place
  BY <1>1, FirstCompany DEF Place
<1>3. Sum(cash) \in Nat /\ totalDeposits = deposits + Sum(cash)
  <2>1. Sum(cash) \in Nat
    BY <1>1, SumNat
  <2> QED BY <2>1 DEF totalDeposits, sumCash, Sum
<1>4. row \in Int /\ row + deposits + Sum(cash) = 0
  BY <1>1, <1>3
<1>5. loan \in [Companies -> LoanRows]
  BY <1>1, NewLoanFacts
<1>6. bank \in BankRows /\ bank.source = 0 /\ bank.income = 0 /\ bank.loss = 0
  BY <1>1 DEF BankRows
<1>7. Typed(status, shortfall, cash, application, loan, asset, bankStatus, bank, deposits, row)
  <2>1. 0 \in 0 .. Principal /\ 0 \in 0 .. ShortfallDays
    BY ScaleFacts
  <2>2. asset \in [Companies -> 0 .. Principal] /\ shortfall \in [Companies -> 0 .. ShortfallDays]
    BY <1>1, <2>1
  <2>3. status \in [Companies -> {"active", "closed"}] /\ application \in [Companies -> ApplicationRows]
    BY <1>1 DEF ApplicationRows
  <2> QED BY <1>1, <1>4, <1>5, <1>6, <2>2, <2>3 DEF Typed
<1>8. Days(status, shortfall)
  BY <1>1, ScaleFacts DEF Days
<1>9. Loans(loan)
  BY <1>1, NewLoanFacts DEF Loans, LoanSound
<1>10. Backed(loan, asset)
  BY <1>1 DEF Backed, liveLoan, NoLoan
<1>11. Sum(Owed(loan)) = 0 /\ Sum(Lost(loan)) = 0 /\ Sum(Earned(loan)) = 0 /\ Sum(asset) = 0
  <2>1. interestOf({}) = 0
    BY WorthOfNothing
  <2>2. \A c \in Companies : loan[c] = NoLoan
    BY <1>1
  <2>3. \A c \in Companies : Owed(loan)[c] = 0
    BY <2>2 DEF Owed, NoLoan
  <2>4. \A c \in Companies : Lost(loan)[c] = 0
    BY <2>2 DEF Lost, lossOf, NoLoan
  <2>5. \A c \in Companies : Earned(loan)[c] = 0
    BY <2>1, <2>2, NewLoanFacts DEF Earned
  <2>6. asset \in [Companies -> Int] /\ \A c \in Companies : asset[c] = 0
    BY <1>1
  <2> QED BY <1>5, <2>3, <2>4, <2>5, <2>6, ColumnTypes, SumOfZeros
<1>12. Ledger(loan, asset, bank, cash, deposits, row)
  <2>1. row + deposits + Sum(cash) + Sum(asset) + bank.source + bank.income + bank.loss = 0
    <3> DEFINE x == row + deposits + Sum(cash)
    <3>1. x = 0
      BY <1>4
    <3>2. x + Sum(asset) + bank.source + bank.income + bank.loss = 0
      <4> HIDE DEF x
      <4> QED BY <1>6, <1>11, <3>1
    <3> QED BY <3>2
  <2>2. bank.source = -2 * Sum(Owed(loan))
    <3>1. bank.source = 0 /\ Sum(Owed(loan)) = 0
      BY <1>6, <1>11
    <3>2. \A x \in Int : -2 * x = 0 - 2 * x
      OBVIOUS
    <3>3. -2 * Sum(Owed(loan)) = 0 - 2 * Sum(Owed(loan))
      <4>1. Sum(Owed(loan)) \in Int
        BY <1>5, ColumnTypes, SumInt
      <4> QED BY <3>2, <4>1
    <3>4. 0 - 2 * Sum(Owed(loan)) = 0
      BY <3>1
    <3> QED BY <3>1, <3>3, <3>4, Zenon
  <2> QED BY <1>6, <1>10, <1>11, <2>1, <2>2 DEF Ledger
<1>13. WorldInv
  BY <1>7, <1>8, <1>9, <1>12 DEF WorldInv
<1>14. /\ committed.status = status /\ committed.shortfall = shortfall
       /\ committed.cash = cash /\ committed.application = application
       /\ committed.loan = loan /\ committed.asset = asset
       /\ committed.bankStatus = bankStatus /\ committed.bank = bank
       /\ committed.deposits = deposits /\ committed.row = row
  BY DEF Init, worldRecord
<1>15. \A c \in Companies : OnTime(loan[c])
  BY <1>1 DEF OnTime, liveLoan, NoLoan
<1>16. CommittedInv
  BY <1>13, <1>14, <1>15 DEF WorldInv, CommittedInv
<1>17. LoanInv
  BY <1>1, <1>14, <1>15 DEF LoanInv, ToCollect, SameLoan
<1> QED BY <1>2, <1>13, <1>16, <1>17 DEF IInv

-----------------------------------------------------------------------------
(* The books.                                                              *)

LEMMA Arrears ==
  ASSUME NEW l \in LoanRows, LoanSound(l)
  PROVE  \E paid \in 0 .. Term :
           \A k \in Rows : l.rows[k] =
             CASE k <= paid -> "completed"
               [] paid < k /\ k <= paid + l.misses -> "missed"
               [] paid + l.misses < k -> "due"
<1>1. PICK p : StandsAt(l, p)
  BY DEF LoanSound
<1>2. p \in 0 .. Term /\ l.misses \in Nat /\ Term \in Nat
  BY <1>1, RowFacts, ScaleFacts DEF StandsAt
<1>3. ASSUME NEW k \in Rows
      PROVE  l.rows[k] =
               CASE k <= p -> "completed"
                 [] p < k /\ k <= p + l.misses -> "missed"
                 [] p + l.misses < k -> "due"
  <2>1. k \in Nat
    BY <1>2 DEF Rows
  <2>2. /\ k <= p => l.rows[k] = "completed"
        /\ p < k /\ k <= p + l.misses => l.rows[k] = "missed"
        /\ p + l.misses < k => l.rows[k] = "due"
    BY <1>1 DEF StandsAt, RowsAt
  <2>3. CASE k <= p
    BY <1>2, <2>1, <2>2, <2>3
  <2>4. CASE p < k /\ k <= p + l.misses
    BY <1>2, <2>1, <2>2, <2>4
  <2>5. CASE p + l.misses < k
    BY <1>2, <2>1, <2>2, <2>5
  <2> QED BY <1>2, <2>1, <2>3, <2>4, <2>5
<1> QED BY <1>2, <1>3

LEMMA InvBooks == IInv => BooksKept
<1> SUFFICES ASSUME IInv
             PROVE  BooksKept
  OBVIOUS
<1>1. TypeOK
  BY DEF IInv, Place, WorldInv, Typed, BankRows, TypeOK
<1>2. loan \in [Companies -> LoanRows] /\ \A c \in Companies : LoanSound(loan[c])
  BY TypedFacts DEF IInv, WorldInv, Loans
<1>3. ArrearsInOrder
  BY <1>2, Arrears DEF ArrearsInOrder
<1>4. NoInstallmentSkipped
  BY DEF IInv, CommittedInv, OnTime, NoInstallmentSkipped
<1>5. LedgerMatchesLoans
  <2>1. ASSUME NEW c \in Companies, loan[c].status # "none"
        PROVE  loan[c].outstanding = Principal - principalOf(completedOf(loan[c]))
    <3>1. PICK p : StandsAt(loan[c], p)
      BY <1>2 DEF LoanSound
    <3>2. completedOf(loan[c]) = 1 .. p
      BY <1>2, <3>1, RowFacts, Completed
    <3> QED BY <2>1, <3>1, <3>2 DEF StandsAt
  <2>2. Ledger(loan, asset, bank, cash, deposits, row)
    BY DEF IInv, WorldInv
  <2>3. \A c \in Companies : asset[c] = IF liveLoan(loan[c]) THEN loan[c].outstanding ELSE 0
    BY <2>2 DEF Ledger, Backed
  <2>4. bank.loss = sumTo([c \in Companies |-> IF loan[c].status = "defaulted"
                                               THEN loan[c].outstanding ELSE 0], NCompanies)
    BY <2>2 DEF Ledger, Sum, Lost, lossOf
  <2>5. bank.income = sumTo([c \in Companies |-> interestOf(completedOf(loan[c]))], NCompanies)
    BY <2>2 DEF Ledger, Sum, Earned
  <2>6. bank.source = -2 * sumTo([c \in Companies |-> loan[c].outstanding], NCompanies)
    BY <2>2 DEF Ledger, Sum, Owed
  <2>7. row + totalDeposits + sumTo(asset, NCompanies) + bank.source + bank.income + bank.loss = 0
    <3>1. row + deposits + Sum(cash) + Sum(asset) + bank.source + bank.income + bank.loss = 0
      BY <2>2 DEF Ledger
    <3>2. Sum(cash) \in Int /\ row \in Int /\ deposits \in Int
      BY TypedFacts, SumInt DEF IInv
    <3>3. totalDeposits = deposits + Sum(cash)
      BY DEF totalDeposits, sumCash, Sum
    <3>4. row + totalDeposits = row + deposits + Sum(cash)
      BY <3>2, <3>3
    <3> QED BY <3>1, <3>4 DEF Sum
  <2> QED BY <2>1, <2>3, <2>4, <2>5, <2>6, <2>7 DEF LedgerMatchesLoans
<1> QED BY <1>1, <1>3, <1>4, <1>5 DEF ScheduleKept, BooksKept

(* The books of every state are kept: balances never negative, schedules in
   order and none of their days passed over, the ledger equal to the loans,
   whatever was collected, missed, written down or rolled back. *)
THEOREM BooksKeptHolds == Spec => []BooksKept
BY InitInv, StepInv, InvBooks, PTL DEF Spec

-----------------------------------------------------------------------------
(* The contract of a loan, from one committed tick to the next.            *)

LEMMA InitContract == Init => \A c \in Companies : Contract(c)!Init
<1> SUFFICES ASSUME Init, NEW c \in Companies
             PROVE  Contract(c)!Init
  OBVIOUS
<1>1. committed.loan[c] = NoLoan
  BY DEF Init, worldRecord
<1>2. paidOf(committed.loan[c]) = 0
  BY <1>1, NewLoanFacts
<1> QED BY <1>1, <1>2 DEF Contract!Init, paidOf, NoLoan

LEMMA StepContract ==
  IInv /\ [Next]_vars => [\A c \in Companies : [Contract(c)!Next]_(Contract(c)!vars)]_committed
<1> SUFFICES ASSUME IInv, [Next]_vars, committed' # committed, NEW c \in Companies
             PROVE  [Contract(c)!Next]_(Contract(c)!vars)
  OBVIOUS
<1>1. commitTick
  <2>1. ~UNCHANGED vars
    BY DEF vars
  <2>2. ~beginTick /\ ~settle /\ ~resume
    BY DEF beginTick, settle, resume
  <2>3. ~processDueInstallments
    BY DEF processDueInstallments, nothingDue, collect, recordMiss, borrowerAccountClosed, failTick
  <2>4. ~processCreditLifecycle
    BY DEF processCreditLifecycle, noCreditStep, submitApplication, noActiveBank, beginReview,
           decideApplication, tryDisburseApprovedApplication, failTick
  <2>5. ~assessAll
    BY DEF assessAll, assessCompany, alreadyClosed
  <2> QED BY <2>1, <2>2, <2>3, <2>4, <2>5 DEF Next
<1> DEFINE l == committed.loan[c]
           m == committed'.loan[c]
<1>2. KeptLoan(l, m)
  <2>1. stage = "commit" /\ committed'.loan = loan
    BY <1>1 DEF commitTick, worldRecord
  <2>2. KeptLoan(committed.loan[c], loan[c])
    BY <2>1 DEF IInv, LoanInv, ToCollect
  <2> QED BY <2>1, <2>2
<1>3. CASE SameLoan(l, m)
  <2>1. completedOf(l) = completedOf(m)
    BY <1>3 DEF SameLoan, completedOf
  <2> QED BY <1>3, <2>1 DEF SameLoan, Contract!vars
<1>4. CASE Takes(l, m)
  BY <1>4 DEF Takes, paidOf, Contract!Next, Contract!Disburse
<1>5. CASE PaysAll(l, m)
  BY <1>5 DEF PaysAll, paidOf, liveLoan, Contract!Next, Contract!PayAll, Contract!Live
<1>6. CASE Misses(l, m)
  BY <1>6 DEF Misses, paidOf, liveLoan, Contract!Next, Contract!Miss, Contract!Live
<1> QED BY <1>2, <1>3, <1>4, <1>5, <1>6 DEF KeptLoan

(* Committed tick by committed tick each loan keeps the contract of a loan: it
   pays all that is owed or misses, defaults at the third miss in a row, is
   paid off by its last row, and never changes once it has ended. *)
THEOREM LoanContractsHolds == Spec => LoanContracts
<1>1. Spec => []IInv
  BY InitInv, StepInv, PTL DEF Spec
<1>2. Spec => [][\A c \in Companies : [Contract(c)!Next]_(Contract(c)!vars)]_committed
  BY <1>1, StepContract, PTL DEF Spec
<1>3. Spec => \A c \in Companies : Contract(c)!Init
  BY InitContract DEF Spec
<1> QED BY <1>2, <1>3, PTL DEF LoanContracts

-----------------------------------------------------------------------------
(* The schema accepts what the handlers write.                             *)

LEMMA Accepted ==
  ASSUME NEW p \in BOOLEAN, NEW q \in BOOLEAN, NEW b, NEW d, NEW j, NEW k, NEW s,
         s = (IF p /\ q THEN "active" ELSE "lending_halted")
  PROVE  LET a == [before |-> b, deposits |-> d, projected |-> j, capital |-> k,
                   reservePassed |-> p, capitalPassed |-> q, after |-> s]
         IN  /\ a.before = b /\ a.deposits = d /\ a.projected = j /\ a.capital = k
             /\ a.reservePassed <=> p
             /\ a.capitalPassed <=> q
             /\ a.after = IF allowed(a) THEN "active" ELSE "lending_halted"
BY DEF allowed

LEMMA AssessedFacts ==
  ASSUME IInv
  PROVE  LET a == evaluateBankLendingCircuit
         IN  /\ a.before = bankStatus /\ a.deposits = totalDeposits
             /\ a.projected = assessedDeposits /\ a.capital = effectiveCapital
             /\ a.reservePassed <=> ratioBp(Reserve, assessedDeposits) >= ReserveMinBp
             /\ a.capitalPassed <=> ratioBp(effectiveCapital, assessedDeposits) >= CapitalMinBp
             /\ a.after = bankStatusAfter
             /\ allowed(a) <=> systemicPassed
             /\ a.after = IF allowed(a) THEN "active" ELSE "lending_halted"
<1> DEFINE p == ratioBp(Reserve, assessedDeposits) >= ReserveMinBp
           q == ratioBp(effectiveCapital, assessedDeposits) >= CapitalMinBp
           a == evaluateBankLendingCircuit
<1>1. a = [before |-> bankStatus, deposits |-> totalDeposits, projected |-> assessedDeposits,
           capital |-> effectiveCapital, reservePassed |-> p, capitalPassed |-> q,
           after |-> bankStatusAfter]
  BY DEF evaluateBankLendingCircuit
<1>2. systemicPassed <=> p /\ q
  BY DEF systemicPassed
<1>3. bankStatusAfter = IF p /\ q THEN "active" ELSE "lending_halted"
  BY <1>2 DEF bankStatusAfter
<1>4. p \in BOOLEAN /\ q \in BOOLEAN
  OBVIOUS
<1> HIDE DEF p, q, a
<1>5. /\ a.before = bankStatus /\ a.deposits = totalDeposits
      /\ a.projected = assessedDeposits /\ a.capital = effectiveCapital
      /\ a.reservePassed <=> p
      /\ a.capitalPassed <=> q
      /\ a.after = bankStatusAfter
      /\ a.after = IF allowed(a) THEN "active" ELSE "lending_halted"
  BY <1>1, <1>3, <1>4, Accepted
<1>6. allowed(a) <=> p /\ q
  BY <1>5 DEF allowed
<1> QED BY <1>2, <1>5, <1>6 DEF p, q, a

(* The position the handler assessed is the one the trigger computes again. *)
LEMMA Assessment ==
  ASSUME IInv, NEW c \in Companies
  PROVE  assessmentAccepted(c)
<1> DEFINE a == evaluateBankLendingCircuit
<1>1. Sum(cash) \in Nat /\ deposits \in Nat /\ bankStatus \in {"active", "lending_halted"}
  BY TypedFacts, SumNat DEF IInv
<1>2. totalDeposits = deposits + Sum(cash) /\ assessedDeposits = totalDeposits + Principal
  BY DEF totalDeposits, sumCash, Sum, assessedDeposits
<1>3. assessedDeposits # 0
  BY <1>1, <1>2, ScaleFacts
<1>4. bank_lending_assessments(a)
  BY <1>1, <1>2, AssessedFacts DEF bank_lending_assessments
<1>5. \A x, n : ratioBp(x, assessedDeposits) >= n <=> atLeast(x, assessedDeposits, n)
  BY <1>3 DEF ratioBp, atLeast
<1>6. bank_lending_assessments_valid_insert(a)
  <2>1. a.deposits = deposits + sumTo(cash, NCompanies)
    BY <1>2, AssessedFacts DEF Sum
  <2>2. a.capital = IF OpeningCapital + bank.income - bank.loss > 0
                    THEN OpeningCapital + bank.income - bank.loss ELSE 0
    BY AssessedFacts DEF effectiveCapital
  <2>3. a.reservePassed <=> atLeast(Reserve, a.projected, ReserveMinBp)
    BY <1>5, AssessedFacts
  <2>4. a.capitalPassed <=> atLeast(a.capital, a.projected, CapitalMinBp)
    BY <1>5, AssessedFacts
  <2> QED BY <2>1, <2>2, <2>3, <2>4, AssessedFacts DEF bank_lending_assessments_valid_insert
<1> QED BY <1>4, <1>6 DEF assessmentAccepted

(* Steps that write no application, status of the bank, or loan. *)
BankAndApplications ==
  /\ bank_lending_status_requires_assessment
  /\ \A c \in Companies : applicationAccepted(c)

LEMMA ApplicationsStay ==
  ASSUME UNCHANGED <<application, bankStatus>>
  PROVE  BankAndApplications
BY DEF BankAndApplications, bank_lending_status_requires_assessment, applicationAccepted

LEMMA LoanStays ==
  ASSUME NEW c \in Companies, SameLoan(loan[c], loan'[c]),
         loan'[c].outstanding = loan[c].outstanding
  PROVE  loanAccepted(c)
BY DEF loanAccepted, inserted, updated, SameLoan

LEMMA ApplicationsWritten ==
  ASSUME IInv, processCreditLifecycle, failure = "none", failure' = "none"
  PROVE  BankAndApplications
<1>1. /\ stage = "credit" /\ turn \in Companies
      /\ application \in [Companies -> ApplicationRows]
  BY TypedFacts DEF IInv, Place, processCreditLifecycle
<1>2. evaluateBankLendingCircuit.after = bankStatusAfter
      /\ (allowed(evaluateBankLendingCircuit) <=> systemicPassed)
  BY AssessedFacts
<1>3. CASE noCreditStep(turn)
  BY <1>3, ApplicationsStay DEF noCreditStep, world
<1>4. CASE submitApplication(turn)
  <2>1. /\ bankStatus' = bankStatus /\ application[turn] = "none"
        /\ application' = [application EXCEPT ![turn] = "submitted"]
    BY <1>4 DEF submitApplication
  <2>2. application'[turn] = "submitted" /\ \A x \in Companies : x # turn => application'[x] = application[x]
    BY <1>1, <2>1
  <2>3. applicationAccepted(turn)
    BY <2>1, <2>2 DEF applicationAccepted, loan_applications, loan_application_reviews_valid_insert,
                      loan_application_decisions_valid_insert, loan_decisions_require_circuit_assessment,
                      decided
  <2>4. \A x \in Companies : x # turn => applicationAccepted(x)
    BY <2>2 DEF applicationAccepted
  <2> QED BY <2>1, <2>3, <2>4 DEF BankAndApplications, bank_lending_status_requires_assessment
<1>5. CASE noActiveBank(turn)
  BY <1>5 DEF noActiveBank, failTick
<1>6. CASE beginReview(turn)
  <2>1. /\ bankStatus' = bankStatus /\ application[turn] = "submitted"
        /\ application' = [application EXCEPT ![turn] = "under_review"]
    BY <1>6 DEF beginReview
  <2>2. /\ application'[turn] = "under_review"
        /\ \A x \in Companies : x # turn => application'[x] = application[x]
    BY <1>1, <2>1
  <2>3. applicationAccepted(turn)
    BY <2>1, <2>2 DEF applicationAccepted, loan_applications_status_transition,
                      loan_application_reviews_valid_insert,
                      loan_application_decisions_valid_insert, loan_decisions_require_circuit_assessment,
                      decided
  <2>4. \A x \in Companies : x # turn => applicationAccepted(x)
    BY <2>2 DEF applicationAccepted
  <2> QED BY <2>1, <2>3, <2>4 DEF BankAndApplications, bank_lending_status_requires_assessment
<1>7. CASE decideApplication(turn)
  <2>1. /\ bankStatus' = bankStatusAfter /\ application[turn] = "under_review"
        /\ status[turn] = "active"
    BY <1>7 DEF decideApplication
  <2>2. PICK passed \in BOOLEAN :
          application' = [application EXCEPT ![turn] =
            IF passed /\ systemicPassed THEN "approved" ELSE "rejected"]
    BY <1>7 DEF decideApplication
  <2>3. assessing(turn)
    BY <1>1, <2>1 DEF assessing
  <2>4. /\ application'[turn] \in {"approved", "rejected"}
        /\ application'[turn] = "approved" => systemicPassed
        /\ \A x \in Companies : x # turn => application'[x] = application[x]
    BY <1>1, <2>2
  <2>5. applicationAccepted(turn)
    BY <1>2, <2>1, <2>3, <2>4 DEF applicationAccepted, loan_applications_status_transition,
                      loan_application_reviews_valid_insert,
                      loan_application_decisions_valid_insert, loan_decisions_require_circuit_assessment,
                      decided
  <2>6. \A x \in Companies : x # turn => applicationAccepted(x)
    BY <2>4 DEF applicationAccepted
  <2>7. bank_lending_status_requires_assessment
    BY <1>1, <1>2, <2>1, <2>3 DEF bank_lending_status_requires_assessment
  <2> QED BY <2>5, <2>6, <2>7 DEF BankAndApplications
<1>8. CASE tryDisburseApprovedApplication(turn)
  <2>1. /\ bankStatus' = bankStatusAfter /\ application' = application
        /\ application[turn] = "approved" /\ loan[turn].status = "none" /\ status[turn] = "active"
    BY <1>8 DEF tryDisburseApprovedApplication
  <2>2. assessing(turn)
    BY <1>1, <2>1 DEF assessing
  <2>3. bank_lending_status_requires_assessment
    BY <1>1, <1>2, <2>1, <2>2 DEF bank_lending_status_requires_assessment
  <2> QED BY <2>1, <2>3 DEF BankAndApplications, applicationAccepted
<1> QED BY <1>3, <1>4, <1>5, <1>6, <1>7, <1>8 DEF processCreditLifecycle

LEMMA DisbursementAccepted ==
  ASSUME IInv, stage = "credit", tryDisburseApprovedApplication(turn), NEW c \in Companies
  PROVE  loanAccepted(c)
<1>1. /\ turn \in Companies /\ loan \in [Companies -> LoanRows]
      /\ cash \in [Companies -> Nat] /\ asset \in [Companies -> Int]
  BY TypedFacts DEF IInv, Place
<1>2. /\ status[turn] = "active" /\ application[turn] = "approved" /\ loan[turn].status = "none"
      /\ systemicPassed => /\ loan' = [loan EXCEPT ![turn] = NewLoan]
                           /\ asset' = [asset EXCEPT ![turn] = @ + Principal]
                           /\ cash' = [cash EXCEPT ![turn] = @ + Principal]
                           /\ bank' = LentOut(bank, 2 * Principal)
      /\ ~systemicPassed => loan' = loan
  BY DEF tryDisburseApprovedApplication, LentOut
<1>3. CASE ~systemicPassed \/ c # turn
  BY <1>1, <1>2, <1>3, LoanStays DEF SameLoan
<1>4. CASE systemicPassed /\ c = turn
  <2>1. /\ loan'[c] = NewLoan /\ asset'[c] = asset[c] + Principal
        /\ cash'[c] = cash[c] + Principal /\ bank' = LentOut(bank, 2 * Principal)
    BY <1>1, <1>2, <1>4
  <2>2. ~updated(c)
    BY <1>2, <1>4 DEF updated
  <2>3. loans_require_circuit_assessment(c)
    BY <1>2, <1>4, AssessedFacts DEF loans_require_circuit_assessment, assessing
  <2>4. loans_valid_insert(c)
    BY <1>2, <1>4, <2>1 DEF loans_valid_insert, disbursement_legs, LentOut
  <2>5. loan_installments(c)
    BY <2>1, NewLoanFacts DEF loan_installments
  <2> QED BY <2>2, <2>3, <2>4, <2>5 DEF loanAccepted
<1> QED BY <1>3, <1>4

(* What is owed agrees with the completed rows, after the step as before. *)
LEMMA Outstanding ==
  ASSUME NEW m \in LoanRows, LoanSound(m), m.status # "none"
  PROVE  loans_outstanding_matches_installments(m)
<1>1. PICK p : StandsAt(m, p)
  BY DEF LoanSound
<1>2. completedOf(m) = 1 .. p
  BY <1>1, RowFacts, Completed
<1> QED BY <1>1, <1>2 DEF StandsAt, loans_outstanding_matches_installments

LEMMA CollectionAccepted ==
  ASSUME IInv, stage = "collect", collect(turn), NEW c \in Companies
  PROVE  loanAccepted(c)
<1> DEFINE l == loan[turn]
<1>1. /\ turn \in Companies /\ l \in LoanRows /\ LoanSound(l) /\ Today(l)
  BY TurnFacts
<1>2. /\ loan \in [Companies -> LoanRows]
      /\ cash \in [Companies -> Nat] /\ asset \in [Companies -> Int]
  BY TypedFacts DEF IInv
<1>3. PICK k \in dueRows(l) :
        LET ks == targets(l, k)
        IN  /\ cash' = [cash EXCEPT ![turn] = @ - principalOf(ks) - interestOf(ks)]
            /\ asset' = [asset EXCEPT ![turn] = @ - principalOf(ks)]
            /\ bank' = PaidIn(bank, 2 * principalOf(ks), interestOf(ks))
            /\ loan' = [loan EXCEPT ![turn] = loanStateAfterCollection(@, ks)]
  BY DEF collect, PaidIn
<1> DEFINE ks == targets(l, k)
           m == loanStateAfterCollection(l, ks)
           p == principalOf(ks)
           i == interestOf(ks)
<1>4. Collected(l, m, ks)
  BY <1>1, CollectLoan
<1>5. /\ loan' = [loan EXCEPT ![turn] = m]
      /\ cash' = [cash EXCEPT ![turn] = cash[turn] - p - i]
      /\ asset' = [asset EXCEPT ![turn] = asset[turn] - p]
      /\ bank' = PaidIn(bank, 2 * p, i)
  BY <1>3
<1> HIDE DEF ks, m
<1>6. CASE c # turn
  BY <1>1, <1>2, <1>5, <1>6, LoanStays DEF SameLoan
<1>7. CASE c = turn
  <2>1. /\ loan[c] = l /\ loan'[c] = m /\ cash'[c] = cash[c] - p - i /\ asset'[c] = asset[c] - p
    BY <1>1, <1>2, <1>5, <1>7
  <2>2. /\ liveLoan(l) /\ m \in LoanRows /\ LoanSound(m) /\ p \in Nat \ {0}
        /\ m.outstanding = l.outstanding - p /\ m.misses = 0
        /\ m.status \in {"paid_off", "repaying"}
        /\ m.status = "paid_off" <=> m.outstanding = 0
        /\ ks \subseteq Rows
        /\ \A j \in Rows : m.rows[j] = IF j \in ks THEN "completed" ELSE l.rows[j]
        /\ \A j \in ks : l.rows[j] \in {"due", "missed"}
    BY <1>4 DEF Collected, PaysAll
  <2> HIDE DEF l
  <2>3. ~inserted(c)
    BY <2>1, <2>2 DEF inserted, liveLoan
  <2>4. changedRows(c) = ks
    <3>1. \A j \in Rows : l.rows[j] # m.rows[j] <=> j \in ks
      BY <2>2
    <3> QED BY <2>1, <2>2, <3>1 DEF changedRows
  <2>5. completedRows(c) = ks
    BY <2>1, <2>2, <2>4 DEF completedRows
  <2>6. \A j \in changedRows(c) : <<loan[c].rows[j], loan'[c].rows[j]>>
                                    \in loan_installments_collection_transition
    <3> SUFFICES ASSUME NEW j \in ks
                 PROVE  <<l.rows[j], m.rows[j]>> \in loan_installments_collection_transition
      BY <2>1, <2>4
    <3>1. m.rows[j] = "completed" /\ l.rows[j] \in {"due", "missed"}
      BY <2>2
    <3> QED BY <3>1 DEF loan_installments_collection_transition
  <2>7. loan_installments_payment_valid(c)
    <3>1. bank' = [bank EXCEPT !.source = @ + 2 * principalOf(ks), !.income = @ + interestOf(ks)]
      BY <1>5 DEF PaidIn
    <3>2. cash'[c] = cash[c] - principalOf(ks) - interestOf(ks) /\ asset'[c] = asset[c] - principalOf(ks)
      BY <2>1
    <3> QED BY <2>5, <3>1, <3>2, Zenon DEF loan_installments_payment_valid
  <2>8. loans_collection_transition(l, m)
    <3>1. l.outstanding \in Int /\ l.status \in {"disbursed", "repaying"}
      BY <1>1, <2>2, RowFacts DEF l, liveLoan
    <3>2. m.outstanding < l.outstanding
      <4> HIDE DEF p
      <4> QED BY <2>2, <3>1
    <3> QED BY <2>2, <3>1, <3>2 DEF loans_collection_transition
  <2>9. loans_outstanding_matches_installments(m)
    BY <2>2, Outstanding
  <2> QED BY <2>1, <2>2, <2>3, <2>6, <2>7, <2>8, <2>9 DEF loanAccepted
<1> QED BY <1>6, <1>7

LEMMA MissAccepted ==
  ASSUME IInv, stage = "collect", recordMiss(turn), NEW c \in Companies
  PROVE  loanAccepted(c)
<1> DEFINE l == loan[turn]
<1>1. /\ turn \in Companies /\ l \in LoanRows /\ LoanSound(l) /\ Today(l)
  BY TurnFacts
<1>2. loan \in [Companies -> LoanRows] /\ asset \in [Companies -> Int]
  BY TypedFacts DEF IInv
<1>3. PICK k \in dueRows(l) :
        LET n == loanStateAfterMiss(l, k)
        IN  /\ loan' = [loan EXCEPT ![turn] = n]
            /\ n.status = "defaulted" => recordDefault(turn, n.outstanding)
  BY DEF recordMiss
<1> DEFINE m == loanStateAfterMiss(l, k)
<1>4. Missed(l, m, k)
  BY <1>1, MissLoan
<1>5. /\ loan' = [loan EXCEPT ![turn] = m]
      /\ m.status = "defaulted" => recordDefault(turn, m.outstanding)
  BY <1>3
<1> HIDE DEF m
<1>6. CASE c # turn
  BY <1>1, <1>2, <1>5, <1>6, LoanStays DEF SameLoan
<1>7. CASE c = turn
  <2>1. loan[c] = l /\ loan'[c] = m
    BY <1>1, <1>2, <1>5, <1>7
  <2>2. /\ liveLoan(l) /\ m \in LoanRows /\ LoanSound(m)
        /\ m.misses = l.misses + 1
        /\ m.status = IF m.misses = 3 THEN "defaulted" ELSE "repaying"
        /\ m.outstanding = l.outstanding /\ m.outstanding > 0
        /\ m.status = "defaulted" =>
             m.misses = 3 /\ Cardinality({j \in Rows : m.rows[j] = "missed"}) = 3
        /\ k \in Rows /\ l.rows[k] = "due"
        /\ \A j \in Rows : m.rows[j] = IF j = k THEN "missed" ELSE l.rows[j]
    BY <1>4 DEF Missed, Misses, LOAN_DEFAULT_CONSECUTIVE_MISSES
  <2> HIDE DEF l
  <2>3. ~inserted(c)
    BY <2>1, <2>2 DEF inserted, liveLoan
  <2>4. changedRows(c) = {k}
    <3>1. \A j \in Rows : l.rows[j] # m.rows[j] <=> j = k
      BY <2>2
    <3> QED BY <2>1, <2>2, <3>1 DEF changedRows
  <2>5. completedRows(c) = {}
    BY <2>1, <2>2, <2>4 DEF completedRows
  <2>6. \A j \in changedRows(c) : <<loan[c].rows[j], loan'[c].rows[j]>>
                                    \in loan_installments_collection_transition
    BY <2>1, <2>2, <2>4 DEF loan_installments_collection_transition
  <2>7. loan_installments_payment_valid(c)
    BY <2>5 DEF loan_installments_payment_valid
  <2>8. loans_collection_transition(l, m)
    <3>1. l.misses \in Nat /\ m.misses \in 0 .. 3
      BY <1>1, <2>2, RowFacts DEF l
    <3>2. l.status \in {"disbursed", "repaying"}
      BY <2>2 DEF liveLoan
    <3>3. CASE m.misses = 3
      <4>1. m.status = "defaulted" /\ m.misses >= 3
        BY <2>2, <3>3
      <4> QED BY <2>2, <3>2, <4>1 DEF loans_collection_transition
    <3>4. CASE m.misses # 3
      <4>1. m.status = "repaying" /\ m.misses < 3
        BY <2>2, <3>1, <3>4
      <4> QED BY <2>2, <3>2, <4>1 DEF loans_collection_transition
    <3> QED BY <3>3, <3>4
  <2>9. loans_outstanding_matches_installments(m)
    BY <2>2, Outstanding
  <2>10. ASSUME m.status = "defaulted"
         PROVE  loan_defaults(c) /\ loan_defaults_valid_insert(c)
    <3>1. recordDefault(turn, m.outstanding)
      BY <1>5, <2>10
    <3>2. asset'[c] = asset[c] - m.outstanding
          /\ bank' = [bank EXCEPT !.loss = @ + m.outstanding]
      BY <1>1, <1>2, <1>7, <3>1 DEF recordDefault
    <3>3. m.misses >= 3 /\ Cardinality({j \in Rows : m.rows[j] = "missed"}) >= 3
      BY <2>2, <2>10
    <3>4. loan_defaults(c)
      BY <2>1, <2>2, <3>3 DEF loan_defaults
    <3>5. loan_defaults_valid_insert(c)
      BY <2>1, <3>2, <3>3, Zenon DEF loan_defaults_valid_insert
    <3> QED BY <3>4, <3>5
  <2> QED BY <2>1, <2>2, <2>3, <2>6, <2>7, <2>8, <2>9, <2>10 DEF loanAccepted
<1> QED BY <1>6, <1>7

(* Whatever the step, the schema takes what it writes. *)
LEMMA StepSchema ==
  ASSUME IInv, [Next]_vars, failure = "none", failure' = "none"
  PROVE  /\ bank_lending_status_requires_assessment
         /\ \A c \in Companies :
              applicationAccepted(c) /\ assessmentAccepted(c) /\ loanAccepted(c)
<1>1. \A c \in Companies : assessmentAccepted(c)
  BY Assessment
<1>2. SUFFICES BankAndApplications /\ \A c \in Companies : loanAccepted(c)
  BY <1>1 DEF BankAndApplications
<1>3. CASE UNCHANGED <<application, bankStatus, loan>>
  BY <1>3, ApplicationsStay, LoanStays DEF SameLoan
<1>4. CASE beginTick
  <2>1. BankAndApplications
    BY <1>4, ApplicationsStay DEF beginTick
  <2> QED BY <1>4, <2>1, DayOlder, LoanStays
<1>5. CASE processDueInstallments
  <2>1. stage = "collect"
    BY <1>5 DEF processDueInstallments
  <2>2. CASE nothingDue(turn)
    BY <1>3, <2>2 DEF nothingDue, world
  <2>3. CASE collect(turn)
    <3>1. BankAndApplications
      BY <2>3, ApplicationsStay DEF collect
    <3> QED BY <2>1, <2>3, <3>1, CollectionAccepted
  <2>4. CASE recordMiss(turn)
    <3>1. BankAndApplications
      BY <2>4, ApplicationsStay DEF recordMiss
    <3> QED BY <2>1, <2>4, <3>1, MissAccepted
  <2>5. CASE borrowerAccountClosed(turn)
    BY <2>5 DEF borrowerAccountClosed, failTick
  <2> QED BY <1>5, <2>2, <2>3, <2>4, <2>5 DEF processDueInstallments
<1>6. CASE processCreditLifecycle
  <2>1. BankAndApplications /\ stage = "credit"
    BY <1>6, ApplicationsWritten DEF processCreditLifecycle
  <2>2. CASE tryDisburseApprovedApplication(turn)
    BY <2>1, <2>2, DisbursementAccepted
  <2>3. CASE ~tryDisburseApprovedApplication(turn)
    <3>1. loan' = loan
      BY <1>6, <2>3 DEF processCreditLifecycle, noCreditStep, submitApplication, noActiveBank,
                        beginReview, decideApplication, failTick, world
    <3> QED BY <2>1, <3>1, LoanStays DEF SameLoan
  <2> QED BY <2>2, <2>3
<1>7. CASE settle
  BY <1>3, <1>7 DEF settle
<1>8. CASE assessAll
  BY <1>3, <1>8 DEF assessAll, assessCompany, alreadyClosed, world
<1>9. CASE commitTick \/ resume \/ UNCHANGED vars
  BY <1>3, <1>9 DEF commitTick, resume, vars, world
<1> QED BY <1>4, <1>5, <1>6, <1>7, <1>8, <1>9 DEF Next

(* The property SchemaAccepts: no CHECK or trigger under the credit handlers *)
(* refuses what they write, whatever arrears, defaults and halts came before *)
(* (database.ts; credit-store.ts), so no legal write can stop the run.       *)
THEOREM SchemaAcceptsHolds == Spec => SchemaAccepts
<1>1. IInv /\ [Next]_vars =>
        (failure' = "none" /\ failure = "none" =>
           /\ bank_lending_status_requires_assessment
           /\ \A c \in Companies :
                applicationAccepted(c) /\ assessmentAccepted(c) /\ loanAccepted(c))
  BY StepSchema
<1> QED BY <1>1, InitInv, StepInv, PTL DEF Spec, SchemaAccepts
=============================================================================
