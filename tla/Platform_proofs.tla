-------------------------- MODULE Platform_proofs ---------------------------
(*************************************************************************)
(* The components whose definitions recurse over data (the sum of a        *)
(* ledger, the distance of a wing, a run of migrations, the nodes a DAG    *)
(* reaches), and then all components as the platform runs them, for any    *)
(* values of all their constants.                                          *)
(*************************************************************************)
EXTENDS MCPlatform, Admin_proofs, Services_proofs, WellFoundedInduction

---------------------------------------------------------------------------
(* Recursion over numbers, without an induction rule: a counterexample     *)
(* would have a least one.                                                 *)

\* A set of numbers that is not empty has a least one.
LEMMA LeastNumber ==
  ASSUME NEW T, T \subseteq Nat, T # {}
  PROVE  \E m \in T : \A n \in T : m =< n
<1> DEFINE R == OpToRel(<, Nat)
<1>1. IsWellFoundedOn(R, Nat)
  BY NatLessThanWellFounded
<1>2. \A x, y \in Nat : y < x => <<y, x>> \in R
  BY DEF OpToRel
<1> HIDE DEF R
<1>3. PICK x \in T : \A y \in T : ~(<<y, x>> \in R)
  BY <1>1, WFMin
<1>4. ASSUME NEW y \in T PROVE x =< y
  <2>1. x \in Nat /\ y \in Nat /\ ~(y < x)
    BY <1>2, <1>3
  <2> QED BY <2>1
<1> QED BY <1>4

\* What holds of 0 and of the successor of each number it holds of, up to n, holds
\* up to n; T stands for the predicate.
LEMMA CountingUp ==
  ASSUME NEW n \in Nat, NEW T, 0 \in T,
         \A k \in 0..n : k # n /\ k \in T => k + 1 \in T
  PROVE  \A k \in 0..n : k \in T
<1> SUFFICES ASSUME {k \in 0..n : k \notin T} # {} PROVE FALSE
  OBVIOUS
<1>1. PICK m \in {k \in 0..n : k \notin T} : \A k \in {j \in 0..n : j \notin T} : m =< k
  <2>1. {k \in 0..n : k \notin T} \subseteq Nat
    OBVIOUS
  <2> QED BY <2>1, LeastNumber
<1>2. m \in Nat /\ m # 0 /\ m - 1 \in 0..n /\ m - 1 # n /\ (m - 1) + 1 = m
  BY <1>1
<1>3. m - 1 \in T
  BY <1>1, <1>2
<1> QED BY <1>1, <1>2, <1>3

\* The recursion f[0] = base, f[k] = step[f[k - 1]] defines a function.
Iteration(f, n, X, base, step) ==
    f \in [0..n -> X] /\ f[0] = base /\ \A k \in 1..n : f[k] = step[f[k - 1]]

\* For every length, base and step the recursion defines a function.
LEMMA Iterates ==
  ASSUME NEW n \in Nat, NEW X, NEW base \in X, NEW step \in [X -> X]
  PROVE  \E f : Iteration(f, n, X, base, step)
<1> DEFINE Is(f, m) == /\ f[0] = base
                       /\ \A k \in 1..m : f[k] = step[f[k - 1]]
           T == {m \in 0..n : \E f \in [0..m -> X] : Is(f, m)}
<1>1. 0 \in T
  <2> DEFINE f == [k \in 0..0 |-> base]
  <2>1. f \in [0..0 -> X] /\ f[0] = base
    OBVIOUS
  <2> HIDE DEF f
  <2>2. Is(f, 0) /\ 0 \in 0..n
    BY <2>1
  <2> QED BY <2>1, <2>2
<1>2. ASSUME NEW m \in 0..n, m # n, m \in T PROVE m + 1 \in T
  <2>1. PICK f \in [0..m -> X] : Is(f, m)
    BY <1>2
  <2> DEFINE g == [k \in 0..(m + 1) |-> IF k = m + 1 THEN step[f[m]] ELSE f[k]]
  <2>2. m \in Nat /\ m + 1 \in 0..n /\ \A k \in 0..(m + 1) : k # m + 1 => k \in 0..m
    BY <1>2
  <2>3. g \in [0..(m + 1) -> X]
    BY <2>2
  <2>4. g[0] = base /\ \A k \in 0..m : g[k] = f[k]
    BY <2>1, <2>2
  <2>5. g[m + 1] = step[g[m]]
    BY <2>2, <2>4
  <2> HIDE DEF g
  <2>6. \A k \in 1..(m + 1) : g[k] = step[g[k - 1]]
    <3> TAKE k \in 1..(m + 1)
    <3>1. CASE k = m + 1
      BY <2>2, <2>5, <3>1
    <3>2. CASE k # m + 1
      <4>1. k \in 1..m /\ k \in 0..m /\ k - 1 \in 0..m
        BY <2>2, <3>2
      <4> QED BY <2>1, <2>4, <4>1
    <3> QED BY <3>1, <3>2
  <2> QED BY <2>2, <2>3, <2>4, <2>6
<1> HIDE DEF T
<1>3. n \in T
  BY <1>1, <1>2, CountingUp
<1> QED BY <1>3 DEF T, Iteration

---------------------------------------------------------------------------
(* The sum that the ledger is compared with.                               *)

USE LeagueAssumption

\* What purchases cost, and how the fold adds it up: one element after the other.
Sales == Items \X Prices
Paid(S) == MapThenSumSet(LAMBDA p : p[2], S)
AnyOf(S) == CHOOSE x \in S : TRUE
AddsUp(g, S) ==
    g = [s \in SUBSET S |-> IF s = {} THEN 0 ELSE AnyOf(s)[2] + g[s \ {AnyOf(s)}]]

\* The sum is the value of a recursion over subsets.
LEMMA PaidIsASum ==
  ASSUME NEW S
  PROVE  Paid(S) = (CHOOSE g : AddsUp(g, S))[S]
BY Zenon DEF Paid, MapThenSumSet, MapThenFoldSet, AddsUp, AnyOf

\* Taking one element leaves a smaller finite set.
LEMMA TakingOne ==
  ASSUME NEW s, IsFiniteSet(s), s # {}
  PROVE  /\ AnyOf(s) \in s
         /\ IsFiniteSet(s \ {AnyOf(s)})
         /\ Cardinality(s) \in Nat /\ Cardinality(s \ {AnyOf(s)}) \in Nat
         /\ Cardinality(s \ {AnyOf(s)}) < Cardinality(s)
<1>1. AnyOf(s) \in s
  BY DEF AnyOf
<1>2. Cardinality(s) \in Nat
  BY FS_CardinalityType
<1>3. ASSUME NEW x \in s PROVE /\ IsFiniteSet(s \ {x})
                             /\ Cardinality(s \ {x}) = Cardinality(s) - 1
                             /\ Cardinality(s \ {x}) \in Nat
  BY FS_RemoveElement, FS_CardinalityType
<1>4. IsFiniteSet(s \ {AnyOf(s)}) /\ Cardinality(s \ {AnyOf(s)}) = Cardinality(s) - 1
      /\ Cardinality(s \ {AnyOf(s)}) \in Nat
  BY <1>1, <1>3
<1> QED BY <1>1, <1>2, <1>4

\* There is one way to add up a finite set.
LEMMA SumsAgree ==
  ASSUME NEW S, IsFiniteSet(S), NEW R, IsFiniteSet(R), NEW g, NEW h,
         AddsUp(g, S), AddsUp(h, R)
  PROVE  \A s \in SUBSET (S \cap R) : g[s] = h[s]
<1> DEFINE Bad == {s \in SUBSET (S \cap R) : g[s] # h[s]}
           T == {Cardinality(s) : s \in Bad}
<1> SUFFICES ASSUME Bad # {} PROVE FALSE
  OBVIOUS
<1>1. \A s \in SUBSET (S \cap R) : IsFiniteSet(s) /\ Cardinality(s) \in Nat
  BY FS_Subset, FS_CardinalityType
<1>2. PICK m \in T : \A n \in T : m =< n
  <2>1. T \subseteq Nat /\ T # {}
    BY <1>1
  <2> QED BY <2>1, LeastNumber
<1>3. PICK s \in Bad : Cardinality(s) = m
  BY <1>2
<1>4. s # {}
  BY <1>3 DEF AddsUp
<1>5. /\ s \ {AnyOf(s)} \in SUBSET (S \cap R)
      /\ Cardinality(s \ {AnyOf(s)}) < m
      /\ Cardinality(s \ {AnyOf(s)}) \in Nat /\ m \in Nat
  BY <1>1, <1>3, <1>4, TakingOne
<1>6. s \ {AnyOf(s)} \notin Bad
  BY <1>2, <1>5
<1>7. g[s \ {AnyOf(s)}] = h[s \ {AnyOf(s)}]
  BY <1>5, <1>6
<1>8. g[s] = AnyOf(s)[2] + g[s \ {AnyOf(s)}] /\ h[s] = AnyOf(s)[2] + h[s \ {AnyOf(s)}]
  BY <1>3, <1>4 DEF AddsUp
<1> QED BY <1>3, <1>7, <1>8

\* Paid(s) adds up s: proved for the sets of k elements from those of fewer.
Unfolds(s) == /\ Paid(s) \in Nat
              /\ Paid(s) = IF s = {} THEN 0 ELSE AnyOf(s)[2] + Paid(s \ {AnyOf(s)})

\* If the sums of all smaller sets unfold at any element, so does that of the set.
LEMMA PaidUnfoldsFrom ==
  ASSUME NEW S \in SUBSET Sales, IsFiniteSet(S), \A s \in SUBSET S : s # S => Unfolds(s)
  PROVE  Unfolds(S)
<1>1. CASE S = {}
  <2>1. AddsUp([s \in SUBSET S |-> 0], S)
    BY <1>1 DEF AddsUp
  <2>2. AddsUp(CHOOSE g : AddsUp(g, S), S)
    BY <2>1
  <2>3. (CHOOSE g : AddsUp(g, S))[S] = 0
    BY <1>1, <2>2 DEF AddsUp
  <2> QED BY <1>1, <2>3, PaidIsASum DEF Unfolds
<1>2. CASE S # {}
  <2> DEFINE rest == S \ {AnyOf(S)}
             whole == AnyOf(S)[2] + Paid(rest)
             g == [s \in SUBSET S |-> IF s = S THEN whole ELSE Paid(s)]
  <2>1. AnyOf(S) \in S /\ rest \in SUBSET S /\ rest # S /\ IsFiniteSet(rest)
    BY <1>2, TakingOne
  <2>2. AnyOf(S)[2] \in Nat /\ Paid(rest) \in Nat
    BY <2>1 DEF Sales, Unfolds
  <2>3. ASSUME NEW s \in SUBSET S
        PROVE  g[s] = IF s = {} THEN 0 ELSE AnyOf(s)[2] + g[s \ {AnyOf(s)}]
    <3>1. CASE s = S
      BY <1>2, <2>1, <3>1
    <3>2. CASE s # S
      <4>1. g[s] = Paid(s) /\ Unfolds(s)
        BY <3>2
      <4>2. s # {} => AnyOf(s) \in s
        BY DEF AnyOf
      <4>3. s # {} => g[s \ {AnyOf(s)}] = Paid(s \ {AnyOf(s)})
        BY <3>2, <4>2
      <4> QED BY <4>1, <4>3 DEF Unfolds
    <3> QED BY <3>1, <3>2
  <2>4. AddsUp(g, S)
    <3> DEFINE z == [s \in SUBSET S |-> IF s = {} THEN 0 ELSE AnyOf(s)[2] + g[s \ {AnyOf(s)}]]
    <3>1. \A s \in SUBSET S : g[s] = z[s]
      BY <2>3
    <3>2. g = z
      BY <3>1
    <3> QED BY <3>2 DEF AddsUp
  <2>5. g[S] = whole
    OBVIOUS
  <2> HIDE DEF g
  <2>6. AddsUp(CHOOSE f : AddsUp(f, S), S)
    BY <2>4
  <2>7. (CHOOSE f : AddsUp(f, S))[S] = g[S]
    BY <2>4, <2>6, SumsAgree
  <2> QED BY <1>2, <2>2, <2>5, <2>7, PaidIsASum DEF Unfolds
<1> QED BY <1>1, <1>2

\* The sum unfolds at any element, not just the one the recursion picks.
LEMMA PaidUnfolds ==
  ASSUME NEW S \in SUBSET Sales, IsFiniteSet(S)
  PROVE  Unfolds(S)
<1> DEFINE Bad == {s \in SUBSET S : ~Unfolds(s)}
           T == {Cardinality(s) : s \in Bad}
<1> SUFFICES ASSUME Bad # {} PROVE FALSE
  OBVIOUS
<1>1. \A s \in SUBSET S : IsFiniteSet(s) /\ Cardinality(s) \in Nat
  BY FS_Subset, FS_CardinalityType
<1>2. PICK m \in T : \A n \in T : m =< n
  <2>1. T \subseteq Nat /\ T # {}
    BY <1>1
  <2> QED BY <2>1, LeastNumber
<1>3. PICK s \in Bad : Cardinality(s) = m
  BY <1>2
<1>4. ASSUME NEW r \in SUBSET s, r # s PROVE Unfolds(r)
  <2>1. IsFiniteSet(s) /\ r \in SUBSET S
    BY <1>1, <1>3
  <2>2. Cardinality(r) \in Nat /\ Cardinality(s) \in Nat /\ Cardinality(r) < Cardinality(s)
    BY <1>1, <1>3, <1>4, <2>1, FS_Subset
  <2>3. Cardinality(r) \notin T
    BY <1>2, <1>3, <2>2
  <2> QED BY <2>1, <2>3
<1> QED BY <1>1, <1>3, <1>4, PaidUnfoldsFrom

\* ... in whatever order: whichever purchase is taken last, it adds its price.
LEMMA PaidOfOneMore ==
  ASSUME NEW S \in SUBSET Sales, IsFiniteSet(S), NEW x \in Sales \ S
  PROVE  IsFiniteSet(S \cup {x}) /\ Paid(S \cup {x}) = Paid(S) + x[2]
<1> DEFINE TakenLast(s) == \A y \in s : Paid(s) = Paid(s \ {y}) + y[2]
           W == S \cup {x}
           Bad == {s \in SUBSET W : ~TakenLast(s)}
           T == {Cardinality(s) : s \in Bad}
<1>1. IsFiniteSet(W) /\ W \in SUBSET Sales
  BY FS_AddElement
<1>2. \A s \in SUBSET W : /\ IsFiniteSet(s) /\ Cardinality(s) \in Nat
                          /\ s \in SUBSET Sales
  BY <1>1, FS_Subset, FS_CardinalityType
<1>3. Bad = {}
  <2> SUFFICES ASSUME Bad # {} PROVE FALSE
    OBVIOUS
  <2>1. PICK m \in T : \A n \in T : m =< n
    <3>1. T \subseteq Nat /\ T # {}
      BY <1>2
    <3> QED BY <3>1, LeastNumber
  <2>2. PICK s \in Bad : Cardinality(s) = m
    BY <2>1
  <2>3. PICK y \in s : Paid(s) # Paid(s \ {y}) + y[2]
    BY <2>2
  <2>4. s \in SUBSET W /\ s # {} /\ IsFiniteSet(s) /\ s \in SUBSET Sales
    BY <1>2, <2>2, <2>3
  <2> DEFINE c == AnyOf(s)
  <2>5. c \in s
    BY <2>4 DEF AnyOf
  <2>6. Paid(s) = c[2] + Paid(s \ {c}) /\ Paid(s \ {c}) \in Nat /\ Paid(s \ {y}) \in Nat
    <3>1. IsFiniteSet(s \ {c}) /\ IsFiniteSet(s \ {y})
      BY <2>4, FS_RemoveElement
    <3> QED BY <2>4, <3>1, PaidUnfolds DEF Unfolds
  <2>7. c[2] \in Nat /\ y[2] \in Nat
    BY <2>3, <2>4, <2>5 DEF Sales
  <2> HIDE DEF c
  <2>8. y # c
    <3> SUFFICES ASSUME y = c PROVE FALSE
      OBVIOUS
    <3>1. Paid(s) = y[2] + Paid(s \ {y})
      BY <2>6
    <3>2. \A a, b \in Nat : a + b = b + a
      OBVIOUS
    <3> QED BY <2>3, <2>6, <2>7, <3>1, <3>2
  <2>9. ASSUME NEW z \in s PROVE TakenLast(s \ {z})
    <3>1. Cardinality(s \ {z}) < m /\ Cardinality(s \ {z}) \in Nat /\ m \in Nat
      BY <1>2, <2>2, <2>4, FS_RemoveElement
    <3>2. s \ {z} \in SUBSET W /\ Cardinality(s \ {z}) \notin T
      BY <2>1, <2>4, <3>1
    <3> QED BY <3>2
  <2>10. Paid(s \ {c}) = Paid((s \ {c}) \ {y}) + y[2]
    BY <2>3, <2>5, <2>8, <2>9
  <2>11. Paid(s \ {y}) = Paid((s \ {y}) \ {c}) + c[2]
    BY <2>3, <2>5, <2>8, <2>9
  <2>12. (s \ {c}) \ {y} = (s \ {y}) \ {c} /\ Paid((s \ {c}) \ {y}) \in Nat
    <3>1. IsFiniteSet((s \ {c}) \ {y}) /\ (s \ {c}) \ {y} \in SUBSET Sales
      BY <1>2, <2>4
    <3> QED BY <3>1, PaidUnfolds DEF Unfolds
  <2>13. Paid(s) = Paid(s \ {y}) + y[2]
    <3>1. PICK r \in Nat : r = Paid((s \ {c}) \ {y})
      BY <2>12
    <3>2. Paid(s) = c[2] + (r + y[2]) /\ Paid(s \ {y}) = r + c[2]
      BY <2>6, <2>10, <2>11, <2>12, <3>1
    <3>3. \A a, b \in Nat : a + (r + b) = (r + a) + b
      OBVIOUS
    <3> QED BY <2>7, <3>2, <3>3
  <2> QED BY <2>3, <2>13
<1>4. W \ {x} = S /\ x \in W
  OBVIOUS
<1>5. TakenLast(W)
  BY <1>3
<1>6. Paid(W) = Paid(W \ {x}) + x[2]
  BY <1>4, <1>5
<1> QED BY <1>1, <1>4, <1>6

HIDE LeagueAssumption

---------------------------------------------------------------------------
(* The league.  The board has the best of the first scores, and the ledger *)
(* takes a price with each purchase.                                       *)

USE LeagueAssumption

\* Scores can be compared.
LEMMA ScoresAreNumbers == Scores \cup {Unscored} \subseteq Nat
BY DEF Unscored

\* An upper bound in a set is its maximum.
LEMMA MaxIs ==
  ASSUME NEW S, S \subseteq Nat, NEW b \in S, \A y \in S : y =< b
  PROVE  Max(S) = b
<1>1. \A x \in S : (\A y \in S : x >= y) <=> x = b
  <2> TAKE x \in S
  <2>1. x \in Nat /\ b \in Nat /\ x =< b
    OBVIOUS
  <2>2. (\A y \in S : x >= y) => x = b
    BY <2>1
  <2>3. \A y \in S : b >= y
    OBVIOUS
  <2> QED BY <2>2, <2>3
<1>2. (CHOOSE x \in S : \A y \in S : x >= y) = b
  BY <1>1
<1> QED BY <1>2 DEF Max

\* The maximum of two numbers.
LEMMA MaxOfTwo ==
  ASSUME NEW a \in Nat, NEW b \in Nat
  PROVE  Max({a, b}) = IF a >= b THEN a ELSE b
<1>1. CASE a >= b
  BY <1>1, MaxIs
<1>2. CASE ~(a >= b)
  BY <1>2, MaxIs
<1> QED BY <1>1, <1>2

\* A finite set of numbers has a maximum.
LEMMA FiniteMax ==
  ASSUME NEW S, S \subseteq Nat, IsFiniteSet(S), S # {}
  PROVE  Max(S) \in S
<1> DEFINE Top(s) == \E x \in s : \A y \in s : y =< x
           Bad == {s \in SUBSET S : s # {} /\ ~Top(s)}
           T == {Cardinality(s) : s \in Bad}
<1>1. \A s \in SUBSET S : IsFiniteSet(s) /\ Cardinality(s) \in Nat
  BY FS_Subset, FS_CardinalityType
<1>2. Bad = {}
  <2> SUFFICES ASSUME Bad # {} PROVE FALSE
    OBVIOUS
  <2>1. PICK m \in T : \A n \in T : m =< n
    <3>1. T \subseteq Nat /\ T # {}
      BY <1>1
    <3> QED BY <3>1, LeastNumber
  <2>2. PICK s \in Bad : Cardinality(s) = m
    BY <2>1
  <2>3. PICK z \in s : TRUE
    BY <2>2
  <2>4. Cardinality(s \ {z}) < m
    <3>1. IsFiniteSet(s) /\ Cardinality(s) \in Nat
      BY <1>1, <2>2
    <3>2. Cardinality(s \ {z}) = Cardinality(s) - 1
      BY <2>3, <3>1, FS_RemoveElement
    <3> QED BY <2>2, <3>1, <3>2
  <2>5. s \ {z} \notin Bad
    <3>1. Cardinality(s \ {z}) \in Nat /\ m \in Nat
      BY <1>1, <2>2
    <3>2. Cardinality(s \ {z}) \notin T
      BY <2>1, <2>4, <3>1
    <3> QED BY <3>2
  <2>6. s \ {z} # {}
    <3> SUFFICES ASSUME s = {z} PROVE FALSE
      BY <2>3
    <3>1. Top(s)
      BY <2>2
    <3> QED BY <2>2, <3>1
  <2>7. PICK x \in s \ {z} : \A y \in s \ {z} : y =< x
    BY <2>2, <2>5, <2>6
  <2>8. CASE z =< x
    <3>1. \A y \in s : y =< x
      BY <2>7, <2>8
    <3> QED BY <2>2, <2>7, <3>1
  <2>9. CASE ~(z =< x)
    <3>1. \A y \in s : y \in Nat
      BY <2>2
    <3>2. \A y \in s : y =< z
      BY <2>3, <2>7, <2>9, <3>1
    <3> QED BY <2>2, <2>3, <3>2
  <2> QED BY <2>8, <2>9
<1>3. Top(S)
  BY <1>2
<1>4. PICK b \in S : \A y \in S : y =< b
  BY <1>3
<1> QED BY <1>4, MaxIs

Submitted == [pc : {"new", "running", "stored", "refused"}, by : Engineers,
              mode : {"training", "league"}, prior : Scores \cup {Unscored},
              first : Scores \cup {Unscored}, composite : Scores \cup {Unscored}]
Bought == [pc : {"new", "decided", "done", "refused"}, by : Engineers, item : Items,
           price : Prices]

\* The board has a score somebody submitted, and none is better.
BestAttempt(e) ==
    \/ Attempts(e) = {} /\ board[e] = Unscored
    \/ /\ \E a \in Attempts(e) : board[e] = submission[a].first
       /\ \A a \in Attempts(e) : submission[a].first =< board[e]
LedgerOf(e) == IsFiniteSet(purchases[e]) /\ debited[e] = Paid(purchases[e])
LeagueInv ==
    /\ LeagueTypeOK
    /\ \A e \in Engineers : BestAttempt(e)
    /\ \A e \in Engineers : LedgerOf(e)

\* At first nothing is submitted or bought.
LEMMA LeagueStarts == LeagueInit => LeagueInv
<1> SUFFICES ASSUME LeagueInit PROVE LeagueInv
  OBVIOUS
<1>1. submission \in [Submissions -> Submitted] /\ \A s \in Submissions : submission[s].pc = "new"
  BY DEF LeagueInit, Submitted
<1>2. item \in [Items -> [price : Prices, active : BOOLEAN]]
  BY DEF LeagueInit
<1>3. order \in [Orders -> Bought]
  BY <1>2 DEF LeagueInit, Bought
<1>4. LeagueTypeOK
  BY <1>1, <1>2, <1>3 DEF LeagueInit, LeagueTypeOK, Submitted, Bought
<1>5. \A e \in Engineers : BestAttempt(e)
  BY <1>1 DEF BestAttempt, Attempts, LeagueInit
<1>6. \A e \in Engineers : LedgerOf(e)
  <2>1. IsFiniteSet({}) /\ Paid({}) = 0
    BY FS_EmptySet, PaidUnfolds DEF Unfolds
  <2> QED BY <2>1 DEF LeagueInit, LedgerOf
<1> QED BY <1>4, <1>5, <1>6 DEF LeagueInv

\* A step that stores no attempt and no purchase.
LEMMA NothingStored ==
  ASSUME LeagueInv, LeagueTypeOK', UNCHANGED <<board, purchases, debited>>,
         \A s \in Submissions :
             /\ submission'[s].pc = "stored" <=> submission[s].pc = "stored"
             /\ submission'[s].by = submission[s].by
             /\ submission'[s].mode = submission[s].mode
             /\ submission'[s].first = submission[s].first
  PROVE  LeagueInv'
<1>1. \A e \in Engineers : Attempts(e)' = Attempts(e)
  BY DEF Attempts
<1>2. \A e \in Engineers : BestAttempt(e)'
  <2> TAKE e \in Engineers
  <2>1. \A a \in Attempts(e) : submission'[a].first = submission[a].first
    BY DEF Attempts
  <2>2. BestAttempt(e)
    BY DEF LeagueInv
  <2> QED BY <1>1, <2>1, <2>2 DEF BestAttempt
<1>3. \A e \in Engineers : LedgerOf(e)'
  BY DEF LeagueInv, LedgerOf
<1> QED BY <1>2, <1>3 DEF LeagueInv

\* Opening and closing a challenge leaves the scores alone.
LEMMA ChallengeStep ==
  ASSUME LeagueInv, NEW status \in {"draft", "active", "closed"}, SetChallengeStatus(status)
  PROVE  LeagueInv'
<1>1. LeagueTypeOK'
  BY DEF LeagueInv, LeagueTypeOK, SetChallengeStatus, storeVars
<1> QED BY <1>1, NothingStored DEF SetChallengeStatus, storeVars

\* The best score so far is a score, or there is none.
LEMMA PriorIsAScore ==
  ASSUME LeagueTypeOK, NEW e
  PROVE  BestOf({submission[a].composite : a \in Attempts(e)}) \in Scores \cup {Unscored}
<1> DEFINE S == {submission[a].composite : a \in Attempts(e)}
           f == [a \in Attempts(e) |-> submission[a].composite]
<1>1. \A a \in Attempts(e) : submission[a].composite \in Scores \cup {Unscored}
  BY DEF LeagueTypeOK, Attempts
<1>2. S \subseteq Scores \cup {Unscored}
  BY <1>1
<1>6. S \subseteq Nat
  BY <1>2, ScoresAreNumbers
<1>3. IsFiniteSet(S)
  <2>1. IsFiniteSet(Attempts(e))
    BY FS_Subset DEF Attempts
  <2>2. f \in Surjection(Attempts(e), S)
    BY DEF Surjection
  <2> QED BY <2>1, <2>2, FS_Surjection
<1> HIDE DEF S
<1>4. S # {} => Max(S) \in S
  BY <1>6, <1>3, FiniteMax
<1>5. BestOf(S) \in Scores \cup {Unscored}
  BY <1>2, <1>4 DEF BestOf
<1> QED BY <1>5 DEF S

\* A submission that begins its test suite changes no score.
LEMMA DecideStep ==
  ASSUME LeagueInv, NEW s \in Submissions, DecideSubmission(s)
  PROVE  LeagueInv'
<1> DEFINE e == submission[s].by
           refused == \/ challenge.status # "active"
                      \/ /\ submission[s].mode = "league"
                         /\ Cardinality(Attempts(e)) >= MaxAttempts
           prior == BestOf({submission[a].composite : a \in Attempts(e)})
<1>1. prior \in Scores \cup {Unscored}
  BY PriorIsAScore DEF LeagueInv
<1>2. submission' = [submission EXCEPT ![s].pc = IF refused THEN "refused" ELSE "running",
                                       ![s].prior = IF refused THEN Unscored ELSE prior]
  BY DEF DecideSubmission
<1> HIDE DEF prior, refused
<1>3. PICK p \in {"refused", "running"}, q \in Scores \cup {Unscored} :
        submission' = [submission EXCEPT ![s].pc = p, ![s].prior = q]
  BY <1>1, <1>2
<1>4. submission \in [Submissions -> Submitted] /\ submission[s].pc = "new"
  BY DEF LeagueInv, LeagueTypeOK, Submitted, DecideSubmission
<1> DEFINE n == [[submission[s] EXCEPT !.pc = p] EXCEPT !.prior = q]
<1>5. submission' \in [Submissions -> Submitted]
  <2>1. n \in Submitted
    BY <1>4 DEF Submitted
  <2>2. submission' = [submission EXCEPT ![s] = n]
    BY <1>3, <1>4 DEF Submitted
  <2> HIDE DEF n
  <2> QED BY <1>4, <2>1, <2>2
<1>6. \A t \in Submissions :
             /\ submission'[t].pc = "stored" <=> submission[t].pc = "stored"
             /\ submission'[t].by = submission[t].by
             /\ submission'[t].mode = submission[t].mode
             /\ submission'[t].first = submission[t].first
  BY <1>3, <1>4 DEF Submitted
<1>7. UNCHANGED <<challenge, board, rewarded, rescoring, item, order, purchases, debited>>
  BY DEF DecideSubmission, storeVars
<1>8. LeagueTypeOK'
  BY <1>5, <1>7 DEF LeagueInv, LeagueTypeOK, Submitted
<1> QED BY <1>6, <1>7, <1>8, NothingStored

\* A stored score moves the board only upwards.
LEMMA StoreStep ==
  ASSUME LeagueInv, NEW s \in Submissions, NEW score \in Scores, StoreSubmission(s, score)
  PROVE  LeagueInv'
<1>9. PICK e \in Engineers : submission[s].by = e
  BY DEF LeagueInv, LeagueTypeOK
<1> DEFINE gain == Max({score - submission[s].prior, 0})
<1>1. /\ submission \in [Submissions -> Submitted] /\ submission[s] \in Submitted
      /\ submission[s].pc = "running" /\ submission[s].by = e
      /\ submission[s].prior \in Nat /\ score \in Nat
      /\ board \in [Engineers -> Scores \cup {Unscored}]
      /\ rewarded \in [Engineers -> Nat]
  BY <1>9 DEF LeagueInv, LeagueTypeOK, Submitted, StoreSubmission, Unscored
<1>2. submission' = [submission EXCEPT ![s].pc = "stored", ![s].first = score,
                                       ![s].composite = score]
  BY DEF StoreSubmission
<1>3. submission' \in [Submissions -> Submitted]
  BY <1>1, <1>2 DEF Submitted
<1>4. /\ \A t \in Submissions \ {s} : submission'[t] = submission[t]
      /\ submission'[s].pc = "stored" /\ submission'[s].first = score
      /\ submission'[s].by = e /\ submission'[s].mode = submission[s].mode
  BY <1>1, <1>2 DEF Submitted
<1>5. UNCHANGED <<challenge, rescoring, item, order, purchases, debited>>
  BY DEF StoreSubmission, storeVars
<1>6. \A d \in Engineers : LedgerOf(d)'
  BY <1>5 DEF LeagueInv, LedgerOf
<1>7. CASE submission[s].mode = "training"
  <2>1. board' = board /\ rewarded' = [rewarded EXCEPT ![e] = @ + Xp]
    BY <1>7, <1>9 DEF StoreSubmission
  <2>2. rewarded' \in [Engineers -> Nat]
    BY <1>1, <2>1
  <2>3. LeagueTypeOK'
    BY <1>3, <1>5, <2>1, <2>2 DEF LeagueInv, LeagueTypeOK, Submitted
  <2>4. \A d \in Engineers : Attempts(d)' = Attempts(d)
    BY <1>4, <1>7, <1>1 DEF Attempts
  <2>5. \A d \in Engineers : BestAttempt(d)'
    <3> TAKE d \in Engineers
    <3>1. \A a \in Attempts(d) : submission'[a].first = submission[a].first
      BY <1>1, <1>4 DEF Attempts
    <3>2. BestAttempt(d)
      BY DEF LeagueInv
    <3> QED BY <2>1, <2>4, <3>1, <3>2 DEF BestAttempt
  <2> QED BY <1>6, <2>3, <2>5 DEF LeagueInv
<1>8. CASE submission[s].mode # "training"
  <2>1. /\ board' = [board EXCEPT ![e] = Max({board[e], score})]
        /\ rewarded' = [rewarded EXCEPT ![e] = @ + gain]
    BY <1>8, <1>9 DEF StoreSubmission
  <2>2. board[e] \in Nat
    BY <1>1, ScoresAreNumbers
  <2>3. Max({board[e], score}) = IF board[e] >= score THEN board[e] ELSE score
    BY <1>1, <2>2, MaxOfTwo
  <2>4. board' \in [Engineers -> Scores \cup {Unscored}]
    BY <1>1, <2>1, <2>3
  <2>5. gain \in Nat
    <3>1. CASE score - submission[s].prior \in Nat
      BY <3>1, MaxOfTwo
    <3>2. CASE score - submission[s].prior \notin Nat
      <4> DEFINE z == score - submission[s].prior
      <4>1. z \in Int /\ z < 0
        BY <1>1, <3>2
      <4> HIDE DEF z
      <4>2. (CHOOSE x \in {z, 0} : \A y \in {z, 0} : x >= y) = 0
        BY <4>1
      <4>3. Max({z, 0}) = 0
        BY <4>2 DEF Max
      <4> QED BY <4>3 DEF z
    <3> QED BY <3>1, <3>2
  <2> HIDE DEF gain
  <2>6. rewarded' \in [Engineers -> Nat]
    BY <1>1, <2>1, <2>5
  <2>7. LeagueTypeOK'
    BY <1>3, <1>5, <2>4, <2>6 DEF LeagueInv, LeagueTypeOK, Submitted
  <2>8. submission[s].mode = "league"
    BY <1>1, <1>8 DEF Submitted
  <2>9. \A d \in Engineers \ {e} : Attempts(d)' = Attempts(d) /\ board'[d] = board[d]
    BY <1>1, <1>4, <2>1 DEF Attempts
  <2>10. Attempts(e)' = Attempts(e) \cup {s} /\ s \notin Attempts(e)
    BY <1>1, <1>4, <2>8 DEF Attempts
  <2>11. \A d \in Engineers : \A a \in Attempts(d) : submission'[a].first = submission[a].first
    BY <1>1, <1>4 DEF Attempts
  <2>12. BestAttempt(e)'
    <3> DEFINE b == IF board[e] >= score THEN board[e] ELSE score
    <3>1. board'[e] = b
      BY <1>1, <2>1, <2>3
    <3>2. \A a \in Attempts(e) : submission[a].first \in Nat /\ submission[a].first =< board[e]
      <4>1. \A a \in Attempts(e) : submission[a].first \in Nat
        <5> TAKE a \in Attempts(e)
        <5>1. submission[a].first \in Scores \cup {Unscored}
          BY <1>1 DEF Attempts, Submitted
        <5> QED BY <5>1, ScoresAreNumbers
      <4> QED BY <1>1, <4>1 DEF LeagueInv, BestAttempt
    <3>3. score =< b /\ board[e] =< b
      BY <1>1, <2>2
    <3>4. \A a \in Attempts(e)' : submission'[a].first =< b
      <4> TAKE a \in Attempts(e)'
      <4>1. CASE a = s
        BY <1>4, <3>3, <4>1
      <4>2. CASE a # s
        <5>1. a \in Attempts(e) /\ submission'[a].first = submission[a].first
          BY <1>1, <2>10, <2>11, <4>2
        <5>2. submission[a].first \in Nat /\ submission[a].first =< board[e]
          BY <3>2, <5>1
        <5> QED BY <1>1, <2>2, <5>1, <5>2
      <4> QED BY <4>1, <4>2
    <3>5. \E a \in Attempts(e)' : submission'[a].first = b
      <4>1. CASE board[e] >= score
        <5>1. Attempts(e) # {}
          <6>1. score > 0 /\ board[e] # Unscored
            BY <1>1, <4>1 DEF Unscored
          <6> QED BY <1>1, <6>1 DEF LeagueInv, BestAttempt
        <5>2. PICK a \in Attempts(e) : board[e] = submission[a].first
          BY <1>1, <5>1 DEF LeagueInv, BestAttempt
        <5> QED BY <1>1, <2>10, <2>11, <4>1, <5>2
      <4>2. CASE ~(board[e] >= score)
        BY <1>4, <2>10, <4>2
      <4> QED BY <4>1, <4>2
    <3> HIDE DEF b
    <3>6. \E a \in Attempts(e)' : board'[e] = submission'[a].first
      BY <3>1, <3>5
    <3>7. \A a \in Attempts(e)' : submission'[a].first =< board'[e]
      BY <3>1, <3>4
    <3> QED BY <1>1, <3>6, <3>7 DEF BestAttempt
  <2>13. ASSUME NEW d \in Engineers \ {e} PROVE BestAttempt(d)'
    <3>1. BestAttempt(d)
      BY DEF LeagueInv
    <3> QED BY <2>9, <2>11, <3>1 DEF BestAttempt
  <2>14. \A d \in Engineers : BestAttempt(d)'
    <3> TAKE d \in Engineers
    <3>1. CASE d = e
      BY <2>12, <3>1
    <3>2. CASE d # e
      BY <2>13, <3>2
    <3> QED BY <3>1, <3>2
  <2> QED BY <1>6, <2>7, <2>14 DEF LeagueInv
<1> QED BY <1>7, <1>8

\* The creativity score is no part of the best first score.
LEMMA CreativityStep ==
  ASSUME LeagueInv, ReadPrompts \/ StoreCreativity
  PROVE  LeagueInv'
<1>1. CASE ReadPrompts
  <2>1. LeagueTypeOK'
    BY <1>1 DEF LeagueInv, LeagueTypeOK, ReadPrompts, storeVars
  <2> QED BY <1>1, <2>1, NothingStored DEF ReadPrompts, storeVars
<1>2. CASE StoreCreativity
  <2>1. submission \in [Submissions -> Submitted] /\ rescoring \subseteq Submissions
    BY DEF LeagueInv, LeagueTypeOK, Submitted
  <2>2. PICK new \in [rescoring -> Scores] :
          submission' = [s \in Submissions |->
              IF s \in rescoring THEN [submission[s] EXCEPT !.composite = new[s]]
                                 ELSE submission[s]]
    BY <1>2 DEF StoreCreativity
  <2>3. submission' \in [Submissions -> Submitted]
    BY <2>1, <2>2, SMTT(30) DEF Submitted
  <2>4. \A s \in Submissions :
             /\ submission'[s].pc = "stored" <=> submission[s].pc = "stored"
             /\ submission'[s].by = submission[s].by
             /\ submission'[s].mode = submission[s].mode
             /\ submission'[s].first = submission[s].first
    BY <2>1, <2>2 DEF Submitted
  <2>5. LeagueTypeOK'
    BY <1>2, <2>3 DEF LeagueInv, LeagueTypeOK, StoreCreativity, storeVars, Submitted
  <2> QED BY <1>2, <2>4, <2>5, NothingStored DEF StoreCreativity, storeVars
<1> QED BY <1>1, <1>2

\* A price may change at any time; what was decided and debited does not.
LEMMA ItemStep ==
  ASSUME LeagueInv, NEW i \in Items, UpdateItem(i)
  PROVE  LeagueInv'
<1>1. LeagueTypeOK'
  BY DEF LeagueInv, LeagueTypeOK, UpdateItem, playVars
<1> QED BY <1>1, NothingStored DEF UpdateItem, playVars

\* An order completes with its purchase and debit, or not at all.
LEMMA OrderStep ==
  ASSUME LeagueInv, NEW o \in Orders, DecideOrder(o) \/ CompleteOrder(o)
  PROVE  LeagueInv'
<1> DEFINE e == order[o].by
           i == order[o].item
<1>1. /\ order \in [Orders -> Bought] /\ order[o] \in Bought /\ e \in Engineers /\ i \in Items
      /\ item \in [Items -> [price : Prices, active : BOOLEAN]]
      /\ order[o].price \in Prices /\ item[i].price \in Prices
      /\ purchases \in [Engineers -> SUBSET Sales] /\ debited \in [Engineers -> Nat]
  BY DEF LeagueInv, LeagueTypeOK, Bought, Sales
<1>2. UNCHANGED <<challenge, submission, board, rescoring, rewarded, item>>
  BY DEF DecideOrder, CompleteOrder, playVars
<1>3. ASSUME order' \in [Orders -> Bought], UNCHANGED <<purchases, debited>>
      PROVE  LeagueInv'
  <2>1. LeagueTypeOK'
    BY <1>2, <1>3 DEF LeagueInv, LeagueTypeOK, Bought
  <2> QED BY <1>2, <1>3, <2>1, NothingStored
<1>4. CASE DecideOrder(o)
  <2>1. PICK p \in {"decided", "refused"} :
          order' = [order EXCEPT ![o].pc = p, ![o].price = item[i].price]
    BY <1>4 DEF DecideOrder
  <2>2. order' \in [Orders -> Bought]
    BY <1>1, <2>1 DEF Bought
  <2>3. UNCHANGED <<purchases, debited>>
    BY <1>4 DEF DecideOrder
  <2> QED BY <1>3, <2>2, <2>3
<1>5. CASE CompleteOrder(o) /\ i \in {p[1] : p \in purchases[e]}
  <2>1. order' = [order EXCEPT ![o].pc = "refused"] /\ UNCHANGED <<purchases, debited>>
    BY <1>5 DEF CompleteOrder
  <2>2. order' \in [Orders -> Bought]
    BY <1>1, <2>1 DEF Bought
  <2> QED BY <1>3, <2>1, <2>2
<1>6. CASE CompleteOrder(o) /\ i \notin {p[1] : p \in purchases[e]}
  <2> DEFINE x == <<i, order[o].price>>
  <2>1. /\ order' = [order EXCEPT ![o].pc = "done"]
        /\ purchases' = [purchases EXCEPT ![e] = @ \cup {x}]
        /\ debited' = [debited EXCEPT ![e] = @ + order[o].price]
    BY <1>6 DEF CompleteOrder
  <2>2. x \in Sales \ purchases[e] /\ x[2] = order[o].price /\ order[o].price \in Nat
    <3>1. x \in Sales /\ x[1] = i /\ x[2] = order[o].price
      BY <1>1 DEF Sales
    <3>2. x \notin purchases[e]
      BY <1>6, <3>1
    <3>3. order[o].price \in Nat
      BY <1>1
    <3> QED BY <3>1, <3>2, <3>3
  <2>3. IsFiniteSet(purchases[e]) /\ debited[e] = Paid(purchases[e])
    BY <1>1 DEF LeagueInv, LedgerOf
  <2>4. /\ IsFiniteSet(purchases[e] \cup {x})
        /\ Paid(purchases[e] \cup {x}) = debited[e] + order[o].price
    BY <1>1, <2>2, <2>3, PaidOfOneMore
  <2>5. order' \in [Orders -> Bought]
    BY <1>1, <2>1 DEF Bought
  <2>6. purchases' \in [Engineers -> SUBSET Sales] /\ debited' \in [Engineers -> Nat]
    BY <1>1, <2>1, <2>2
  <2>7. LeagueTypeOK'
    BY <1>2, <2>5, <2>6 DEF LeagueInv, LeagueTypeOK, Bought, Sales
  <2>8. \A d \in Engineers : LedgerOf(d)'
    <3> TAKE d \in Engineers
    <3>1. CASE d = e
      BY <1>1, <2>1, <2>4, <3>1 DEF LedgerOf
    <3>2. CASE d # e
      <4>1. purchases'[d] = purchases[d] /\ debited'[d] = debited[d] /\ LedgerOf(d)
        BY <1>1, <2>1, <3>2 DEF LeagueInv
      <4> QED BY <4>1 DEF LedgerOf
    <3> QED BY <3>1, <3>2
  <2>9. \A d \in Engineers : BestAttempt(d)'
    BY <1>2 DEF LeagueInv, BestAttempt, Attempts
  <2> QED BY <2>7, <2>8, <2>9 DEF LeagueInv
<1> QED BY <1>4, <1>5, <1>6

\* For any engineers, submissions, items and orders, and however the runs of the
\* test suite, the changes of prices and the purchases overlap: the board shows the
\* best first score, and the ledger took what the purchases cost (submit,
\* purchase_item).
THEOREM LeagueIsSound == LeagueSpec => [](LeagueTypeOK /\ LeagueSound)
<1>1. LeagueInv /\ [LeagueNext]_leagueVars => LeagueInv'
  <2> SUFFICES ASSUME LeagueInv, [LeagueNext]_leagueVars PROVE LeagueInv'
    OBVIOUS
  <2>1. CASE UNCHANGED leagueVars
    <3>1. LeagueTypeOK'
      BY <2>1 DEF leagueVars, LeagueInv, LeagueTypeOK
    <3> QED BY <2>1, <3>1, NothingStored DEF leagueVars
  <2>2. CASE LeagueNext
    BY <2>2, ChallengeStep, DecideStep, StoreStep, CreativityStep, ItemStep, OrderStep
       DEF LeagueNext
  <2> QED BY <2>1, <2>2
<1>2. LeagueInv => LeagueTypeOK /\ LeagueSound
  <2> SUFFICES ASSUME LeagueInv PROVE BoardIsBest /\ LedgerMatchesPurchases
    BY DEF LeagueInv, LeagueSound
  <2>1. BoardIsBest
    <3> SUFFICES ASSUME NEW e \in Engineers
                 PROVE  board[e] = BestOf({submission[s].first : s \in Attempts(e)})
      BY DEF BoardIsBest
    <3> DEFINE S == {submission[s].first : s \in Attempts(e)}
    <3>1. S \subseteq Nat
      <4>1. \A s \in Attempts(e) : submission[s].first \in Scores \cup {Unscored}
        BY DEF LeagueInv, LeagueTypeOK, Attempts
      <4> QED BY <4>1, ScoresAreNumbers
    <3>2. CASE Attempts(e) = {} /\ board[e] = Unscored
      BY <3>2 DEF BestOf
    <3>3. CASE /\ \E a \in Attempts(e) : board[e] = submission[a].first
               /\ \A a \in Attempts(e) : submission[a].first =< board[e]
      <4>1. board[e] \in S /\ \A y \in S : y =< board[e]
        BY <3>3
      <4> HIDE DEF S
      <4>2. Max(S) = board[e] /\ S # {}
        BY <3>1, <4>1, MaxIs
      <4>3. board[e] = BestOf(S)
        BY <4>2 DEF BestOf
      <4> QED BY <4>3 DEF S
    <3> QED BY <3>2, <3>3 DEF LeagueInv, BestAttempt
  <2>2. LedgerMatchesPurchases
    BY DEF LeagueInv, LedgerOf, LedgerMatchesPurchases, Paid
  <2> QED BY <2>1, <2>2
<1> QED BY LeagueStarts, <1>1, <1>2, PTL DEF LeagueSpec

HIDE LeagueAssumption

---------------------------------------------------------------------------
(* The memory palace: a walk over tunnels.  The queue spans two distances, *)
(* and all that is nearer than its oldest has been reached.                *)

USE MemoryAssumption

Beside(dev, S) == {u \in Wings : \E v \in S : Linked(dev, v, u)}

\* The recursion of Within has a solution, and Within is one.
LEMMA WithinUnfolds ==
  ASSUME NEW dev, NEW w \in Wings
  PROVE  /\ Within(dev, w) \in [0..Depth -> SUBSET Wings]
         /\ Within(dev, w)[0] = {w}
         /\ \A n \in 1..Depth :
              Within(dev, w)[n] = Within(dev, w)[n - 1] \cup Beside(dev, Within(dev, w)[n - 1])
<1> DEFINE X == SUBSET Wings
           step == [S \in X |-> S \cup Beside(dev, S)]
           IsNear(g) == g = [n \in 0..Depth |-> IF n = 0 THEN {w}
                                 ELSE g[n - 1] \cup {u \in Wings : \E v \in g[n - 1] : Linked(dev, v, u)}]
           W == CHOOSE g : IsNear(g)
<1>1. Within(dev, w) = W
  BY DEF Within
<1>2. {w} \in X /\ step \in [X -> X] /\ \A S \in X : step[S] = S \cup Beside(dev, S)
  BY DEF Beside
<1> HIDE DEF step
<1>3. PICK f \in [0..Depth -> X] : f[0] = {w} /\ \A k \in 1..Depth : f[k] = step[f[k - 1]]
  <2> DEFINE base == {w}
  <2>1. base \in X /\ step \in [X -> X] /\ Depth \in Nat
    BY <1>2
  <2> HIDE DEF X, base
  <2>2. PICK f : Iteration(f, Depth, X, base, step)
    BY <2>1, Iterates
  <2> QED BY <2>2 DEF Iteration, base
<1>4. IsNear(f)
  <2> DEFINE h == [n \in 0..Depth |-> IF n = 0 THEN {w}
                     ELSE f[n - 1] \cup {u \in Wings : \E v \in f[n - 1] : Linked(dev, v, u)}]
  <2>1. \A n \in 0..Depth : f[n] = h[n]
    <3> TAKE n \in 0..Depth
    <3>1. CASE n = 0
      BY <1>3, <3>1
    <3>2. CASE n # 0
      <4>1. n \in 1..Depth /\ n - 1 \in 0..Depth
        BY <3>2
      <4>2. f[n - 1] \in X /\ f[n] = step[f[n - 1]]
        BY <1>3, <4>1
      <4> QED BY <1>2, <3>2, <4>2 DEF Beside
    <3> QED BY <3>1, <3>2
  <2> QED BY <1>3, <2>1
<1>5. IsNear(W)
  BY <1>4, ZenonT(60)
<1>6. /\ W[0] = {w}
      /\ \A n \in 1..Depth : W[n] = W[n - 1] \cup Beside(dev, W[n - 1])
      /\ DOMAIN W = 0..Depth
      /\ W = [n \in 0..Depth |-> W[n]]
  <2> HIDE DEF W
  <2>1. 0 \in 0..Depth /\ \A n \in 1..Depth : n \in 0..Depth /\ n # 0
    OBVIOUS
  <2> QED BY <1>5, <2>1 DEF Beside
<1> HIDE DEF W, IsNear
<1>7. \A n \in 0..Depth : n \in {k \in 0..Depth : W[k] \in X}
  <2> DEFINE T == {k \in 0..Depth : W[k] \in X}
  <2>1. 0 \in T
    BY <1>6
  <2>2. \A k \in 0..Depth : k # Depth /\ k \in T => k + 1 \in T
    <3> SUFFICES ASSUME NEW k \in 0..Depth, k # Depth, k \in T PROVE k + 1 \in T
      OBVIOUS
    <3>1. k + 1 \in 1..Depth /\ (k + 1) - 1 = k /\ k + 1 \in 0..Depth
      OBVIOUS
    <3>2. W[k + 1] = W[k] \cup Beside(dev, W[k])
      BY <1>6, <3>1
    <3> QED BY <3>1, <3>2 DEF Beside
  <2> HIDE DEF T
  <2>3. \A n \in 0..Depth : n \in T
    BY <2>1, <2>2, CountingUp
  <2> QED BY <2>3 DEF T
<1> QED BY <1>1, <1>6, <1>7

\* Wings within a distance are within every greater one.
LEMMA WithinGrows ==
  ASSUME NEW dev, NEW w \in Wings, NEW m \in 0..Depth, NEW n \in 0..Depth, m =< n
  PROVE  Within(dev, w)[m] \subseteq Within(dev, w)[n]
<1> DEFINE W == Within(dev, w)
           T == {k \in 0..Depth : m =< k => W[m] \subseteq W[k]}
<1>1. \A k \in 1..Depth : W[k - 1] \subseteq W[k]
  BY WithinUnfolds
<1>2. 0 \in T
  OBVIOUS
<1>3. \A k \in 0..Depth : k # Depth /\ k \in T => k + 1 \in T
  <2> SUFFICES ASSUME NEW k \in 0..Depth, k # Depth, k \in T PROVE k + 1 \in T
    OBVIOUS
  <2>1. k + 1 \in 1..Depth /\ (k + 1) - 1 = k /\ k + 1 \in 0..Depth
    OBVIOUS
  <2>2. W[k] \subseteq W[k + 1]
    BY <1>1, <2>1
  <2>3. CASE m = k + 1
    BY <2>1, <2>3
  <2>4. CASE m # k + 1
    BY <2>1, <2>2, <2>4
  <2> QED BY <2>3, <2>4
<1> HIDE DEF T
<1>4. n \in T
  BY <1>2, <1>3, CountingUp
<1> QED BY <1>4 DEF T

Walking == [pc : {"walking", "done"}, dev : Devs, start : Wings,
            queue : Seq(Found), reached : SUBSET Found, still : BOOLEAN]

\* What a walk has reached, it has at its distance; ...
AtDistance(r) == \A f \in r.reached :
    /\ f.wing \in Within(r.dev, r.start)[f.depth]
    /\ f.depth > 0 => f.wing \notin Within(r.dev, r.start)[f.depth - 1]
\* ... the queue is ordered by distance, and spans two of them at most; ...
QueueOrdered(r) == \A i \in 1..Len(r.queue) :
    /\ r.queue[i] \in r.reached
    /\ r.queue[i].depth =< r.queue[1].depth + 1
    /\ \A j \in i..Len(r.queue) : r.queue[i].depth =< r.queue[j].depth
\* ... nothing is farther than the oldest in the queue by more than one; ...
Near(r) == r.queue # <<>> => \A f \in r.reached : f.depth =< r.queue[1].depth + 1
Has(r, w, n) == \E f \in r.reached : f.wing = w /\ f.depth =< n
\* ... what has left the queue has its neighbours reached; ...
Closed(r) == \A f \in r.reached :
    \/ \E i \in 1..Len(r.queue) : r.queue[i] = f
    \/ f.depth = Depth
    \/ \A u \in Beside(r.dev, {f.wing}) : Has(r, u, f.depth + 1)
\* ... and all that is as near as the oldest in the queue has been reached.
Covered(r, n) == \A w \in Within(r.dev, r.start)[n] : Has(r, w, n)
Walked(r) ==
    /\ AtDistance(r) /\ QueueOrdered(r) /\ Near(r) /\ Closed(r)
    /\ Covered(r, 0)
    /\ r.queue # <<>> => \A n \in 0..(r.queue[1].depth) : Covered(r, n)

\* A walk begins at its wing, at distance 0.
LEMMA WalkStarts ==
  ASSUME NEW dev \in Devs, NEW w \in Wings, NEW r,
         r = [pc |-> "walking", dev |-> dev, start |-> w, still |-> TRUE,
              queue |-> <<[wing |-> w, depth |-> 0]>>,
              reached |-> {[wing |-> w, depth |-> 0]}]
  PROVE  r \in Walking /\ Walked(r)
<1> DEFINE f == [wing |-> w, depth |-> 0]
<1>1. f \in Found /\ f.wing = w /\ f.depth = 0
  BY DEF Found
<1> HIDE DEF f
<1>2. r.queue = <<f>> /\ r.reached = {f} /\ r.dev = dev /\ r.start = w
  BY DEF f
<1>3. <<f>> \in Seq(Found) /\ Len(<<f>>) = 1 /\ <<f>>[1] = f /\ <<f>> # <<>>
  BY <1>1
<1>4. r \in Walking
  BY <1>1, <1>2, <1>3 DEF Walking, f
<1>5. Within(dev, w)[0] = {w}
  BY WithinUnfolds
<1>6. AtDistance(r)
  BY <1>1, <1>2, <1>5 DEF AtDistance
<1>7. QueueOrdered(r) /\ Near(r) /\ Closed(r)
  BY <1>1, <1>2, <1>3 DEF QueueOrdered, Near, Closed
<1>8. Covered(r, 0)
  BY <1>1, <1>2, <1>5 DEF Covered, Has
<1>9. \A n \in 0..(r.queue[1].depth) : n = 0
  BY <1>1, <1>2, <1>3
<1> QED BY <1>4, <1>6, <1>7, <1>8, <1>9 DEF Walked

\* What one turn of the loop makes of a walk: next is what it found, in the order
\* of found.
Turn(r, next, found) ==
    [r EXCEPT !.queue = Tail(r.queue) \o found, !.reached = r.reached \cup next]
Finds(r, next, found) ==
    /\ next \subseteq Found /\ found \in Seq(Found)
    /\ \A i \in 1..Len(found) : found[i] \in next
    /\ \A f \in next : \E i \in 1..Len(found) : found[i] = f
    /\ IF r.queue[1].depth = Depth THEN next = {}
       ELSE next = {[wing |-> u, depth |-> r.queue[1].depth + 1] :
                       u \in Beside(r.dev, {r.queue[1].wing}) \ {f.wing : f \in r.reached}}

\* One turn takes the oldest of the queue and appends what it found.
LEMMA QueueTurns ==
  ASSUME NEW r \in Walking, r.queue # <<>>, NEW next, NEW found, Finds(r, next, found)
  PROVE  LET n == Turn(r, next, found)
             old == Len(r.queue) - 1
         IN  /\ n \in Walking
             /\ n.dev = r.dev /\ n.start = r.start /\ n.still = r.still
             /\ n.reached = r.reached \cup next
             /\ old \in Nat /\ Len(n.queue) \in Nat /\ Len(found) \in Nat
             /\ Len(n.queue) = old + Len(found)
             /\ \A i \in 1..old : n.queue[i] = r.queue[i + 1]
             /\ \A i \in 1..Len(found) : n.queue[old + i] = found[i]
             /\ \A i \in 1..Len(n.queue) : i \notin 1..old => i - old \in 1..Len(found)
<1> DEFINE n == Turn(r, next, found)
           rest == Tail(r.queue)
           old == Len(r.queue) - 1
<1>1. r.queue \in Seq(Found) /\ r.reached \subseteq Found
  BY DEF Walking
<1>2. rest \in Seq(Found) /\ Len(rest) = old /\ \A i \in 1..Len(rest) : rest[i] = r.queue[i + 1]
  BY <1>1, HeadTailProperties
<1>3. found \in Seq(Found) /\ next \subseteq Found
  BY DEF Finds
<1>4. Len(rest) \in Nat /\ Len(found) \in Nat
  BY <1>2, <1>3, LenProperties
<1> HIDE DEF rest
<1>5. /\ rest \o found \in Seq(Found)
      /\ Len(rest \o found) = old + Len(found)
      /\ \A i \in 1..(old + Len(found)) :
           (rest \o found)[i] = IF i <= old THEN rest[i] ELSE found[i - old]
  <2>1. /\ rest \o found \in Seq(Found)
        /\ Len(rest \o found) = Len(rest) + Len(found)
        /\ \A i \in 1..(Len(rest) + Len(found)) :
             (rest \o found)[i] = IF i <= Len(rest) THEN rest[i] ELSE found[i - Len(rest)]
    BY <1>2, <1>3, ConcatProperties
  <2> HIDE DEF old
  <2> QED BY <1>2, <2>1
<1>6. /\ n \in Walking /\ n.dev = r.dev /\ n.start = r.start /\ n.still = r.still
      /\ n.reached = r.reached \cup next /\ n.queue = rest \o found
  BY <1>1, <1>3, <1>5 DEF Turn, Walking, rest
<1> HIDE DEF n
<1>7. \A i \in 1..old : n.queue[i] = r.queue[i + 1]
  BY <1>2, <1>4, <1>5, <1>6
<1>8. \A i \in 1..Len(found) : n.queue[old + i] = found[i]
  <2> TAKE i \in 1..Len(found)
  <2>1. old + i \in 1..(old + Len(found)) /\ ~(old + i <= old) /\ (old + i) - old = i
    BY <1>2, <1>4
  <2> QED BY <1>5, <1>6, <2>1
<1>9. \A i \in 1..Len(n.queue) : i \notin 1..old => i - old \in 1..Len(found)
  BY <1>2, <1>4, <1>5, <1>6
<1>10. old \in Nat /\ Len(n.queue) \in Nat /\ Len(n.queue) = old + Len(found)
  BY <1>2, <1>4, <1>5, <1>6
<1> QED BY <1>4, <1>6, <1>7, <1>8, <1>9, <1>10 DEF n

\* One turn of a walk keeps queue, reached wings and distances in order.
LEMMA WalkTurns ==
  ASSUME NEW r \in Walking, Walked(r), r.queue # <<>>, NEW next, NEW found,
         Finds(r, next, found)
  PROVE  Turn(r, next, found) \in Walking /\ Walked(Turn(r, next, found))
<1> DEFINE n == Turn(r, next, found)
           old == Len(r.queue) - 1
           at == r.queue[1]
           W == Within(r.dev, r.start)
<1>1. /\ n \in Walking
      /\ n.dev = r.dev /\ n.start = r.start
      /\ n.reached = r.reached \cup next
      /\ old \in Nat /\ Len(n.queue) \in Nat /\ Len(found) \in Nat
      /\ Len(n.queue) = old + Len(found)
      /\ \A i \in 1..old : n.queue[i] = r.queue[i + 1]
      /\ \A i \in 1..Len(found) : n.queue[old + i] = found[i]
      /\ \A i \in 1..Len(n.queue) : i \notin 1..old => i - old \in 1..Len(found)
  BY QueueTurns
<1> HIDE DEF n
<1>2. /\ r.reached \subseteq Found /\ next \subseteq Found /\ r.start \in Wings
      /\ Len(r.queue) \in Nat /\ Len(r.queue) = old + 1 /\ 1 \in 1..Len(r.queue)
  BY <1>1, LenProperties DEF Walking, Finds
<1> HIDE DEF old
<1>3. at \in r.reached /\ at \in Found /\ at.depth \in 0..Depth /\ at.wing \in Wings
  BY <1>2 DEF Walked, QueueOrdered, Found
<1> DEFINE d == at.depth
<1>4. PICK e \in 0..Depth : e = d
  BY <1>3
<1>5. \A f \in n.reached : f.depth \in 0..Depth /\ f.wing \in Wings
  BY <1>1, <1>2 DEF Found
<1>6. \A f \in next : f.depth = e + 1 /\ e + 1 \in 1..Depth /\ e # Depth /\ (e + 1) - 1 = e
                      /\ f.wing \in Beside(r.dev, {at.wing})
                      /\ f.wing \notin {g.wing : g \in r.reached}
  <2> TAKE f \in next
  <2>1. d # Depth
    BY DEF Finds
  <2>2. PICK u \in Beside(r.dev, {at.wing}) \ {g.wing : g \in r.reached} :
          f = [wing |-> u, depth |-> d + 1]
    <3>1. next = {[wing |-> u, depth |-> d + 1] :
                    u \in Beside(r.dev, {at.wing}) \ {g.wing : g \in r.reached}}
      BY <2>1 DEF Finds
    <3> HIDE DEF d, at
    <3> QED BY <3>1
  <2> QED BY <1>4, <2>1, <2>2
<1>7. \A f \in r.reached : f.depth =< e + 1
  BY <1>4 DEF Walked, Near
<1>8. \A i \in 1..Len(r.queue) : r.queue[i] \in r.reached /\ e =< r.queue[i].depth
  BY <1>2, <1>4 DEF Walked, QueueOrdered
<1>9. \A i \in 1..Len(n.queue) :
        /\ n.queue[i] \in n.reached /\ n.queue[i].depth \in 0..Depth
        /\ e =< n.queue[i].depth /\ n.queue[i].depth =< e + 1
  <2> TAKE i \in 1..Len(n.queue)
  <2>1. CASE i \in 1..old
    <3>1. i + 1 \in 1..Len(r.queue) /\ n.queue[i] = r.queue[i + 1]
      BY <1>1, <1>2, <2>1, SMTT(30)
    <3> QED BY <1>1, <1>5, <1>7, <1>8, <3>1
  <2>2. CASE i \notin 1..old
    <3>1. i - old \in 1..Len(found) /\ old + (i - old) = i
      BY <1>1, <2>2
    <3>2. n.queue[i] = found[i - old] /\ found[i - old] \in next
      BY <1>1, <3>1 DEF Finds
    <3>3. n.queue[i].depth = e + 1 /\ n.queue[i] \in n.reached
      BY <1>1, <1>6, <3>2
    <3> QED BY <1>5, <3>3
  <2> QED BY <2>1, <2>2
<1>10. ASSUME NEW i \in 1..Len(n.queue), NEW j \in i..Len(n.queue)
       PROVE  n.queue[i].depth =< n.queue[j].depth
  <2>1. j \in 1..Len(n.queue)
    BY <1>1
  <2>2. CASE j \in 1..old
    <3>1. /\ i + 1 \in 1..Len(r.queue) /\ j + 1 \in (i + 1)..Len(r.queue)
          /\ n.queue[i] = r.queue[i + 1] /\ n.queue[j] = r.queue[j + 1]
      <4>1. i \in 1..old
        BY <1>1, <2>2
      <4> QED BY <1>1, <1>2, <2>2, <4>1
    <3> QED BY <3>1 DEF Walked, QueueOrdered
  <2>3. CASE j \notin 1..old
    <3>1. j - old \in 1..Len(found) /\ old + (j - old) = j
      BY <1>1, <2>1, <2>3
    <3>2. n.queue[j] = found[j - old] /\ found[j - old] \in next
      BY <1>1, <3>1 DEF Finds
    <3>3. n.queue[j].depth = e + 1
      BY <1>6, <3>2
    <3> QED BY <1>9, <3>3
  <2> QED BY <2>2, <2>3
<1>11. n.queue # <<>> => 1 \in 1..Len(n.queue)
  BY <1>1, EmptySeq DEF Walking
<1>12. QueueOrdered(n)
  <2>1. ASSUME NEW i \in 1..Len(n.queue) PROVE n.queue[i].depth =< n.queue[1].depth + 1
    <3>1. 1 \in 1..Len(n.queue)
      BY <1>1
    <3> QED BY <1>9, <3>1
  <2> QED BY <1>9, <1>10, <2>1 DEF QueueOrdered
<1>13. Near(n)
  <2> SUFFICES ASSUME n.queue # <<>>, NEW f \in n.reached PROVE f.depth =< n.queue[1].depth + 1
    BY DEF Near
  <2>1. f.depth =< e + 1
    BY <1>1, <1>6, <1>7
  <2>2. e =< n.queue[1].depth /\ n.queue[1].depth \in 0..Depth
    BY <1>9, <1>11
  <2> QED BY <1>5, <2>1, <2>2
<1>14. ASSUME NEW w, NEW m \in 0..Depth, Has(r, w, m) PROVE Has(n, w, m)
  BY <1>1, <1>14 DEF Has
<1>15. ASSUME NEW m \in 0..e PROVE Covered(n, m)
  <2>1. Covered(r, m)
    BY <1>4 DEF Walked
  <2> QED BY <1>1, <1>4, <1>14, <2>1 DEF Covered
<1>16. AtDistance(n)
  <2> SUFFICES ASSUME NEW f \in n.reached
               PROVE  /\ f.wing \in W[f.depth]
                      /\ f.depth > 0 => f.wing \notin W[f.depth - 1]
    BY <1>1 DEF AtDistance
  <2>1. CASE f \in r.reached
    BY <2>1 DEF Walked, AtDistance
  <2>2. CASE f \in next
    <3>1. /\ f.depth = e + 1 /\ e + 1 \in 1..Depth /\ (e + 1) - 1 = e
          /\ f.wing \in Beside(r.dev, {at.wing}) /\ f.wing \notin {g.wing : g \in r.reached}
      BY <1>6, <2>2
    <3>2. at.wing \in W[e]
      BY <1>3, <1>4 DEF Walked, AtDistance
    <3>3. f.wing \in Beside(r.dev, W[e])
      BY <3>1, <3>2 DEF Beside
    <3>4. W[e + 1] = W[e] \cup Beside(r.dev, W[e])
      BY <1>2, <3>1, WithinUnfolds
    <3>5. f.wing \notin W[e]
      <4> SUFFICES ASSUME f.wing \in W[e] PROVE FALSE
        OBVIOUS
      <4>1. e \in 0..r.queue[1].depth
        BY <1>4
      <4>2. Covered(r, e)
        BY <4>1 DEF Walked
      <4>3. PICK g \in r.reached : g.wing = f.wing
        BY <4>2 DEF Covered, Has
      <4> QED BY <3>1, <4>3
    <3> QED BY <3>1, <3>3, <3>4, <3>5
  <2> QED BY <1>1, <2>1, <2>2
<1>17. Closed(n)
  <2> SUFFICES ASSUME NEW f \in n.reached,
                      \A i \in 1..Len(n.queue) : n.queue[i] # f, f.depth # Depth,
                      NEW u \in Beside(r.dev, {f.wing})
               PROVE  Has(n, u, f.depth + 1)
    BY <1>1 DEF Closed
  <2>1. f \notin next
    <3> SUFFICES ASSUME f \in next PROVE FALSE
      OBVIOUS
    <3>1. PICK i \in 1..Len(found) : found[i] = f
      BY DEF Finds
    <3>2. old + i \in 1..Len(n.queue) /\ n.queue[old + i] = f
      BY <1>1, <3>1
    <3> QED BY <3>2
  <2>2. f \in r.reached /\ f.depth \in 0..Depth /\ f.depth + 1 \in 0..Depth
    BY <1>1, <1>5, <2>1
  <2>3. ASSUME NEW i \in 1..Len(r.queue), r.queue[i] = f PROVE f = at
    <3> SUFFICES ASSUME i # 1 PROVE FALSE
      BY <2>3
    <3>1. i - 1 \in 1..old /\ (i - 1) + 1 = i /\ i - 1 \in 1..Len(n.queue)
      BY <1>1, <1>2
    <3>2. n.queue[i - 1] = f
      BY <1>1, <2>3, <3>1
    <3> QED BY <3>1, <3>2
  <2>4. CASE f = at
    <3>1. CASE u \in {g.wing : g \in r.reached}
      <4>1. PICK g \in r.reached : g.wing = u
        BY <3>1
      <4>2. g.depth =< e + 1 /\ f.depth = e
        BY <1>4, <1>7, <2>4
      <4> QED BY <1>1, <4>1, <4>2 DEF Has
    <3>2. CASE u \notin {g.wing : g \in r.reached}
      <4> DEFINE g == [wing |-> u, depth |-> d + 1]
      <4>1. g \in next
        BY <2>4, <3>2 DEF Finds
      <4>2. g.wing = u /\ g.depth = d + 1
        OBVIOUS
      <4> HIDE DEF g
      <4>3. g \in n.reached /\ g.depth =< f.depth + 1
        BY <1>1, <2>2, <2>4, <4>1, <4>2
      <4> QED BY <4>2, <4>3 DEF Has
    <3> QED BY <3>1, <3>2
  <2>5. CASE f # at
    <3>1. Has(r, u, f.depth + 1)
      BY <2>2, <2>3, <2>5 DEF Walked, Closed
    <3> QED BY <1>14, <2>2, <3>1
  <2> QED BY <2>4, <2>5
<1>18. ASSUME n.queue # <<>>, NEW m \in 0..(n.queue[1].depth) PROVE Covered(n, m)
  <2>1. 1 \in 1..Len(n.queue)
    BY <1>11, <1>18
  <2>2. e =< n.queue[1].depth /\ n.queue[1].depth =< e + 1 /\ n.queue[1].depth \in 0..Depth
    BY <1>9, <2>1
  <2>3. CASE m =< e
    <3>1. m \in 0..e
      BY <2>2, <2>3
    <3> QED BY <1>15, <3>1
  <2>4. CASE ~(m =< e)
    <3>1. m = e + 1 /\ n.queue[1].depth = e + 1 /\ e + 1 \in 1..Depth /\ (e + 1) - 1 = e /\ e # Depth
      BY <2>2, <2>4
    <3>2. W[e + 1] = W[e] \cup Beside(r.dev, W[e])
      BY <1>2, <3>1, WithinUnfolds
    <3>3. Covered(n, e)
      BY <1>15
    <3> SUFFICES ASSUME NEW w \in W[e + 1] PROVE Has(n, w, e + 1)
      BY <1>1, <3>1 DEF Covered
    <3>4. CASE w \in W[e]
      <4>1. PICK g \in n.reached : g.wing = w /\ g.depth =< e
        BY <1>1, <3>3, <3>4 DEF Covered, Has
      <4>2. g.depth =< e + 1
        BY <1>5, <4>1
      <4> QED BY <4>1, <4>2 DEF Has
    <3>5. CASE w \in Beside(r.dev, W[e])
      <4>1. PICK v \in W[e] : Linked(r.dev, v, w)
        BY <3>5 DEF Beside
      <4>2. PICK g \in n.reached : g.wing = v /\ g.depth =< e
        BY <1>1, <3>3, <4>1 DEF Covered, Has
      <4>3. g.depth \in 0..Depth /\ g.depth # Depth
        BY <1>5, <3>1, <4>2
      <4>4. \A i \in 1..Len(n.queue) : n.queue[i] # g
        <5> SUFFICES ASSUME NEW i \in 1..Len(n.queue), n.queue[i] = g PROVE FALSE
          OBVIOUS
        <5>1. i \in 1..Len(n.queue) /\ n.queue[1].depth =< n.queue[i].depth
          BY <1>10, <2>1
        <5> QED BY <3>1, <4>2, <4>3, <5>1
      <4>5. w \in Beside(n.dev, {g.wing})
        BY <1>1, <3>5, <4>1, <4>2 DEF Beside
      <4>6. Has(n, w, g.depth + 1)
        BY <1>17, <4>3, <4>4, <4>5 DEF Closed
      <4>7. PICK h \in n.reached : h.wing = w /\ h.depth =< g.depth + 1
        BY <4>6 DEF Has
      <4>8. h.depth =< e + 1
        BY <1>5, <4>2, <4>3, <4>7
      <4> QED BY <4>7, <4>8 DEF Has
    <3> QED BY <3>2, <3>4, <3>5
  <2> QED BY <2>3, <2>4
<1>19. Covered(n, 0)
  BY <1>4, <1>15
<1>20. Walked(n)
  BY <1>12, <1>13, <1>16, <1>17, <1>18, <1>19 DEF Walked
<1> QED BY <1>1, <1>20 DEF n

HIDE MemoryAssumption

---------------------------------------------------------------------------
(* The memory palace: drawers, graph, diary, tunnels and walks.            *)

USE MemoryAssumption

\* An order of a finite set lists all of it.
LEMMA OrdersListAll ==
  ASSUME NEW S, IsFiniteSet(S), NEW q \in SetToSeqs(S)
  PROVE  /\ q \in Seq(S)
         /\ \A x \in S : \E i \in 1..Len(q) : q[i] = x
         /\ \A i \in 1..Len(q) : q[i] \in S
<1> DEFINE c == Cardinality(S)
<1>1. c \in Nat
  BY FS_CardinalityType
<1>2. q \in [1..c -> S] /\ \A i, j \in 1..c : i # j => q[i] # q[j]
  BY DEF SetToSeqs
<1>3. IsFiniteSet(1..c) /\ Cardinality(1..c) = c
  BY <1>1, FS_Interval
<1>4. q \in Injection(1..c, S)
  BY <1>2 DEF Injection, IsInjective
<1>5. q \in Surjection(1..c, S)
  BY <1>3, <1>4, FS_Injection
<1>6. q \in Seq(S) /\ Len(q) = c
  <2> HIDE DEF c
  <2> QED BY <1>1, <1>2
<1> QED BY <1>2, <1>5, <1>6 DEF Surjection

DrawerRow == [dev : Devs \cup {NoDev}, content : Contents \cup {NoText},
              vector : Contents \cup {NoText}, given : BOOLEAN]
EditRow == [pc : {"idle", "embedded", "done"}, dev : Devs \cup {NoDev},
            text : Contents \cup {NoText}]
KgNodeRow == [dev : Devs \cup {NoDev}, valid : BOOLEAN]
KgEdge == [dev : Devs \cup {NoDev}, ends : SUBSET KgNodes]
WalksOn(r) == /\ r \in Walking
              /\ r.pc = "done" => r.queue = <<>>
              /\ r.still => Walked(r)

DrawersSound == /\ drawers \in [Drawers -> DrawerRow] /\ edit \in [Edits -> EditRow]
                /\ VectorMatchesContent
KnowledgeSound == /\ kgNodes \in [KgNodes -> KgNodeRow] /\ kgEdges \in [KgEdges -> KgEdge]
                  /\ diary \in [Devs -> Contents \cup {NoText}]
TunnelsTyped == tunnels \in [Tunnels -> Tunnel \cup {NoTunnel}]
WalksSound == /\ walk = [k \in Walks |-> walk[k]]
              /\ \A k \in Walks : walk[k] = IdleWalk \/ WalksOn(walk[k])
MemoryInv == DrawersSound /\ KnowledgeSound /\ TunnelsTyped /\ WalksSound

\* At first the palace is empty.
LEMMA MemoryStarts == MemoryInit => MemoryInv
BY DEF MemoryInit, MemoryInv, DrawersSound, KnowledgeSound, TunnelsTyped, WalksSound, NoDrawer,
       DrawerRow, EditRow, KgNodeRow, KgEdge, VectorMatchesContent

\* Nothing of a walk changes while no tunnel does.
LEMMA WalksStay ==
  ASSUME WalksSound, UNCHANGED <<tunnels, walk>> PROVE WalksSound'
<1>1. \A dev, w : Within(dev, w)' = Within(dev, w)
  BY DEF Within, Linked
<1>2. \A dev, S : Beside(dev, S)' = Beside(dev, S)
  BY DEF Beside, Linked
<1>3. \A r : WalksOn(r)' <=> WalksOn(r)
  BY <1>1, <1>2 DEF WalksOn, Walked, AtDistance, QueueOrdered, Near, Closed, Covered, Has
<1> QED BY <1>3 DEF WalksSound

\* Each step on drawers preserves the invariant.
LEMMA DrawerSteps ==
  ASSUME MemoryInv, DrawerNext PROVE MemoryInv'
<1>1. UNCHANGED <<kgNodes, kgEdges, diary, tunnels, walk>>
  BY DEF DrawerNext, Embed, AddDrawer, UpdateDrawer, DeleteDrawer, ReplaceVector, knowledgeVars,
         tunnelVars
<1>2. KnowledgeSound' /\ TunnelsTyped' /\ WalksSound'
  BY <1>1, WalksStay DEF MemoryInv, KnowledgeSound, TunnelsTyped
<1>3. /\ drawers \in [Drawers -> DrawerRow] /\ edit \in [Edits -> EditRow]
      /\ \A d \in Drawers : ~drawers[d].given => drawers[d].vector = drawers[d].content
  BY DEF MemoryInv, DrawersSound, VectorMatchesContent
<1>4. DrawersSound'
  <2>1. ASSUME NEW e \in Edits, Embed(e) PROVE DrawersSound'
    <3>1. PICK dev \in Devs, text \in Contents :
            edit' = [edit EXCEPT ![e] = [pc |-> "embedded", dev |-> dev, text |-> text]]
      BY <2>1 DEF Embed
    <3>2. [pc |-> "embedded", dev |-> dev, text |-> text] \in EditRow
      BY DEF EditRow
    <3> QED BY <1>3, <2>1, <3>1, <3>2 DEF Embed, DrawersSound, VectorMatchesContent
  <2>2. ASSUME NEW e \in Edits, AddDrawer(e) \/ UpdateDrawer(e) PROVE DrawersSound'
    <3>1. edit[e] \in EditRow /\ edit[e].text \in Contents \cup {NoText}
          /\ edit[e].dev \in Devs \cup {NoDev}
      BY <1>3 DEF EditRow
    <3>2. edit' \in [Edits -> EditRow]
      <4>1. [edit[e] EXCEPT !.pc = "done"] \in EditRow
        BY <3>1 DEF EditRow
      <4>2. edit' = [edit EXCEPT ![e] = [edit[e] EXCEPT !.pc = "done"]]
        BY <1>3, <2>2 DEF AddDrawer, UpdateDrawer
      <4> QED BY <1>3, <4>1, <4>2
    <3>3. \/ drawers' = drawers
          \/ \E d \in Drawers, n \in DrawerRow : /\ drawers' = [drawers EXCEPT ![d] = n]
                                                 /\ n.vector = n.content
      <4>1. CASE AddDrawer(e)
        <5>1. PICK d \in Drawers : drawers' = [drawers EXCEPT ![d] =
                [dev |-> edit[e].dev, content |-> edit[e].text, vector |-> edit[e].text,
                 given |-> FALSE]]
          BY <4>1 DEF AddDrawer
        <5>2. [dev |-> edit[e].dev, content |-> edit[e].text, vector |-> edit[e].text,
               given |-> FALSE] \in DrawerRow
          BY <3>1 DEF DrawerRow
        <5> QED BY <5>1, <5>2
      <4>2. CASE UpdateDrawer(e)
        <5>1. PICK d \in Drawers :
                drawers' = IF drawers[d].dev # edit[e].dev THEN drawers
                     ELSE [drawers EXCEPT ![d].content = edit[e].text,
                                          ![d].vector = edit[e].text,
                                          ![d].given = FALSE]
          BY <4>2 DEF UpdateDrawer
        <5> DEFINE n == [[[drawers[d] EXCEPT !.content = edit[e].text]
                           EXCEPT !.vector = edit[e].text] EXCEPT !.given = FALSE]
        <5>2. n \in DrawerRow /\ n.vector = n.content
          BY <1>3, <3>1 DEF DrawerRow
        <5>3. drawers' = drawers \/ drawers' = [drawers EXCEPT ![d] = n]
          BY <1>3, <5>1 DEF DrawerRow
        <5> HIDE DEF n
        <5> QED BY <5>2, <5>3
      <4> QED BY <2>2, <4>1, <4>2
    <3> QED BY <1>3, <3>2, <3>3 DEF DrawersSound, VectorMatchesContent
  <2>3. ASSUME NEW dev \in Devs, NEW d \in Drawers, DeleteDrawer(dev, d) PROVE DrawersSound'
    <3>1. NoDrawer \in DrawerRow /\ NoDrawer.vector = NoDrawer.content
      BY DEF NoDrawer, DrawerRow
    <3> QED BY <1>3, <2>3, <3>1 DEF DeleteDrawer, DrawersSound, VectorMatchesContent
  <2>4. ASSUME NEW dev \in Devs, NEW d \in Drawers, ReplaceVector(dev, d) PROVE DrawersSound'
    <3>1. PICK vector \in Contents :
            drawers' = [drawers EXCEPT ![d].vector = vector, ![d].given = TRUE]
      BY <2>4 DEF ReplaceVector
    <3> DEFINE n == [[drawers[d] EXCEPT !.vector = vector] EXCEPT !.given = TRUE]
    <3>2. n \in DrawerRow /\ n.given = TRUE /\ drawers' = [drawers EXCEPT ![d] = n]
      BY <1>3, <3>1 DEF DrawerRow
    <3> HIDE DEF n
    <3>3. edit' = edit
      BY <2>4 DEF ReplaceVector
    <3> QED BY <1>3, <3>2, <3>3 DEF DrawersSound, VectorMatchesContent
  <2> QED BY <2>1, <2>2, <2>3, <2>4 DEF DrawerNext
<1> QED BY <1>2, <1>4 DEF MemoryInv

\* A walk that a changed tunnel disturbs promises nothing more.
LEMMA WalksAreDisturbed ==
  ASSUME WalksSound, walk' = Disturbed PROVE WalksSound'
<1>1. ASSUME NEW k \in Walks PROVE (walk[k] = IdleWalk \/ WalksOn(walk[k]))'
  <2>1. PICK r : walk[k] = r
    OBVIOUS
  <2>2. CASE r = IdleWalk
    <3>1. walk'[k] = IdleWalk
      BY <2>1, <2>2 DEF Disturbed, IdleWalk
    <3> QED BY <3>1
  <2>3. CASE r # IdleWalk
    <3> DEFINE n == [r EXCEPT !.still = FALSE]
    <3>1. r \in Walking /\ (r.pc = "done" => r.queue = <<>>)
      BY <2>1, <2>3 DEF WalksSound, WalksOn
    <3>2. n \in Walking /\ (n.pc = "done" => n.queue = <<>>) /\ ~n.still
      BY <3>1 DEF Walking
    <3>3. r.pc # "idle"
      BY <3>1 DEF Walking
    <3>4. walk'[k] = n
      BY <2>1, <3>3 DEF Disturbed
    <3> HIDE DEF n
    <3>5. WalksOn(n)'
      BY <3>2 DEF WalksOn
    <3> QED BY <3>4, <3>5
  <2> QED BY <2>2, <2>3
<1> QED BY <1>1 DEF WalksSound, Disturbed

\* Each step on the knowledge graph preserves the invariant.
LEMMA KnowledgeSteps ==
  ASSUME MemoryInv, KnowledgeNext PROVE MemoryInv'
<1> PICK dev \in Devs :
      \/ \E n \in KgNodes : AddKgNode(dev, n) \/ InvalidateKgNode(dev, n)
      \/ \E e \in KgEdges : AddKgEdge(dev, e)
      \/ \E text \in Contents : WriteDiary(dev, text)
      \/ Purge(dev)
  BY DEF KnowledgeNext
<1>1. /\ kgNodes \in [KgNodes -> KgNodeRow] /\ kgEdges \in [KgEdges -> KgEdge]
      /\ diary \in [Devs -> Contents \cup {NoText}]
  BY DEF MemoryInv, KnowledgeSound
<1>2. ASSUME UNCHANGED <<drawerVars, tunnelVars>>, KnowledgeSound' PROVE MemoryInv'
  BY <1>2, WalksStay DEF MemoryInv, drawerVars, tunnelVars, DrawersSound, VectorMatchesContent,
                         TunnelsTyped
<1>3. CASE \E n \in KgNodes : AddKgNode(dev, n) \/ InvalidateKgNode(dev, n)
  <2> PICK n \in KgNodes : AddKgNode(dev, n) \/ InvalidateKgNode(dev, n)
    BY <1>3
  <2>1. [dev |-> dev, valid |-> TRUE] \in KgNodeRow /\ [kgNodes[n] EXCEPT !.valid = FALSE] \in KgNodeRow
    BY <1>1 DEF KgNodeRow
  <2>2. \/ kgNodes' = [kgNodes EXCEPT ![n] = [dev |-> dev, valid |-> TRUE]]
        \/ kgNodes' = [kgNodes EXCEPT ![n] = [kgNodes[n] EXCEPT !.valid = FALSE]]
    BY <1>1 DEF AddKgNode, InvalidateKgNode
  <2>3. kgNodes' \in [KgNodes -> KgNodeRow]
    BY <1>1, <2>1, <2>2
  <2>4. KnowledgeSound'
    BY <1>1, <2>3 DEF AddKgNode, InvalidateKgNode, KnowledgeSound
  <2> QED BY <1>2, <2>4 DEF AddKgNode, InvalidateKgNode
<1>4. CASE \E e \in KgEdges : AddKgEdge(dev, e)
  <2> PICK e \in KgEdges : AddKgEdge(dev, e)
    BY <1>4
  <2>1. PICK a \in KgNodes, b \in KgNodes :
          kgEdges' = [kgEdges EXCEPT ![e] = [dev |-> dev, ends |-> {a, b}]]
    BY DEF AddKgEdge
  <2>2. [dev |-> dev, ends |-> {a, b}] \in KgEdge
    BY DEF KgEdge
  <2>3. kgEdges' \in [KgEdges -> KgEdge]
    BY <1>1, <2>1, <2>2
  <2>4. KnowledgeSound'
    BY <1>1, <2>3 DEF AddKgEdge, KnowledgeSound
  <2> QED BY <1>2, <2>4 DEF AddKgEdge
<1>5. CASE \E text \in Contents : WriteDiary(dev, text)
  <2>1. KnowledgeSound'
    BY <1>1, <1>5 DEF WriteDiary, KnowledgeSound
  <2> QED BY <1>2, <1>5, <2>1 DEF WriteDiary
<1>6. CASE Purge(dev)
  <2>1. DrawersSound'
    <3>1. NoDrawer \in DrawerRow /\ NoDrawer.vector = NoDrawer.content
      BY DEF NoDrawer, DrawerRow
    <3>2. /\ drawers' = [d \in Drawers |-> IF drawers[d].dev = dev THEN NoDrawer ELSE drawers[d]]
          /\ edit' = edit
      BY <1>6 DEF Purge
    <3>3. /\ drawers \in [Drawers -> DrawerRow] /\ edit \in [Edits -> EditRow]
          /\ \A d \in Drawers : ~drawers[d].given => drawers[d].vector = drawers[d].content
      BY DEF MemoryInv, DrawersSound, VectorMatchesContent
    <3>4. drawers' \in [Drawers -> DrawerRow]
      BY <3>1, <3>2, <3>3
    <3>5. \A d \in Drawers : ~drawers'[d].given => drawers'[d].vector = drawers'[d].content
      BY <3>1, <3>2, <3>3
    <3> QED BY <3>2, <3>3, <3>4, <3>5 DEF DrawersSound, VectorMatchesContent
  <2>2. kgNodes' \in [KgNodes -> KgNodeRow]
    <3>1. [dev |-> NoDev, valid |-> TRUE] \in KgNodeRow
      BY DEF KgNodeRow
    <3> QED BY <1>1, <1>6, <3>1 DEF Purge
  <2>3. kgEdges' \in [KgEdges -> KgEdge]
    <3>1. [dev |-> NoDev, ends |-> {}] \in KgEdge
      BY DEF KgEdge
    <3> QED BY <1>1, <1>6, <3>1 DEF Purge
  <2>4. diary' \in [Devs -> Contents \cup {NoText}]
    BY <1>1, <1>6 DEF Purge
  <2>5. TunnelsTyped'
    <3>1. tunnels \in [Tunnels -> Tunnel \cup {NoTunnel}]
      BY DEF MemoryInv, TunnelsTyped
    <3> QED BY <1>6, <3>1 DEF Purge, TunnelsTyped
  <2>6. WalksSound'
    BY <1>6, WalksAreDisturbed DEF MemoryInv, Purge
  <2> QED BY <2>1, <2>2, <2>3, <2>4, <2>5, <2>6 DEF MemoryInv, KnowledgeSound
<1> QED BY <1>3, <1>4, <1>5, <1>6

\* find_tunnels returns what is one tunnel away.
LEMMA BeyondIsBeside ==
  ASSUME TunnelsTyped, NEW dev \in Devs, NEW w \in Wings
  PROVE  Beyond(dev, w) = Beside(dev, {w})
<1>1. \A x \in Tunnels : tunnels[x].dev = dev =>
        tunnels[x].from \in Wings /\ tunnels[x].to \in Wings
  BY DEF TunnelsTyped, Tunnel, NoTunnel
<1>2. ASSUME NEW u \in Beyond(dev, w) PROVE u \in Beside(dev, {w})
  BY <1>1, <1>2 DEF Beyond, Beside, Linked
<1>3. ASSUME NEW u \in Beside(dev, {w}) PROVE u \in Beyond(dev, w)
  <2>1. PICK x \in Tunnels :
          /\ tunnels[x].dev = dev
          /\ \/ tunnels[x].from = w /\ tunnels[x].to = u
             \/ tunnels[x].both /\ tunnels[x].from = u /\ tunnels[x].to = w
    BY DEF Beside, Linked
  <2>2. u = IF tunnels[x].from = w THEN tunnels[x].to ELSE tunnels[x].from
    BY <2>1
  <2> QED BY <2>1, <2>2 DEF Beyond
<1> QED BY <1>2, <1>3

\* One turn of a walk is a turn.
LEMMA StepIsATurn ==
  ASSUME MemoryInv, NEW k \in Walks, walk[k] \in Walking, WalkStep(k)
  PROVE  \E next, found : /\ Finds(walk[k], next, found)
                          /\ walk' = [walk EXCEPT ![k] = Turn(walk[k], next, found)]
<1> DEFINE r == walk[k]
           at == Head(r.queue)
           rest == Tail(r.queue)
           new == Beyond(r.dev, at.wing) \ {f.wing : f \in r.reached}
           next == {[wing |-> w, depth |-> at.depth + 1] : w \in new}
<1>1. r.queue # <<>> /\ r.queue \in Seq(Found) /\ r.reached \subseteq Found /\ r.dev \in Devs
  BY DEF WalkStep, Walking
<1>2. at \in Found /\ at = r.queue[1] /\ rest \in Seq(Found)
  BY <1>1, HeadTailProperties
<1>3. at.depth \in 0..Depth /\ at.wing \in Wings /\ (at.depth >= Depth <=> at.depth = Depth)
  BY <1>2 DEF Found
<1>4. IF at.depth >= Depth
        THEN walk' = [walk EXCEPT ![k].queue = rest]
        ELSE \E found \in SetToSeqs(next) :
                walk' = [walk EXCEPT ![k].queue = rest \o found,
                                     ![k].reached = @ \cup next]
  BY DEF WalkStep, StepFrom
<1>5. walk = [j \in Walks |-> walk[j]]
  BY DEF MemoryInv, WalksSound
<1>6. CASE at.depth >= Depth
  <2>1. Finds(r, {}, <<>>)
    BY <1>2, <1>3, <1>6 DEF Finds
  <2>2. Turn(r, {}, <<>>) = [r EXCEPT !.queue = rest]
    <3>1. rest \o <<>> = rest /\ r.reached \cup {} = r.reached
      BY <1>2, ConcatEmptySeq
    <3> HIDE DEF rest
    <3> QED BY <3>1 DEF Turn, Walking, rest
  <2>3. walk' = [walk EXCEPT ![k] = Turn(r, {}, <<>>)]
    BY <1>4, <1>5, <1>6, <2>2
  <2> QED BY <2>1, <2>3
<1>7. CASE ~(at.depth >= Depth)
  <2>1. PICK found \in SetToSeqs(next) :
          walk' = [walk EXCEPT ![k].queue = rest \o found, ![k].reached = @ \cup next]
    BY <1>4, <1>7
  <2>2. Beyond(r.dev, at.wing) = Beside(r.dev, {at.wing})
    BY <1>1, <1>3, BeyondIsBeside DEF MemoryInv
  <2>3. new \subseteq Wings
    BY <2>2 DEF Beside
  <2>4. next \subseteq Found
    <3>1. at.depth + 1 \in 0..Depth
      BY <1>3, <1>7
    <3> QED BY <2>3, <3>1 DEF Found
  <2>5. IsFiniteSet(next)
    <3>1. IsFiniteSet(new)
      BY <2>3, FS_Subset
    <3> DEFINE h == [w \in new |-> [wing |-> w, depth |-> at.depth + 1]]
    <3>2. h \in Surjection(new, next)
      BY DEF Surjection
    <3> QED BY <3>1, <3>2, FS_Surjection
  <2>6. next = {[wing |-> u, depth |-> r.queue[1].depth + 1] :
                  u \in Beside(r.dev, {r.queue[1].wing}) \ {f.wing : f \in r.reached}}
    BY <1>2, <2>2
  <2> HIDE DEF next
  <2>7. /\ found \in Seq(next)
        /\ \A x \in next : \E i \in 1..Len(found) : found[i] = x
        /\ \A i \in 1..Len(found) : found[i] \in next
    BY <2>1, <2>5, OrdersListAll
  <2>8. found \in Seq(Found)
    BY <2>4, <2>7, SeqMonotonic
  <2>9. r.queue[1].depth # Depth
    BY <1>2, <1>3, <1>7
  <2>10. Finds(r, next, found)
    BY <2>4, <2>6, <2>7, <2>8, <2>9 DEF Finds
  <2>11. walk' = [walk EXCEPT ![k] = Turn(r, next, found)]
    <3>1. walk' = [walk EXCEPT ![k] = [[r EXCEPT !.queue = rest \o found]
                                          EXCEPT !.reached = @ \cup next]]
      BY <1>5, <2>1
    <3> QED BY <3>1 DEF Turn, Walking
  <2> QED BY <2>10, <2>11
<1> QED BY <1>6, <1>7

\* A step that changes one walk and no tunnel.
LEMMA OneWalkMoves ==
  ASSUME MemoryInv, NEW k \in Walks, NEW n, walk' = [walk EXCEPT ![k] = n], WalksOn(n),
         UNCHANGED <<drawerVars, knowledgeVars, tunnels>>
  PROVE  MemoryInv'
<1>1. \A dev, w : Within(dev, w)' = Within(dev, w)
  BY DEF Within, Linked
<1>2. \A dev, S : Beside(dev, S)' = Beside(dev, S)
  BY DEF Beside, Linked
<1>3. \A r : WalksOn(r)' <=> WalksOn(r)
  BY <1>1, <1>2 DEF WalksOn, Walked, AtDistance, QueueOrdered, Near, Closed, Covered, Has
<1>4. WalksSound'
  <2>1. walk = [j \in Walks |-> walk[j]] /\ \A j \in Walks : walk[j] = IdleWalk \/ WalksOn(walk[j])
    BY DEF MemoryInv, WalksSound
  <2>2. /\ walk' = [j \in Walks |-> walk'[j]] /\ walk'[k] = n
        /\ \A j \in Walks \ {k} : walk'[j] = walk[j]
    BY <2>1
  <2>3. \A j \in Walks : walk'[j] = IdleWalk \/ WalksOn(walk'[j])
    BY <2>1, <2>2
  <2>4. \A j \in Walks : (walk[j] = IdleWalk \/ WalksOn(walk[j]))'
    BY <1>3, <2>3
  <2> QED BY <2>2, <2>4 DEF WalksSound
<1> QED BY <1>4 DEF MemoryInv, drawerVars, knowledgeVars, DrawersSound, VectorMatchesContent,
                    KnowledgeSound, TunnelsTyped

\* Each step on tunnels and walks preserves the invariant.
LEMMA TunnelSteps ==
  ASSUME MemoryInv, TunnelNext PROVE MemoryInv'
<1>1. ASSUME NEW dev \in Devs, NEW x \in Tunnels, CreateTunnel(dev, x) \/ DeleteTunnel(dev, x)
      PROVE  MemoryInv'
  <2>1. tunnels \in [Tunnels -> Tunnel \cup {NoTunnel}]
    BY DEF MemoryInv, TunnelsTyped
  <2>2. \E n \in Tunnel \cup {NoTunnel} : tunnels' = [tunnels EXCEPT ![x] = n]
    <3>1. CASE CreateTunnel(dev, x)
      <4>1. PICK from \in Wings, to \in Wings, both \in BOOLEAN :
              tunnels' = [tunnels EXCEPT ![x] = [dev |-> dev, from |-> from, to |-> to,
                                                 both |-> both]]
        BY <3>1 DEF CreateTunnel
      <4>2. [dev |-> dev, from |-> from, to |-> to, both |-> both] \in Tunnel
        BY DEF Tunnel
      <4> QED BY <4>1, <4>2
    <3>2. CASE DeleteTunnel(dev, x)
      BY <3>2 DEF DeleteTunnel
    <3> QED BY <1>1, <3>1, <3>2
  <2>3. TunnelsTyped'
    BY <2>1, <2>2 DEF TunnelsTyped
  <2>4. WalksSound'
    BY <1>1, WalksAreDisturbed DEF MemoryInv, CreateTunnel, DeleteTunnel
  <2>5. UNCHANGED <<drawerVars, knowledgeVars>>
    BY <1>1 DEF CreateTunnel, DeleteTunnel
  <2> QED BY <2>3, <2>4, <2>5 DEF MemoryInv, drawerVars, knowledgeVars, DrawersSound,
                                  VectorMatchesContent, KnowledgeSound
<1>2. ASSUME NEW k \in Walks, StartWalk(k) PROVE MemoryInv'
  <2>1. PICK dev \in Devs, w \in Wings :
          walk' = [walk EXCEPT ![k] =
                [pc |-> "walking", dev |-> dev, start |-> w, still |-> TRUE,
                 queue |-> <<[wing |-> w, depth |-> 0]>>,
                 reached |-> {[wing |-> w, depth |-> 0]}]]
    BY <1>2 DEF StartWalk
  <2> DEFINE n == [pc |-> "walking", dev |-> dev, start |-> w, still |-> TRUE,
                   queue |-> <<[wing |-> w, depth |-> 0]>>,
                   reached |-> {[wing |-> w, depth |-> 0]}]
  <2>2. n \in Walking /\ Walked(n) /\ n.pc = "walking"
    BY WalkStarts
  <2> HIDE DEF n
  <2>3. walk' = [walk EXCEPT ![k] = n]
    BY <2>1 DEF n
  <2> QED BY <1>2, <2>2, <2>3, OneWalkMoves DEF StartWalk, WalksOn
<1>3. ASSUME NEW k \in Walks, WalkStep(k) PROVE MemoryInv'
  <2>1. walk[k] \in Walking /\ WalksOn(walk[k]) /\ walk[k].pc = "walking" /\ walk[k].queue # <<>>
    BY <1>3 DEF WalkStep, MemoryInv, WalksSound, IdleWalk, WalksOn
  <2>2. PICK next, found : /\ Finds(walk[k], next, found)
                           /\ walk' = [walk EXCEPT ![k] = Turn(walk[k], next, found)]
    BY <1>3, <2>1, StepIsATurn
  <2>3. PICK r : r = walk[k]
    OBVIOUS
  <2>4. PICK n : n = Turn(r, next, found)
    OBVIOUS
  <2>5. n \in Walking /\ n.pc = r.pc /\ n.still = r.still
    <3>1. n \in Walking /\ n.still = r.still
      BY <2>1, <2>2, <2>3, <2>4, QueueTurns
    <3>2. n.pc = r.pc
      BY <2>1, <2>3, <2>4 DEF Turn, Walking
    <3> QED BY <3>1, <3>2
  <2>6. r.still => Walked(n)
    BY <2>1, <2>2, <2>3, <2>4, WalkTurns DEF WalksOn
  <2>7. WalksOn(n)
    BY <2>1, <2>3, <2>5, <2>6 DEF WalksOn
  <2>8. walk' = [walk EXCEPT ![k] = n]
    BY <2>2, <2>3, <2>4
  <2> QED BY <1>3, <2>7, <2>8, OneWalkMoves DEF WalkStep
<1>4. ASSUME NEW k \in Walks, EndWalk(k) PROVE MemoryInv'
  <2>1. WalksOn(walk[k]) /\ walk[k].queue = <<>> /\ walk[k] \in Walking
    BY <1>4 DEF EndWalk, MemoryInv, WalksSound, IdleWalk, WalksOn
  <2>2. PICK n : n = [walk[k] EXCEPT !.pc = "done"]
    OBVIOUS
  <2>3. /\ n \in Walking /\ n.queue = walk[k].queue /\ n.reached = walk[k].reached
        /\ n.dev = walk[k].dev /\ n.start = walk[k].start /\ n.still = walk[k].still
    BY <2>1, <2>2 DEF Walking
  <2>4. WalksOn(n)
    BY <2>1, <2>3 DEF WalksOn, Walked, AtDistance, QueueOrdered, Near, Closed, Covered, Has
  <2>5. walk' = [walk EXCEPT ![k] = n]
    <3>1. walk = [j \in Walks |-> walk[j]]
      BY DEF MemoryInv, WalksSound
    <3> QED BY <1>4, <2>2, <3>1 DEF EndWalk
  <2> QED BY <1>4, <2>4, <2>5, OneWalkMoves DEF EndWalk
<1> QED BY <1>1, <1>2, <1>3, <1>4 DEF TunnelNext

\* A walk whose queue is empty has reached all that lies within its depth.
LEMMA EmptiedQueueCovers ==
  ASSUME NEW r \in Walking, Walked(r), r.queue = <<>>
  PROVE  \A n \in 0..Depth : Covered(r, n)
<1> DEFINE T == {n \in 0..Depth : Covered(r, n)}
           W == Within(r.dev, r.start)
<1>1. 0 \in T
  BY DEF Walked
<1>2. ASSUME NEW n \in 0..Depth, n # Depth, n \in T PROVE n + 1 \in T
  <2>1. n + 1 \in 1..Depth /\ (n + 1) - 1 = n /\ n + 1 \in 0..Depth
    BY <1>2
  <2>2. W[n + 1] = W[n] \cup Beside(r.dev, W[n])
    BY <2>1, WithinUnfolds DEF Walking
  <2> SUFFICES ASSUME NEW w \in W[n + 1] PROVE Has(r, w, n + 1)
    BY <2>1 DEF Covered
  <2>3. \A f \in r.reached : f.depth \in 0..Depth
    BY DEF Walking, Found
  <2>4. CASE w \in W[n]
    <3>1. PICK g \in r.reached : g.wing = w /\ g.depth =< n
      BY <1>2, <2>4 DEF Covered, Has
    <3>2. g.depth =< n + 1
      BY <2>3, <3>1
    <3> QED BY <3>1, <3>2 DEF Has
  <2>5. CASE w \in Beside(r.dev, W[n])
    <3>1. PICK v \in W[n] : Linked(r.dev, v, w)
      BY <2>5 DEF Beside
    <3>2. PICK g \in r.reached : g.wing = v /\ g.depth =< n
      BY <1>2, <3>1 DEF Covered, Has
    <3>3. g.depth \in 0..Depth /\ g.depth # Depth
      BY <1>2, <2>3, <3>2
    <3>4. \A i \in 1..Len(r.queue) : FALSE
      OBVIOUS
    <3>5. w \in Beside(r.dev, {g.wing})
      BY <2>5, <3>1, <3>2 DEF Beside
    <3>6. Has(r, w, g.depth + 1)
      BY <3>3, <3>4, <3>5 DEF Walked, Closed
    <3>7. PICK h \in r.reached : h.wing = w /\ h.depth =< g.depth + 1
      BY <3>6 DEF Has
    <3>8. h.depth =< n + 1
      BY <2>3, <3>2, <3>7
    <3> QED BY <3>7, <3>8 DEF Has
  <2> QED BY <2>2, <2>4, <2>5
<1> HIDE DEF T
<1>3. \A n \in 0..Depth : n \in T
  BY <1>1, <1>2, CountingUp
<1> QED BY <1>3 DEF T

\* A walk whose queue is empty has found every wing within its depth.
LEMMA WalksFindDistances ==
  ASSUME MemoryInv PROVE WalkFindsDistances
<1> SUFFICES ASSUME NEW k \in Walks, walk[k].pc = "done", walk[k].still
             PROVE  walk[k].reached =
                      {f \in Found :
                        /\ f.wing \in Within(walk[k].dev, walk[k].start)[f.depth]
                        /\ f.depth > 0 =>
                              f.wing \notin Within(walk[k].dev, walk[k].start)[f.depth - 1]}
  BY DEF WalkFindsDistances
<1> DEFINE r == walk[k]
           W == Within(r.dev, r.start)
<1>1. r \in Walking /\ Walked(r) /\ r.queue = <<>> /\ r.reached \subseteq Found /\ r.start \in Wings
  BY DEF MemoryInv, WalksSound, IdleWalk, WalksOn, Walking
<1>2. \A n \in 0..Depth : Covered(r, n)
  BY <1>1, EmptiedQueueCovers
<1>3. \A f \in r.reached : /\ f \in Found /\ f.wing \in W[f.depth]
                           /\ f.depth > 0 => f.wing \notin W[f.depth - 1]
  BY <1>1 DEF Walked, AtDistance
<1>4. ASSUME NEW f \in Found, f.wing \in W[f.depth],
             f.depth > 0 => f.wing \notin W[f.depth - 1]
      PROVE  f \in r.reached
  <2>1. f.depth \in 0..Depth
    BY DEF Found
  <2>2. PICK g \in r.reached : g.wing = f.wing /\ g.depth =< f.depth
    BY <1>2, <1>4, <2>1 DEF Covered, Has
  <2>3. g \in Found /\ g.wing \in W[g.depth] /\ g.depth \in 0..Depth
    BY <1>3, <2>2 DEF Found
  <2>4. g.depth = f.depth
    <3> SUFFICES ASSUME g.depth # f.depth PROVE FALSE
      OBVIOUS
    <3>1. f.depth > 0 /\ f.depth - 1 \in 0..Depth /\ g.depth =< f.depth - 1
      BY <2>1, <2>2, <2>3
    <3>2. W[g.depth] \subseteq W[f.depth - 1]
      BY <1>1, <2>3, <3>1, WithinGrows
    <3> QED BY <1>4, <2>2, <2>3, <3>1, <3>2
  <2>5. g = f
    BY <2>2, <2>3, <2>4 DEF Found
  <2> QED BY <2>2, <2>5
<1> HIDE DEF W
<1>5. r.reached = {f \in Found : f.wing \in W[f.depth]
                                 /\ (f.depth > 0 => f.wing \notin W[f.depth - 1])}
  BY <1>3, <1>4
<1> QED BY <1>5 DEF W

\* For any developers, wings, tunnels and depth, and however adds, updates, purges
\* and changed tunnels interleave: a drawer's embedding is that of its content,
\* unless a client sent one of its own since (given), and a walk no tunnel changed
\* under finds each wing at its distance, which is that of a breadth-first search
\* (update_drawer, _follow_tunnels).
THEOREM MemoryIsSound == MemorySpec => [](MemoryTypeOK /\ MemorySound)
<1>1. MemoryInv /\ [MemoryNext]_memoryVars => MemoryInv'
  <2> SUFFICES ASSUME MemoryInv, [MemoryNext]_memoryVars PROVE MemoryInv'
    OBVIOUS
  <2>1. CASE UNCHANGED memoryVars
    BY <2>1, WalksStay DEF memoryVars, MemoryInv, DrawersSound, VectorMatchesContent,
                           KnowledgeSound, TunnelsTyped
  <2>2. CASE MemoryNext
    BY <2>2, DrawerSteps, KnowledgeSteps, TunnelSteps DEF MemoryNext
  <2> QED BY <2>1, <2>2
<1>2. MemoryInv => MemoryTypeOK /\ MemorySound
  <2> SUFFICES ASSUME MemoryInv PROVE MemoryTypeOK /\ MemorySound
    OBVIOUS
  <2>1. \A k \in Walks : walk[k].pc # "idle" => walk[k] \in Walking
    BY DEF MemoryInv, WalksSound, IdleWalk, WalksOn
  <2>2. MemoryTypeOK
    BY <2>1 DEF MemoryInv, DrawersSound, KnowledgeSound, TunnelsTyped, MemoryTypeOK, DrawerRow,
                EditRow, KgNodeRow, KgEdge, Walking
  <2> QED BY <2>2, WalksFindDistances DEF MemoryInv, DrawersSound, MemorySound
<1> QED BY MemoryStarts, <1>1, <1>2, PTL DEF MemorySpec

HIDE MemoryAssumption

---------------------------------------------------------------------------
(* Schema migrations.  Each revision finds the tables that it takes for    *)
(* granted.                                                                *)

USE MigrationsAssumption

\* The tables that later revisions take for granted, and where each is there.
Stands(t, r) ==
    \/ t \in {"api_keys", "policies", "admin_users", "developers", "sessions"} /\ r >= 1
    \/ t \in {"teams", "areas", "team_members"} /\ r >= 1 /\ r < 25
    \/ t = "users" /\ r >= 10
    \/ t = "user_roles" /\ r >= 10 /\ r < 25
    \/ t = "user_invitations" /\ r >= 11
    \/ t = "units" /\ r >= 12 /\ r < 25
    \/ t = "league_points_ledger" /\ r >= 17
    \/ t = "access_requests" /\ r >= 22
    \/ t \in {"organization_nodes", "role_assignments"} /\ r >= 25
    \/ t \in {"scan_targets", "scan_jobs"} /\ r >= 26

HasTable(s, t) == <<t, "table">> \in s
PartsHaveTables(s) == \A x \in s : HasTable(s, x[1])
Grounded(s, r) == PartsHaveTables(s) /\ \A t : Stands(t, r) => HasTable(s, t)

\* What a revision adds to a table finds it there or creates it.
LEMMA AddsHaveTables ==
  ASSUME NEW r \in 1..Latest, NEW x \in Adds(r)
  PROVE  HasTable(Adds(r), x[1]) \/ Stands(x[1], r - 1)
<1> USE DEF Latest, Tables, Of, HasTable, Stands
<1>1. CASE r = 1
  BY <1>1 DEF Adds, Baseline, OrganisationTables, UsageTables, CatalogueTables, ConsoleTables
<1>2. CASE r \in 2..9
  BY <1>2 DEF Adds, WorkflowTables, RunTables, ScopedKeys, MemoryTables, AdminMustChange,
              DeveloperMustChange, AgenticTables
<1>3. CASE r \in 10..16
  BY <1>3 DEF Adds, UserTables, InvitationTables, UnitTables, UnitParents, Entitlements,
              UnitLeads, GroupMappings
<1>4. CASE r \in 17..24
  BY <1>4 DEF Adds, LeagueTables, Locations, PasswordAge, ScimIds, Contractors,
              AccessRequests, RoleExpiry, NodeBudgets
<1>5. CASE r \in 25..36
  BY <1>5 DEF Adds, ScanTables, ChampionTables, ChampionReasons, ToolConfig, Requesterless,
              SkillTables, CacheSnapshots, LocalGroups, CacheEntries, Portraits
<1> QED BY <1>1, <1>2, <1>3, <1>4, <1>5

\* A renamed column stays in its table.
LEMMA RenameKeepsTables ==
  ASSUME NEW s, NEW table, NEW old, NEW new, old # "table", new # "table"
  PROVE  /\ PartsHaveTables(s) => PartsHaveTables(Rename(s, table, old, new))
         /\ \A t : HasTable(Rename(s, table, old, new), t) <=> HasTable(s, t)
BY DEF Rename, PartsHaveTables, HasTable

\* A dropped table leaves none of its parts behind.
LEMMA DropTakesParts ==
  ASSUME NEW s, NEW names
  PROVE  /\ PartsHaveTables(s) => PartsHaveTables(Drop(s, names))
         /\ \A t : HasTable(Drop(s, names), t) <=> HasTable(s, t) /\ t \notin names
BY DEF Drop, Owned, PartsHaveTables, HasTable

\* A revision on the way up leaves each table that Stands names for it in place.
LEMMA UpIsGrounded ==
  ASSUME NEW r \in 1..Latest, NEW s, Grounded(s, r - 1)
  PROVE  Grounded(Up(r, s), r)
<1> USE DEF Latest
<1>1. CASE r \notin {5, 25, 29, 34}
  <2>1. Up(r, s) = s \cup Adds(r)
    BY <1>1 DEF Up
  <2>2. PartsHaveTables(s \cup Adds(r))
    BY AddsHaveTables DEF Grounded, PartsHaveTables, HasTable
  <2>3. \A t : Stands(t, r) => Stands(t, r - 1) \/ HasTable(Adds(r), t)
    <3>1. CASE r = 1
      BY <3>1 DEF Stands, HasTable, Adds, Baseline, OrganisationTables, UsageTables,
                  CatalogueTables, ConsoleTables, Tables
    <3>2. CASE r \in 2..16
      BY <3>2 DEF Stands, HasTable, Adds, UserTables, InvitationTables, UnitTables, Tables
    <3>3. CASE r \in 17..36
      BY <1>1, <3>3 DEF Stands, HasTable, Adds, LeagueTables, AccessRequests, ScanTables, Tables
    <3> QED BY <3>1, <3>2, <3>3
  <2> QED BY <2>1, <2>2, <2>3 DEF Grounded, HasTable
<1>2. CASE r = 5
  <2>1. Up(r, s) = s \ {<<"policies", "unique">>}
    BY <1>2 DEF Up
  <2> QED BY <1>2, <2>1 DEF Grounded, PartsHaveTables, HasTable, Stands
<1>3. CASE r = 25
  <2>1. Up(r, s) = TeamsToNodes(s)
    BY <1>3 DEF Up
  <2> DEFINE a == Rename(s, "cost_records", "team_id", "node_id")
             b == Rename(a, "api_keys", "team_id", "node_id")
             c == Rename(b, "policies", "team_id", "node_id")
             d == Rename(c, "users", "primary_team_id", "primary_node_id")
             e == d \ {<<"access_requests", "resource_id">>}
             gone == GoneWithTeams \cup {"team_members"}
  <2>2. Up(r, s) = Drop(e, gone) \cup NodeTables
    BY <2>1 DEF TeamsToNodes
  <2>3. PartsHaveTables(d) /\ \A t : HasTable(d, t) <=> HasTable(s, t)
    <3>1. PartsHaveTables(a) /\ \A t : HasTable(a, t) <=> HasTable(s, t)
      BY RenameKeepsTables DEF Grounded
    <3> HIDE DEF a
    <3>2. PartsHaveTables(b) /\ \A t : HasTable(b, t) <=> HasTable(s, t)
      BY <3>1, RenameKeepsTables
    <3> HIDE DEF b
    <3>3. PartsHaveTables(c) /\ \A t : HasTable(c, t) <=> HasTable(s, t)
      BY <3>2, RenameKeepsTables
    <3> HIDE DEF c
    <3> QED BY <3>3, RenameKeepsTables
  <2> HIDE DEF d
  <2>4. PartsHaveTables(e) /\ \A t : HasTable(e, t) <=> HasTable(s, t)
    BY <2>3 DEF PartsHaveTables, HasTable
  <2> HIDE DEF e
  <2>5. /\ PartsHaveTables(Drop(e, gone))
        /\ \A t : HasTable(Drop(e, gone), t) <=> HasTable(s, t) /\ t \notin gone
    BY <2>4, DropTakesParts
  <2>6. \A t : Stands(t, 25) =>
           \/ Stands(t, 24) /\ t \notin gone
           \/ t \in {"organization_nodes", "role_assignments"}
    BY DEF Stands, GoneWithTeams
  <2>7. /\ HasTable(NodeTables, "organization_nodes")
        /\ HasTable(NodeTables, "role_assignments")
        /\ \A x \in NodeTables : HasTable(NodeTables, x[1]) \/ x[1] = "access_requests"
    BY DEF NodeTables, HasTable, Tables, Of
  <2>8. Stands("access_requests", 24) /\ "access_requests" \notin gone
    BY DEF Stands, GoneWithTeams
  <2> HIDE DEF gone
  <2> QED BY <1>3, <2>2, <2>5, <2>6, <2>7, <2>8 DEF Grounded, PartsHaveTables, HasTable
<1>4. CASE r = 29
  <2>1. Up(r, s) = AlignScanner(s)
    BY <1>4 DEF Up
  <2> DEFINE a == Rename(s, "scan_targets", "team_id", "node_id")
             b == Rename(a, "scan_jobs", "team_id", "node_id")
  <2>2. PartsHaveTables(a) /\ \A t : HasTable(a, t) <=> HasTable(s, t)
    BY RenameKeepsTables DEF Grounded
  <2>3. AlignScanner(s) = b \cup {<<"scan_targets", "no_node">>, <<"scan_jobs", "no_node">>,
          <<"scan_jobs", "ix_node_id">>, <<"organization_nodes", "scanner_quota">>}
    BY DEF AlignScanner
  <2> HIDE DEF a
  <2>4. PartsHaveTables(b) /\ \A t : HasTable(b, t) <=> HasTable(s, t)
    BY <2>2, RenameKeepsTables
  <2> HIDE DEF b
  <2>5. \A t : Stands(t, 29) => Stands(t, 28)
    BY DEF Stands
  <2>6. \A t \in {"scan_targets", "scan_jobs", "organization_nodes"} : Stands(t, 28)
    BY DEF Stands
  <2>7. 29 - 1 = 28
    OBVIOUS
  <2>8. \A t : Stands(t, 28) => HasTable(b, t)
    BY <1>4, <2>4, <2>7 DEF Grounded
  <2> QED BY <1>4, <2>1, <2>3, <2>4, <2>5, <2>6, <2>8 DEF Grounded, PartsHaveTables, HasTable
<1>5. CASE r = 34
  <2>1. Up(r, s) = (s \ RenamedRoles) \cup NewRoles \cup DirectGrants
    BY <1>5 DEF Up
  <2>2. \A x \in RenamedRoles \cup NewRoles \cup DirectGrants : x[1] = "role_assignments"
    BY DEF RenamedRoles, NewRoles, DirectGrants, Of
  <2>3. \A t : <<t, "table">> \notin RenamedRoles
    BY DEF RenamedRoles, Taxonomy, Of
  <2>4. Stands("role_assignments", 33)
    BY DEF Stands
  <2> QED BY <1>5, <2>1, <2>2, <2>3, <2>4 DEF Grounded, PartsHaveTables, HasTable, Stands
<1> QED BY <1>1, <1>2, <1>3, <1>4, <1>5

\* A revision on the way down takes away no table that the one before it needs.
LEMMA DownIsGrounded ==
  ASSUME NEW r \in 1..Latest, r # 25, NEW s, Grounded(s, r)
  PROVE  Grounded(Down(r, s), r - 1)
<1> USE DEF Latest
<1>1. \A t : Stands(t, r - 1) => Stands(t, r)
  BY DEF Stands
<1>2. CASE r \notin {5, 29, 34}
  <2>1. Down(r, s) = Drop(s, NewTables(r)) \ Adds(r)
    BY <1>2 DEF Down
  <2>2. \A x \in Adds(r) : x[2] = "table" => ~Stands(x[1], r - 1)
    <3>1. CASE r \in 1..9
      BY <3>1 DEF Stands, Adds, WorkflowTables, RunTables, ScopedKeys, MemoryTables,
                  AdminMustChange, DeveloperMustChange, AgenticTables, Tables, Of
    <3>2. CASE r \in 10..16
      BY <3>2 DEF Stands, Adds, UserTables, InvitationTables, UnitTables, UnitParents,
                  Entitlements, UnitLeads, GroupMappings, OldRoles, Tables, Of
    <3>3. CASE r \in 17..24
      BY <3>3 DEF Stands, Adds, LeagueTables, Locations, PasswordAge, ScimIds, Contractors,
                  AccessRequests, RoleExpiry, NodeBudgets, Tables, Of
    <3>4. CASE r \in 25..36
      BY <3>4 DEF Stands, Adds, ScanTables, ChampionTables, ChampionReasons, ToolConfig,
                  Requesterless, SkillTables, CacheSnapshots, LocalGroups, CacheEntries,
                  Portraits, Tables, Of
    <3> QED BY <3>1, <3>2, <3>3, <3>4
  <2>3. /\ \A t : <<t, "table">> \in Adds(r) => t \in NewTables(r)
        /\ \A t \in NewTables(r) : ~Stands(t, r - 1)
    BY <2>2 DEF NewTables
  <2>4. /\ PartsHaveTables(Drop(s, NewTables(r)))
        /\ \A t : HasTable(Drop(s, NewTables(r)), t) <=> HasTable(s, t) /\ t \notin NewTables(r)
    BY DropTakesParts DEF Grounded
  <2> QED BY <1>1, <2>1, <2>3, <2>4 DEF Grounded, PartsHaveTables, HasTable
<1>3. CASE r = 5
  <2>1. Down(r, s) = s \cup {<<"policies", "unique">>}
    BY <1>3 DEF Down
  <2>2. Stands("policies", 5)
    BY DEF Stands
  <2> QED BY <1>1, <1>3, <2>1, <2>2 DEF Grounded, PartsHaveTables, HasTable
<1>4. CASE r = 29
  <2>1. Down(r, s) = UnalignScanner(s)
    BY <1>4 DEF Down
  <2> DEFINE a == Rename(s, "scan_targets", "node_id", "team_id")
             b == Rename(a, "scan_jobs", "node_id", "team_id")
  <2>2. PartsHaveTables(a) /\ \A t : HasTable(a, t) <=> HasTable(s, t)
    BY RenameKeepsTables DEF Grounded
  <2>3. UnalignScanner(s) = b \ {<<"scan_targets", "no_node">>, <<"scan_jobs", "no_node">>,
          <<"scan_jobs", "ix_node_id">>, <<"organization_nodes", "scanner_quota">>}
    BY DEF UnalignScanner
  <2> HIDE DEF a
  <2>4. PartsHaveTables(b) /\ \A t : HasTable(b, t) <=> HasTable(s, t)
    BY <2>2, RenameKeepsTables
  <2> HIDE DEF b
  <2> QED BY <1>1, <2>1, <2>3, <2>4 DEF Grounded, PartsHaveTables, HasTable
<1>5. CASE r = 34
  <2>1. Down(r, s) = (s \ (NewRoles \cup DirectGrants)) \cup RenamedRoles
    BY <1>5 DEF Down
  <2>2. \A x \in RenamedRoles : x[1] = "role_assignments"
    BY DEF RenamedRoles, Of
  <2>3. \A t : <<t, "table">> \notin NewRoles \cup DirectGrants
    BY DEF NewRoles, DirectGrants, Taxonomy, Of
  <2>4. Stands("role_assignments", 34)
    BY DEF Stands
  <2> QED BY <1>1, <1>5, <2>1, <2>2, <2>3, <2>4 DEF Grounded, PartsHaveTables, HasTable
<1> QED BY <1>2, <1>3, <1>4, <1>5

\* The values some revision checks.
Admissible == Written \cup NewRoles

\* An upgrade renames roles, and only among these values.
LEMMA RowsStayAdmissible ==
  ASSUME NEW r, NEW rows, rows \subseteq Admissible, NEW s
  PROVE  RowsUp(r, rows, s) \subseteq Admissible
<1>1. ASSUME NEW x \in Admissible PROVE RenameRole(x) \in Admissible
  <2>1. CASE x[1] = "role_assignments" /\ \E t \in Taxonomy : t[1] = x[2]
    <3> DEFINE t == CHOOSE t \in Taxonomy : t[1] = x[2]
    <3>1. t \in Taxonomy
      BY <2>1
    <3>2. RenameRole(x) = <<"role_assignments", t[2]>>
      BY <2>1 DEF RenameRole
    <3> HIDE DEF t
    <3>3. <<"role_assignments", t[2]>> \in NewRoles
      BY <3>1 DEF NewRoles, Of
    <3> QED BY <3>2, <3>3 DEF Admissible
  <2>2. CASE ~(x[1] = "role_assignments" /\ \E t \in Taxonomy : t[1] = x[2])
    BY <2>2 DEF RenameRole
  <2> QED BY <2>1, <2>2
<1> QED BY <1>1 DEF RowsUp, Kept

\* What one run of alembic passes through, revision by revision.
Passed(f, r) ==
    IF r <= revision THEN [ok |-> TRUE, schema |-> schema, stored |-> present]
    ELSE LET b == f[r - 1]
         IN [ok     |-> b.ok /\ Runs(r, b.schema, b.stored),
             schema |-> Up(r, b.schema),
             stored |-> RowsUp(r, b.stored, b.schema)]
AlembicRun(f, n) == f = [r \in 0..n |-> Passed(f, r)]

\* An alembic run is the last of its passes, and they exist.
LEMMA RunToIsAlembicRun == ASSUME NEW h PROVE RunTo(h) = (CHOOSE f : AlembicRun(f, Latest))[h]
BY DEF RunTo, AlembicRun, Passed

\* The recursion of a run defines a function.
LEMMA RunsExist == revision \in Nat => \E f : AlembicRun(f, Latest)
<1> SUFFICES ASSUME revision \in Nat PROVE \E f : AlembicRun(f, Latest)
  OBVIOUS
<1> DEFINE T == {n \in 0..Latest : \E f : AlembicRun(f, n)}
<1>1. 0 \in T
  <2> DEFINE f == [r \in 0..0 |-> Passed(<<>>, r)]
  <2>1. \A r \in 0..0 : Passed(<<>>, r) = Passed(f, r)
    BY DEF Passed
  <2> QED BY <2>1 DEF AlembicRun, Latest
<1>2. ASSUME NEW n \in 0..Latest, n # Latest, n \in T PROVE n + 1 \in T
  <2>1. PICK f : AlembicRun(f, n)
    BY <1>2
  <2> DEFINE g == [r \in 0..(n + 1) |-> Passed(f, r)]
  <2>2. n \in Nat /\ n + 1 \in 0..Latest /\ \A r \in 0..(n + 1) : r # 0 => r - 1 \in 0..n
    BY <1>2 DEF Latest
  <2>3. \A r \in 0..n : g[r] = f[r]
    BY <2>1, <2>2 DEF AlembicRun
  <2>4. \A r \in 0..(n + 1) : Passed(g, r) = Passed(f, r)
    <3> TAKE r \in 0..(n + 1)
    <3>1. CASE r <= revision
      BY <3>1 DEF Passed
    <3>2. CASE ~(r <= revision)
      <4>1. r # 0
        BY <3>2
      <4>2. g[r - 1] = f[r - 1]
        BY <2>2, <2>3, <4>1
      <4> HIDE DEF g
      <4> QED BY <4>2 DEF Passed
    <3> QED BY <3>1, <3>2
  <2>5. g = [r \in 0..(n + 1) |-> Passed(g, r)]
    BY <2>4
  <2> QED BY <2>2, <2>5 DEF AlembicRun
<1> HIDE DEF T
<1>3. Latest \in Nat
  BY DEF Latest
<1>4. Latest \in T
  BY <1>1, <1>2, <1>3, CountingUp
<1> QED BY <1>4 DEF T

\* The inductive invariant.
MigrationsInv ==
    revision \in 0..Latest /\ Grounded(schema, revision) /\ present \subseteq schema \cap Admissible

\* A run that is not refused ends in a schema that is as whole, and its rows with it.
LEMMA UpgradeStep ==
  ASSUME MigrationsInv, NEW h \in Releases, Upgrade(h)
  PROVE  MigrationsInv'
<1> DEFINE f == CHOOSE f : AlembicRun(f, Latest)
<1>1. AlembicRun(f, Latest) /\ RunTo(h) = f[h]
  BY RunsExist, RunToIsAlembicRun DEF MigrationsInv
<1> HIDE DEF f
<1>2. h \in 0..Latest /\ h \in Nat /\ revision \in Nat /\ Latest \in Nat /\ h > revision
  BY DEF Upgrade, MigrationsInv, Latest
<1> DEFINE Good(k, b) == /\ Grounded(b.schema, k)
                         /\ b.ok => b.stored \subseteq b.schema \cap Admissible
                         /\ b.stored \subseteq Admissible
           T == {k \in 0..Latest : k >= revision => Good(k, f[k])}
<1>3. \A k \in 0..Latest : f[k] = Passed(f, k)
  BY <1>1 DEF AlembicRun
<1>4. Good(revision, f[revision])
  <2>1. f[revision] = Passed(f, revision)
    BY <1>2, <1>3
  <2>2. Passed(f, revision) = [ok |-> TRUE, schema |-> schema, stored |-> present]
    BY <1>2 DEF Passed
  <2> QED BY <2>1, <2>2 DEF MigrationsInv
<1>5. 0 \in T
  BY <1>2, <1>4
<1>6. ASSUME NEW k \in 0..Latest, k # Latest, k \in T PROVE k + 1 \in T
  <2>1. k \in Nat /\ k + 1 \in 1..Latest /\ k + 1 \in 0..Latest /\ (k + 1) - 1 = k
    BY <1>2, <1>6
  <2>2. CASE k + 1 <= revision
    BY <1>2, <1>4, <2>1, <2>2
  <2>3. CASE ~(k + 1 <= revision)
    <3>1. k >= revision /\ Good(k, f[k])
      BY <1>2, <1>6, <2>1, <2>3
    <3>2. /\ f[k + 1].schema = Up(k + 1, f[k].schema)
          /\ f[k + 1].ok => Runs(k + 1, f[k].schema, f[k].stored)
          /\ f[k + 1].stored = RowsUp(k + 1, f[k].stored, f[k].schema)
      <4>1. f[k + 1] = Passed(f, k + 1)
        BY <1>3, <2>1
      <4> DEFINE b == f[k]
                 ok == b.ok /\ Runs(k + 1, b.schema, b.stored)
      <4>2. Passed(f, k + 1) = [ok |-> ok, schema |-> Up(k + 1, b.schema),
                                stored |-> RowsUp(k + 1, b.stored, b.schema)]
        BY <2>1, <2>3 DEF Passed
      <4>3. ok => Runs(k + 1, b.schema, b.stored)
        OBVIOUS
      <4> HIDE DEF ok, b
      <4>4. /\ f[k + 1].ok = ok
            /\ f[k + 1].schema = Up(k + 1, b.schema)
            /\ f[k + 1].stored = RowsUp(k + 1, b.stored, b.schema)
        BY <4>1, <4>2
      <4>5. f[k + 1].ok => Runs(k + 1, b.schema, b.stored)
        BY <4>3, <4>4
      <4> QED BY <4>4, <4>5 DEF b
    <3>3. Grounded(f[k + 1].schema, k + 1)
      BY <2>1, <3>1, <3>2, UpIsGrounded
    <3>4. f[k + 1].stored \subseteq Admissible
      BY <3>1, <3>2, RowsStayAdmissible
    <3>5. f[k + 1].ok => f[k + 1].stored \subseteq f[k + 1].schema
      BY <3>2 DEF Runs
    <3> QED BY <2>1, <3>3, <3>4, <3>5
  <2> QED BY <2>2, <2>3
<1>7. \A k \in 0..Latest : k \in T
  <2> HIDE DEF T
  <2> QED BY <1>2, <1>5, <1>6, CountingUp
<1>8. Good(h, f[h])
  BY <1>2, <1>7
<1> QED BY <1>1, <1>2, <1>8 DEF Upgrade, MigrationsInv

\* However upgrades, steps back and writes follow each other, every column and
\* admitted value belongs to a table that is there, and no row holds a value its
\* table does not admit (migrations 0001 to 0036).
THEOREM SchemaIsWhole == MigrationsSpec => []MigrationsTypeOK
<1>1. MigrationsInit => MigrationsInv
  BY DEF MigrationsInit, MigrationsInv, Grounded, PartsHaveTables, Stands, Latest
<1>2. MigrationsInv /\ [MigrationsNext]_migrationVars => MigrationsInv'
  <2> SUFFICES ASSUME MigrationsInv, [MigrationsNext]_migrationVars PROVE MigrationsInv'
    OBVIOUS
  <2>1. CASE UNCHANGED migrationVars
    BY <2>1 DEF migrationVars, MigrationsInv
  <2>2. CASE Downgrade
    <3>1. revision \in 1..Latest /\ revision # 25 /\ revision - 1 \in 0..Latest
      BY <2>2 DEF Downgrade, Reverts, MigrationsInv, Latest
    <3>2. Grounded(schema', revision')
      BY <2>2, <3>1, DownIsGrounded DEF Downgrade, MigrationsInv
    <3>3. present' \subseteq schema' \cap Admissible
      BY <2>2 DEF Downgrade, Reverts, Kept, MigrationsInv
    <3> QED BY <2>2, <3>1, <3>2, <3>3 DEF Downgrade, MigrationsInv
  <2>3. ASSUME NEW x \in Written, Write(x) PROVE MigrationsInv'
    BY <2>3 DEF Write, MigrationsInv, Admissible
  <2> QED BY <2>1, <2>2, <2>3, UpgradeStep DEF MigrationsNext
<1>3. MigrationsInv => MigrationsTypeOK
  BY DEF MigrationsInv, MigrationsTypeOK, Grounded, PartsHaveTables, HasTable, Admissible
<1> QED BY <1>1, <1>2, <1>3, PTL DEF MigrationsSpec

---------------------------------------------------------------------------
(* Where a run of alembic ends.  Upgrades and steps back leave one of few  *)
(* schemas: that of a fresh chain, or that less the column which 0010      *)
(* drops though 0001 created it, or that as 0029 leaves it on the way      *)
(* down.  The later revisions even these differences out.                  *)

\* Created by 0001 and, IF NOT EXISTS, by 0010; dropped by 0010 on the way down.
Membership == <<"team_members", "user_id">>
Aligned == ({"scan_targets", "scan_jobs"} \X {"node_id", "no_node"})
           \cup {<<"scan_jobs", "ix_node_id">>, <<"organization_nodes", "scanner_quota">>}
Misaligned == {"scan_targets", "scan_jobs"} \X {"team_id"}
Possible(r, s) ==
    \/ s = Fresh[r]
    \/ r \in 1..9 /\ s = Fresh[r] \ {Membership}
    \/ r \in 26..28 /\ s = UnalignScanner(Fresh[r])

\* What a revision may leave in the schema that was not there before it.
Brings(r) ==
    CASE r = 25 -> NodeTables \cup {<<"users", "primary_node_id">>}
                   \cup ({"cost_records", "api_keys", "policies"} \X {"node_id"})
      [] r = 29 -> Aligned
      [] r = 34 -> NewRoles \cup DirectGrants
      [] OTHER  -> Adds(r)

\* A rename takes the old name out and puts the new one in, if the old one is there.
LEMMA RenameIs ==
  ASSUME NEW s, NEW table, NEW old, NEW new, old # new
  PROVE  \A x : x \in Rename(s, table, old, new) <=>
           \/ x \in s /\ x # <<table, old>>
           \/ x = <<table, new>> /\ <<table, old>> \in s
BY DEF Rename

\* The recursion that defines the schema of a fresh chain.
FreshAt(f, r) == IF r = 0 THEN {} ELSE Up(r, f[r - 1])
FreshChain(f, n) == f = [r \in 0..n |-> FreshAt(f, r)]

\* The recursion defines a function.
LEMMA FreshExists == \E f : FreshChain(f, Latest)
<1> DEFINE T == {n \in 0..Latest : \E f : FreshChain(f, n)}
<1>1. 0 \in T
  <2> DEFINE f == [r \in 0..0 |-> FreshAt(<<>>, r)]
  <2>1. \A r \in 0..0 : FreshAt(<<>>, r) = FreshAt(f, r)
    BY DEF FreshAt
  <2> QED BY <2>1 DEF FreshChain, Latest
<1>2. ASSUME NEW n \in 0..Latest, n # Latest, n \in T PROVE n + 1 \in T
  <2>1. PICK f : FreshChain(f, n)
    BY <1>2
  <2> DEFINE g == [r \in 0..(n + 1) |-> FreshAt(f, r)]
  <2>2. n \in Nat /\ n + 1 \in 0..Latest /\ \A r \in 0..(n + 1) : r # 0 => r - 1 \in 0..n
    BY <1>2 DEF Latest
  <2>3. \A r \in 0..n : g[r] = f[r]
    BY <2>1, <2>2 DEF FreshChain
  <2>4. \A r \in 0..(n + 1) : FreshAt(g, r) = FreshAt(f, r)
    <3> TAKE r \in 0..(n + 1)
    <3>1. r # 0 => g[r - 1] = f[r - 1]
      BY <2>2, <2>3
    <3> HIDE DEF g
    <3> QED BY <3>1 DEF FreshAt
  <2>5. g = [r \in 0..(n + 1) |-> FreshAt(g, r)]
    BY <2>4
  <2> QED BY <2>2, <2>5 DEF FreshChain
<1> HIDE DEF T
<1>3. Latest \in T
  BY <1>1, <1>2, CountingUp DEF Latest
<1> QED BY <1>3 DEF T

\* The schema of a fresh chain is the empty one, upgraded revision by revision.
LEMMA FreshUnfolds ==
  Fresh[0] = {} /\ \A r \in 1..Latest : Fresh[r] = Up(r, Fresh[r - 1])
<1>1. Fresh = CHOOSE f : FreshChain(f, Latest)
  BY DEF Fresh, FreshChain, FreshAt
<1>2. FreshChain(Fresh, Latest)
  BY <1>1, FreshExists
<1>3. \A r \in 0..Latest : Fresh[r] = FreshAt(Fresh, r)
  BY <1>2 DEF FreshChain
<1> QED BY <1>3 DEF FreshAt, Latest

\* A revision leaves nothing new but what it brings.
LEMMA UpBrings ==
  ASSUME NEW r \in 1..Latest, NEW s
  PROVE  Up(r, s) \subseteq s \cup Brings(r)
<1>1. CASE r \notin {25, 29}
  BY <1>1 DEF Up, Brings
<1>2. CASE r = 25
  <2> DEFINE a == Rename(s, "cost_records", "team_id", "node_id")
             b == Rename(a, "api_keys", "team_id", "node_id")
             c == Rename(b, "policies", "team_id", "node_id")
             d == Rename(c, "users", "primary_team_id", "primary_node_id")
  <2>1. Up(r, s) \subseteq d \cup NodeTables
    BY <1>2 DEF Up, TeamsToNodes, Drop
  <2>2. /\ a \subseteq s \cup {<<"cost_records", "node_id">>}
        /\ b \subseteq a \cup {<<"api_keys", "node_id">>}
        /\ c \subseteq b \cup {<<"policies", "node_id">>}
        /\ d \subseteq c \cup {<<"users", "primary_node_id">>}
    BY DEF Rename
  <2> QED BY <1>2, <2>1, <2>2 DEF Brings
<1>3. CASE r = 29
  BY <1>3 DEF Up, Brings, AlignScanner, Rename, Aligned
<1> QED BY <1>1, <1>2, <1>3

\* All that a fresh chain holds was brought by a revision.
LEMMA FreshWasBrought ==
  ASSUME NEW r \in 0..Latest, NEW x \in Fresh[r]
  PROVE  \E k \in 1..r : x \in Brings(k)
<1> DEFINE T == {n \in 0..Latest : \A y \in Fresh[n] : \E k \in 1..n : y \in Brings(k)}
<1>1. 0 \in T
  BY FreshUnfolds DEF Latest
<1>2. ASSUME NEW n \in 0..Latest, n # Latest, n \in T PROVE n + 1 \in T
  <2>1. n + 1 \in 1..Latest /\ n + 1 \in 0..Latest /\ (n + 1) - 1 = n /\ n + 1 \in 1..(n + 1)
        /\ \A k \in 1..n : k \in 1..(n + 1)
    BY <1>2 DEF Latest
  <2>2. Fresh[n + 1] \subseteq Fresh[n] \cup Brings(n + 1)
    <3>1. Fresh[n + 1] = Up(n + 1, Fresh[n])
      BY <2>1, FreshUnfolds
    <3> QED BY <2>1, <3>1, UpBrings
  <2> QED BY <1>2, <2>1, <2>2
<1>3. \A k \in 0..Latest : k \in T
  <2> HIDE DEF T
  <2> QED BY <1>1, <1>2, CountingUp DEF Latest
<1> QED BY <1>3

\* No two revisions bring the same, but for the column of team_members.
LEMMA BroughtOnce ==
  ASSUME NEW r \in 1..Latest, r \notin {25, 29}, NEW k \in 1..(r - 1), NEW x \in Brings(r),
         x \in Brings(k)
  PROVE  x = Membership /\ r = 10
BY DEF Latest, Brings, Adds, Tables, Of, Membership, Aligned,
       Baseline, OrganisationTables, UsageTables, CatalogueTables, ConsoleTables,
       WorkflowTables, RunTables, ScopedKeys, MemoryTables, AdminMustChange,
       DeveloperMustChange, AgenticTables, UserTables, InvitationTables, OldRoles, UnitTables,
       UnitParents, Entitlements, UnitLeads, GroupMappings, LeagueTables, Locations,
       PasswordAge, ScimIds, Contractors, AccessRequests, RoleExpiry, NodeBudgets, NodeTables,
       ScanTables, ChampionTables, ChampionReasons, ToolConfig, Requesterless, SkillTables,
       CacheSnapshots, LocalGroups, CacheEntries, Portraits, NewRoles, DirectGrants, Taxonomy

\* What a revision brings is not there before it, on a fresh chain.
LEMMA BroughtIsNew ==
  ASSUME NEW r \in 1..Latest, r \notin {25, 29}, NEW x \in Brings(r), x \in Fresh[r - 1]
  PROVE  x = Membership /\ r = 10
<1>1. r - 1 \in 0..Latest
  BY DEF Latest
<1>2. PICK k \in 1..(r - 1) : x \in Brings(k)
  BY <1>1, FreshWasBrought
<1> QED BY <1>2, BroughtOnce

\* No fresh chain holds the columns that 0029 renames.
LEMMA FreshIsAligned ==
  ASSUME NEW r \in 0..Latest
  PROVE  Misaligned \cap Fresh[r] = {}
<1> SUFFICES ASSUME NEW x \in Misaligned, x \in Fresh[r] PROVE FALSE
  OBVIOUS
<1>1. PICK k \in 1..r : x \in Brings(k)
  BY FreshWasBrought
<1> QED
  BY <1>1 DEF Latest, Brings, Adds, Tables, Of, Misaligned, Aligned,
       Baseline, OrganisationTables, UsageTables, CatalogueTables, ConsoleTables,
       WorkflowTables, RunTables, ScopedKeys, MemoryTables, AdminMustChange,
       DeveloperMustChange, AgenticTables, UserTables, InvitationTables, OldRoles, UnitTables,
       UnitParents, Entitlements, UnitLeads, GroupMappings, LeagueTables, Locations,
       PasswordAge, ScimIds, Contractors, AccessRequests, RoleExpiry, NodeBudgets, NodeTables,
       ScanTables, ChampionTables, ChampionReasons, ToolConfig, Requesterless, SkillTables,
       CacheSnapshots, LocalGroups, CacheEntries, Portraits, NewRoles, DirectGrants, Taxonomy

\* Every fresh chain is whole.
LEMMA FreshIsGrounded == ASSUME NEW r \in 0..Latest PROVE Grounded(Fresh[r], r)
<1> DEFINE T == {n \in 0..Latest : Grounded(Fresh[n], n)}
<1>1. 0 \in T
  BY FreshUnfolds DEF Grounded, PartsHaveTables, Stands, Latest
<1>2. ASSUME NEW n \in 0..Latest, n # Latest, n \in T PROVE n + 1 \in T
  <2>1. n + 1 \in 1..Latest /\ n + 1 \in 0..Latest /\ (n + 1) - 1 = n
    BY <1>2 DEF Latest
  <2>2. Fresh[n + 1] = Up(n + 1, Fresh[n])
    BY <2>1, FreshUnfolds
  <2> QED BY <1>2, <2>1, <2>2, UpIsGrounded
<1>3. \A k \in 0..Latest : k \in T
  <2> HIDE DEF T
  <2> QED BY <1>1, <1>2, CountingUp DEF Latest
<1> QED BY <1>3

\* The marks that later revisions look for are there where they look.
LEMMA FreshMarks ==
  /\ <<"policies", "unique">> \in Fresh[4]
  /\ Membership \in Fresh[9]
  /\ \A r \in 26..28 : Aligned \subseteq Fresh[r]
  /\ \A r \in 25..33 : RenamedRoles \subseteq Fresh[r]
<1> DEFINE Plain(r) == r \in 1..Latest /\ r \notin {5, 25, 29, 34}
<1>1. \A r : Plain(r) => Fresh[r] = Fresh[r - 1] \cup Adds(r)
  BY FreshUnfolds DEF Up
<1>2. /\ Baseline \subseteq Fresh[1]
      /\ \A r \in 2..4 : Fresh[r - 1] \subseteq Fresh[r]
  BY <1>1 DEF Adds, Latest
<1>3. Baseline \subseteq Fresh[4]
  <2>1. 2 - 1 = 1 /\ 3 - 1 = 2 /\ 4 - 1 = 3 /\ {2, 3, 4} \subseteq 2..4
    OBVIOUS
  <2> QED BY <1>2, <2>1
<1>4. Baseline \ {<<"policies", "unique">>} \subseteq Fresh[9]
  <2>1. Fresh[5] = Fresh[4] \ {<<"policies", "unique">>}
    BY FreshUnfolds DEF Up, Latest
  <2>2. \A r \in 6..9 : Fresh[r - 1] \subseteq Fresh[r]
    BY <1>1 DEF Latest
  <2>3. 6 - 1 = 5 /\ 7 - 1 = 6 /\ 8 - 1 = 7 /\ 9 - 1 = 8 /\ {6, 7, 8, 9} \subseteq 6..9
    OBVIOUS
  <2> QED BY <1>3, <2>1, <2>2, <2>3
<1>5. <<"policies", "unique">> \in Baseline /\ Membership \in Baseline
      /\ Membership # <<"policies", "unique">>
  BY DEF Baseline, UsageTables, OrganisationTables, Membership
<1>6. /\ ScanTables \subseteq Fresh[26]
      /\ Fresh[26] \subseteq Fresh[27] /\ Fresh[27] \subseteq Fresh[28]
  <2>1. Plain(26) /\ Plain(27) /\ Plain(28) /\ 27 - 1 = 26 /\ 28 - 1 = 27
    BY DEF Latest
  <2>2. Fresh[26] = Fresh[25] \cup Adds(26) /\ Fresh[27] = Fresh[26] \cup Adds(27)
        /\ Fresh[28] = Fresh[27] \cup Adds(28)
    BY <1>1, <2>1
  <2>3. Adds(26) = ScanTables
    BY DEF Adds
  <2> QED BY <2>2, <2>3
<1>7. Aligned \subseteq ScanTables
  BY DEF Aligned, ScanTables
<1>8. \A r \in 26..28 : Aligned \subseteq Fresh[r]
  BY <1>6, <1>7
<1>9. \A r \in 26..33 : RenamedRoles \subseteq Fresh[r - 1] => RenamedRoles \subseteq Fresh[r]
  <2>1. \A r \in 26..33 : r # 29 => Fresh[r - 1] \subseteq Fresh[r]
    BY <1>1 DEF Latest
  <2>2. \A x \in RenamedRoles : x[1] = "role_assignments"
    BY DEF RenamedRoles, Of
  <2>3. RenamedRoles \subseteq Fresh[28] => RenamedRoles \subseteq AlignScanner(Fresh[28])
    BY <2>2 DEF AlignScanner, Rename
  <2>4. Fresh[29] = AlignScanner(Fresh[28])
    BY FreshUnfolds DEF Up, Latest
  <2> QED BY <2>1, <2>3, <2>4
<1>10. RenamedRoles \subseteq Fresh[25]
  <2>1. NodeTables \subseteq Fresh[25]
    BY FreshUnfolds DEF Up, TeamsToNodes, Latest
  <2>2. RenamedRoles \subseteq NodeTables
    BY DEF RenamedRoles, NodeTables, Taxonomy, Of
  <2> QED BY <2>1, <2>2
<1>11. \A r \in 25..33 : RenamedRoles \subseteq Fresh[r]
  <2> DEFINE Have(r) == RenamedRoles \subseteq Fresh[r]
  <2>1. Have(25) /\ \A r \in 26..33 : Have(r - 1) => Have(r)
    BY <1>9, <1>10
  <2> HIDE DEF Have
  <2>2. Have(26) /\ Have(27) /\ Have(28) /\ Have(29)
    BY <2>1
  <2>3. Have(30) /\ Have(31) /\ Have(32) /\ Have(33)
    BY <2>1, <2>2
  <2>4. \A r \in 25..33 : Have(r)
    BY <2>1, <2>2, <2>3
  <2> QED BY <2>4 DEF Have
<1> QED BY <1>3, <1>4, <1>5, <1>8, <1>11

\* 0029 has nothing to do on a fresh chain, and undoes its own way down.
LEMMA AlignmentIs ==
  ASSUME NEW s, Aligned \subseteq s, Misaligned \cap s = {}
  PROVE  /\ AlignScanner(s) = s
         /\ AlignScanner(UnalignScanner(s)) = s
         /\ UnalignScanner(s) = (s \ Aligned) \cup Misaligned
<1> DEFINE old == <<"scan_targets", "team_id">>
           new == <<"scan_targets", "node_id">>
           old2 == <<"scan_jobs", "team_id">>
           new2 == <<"scan_jobs", "node_id">>
           marks == {<<"scan_targets", "no_node">>, <<"scan_jobs", "no_node">>,
                     <<"scan_jobs", "ix_node_id">>, <<"organization_nodes", "scanner_quota">>}
<1>1. Aligned = {new, new2} \cup marks /\ Misaligned = {old, old2}
  BY DEF Aligned, Misaligned
<1>2. old # new /\ old # new2 /\ old2 # new /\ old2 # new2 /\ old # old2 /\ new # new2
      /\ {old, old2, new, new2} \cap marks = {}
  OBVIOUS
<1>3. \A z : AlignScanner(z) =
        Rename(Rename(z, "scan_targets", "team_id", "node_id"), "scan_jobs", "team_id", "node_id")
        \cup marks
  BY DEF AlignScanner
<1>4. \A z : UnalignScanner(z) =
        Rename(Rename(z, "scan_targets", "node_id", "team_id"), "scan_jobs", "node_id", "team_id")
        \ marks
  BY DEF UnalignScanner
<1>5. /\ \A z : Rename(z, "scan_targets", "team_id", "node_id") =
           IF old \in z THEN (z \ {old}) \cup {new} ELSE z
      /\ \A z : Rename(z, "scan_jobs", "team_id", "node_id") =
           IF old2 \in z THEN (z \ {old2}) \cup {new2} ELSE z
      /\ \A z : Rename(z, "scan_targets", "node_id", "team_id") =
           IF new \in z THEN (z \ {new}) \cup {old} ELSE z
      /\ \A z : Rename(z, "scan_jobs", "node_id", "team_id") =
           IF new2 \in z THEN (z \ {new2}) \cup {old2} ELSE z
  BY DEF Rename
<1> HIDE DEF old, old2, new, new2, marks
<1>6. AlignScanner(s) = s
  BY <1>1, <1>3, <1>5
<1> DEFINE u == (s \ Aligned) \cup Misaligned
<1>7. UnalignScanner(s) = u
  <2>1. Rename(s, "scan_targets", "node_id", "team_id") = (s \ {new}) \cup {old}
    BY <1>1, <1>5
  <2>2. new2 \in (s \ {new}) \cup {old}
    BY <1>1, <1>2
  <2>3. UnalignScanner(s) = (((((s \ {new}) \cup {old}) \ {new2}) \cup {old2}) \ marks)
    BY <1>4, <1>5, <2>1, <2>2
  <2> QED BY <1>1, <1>2, <2>3
<1>8. AlignScanner(u) = s
  <2>1. old \in u /\ old2 \in u
    BY <1>1
  <2>2. Rename(u, "scan_targets", "team_id", "node_id") = (u \ {old}) \cup {new}
    BY <1>5, <2>1
  <2>3. old2 \in (u \ {old}) \cup {new}
    BY <1>2, <2>1
  <2>4. AlignScanner(u) = ((((u \ {old}) \cup {new}) \ {old2}) \cup {new2}) \cup marks
    BY <1>3, <1>5, <2>2, <2>3
  <2> QED BY <1>1, <1>2, <2>4
<1> QED BY <1>6, <1>7, <1>8

\* The fresh chain between 0026 and 0029, and what 0029 leaves of it on the way down.
LEMMA ScannerChain ==
  /\ Fresh[29] = Fresh[28]
  /\ \A r \in 26..28 : UnalignScanner(Fresh[r]) = (Fresh[r] \ Aligned) \cup Misaligned
  /\ AlignScanner(UnalignScanner(Fresh[28])) = Fresh[28]
<1>1. \A r \in 26..28 : Aligned \subseteq Fresh[r] /\ Misaligned \cap Fresh[r] = {}
  BY FreshMarks, FreshIsAligned DEF Latest
<1>2. \A r \in 26..28 : /\ AlignScanner(Fresh[r]) = Fresh[r]
                        /\ AlignScanner(UnalignScanner(Fresh[r])) = Fresh[r]
                        /\ UnalignScanner(Fresh[r]) = (Fresh[r] \ Aligned) \cup Misaligned
  BY <1>1, AlignmentIs
<1>3. Fresh[29] = AlignScanner(Fresh[28])
  BY FreshUnfolds DEF Up, Latest
<1> QED BY <1>2, <1>3

\* No revision but 0001 and 0010 brings the column of team_members, and none but 0005
\* touches the uniqueness of a policy.
LEMMA MembershipIs ==
  ASSUME NEW r \in 2..9
  PROVE  Membership \notin Adds(r)
BY DEF Membership, Adds, WorkflowTables, RunTables, ScopedKeys, MemoryTables, AdminMustChange,
       DeveloperMustChange, AgenticTables, Tables, Of

\* 0027 and 0028 do not touch what 0029 renames.
LEMMA AlignmentStays ==
  ASSUME NEW r \in 27..28
  PROVE  Adds(r) \cap (Aligned \cup Misaligned) = {}
BY DEF Adds, ChampionTables, ChampionReasons, ToolConfig, Aligned, Misaligned, Tables, Of

\* Most revisions only add.
LEMMA PlainUp ==
  ASSUME NEW r \in 1..Latest, r \notin {5, 25, 29, 34}
  PROVE  Fresh[r] = Fresh[r - 1] \cup Adds(r) /\ \A s : Up(r, s) = s \cup Adds(r)
<1>1. \A s : Up(r, s) = s \cup Adds(r)
  BY DEF Up
<1> QED BY <1>1, FreshUnfolds

\* From a possible schema each revision leads to a possible one.
LEMMA UpIsPossible ==
  ASSUME NEW r \in 1..Latest, NEW s, Possible(r - 1, s)
  PROVE  Possible(r, Up(r, s))
<1>1. r - 1 \in 0..Latest /\ r - 1 < r /\ r \in 1..36
  BY DEF Latest
<1>2. CASE s = Fresh[r - 1]
  BY <1>2, FreshUnfolds DEF Possible
<1>3. CASE r - 1 \in 1..9 /\ s = Fresh[r - 1] \ {Membership}
  <2>1. CASE r = 5
    BY <1>3, <2>1, FreshUnfolds DEF Possible, Up, Latest
  <2>2. CASE r # 5 /\ r # 10
    <3>1. r \in 2..9 /\ r \in 1..9 /\ r \notin {5, 25, 29, 34}
      BY <1>1, <1>3, <2>2
    <3>2. Up(r, s) = s \cup Adds(r) /\ Fresh[r] = Fresh[r - 1] \cup Adds(r)
      BY <3>1, PlainUp
    <3> QED BY <1>3, <3>1, <3>2, MembershipIs DEF Possible
  <2>3. CASE r = 10
    <3>1. Up(r, s) = s \cup Adds(r) /\ Fresh[r] = Fresh[r - 1] \cup Adds(r)
      BY <2>3, PlainUp
    <3>2. Membership \in Adds(10)
      BY DEF Adds, UserTables, Membership
    <3> QED BY <1>3, <2>3, <3>1, <3>2 DEF Possible
  <2> QED BY <2>1, <2>2, <2>3
<1>4. CASE r - 1 \in 26..28 /\ s = UnalignScanner(Fresh[r - 1])
  <2>1. CASE r = 29
    <3>1. Up(r, s) = AlignScanner(UnalignScanner(Fresh[28])) /\ 29 - 1 = 28
      BY <1>4, <2>1 DEF Up
    <3> QED BY <2>1, <3>1, ScannerChain DEF Possible
  <2>2. CASE r # 29
    <3>0. r \in 27..28 /\ r \in 26..28 /\ r \notin {5, 25, 29, 34}
      BY <1>1, <1>4, <2>2
    <3>1. Up(r, s) = s \cup Adds(r) /\ Fresh[r] = Fresh[r - 1] \cup Adds(r)
      BY <3>0, PlainUp
    <3>2. /\ s = (Fresh[r - 1] \ Aligned) \cup Misaligned
          /\ UnalignScanner(Fresh[r]) = (Fresh[r] \ Aligned) \cup Misaligned
      BY <1>4, <3>0, ScannerChain
    <3>3. Up(r, s) = UnalignScanner(Fresh[r])
      BY <3>0, <3>1, <3>2, AlignmentStays
    <3> QED BY <3>0, <3>3 DEF Possible
  <2> QED BY <2>1, <2>2
<1> QED BY <1>2, <1>3, <1>4 DEF Possible

\* A revision that adds nothing to what is there takes away on the way down what it added.
LEMMA DropUndoes ==
  ASSUME NEW r \in 1..Latest, r \notin {5, 25, 29, 34}
  PROVE  Drop(Fresh[r], NewTables(r)) \ Adds(r) =
           IF r = 10 THEN Fresh[r - 1] \ {Membership} ELSE Fresh[r - 1]
<1>1. r - 1 \in 0..Latest /\ Fresh[r] = Fresh[r - 1] \cup Adds(r) /\ Brings(r) = Adds(r)
  BY PlainUp DEF Latest, Brings
<1>2. \A x \in Adds(r) : x \in Fresh[r - 1] => x = Membership /\ r = 10
  BY <1>1, BroughtIsNew
<1>3. \A t \in NewTables(r) : <<t, "table">> \in Adds(r) /\ <<t, "table">> # Membership
  <2> SUFFICES ASSUME NEW t \in NewTables(r)
               PROVE  <<t, "table">> \in Adds(r) /\ <<t, "table">> # Membership
    OBVIOUS
  <2>1. PICK y \in Adds(r) : y[2] = "table" /\ y[1] = t
    BY DEF NewTables
  <2>2. <<t, "table">> # Membership
    BY DEF Membership
  <2>3. \E a, b : y = <<a, b>>
    BY DEF Latest, Adds, Tables, Of,
       Baseline, OrganisationTables, UsageTables, CatalogueTables, ConsoleTables,
       WorkflowTables, RunTables, ScopedKeys, MemoryTables, AdminMustChange,
       DeveloperMustChange, AgenticTables, UserTables, InvitationTables, OldRoles, UnitTables,
       UnitParents, Entitlements, UnitLeads, GroupMappings, LeagueTables, Locations,
       PasswordAge, ScimIds, Contractors, AccessRequests, RoleExpiry, NodeBudgets,
       ScanTables, ChampionTables, ChampionReasons, ToolConfig, Requesterless, SkillTables,
       CacheSnapshots, LocalGroups, CacheEntries, Portraits
  <2> QED BY <2>1, <2>2, <2>3
<1>4. \A x \in Fresh[r - 1] : x[1] \notin NewTables(r)
  <2> SUFFICES ASSUME NEW x \in Fresh[r - 1], x[1] \in NewTables(r) PROVE FALSE
    OBVIOUS
  <2>1. <<x[1], "table">> \in Fresh[r - 1]
    BY <1>1, FreshIsGrounded DEF Grounded, PartsHaveTables, HasTable
  <2> QED BY <1>2, <1>3, <2>1
<1>5. Drop(Fresh[r], NewTables(r)) \ Adds(r) = Fresh[r - 1] \ Adds(r)
  BY <1>1, <1>4 DEF Drop, Owned
<1>6. CASE r = 10
  <2>1. Membership \in Adds(10)
    BY DEF Adds, UserTables, Membership
  <2> QED BY <1>2, <1>5, <1>6, <2>1
<1>7. CASE r # 10
  BY <1>2, <1>5, <1>7
<1> QED BY <1>6, <1>7

\* From a possible schema a step back leads to a possible one.
LEMMA DownIsPossible ==
  ASSUME NEW r \in 1..Latest, r # 25, NEW s, Possible(r, s),
         r \in DropsStrictly => Adds(r) \subseteq s
  PROVE  Possible(r - 1, Down(r, s))
<1>1. r - 1 \in 0..Latest /\ r \in 1..36
  BY DEF Latest
<1>2. CASE s = Fresh[r]
  <2>1. CASE r \notin {5, 29, 34}
    <3>1. Down(r, s) = Drop(Fresh[r], NewTables(r)) \ Adds(r)
      BY <1>2, <2>1 DEF Down
    <3> QED BY <2>1, <3>1, DropUndoes DEF Possible
  <2>2. CASE r = 5
    <3>1. Down(r, s) = Fresh[5] \cup {<<"policies", "unique">>}
      BY <1>2, <2>2 DEF Down
    <3>2. Fresh[5] = Fresh[4] \ {<<"policies", "unique">>}
      BY FreshUnfolds DEF Up, Latest
    <3>3. Down(r, s) = Fresh[4] /\ 5 - 1 = 4
      BY <3>1, <3>2, FreshMarks
    <3> QED BY <2>2, <3>3 DEF Possible
  <2>3. CASE r = 29
    <3>1. Down(r, s) = UnalignScanner(Fresh[28]) /\ 29 - 1 = 28
      BY <1>2, <2>3, ScannerChain DEF Down
    <3> QED BY <2>3, <3>1 DEF Possible
  <2>4. CASE r = 34
    <3>1. Down(r, s) = (Fresh[34] \ (NewRoles \cup DirectGrants)) \cup RenamedRoles
      BY <1>2, <2>4 DEF Down
    <3>2. 34 - 1 = 33 /\ Fresh[34] = (Fresh[33] \ RenamedRoles) \cup NewRoles \cup DirectGrants
      BY FreshUnfolds DEF Up, Latest
    <3>3. RenamedRoles \subseteq Fresh[33]
      BY FreshMarks
    <3>4. \A x \in NewRoles \cup DirectGrants : x \notin Fresh[33]
      BY <2>4, <3>2, BroughtIsNew DEF Brings
    <3>5. Down(r, s) = Fresh[33]
      BY <3>1, <3>2, <3>3, <3>4
    <3> QED BY <2>4, <3>2, <3>5 DEF Possible
  <2> QED BY <2>1, <2>2, <2>3, <2>4
<1>3. CASE r \in 1..9 /\ s = Fresh[r] \ {Membership}
  <2>1. CASE r = 5
    <3>1. Down(r, s) = (Fresh[5] \ {Membership}) \cup {<<"policies", "unique">>}
      BY <1>3, <2>1 DEF Down
    <3>2. Fresh[5] = Fresh[4] \ {<<"policies", "unique">>}
      BY FreshUnfolds DEF Up, Latest
    <3>3. Membership # <<"policies", "unique">>
      BY DEF Membership
    <3>4. Down(r, s) = Fresh[4] \ {Membership} /\ 5 - 1 = 4
      BY <3>1, <3>2, <3>3, FreshMarks
    <3> QED BY <2>1, <3>4 DEF Possible
  <2>2. CASE r # 5
    <3>1. Down(r, s) = (Drop(Fresh[r], NewTables(r)) \ Adds(r)) \ {Membership}
      BY <1>3, <2>2 DEF Down, Drop, Owned
    <3>2. Drop(Fresh[r], NewTables(r)) \ Adds(r) = Fresh[r - 1]
      BY <1>3, <2>2, DropUndoes
    <3>3. Down(r, s) = Fresh[r - 1] \ {Membership}
      BY <3>1, <3>2
    <3>4. CASE r = 1
      BY <3>3, <3>4, FreshUnfolds DEF Possible
    <3>5. CASE r # 1
      <4>1. r - 1 \in 1..9
        BY <1>1, <1>3, <3>5
      <4> QED BY <3>3, <4>1 DEF Possible
    <3> QED BY <3>4, <3>5
  <2> QED BY <2>1, <2>2
<1>4. CASE r \in 26..28 /\ s = UnalignScanner(Fresh[r])
  <2>1. s = (Fresh[r] \ Aligned) \cup Misaligned
    BY <1>4, ScannerChain
  <2>2. CASE r = 26
    <3>1. Adds(26) = ScanTables /\ 26 \in DropsStrictly
      BY DEF Adds, DropsStrictly
    <3>2. <<"scan_targets", "node_id">> \in ScanTables
          /\ <<"scan_targets", "node_id">> \in Aligned
          /\ <<"scan_targets", "node_id">> \notin Misaligned
      BY DEF ScanTables, Aligned, Misaligned
    <3> QED BY <2>1, <2>2, <3>1, <3>2
  <2>3. CASE r # 26
    <3>1. r \in 27..28 /\ r - 1 \in 26..28 /\ r \notin {5, 25, 29, 34} /\ r # 10
      BY <1>4, <2>3
    <3>2. Down(r, s) = Drop(s, NewTables(r)) \ Adds(r)
      BY <3>1 DEF Down
    <3>3. Drop(Fresh[r], NewTables(r)) \ Adds(r) = Fresh[r - 1]
      BY <3>1, DropUndoes
    <3>4. \A x \in Misaligned : x \notin Adds(r) /\ x[1] \notin NewTables(r)
      <4>1. \A x \in Misaligned : x \notin Adds(r)
        BY <3>1, AlignmentStays
      <4>2. NewTables(r) \cap {"scan_targets", "scan_jobs"} = {}
        BY <3>1 DEF NewTables, Adds, ChampionTables, ChampionReasons, ToolConfig, Tables, Of
      <4>3. \A x \in Misaligned : x[1] \in {"scan_targets", "scan_jobs"}
        BY DEF Misaligned
      <4> QED BY <4>1, <4>2, <4>3
    <3>5. Down(r, s) = (Fresh[r - 1] \ Aligned) \cup Misaligned
      BY <2>1, <3>2, <3>3, <3>4 DEF Drop, Owned
    <3>6. Down(r, s) = UnalignScanner(Fresh[r - 1])
      BY <3>1, <3>5, ScannerChain
    <3> QED BY <3>1, <3>6 DEF Possible
  <2> QED BY <2>2, <2>3
<1> QED BY <1>2, <1>3, <1>4 DEF Possible

\* What the checked values of the rows stand on survives each revision, and what a
\* revision creates strictly is not there before it.
LEMMA PossibleRuns ==
  ASSUME NEW r \in 1..Latest, NEW s, Possible(r - 1, s),
         NEW rows, rows \subseteq s \cap Admissible
  PROVE  Runs(r, s, rows)
<1>1. r - 1 \in 0..Latest /\ r \in 1..36
  BY DEF Latest
<1>2. ASSUME r \in CreatesStrictly PROVE Adds(r) \cap s = {}
  <2>1. r \notin {5, 10, 25, 29, 34} /\ Brings(r) = Adds(r)
    BY <1>2 DEF CreatesStrictly, Brings
  <2>2. \A x \in Adds(r) : x \notin Fresh[r - 1]
    BY <2>1, BroughtIsNew
  <2>3. CASE s = Fresh[r - 1] \/ s = Fresh[r - 1] \ {Membership}
    BY <2>2, <2>3
  <2>4. CASE r - 1 \in 26..28 /\ s = UnalignScanner(Fresh[r - 1])
    <3>1. r \in 27..28
      BY <1>1, <2>1, <2>4
    <3>2. s = (Fresh[r - 1] \ Aligned) \cup Misaligned
      BY <2>4, ScannerChain
    <3> QED BY <2>2, <3>1, <3>2, AlignmentStays
  <2> QED BY <2>3, <2>4 DEF Possible
<1>3. /\ \A x \in Admissible : x[1] \in {"user_invitations", "league_points_ledger",
                                         "role_assignments", "scan_jobs"}
      /\ \A x \in Admissible : x[2] \in {"unit_lead", "champion_reason", "viewer", "no_group",
             "no_node", "no_requester", "gateway_admin", "engineer", "reporter"}
  BY DEF Admissible, Written, NewRoles, Taxonomy, Of
<1>4. RowsUp(r, rows, s) \subseteq Up(r, s)
  <2>1. CASE r # 34
    <3>1. RowsUp(r, rows, s) \subseteq rows
      BY <2>1 DEF RowsUp, Kept
    <3>2. CASE r \notin {5, 25, 29}
      BY <2>1, <3>1, <3>2, PlainUp
    <3>3. CASE r = 5
      BY <1>3, <3>1, <3>3 DEF Up
    <3>4. CASE r = 29
      BY <1>3, <3>1, <3>4 DEF Up, AlignScanner, Rename
    <3>5. CASE r = 25
      <4> DEFINE a == Rename(s, "cost_records", "team_id", "node_id")
                 b == Rename(a, "api_keys", "team_id", "node_id")
                 c == Rename(b, "policies", "team_id", "node_id")
                 d == Rename(c, "users", "primary_team_id", "primary_node_id")
      <4>1. \A x \in Admissible : x \in s => x \in d
        BY <1>3 DEF Rename
      <4>2. Up(r, s) = Drop(d \ {<<"access_requests", "resource_id">>},
                            GoneWithTeams \cup {"team_members"}) \cup NodeTables
        BY <3>5 DEF Up, TeamsToNodes
      <4> HIDE DEF d
      <4>3. \A x \in Admissible : x[1] \notin GoneWithTeams \cup {"team_members"}
                                  /\ x # <<"access_requests", "resource_id">>
        BY <1>3 DEF GoneWithTeams
      <4> QED BY <3>1, <4>1, <4>2, <4>3 DEF Drop, Owned
    <3> QED BY <3>2, <3>3, <3>4, <3>5
  <2>2. CASE r = 34
    <3>1. Up(r, s) = (s \ RenamedRoles) \cup NewRoles \cup DirectGrants
      BY <2>2 DEF Up
    <3>2. ASSUME NEW x \in Admissible, x \in s PROVE RenameRole(x) \in Up(r, s)
      <4>1. CASE x[1] = "role_assignments" /\ \E t \in Taxonomy : t[1] = x[2]
        <5> DEFINE t == CHOOSE t \in Taxonomy : t[1] = x[2]
        <5>1. t \in Taxonomy
          BY <4>1
        <5>2. RenameRole(x) = <<"role_assignments", t[2]>>
          BY <4>1 DEF RenameRole
        <5> HIDE DEF t
        <5>3. <<"role_assignments", t[2]>> \in NewRoles
          BY <5>1 DEF NewRoles, Of
        <5> QED BY <3>1, <5>2, <5>3
      <4>2. CASE ~(x[1] = "role_assignments" /\ \E t \in Taxonomy : t[1] = x[2])
        <5>1. RenameRole(x) = x
          BY <4>2 DEF RenameRole
        <5>2. x \notin RenamedRoles
          BY <4>2 DEF RenamedRoles, Of
        <5> QED BY <3>1, <3>2, <5>1, <5>2
      <4> QED BY <4>1, <4>2
    <3> QED BY <2>2, <3>2 DEF RowsUp, Kept
  <2> QED BY <2>1, <2>2
<1> QED BY <1>2, <1>4 DEF Runs

\* The inductive invariant.
PossibleNow ==
    revision \in 0..Latest /\ Possible(revision, schema) /\ present \subseteq schema \cap Admissible

\* From a possible schema a run of alembic is accepted at every revision it passes, and
\* leaves a possible schema there.
LEMMA RunsArePossible ==
  ASSUME PossibleNow, NEW h \in 0..Latest, h >= revision
  PROVE  /\ RunTo(h).ok
         /\ Possible(h, RunTo(h).schema)
         /\ RunTo(h).stored \subseteq RunTo(h).schema \cap Admissible
<1> DEFINE f == CHOOSE f : AlembicRun(f, Latest)
<1>1. AlembicRun(f, Latest) /\ RunTo(h) = f[h]
  BY RunsExist, RunToIsAlembicRun DEF PossibleNow
<1> HIDE DEF f
<1>2. h \in Nat /\ revision \in 0..Latest /\ revision \in Nat /\ Latest \in Nat
  BY DEF PossibleNow, Latest
<1> DEFINE Good(k, b) == b.ok /\ Possible(k, b.schema) /\ b.stored \subseteq b.schema \cap Admissible
           T == {k \in 0..Latest : k >= revision => Good(k, f[k])}
<1>3. \A k \in 0..Latest : f[k] = Passed(f, k)
  BY <1>1 DEF AlembicRun
<1>4. Good(revision, f[revision])
  <2>1. f[revision] = Passed(f, revision)
    BY <1>2, <1>3
  <2>2. Passed(f, revision) = [ok |-> TRUE, schema |-> schema, stored |-> present]
    BY <1>2 DEF Passed
  <2> QED BY <2>1, <2>2 DEF PossibleNow
<1>5. 0 \in T
  BY <1>2, <1>4
<1>6. ASSUME NEW k \in 0..Latest, k # Latest, k \in T PROVE k + 1 \in T
  <2>1. k \in Nat /\ k + 1 \in 1..Latest /\ k + 1 \in 0..Latest /\ (k + 1) - 1 = k
    BY <1>2, <1>6
  <2>2. CASE k + 1 <= revision
    BY <1>2, <1>4, <2>1, <2>2
  <2>3. CASE ~(k + 1 <= revision)
    <3> DEFINE b == f[k]
               ok == b.ok /\ Runs(k + 1, b.schema, b.stored)
    <3>1. Good(k, b)
      BY <1>2, <1>6, <2>1, <2>3
    <3>2. f[k + 1] = [ok |-> ok, schema |-> Up(k + 1, b.schema),
                      stored |-> RowsUp(k + 1, b.stored, b.schema)]
      <4>1. f[k + 1] = Passed(f, k + 1)
        BY <1>3, <2>1
      <4> QED BY <2>1, <2>3, <4>1 DEF Passed
    <3>3. Runs(k + 1, b.schema, b.stored) /\ Possible(k + 1, Up(k + 1, b.schema))
      BY <2>1, <3>1, PossibleRuns, UpIsPossible
    <3>4. ok
      BY <3>1, <3>3
    <3>5. RowsUp(k + 1, b.stored, b.schema) \subseteq Up(k + 1, b.schema) \cap Admissible
      BY <3>1, <3>3, RowsStayAdmissible DEF Runs
    <3> HIDE DEF b, ok
    <3>6. Good(k + 1, f[k + 1])
      BY <3>2, <3>3, <3>4, <3>5
    <3> QED BY <2>1, <3>6
  <2> QED BY <2>2, <2>3
<1>7. \A k \in 0..Latest : k \in T
  <2> HIDE DEF T
  <2> QED BY <1>2, <1>5, <1>6, CountingUp
<1>8. Good(h, f[h])
  BY <1>7
<1> QED BY <1>1, <1>8

\* Upgrades, steps back and rows written in between leave no other schema.
LEMMA PossibleAlways == MigrationsSpec => []PossibleNow
<1>1. MigrationsInit => PossibleNow
  BY FreshUnfolds DEF MigrationsInit, PossibleNow, Possible, Latest
<1>2. PossibleNow /\ [MigrationsNext]_migrationVars => PossibleNow'
  <2> SUFFICES ASSUME PossibleNow, [MigrationsNext]_migrationVars PROVE PossibleNow'
    OBVIOUS
  <2>1. CASE UNCHANGED migrationVars
    BY <2>1 DEF migrationVars, PossibleNow
  <2>2. ASSUME NEW h \in Releases, Upgrade(h) PROVE PossibleNow'
    <3>1. h \in 0..Latest /\ h >= revision
      BY <2>2 DEF Upgrade, PossibleNow, Latest
    <3> QED BY <2>2, <3>1, RunsArePossible DEF Upgrade, PossibleNow
  <2>3. CASE Downgrade
    <3>1. revision \in 1..Latest /\ revision # 25 /\ revision - 1 \in 0..Latest
          /\ (revision \in DropsStrictly => Adds(revision) \subseteq schema)
      BY <2>3 DEF Downgrade, Reverts, PossibleNow, Latest
    <3>2. Possible(revision', schema')
      BY <2>3, <3>1, DownIsPossible DEF Downgrade, PossibleNow
    <3>3. present' \subseteq schema' \cap Admissible
      BY <2>3 DEF Downgrade, Reverts, Kept, PossibleNow
    <3> QED BY <2>3, <3>1, <3>2, <3>3 DEF Downgrade, PossibleNow
  <2>4. ASSUME NEW x \in Written, Write(x) PROVE PossibleNow'
    BY <2>4 DEF Write, PossibleNow, Admissible
  <2> QED BY <2>1, <2>2, <2>3, <2>4 DEF MigrationsNext
<1> QED BY <1>1, <1>2, PTL DEF MigrationsSpec

\* From wherever upgrades to any releases, steps back and the rows written in between
\* have left the database, "alembic upgrade head" is accepted at every revision and
\* ends in the schema of a fresh installation (migrations 0001 to 0036).
THEOREM UpgradesAlwaysConverge == MigrationsSpec => []UpgradesConverge
<1>1. PossibleNow => UpgradesConverge
  <2> SUFFICES ASSUME PossibleNow PROVE UpgradesConverge
    OBVIOUS
  <2>1. Latest \in 0..Latest /\ Latest >= revision
    BY DEF PossibleNow, Latest
  <2>2. RunTo(Latest).ok /\ Possible(Latest, RunTo(Latest).schema)
    BY <2>1, RunsArePossible
  <2>3. RunTo(Latest).schema = Fresh[Latest]
    BY <2>2 DEF Possible, Latest
  <2> QED BY <2>2, <2>3 DEF UpgradesConverge, HeadSchema
<1> QED BY <1>1, PossibleAlways, PTL

\* What statements of the services name and no revision provides at head.
Lacking == {<<"cost_records", "team_id">>, <<"teams", "table">>, <<"audit_log", "detail">>,
            <<"league_items", "table">>}
           \cup Of("user_invitations", {"gateway_admin", "engineer", "reporter"})

\* 0025 took two of them away, and nothing brings any of them afterwards.
LEMMA HeadIsWithout == Lacking \cap Fresh[Latest] = {}
<1>1. ASSUME NEW x \in Lacking, NEW k \in 1..Latest, x \in Brings(k)
      PROVE  k = 1 /\ x \in {<<"cost_records", "team_id">>, <<"teams", "table">>}
  BY <1>1 DEF Lacking, Latest, Brings, Adds, Tables, Of, Aligned,
       Baseline, OrganisationTables, UsageTables, CatalogueTables, ConsoleTables,
       WorkflowTables, RunTables, ScopedKeys, MemoryTables, AdminMustChange,
       DeveloperMustChange, AgenticTables, UserTables, InvitationTables, OldRoles, UnitTables,
       UnitParents, Entitlements, UnitLeads, GroupMappings, LeagueTables, Locations,
       PasswordAge, ScimIds, Contractors, AccessRequests, RoleExpiry, NodeBudgets, NodeTables,
       ScanTables, ChampionTables, ChampionReasons, ToolConfig, Requesterless, SkillTables,
       CacheSnapshots, LocalGroups, CacheEntries, Portraits, NewRoles, DirectGrants, Taxonomy
<1>2. Lacking \cap Fresh[25] = {}
  <2> SUFFICES ASSUME NEW x \in Lacking, x \in Fresh[25] PROVE FALSE
    OBVIOUS
  <2>1. PICK k \in 1..25 : x \in Brings(k)
    BY FreshWasBrought DEF Latest
  <2>2. x \in {<<"cost_records", "team_id">>, <<"teams", "table">>}
    BY <1>1, <2>1 DEF Latest
  <2> DEFINE a == Rename(Fresh[24], "cost_records", "team_id", "node_id")
             b == Rename(a, "api_keys", "team_id", "node_id")
             c == Rename(b, "policies", "team_id", "node_id")
             d == Rename(c, "users", "primary_team_id", "primary_node_id")
  <2>3. Fresh[25] = Drop(d \ {<<"access_requests", "resource_id">>},
                         GoneWithTeams \cup {"team_members"}) \cup NodeTables
    <3>1. 25 \in 1..Latest /\ 25 - 1 = 24
      BY DEF Latest
    <3>2. Fresh[25] = Up(25, Fresh[24])
      BY <3>1, FreshUnfolds
    <3>3. Fresh[25] = TeamsToNodes(Fresh[24])
      BY <3>2 DEF Up
    <3> QED BY <3>3 DEF TeamsToNodes
  <2>4. <<"cost_records", "team_id">> \notin a
    BY DEF Rename
  <2>5. <<"cost_records", "team_id">> \notin d
    BY <2>4 DEF Rename
  <2> HIDE DEF d
  <2>6. x \notin NodeTables
    BY <2>2 DEF NodeTables, Tables, Of
  <2>7. x # <<"teams", "table">>
    BY <2>3, <2>6 DEF Drop, Owned, GoneWithTeams
  <2> QED BY <2>2, <2>3, <2>5, <2>6, <2>7 DEF Drop
<1> DEFINE T == {k \in 0..Latest : k >= 25 => Lacking \cap Fresh[k] = {}}
<1>3. ASSUME NEW k \in 0..Latest, k # Latest, k \in T PROVE k + 1 \in T
  <2>1. k + 1 \in 1..Latest /\ k + 1 \in 0..Latest /\ (k + 1) - 1 = k
    BY <1>3 DEF Latest
  <2>2. CASE k + 1 =< 25
    <3>1. k + 1 # 25 => ~(k + 1 >= 25)
      BY <2>1, <2>2 DEF Latest
    <3> QED BY <1>2, <2>1, <3>1
  <2>3. CASE ~(k + 1 =< 25)
    <3>1. k >= 25 /\ k # 0 /\ Lacking \cap Fresh[k] = {}
      BY <1>3, <2>3 DEF Latest
    <3>2. Fresh[k + 1] \subseteq Fresh[k] \cup Brings(k + 1)
      BY <2>1, <3>1, FreshUnfolds, UpBrings
    <3>3. Lacking \cap Brings(k + 1) = {}
      BY <1>1, <2>1, <3>1
    <3> QED BY <2>1, <3>1, <3>2, <3>3
  <2> QED BY <1>3, <2>2, <2>3 DEF Latest
<1>4. 0 \in T
  BY DEF Latest
<1>5. \A k \in 0..Latest : k \in T
  <2> HIDE DEF T
  <2> QED BY <1>3, <1>4, CountingUp DEF Latest
<1> QED BY <1>5 DEF Latest

\* No database at head, however it got there, has the columns, tables and roles which
\* statements of the services name though 0025 took them away or no revision ever
\* brought them: what 0001_baseline.py says of head fails of each database, and not
\* only of a fresh one.
THEOREM HeadNeverServesTheCode ==
  MigrationsSpec => [](revision = Latest => Lacking \cap schema = {} /\ ~ProducesRuntimeSchema)
<1>1. PossibleNow /\ revision = Latest => Lacking \cap schema = {} /\ ~ProducesRuntimeSchema
  <2> SUFFICES ASSUME PossibleNow, revision = Latest
               PROVE  Lacking \cap schema = {} /\ ~ProducesRuntimeSchema
    OBVIOUS
  <2>1. schema = Fresh[Latest]
    BY DEF PossibleNow, Possible, Latest
  <2>2. Lacking \cap schema = {}
    BY <2>1, HeadIsWithout
  <2>3. <<"cost_records", "team_id">> \in Needed /\ <<"cost_records", "team_id">> \in Lacking
    BY DEF Needed, CostRecordInsert, Lacking, Of
  <2> QED BY <2>2, <2>3 DEF ProducesRuntimeSchema
<1> QED BY <1>1, PossibleAlways, PTL

HIDE MigrationsAssumption

---------------------------------------------------------------------------
(* Workflow authoring.  A version was validated before it had its number.  *)

USE AuthoringAssumption

\* What the loop over the edges reaches lies in every set that holds the entry and
\* is closed: so a node of a valid DAG can be reached.
LEMMA ReachedIsReachable ==
  ASSUME NEW d \in Dags, NEW S, d.entry \in S,
         \A e \in d.edges : e[1] \in S => e[2] \in S
  PROVE  Reached(d) \subseteq S
<1> DEFINE c == Cardinality(d.edges)
           X == SUBSET S
           IsPasses(f) == f = [k \in 0..c |-> IF k = 0 THEN {d.entry} ELSE Spread(d, f[k - 1])]
           step == [T \in X |-> Spread(d, T)]
           passes == CHOOSE f : IsPasses(f)
<1>1. c \in Nat
  BY FS_CardinalityType
<1>2. Reached(d) = passes[c]
  BY DEF Reached
<1>3. \A T \in X : Spread(d, T) \in X
  BY DEF Spread
<1>4. {d.entry} \in X /\ step \in [X -> X] /\ \A T \in X : step[T] = Spread(d, T)
  BY <1>3
<1> HIDE DEF step, c
<1>5. PICK f \in [0..c -> X] : f[0] = {d.entry} /\ \A k \in 1..c : f[k] = step[f[k - 1]]
  <2> DEFINE base == {d.entry}
  <2>1. base \in X /\ step \in [X -> X] /\ c \in Nat
    BY <1>1, <1>4
  <2> HIDE DEF X, base
  <2>2. PICK f : Iteration(f, c, X, base, step)
    BY <2>1, Iterates
  <2> QED BY <2>2 DEF Iteration, base
<1>6. IsPasses(f)
  <2> DEFINE h == [k \in 0..c |-> IF k = 0 THEN {d.entry} ELSE Spread(d, f[k - 1])]
  <2>1. \A k \in 0..c : f[k] = h[k]
    <3> TAKE k \in 0..c
    <3>1. CASE k = 0
      BY <1>5, <3>1
    <3>2. CASE k # 0
      <4>1. k \in 1..c /\ k - 1 \in 0..c
        BY <1>1, <3>2
      <4>2. f[k - 1] \in X /\ f[k] = step[f[k - 1]]
        BY <1>5, <4>1
      <4> QED BY <1>4, <3>2, <4>2
    <3> QED BY <3>1, <3>2
  <2> QED BY <1>5, <2>1
<1>7. IsPasses(passes)
  BY <1>6
<1>8. /\ passes[0] = {d.entry}
      /\ \A k \in 1..c : passes[k] = Spread(d, passes[k - 1])
  <2> HIDE DEF passes
  <2>1. 0 \in 0..c /\ \A k \in 1..c : k \in 0..c /\ k # 0
    BY <1>1
  <2> QED BY <1>7, <2>1
<1> HIDE DEF passes, IsPasses
<1> DEFINE T == {k \in 0..c : passes[k] \in X}
<1>9. 0 \in T
  BY <1>1, <1>4, <1>8
<1>10. \A k \in 0..c : k # c /\ k \in T => k + 1 \in T
  <2> SUFFICES ASSUME NEW k \in 0..c, k # c, k \in T PROVE k + 1 \in T
    OBVIOUS
  <2>1. k + 1 \in 1..c /\ (k + 1) - 1 = k /\ k + 1 \in 0..c
    BY <1>1
  <2> QED BY <1>3, <1>8, <2>1
<1> HIDE DEF T
<1>11. c \in T
  <2>1. \A k \in 0..c : k \in T
    BY <1>1, <1>9, <1>10, CountingUp
  <2> QED BY <1>1, <2>1
<1> QED BY <1>2, <1>11 DEF T

\* What the validation accepts is reachable by the definition.
LEMMA ValidIsReachable ==
  ASSUME NEW d \in Dags, Valid(d)
  PROVE  d.entry \in d.nodes /\ \A n \in d.nodes : Reachable(d, n)
BY ReachedIsReachable DEF Valid, Reachable

\* Versions that were validated.
Checked(q) ==
    /\ q \in Seq(Dags)
    /\ \A v \in DOMAIN q : /\ q[v].entry \in q[v].nodes
                           /\ \A n \in q[v].nodes : Reachable(q[v], n)
AuthorRow == [at : {"new", "numbered", "written", "done", "refused"},
              of : Workflows \cup {Unnumbered}, dag : Dags \cup {Unnumbered}]
SubmitRow == [at : {"new", "counted", "pinned", "run", "refused"},
              of : Workflows \cup {Unnumbered}, version : Nat, dag : Dags \cup {Unnumbered}]
VersionsChecked == /\ versions = [w \in Workflows |-> versions[w]]
                   /\ \A w \in Workflows : versions[w] # Unnumbered => Checked(versions[w])
\* A call that has a number has a workflow and a valid DAG.
NumberedIsValid ==
    \A c \in Authors : author[c].at \in {"numbered", "written"} =>
        /\ author[c].of \in Workflows /\ Checked(versions[author[c].of])
        /\ author[c].dag \in Dags /\ Valid(author[c].dag)
CallsTyped == /\ author \in [Authors -> AuthorRow] /\ submit \in [Submitters -> SubmitRow]
              /\ images \in [AgentSlugs -> 0..MaxImages] /\ counted \in Nat
PinnedIsKnown == \A c \in Submitters : submit[c].at = "pinned" => submit[c].of \in Workflows
AuthoringInv == CallsTyped /\ VersionsChecked /\ NumberedIsValid /\ PinnedIsKnown

\* At first no workflow has a version.
LEMMA AuthoringStarts == AuthoringInit => AuthoringInv
BY DEF AuthoringInit, AuthoringInv, CallsTyped, VersionsChecked, NumberedIsValid, PinnedIsKnown,
       AuthorRow, SubmitRow

\* A valid DAG may follow versions that are valid.
LEMMA OneVersionMore ==
  ASSUME NEW q, Checked(q), NEW d \in Dags, Valid(d)
  PROVE  Checked(Append(q, d))
<1> DEFINE z == Append(q, d)
<1>1. q \in Seq(Dags) /\ Len(q) \in Nat /\ DOMAIN q = 1..Len(q)
  BY LenProperties DEF Checked
<1>2. /\ z \in Seq(Dags) /\ Len(z) = Len(q) + 1 /\ z[Len(q) + 1] = d
      /\ \A v \in 1..Len(q) : z[v] = q[v]
  BY <1>1
<1>3. DOMAIN z = 1..(Len(q) + 1)
  BY <1>2, LenProperties
<1> HIDE DEF z
<1>4. \A v \in DOMAIN z : v \in DOMAIN q \/ v = Len(q) + 1
  BY <1>1, <1>3
<1>5. ASSUME NEW v \in DOMAIN z
      PROVE  z[v].entry \in z[v].nodes /\ \A n \in z[v].nodes : Reachable(z[v], n)
  <2>1. CASE v \in DOMAIN q
    BY <1>1, <1>2, <2>1 DEF Checked
  <2>2. CASE v = Len(q) + 1
    BY <1>2, <2>2, ValidIsReachable
  <2> QED BY <1>4, <2>1, <2>2
<1>6. Checked(z)
  BY <1>2, <1>5 DEF Checked
<1> QED BY <1>6 DEF z

\* Each step of create_workflow_version preserves the invariant.
LEMMA AuthorSteps ==
  ASSUME AuthoringInv, NEW c \in Authors,
         \/ \E w \in Workflows, d \in Dags : NumberVersion(c, w, d)
         \/ WriteVersion(c) \/ CommitVersion(c) \/ RollbackVersion(c)
  PROVE  AuthoringInv'
<1>1. author \in [Authors -> AuthorRow] /\ author[c] \in AuthorRow
  BY DEF AuthoringInv, CallsTyped
<1>2. UNCHANGED <<images, submit, counted>>
  BY DEF NumberVersion, WriteVersion, CommitVersion, RollbackVersion
<1>3. PinnedIsKnown' /\ (submit \in [Submitters -> SubmitRow])'
      /\ (images \in [AgentSlugs -> 0..MaxImages])' /\ (counted \in Nat)'
  BY <1>2 DEF AuthoringInv, CallsTyped, PinnedIsKnown
<1>4. CASE \E w \in Workflows, d \in Dags : NumberVersion(c, w, d)
  <2> PICK w \in Workflows, d \in Dags : NumberVersion(c, w, d)
    BY <1>4
  <2>1. PICK p \in {"numbered", "refused"} :
          /\ author' = [author EXCEPT ![c] = [at |-> p, of |-> w, dag |-> d]]
          /\ p = "numbered" => Valid(d) /\ versions[w] # Unnumbered
    BY DEF NumberVersion
  <2> DEFINE n == [at |-> p, of |-> w, dag |-> d]
  <2>2. n \in AuthorRow /\ n.of = w /\ n.dag = d /\ n.at = p
    BY DEF AuthorRow
  <2> HIDE DEF n
  <2>3. author' = [author EXCEPT ![c] = n]
    BY <2>1 DEF n
  <2>4. versions' = versions
    BY DEF NumberVersion
  <2>5. author' \in [Authors -> AuthorRow]
    BY <1>1, <2>2, <2>3
  <2>6. NumberedIsValid'
    <3> SUFFICES ASSUME NEW b \in Authors, author'[b].at \in {"numbered", "written"}
                 PROVE  /\ author'[b].of \in Workflows /\ Checked(versions[author'[b].of])
                        /\ author'[b].dag \in Dags /\ Valid(author'[b].dag)
      BY <2>4 DEF NumberedIsValid, Checked
    <3>1. CASE b = c
      <4>1. author'[b] = n /\ p = "numbered"
        BY <1>1, <2>2, <2>3, <3>1
      <4>2. Checked(versions[w])
        BY <2>1, <4>1 DEF AuthoringInv, VersionsChecked
      <4> QED BY <2>1, <2>2, <4>1, <4>2
    <3>2. CASE b # c
      <4>1. author'[b] = author[b]
        BY <1>1, <2>3, <3>2
      <4> QED BY <4>1 DEF AuthoringInv, NumberedIsValid
    <3> QED BY <3>1, <3>2
  <2>7. VersionsChecked'
    BY <2>4 DEF AuthoringInv, VersionsChecked, Checked
  <2> QED BY <1>3, <2>5, <2>6, <2>7 DEF AuthoringInv, CallsTyped
<1>5. CASE WriteVersion(c) \/ RollbackVersion(c)
  <2>0. PICK p \in {"written", "refused"} :
          /\ author' = [author EXCEPT ![c].at = p] /\ versions' = versions
          /\ author[c].at \in {"numbered", "written"}
    BY <1>5 DEF WriteVersion, RollbackVersion
  <2> DEFINE n == [author[c] EXCEPT !.at = p]
  <2>1. n \in AuthorRow /\ n.of = author[c].of /\ n.dag = author[c].dag
    BY <1>1 DEF AuthorRow
  <2>2. author' = [author EXCEPT ![c] = n] /\ versions' = versions
        /\ author[c].at \in {"numbered", "written"}
    BY <1>1, <2>0
  <2> HIDE DEF n
  <2>3. author' \in [Authors -> AuthorRow]
    BY <1>1, <2>1, <2>2
  <2>4. NumberedIsValid'
    <3>1. \A b \in Authors : author'[b].at \in {"numbered", "written"} =>
            /\ author[b].at \in {"numbered", "written"}
            /\ author'[b].of = author[b].of /\ author'[b].dag = author[b].dag
      BY <1>1, <2>1, <2>2
    <3> QED BY <2>2, <3>1 DEF AuthoringInv, NumberedIsValid, Checked
  <2>5. VersionsChecked'
    BY <2>2 DEF AuthoringInv, VersionsChecked, Checked
  <2> QED BY <1>3, <2>3, <2>4, <2>5 DEF AuthoringInv, CallsTyped
<1>6. CASE CommitVersion(c)
  <2>1. PICK w \in Workflows, d \in Dags :
          /\ author[c].of = w /\ author[c].dag = d /\ Valid(d) /\ Checked(versions[w])
    BY <1>6 DEF CommitVersion, AuthoringInv, NumberedIsValid
  <2> DEFINE n == [author[c] EXCEPT !.at = "done"]
             q == Append(versions[w], d)
  <2>2. Checked(q)
    BY <2>1, OneVersionMore
  <2>3. n \in AuthorRow /\ n.at = "done"
    BY <1>1 DEF AuthorRow
  <2>4. author' = [author EXCEPT ![c] = n] /\ versions' = [versions EXCEPT ![w] = q]
    BY <1>1, <1>6, <2>1 DEF CommitVersion
  <2> HIDE DEF n, q
  <2>5. author' \in [Authors -> AuthorRow]
    BY <1>1, <2>3, <2>4
  <2>6. /\ versions = [x \in Workflows |-> versions[x]]
        /\ \A x \in Workflows : versions[x] # Unnumbered => Checked(versions[x])
    BY DEF AuthoringInv, VersionsChecked
  <2>7. /\ versions' = [x \in Workflows |-> versions'[x]]
        /\ versions'[w] = q /\ \A x \in Workflows \ {w} : versions'[x] = versions[x]
    BY <2>4, <2>6
  <2>8. \A x \in Workflows : versions'[x] # Unnumbered => Checked(versions'[x])
    BY <2>2, <2>6, <2>7
  <2>9. VersionsChecked'
    BY <2>7, <2>8 DEF VersionsChecked, Checked
  <2>10. \A b \in Authors : author'[b].at \in {"numbered", "written"} =>
           /\ author[b].at \in {"numbered", "written"} /\ author'[b] = author[b]
    BY <1>1, <2>3, <2>4
  <2>11. \A b \in Authors : author'[b].at \in {"numbered", "written"} =>
            /\ author'[b].of \in Workflows /\ Checked(versions'[author'[b].of])
            /\ author'[b].dag \in Dags /\ Valid(author'[b].dag)
    <3> SUFFICES ASSUME NEW b \in Authors, author'[b].at \in {"numbered", "written"}
                 PROVE  /\ author'[b].of \in Workflows /\ Checked(versions'[author'[b].of])
                        /\ author'[b].dag \in Dags /\ Valid(author'[b].dag)
      OBVIOUS
    <3>1. /\ author'[b] = author[b] /\ author[b].of \in Workflows
          /\ Checked(versions[author[b].of]) /\ author[b].dag \in Dags /\ Valid(author[b].dag)
      BY <2>10 DEF AuthoringInv, NumberedIsValid
    <3>2. Checked(versions'[author[b].of])
      BY <2>2, <2>7, <3>1
    <3> QED BY <3>1, <3>2
  <2>12. NumberedIsValid'
    BY <2>11 DEF NumberedIsValid, Checked
  <2> QED BY <1>3, <2>5, <2>9, <2>12 DEF AuthoringInv, CallsTyped
<1> QED BY <1>4, <1>5, <1>6

\* Each step of submit_run preserves the invariant.
LEMMA SubmitSteps ==
  ASSUME AuthoringInv, NEW c \in Submitters,
         \/ CountRun(c) \/ ReadDag(c) \/ \E w \in Workflows : PinVersion(c, w)
  PROVE  AuthoringInv'
<1>1. submit \in [Submitters -> SubmitRow] /\ submit[c] \in SubmitRow /\ counted \in Nat
  BY DEF AuthoringInv, CallsTyped
<1>2. UNCHANGED <<images, versions, author>> /\ counted' \in Nat
  <2>1. CASE CountRun(c)
    BY <1>1, <2>1 DEF CountRun
  <2>2. CASE ReadDag(c) \/ \E w \in Workflows : PinVersion(c, w)
    BY <1>1, <2>2 DEF ReadDag, PinVersion
  <2> QED BY <2>1, <2>2
<1>3. VersionsChecked' /\ NumberedIsValid'
  BY <1>2 DEF AuthoringInv, VersionsChecked, NumberedIsValid, Checked
<1>4. ASSUME NEW n \in SubmitRow, submit' = [submit EXCEPT ![c] = n],
             n.at = "pinned" => n.of \in Workflows
      PROVE  AuthoringInv'
  <2>1. submit' \in [Submitters -> SubmitRow]
    BY <1>1, <1>4
  <2>2. PinnedIsKnown'
    BY <1>1, <1>4 DEF AuthoringInv, PinnedIsKnown
  <2> QED BY <1>2, <1>3, <2>1, <2>2 DEF AuthoringInv, CallsTyped
<1>5. CASE CountRun(c)
  <2>1. PICK p \in {"counted", "refused"} : submit' = [submit EXCEPT ![c].at = p]
    BY <1>5 DEF CountRun
  <2> DEFINE n == [submit[c] EXCEPT !.at = p]
  <2>2. n \in SubmitRow /\ n.at # "pinned" /\ submit' = [submit EXCEPT ![c] = n]
    BY <1>1, <2>1 DEF SubmitRow
  <2> HIDE DEF n
  <2> QED BY <1>4, <2>2
<1>6. ASSUME NEW w \in Workflows, PinVersion(c, w) PROVE AuthoringInv'
  <2>1. \/ \E v \in Nat : submit' = [submit EXCEPT ![c].at = "pinned", ![c].of = w, ![c].version = v]
        \/ submit' = [submit EXCEPT ![c].at = "refused"]
    <3>1. versions[w] # Unnumbered => Len(versions[w]) \in Nat
      BY LenProperties DEF AuthoringInv, VersionsChecked, Checked
    <3>2. \A v \in 1..Cardinality(Authors) : v \in Nat
      BY FS_CardinalityType
    <3> QED BY <1>6, <3>1, <3>2 DEF PinVersion
  <2>2. CASE \E v \in Nat : submit' = [submit EXCEPT ![c].at = "pinned", ![c].of = w, ![c].version = v]
    <3> PICK v \in Nat : submit' = [submit EXCEPT ![c].at = "pinned", ![c].of = w, ![c].version = v]
      BY <2>2
    <3> DEFINE n == [[[submit[c] EXCEPT !.at = "pinned"] EXCEPT !.of = w] EXCEPT !.version = v]
    <3>1. n \in SubmitRow /\ n.of = w
      BY <1>1 DEF SubmitRow
    <3>2. submit' = [submit EXCEPT ![c] = n]
      BY <1>1 DEF SubmitRow
    <3> HIDE DEF n
    <3> QED BY <1>4, <3>1, <3>2
  <2>3. CASE submit' = [submit EXCEPT ![c].at = "refused"]
    <3> DEFINE n == [submit[c] EXCEPT !.at = "refused"]
    <3>1. n \in SubmitRow /\ n.at # "pinned" /\ submit' = [submit EXCEPT ![c] = n]
      BY <1>1, <2>3 DEF SubmitRow
    <3> HIDE DEF n
    <3> QED BY <1>4, <3>1
  <2> QED BY <2>1, <2>2, <2>3
<1>7. CASE ReadDag(c)
  <2> DEFINE w == submit[c].of
             v == submit[c].version
             found == versions[w] # Unnumbered /\ v \in DOMAIN versions[w]
  <2>1. w \in Workflows
    BY <1>7 DEF AuthoringInv, PinnedIsKnown, ReadDag
  <2>2. found => versions[w][v] \in Dags
    BY <2>1, LenProperties DEF AuthoringInv, VersionsChecked, Checked
  <2>3. submit' = [submit EXCEPT ![c].at = IF found THEN "run" ELSE "refused",
                                 ![c].dag = IF found THEN versions[w][v] ELSE Unnumbered]
    BY <1>7 DEF ReadDag
  <2>4. PICK p \in {"run", "refused"}, d \in Dags \cup {Unnumbered} :
          submit' = [submit EXCEPT ![c].at = p, ![c].dag = d]
    <3> HIDE DEF found
    <3> QED BY <2>2, <2>3
  <2> DEFINE n == [[submit[c] EXCEPT !.at = p] EXCEPT !.dag = d]
  <2>5. n \in SubmitRow /\ n.at = p
    BY <1>1 DEF SubmitRow
  <2>6. submit' = [submit EXCEPT ![c] = n]
    BY <1>1, <2>4 DEF SubmitRow
  <2> HIDE DEF n
  <2> QED BY <1>4, <2>5, <2>6
<1> QED BY <1>5, <1>6, <1>7

\* For any calls, workflows and DAGs, and however the statements of the calls
\* interleave: every version that was committed is a DAG whose nodes can all be
\* reached from its entry, which a search by the definition confirms
\* (create_workflow_version, _validate_dag).
THEOREM VersionsAreReachable == AuthoringSpec => []AuthoringTypeOK
<1>1. AuthoringInv /\ [AuthoringNext]_authoringVars => AuthoringInv'
  <2> SUFFICES ASSUME AuthoringInv, [AuthoringNext]_authoringVars PROVE AuthoringInv'
    OBVIOUS
  <2>1. CASE UNCHANGED authoringVars
    BY <2>1 DEF authoringVars, AuthoringInv, CallsTyped, VersionsChecked, NumberedIsValid,
                PinnedIsKnown, Checked
  <2>2. ASSUME NEW a \in AgentSlugs, CreateAgent(a) PROVE AuthoringInv'
    <3>1. images \in [AgentSlugs -> 0..MaxImages]
      BY DEF AuthoringInv, CallsTyped
    <3>2. images' \in [AgentSlugs -> 0..MaxImages]
      BY <2>2, <3>1 DEF CreateAgent
    <3> QED BY <2>2, <3>2 DEF CreateAgent, AuthoringInv, CallsTyped, VersionsChecked,
                              NumberedIsValid, PinnedIsKnown, Checked
  <2>3. ASSUME NEW w \in Workflows, CreateWorkflow(w) PROVE AuthoringInv'
    <3>1. Checked(<<>>)
      BY EmptySeq DEF Checked
    <3>2. /\ versions' = [x \in Workflows |-> versions'[x]]
          /\ versions'[w] = <<>> /\ \A x \in Workflows \ {w} : versions'[x] = versions[x]
      BY <2>3 DEF CreateWorkflow, AuthoringInv, VersionsChecked
    <3>3. \A x \in Workflows : versions'[x] # Unnumbered => Checked(versions'[x])
      BY <3>1, <3>2 DEF AuthoringInv, VersionsChecked
    <3>4. \A c \in Authors : author[c].at \in {"numbered", "written"} =>
            Checked(versions'[author[c].of])
      BY <3>1, <3>2 DEF AuthoringInv, NumberedIsValid
    <3>5. VersionsChecked' /\ NumberedIsValid'
      BY <2>3, <3>2, <3>3, <3>4 DEF CreateWorkflow, AuthoringInv, VersionsChecked,
                                    NumberedIsValid, Checked
    <3> QED BY <2>3, <3>5 DEF CreateWorkflow, AuthoringInv, CallsTyped, PinnedIsKnown
  <2>4. CASE ExpireCounter
    BY <2>4 DEF ExpireCounter, AuthoringInv, CallsTyped, VersionsChecked, NumberedIsValid,
                PinnedIsKnown, Checked
  <2>5. CASE AuthoringNext
    BY <2>2, <2>3, <2>4, <2>5, AuthorSteps, SubmitSteps DEF AuthoringNext
  <2> QED BY <2>1, <2>5
<1>2. AuthoringInv => AuthoringTypeOK
  BY DEF AuthoringInv, CallsTyped, VersionsChecked, AuthoringTypeOK, CallTypeOK, AuthorRow,
         SubmitRow, Checked
<1> QED BY AuthoringStarts, <1>1, <1>2, PTL DEF AuthoringSpec

HIDE AuthoringAssumption

---------------------------------------------------------------------------
(* The platform: what is proved of the components holds of each behaviour  *)
(* of the whole.                                                           *)

\* The platform is its parts: each of them, seen alone, behaves as it is specified.
LEMMA PlatformRunsItsParts ==
  PlatformSpec =>
    /\ SessionsSpec
    /\ AccountsSpec
    /\ OrgSpec
    /\ GroupsSpec
    /\ ScanSpec
    /\ GraphSpec
    /\ LeagueSpec
    /\ ChampionsSpec
    /\ LibrarianSpec
    /\ MemorySpec
    /\ McpSpec
    /\ TransportSpec
    /\ MigrationsSpec
    /\ EventIngestSpec
    /\ AlertsSpec
    /\ ToolAgentsSpec
    /\ StartupSpec
    /\ RegistrySpec
    /\ ProviderSpec
    /\ AuthoringSpec
    /\ AchievementsSpec
    /\ FeedsInit /\ [][FeedsNext]_feedVars
<1>1. PlatformInit =>
        /\ SessionsInit
        /\ AccountsInit
        /\ OrgInit
        /\ GroupsInit
        /\ ScanInit
        /\ GraphInit
        /\ LeagueInit
        /\ ChampionsInit
        /\ LibrarianInit
        /\ MemoryInit
        /\ McpInit
        /\ TransportInit
        /\ MigrationsInit
        /\ EventIngestInit
        /\ AlertsInit
        /\ ToolAgentsInit
        /\ StartupInit
        /\ RegistryInit
        /\ ProviderInit
        /\ AuthoringInit
        /\ AchievementsInit
        /\ FeedsInit
  BY DEF PlatformInit
<1>2. [PlatformNext]_platformVars => [SessionsNext]_sessionVars
  BY DEF PlatformNext, platformVars
<1>3. [PlatformNext]_platformVars => [AccountsNext]_accountVars
  BY DEF PlatformNext, platformVars
<1>4. [PlatformNext]_platformVars => [OrgNext]_orgVars
  BY DEF PlatformNext, platformVars
<1>5. [PlatformNext]_platformVars => [GroupsNext]_groupVars
  BY DEF PlatformNext, platformVars
<1>6. [PlatformNext]_platformVars => [ScanNext]_scanVars
  BY DEF PlatformNext, platformVars
<1>7. [PlatformNext]_platformVars => [GraphNext]_graphVars
  BY DEF PlatformNext, platformVars
<1>8. [PlatformNext]_platformVars => [LeagueNext]_leagueVars
  BY DEF PlatformNext, platformVars
<1>9. [PlatformNext]_platformVars => [ChampionsNext]_championVars
  BY DEF PlatformNext, platformVars
<1>10. [PlatformNext]_platformVars => [LibrarianNext]_libraryVars
  BY DEF PlatformNext, platformVars
<1>11. [PlatformNext]_platformVars => [MemoryNext]_memoryVars
  BY DEF PlatformNext, platformVars, MemoryNext
<1>12. [PlatformNext]_platformVars => [McpNext]_mcpVars
  BY DEF PlatformNext, platformVars
<1>13. [PlatformNext]_platformVars => [TransportNext]_transportVars
  BY DEF PlatformNext, platformVars
<1>14. [PlatformNext]_platformVars => [MigrationsNext]_migrationVars
  BY DEF PlatformNext, platformVars
<1>15. [PlatformNext]_platformVars => [EventIngestNext]_eventVars
  BY DEF PlatformNext, platformVars
<1>16. [PlatformNext]_platformVars => [AlertsNext]_alertVars
  BY DEF PlatformNext, platformVars, AlertsNext
<1>17. [PlatformNext]_platformVars => [ToolAgentsNext]_agentVars
  BY DEF PlatformNext, platformVars, ToolAgentsNext
<1>18. [PlatformNext]_platformVars => [StartupNext]_startupVars
  BY DEF PlatformNext, platformVars
<1>19. [PlatformNext]_platformVars => [RegistryNext]_registryVars
  BY DEF PlatformNext, platformVars
<1>20. [PlatformNext]_platformVars => [ProviderNext]_settingsVars
  BY DEF PlatformNext, platformVars
<1>21. [PlatformNext]_platformVars => [AuthoringNext]_authoringVars
  BY DEF PlatformNext, platformVars
<1>22. [PlatformNext]_platformVars => [AchievementsNext]_achievementVars
  BY DEF PlatformNext, platformVars
<1>23. [PlatformNext]_platformVars => [FeedsNext]_feedVars
  BY DEF PlatformNext, platformVars, FeedsNext
<1> QED
  BY <1>1, <1>2, <1>3, <1>4, <1>5, <1>6, <1>7, <1>8, <1>9, <1>10, <1>11, <1>12, <1>13,
     <1>14, <1>15, <1>16, <1>17, <1>18, <1>19, <1>20, <1>21, <1>22, <1>23, PTL
  DEF PlatformSpec, SessionsSpec, AccountsSpec, OrgSpec, GroupsSpec, ScanSpec, GraphSpec,
      LeagueSpec, ChampionsSpec, LibrarianSpec, MemorySpec, McpSpec, TransportSpec,
      MigrationsSpec, EventIngestSpec, AlertsSpec, ToolAgentsSpec, StartupSpec,
      RegistrySpec, ProviderSpec, AuthoringSpec, AchievementsSpec

\* In each component of the platform only what the code writes is ever stored, for
\* any value of every constant.
THEOREM PlatformTypeCorrect == PlatformSpec => []TypeOK
<1>1. PlatformSpec => [](SessionsTypeOK /\ AccountsTypeOK /\ OrgTypeOK /\ GroupsTypeOK)
  BY PlatformRunsItsParts, SessionsTypeCorrect, JoinedAccountsAreOwned, TreeIsSound,
     MembersHaveGroups, PTL
<1>2. PlatformSpec => [](ScanTypeOK /\ GraphTypeOK /\ LeagueTypeOK /\ ChampionsTypeOK)
  BY PlatformRunsItsParts, ScansAreSound, ReadyRepositoriesWereBuilt, LeagueIsSound,
     ChampionsAreSound, PTL
<1>3. PlatformSpec => [](LibrarianTypeOK /\ MemoryTypeOK /\ McpTypeOK /\ TransportTypeOK)
  BY PlatformRunsItsParts, NamedVectorsExist, MemoryIsSound, McpTypeCorrect,
     AnswersReachTheirAskers, PTL
<1>4. PlatformSpec =>
        [](MigrationsTypeOK /\ EventIngestTypeOK /\ AlertsTypeOK /\ ToolAgentsTypeOK)
  BY PlatformRunsItsParts, SchemaIsWhole, ScoresStayCurrent, FlaggedSpikesWereReported,
     ToolsEndWithTheirRound, PTL
<1>5. PlatformSpec => [](StartupTypeOK /\ RegistryTypeOK /\ FeedsTypeOK /\ ProviderTypeOK)
  BY PlatformRunsItsParts, ServingIsSeeded, AgentsAreListedOnce, FeedsAreSafe,
     ServedKeysAreStored, PTL
<1>6. PlatformSpec => [](AuthoringTypeOK /\ AchievementsTypeOK)
  BY PlatformRunsItsParts, VersionsAreReachable, BadgesAreEarned, PTL
<1>7. /\ SessionsTypeOK /\ AccountsTypeOK /\ OrgTypeOK /\ GroupsTypeOK
      /\ ScanTypeOK /\ GraphTypeOK /\ LeagueTypeOK /\ ChampionsTypeOK
      /\ LibrarianTypeOK /\ MemoryTypeOK /\ McpTypeOK /\ TransportTypeOK
      /\ MigrationsTypeOK /\ EventIngestTypeOK /\ AlertsTypeOK /\ ToolAgentsTypeOK
      /\ StartupTypeOK /\ RegistryTypeOK /\ FeedsTypeOK /\ ProviderTypeOK
      /\ AuthoringTypeOK /\ AchievementsTypeOK
      => TypeOK
  BY DEF TypeOK
<1> QED BY <1>1, <1>2, <1>3, <1>4, <1>5, <1>6, <1>7, PTL

\* Admin, for any replicas, saves and crashes: a replica that serves has its
\* default guardrails and has made or found a signing key, and the listed
\* deployments of a provider use its stored key where no save is under way, none
\* has failed since its last push began and LiteLLM has not restarted since.
THEOREM SettingsAreSound == PlatformSpec => []SettingsHold
BY PlatformRunsItsParts, ServingIsSeeded, ServedKeysAreStored, PTL DEF SettingsHold

\* Admin, whatever releases were installed, stepped back from and written under in
\* whatever order: upgrading to head is accepted and ends in one schema, that of a
\* fresh installation (migrations 0001 to 0036).
THEOREM ReleasesConverge == PlatformSpec => []MigrationsConverge
<1>1. UpgradesConverge => MigrationsConverge
  BY DEF MigrationsConverge
<1> QED BY <1>1, PlatformRunsItsParts, UpgradesAlwaysConverge, PTL

\* Every safety property the run of the platform checks, for any value of every
\* constant of every component.
THEOREM PlatformIsSound ==
  PlatformSpec =>
    /\ [](JoinedOwnsAccount /\ TreeSound)
    /\ [](ScansSound /\ ReadyWasBuilt)
    /\ [](LeagueSound /\ ChampionsSound)
    /\ [](KeyedItemHasVector /\ MemorySound)
    /\ [](AnswerReachesAsker /\ NoToolOutlivesItsRound)
    /\ [](QualityIsCurrent /\ FlaggedIsReported)
    /\ [](MigrationsConverge /\ SettingsHold)
    /\ MarkerHolds /\ ToolStaysOff /\ NeverBackwards
<1>1. PlatformSpec => [](JoinedOwnsAccount /\ TreeSound)
  BY PlatformRunsItsParts, JoinedAccountsAreOwned, TreeIsSound, PTL
<1>2. PlatformSpec => [](ScansSound /\ ReadyWasBuilt)
  BY PlatformRunsItsParts, ScansAreSound, ReadyRepositoriesWereBuilt, PTL
<1>3. PlatformSpec => [](LeagueSound /\ ChampionsSound)
  BY PlatformRunsItsParts, LeagueIsSound, ChampionsAreSound, PTL
<1>4. PlatformSpec => [](KeyedItemHasVector /\ MemorySound)
  BY PlatformRunsItsParts, NamedVectorsExist, MemoryIsSound, PTL
<1>5. PlatformSpec => [](AnswerReachesAsker /\ NoToolOutlivesItsRound)
  BY PlatformRunsItsParts, AnswersReachTheirAskers, ToolsEndWithTheirRound, PTL
<1>6. PlatformSpec => [](QualityIsCurrent /\ FlaggedIsReported)
  BY PlatformRunsItsParts, ScoresStayCurrent, FlaggedSpikesWereReported, PTL
<1>7. PlatformSpec => MarkerHolds /\ ToolStaysOff
  BY PlatformRunsItsParts, MarkersHold, ToolsStayOff
<1>8. PlatformSpec => NeverBackwards
  BY PlatformRunsItsParts, FeedsAreSafe, PTL
<1> QED
  BY <1>1, <1>2, <1>3, <1>4, <1>5, <1>6, <1>7, <1>8, SettingsAreSound, ReleasesConverge, PTL
=============================================================================
