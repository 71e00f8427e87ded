------------------------------ MODULE FoldLemmas ------------------------------
(***************************************************************************)
(* What folds compute, for data of any size.  The library's induction      *)
(* theorems take an operator as a parameter; these rest on sets instead:   *)
(* every non-empty family of subsets of a finite set has a minimal member. *)
(***************************************************************************)
EXTENDS Integers, Sequences, FiniteSets, FiniteSetsExt, SequencesExt, Ordering,
        FiniteSetTheorems, WellFoundedInduction, TLAPS

\* A function on the first n numbers is a sequence.
LEMMA IsSequence ==
  ASSUME NEW S, NEW n \in Nat, NEW f \in [1 .. n -> S]
  PROVE  f \in Seq(S) /\ Len(f) = n
  OBVIOUS

\* The values of a finite family are finitely many.
LEMMA FiniteRows ==
  ASSUME NEW l, IsFiniteSet(DOMAIN l)
  PROVE  IsFiniteSet(ToSet(l))
  <1> DEFINE S == DOMAIN l
             T == ToSet(l)
             f == [x \in S |-> l[x]]
  <1>1. \A x \in S : l[x] \in T
    BY DEF ToSet
  <1>2. \A r \in T : \E x \in S : l[x] = r
    BY DEF ToSet
  <1> HIDE DEF S, T
  <1>3. f \in [S -> T] /\ \A r \in T : \E x \in S : f[x] = r
    BY <1>1, <1>2
  <1>4. f \in Surjection(S, T)
    BY <1>3 DEF Surjection
  <1>5. IsFiniteSet(S)
    BY DEF S
  <1> QED
    BY <1>4, <1>5, FS_Surjection DEF T

\* A family of subsets of a finite set has a member with none below it.
LEMMA MinimalSubset ==
  ASSUME NEW S, IsFiniteSet(S), NEW F \in SUBSET (SUBSET S), F # {}
  PROVE  \E X \in F : \A Y \in F : Y \subseteq X => Y = X
  <1> DEFINE below == StrictSubsetOrdering(S)
  <1>1. IsWellFoundedOn(below, SUBSET S)
    BY FS_StrictSubsetOrderingWellFounded, FS_FiniteSubsetsOfFinite
  <1> HIDE DEF below
  <1>2. PICK X \in F : \A Y \in F : <<Y, X>> \notin below
    BY <1>1, WFMin
  <1> QED
    BY <1>2 DEF below, StrictSubsetOrdering

\* Induction over the subsets of a finite set.
LEMMA SubsetInduction ==
  ASSUME NEW S, IsFiniteSet(S), NEW F,
         \A T \in SUBSET S : (\A U \in SUBSET T : U # T => U \in F) => T \in F
  PROVE  \A T \in SUBSET S : T \in F
  <1> DEFINE bad == {T \in SUBSET S : T \notin F}
  <1> SUFFICES ASSUME bad # {} PROVE FALSE
    OBVIOUS
  <1>1. bad \in SUBSET (SUBSET S)
    OBVIOUS
  <1> HIDE DEF bad
  <1>2. PICK X \in bad : \A Y \in bad : Y \subseteq X => Y = X
    BY <1>1, MinimalSubset
  <1> QED
    BY <1>2 DEF bad

\* Induction over the natural numbers, for a set of them.
LEMMA NatSetInduction ==
  ASSUME NEW T \in SUBSET Nat, 0 \in T, \A k \in T : k + 1 \in T
  PROVE  T = Nat
  <1> SUFFICES ASSUME NEW n \in Nat PROVE n \in T
    OBVIOUS
  <1> SUFFICES ASSUME n \notin T PROVE FALSE
    OBVIOUS
  <1> DEFINE S == 0 .. n
             F == {0 .. k : k \in {i \in 0 .. n : i \notin T}}
  <1>1. F \in SUBSET (SUBSET S) /\ F # {} /\ IsFiniteSet(S)
    <2>1. 0 .. n \in F
      OBVIOUS
    <2>2. IsFiniteSet(0 .. n)
      BY FS_Interval
    <2> QED
      BY <2>1, <2>2
  <1> HIDE DEF F, S
  <1>3. PICK X \in F : \A Y \in F : Y \subseteq X => Y = X
    BY <1>1, MinimalSubset
  <1>4. PICK k \in 0 .. n : k \notin T /\ X = 0 .. k
    BY <1>3 DEF F
  <1>5. k # 0 /\ k - 1 \in 0 .. n
    BY <1>4
  <1>6. k - 1 \notin T
    BY <1>4, <1>5
  <1>7. 0 .. (k - 1) \in F
    BY <1>5, <1>6 DEF F
  <1>8. 0 .. (k - 1) \subseteq X /\ k \in X /\ k \notin 0 .. (k - 1)
    BY <1>4, <1>5
  <1> QED
    BY <1>3, <1>7, <1>8

-----------------------------------------------------------------------------
\* The recursion of a fold over D: `pick` names the element of a set that is taken
\* off, `step` combines it with the value of what remains.
Solves(iter, D, base, pick, step) ==
  iter = [s \in SUBSET D |-> IF s = {} THEN base
                             ELSE step[<<pick[s], iter[s \ {pick[s]}]>>]]

\* What is picked is there.
Picks(pick, D) == \A s \in SUBSET D : s # {} => pick[s] \in s

\* Solutions on two larger sets agree on D: a fold over a part is the same in both.
LEMMA SolutionsAgree ==
  ASSUME NEW D, IsFiniteSet(D), NEW base, NEW pick, Picks(pick, D), NEW step,
         NEW C, NEW E, D \subseteq C, D \subseteq E, NEW f, NEW g,
         Solves(f, C, base, pick, step), Solves(g, E, base, pick, step)
  PROVE  f[D] = g[D]
  <1> DEFINE F == {s \in SUBSET D : f[s] = g[s]}
  <1>1. ASSUME NEW T \in SUBSET D, \A U \in SUBSET T : U # T => U \in F
        PROVE  T \in F
    <2>1. /\ f[T] = IF T = {} THEN base ELSE step[<<pick[T], f[T \ {pick[T]}]>>]
          /\ g[T] = IF T = {} THEN base ELSE step[<<pick[T], g[T \ {pick[T]}]>>]
      BY DEF Solves
    <2>2. CASE T = {}
      BY <2>1, <2>2
    <2>3. CASE T # {}
      <3>1. pick[T] \in T
        BY <2>3 DEF Picks
      <3>2. T \ {pick[T]} \in F
        BY <1>1, <3>1
      <3> QED
        BY <2>1, <2>3, <3>2
    <2> QED
      BY <2>2, <2>3
  <1> HIDE DEF F
  <1>2. D \in F
    BY <1>1, SubsetInduction
  <1> QED
    BY <1>2 DEF F

\* The recursion has a solution, so a fold is what its recursion says.
LEMMA SolutionExists ==
  ASSUME NEW D, IsFiniteSet(D), NEW V, NEW base \in V, NEW pick, Picks(pick, D),
         NEW step, \A x \in D, v \in V : step[<<x, v>>] \in V
  PROVE  \E iter \in [SUBSET D -> V] : Solves(iter, D, base, pick, step)
  <1> DEFINE F == {s \in SUBSET D :
                     \E g \in [SUBSET s -> V] : Solves(g, s, base, pick, step)}
             solution(s) == CHOOSE g \in [SUBSET s -> V] : Solves(g, s, base, pick, step)
             value == [s \in SUBSET D |-> solution(s)[s]]
  <1>1. ASSUME NEW T \in SUBSET D, \A U \in SUBSET T : U # T => U \in F
        PROVE  T \in F
    <2> DEFINE last == IF T = {} THEN base ELSE step[<<pick[T], value[T \ {pick[T]}]>>]
               g == [s \in SUBSET T |-> IF s = T THEN last ELSE value[s]]
    <2>1. \A U \in SUBSET T : U # T =>
            solution(U) \in [SUBSET U -> V] /\ Solves(solution(U), U, base, pick, step)
      BY <1>1
    <2> HIDE DEF solution
    <2>2. \A U \in SUBSET T : U # T => value[U] \in V
      BY <2>1
    <2>3. ASSUME NEW U \in SUBSET T, U # T
          PROVE  value[U] = IF U = {} THEN base ELSE step[<<pick[U], value[U \ {pick[U]}]>>]
      <3>1. value[U] = solution(U)[U]
        OBVIOUS
      <3>2. CASE U = {}
        BY <2>1, <2>3, <3>1, <3>2 DEF Solves
      <3>3. CASE U # {}
        <4> DEFINE W == U \ {pick[U]}
        <4>1. pick[U] \in U
          BY <3>3 DEF Picks
        <4>2. solution(U)[U] = step[<<pick[U], solution(U)[W]>>]
          BY <2>1, <2>3, <3>3 DEF Solves
        <4>3. Solves(solution(W), W, base, pick, step)
          BY <2>1, <4>1, <2>3
        <4>4. Solves(solution(U), U, base, pick, step)
          BY <2>1, <2>3
        <4>5. IsFiniteSet(W)
          BY FS_Subset
        <4>6. Picks(pick, W)
          BY DEF Picks
        <4>7. solution(U)[W] = solution(W)[W]
          <5> HIDE DEF W
          <5>1. W \subseteq U
            BY DEF W
          <5> QED
            BY <5>1, <4>3, <4>4, <4>5, <4>6, SolutionsAgree
        <4>8. value[W] = solution(W)[W]
          OBVIOUS
        <4> QED
          BY <3>1, <3>3, <4>2, <4>7, <4>8
      <3> QED
        BY <3>2, <3>3
    <2> HIDE DEF value
    <2>4. last \in V
      <3>1. CASE T = {}
        BY <3>1
      <3>2. CASE T # {}
        <4>1. pick[T] \in T /\ pick[T] \in D
          BY <3>2 DEF Picks
        <4>2. value[T \ {pick[T]}] \in V
          BY <2>2, <4>1
        <4> QED
          BY <3>2, <4>1, <4>2
      <3> QED
        BY <3>1, <3>2
    <2>5. g \in [SUBSET T -> V]
      BY <2>2, <2>4
    <2>6. Solves(g, T, base, pick, step)
      <3> DEFINE h == [s \in SUBSET T |-> IF s = {} THEN base
                                          ELSE step[<<pick[s], g[s \ {pick[s]}]>>]]
      <3>1. ASSUME NEW s \in SUBSET T
            PROVE  g[s] = h[s]
        <4>1. CASE s = {}
          BY <4>1, <2>3
        <4>2. CASE s # {}
          <5>1. pick[s] \in s
            BY <4>2 DEF Picks
          <5>2. g[s \ {pick[s]}] = value[s \ {pick[s]}]
            BY <5>1
          <5> QED
            BY <4>2, <5>2, <2>3
        <4> QED
          BY <4>1, <4>2
      <3> QED
        BY <3>1 DEF Solves
    <2> QED
      BY <2>5, <2>6
  <1> HIDE DEF F
  <1>2. D \in F
    BY <1>1, SubsetInduction
  <1> QED
    BY <1>2 DEF F

\* The smallest element of a set of numbers.
Smallest(D) == [s \in SUBSET D |-> Min(s)]

\* A set of numbers has a smallest one.
LEMMA SmallestExists ==
  ASSUME NEW n \in Nat, NEW s \in SUBSET (1 .. n), s # {}
  PROVE  Min(s) \in s /\ \A y \in s : Min(s) <= y
  <1> DEFINE S == 0 .. n
             F == {0 .. x : x \in s}
  <1>1. F \in SUBSET (SUBSET S) /\ F # {} /\ IsFiniteSet(S)
    <2>1. IsFiniteSet(0 .. n)
      BY FS_Interval
    <2>2. \A x \in s : 0 .. x \subseteq 0 .. n
      OBVIOUS
    <2> QED
      BY <2>1, <2>2
  <1> HIDE DEF F, S
  <1>2. PICK X \in F : \A Y \in F : Y \subseteq X => Y = X
    BY <1>1, MinimalSubset
  <1>3. PICK x \in s : X = 0 .. x
    BY <1>2 DEF F
  <1>4. ASSUME NEW y \in s PROVE x <= y
    <2> SUFFICES ASSUME y < x PROVE FALSE
      OBVIOUS
    <2>1. 0 .. y \in F /\ 0 .. y \subseteq X /\ x \in X /\ x \notin 0 .. y
      BY <1>3 DEF F
    <2> QED
      BY <1>2, <2>1
  <1>5. \E a \in s : \A y \in s : a <= y
    BY <1>4
  <1> QED
    BY <1>5 DEF Min

\* The largest element of a set of numbers.
Largest(D) == [s \in SUBSET D |-> Max(s)]

\* So has a largest one, whatever is taken off a set from above.
LEMMA LargestExists ==
  ASSUME NEW n \in Nat, NEW s \in SUBSET (1 .. n), s # {}
  PROVE  Max(s) \in s /\ \A y \in s : y <= Max(s)
  <1> DEFINE t == {n + 1 - x : x \in s}
  <1>1. t \in SUBSET (1 .. n) /\ t # {}
    <2>1. \A x \in s : x \in 1 .. n /\ n + 1 - x \in 1 .. n
      OBVIOUS
    <2>2. t # {}
      OBVIOUS
    <2> QED
      BY <2>1, <2>2
  <1>2. \A x \in s : n + 1 - x \in t /\ x \in Int
    OBVIOUS
  <1>3. \A y \in t : \E x \in s : y = n + 1 - x
    OBVIOUS
  <1> HIDE DEF t
  <1>4. Min(t) \in t /\ \A y \in t : Min(t) <= y
    BY <1>1, SmallestExists
  <1>5. PICK x \in s : Min(t) = n + 1 - x
    BY <1>3, <1>4
  <1>6. \A y \in s : y <= x
    BY <1>2, <1>4, <1>5
  <1>7. \E a \in s : \A y \in s : a >= y
    BY <1>2, <1>6
  <1> QED
    BY <1>2, <1>7 DEF Max

\* The first k of n, from which the largest is taken off.
LEMMA LastOfFirst ==
  ASSUME NEW n \in Nat, NEW k \in 1 .. n
  PROVE  /\ 1 .. k \in SUBSET (1 .. n) /\ 1 .. k # {}
         /\ Max(1 .. k) = k /\ (1 .. k) \ {k} = 1 .. (k - 1)
  <1> DEFINE s == 1 .. k
  <1>1. s \in SUBSET (1 .. n) /\ s # {} /\ k \in s /\ k \in Int /\ \A y \in s : y <= k /\ y \in Int
    OBVIOUS
  <1>2. (1 .. k) \ {k} = 1 .. (k - 1)
    OBVIOUS
  <1> HIDE DEF s
  <1>3. Max(s) \in s /\ \A y \in s : y <= Max(s)
    BY <1>1, LargestExists
  <1>4. Max(s) = k
    <2>1. Max(s) \in Int
      BY <1>1, <1>3
    <2> QED
      BY <1>1, <1>3, <2>1
  <1>5. s = 1 .. k
    BY DEF s
  <1> QED
    BY <1>1, <1>2, <1>4, <1>5

\* The last of n from k on, from which the smallest is taken off.
LEMMA FirstOfLast ==
  ASSUME NEW n \in Nat, NEW k \in 1 .. n
  PROVE  /\ k .. n \in SUBSET (1 .. n) /\ k .. n # {}
         /\ Min(k .. n) = k /\ (k .. n) \ {k} = (k + 1) .. n
  <1> DEFINE s == k .. n
  <1>1. s \in SUBSET (1 .. n) /\ s # {} /\ k \in s /\ k \in Int /\ \A y \in s : k <= y /\ y \in Int
    OBVIOUS
  <1>2. (k .. n) \ {k} = (k + 1) .. n
    OBVIOUS
  <1> HIDE DEF s
  <1>3. Min(s) \in s /\ \A y \in s : Min(s) <= y
    BY <1>1, SmallestExists
  <1>4. Min(s) = k
    <2>1. Min(s) \in Int
      BY <1>1, <1>3
    <2> QED
      BY <1>1, <1>3, <2>1
  <1>5. s = k .. n
    BY DEF s
  <1> QED
    BY <1>1, <1>2, <1>4, <1>5

\* What holds at 0 and passes from each number below n to the next holds up to n.
LEMMA UpTo ==
  ASSUME NEW n \in Nat, NEW S, 0 \in S, \A k \in 1 .. n : k - 1 \in S => k \in S
  PROVE  \A k \in 0 .. n : k \in S
  <1> DEFINE T == {k \in Nat : k <= n => k \in S}
  <1>1. 0 \in T
    OBVIOUS
  <1>2. ASSUME NEW k \in T PROVE k + 1 \in T
    <2> SUFFICES ASSUME k + 1 <= n PROVE k + 1 \in S
      OBVIOUS
    <2>1. k + 1 \in 1 .. n /\ (k + 1) - 1 = k /\ k \in S
      OBVIOUS
    <2> QED
      BY <2>1
  <1>3. T \in SUBSET Nat
    OBVIOUS
  <1> HIDE DEF T
  <1>4. T = Nat
    BY <1>1, <1>2, <1>3, NatSetInduction
  <1> QED
    BY <1>4 DEF T

\* The same downwards.
LEMMA DownFrom ==
  ASSUME NEW n \in Nat, NEW S, n + 1 \in S, \A k \in 1 .. n : k + 1 \in S => k \in S
  PROVE  \A k \in 1 .. n + 1 : k \in S
  <1> DEFINE T == {d \in 0 .. n : n + 1 - d \in S}
  <1>1. 0 \in T
    OBVIOUS
  <1>2. ASSUME NEW d \in 1 .. n, d - 1 \in T PROVE d \in T
    <2>1. n + 1 - d \in 1 .. n /\ n + 1 - (d - 1) = (n + 1 - d) + 1
      OBVIOUS
    <2>2. (n + 1 - d) + 1 \in S
      BY <1>2, <2>1
    <2> QED
      BY <2>1, <2>2
  <1> HIDE DEF T
  <1>3. \A d \in 0 .. n : d \in T
    BY <1>1, <1>2, UpTo
  <1> SUFFICES ASSUME NEW k \in 1 .. n + 1 PROVE k \in S
    OBVIOUS
  <1>4. n + 1 - k \in 0 .. n /\ n + 1 - (n + 1 - k) = k
    OBVIOUS
  <1> QED
    BY <1>3, <1>4 DEF T

\* A fold over the tails of 1 .. n goes from each to the next longer one as h does.
Follows(iter, h, n) ==
  /\ iter[{}] = h[n + 1]
  /\ \A k \in 1 .. n : iter[k + 1 .. n] = h[k + 1] => iter[k .. n] = h[k]

\* What holds of the empty tail and passes from each tail of 1 .. n to the next
\* longer one holds of the whole: two functions of tails agree.
LEMMA TailsAgree ==
  ASSUME NEW n \in Nat, NEW iter, NEW h, Follows(iter, h, n)
  PROVE  iter[1 .. n] = h[1]
  <1> DEFINE T == {d \in Nat : d <= n => iter[n + 1 - d .. n] = h[n + 1 - d]}
  <1>1. 0 \in T
    <2>1. (n + 1 - 0) .. n = {} /\ n + 1 - 0 = n + 1
      OBVIOUS
    <2> QED
      BY <2>1 DEF Follows
  <1>2. ASSUME NEW d \in T PROVE d + 1 \in T
    <2> SUFFICES ASSUME d + 1 <= n
                 PROVE  iter[n + 1 - (d + 1) .. n] = h[n + 1 - (d + 1)]
      OBVIOUS
    <2>1. n + 1 - (d + 1) = n - d /\ n - d \in 1 .. n /\ n + 1 - d = (n - d) + 1
      OBVIOUS
    <2>2. iter[(n - d) + 1 .. n] = h[(n - d) + 1]
      BY <2>1
    <2> QED
      BY <2>1, <2>2 DEF Follows
  <1> HIDE DEF T
  <1>3. T = Nat
    <2>1. T \in SUBSET Nat
      BY DEF T
    <2> QED
      BY <1>1, <1>2, <2>1, NatSetInduction
  <1>4. n \in T
    BY <1>3
  <1>5. n + 1 - n = 1
    OBVIOUS
  <1> QED
    BY <1>4, <1>5 DEF T

-----------------------------------------------------------------------------
(* Sums.                                                                   *)

Numbers(f, D) == \A x \in D : f[x] \in Int
Alike(f, g, D) == \A x \in D : f[x] = g[x]

Ones(f, D) == \A x \in D : f[x] = 1

\* A set in finite parts.
FiniteParts(part, P) == \A p \in P : IsFiniteSet(part[p])
Apart(part, P) == \A p, q \in P : p # q => part[p] \cap part[q] = {}
NumbersIn(f, part, P) == \A p \in P : Numbers(f, part[p])
PartSums(g, f, part, P) == \A p \in P : g[p] = SumFunctionOnSet(f, part[p])

\* One name in E for each member of D.
Renames(name, D, E) ==
  /\ \A x \in D : name[x] \in E
  /\ \A x, y \in D : name[x] = name[y] => x = y
  /\ \A e \in E : \E x \in D : name[x] = e
Through(f, g, name, D) == \A x \in D : f[x] = g[name[x]]

\* Adding up a family, one member after another.
Sums(f, iter, D) ==
  iter = [s \in SUBSET D |-> IF s = {} THEN 0
                             ELSE f[CHOOSE x \in s : TRUE] + iter[s \ {CHOOSE x \in s : TRUE}]]

\* Any element of a set, of which there is one.
Anyone(D) == [s \in SUBSET D |-> CHOOSE x \in s : TRUE]

LEMMA SumsExist ==
  ASSUME NEW D, IsFiniteSet(D), NEW f, Numbers(f, D)
  PROVE  \E iter \in [SUBSET D -> Int] : Sums(f, iter, D)
  <1> DEFINE step == [p \in D \X Int |-> f[p[1]] + p[2]]
  <1>1. \A x \in D, v \in Int : step[<<x, v>>] = f[x] + v /\ step[<<x, v>>] \in Int
    BY DEF Numbers
  <1>2. Picks(Anyone(D), D)
    BY DEF Picks, Anyone
  <1> HIDE DEF step
  <1>3. PICK iter \in [SUBSET D -> Int] : Solves(iter, D, 0, Anyone(D), step)
    <2>1. 0 \in Int /\ \A x \in D, v \in Int : step[<<x, v>>] \in Int
      BY <1>1
    <2> QED
      BY <1>2, <2>1, SolutionExists
  <1>4. ASSUME NEW s \in SUBSET D
        PROVE  iter[s] = IF s = {} THEN 0
                         ELSE f[CHOOSE x \in s : TRUE] + iter[s \ {CHOOSE x \in s : TRUE}]
    <2>1. iter[s] = IF s = {} THEN 0
                    ELSE step[<<Anyone(D)[s], iter[s \ {Anyone(D)[s]}]>>]
      BY <1>3 DEF Solves
    <2>2. Anyone(D)[s] = CHOOSE x \in s : TRUE
      BY DEF Anyone
    <2>3. s # {} => (CHOOSE x \in s : TRUE) \in D
      OBVIOUS
    <2> QED
      BY <1>1, <2>1, <2>2, <2>3
  <1> QED
    BY <1>4 DEF Sums

\* What is added up are numbers.
LEMMA SumsType ==
  ASSUME NEW D, IsFiniteSet(D), NEW f, Numbers(f, D), NEW iter, Sums(f, iter, D)
  PROVE  iter \in [SUBSET D -> Int]
  <1> DEFINE F == {s \in SUBSET D : iter[s] \in Int}
  <1>1. ASSUME NEW T \in SUBSET D, \A U \in SUBSET T : U # T => U \in F
        PROVE  T \in F
    <2> DEFINE p == CHOOSE x \in T : TRUE
    <2>1. iter[T] = IF T = {} THEN 0 ELSE f[p] + iter[T \ {p}]
      BY DEF Sums
    <2>2. T # {} => p \in T
      OBVIOUS
    <2> HIDE DEF p
    <2>3. T # {} => iter[T \ {p}] \in Int /\ f[p] \in Int
      BY <1>1, <2>2 DEF Numbers
    <2> QED
      BY <2>1, <2>3
  <1> HIDE DEF F
  <1>2. \A s \in SUBSET D : s \in F
    BY <1>1, SubsetInduction
  <1> QED
    BY <1>2 DEF F, Sums

\* They come to one result.
LEMMA SumsAgree ==
  ASSUME NEW D, IsFiniteSet(D), NEW S \in SUBSET D, NEW f, NEW g, Alike(f, g, S),
         NEW iter, Sums(f, iter, D), NEW jter, Sums(g, jter, S)
  PROVE  \A s \in SUBSET S : iter[s] = jter[s]
  <1> DEFINE F == {s \in SUBSET S : iter[s] = jter[s]}
  <1>1. ASSUME NEW T \in SUBSET S, \A U \in SUBSET T : U # T => U \in F
        PROVE  T \in F
    <2> DEFINE p == CHOOSE x \in T : TRUE
    <2>1. iter[T] = IF T = {} THEN 0 ELSE f[p] + iter[T \ {p}]
      BY DEF Sums
    <2>2. jter[T] = IF T = {} THEN 0 ELSE g[p] + jter[T \ {p}]
      BY DEF Sums
    <2>3. T # {} => p \in T
      OBVIOUS
    <2> HIDE DEF p
    <2>4. T # {} => iter[T \ {p}] = jter[T \ {p}] /\ f[p] = g[p]
      BY <1>1, <2>3 DEF Alike
    <2> QED
      BY <2>1, <2>2, <2>4
  <1> HIDE DEF F
  <1>2. IsFiniteSet(S)
    BY FS_Subset
  <1>3. \A s \in SUBSET S : s \in F
    BY <1>1, <1>2, SubsetInduction
  <1> QED
    BY <1>3 DEF F

Splits(iter, f, D) == \A s \in SUBSET D : \A y \in s : iter[s] = f[y] + iter[s \ {y}]

\* Each member counts once, whichever is added first.
LEMMA SumsSplit ==
  ASSUME NEW D, IsFiniteSet(D), NEW f, Numbers(f, D), NEW iter, Sums(f, iter, D)
  PROVE  Splits(iter, f, D)
  <1> DEFINE F == {s \in SUBSET D : \A y \in s : iter[s] = f[y] + iter[s \ {y}]}
  <1>1. ASSUME NEW T \in SUBSET D, \A U \in SUBSET T : U # T => U \in F
        PROVE  T \in F
    <2> SUFFICES ASSUME NEW y \in T PROVE iter[T] = f[y] + iter[T \ {y}]
      OBVIOUS
    <2> DEFINE p == CHOOSE x \in T : TRUE
    <2>1. p \in T
      OBVIOUS
    <2>2. iter[T] = f[p] + iter[T \ {p}]
      BY DEF Sums
    <2> HIDE DEF p
    <2>3. CASE p = y
      BY <2>2, <2>3
    <2>4. CASE p # y
      <3>1. T \ {p} \in F /\ T \ {y} \in F
        BY <1>1, <2>1
      <3>2. iter[T \ {p}] = f[y] + iter[(T \ {p}) \ {y}]
        BY <2>4, <3>1
      <3>3. iter[T \ {y}] = f[p] + iter[(T \ {y}) \ {p}]
        BY <2>1, <2>4, <3>1
      <3>4. (T \ {p}) \ {y} = (T \ {y}) \ {p}
        OBVIOUS
      <3>5. /\ f[p] \in Int /\ f[y] \in Int /\ iter[(T \ {y}) \ {p}] \in Int
        <4>1. iter \in [SUBSET D -> Int]
          BY SumsType
        <4> QED
          BY <2>1, <4>1 DEF Numbers
      <3> DEFINE rest == iter[(T \ {y}) \ {p}]
      <3>6. iter[T] = f[p] + (f[y] + rest)
        BY <2>2, <3>2, <3>4
      <3>7. iter[T \ {y}] = f[p] + rest
        BY <3>3
      <3>8. rest \in Int /\ f[p] \in Int /\ f[y] \in Int
        BY <3>5
      <3> HIDE DEF rest
      <3>9. \A i, j, k \in Int : i + (j + k) = j + (i + k)
        OBVIOUS
      <3> QED
        BY <3>6, <3>7, <3>8, <3>9
    <2> QED
      BY <2>3, <2>4
  <1> HIDE DEF F
  <1>2. \A s \in SUBSET D : s \in F
    BY <1>1, SubsetInduction
  <1> QED
    BY <1>2 DEF F, Splits

\* The sum over a set is what adding it up comes to.
LEMMA SumSums ==
  ASSUME NEW D, IsFiniteSet(D), NEW f, Numbers(f, D)
  PROVE  \E iter \in [SUBSET D -> Int] : Sums(f, iter, D) /\ SumFunctionOnSet(f, D) = iter[D]
  <1> DEFINE iter == CHOOSE g : g = [s \in SUBSET D |-> IF s = {} THEN 0
                             ELSE f[CHOOSE x \in s : TRUE] + g[s \ {CHOOSE x \in s : TRUE}]]
  <1>1. SumFunctionOnSet(f, D) = iter[D]
    BY DEF SumFunctionOnSet, FoldFunctionOnSet, MapThenFoldSet
  <1>2. PICK h \in [SUBSET D -> Int] : Sums(f, h, D)
    BY SumsExist
  <1>3. \E g : g = [s \in SUBSET D |-> IF s = {} THEN 0
                      ELSE f[CHOOSE x \in s : TRUE] + g[s \ {CHOOSE x \in s : TRUE}]]
    BY <1>2 DEF Sums
  <1>4. Sums(f, iter, D)
    BY <1>3 DEF Sums
  <1> HIDE DEF iter
  <1>5. iter \in [SUBSET D -> Int]
    BY <1>4, SumsType
  <1> QED
    BY <1>1, <1>4, <1>5

LEMMA SumType ==
  ASSUME NEW D, IsFiniteSet(D), NEW f, Numbers(f, D)
  PROVE  SumFunctionOnSet(f, D) \in Int
  <1>1. PICK iter \in [SUBSET D -> Int] : Sums(f, iter, D) /\ SumFunctionOnSet(f, D) = iter[D]
    BY SumSums
  <1>2. D \in SUBSET D
    OBVIOUS
  <1> QED
    BY <1>1, <1>2

\* The members decide the sum.
LEMMA SumSame ==
  ASSUME NEW D, IsFiniteSet(D), NEW f, Numbers(f, D), NEW g, Alike(f, g, D)
  PROVE  SumFunctionOnSet(f, D) = SumFunctionOnSet(g, D)
  <1>1. Numbers(g, D)
    BY DEF Numbers, Alike
  <1>2. PICK iter \in [SUBSET D -> Int] : Sums(f, iter, D) /\ SumFunctionOnSet(f, D) = iter[D]
    BY SumSums
  <1>3. PICK jter \in [SUBSET D -> Int] : Sums(g, jter, D) /\ SumFunctionOnSet(g, D) = jter[D]
    BY <1>1, SumSums
  <1>4. D \in SUBSET D
    OBVIOUS
  <1>5. iter[D] = jter[D]
    BY <1>2, <1>3, <1>4, SumsAgree
  <1> QED
    BY <1>2, <1>3, <1>5

LEMMA SumOfNone ==
  ASSUME NEW f
  PROVE  SumFunctionOnSet(f, {}) = 0
  <1>1. IsFiniteSet({}) /\ Numbers(f, {})
    BY FS_EmptySet DEF Numbers
  <1>2. PICK iter \in [SUBSET {} -> Int] : Sums(f, iter, {}) /\ SumFunctionOnSet(f, {}) = iter[{}]
    BY <1>1, SumSums
  <1> QED
    BY <1>2 DEF Sums

\* One member taken out.
LEMMA SumWithout ==
  ASSUME NEW D, IsFiniteSet(D), NEW f, Numbers(f, D), NEW y \in D
  PROVE  SumFunctionOnSet(f, D) = f[y] + SumFunctionOnSet(f, D \ {y})
  <1> DEFINE E == D \ {y}
  <1>1. IsFiniteSet(E) /\ E \in SUBSET D /\ Numbers(f, E) /\ Alike(f, f, E)
    BY FS_Subset DEF Numbers, Alike
  <1> HIDE DEF E
  <1>2. PICK iter \in [SUBSET D -> Int] : Sums(f, iter, D) /\ SumFunctionOnSet(f, D) = iter[D]
    BY SumSums
  <1>3. PICK jter \in [SUBSET E -> Int] : Sums(f, jter, E) /\ SumFunctionOnSet(f, E) = jter[E]
    BY <1>1, SumSums
  <1>6. E \in SUBSET E
    OBVIOUS
  <1>4. iter[E] = jter[E]
    BY <1>1, <1>2, <1>3, <1>6, SumsAgree
  <1>7. D \in SUBSET D
    OBVIOUS
  <1>8. Splits(iter, f, D)
    BY <1>2, SumsSplit
  <1>5. iter[D] = f[y] + iter[D \ {y}]
    BY <1>7, <1>8 DEF Splits
  <1>9. E = D \ {y}
    BY DEF E
  <1> QED
    BY <1>2, <1>3, <1>4, <1>5, <1>9

\* Two sets without a common member.
LEMMA SumOfUnion ==
  ASSUME NEW A, IsFiniteSet(A), NEW B, IsFiniteSet(B), A \cap B = {},
         NEW f, Numbers(f, A \cup B)
  PROVE  SumFunctionOnSet(f, A \cup B) = SumFunctionOnSet(f, A) + SumFunctionOnSet(f, B)
  <1> DEFINE F == {s \in SUBSET A : SumFunctionOnSet(f, s \cup B)
                                     = SumFunctionOnSet(f, s) + SumFunctionOnSet(f, B)}
  <1>1. ASSUME NEW S \in SUBSET A, \A U \in SUBSET S : U # S => U \in F
        PROVE  S \in F
    <2>1. IsFiniteSet(S) /\ IsFiniteSet(S \cup B)
      BY FS_Subset, FS_Union
    <2>5. Numbers(f, B) /\ Numbers(f, S) /\ Numbers(f, S \cup B)
      BY DEF Numbers
    <2>2. SumFunctionOnSet(f, B) \in Int
      BY <2>5, SumType
    <2>3. CASE S = {}
      <3>1. SumFunctionOnSet(f, {}) = 0 /\ S \cup B = B
        BY <2>3, SumOfNone
      <3>2. SumFunctionOnSet(f, S \cup B) = SumFunctionOnSet(f, S) + SumFunctionOnSet(f, B)
        BY <2>2, <2>3, <3>1
      <3> QED
        BY <3>2
    <2>4. CASE S # {}
      <3>1. PICK y \in S : TRUE
        BY <2>4
      <3> DEFINE U == S \ {y}
      <3>2. U \in F /\ (S \cup B) \ {y} = U \cup B /\ IsFiniteSet(U)
        BY <1>1, <2>1, <3>1, FS_Subset
      <3>3. SumFunctionOnSet(f, S) = f[y] + SumFunctionOnSet(f, U)
        BY <2>1, <2>5, <3>1, SumWithout
      <3>4. SumFunctionOnSet(f, S \cup B) = f[y] + SumFunctionOnSet(f, (S \cup B) \ {y})
        <4>1. y \in S \cup B
          BY <3>1
        <4> QED
          BY <2>1, <2>5, <4>1, SumWithout
      <3>7. Numbers(f, U) /\ f[y] \in Int
        BY <2>5, <3>1 DEF Numbers
      <3>5. SumFunctionOnSet(f, U) \in Int /\ f[y] \in Int
        BY <3>2, <3>7, SumType
      <3>6. SumFunctionOnSet(f, U \cup B) = SumFunctionOnSet(f, U) + SumFunctionOnSet(f, B)
        BY <3>2
      <3>9. SumFunctionOnSet(f, S \cup B) = f[y] + SumFunctionOnSet(f, U \cup B)
        BY <3>2, <3>4
      <3> DEFINE u == SumFunctionOnSet(f, U)
                 b == SumFunctionOnSet(f, B)
      <3>10. f[y] \in Int /\ u \in Int /\ b \in Int
        BY <2>2, <3>5
      <3>11. SumFunctionOnSet(f, S) = f[y] + u /\ SumFunctionOnSet(f, S \cup B) = f[y] + (u + b)
        BY <3>3, <3>6, <3>9
      <3>8. SumFunctionOnSet(f, S \cup B) = SumFunctionOnSet(f, S) + b
        <4> HIDE DEF u, b
        <4> QED
          BY <3>10, <3>11
      <3> QED
        BY <3>8
    <2> QED
      BY <2>3, <2>4
  <1> HIDE DEF F
  <1>2. A \in F
    BY <1>1, SubsetInduction
  <1> QED
    BY <1>2 DEF F

\* A set in parts: each part is added up, and then the results.
LEMMA SumOverParts ==
  ASSUME NEW P, IsFiniteSet(P), NEW part, FiniteParts(part, P), Apart(part, P),
         NEW f, NumbersIn(f, part, P), NEW g, PartSums(g, f, part, P)
  PROVE  LET all == UNION {part[p] : p \in P}
         IN  IsFiniteSet(all) /\ SumFunctionOnSet(f, all) = SumFunctionOnSet(g, P)
  <1> DEFINE all(s) == UNION {part[p] : p \in s}
             F == {s \in SUBSET P : /\ IsFiniteSet(all(s))
                                     /\ SumFunctionOnSet(f, all(s)) = SumFunctionOnSet(g, s)}
  <1>1. ASSUME NEW S \in SUBSET P, \A U \in SUBSET S : U # S => U \in F
        PROVE  S \in F
    <2>1. CASE S = {}
      <3>1. all(S) = {}
        BY <2>1
      <3> QED
        BY <2>1, <3>1, SumOfNone, FS_EmptySet
    <2>2. CASE S # {}
      <3>1. PICK y \in S : TRUE
        BY <2>2
      <3> DEFINE U == S \ {y}
      <3>2. U \in F
        BY <1>1, <3>1
      <3>3. all(S) = part[y] \cup all(U) /\ part[y] \cap all(U) = {}
        BY <3>1 DEF Apart
      <3>4. IsFiniteSet(all(U)) /\ IsFiniteSet(part[y]) /\ IsFiniteSet(S)
        BY <3>1, <3>2, FS_Subset DEF FiniteParts
      <3>5. Numbers(f, part[y] \cup all(U))
        BY <3>1 DEF NumbersIn, Numbers
      <3>6. SumFunctionOnSet(f, all(U)) = SumFunctionOnSet(g, U)
        BY <3>2
      <3>7. Numbers(g, S)
        <4> SUFFICES ASSUME NEW p \in S PROVE g[p] \in Int
          BY DEF Numbers
        <4>1. IsFiniteSet(part[p]) /\ Numbers(f, part[p]) /\ g[p] = SumFunctionOnSet(f, part[p])
          BY DEF FiniteParts, NumbersIn, PartSums
        <4> QED
          BY <4>1, SumType
      <3>8. SumFunctionOnSet(g, S) = g[y] + SumFunctionOnSet(g, U)
        BY <3>1, <3>4, <3>7, SumWithout
      <3>10. g[y] = SumFunctionOnSet(f, part[y])
        BY <3>1 DEF PartSums
      <3> HIDE DEF all, U
      <3>9. SumFunctionOnSet(f, part[y] \cup all(U))
              = SumFunctionOnSet(f, part[y]) + SumFunctionOnSet(f, all(U))
        BY <3>3, <3>4, <3>5, SumOfUnion
      <3>13. IsFiniteSet(part[y] \cup all(U))
        BY <3>4, FS_Union
      <3>11. IsFiniteSet(all(S))
        BY <3>3, <3>13
      <3>12. SumFunctionOnSet(f, all(S)) = SumFunctionOnSet(g, S)
        BY <3>3, <3>6, <3>8, <3>9, <3>10
      <3> QED
        BY <3>11, <3>12 DEF all
    <2> QED
      BY <2>1, <2>2
  <1> HIDE DEF F
  <1>2. P \in F
    BY <1>1, SubsetInduction
  <1> QED
    BY <1>2 DEF F

\* One member.
LEMMA SumOfOne ==
  ASSUME NEW x, NEW f, f[x] \in Int
  PROVE  SumFunctionOnSet(f, {x}) = f[x]
  <1>1. IsFiniteSet({x}) /\ {x} \ {x} = {} /\ Numbers(f, {x}) /\ x \in {x}
    BY FS_Singleton DEF Numbers
  <1>2. SumFunctionOnSet(f, {x}) = f[x] + SumFunctionOnSet(f, {x} \ {x})
    BY <1>1, SumWithout
  <1> QED
    BY <1>1, <1>2, SumOfNone

\* The same numbers under other names.
LEMMA SumRenamed ==
  ASSUME NEW D, IsFiniteSet(D), NEW E, NEW name, Renames(name, D, E),
         NEW g, Numbers(g, E), NEW f, Through(f, g, name, D)
  PROVE  SumFunctionOnSet(f, D) = SumFunctionOnSet(g, E)
  <1> DEFINE part == [x \in D |-> {name[x]}]
  <1>1. FiniteParts(part, D)
    BY FS_Singleton DEF FiniteParts
  <1>2. Apart(part, D)
    BY DEF Apart, Renames
  <1>3. NumbersIn(g, part, D)
    BY DEF NumbersIn, Numbers, Renames
  <1>4. PartSums(f, g, part, D)
    <2> SUFFICES ASSUME NEW x \in D PROVE f[x] = SumFunctionOnSet(g, part[x])
      BY DEF PartSums
    <2>1. g[name[x]] \in Int /\ f[x] = g[name[x]] /\ part[x] = {name[x]}
      BY DEF Numbers, Renames, Through
    <2> HIDE DEF part
    <2> QED
      BY <2>1, SumOfOne
  <1>5. UNION {part[x] : x \in D} = E
    BY DEF Renames
  <1> HIDE DEF part
  <1> QED
    BY <1>1, <1>2, <1>3, <1>4, <1>5, SumOverParts

\* Ones add up to a number of members.
LEMMA SumOfOnes ==
  ASSUME NEW D, IsFiniteSet(D), NEW f, Ones(f, D)
  PROVE  SumFunctionOnSet(f, D) = Cardinality(D)
  <1> DEFINE F == {s \in SUBSET D : SumFunctionOnSet(f, s) = Cardinality(s)}
  <1>1. ASSUME NEW S \in SUBSET D, \A U \in SUBSET S : U # S => U \in F
        PROVE  S \in F
    <2>1. CASE S = {}
      BY <2>1, SumOfNone, FS_EmptySet
    <2>2. CASE S # {}
      <3>1. PICK y \in S : TRUE
        BY <2>2
      <3>2. IsFiniteSet(S) /\ Cardinality(S) \in Nat /\ Numbers(f, S)
        BY FS_Subset, FS_CardinalityType DEF Ones, Numbers
      <3>3. S \ {y} \in F /\ f[y] = 1
        BY <1>1, <3>1 DEF Ones
      <3>4. Cardinality(S \ {y}) = Cardinality(S) - 1
        BY <3>1, <3>2, FS_RemoveElement
      <3>5. SumFunctionOnSet(f, S) = f[y] + SumFunctionOnSet(f, S \ {y})
        BY <3>1, <3>2, SumWithout
      <3> QED
        BY <3>2, <3>3, <3>4, <3>5
    <2> QED
      BY <2>1, <2>2
  <1> HIDE DEF F
  <1>2. D \in F
    BY <1>1, SubsetInduction
  <1> QED
    BY <1>2 DEF F

\* Counted by their first components, pairs are all counted.
LEMMA CountPairs ==
  ASSUME NEW D, IsFiniteSet(D), NEW of, FiniteParts(of, D),
         NEW g, \A x \in D : g[x] = Cardinality(of[x])
  PROVE  LET pairs == UNION {{x} \X of[x] : x \in D}
         IN  IsFiniteSet(pairs) /\ SumFunctionOnSet(g, D) = Cardinality(pairs)
  <1> DEFINE part == [x \in D |-> {x} \X of[x]]
             all  == UNION {part[x] : x \in D}
             one  == [p \in all |-> 1]
  <1>1. ASSUME NEW x \in D
        PROVE  IsFiniteSet(part[x]) /\ g[x] = SumFunctionOnSet(one, part[x])
    <2>1. IsFiniteSet({x}) /\ Cardinality({x}) = 1 /\ IsFiniteSet(of[x])
      BY FS_Singleton DEF FiniteParts
    <2>2. IsFiniteSet({x} \X of[x]) /\ Cardinality({x} \X of[x]) = 1 * Cardinality(of[x])
      BY <2>1, FS_Product
    <2>3. Cardinality(of[x]) \in Nat
      BY <2>1, FS_CardinalityType
    <2>4. Ones(one, part[x])
      BY DEF Ones
    <2>5. part[x] = {x} \X of[x]
      OBVIOUS
    <2>6. g[x] = Cardinality(of[x])
      OBVIOUS
    <2> HIDE DEF part, one
    <2>7. IsFiniteSet(part[x]) /\ Cardinality(part[x]) = Cardinality(of[x])
      BY <2>2, <2>3, <2>5
    <2> QED
      BY <2>4, <2>6, <2>7, SumOfOnes
  <1>2. Apart(part, D)
    BY DEF Apart
  <1>3. NumbersIn(one, part, D)
    BY DEF NumbersIn, Numbers
  <1>4. Ones(one, all)
    BY DEF Ones
  <1>5. all = UNION {{x} \X of[x] : x \in D}
    OBVIOUS
  <1> HIDE DEF one, part
  <1>6. FiniteParts(part, D) /\ PartSums(g, one, part, D)
    BY <1>1 DEF FiniteParts, PartSums
  <1>7. IsFiniteSet(all) /\ SumFunctionOnSet(one, all) = SumFunctionOnSet(g, D)
    BY <1>2, <1>3, <1>6, SumOverParts
  <1> HIDE DEF all
  <1>8. SumFunctionOnSet(one, all) = Cardinality(all)
    BY <1>4, <1>7, SumOfOnes
  <1> QED
    BY <1>5, <1>7, <1>8

\* The sums of the rows of a table.
RowSums(row, f, A, B) == \A a \in A : row[a] = SumFunctionOnSet([b \in B |-> f[<<a, b>>]], B)

\* Adding up the rows adds up the table.
LEMMA SumByRows ==
  ASSUME NEW A, IsFiniteSet(A), NEW B, IsFiniteSet(B), NEW f, Numbers(f, A \X B),
         NEW row, RowSums(row, f, A, B)
  PROVE  SumFunctionOnSet(f, A \X B) = SumFunctionOnSet(row, A)
  <1> DEFINE part == [a \in A |-> {a} \X B]
  <1>1. ASSUME NEW a \in A
        PROVE  IsFiniteSet(part[a]) /\ row[a] = SumFunctionOnSet(f, part[a])
    <2> DEFINE name == [b \in B |-> <<a, b>>]
               along == [b \in B |-> f[<<a, b>>]]
               line == {a} \X B
    <2>1. IsFiniteSet({a} \X B)
      BY FS_Singleton, FS_Product
    <2>2. Renames(name, B, line) /\ Through(along, f, name, B) /\ Numbers(f, line)
      BY DEF Renames, Through, Numbers
    <2>3. row[a] = SumFunctionOnSet(along, B)
      BY DEF RowSums
    <2>4. part[a] = line
      OBVIOUS
    <2> HIDE DEF name, along, line, part
    <2>5. SumFunctionOnSet(along, B) = SumFunctionOnSet(f, line)
      BY <2>2, SumRenamed
    <2> QED
      BY <2>1, <2>3, <2>4, <2>5 DEF line
  <1>2. Apart(part, A)
    BY DEF Apart
  <1>3. NumbersIn(f, part, A)
    BY DEF NumbersIn, Numbers
  <1>4. UNION {part[a] : a \in A} = A \X B
    OBVIOUS
  <1> HIDE DEF part
  <1>5. FiniteParts(part, A) /\ PartSums(row, f, part, A)
    BY <1>1 DEF FiniteParts, PartSums
  <1> QED
    BY <1>2, <1>3, <1>4, <1>5, SumOverParts

\* The sums of its columns.
ColumnSums(col, f, A, B) == \A b \in B : col[b] = SumFunctionOnSet([a \in A |-> f[<<a, b>>]], A)

\* Adding up the columns adds up the table as well.
LEMMA SumsCommute ==
  ASSUME NEW A, IsFiniteSet(A), NEW B, IsFiniteSet(B), NEW f, Numbers(f, A \X B),
         NEW row, RowSums(row, f, A, B),
         NEW col, ColumnSums(col, f, A, B)
  PROVE  SumFunctionOnSet(row, A) = SumFunctionOnSet(col, B)
  <1> DEFINE name == [p \in B \X A |-> <<p[2], p[1]>>]
             flip == [p \in B \X A |-> f[<<p[2], p[1]>>]]
  <1>1. IsFiniteSet(B \X A)
    BY FS_Product
  <1>2. Through(flip, f, name, B \X A)
    BY DEF Through
  <1>8. Renames(name, B \X A, A \X B)
    <2>1. \A p \in B \X A : name[p] \in A \X B
      OBVIOUS
    <2>2. \A p, q \in B \X A : name[p] = name[q] => p = q
      OBVIOUS
    <2>3. ASSUME NEW e \in A \X B PROVE \E p \in B \X A : name[p] = e
      <3>1. <<e[2], e[1]>> \in B \X A /\ name[<<e[2], e[1]>>] = e
        OBVIOUS
      <3> QED
        BY <3>1
    <2> QED
      BY <2>1, <2>2, <2>3 DEF Renames
  <1>3. Numbers(flip, B \X A)
    BY DEF Numbers
  <1>4. RowSums(col, flip, B, A)
    <2> SUFFICES ASSUME NEW b \in B
                 PROVE  col[b] = SumFunctionOnSet([a \in A |-> flip[<<b, a>>]], A)
      BY DEF RowSums
    <2>2. col[b] = SumFunctionOnSet([a \in A |-> f[<<a, b>>]], A)
      BY DEF ColumnSums
    <2>1. [a \in A |-> flip[<<b, a>>]] = [a \in A |-> f[<<a, b>>]]
      OBVIOUS
    <2> HIDE DEF flip
    <2> QED
      BY <2>1, <2>2
  <1> HIDE DEF name, flip
  <1>5. SumFunctionOnSet(flip, B \X A) = SumFunctionOnSet(f, A \X B)
    BY <1>1, <1>2, <1>8, SumRenamed
  <1>6. SumFunctionOnSet(flip, B \X A) = SumFunctionOnSet(col, B)
    BY <1>3, <1>4, SumByRows
  <1>7. SumFunctionOnSet(f, A \X B) = SumFunctionOnSet(row, A)
    BY SumByRows
  <1> QED
    BY <1>5, <1>6, <1>7

LEMMA SumOfZeros ==
  ASSUME NEW D, IsFiniteSet(D), NEW f, \A x \in D : f[x] = 0
  PROVE  SumFunctionOnSet(f, D) = 0
  <1> DEFINE F == {s \in SUBSET D : SumFunctionOnSet(f, s) = 0}
  <1>1. ASSUME NEW S \in SUBSET D, \A U \in SUBSET S : U # S => U \in F
        PROVE  S \in F
    <2>1. CASE S = {}
      BY <2>1, SumOfNone
    <2>2. CASE S # {}
      <3>1. PICK y \in S : TRUE
        BY <2>2
      <3>2. IsFiniteSet(S) /\ Numbers(f, S) /\ f[y] = 0
        BY <3>1, FS_Subset DEF Numbers
      <3>3. S \ {y} \in F
        BY <1>1, <3>1
      <3>4. SumFunctionOnSet(f, S) = f[y] + SumFunctionOnSet(f, S \ {y})
        BY <3>1, <3>2, SumWithout
      <3> QED
        BY <3>2, <3>3, <3>4
    <2> QED
      BY <2>1, <2>2
  <1> HIDE DEF F
  <1>2. D \in F
    BY <1>1, SubsetInduction
  <1> QED
    BY <1>2 DEF F

\* The total of a family in which one member at most is not zero.
LEMMA TotalOfOne ==
  ASSUME NEW D, IsFiniteSet(D), NEW f \in [D -> Int], NEW x \in D,
         \A y \in D \ {x} : f[y] = 0
  PROVE  SumFunction(f) = f[x]
  <1>1. SumFunction(f) = SumFunctionOnSet(f, D) /\ Numbers(f, D) /\ f[x] \in Int
    BY DEF SumFunction, Numbers
  <1>2. SumFunctionOnSet(f, D) = f[x] + SumFunctionOnSet(f, D \ {x})
    BY <1>1, SumWithout
  <1>3. SumFunctionOnSet(f, D \ {x}) = 0
    <2>1. IsFiniteSet(D \ {x})
      BY FS_Subset
    <2> QED
      BY <2>1, SumOfZeros
  <1> QED
    BY <1>1, <1>2, <1>3

\* The total of two.
LEMMA TotalOfTwo ==
  ASSUME NEW a, NEW b, a # b, NEW f \in [{a, b} -> Int]
  PROVE  SumFunction(f) = f[a] + f[b]
  <1>1. IsFiniteSet({a, b})
    <2>1. IsFiniteSet({a}) /\ {a, b} = {a} \cup {b}
      BY FS_Singleton
    <2> QED
      BY <2>1, FS_AddElement
  <1>2. /\ SumFunction(f) = SumFunctionOnSet(f, {a, b}) /\ Numbers(f, {a, b})
        /\ a \in {a, b} /\ {a, b} \ {a} = {b} /\ f[b] \in Int
    BY DEF SumFunction, Numbers
  <1>3. SumFunctionOnSet(f, {a, b}) = f[a] + SumFunctionOnSet(f, {a, b} \ {a})
    BY <1>1, <1>2, SumWithout
  <1>4. SumFunctionOnSet(f, {b}) = f[b]
    BY <1>2, SumOfOne
  <1> QED
    BY <1>2, <1>3, <1>4

\* The sum of what each member adds to two sums.
AddsUp(h, f, g, D) == \A x \in D : h[x] = f[x] + g[x]

\* Such a sum is the two sums added.
LEMMA SumsAdd ==
  ASSUME NEW D, IsFiniteSet(D), NEW f, Numbers(f, D), NEW g, Numbers(g, D), NEW h, AddsUp(h, f, g, D)
  PROVE  SumFunctionOnSet(h, D) = SumFunctionOnSet(f, D) + SumFunctionOnSet(g, D)
  <1> DEFINE two == {"f", "g"}
             both == [p \in D \X two |-> IF p[2] = "f" THEN f[p[1]] ELSE g[p[1]]]
             sums == [i \in two |-> IF i = "f" THEN SumFunctionOnSet(f, D) ELSE SumFunctionOnSet(g, D)]
  <1>1. IsFiniteSet(two) /\ "f" # "g"
    <2>1. IsFiniteSet({"f"}) /\ IsFiniteSet({"g"}) /\ two = {"f"} \cup {"g"}
      BY FS_Singleton
    <2> QED
      BY <2>1, FS_Union
  <1>2. \A x \in D : both[<<x, "f">>] = f[x] /\ both[<<x, "g">>] = g[x]
    OBVIOUS
  <1>3. Numbers(both, D \X two)
    BY DEF Numbers
  <1>4. sums["f"] = SumFunctionOnSet(f, D) /\ sums["g"] = SumFunctionOnSet(g, D)
    OBVIOUS
  <1>5. SumFunctionOnSet(f, D) \in Int /\ SumFunctionOnSet(g, D) \in Int
    BY SumType
  <1>6. sums \in [two -> Int]
    BY <1>5
  <1>7. DOMAIN sums = two
    OBVIOUS
  <1> HIDE DEF both, sums
  <1>8. RowSums(h, both, D, two)
    <2> SUFFICES ASSUME NEW x \in D
                 PROVE  h[x] = SumFunctionOnSet([i \in two |-> both[<<x, i>>]], two)
      BY DEF RowSums
    <2> DEFINE pair == [i \in two |-> both[<<x, i>>]]
    <2>1. pair["f"] = f[x] /\ pair["g"] = g[x] /\ pair \in [two -> Int]
      BY <1>2 DEF Numbers
    <2>2. DOMAIN pair = two
      OBVIOUS
    <2> HIDE DEF pair
    <2>3. SumFunction(pair) = pair["f"] + pair["g"]
      BY <1>1, <2>1, TotalOfTwo
    <2>4. SumFunction(pair) = SumFunctionOnSet(pair, two)
      BY <2>2 DEF SumFunction
    <2>5. h[x] = SumFunctionOnSet(pair, two)
      BY <2>1, <2>3, <2>4 DEF AddsUp
    <2> QED
      BY <2>5 DEF pair
  <1>9. ColumnSums(sums, both, D, two)
    <2>1. ASSUME NEW i \in two, NEW k, Numbers(k, D), \A x \in D : both[<<x, i>>] = k[x],
                 sums[i] = SumFunctionOnSet(k, D)
          PROVE  sums[i] = SumFunctionOnSet([x \in D |-> both[<<x, i>>]], D)
      <3> DEFINE column == [x \in D |-> both[<<x, i>>]]
      <3>1. Alike(k, column, D)
        BY <2>1 DEF Alike
      <3> HIDE DEF column
      <3>2. SumFunctionOnSet(k, D) = SumFunctionOnSet(column, D)
        BY <2>1, <3>1, SumSame
      <3> QED
        BY <2>1, <3>2 DEF column
    <2>2. sums["f"] = SumFunctionOnSet([x \in D |-> both[<<x, "f">>]], D)
      BY <1>2, <1>4, <2>1
    <2>3. sums["g"] = SumFunctionOnSet([x \in D |-> both[<<x, "g">>]], D)
      BY <1>2, <1>4, <2>1
    <2> QED
      BY <2>2, <2>3 DEF ColumnSums
  <1>10. SumFunctionOnSet(h, D) = SumFunctionOnSet(sums, two)
    <2> HIDE DEF two
    <2> QED
      BY <1>1, <1>3, <1>8, <1>9, SumsCommute
  <1>11. SumFunction(sums) = sums["f"] + sums["g"]
    BY <1>1, <1>6, TotalOfTwo
  <1>12. SumFunction(sums) = SumFunctionOnSet(sums, two)
    BY <1>7 DEF SumFunction
  <1> QED
    BY <1>4, <1>10, <1>11, <1>12

-----------------------------------------------------------------------------
(* Sorting and ranking.                                                    *)

\* An order, as a set of pairs, that tells any two elements apart.
StrictOrder(rel, S) ==
  /\ \A x \in S : <<x, x>> \notin rel
  /\ \A x, y \in S : x # y => <<x, y>> \in rel \/ <<y, x>> \in rel
  /\ \A x, y, z \in S : <<x, y>> \in rel /\ <<y, z>> \in rel => <<x, z>> \in rel

Below(x, rel, S) == {y \in S : <<y, x>> \in rel}
CountsBelow(place, rel, S) == \A x \in S : place[x] = 1 + Cardinality(Below(x, rel, S))

\* Each place has the element whose place it is, if there is one.
ByPlace(o, place, S) ==
  /\ DOMAIN o = 1 .. Cardinality(S)
  /\ \A k \in DOMAIN o : (\E x \in S : place[x] = k) => o[k] \in S /\ place[o[k]] = k

\* Every element once, in order.
Lists(o, rel, S) ==
  /\ DOMAIN o = 1 .. Cardinality(S)
  /\ \A k \in DOMAIN o : o[k] \in S
  /\ \A x \in S : \E k \in DOMAIN o : o[k] = x
  /\ \A k, l \in DOMAIN o : k < l => <<o[k], o[l]>> \in rel

\* Where the place of an element is one more than the number of those before it,
\* every place is taken, by one element.
LEMMA PlacesList ==
  ASSUME NEW S, IsFiniteSet(S), NEW rel, StrictOrder(rel, S), NEW place, CountsBelow(place, rel, S),
         NEW o, ByPlace(o, place, S)
  PROVE  Lists(o, rel, S)
  <1> DEFINE n == Cardinality(S)
             f == [x \in S |-> place[x]]
  <1>1. n \in Nat /\ IsFiniteSet(1 .. n) /\ Cardinality(1 .. n) = n
    BY FS_CardinalityType, FS_Interval
  <1>2. ASSUME NEW x \in S
        PROVE  IsFiniteSet(Below(x, rel, S)) /\ Cardinality(Below(x, rel, S)) \in Nat /\ place[x] \in 1 .. n
    <2>1. Below(x, rel, S) \subseteq S /\ x \notin Below(x, rel, S)
      BY DEF Below, StrictOrder
    <2>2. IsFiniteSet(Below(x, rel, S)) /\ Cardinality(Below(x, rel, S)) <= n
          /\ Cardinality(Below(x, rel, S)) \in Nat
      BY <2>1, FS_Subset, FS_CardinalityType
    <2>3. Below(x, rel, S) # S
      BY <2>1
    <2>4. Cardinality(Below(x, rel, S)) # n
      BY <2>1, <2>3, FS_Subset
    <2> QED
      BY <1>1, <2>2, <2>4 DEF CountsBelow
  <1>3. ASSUME NEW x \in S, NEW y \in S, <<x, y>> \in rel
        PROVE  place[x] < place[y]
    <2>1. /\ Below(x, rel, S) \in SUBSET Below(y, rel, S)
          /\ x \in Below(y, rel, S) /\ x \notin Below(x, rel, S)
      BY <1>3 DEF Below, StrictOrder
    <2>2. /\ Cardinality(Below(x, rel, S)) <= Cardinality(Below(y, rel, S))
          /\ Cardinality(Below(x, rel, S)) # Cardinality(Below(y, rel, S))
      BY <1>2, <2>1, FS_Subset
    <2>3. place[x] = 1 + Cardinality(Below(x, rel, S)) /\ place[y] = 1 + Cardinality(Below(y, rel, S))
      BY DEF CountsBelow
    <2> QED
      BY <1>2, <2>2, <2>3
  <1>4. \A x, y \in S : place[x] = place[y] => x = y
    <2> SUFFICES ASSUME NEW x \in S, NEW y \in S, x # y PROVE place[x] # place[y]
      OBVIOUS
    <2>1. <<x, y>> \in rel \/ <<y, x>> \in rel
      BY DEF StrictOrder
    <2>2. place[x] \in Int /\ place[y] \in Int
      BY <1>1, <1>2
    <2> QED
      BY <1>3, <2>1, <2>2
  <1> HIDE DEF n
  <1>5. f \in Injection(S, 1 .. n)
    BY <1>2, <1>4 DEF Injection, IsInjective
  <1>6. f \in Surjection(S, 1 .. n)
    BY <1>1, <1>5, FS_Injection DEF n
  <1>7. ASSUME NEW k \in 1 .. n
        PROVE  o[k] \in S /\ place[o[k]] = k
    <2>1. \E x \in S : place[x] = k
      BY <1>6 DEF Surjection
    <2> QED
      BY <2>1 DEF n, ByPlace
  <1>8. DOMAIN o = 1 .. n
    BY DEF n, ByPlace
  <1>9. ASSUME NEW x \in S PROVE \E k \in 1 .. n : o[k] = x
    <2>1. place[x] \in 1 .. n
      BY <1>2
    <2>2. o[place[x]] = x
      BY <1>4, <1>7, <2>1
    <2> QED
      BY <2>1, <2>2
  <1>10. ASSUME NEW k \in 1 .. n, NEW l \in 1 .. n, k < l
         PROVE  <<o[k], o[l]>> \in rel
    <2>1. o[k] \in S /\ o[l] \in S /\ place[o[k]] = k /\ place[o[l]] = l
      BY <1>7
    <2>2. o[k] # o[l] /\ ~(place[o[l]] < place[o[k]])
      BY <1>1, <1>10, <2>1
    <2>3. <<o[k], o[l]>> \in rel \/ <<o[l], o[k]>> \in rel
      BY <2>1, <2>2 DEF StrictOrder
    <2> QED
      BY <1>3, <2>1, <2>2, <2>3
  <1> QED
    BY <1>7, <1>8, <1>9, <1>10 DEF Lists, n

\* The rows of one score stand together: whoever ties with a row ties with all in
\* between.
Together(key, n) == \A i, j, k \in 1 .. n : i <= j /\ j <= k /\ key[i] = key[k] => key[j] = key[k]

Openings(key, i) == {k \in 1 .. i : k = 1 \/ key[k] # key[k - 1]}

\* A row's place is one more than the number of rows above it with another score.
LEMMA PlaceOfFirst ==
  ASSUME NEW n \in Nat, NEW key, Together(key, n), NEW i \in 1 .. n
  PROVE  Max(Openings(key, i)) = 1 + Cardinality({j \in 1 .. n : j < i /\ key[j] # key[i]})
  <1> DEFINE ties == {j \in 1 .. n : j <= i /\ key[j] = key[i]}
  <1>1. PICK s \in ties : \A j \in ties : s <= j
    <2>1. ties \in SUBSET (1 .. n) /\ ties # {}
      OBVIOUS
    <2> HIDE DEF ties
    <2>2. Min(ties) \in ties /\ \A y \in ties : Min(ties) <= y
      BY <2>1, SmallestExists
    <2> QED
      BY <2>2
  <1>2. s \in 1 .. i /\ key[s] = key[i] /\ s \in Int
    BY <1>1
  <1>3. \A j \in 1 .. n : s <= j /\ j <= i => key[j] = key[i]
    BY <1>2 DEF Together
  <1>4. \A j \in 1 .. n : j < s => key[j] # key[i]
    BY <1>1, <1>2
  <1>5. s \in Openings(key, i)
    <2>1. CASE s = 1
      BY <1>2, <2>1 DEF Openings
    <2>2. CASE s # 1
      <3>1. s - 1 \in 1 .. n /\ s - 1 < s
        BY <1>2, <2>2
      <3>2. key[s - 1] # key[s]
        BY <1>2, <1>4, <3>1
      <3> QED
        BY <1>2, <3>2 DEF Openings
    <2> QED
      BY <2>1, <2>2
  <1>6. ASSUME NEW k \in Openings(key, i) PROVE k <= s
    <2> SUFFICES ASSUME ~(k <= s) PROVE FALSE
      OBVIOUS
    <2>1. k \in 1 .. i /\ k \in Int /\ s < k
      BY <1>2 DEF Openings
    <2>2. /\ k - 1 \in 1 .. n /\ s <= k - 1 /\ k - 1 <= i /\ k \in 1 .. n /\ s <= k /\ k <= i
          /\ k # 1
      BY <1>2, <2>1
    <2>3. key[k - 1] = key[i] /\ key[k] = key[i]
      BY <1>3, <2>2
    <2> QED
      BY <2>2, <2>3 DEF Openings
  <1>7. Max(Openings(key, i)) = s
    <2> DEFINE op == Openings(key, i)
    <2>1. \A x \in op : x \in Int
      BY DEF Openings
    <2>2. \A x \in op : (\A y \in op : x >= y) => x = s
      BY <1>2, <1>5, <1>6, <2>1
    <2>3. \E x \in op : \A y \in op : x >= y
      BY <1>2, <1>5, <1>6, <2>1
    <2> HIDE DEF op
    <2> QED
      BY <2>2, <2>3 DEF Max, op
  <1>8. {j \in 1 .. n : j < i /\ key[j] # key[i]} = 1 .. (s - 1)
    <2>1. \A j \in 1 .. n : j < i /\ key[j] # key[i] => j \in 1 .. (s - 1)
      BY <1>2, <1>3
    <2>2. \A j \in 1 .. (s - 1) : j \in 1 .. n /\ j < i /\ j < s
      BY <1>2
    <2> QED
      BY <1>4, <2>1, <2>2
  <1>9. Cardinality(1 .. (s - 1)) = s - 1
    <2>1. s - 1 \in Int /\ 1 \in Int /\ 1 <= s
      BY <1>2
    <2> QED
      BY <2>1, FS_Interval
  <1>10. Cardinality({j \in 1 .. n : j < i /\ key[j] # key[i]}) = s - 1
    BY <1>8, <1>9
  <1> QED
    BY <1>2, <1>7, <1>10

-----------------------------------------------------------------------------
(* Places, and counting in two ways.                                       *)

\* A finite family has finitely many values.
LEMMA FiniteImage ==
  ASSUME NEW D, IsFiniteSet(D), NEW l, DOMAIN l = D, NEW R, R = {l[x] : x \in D}
  PROVE  IsFiniteSet(R)
  <1>1. ToSet(l) = R
    BY DEF ToSet
  <1> QED
    BY <1>1, FiniteRows

\* A finite set of numbers has a largest one.
LEMMA MaxOfSome ==
  ASSUME NEW S \in SUBSET Int, IsFiniteSet(S), S # {}
  PROVE  Max(S) \in S /\ \A y \in S : y <= Max(S)
  <1> DEFINE F == {{y \in S : y > x} : x \in S}
             all == S
  <1>1. F \in SUBSET (SUBSET all) /\ F # {} /\ IsFiniteSet(all)
    OBVIOUS
  <1> HIDE DEF F, all
  <1>2. PICK X \in F : \A Y \in F : Y \subseteq X => Y = X
    BY <1>1, MinimalSubset
  <1>3. PICK x \in S : X = {y \in S : y > x}
    BY <1>2 DEF F
  <1>4. \A y \in S : y <= x
    <2> SUFFICES ASSUME NEW y \in S, ~(y <= x) PROVE FALSE
      OBVIOUS
    <2>1. x \in Int /\ y \in Int /\ y > x
      OBVIOUS
    <2> DEFINE higher == {z \in S : z > y}
    <2>2. higher \in F
      BY DEF F
    <2>4. higher \subseteq X
      <3>1. \A z \in S : z > y => z > x
        BY <2>1
      <3> QED
        BY <1>3, <3>1
    <2>3. y \in X /\ y \notin higher
      BY <1>3, <2>1
    <2> HIDE DEF higher
    <2> QED
      BY <1>2, <2>2, <2>3, <2>4
  <1>5. \E a \in S : \A y \in S : a >= y
    BY <1>4
  <1> QED
    BY <1>5 DEF Max

\* A finite family of whole numbers has a total.
LEMMA TotalType ==
  ASSUME NEW D, IsFiniteSet(D), NEW f, DOMAIN f = D, Numbers(f, D)
  PROVE  SumFunction(f) \in Int /\ SumFunction(f) = SumFunctionOnSet(f, D)
  BY SumType DEF SumFunction

\* A score that a sorted list goes through from the best to the worst: rows of one score
\* are not told apart by Better.
Scores(key, better, rel, S) ==
  /\ \A x, y \in S : <<x, y>> \in better <=> <<x, y>> \in rel /\ key[x] # key[y]
  /\ \A x, y, z \in S : <<x, y>> \in rel /\ <<y, z>> \in rel /\ key[x] = key[z] => key[y] = key[z]

\* The places such a list gives: one more than the number of better rows.
Placed(o, key, better, n) ==
  \A i \in 1 .. n : Max(Openings([k \in 1 .. n |-> key[o[k]]], i))
                      = 1 + Cardinality({j \in 1 .. n : <<o[j], o[i]>> \in better})

\* A list sorted by its score that opens a place where the score changes gives those places.
LEMMA RankedFairly ==
  ASSUME NEW S, NEW rel, StrictOrder(rel, S), NEW o, Lists(o, rel, S),
         NEW n \in Nat, n = Cardinality(S), NEW key, NEW better, Scores(key, better, rel, S)
  PROVE  Placed(o, key, better, n)
  <1> DEFINE at == [k \in 1 .. n |-> key[o[k]]]
  <1>1. /\ DOMAIN o = 1 .. n /\ \A k \in 1 .. n : o[k] \in S
        /\ \A k, l \in 1 .. n : k < l => <<o[k], o[l]>> \in rel
    BY DEF Lists
  <1>2. \A k \in 1 .. n : at[k] = key[o[k]]
    OBVIOUS
  <1> HIDE DEF at
  <1>3. Together(at, n)
    <2> SUFFICES ASSUME NEW i \in 1 .. n, NEW j \in 1 .. n, NEW k \in 1 .. n,
                        i <= j, j <= k, at[i] = at[k]
                 PROVE  at[j] = at[k]
      BY DEF Together
    <2>1. CASE i = j \/ j = k
      BY <2>1
    <2>2. CASE i < j /\ j < k
      <3>1. <<o[i], o[j]>> \in rel /\ <<o[j], o[k]>> \in rel /\ o[i] \in S /\ o[j] \in S /\ o[k] \in S
        BY <1>1, <2>2
      <3>2. key[o[i]] = key[o[k]]
        BY <1>2
      <3>3. key[o[j]] = key[o[k]]
        BY <3>1, <3>2 DEF Scores
      <3> QED
        BY <1>2, <3>3
    <2> QED
      BY <2>1, <2>2
  <1>4. ASSUME NEW i \in 1 .. n
        PROVE  {j \in 1 .. n : j < i /\ at[j] # at[i]} = {j \in 1 .. n : <<o[j], o[i]>> \in better}
    <2> SUFFICES ASSUME NEW j \in 1 .. n
                 PROVE  j < i /\ at[j] # at[i] <=> <<o[j], o[i]>> \in better
      OBVIOUS
    <2>1. o[j] \in S /\ o[i] \in S /\ at[j] = key[o[j]] /\ at[i] = key[o[i]]
      BY <1>1, <1>2
    <2>2. <<o[j], o[i]>> \in better <=> <<o[j], o[i]>> \in rel /\ at[j] # at[i]
      BY <2>1 DEF Scores
    <2>3. j < i => <<o[j], o[i]>> \in rel
      BY <1>1
    <2>4. i < j => <<o[j], o[i]>> \notin rel
      <3> SUFFICES ASSUME i < j, <<o[j], o[i]>> \in rel PROVE FALSE
        OBVIOUS
      <3>1. <<o[i], o[j]>> \in rel
        BY <1>1
      <3>2. <<o[i], o[i]>> \in rel
        BY <2>1, <3>1 DEF StrictOrder
      <3> QED
        BY <2>1, <3>2 DEF StrictOrder
    <2>5. j < i \/ i < j \/ i = j
      OBVIOUS
    <2> QED
      BY <2>2, <2>3, <2>4, <2>5
  <1>5. ASSUME NEW i \in 1 .. n
        PROVE  Max(Openings(at, i)) = 1 + Cardinality({j \in 1 .. n : <<o[j], o[i]>> \in better})
    <2>1. Max(Openings(at, i)) = 1 + Cardinality({j \in 1 .. n : j < i /\ at[j] # at[i]})
      BY <1>3, PlaceOfFirst
    <2> QED
      BY <1>4, <2>1
  <1>6. at = [k \in 1 .. n |-> key[o[k]]]
    BY DEF at
  <1> QED
    BY <1>5, <1>6 DEF Placed

\* Each element is listed once.
LEMMA ListedOnce ==
  ASSUME NEW S, NEW rel, StrictOrder(rel, S), NEW o, Lists(o, rel, S), NEW n \in Nat, n = Cardinality(S),
         NEW i \in 1 .. n, NEW j \in 1 .. n, o[i] = o[j]
  PROVE  i = j
  <1>1. o[i] \in S /\ <<o[i], o[i]>> \notin rel
    BY DEF Lists, StrictOrder
  <1>2. (i < j => <<o[i], o[j]>> \in rel) /\ (j < i => <<o[j], o[i]>> \in rel)
    BY DEF Lists
  <1>3. i < j \/ j < i \/ i = j
    OBVIOUS
  <1> QED
    BY <1>1, <1>2, <1>3

\* Two sets with the same names have the same number of elements.
LEMMA SameSize ==
  ASSUME NEW S, IsFiniteSet(S), NEW E, NEW f, Renames(f, S, E)
  PROVE  Cardinality(E) = Cardinality(S)
  <1> DEFINE g == [x \in S |-> f[x]]
  <1>1. g \in [S -> E]
    BY DEF Renames
  <1>2. g \in Injection(S, E) /\ g \in Surjection(S, E)
    BY <1>1 DEF Renames, Injection, IsInjective, Surjection
  <1>3. ExistsBijection(S, E)
    BY <1>2 DEF ExistsBijection, Bijection
  <1> QED
    BY <1>3, FS_Bijection

\* What a tournament lists under names, each name once, and which tournaments a name is on.
Matched(of, at, N, C, label) ==
  /\ \A t \in C : \A i \in at[t] : label[<<t, i>>] \in N /\ t \in of[label[<<t, i>>]]
  /\ \A t \in C : \A i, j \in at[t] : label[<<t, i>>] = label[<<t, j>>] => i = j
  /\ \A n \in N : \A t \in of[n] : t \in C /\ \E i \in at[t] : label[<<t, i>>] = n

\* Its values are the sizes of the sets.
Tallied(g, of, D) == \A x \in D : g[x] = Cardinality(of[x])

\* Counting by name or by tournament comes to the same.
LEMMA CountedTwice ==
  ASSUME NEW N, IsFiniteSet(N), NEW C, IsFiniteSet(C), NEW of, FiniteParts(of, N),
         NEW at, FiniteParts(at, C), NEW label, Matched(of, at, N, C, label),
         NEW g, Tallied(g, of, N), NEW h, Tallied(h, at, C)
  PROVE  SumFunctionOnSet(g, N) = SumFunctionOnSet(h, C)
  <1> DEFINE left == UNION {{n} \X of[n] : n \in N}
             right == UNION {{t} \X at[t] : t \in C}
             f == [p \in right |-> <<label[p], p[1]>>]
  <1>1. IsFiniteSet(left) /\ SumFunctionOnSet(g, N) = Cardinality(left)
    BY CountPairs DEF Tallied
  <1>2. IsFiniteSet(right) /\ SumFunctionOnSet(h, C) = Cardinality(right)
    BY CountPairs DEF Tallied
  <1>3. \A p \in right : p[1] \in C /\ p[2] \in at[p[1]] /\ p = <<p[1], p[2]>>
    OBVIOUS
  <1>4. \A p \in left : p[1] \in N /\ p[2] \in of[p[1]] /\ p = <<p[1], p[2]>>
    OBVIOUS
  <1>5. \A n \in N : \A t \in of[n] : <<n, t>> \in left
    OBVIOUS
  <1>6. \A t \in C : \A i \in at[t] : <<t, i>> \in right
    OBVIOUS
  <1>7. \A p \in right : f[p] = <<label[p], p[1]>>
    OBVIOUS
  <1> HIDE DEF left, right, f
  <1>8. \A p \in right : f[p] \in left
    <2> SUFFICES ASSUME NEW p \in right PROVE f[p] \in left
      OBVIOUS
    <2>1. label[p] \in N /\ p[1] \in of[label[p]]
      BY <1>3 DEF Matched
    <2> QED
      BY <1>5, <1>7, <2>1
  <1>9. ASSUME NEW p \in right, NEW q \in right, f[p] = f[q] PROVE p = q
    <2>1. label[p] = label[q] /\ p[1] = q[1]
      BY <1>7, <1>9
    <2>2. p[2] = q[2]
      BY <1>3, <2>1 DEF Matched
    <2> QED
      BY <1>3, <2>1, <2>2
  <1>10. ASSUME NEW e \in left PROVE \E p \in right : f[p] = e
    <2>1. e[1] \in N /\ e[2] \in of[e[1]] /\ e = <<e[1], e[2]>>
      BY <1>4
    <2>2. e[2] \in C /\ \E i \in at[e[2]] : label[<<e[2], i>>] = e[1]
      BY <2>1 DEF Matched
    <2>3. PICK i \in at[e[2]] : label[<<e[2], i>>] = e[1]
      BY <2>2
    <2>4. <<e[2], i>> \in right
      BY <1>6, <2>2
    <2>5. f[<<e[2], i>>] = <<e[1], e[2]>>
      BY <1>7, <2>3, <2>4
    <2> QED
      BY <2>1, <2>4, <2>5
  <1>11. Renames(f, right, left)
    BY <1>8, <1>9, <1>10 DEF Renames
  <1>12. Cardinality(left) = Cardinality(right)
    BY <1>2, <1>11, SameSize
  <1> QED
    BY <1>1, <1>2, <1>12
=============================================================================
