----------------------------- MODULE SeasonProofs -----------------------------
(***************************************************************************)
(* A season, for any managers, requests, results and rule sets.  First the *)
(* roles of a locked roster: the rules a list of roles is held to, what a  *)
(* log of roles says after rows are written to it, that what set_roles and *)
(* swap_roster decide leaves the roster complete, and that nothing changes *)
(* the entry between the decision and the writes.  Then the tables: that   *)
(* what they are folded from stays readable, that places are fair, that a  *)
(* hero has one price, and that a board pays for what was held and played. *)
(***************************************************************************)
EXTENDS Season, MatchScoringProofs, SequenceTheorems

-----------------------------------------------------------------------------
(* The rules.                                                              *)

\* A list of roles that breaks no rule keeps each of them.
LEMMA RulesKept ==
  ASSUME NEW ids, NEW pairs, NEW b, NEW required, NEW enforce, b # None
  PROVE  ValidateAssignments(ids, pairs, b, required, enforce) = {}
           <=> /\ ~UnknownRole(pairs, b)
               /\ ~RoleHeroNotOnRoster(ids, pairs)
               /\ ~RoleUnassigned(pairs, required)
               /\ ~(enforce /\ RoleCapExceeded(pairs, b))
  <1> DEFINE unknown == UnknownRole(pairs, b)
             off == RoleHeroNotOnRoster(ids, pairs)
             without == RoleUnassigned(pairs, required)
             over == enforce /\ RoleCapExceeded(pairs, b)
             rules == [UNKNOWN_ROLE |-> unknown, ROLE_HERO_NOT_ON_ROSTER |-> off,
                       ROLE_UNASSIGNED |-> without, ROLE_CAP_EXCEEDED |-> over]
  <1>1. ValidateAssignments(ids, pairs, b, required, enforce) = Broken(rules)
    BY DEF ValidateAssignments
  <1> HIDE DEF unknown, off, without, over
  <1>2. Broken(rules) = {} <=> ~unknown /\ ~off /\ ~without /\ ~over
    BY DEF Broken
  <1> QED
    BY <1>1, <1>2 DEF unknown, off, without, over

\* One that breaks at most the cap keeps the others.
LEMMA OthersKept ==
  ASSUME NEW ids, NEW pairs, NEW b, NEW required, b # None
  PROVE  ValidateAssignments(ids, pairs, b, required, TRUE) \subseteq {"ROLE_CAP_EXCEEDED"}
           <=> /\ ~UnknownRole(pairs, b)
               /\ ~RoleHeroNotOnRoster(ids, pairs)
               /\ ~RoleUnassigned(pairs, required)
  <1> DEFINE unknown == UnknownRole(pairs, b)
             off == RoleHeroNotOnRoster(ids, pairs)
             without == RoleUnassigned(pairs, required)
             over == TRUE /\ RoleCapExceeded(pairs, b)
             rules == [UNKNOWN_ROLE |-> unknown, ROLE_HERO_NOT_ON_ROSTER |-> off,
                       ROLE_UNASSIGNED |-> without, ROLE_CAP_EXCEEDED |-> over]
  <1>1. ValidateAssignments(ids, pairs, b, required, TRUE) = Broken(rules)
    BY DEF ValidateAssignments
  <1> HIDE DEF unknown, off, without, over
  <1>2. Broken(rules) \subseteq {"ROLE_CAP_EXCEEDED"} <=> ~unknown /\ ~off /\ ~without
    BY DEF Broken
  <1> QED
    BY <1>1, <1>2 DEF unknown, off, without

\* A list has the positions 1 to its length.
LEMMA ListPositions ==
  ASSUME NEW items, IsList(items)
  PROVE  /\ Len(items) \in Nat
         /\ DOMAIN items = 1 .. Len(items)
         /\ IsFiniteSet(DOMAIN items)
         /\ \A i \in DOMAIN items : items[i] \in ToSet(items)
         /\ \A x : Contains(items, x) <=> x \in ToSet(items)
  <1>1. Len(items) \in Nat /\ DOMAIN items = 1 .. Len(items)
    BY DEF IsList
  <1>2. IsFiniteSet(1 .. Len(items))
    BY <1>1, FS_Interval
  <1> QED
    BY <1>1, <1>2 DEF ToSet, Contains

\* A list without a duplicate has a hero at one place only.
LEMMA OnePlaceEach ==
  ASSUME NEW ids, IsList(ids), ~DuplicateHero(ids)
  PROVE  \A i, j \in DOMAIN ids : ids[i] = ids[j] => i = j
  <1> DEFINE n == Len(ids)
             f == [i \in 1 .. n |-> ids[i]]
  <1>1. n \in Nat /\ DOMAIN ids = 1 .. n
    BY ListPositions
  <1> HIDE DEF n
  <1>2. IsFiniteSet(1 .. n) /\ Cardinality(1 .. n) = n
    BY <1>1, FS_Interval
  <1>3. f \in Surjection(1 .. n, ToSet(ids))
    BY <1>1 DEF Surjection, ToSet
  <1>4. Cardinality(ToSet(ids)) <= n /\ (Cardinality(ToSet(ids)) = n <=> f \in Injection(1 .. n, ToSet(ids)))
    BY <1>2, <1>3, FS_Surjection
  <1>5. IsFiniteSet(ToSet(ids))
    BY <1>2, <1>3, FS_Surjection
  <1> HIDE DEF f
  <1>6. Cardinality(ToSet(ids)) \in Nat
    BY <1>5, FS_CardinalityType
  <1>7. f \in Injection(1 .. n, ToSet(ids))
    BY <1>1, <1>4, <1>6 DEF DuplicateHero, n
  <1>8. \A i, j \in DOMAIN f : f[i] = f[j] => i = j
    BY <1>7 DEF Injection, IsInjective
  <1>9. DOMAIN f = 1 .. n /\ \A i \in 1 .. n : f[i] = ids[i]
    BY DEF f
  <1> QED
    BY <1>1, <1>8, <1>9

-----------------------------------------------------------------------------
(* The log of roles.                                                       *)

\* A sound log is sound for any later round.
LEMMA LaterRound ==
  ASSUME NEW log, NEW r \in Nat, NEW q \in Nat, r <= q, SoundLog(log, r)
  PROVE  SoundLog(log, q)
  BY DEF SoundLog

\* A hero's last row is the role it has.
LEMMA LastRowIsCurrent ==
  ASSUME NEW log, NEW r \in Nat, SoundLog(log, r), NEW a \in log,
         \A c \in log : c.hero = a.hero => c.from <= a.from
  PROVE  /\ a.hero \in DOMAIN CurrentRoles(log)
         /\ CurrentRoles(log)[a.hero] = a.role
  <1> DEFINE latest == CHOOSE x \in log : x.hero = a.hero /\ \A y \in log : y.hero = a.hero => y.from <= x.from
  <1>1. latest \in log /\ latest.hero = a.hero /\ \A y \in log : y.hero = a.hero => y.from <= latest.from
    OBVIOUS
  <1>2. a.hero \in {x.hero : x \in log} /\ CurrentRoles(log)[a.hero] = latest.role
    BY DEF CurrentRoles
  <1> HIDE DEF latest
  <1>3. latest.from = a.from
    BY <1>1 DEF SoundLog
  <1>4. latest = a
    BY <1>1, <1>3 DEF SoundLog
  <1> QED
    BY <1>2, <1>4 DEF CurrentRoles

\* Who has a role has a last row.
LEMMA CurrentIsLastRow ==
  ASSUME NEW log, NEW r \in Nat, SoundLog(log, r), NEW h \in DOMAIN CurrentRoles(log)
  PROVE  \E a \in log : /\ a.hero = h /\ a.role = CurrentRoles(log)[h]
                        /\ \A c \in log : c.hero = h => c.from <= a.from
  <1>1. PICK x \in log : x.hero = h
    BY DEF CurrentRoles
  <1>2. PICK a \in log : a.hero = h /\ \A c \in log : c.hero = h => c.from <= a.from
    BY <1>1 DEF SoundLog
  <1> QED
    BY <1>2, LastRowIsCurrent

LEMMA UpsertRows ==
  ASSUME NEW log, NEW r, NEW pairs, NEW a
  PROVE  a \in UpsertEntryRoles(log, r, pairs)
           <=> \/ a \in log /\ \A p \in ToSet(pairs) : a.hero # p[1] \/ a.from # r
               \/ \E p \in ToSet(pairs) : a = [hero |-> p[1], from |-> r, role |-> p[2]]
  BY DEF UpsertEntryRoles

LEMMA SamePair ==
  ASSUME NEW pairs, OncePerHero(pairs), NEW p \in ToSet(pairs), NEW q \in ToSet(pairs), p[1] = q[1]
  PROVE  p = q
  BY DEF OncePerHero, ToSet

\* A log without rows of a later round is sound up to this one.
LEMMA UpToDate ==
  ASSUME NEW log, NEW q \in Nat, SoundLog(log, q), NEW r \in Nat, \A a \in log : ~(a.from > r)
  PROVE  SoundLog(log, r)
  BY DEF SoundLog

\* Rows written in any round leave a log sound.
LEMMA UpsertSound ==
  ASSUME NEW log, NEW r \in Nat \ {0}, NEW q \in Nat, r <= q, SoundLog(log, q),
         NEW pairs, OncePerHero(pairs)
  PROVE  SoundLog(UpsertEntryRoles(log, r, pairs), q)
  <1> DEFINE new == UpsertEntryRoles(log, r, pairs)
             Row(p) == [hero |-> p[1], from |-> r, role |-> p[2]]
             Old(a) == a \in log /\ \A p \in ToSet(pairs) : a.hero # p[1] \/ a.from # r
  <1>1. \A a : a \in new <=> Old(a) \/ \E p \in ToSet(pairs) : a = Row(p)
    BY UpsertRows
  <1>2. \A p : Row(p).hero = p[1] /\ Row(p).from = r /\ Row(p).role = p[2]
    OBVIOUS
  <1> HIDE DEF new, Row
  <1>3. \A a \in new : a.from \in 1 .. q
    BY <1>1, <1>2 DEF SoundLog
  <1>4. ASSUME NEW a \in new, NEW b \in new, a.hero = b.hero, a.from = b.from
        PROVE  a = b
    <2>1. CASE Old(a) /\ Old(b)
      BY <1>4, <2>1 DEF SoundLog
    <2>2. CASE \E p \in ToSet(pairs) : a = Row(p)
      <3>1. PICK p \in ToSet(pairs) : a = Row(p)
        BY <2>2
      <3>2. ~Old(b)
        BY <1>2, <1>4, <3>1
      <3>3. PICK x \in ToSet(pairs) : b = Row(x)
        BY <1>1, <3>2
      <3>4. p[1] = x[1]
        BY <1>2, <1>4, <3>1, <3>3
      <3> QED
        BY <3>1, <3>3, <3>4, SamePair
    <2>3. CASE \E x \in ToSet(pairs) : b = Row(x)
      <3>1. PICK x \in ToSet(pairs) : b = Row(x)
        BY <2>3
      <3>2. ~Old(a)
        BY <1>2, <1>4, <3>1
      <3> QED
        BY <1>1, <2>2, <3>2
    <2> QED
      BY <1>1, <2>1, <2>2, <2>3
  <1>5. ASSUME NEW a \in new
        PROVE  \E b \in new : b.hero = a.hero /\ \A c \in new : c.hero = a.hero => c.from <= b.from
    <2>1. CASE \E c \in log : c.hero = a.hero /\ c.from > r
      <3>1. PICK c \in log : c.hero = a.hero /\ c.from > r
        BY <2>1
      <3>2. PICK b \in log : b.hero = a.hero /\ \A x \in log : x.hero = a.hero => x.from <= b.from
        BY <3>1 DEF SoundLog
      <3>3. c.from \in Int /\ b.from \in Int
        BY <3>1, <3>2 DEF SoundLog
      <3>4. b.from > r
        BY <3>1, <3>2, <3>3
      <3>5. b \in new
        BY <1>1, <3>2, <3>3, <3>4
      <3>6. ASSUME NEW x \in new, x.hero = a.hero PROVE x.from <= b.from
        BY <1>1, <1>2, <3>2, <3>3, <3>4, <3>6
      <3> QED
        BY <3>2, <3>5, <3>6
    <2>2. CASE (\A c \in log : c.hero = a.hero => ~(c.from > r)) /\ \E p \in ToSet(pairs) : p[1] = a.hero
      <3>1. PICK p \in ToSet(pairs) : p[1] = a.hero
        BY <2>2
      <3>2. Row(p) \in new /\ Row(p).hero = a.hero /\ Row(p).from = r
        BY <1>1, <1>2, <3>1
      <3>3. ASSUME NEW x \in new, x.hero = a.hero PROVE x.from <= r
        <4>1. CASE Old(x)
          BY <1>3, <2>2, <3>3, <4>1
        <4>2. CASE ~Old(x)
          BY <1>1, <1>2, <4>2
        <4> QED
          BY <4>1, <4>2
      <3> QED
        BY <3>2, <3>3
    <2>3. CASE \A p \in ToSet(pairs) : p[1] # a.hero
      <3>1. \A c : c.hero = a.hero => (c \in new <=> c \in log)
        BY <1>1, <1>2, <2>3
      <3>2. a \in log
        BY <3>1
      <3> QED
        BY <3>1, <3>2 DEF SoundLog
    <2> QED
      BY <2>1, <2>2, <2>3
  <1> QED
    BY <1>3, <1>4, <1>5 DEF SoundLog, new

\* What a row written now gives is a role of the book, like the rows before.
LEMMA UpsertKnown ==
  ASSUME NEW log, NEW r, NEW pairs, NEW b,
         \A a \in log : a.role \in DOMAIN b, \A p \in ToSet(pairs) : p[2] \in DOMAIN b
  PROVE  \A a \in UpsertEntryRoles(log, r, pairs) : a.role \in DOMAIN b
  <1> SUFFICES ASSUME NEW a \in UpsertEntryRoles(log, r, pairs)
               PROVE  a.role \in DOMAIN b
    OBVIOUS
  <1>1. CASE a \in log
    BY <1>1
  <1>2. CASE a \notin log
    <2>1. PICK p \in ToSet(pairs) : a = [hero |-> p[1], from |-> r, role |-> p[2]]
      BY <1>2, UpsertRows
    <2> QED
      BY <2>1
  <1> QED
    BY <1>1, <1>2

\* What is written is what is in force afterwards, for the heroes it names.
LEMMA WrittenIsCurrent ==
  ASSUME NEW log, NEW r \in Nat \ {0}, SoundLog(log, r), NEW pairs, OncePerHero(pairs),
         NEW p \in ToSet(pairs)
  PROVE  LET current == CurrentRoles(UpsertEntryRoles(log, r, pairs))
         IN  p[1] \in DOMAIN current /\ current[p[1]] = p[2]
  <1> DEFINE new == UpsertEntryRoles(log, r, pairs)
             row == [hero |-> p[1], from |-> r, role |-> p[2]]
  <1>1. SoundLog(new, r)
    BY UpsertSound
  <1>2. row \in new /\ row.hero = p[1] /\ row.from = r /\ row.role = p[2]
    BY UpsertRows
  <1> HIDE DEF new, row
  <1>3. \A c \in new : c.hero = row.hero => c.from <= row.from
    BY <1>1, <1>2 DEF SoundLog
  <1>4. row.hero \in DOMAIN CurrentRoles(new) /\ CurrentRoles(new)[row.hero] = row.role
    BY <1>1, <1>2, <1>3, LastRowIsCurrent
  <1> QED
    BY <1>2, <1>4 DEF new

\* The others keep what they had.
LEMMA UnnamedIsKept ==
  ASSUME NEW log, NEW r \in Nat \ {0}, SoundLog(log, r), NEW pairs, OncePerHero(pairs),
         NEW h \in DOMAIN CurrentRoles(log), \A p \in ToSet(pairs) : p[1] # h
  PROVE  LET current == CurrentRoles(UpsertEntryRoles(log, r, pairs))
         IN  h \in DOMAIN current /\ current[h] = CurrentRoles(log)[h]
  <1> DEFINE new == UpsertEntryRoles(log, r, pairs)
  <1>1. SoundLog(new, r)
    BY UpsertSound
  <1>2. PICK a \in log : /\ a.hero = h /\ a.role = CurrentRoles(log)[h]
                         /\ \A c \in log : c.hero = h => c.from <= a.from
    BY CurrentIsLastRow
  <1>3. \A c : c.hero = h => (c \in new => c \in log)
    <2> SUFFICES ASSUME NEW c \in new, c.hero = h PROVE c \in log
      OBVIOUS
    <2>1. \A p : [hero |-> p[1], from |-> r, role |-> p[2]].hero = p[1]
      OBVIOUS
    <2> QED
      BY <2>1, UpsertRows
  <1>4. a \in new
    BY <1>2, UpsertRows
  <1> HIDE DEF new
  <1>5. a.hero \in DOMAIN CurrentRoles(new) /\ CurrentRoles(new)[a.hero] = a.role
    BY <1>1, <1>2, <1>3, <1>4, LastRowIsCurrent
  <1> QED
    BY <1>2, <1>5 DEF new

-----------------------------------------------------------------------------
(* Complete rosters.                                                       *)

\* What it says of a list of roles that it breaks no rule.
LEMMA CleanRoles ==
  ASSUME NEW ids, IsList(ids), NEW pairs, NEW b, NEW required,
         ~UnknownRole(pairs, b), ~RoleHeroNotOnRoster(ids, pairs), ~RoleUnassigned(pairs, required)
  PROVE  /\ OncePerHero(pairs)
         /\ \A p \in ToSet(pairs) : p[1] \in ToSet(ids) /\ p[2] \in DOMAIN b
         /\ \A h \in ToSet(required) : \E p \in ToSet(pairs) : p[1] = h
  <1>1. \A p \in ToSet(pairs) : p[1] \in ToSet(ids)
    BY ListPositions DEF RoleHeroNotOnRoster
  <1>2. OncePerHero(pairs)
    BY DEF RoleHeroNotOnRoster, OncePerHero
  <1>3. \A p \in ToSet(pairs) : p[2] \in DOMAIN b
    BY DEF UnknownRole
  <1>4. \A h \in ToSet(required) : \E p \in ToSet(pairs) : p[1] = h
    BY DEF RoleUnassigned
  <1> QED
    BY <1>1, <1>2, <1>3, <1>4

\* A complete list of roles is complete in the log too, once the part of it that is
\* not in force yet is written.
LEMMA WrittenComplete ==
  ASSUME NEW log, NEW r \in Nat \ {0}, SoundLog(log, r),
         NEW ids, IsList(ids), \A i, j \in DOMAIN ids : ids[i] = ids[j] => i = j,
         NEW b \in Books, b # None,
         NEW wanted, IsFiniteSet(DOMAIN wanted),
         ValidateAssignments(ids, wanted, b, ids, TRUE) = {},
         NEW pairs, OncePerHero(pairs), ToSet(pairs) \subseteq ToSet(wanted),
         \A p \in ToSet(wanted) :
           p \notin ToSet(pairs) =>
             p[1] \in DOMAIN CurrentRoles(log) /\ CurrentRoles(log)[p[1]] = p[2]
  PROVE  LockRoleViolations(ids, CurrentRolePairs(ids, UpsertEntryRoles(log, r, pairs)), b) = {}
  <1> DEFINE new     == UpsertEntryRoles(log, r, pairs)
             current == CurrentRoles(new)
             after   == CurrentRolePairs(ids, new)
  <1>1. /\ OncePerHero(wanted)
        /\ \A p \in ToSet(wanted) : p[1] \in ToSet(ids) /\ p[2] \in DOMAIN b
        /\ \A h \in ToSet(ids) : \E p \in ToSet(wanted) : p[1] = h
    <2>1. ~UnknownRole(wanted, b) /\ ~RoleHeroNotOnRoster(ids, wanted) /\ ~RoleUnassigned(wanted, ids)
      BY RulesKept
    <2> HIDE DEF new, current, after
    <2> QED
      BY <2>1, CleanRoles
  <1>2. ASSUME NEW p \in ToSet(wanted)
        PROVE  p[1] \in DOMAIN current /\ current[p[1]] = p[2]
    <2>1. CASE p \in ToSet(pairs)
      BY <2>1, WrittenIsCurrent
    <2>2. CASE p \notin ToSet(pairs)
      <3>1. \A q \in ToSet(pairs) : q[1] # p[1]
        BY <1>1, <2>2, SamePair
      <3> QED
        BY <2>2, <3>1, UnnamedIsKept
    <2> QED
      BY <2>1, <2>2
  <1> HIDE DEF new, current
  <1>3. \A i \in DOMAIN ids : ids[i] \in ToSet(ids)
    BY ListPositions
  <1>4. ASSUME NEW i \in DOMAIN ids
        PROVE  \E k \in DOMAIN wanted : wanted[k][1] = ids[i] /\ wanted[k][2] = current[ids[i]]
    <2>1. PICK p \in ToSet(wanted) : p[1] = ids[i]
      BY <1>1, <1>3
    <2>2. p[2] = current[ids[i]]
      BY <1>2, <2>1
    <2>3. PICK k \in DOMAIN wanted : p = wanted[k]
      BY DEF ToSet
    <2> QED
      BY <2>1, <2>2, <2>3
  <1>5. /\ DOMAIN after = DOMAIN ids
        /\ \A i \in DOMAIN ids : after[i][1] = ids[i] /\ after[i][2] = current[ids[i]]
    <2>1. \A i \in DOMAIN ids : ids[i] \in DOMAIN current
      BY <1>1, <1>2, <1>3
    <2>2. after = [i \in {k \in DOMAIN ids : ids[k] \in DOMAIN current} |-> <<ids[i], current[ids[i]]>>]
      BY DEF CurrentRolePairs, current
    <2>3. \A x, y : <<x, y>>[1] = x /\ <<x, y>>[2] = y
      OBVIOUS
    <2> HIDE DEF after
    <2> QED
      BY <2>1, <2>2, <2>3
  <1> HIDE DEF after
  <1>6. \A p \in ToSet(after) : \E i \in DOMAIN ids : p = after[i]
    BY <1>5 DEF ToSet
  <1>7. ~UnknownRole(after, b)
    <2>1. \A i \in DOMAIN ids : after[i][2] \in DOMAIN b
      BY <1>1, <1>4, <1>5 DEF ToSet
    <2> QED
      BY <1>6, <2>1 DEF UnknownRole
  <1>8. ~RoleHeroNotOnRoster(ids, after)
    BY <1>3, <1>5, <1>6, ListPositions DEF RoleHeroNotOnRoster
  <1>9. ~RoleUnassigned(after, ids)
    <2>1. \A h \in ToSet(ids) : \E i \in DOMAIN ids : after[i] \in ToSet(after) /\ after[i][1] = h
      BY <1>5 DEF ToSet
    <2> QED
      BY <2>1 DEF RoleUnassigned
  <1>10. ASSUME NEW x \in DOMAIN b, b[x].cap # None
         PROVE  ~(Cardinality({i \in DOMAIN after : after[i][2] = x}) > b[x].cap)
    <2> DEFINE S == {i \in DOMAIN after : after[i][2] = x}
               W == {k \in DOMAIN wanted : wanted[k][2] = x}
               f == [i \in S |-> CHOOSE k \in DOMAIN wanted :
                                   wanted[k][1] = ids[i] /\ wanted[k][2] = current[ids[i]]]
    <2>1. IsFiniteSet(W) /\ Cardinality(W) \in Nat
      BY FS_Subset, FS_CardinalityType
    <2>2. ASSUME NEW i \in S
          PROVE  f[i] \in W /\ wanted[f[i]][1] = ids[i]
      <3>1. i \in DOMAIN ids /\ current[ids[i]] = x
        BY <1>5
      <3>2. PICK k \in DOMAIN wanted : wanted[k][1] = ids[i] /\ wanted[k][2] = current[ids[i]]
        BY <1>4, <3>1
      <3>3. /\ f[i] \in DOMAIN wanted
            /\ wanted[f[i]][1] = ids[i] /\ wanted[f[i]][2] = current[ids[i]]
        BY <3>2
      <3> QED
        BY <3>1, <3>3
    <2> HIDE DEF W
    <2>3. f \in [S -> W]
      BY <2>2
    <2>4. \A i, j \in S : f[i] = f[j] => i = j
      <3>1. S \subseteq DOMAIN ids
        BY <1>5
      <3> HIDE DEF f, S
      <3> QED
        BY <2>2, <3>1
    <2> HIDE DEF f, S
    <2>5. f \in Injection(S, W)
      BY <2>3, <2>4 DEF Injection, IsInjective
    <2>6. IsFiniteSet(S) /\ Cardinality(S) <= Cardinality(W)
      BY <2>1, <2>5, FS_Injection
    <2>7. Cardinality(S) \in Nat
      BY <2>6, FS_CardinalityType
    <2>8. ~(Cardinality(W) > b[x].cap)
      <3>1. ~RoleCapExceeded(wanted, b)
        BY RulesKept
      <3> QED
        BY <1>10, <3>1 DEF RoleCapExceeded, W
    <2>9. b[x].cap \in Nat
      BY <1>10, SeasonAssumption
    <2> QED
      BY <2>1, <2>6, <2>7, <2>8, <2>9 DEF S
  <1>11. ~RoleCapExceeded(after, b)
    BY <1>10 DEF RoleCapExceeded
  <1> QED
    BY <1>7, <1>8, <1>9, <1>11, RulesKept DEF LockRoleViolations, after, new

-----------------------------------------------------------------------------
(* What a request loads and decides.                                       *)

\* A pair read from the log is the role its hero has.
LEMMA PairsInForce ==
  ASSUME NEW ids, NEW log
  PROVE  LET pairs == CurrentRolePairs(ids, log)
         IN  /\ DOMAIN pairs \subseteq DOMAIN ids
             /\ \A i \in DOMAIN pairs : pairs[i][1] = ids[i]
             /\ \A p \in ToSet(pairs) : /\ p[1] \in DOMAIN CurrentRoles(log)
                                        /\ CurrentRoles(log)[p[1]] = p[2]
             /\ \A i \in DOMAIN ids : ids[i] \in DOMAIN CurrentRoles(log) => i \in DOMAIN pairs
  <1> DEFINE current == CurrentRoles(log)
             pairs == CurrentRolePairs(ids, log)
  <1>1. pairs = [i \in {k \in DOMAIN ids : ids[k] \in DOMAIN current} |-> <<ids[i], current[ids[i]]>>]
    BY DEF CurrentRolePairs
  <1>2. \A x, y : <<x, y>>[1] = x /\ <<x, y>>[2] = y
    OBVIOUS
  <1> HIDE DEF current, pairs
  <1>3. DOMAIN pairs = {k \in DOMAIN ids : ids[k] \in DOMAIN current}
    BY <1>1
  <1>4. \A i \in DOMAIN pairs : pairs[i][1] = ids[i] /\ pairs[i][2] = current[ids[i]]
    BY <1>1, <1>2
  <1>5. \A p \in ToSet(pairs) : p[1] \in DOMAIN current /\ current[p[1]] = p[2]
    BY <1>3, <1>4 DEF ToSet
  <1> QED
    BY <1>3, <1>4, <1>5 DEF current, pairs

\* In a complete roster, caps aside, every hero has a place and a role of its own.
LEMMA CompleteRoster ==
  ASSUME NEW ids, IsList(ids), NEW log, NEW b, b # None,
         LockRoleViolations(ids, CurrentRolePairs(ids, log), b) \subseteq {"ROLE_CAP_EXCEEDED"}
  PROVE  /\ \A i, j \in DOMAIN ids : ids[i] = ids[j] => i = j
         /\ \A h \in ToSet(ids) : \E p \in ToSet(CurrentRolePairs(ids, log)) : p[1] = h
  <1> DEFINE pairs == CurrentRolePairs(ids, log)
  <1>1. ~UnknownRole(pairs, b) /\ ~RoleHeroNotOnRoster(ids, pairs) /\ ~RoleUnassigned(pairs, ids)
    BY OthersKept DEF LockRoleViolations
  <1>2. OncePerHero(pairs) /\ \A h \in ToSet(ids) : \E p \in ToSet(pairs) : p[1] = h
    BY <1>1, CleanRoles
  <1>3. \A i \in DOMAIN ids : ids[i] \in DOMAIN CurrentRoles(log)
    BY <1>2, ListPositions, PairsInForce
  <1>4. \A i \in DOMAIN ids : i \in DOMAIN pairs /\ pairs[i][1] = ids[i]
    BY <1>3, PairsInForce
  <1> QED
    BY <1>2, <1>4 DEF OncePerHero

\* What differs from what is in force is written.
LEMMA ChangedPairs ==
  ASSUME NEW current, NEW wanted
  PROVE  /\ ToSet(ChangedRoles(current, wanted)) = {p \in ToSet(wanted) : p \notin ToSet(current)}
         /\ OncePerHero(wanted) => OncePerHero(ChangedRoles(current, wanted))
  <1> DEFINE changed == ChangedRoles(current, wanted)
  <1>1. /\ DOMAIN changed = {i \in DOMAIN wanted : wanted[i] \notin ToSet(current)}
        /\ \A i \in DOMAIN changed : changed[i] = wanted[i]
    BY DEF ChangedRoles, RestrictValues, Restrict
  <1> HIDE DEF changed
  <1>2. ToSet(changed) = {p \in ToSet(wanted) : p \notin ToSet(current)}
    BY <1>1 DEF ToSet
  <1>3. OncePerHero(wanted) => OncePerHero(changed)
    BY <1>1 DEF OncePerHero
  <1> QED
    BY <1>2, <1>3 DEF changed

\* Merging keeps what was submitted, and a role for whoever stays and had one.
LEMMA MergedPairs ==
  ASSUME NEW proposed, IsList(proposed), NEW current, IsFiniteSet(DOMAIN current),
         NEW submitted, IsList(submitted)
  PROVE  LET merged == MergeRoles(proposed, current, submitted)
         IN  /\ IsFiniteSet(DOMAIN merged)
             /\ \A p \in ToSet(current) :
                  p[1] \in ToSet(proposed) => \E q \in ToSet(merged) : q[1] = p[1]
  <1> DEFINE Kept(p) == Contains(proposed, p[1]) /\ \A q \in ToSet(submitted) : q[1] # p[1]
             kept    == {k \in DOMAIN current : Kept(current[k])}
             old     == {"kept"} \X kept
             new     == {"submitted"} \X DOMAIN submitted
             merged  == MergeRoles(proposed, current, submitted)
  <1>1. merged = [k \in old \cup new |-> IF k[1] = "kept" THEN current[k[2]] ELSE submitted[k[2]]]
    BY DEF MergeRoles
  <1>2. IsFiniteSet(old \cup new)
    <2>1. IsFiniteSet(kept) /\ IsFiniteSet(DOMAIN submitted)
      BY FS_Subset, ListPositions
    <2>2. IsFiniteSet({"kept"}) /\ IsFiniteSet({"submitted"})
      BY FS_Singleton
    <2> HIDE DEF kept
    <2>3. IsFiniteSet(old) /\ IsFiniteSet(new)
      BY <2>1, <2>2, FS_Product
    <2> HIDE DEF old, new
    <2> QED
      BY <2>3, FS_Union
  <1>3. \A k \in kept : <<"kept", k>> \in old \cup new /\ <<"kept", k>>[1] = "kept" /\ <<"kept", k>>[2] = k
    OBVIOUS
  <1>4. \A k \in DOMAIN submitted : /\ <<"submitted", k>> \in old \cup new
                                    /\ <<"submitted", k>>[1] # "kept" /\ <<"submitted", k>>[2] = k
    OBVIOUS
  <1> HIDE DEF old, new, merged
  <1>5. \A k \in kept : current[k] \in ToSet(merged)
    BY <1>1, <1>3 DEF ToSet
  <1>6. \A k \in DOMAIN submitted : submitted[k] \in ToSet(merged)
    BY <1>1, <1>4 DEF ToSet
  <1>7. ASSUME NEW p \in ToSet(current), p[1] \in ToSet(proposed)
        PROVE  \E q \in ToSet(merged) : q[1] = p[1]
    <2>1. CASE Kept(p)
      BY <1>5, <2>1 DEF ToSet
    <2>2. CASE ~Kept(p)
      <3>1. PICK q \in ToSet(submitted) : q[1] = p[1]
        BY <1>7, <2>2, ListPositions
      <3> QED
        BY <1>6, <3>1 DEF ToSet
    <2> QED
      BY <2>1, <2>2
  <1>8. IsFiniteSet(DOMAIN merged)
    BY <1>1, <1>2
  <1> QED
    BY <1>7, <1>8 DEF merged

\* Behind rows of a later round it still gives everyone a role of the book.
LEMMA WrittenLate ==
  ASSUME NEW log, NEW r \in Nat \ {0}, NEW q \in Nat, r <= q, SoundLog(log, q),
         NEW ids, IsList(ids), \A i, j \in DOMAIN ids : ids[i] = ids[j] => i = j,
         NEW b, b # None, \A a \in log : a.role \in DOMAIN b,
         NEW pairs, OncePerHero(pairs), \A p \in ToSet(pairs) : p[2] \in DOMAIN b,
         \A h \in ToSet(ids) : h \in DOMAIN CurrentRoles(log) \/ \E p \in ToSet(pairs) : p[1] = h
  PROVE  LockRoleViolations(ids, CurrentRolePairs(ids, UpsertEntryRoles(log, r, pairs)), b)
           \subseteq {"ROLE_CAP_EXCEEDED"}
  <1> DEFINE new     == UpsertEntryRoles(log, r, pairs)
             current == CurrentRoles(new)
             after   == CurrentRolePairs(ids, new)
  <1>1. SoundLog(new, q) /\ \A a \in new : a.role \in DOMAIN b
    BY UpsertSound, UpsertKnown
  <1>2. \A h : h \in DOMAIN current <=> \E a \in new : a.hero = h
    BY DEF CurrentRoles
  <1>3. ASSUME NEW h \in ToSet(ids) PROVE h \in DOMAIN current
    <2>1. CASE \E p \in ToSet(pairs) : p[1] = h
      <3>1. PICK p \in ToSet(pairs) : p[1] = h
        BY <2>1
      <3> DEFINE row == [hero |-> p[1], from |-> r, role |-> p[2]]
      <3>2. row \in new /\ row.hero = h
        BY <3>1, UpsertRows
      <3> QED
        BY <1>2, <3>2
    <2>2. CASE \A p \in ToSet(pairs) : p[1] # h
      <3>1. PICK a \in log : a.hero = h
        BY <2>2 DEF CurrentRoles
      <3>2. a \in new
        BY <2>2, <3>1, UpsertRows
      <3> QED
        BY <1>2, <3>1, <3>2
    <2> QED
      BY <2>1, <2>2
  <1>4. \A h \in DOMAIN current : current[h] \in DOMAIN b
    BY <1>1, CurrentIsLastRow
  <1>5. /\ DOMAIN after \subseteq DOMAIN ids
        /\ \A i \in DOMAIN after : after[i][1] = ids[i]
        /\ \A p \in ToSet(after) : p[1] \in DOMAIN current /\ current[p[1]] = p[2]
        /\ \A i \in DOMAIN ids : ids[i] \in DOMAIN current => i \in DOMAIN after
    BY PairsInForce
  <1> HIDE DEF new, current, after
  <1>6. \A i \in DOMAIN ids : ids[i] \in ToSet(ids)
    BY ListPositions
  <1>7. ~UnknownRole(after, b)
    BY <1>4, <1>5 DEF UnknownRole
  <1>8. ~RoleHeroNotOnRoster(ids, after)
    <2>1. \A p \in ToSet(after) : Contains(ids, p[1])
      BY <1>5, <1>6, ListPositions DEF ToSet
    <2>2. \A i, j \in DOMAIN after : after[i][1] = after[j][1] => i = j
      BY <1>5
    <2> QED
      BY <2>1, <2>2 DEF RoleHeroNotOnRoster
  <1>9. ~RoleUnassigned(after, ids)
    <2> SUFFICES ASSUME NEW h \in ToSet(ids) PROVE \E p \in ToSet(after) : p[1] = h
      BY DEF RoleUnassigned
    <2>1. PICK i \in DOMAIN ids : ids[i] = h
      BY DEF ToSet
    <2>2. i \in DOMAIN after /\ after[i][1] = h
      BY <1>3, <1>5, <2>1
    <2> QED
      BY <2>2 DEF ToSet
  <1> QED
    BY <1>7, <1>8, <1>9, OthersKept DEF LockRoleViolations, after, new

\* What is already in force and what is written is all that was wanted; the cap alone
\* is not if the log has rows of a later round.
LEMMA ChangedComplete ==
  ASSUME NEW log, NEW r \in Nat \ {0}, NEW q \in Nat, r <= q, SoundLog(log, q),
         NEW late \in BOOLEAN, late \/ \A a \in log : ~(a.from > r),
         NEW ids, IsList(ids), \A i, j \in DOMAIN ids : ids[i] = ids[j] => i = j,
         NEW b \in Books, b # None, \A a \in log : a.role \in DOMAIN b,
         NEW wanted, IsFiniteSet(DOMAIN wanted), NEW owned,
         ValidateAssignments(ids, wanted, b, ids, TRUE) = {}
  PROVE  LET changed == ChangedRoles(CurrentRolePairs(owned, log), wanted)
         IN  /\ OncePerHero(changed) /\ \A p \in ToSet(changed) : p[2] \in DOMAIN b
             /\ LockRoleViolations(ids, CurrentRolePairs(ids, UpsertEntryRoles(log, r, changed)), b)
                  \subseteq Tolerated(late)
  <1> DEFINE current == CurrentRolePairs(owned, log)
             changed == ChangedRoles(current, wanted)
  <1>1. ~UnknownRole(wanted, b) /\ ~RoleHeroNotOnRoster(ids, wanted) /\ ~RoleUnassigned(wanted, ids)
    BY RulesKept
  <1>2. /\ OncePerHero(wanted) /\ \A p \in ToSet(wanted) : p[2] \in DOMAIN b
        /\ \A h \in ToSet(ids) : \E p \in ToSet(wanted) : p[1] = h
    BY <1>1, CleanRoles
  <1>3. OncePerHero(changed) /\ ToSet(changed) = {p \in ToSet(wanted) : p \notin ToSet(current)}
    BY <1>2, ChangedPairs
  <1>4. \A p \in ToSet(current) : p[1] \in DOMAIN CurrentRoles(log) /\ CurrentRoles(log)[p[1]] = p[2]
    BY PairsInForce
  <1> HIDE DEF current, changed
  <1>5. ToSet(changed) \subseteq ToSet(wanted) /\ \A p \in ToSet(changed) : p[2] \in DOMAIN b
    BY <1>2, <1>3
  <1>6. \A p \in ToSet(wanted) :
          p \notin ToSet(changed) =>
            p[1] \in DOMAIN CurrentRoles(log) /\ CurrentRoles(log)[p[1]] = p[2]
    BY <1>3, <1>4
  <1>7. CASE late
    <2>1. \A h \in ToSet(ids) : h \in DOMAIN CurrentRoles(log) \/ \E p \in ToSet(changed) : p[1] = h
      BY <1>2, <1>6
    <2>2. LockRoleViolations(ids, CurrentRolePairs(ids, UpsertEntryRoles(log, r, changed)), b)
            \subseteq {"ROLE_CAP_EXCEEDED"}
      BY <1>3, <1>5, <2>1, WrittenLate
    <2> QED
      BY <1>3, <1>5, <1>7, <2>2 DEF Tolerated, current, changed
  <1>8. CASE ~late
    <2>1. SoundLog(log, r)
      BY <1>8, UpToDate
    <2>2. LockRoleViolations(ids, CurrentRolePairs(ids, UpsertEntryRoles(log, r, changed)), b) = {}
      BY <1>3, <1>5, <1>6, <2>1, WrittenComplete
    <2> QED
      BY <1>3, <1>5, <2>2 DEF current, changed
  <1> QED
    BY <1>7, <1>8

\* What a swap wants is a role for everyone.
LEMMA SwapWanted ==
  ASSUME NEW log, NEW owned, IsList(owned), NEW b, b # None,
         LockRoleViolations(owned, CurrentRolePairs(owned, log), b) \subseteq {"ROLE_CAP_EXCEEDED"},
         NEW ids, IsList(ids), NEW submitted, IsList(submitted),
         LET merged   == MergeRoles(ids, CurrentRolePairs(owned, log), submitted)
             arrivals == RestrictValues(ids, LAMBDA h : ~Contains(owned, h))
         IN  ValidateAssignments(ids, merged, b, arrivals, TRUE) = {}
  PROVE  LET merged == MergeRoles(ids, CurrentRolePairs(owned, log), submitted)
         IN  IsFiniteSet(DOMAIN merged) /\ ValidateAssignments(ids, merged, b, ids, TRUE) = {}
  <1> DEFINE current  == CurrentRolePairs(owned, log)
             merged   == MergeRoles(ids, current, submitted)
             arrivals == RestrictValues(ids, LAMBDA h : ~Contains(owned, h))
  <1>1. IsFiniteSet(DOMAIN current)
    <2>1. DOMAIN current \in SUBSET DOMAIN owned
      BY PairsInForce
    <2> QED
      BY <2>1, ListPositions, FS_Subset
  <1>2. \A h \in ToSet(owned) : \E p \in ToSet(current) : p[1] = h
    BY CompleteRoster
  <1> HIDE DEF current
  <1>3. /\ IsFiniteSet(DOMAIN merged)
        /\ \A p \in ToSet(current) : p[1] \in ToSet(ids) => \E q \in ToSet(merged) : q[1] = p[1]
    BY <1>1, MergedPairs
  <1>4. \A h \in ToSet(ids) : h \notin ToSet(owned) => h \in ToSet(arrivals)
    <2>1. /\ DOMAIN arrivals = {i \in DOMAIN ids : ~Contains(owned, ids[i])}
          /\ \A i \in DOMAIN arrivals : arrivals[i] = ids[i]
      BY DEF RestrictValues, Restrict
    <2> HIDE DEF arrivals
    <2> QED
      BY <2>1, ListPositions DEF ToSet
  <1>5. ValidateAssignments(ids, merged, b, arrivals, TRUE) = {}
    BY DEF current
  <1> HIDE DEF merged, arrivals
  <1>6. /\ ~UnknownRole(merged, b) /\ ~RoleHeroNotOnRoster(ids, merged)
        /\ ~RoleUnassigned(merged, arrivals) /\ ~RoleCapExceeded(merged, b)
    BY <1>5, RulesKept
  <1>7. \A h \in ToSet(ids) : \E p \in ToSet(merged) : p[1] = h
    BY <1>2, <1>3, <1>4, <1>6 DEF RoleUnassigned
  <1>8. ~RoleUnassigned(merged, ids)
    BY <1>7 DEF RoleUnassigned
  <1>9. ValidateAssignments(ids, merged, b, ids, TRUE) = {}
    BY <1>6, <1>8, RulesKept
  <1> QED
    BY <1>3, <1>9 DEF merged, current

\* A roster every arrival of which brings a role is complete, whoever stays having
\* been complete before.
LEMMA SwapComplete ==
  ASSUME NEW log, NEW r \in Nat \ {0}, NEW q \in Nat, r <= q, SoundLog(log, q),
         NEW late \in BOOLEAN, late \/ \A a \in log : ~(a.from > r),
         NEW owned, IsList(owned), NEW b \in Books, b # None, \A a \in log : a.role \in DOMAIN b,
         LockRoleViolations(owned, CurrentRolePairs(owned, log), b) \subseteq {"ROLE_CAP_EXCEEDED"},
         NEW ids, IsList(ids), ~DuplicateHero(ids), NEW submitted, IsList(submitted),
         LET merged   == MergeRoles(ids, CurrentRolePairs(owned, log), submitted)
             arrivals == RestrictValues(ids, LAMBDA h : ~Contains(owned, h))
         IN  ValidateAssignments(ids, merged, b, arrivals, TRUE) = {}
  PROVE  LET current == CurrentRolePairs(owned, log)
             changed == ChangedRoles(current, MergeRoles(ids, current, submitted))
         IN  /\ OncePerHero(changed) /\ \A p \in ToSet(changed) : p[2] \in DOMAIN b
             /\ LockRoleViolations(ids, CurrentRolePairs(ids, UpsertEntryRoles(log, r, changed)), b)
                  \subseteq Tolerated(late)
  <1> DEFINE current == CurrentRolePairs(owned, log)
             merged  == MergeRoles(ids, current, submitted)
             changed == ChangedRoles(current, merged)
  <1>1. IsFiniteSet(DOMAIN merged) /\ ValidateAssignments(ids, merged, b, ids, TRUE) = {}
    BY SwapWanted
  <1>2. \A i, j \in DOMAIN ids : ids[i] = ids[j] => i = j
    BY OnePlaceEach
  <1> HIDE DEF merged
  <1>3. /\ OncePerHero(changed) /\ \A p \in ToSet(changed) : p[2] \in DOMAIN b
        /\ LockRoleViolations(ids, CurrentRolePairs(ids, UpsertEntryRoles(log, r, changed)), b)
             \subseteq Tolerated(late)
    BY <1>1, <1>2, ChangedComplete
  <1> QED
    BY <1>3 DEF merged

-----------------------------------------------------------------------------
(* The invariant.                                                          *)

\* An entry settled before the season is complete.
LEMMA SettledComplete ==
  ASSUME NEW m \in DOMAIN Settled, NEW b \in Books, b # None
  PROVE  LET log == ReplaceDraftRoles(Settled[m].roles)
         IN  /\ SoundLog(log, 1) /\ \A a \in log : a.role \in DOMAIN b
             /\ LockRoleViolations(Settled[m].slots, CurrentRolePairs(Settled[m].slots, log), b) = {}
  <1> DEFINE ids == Settled[m].slots
             pairs == Settled[m].roles
             log == UpsertEntryRoles({}, 1, pairs)
  <1>1. /\ IsList(ids) /\ IsList(pairs) /\ ~DuplicateHero(ids)
        /\ LockRoleViolations(ids, pairs, b) = {}
    BY SeasonAssumption
  <1> HIDE DEF ids, pairs
  <1>2. ValidateAssignments(ids, pairs, b, ids, TRUE) = {}
    BY <1>1 DEF LockRoleViolations
  <1>3. ~UnknownRole(pairs, b) /\ ~RoleHeroNotOnRoster(ids, pairs) /\ ~RoleUnassigned(pairs, ids)
    BY <1>2, RulesKept
  <1>4. OncePerHero(pairs) /\ \A p \in ToSet(pairs) : p[2] \in DOMAIN b
    BY <1>1, <1>3, CleanRoles
  <1>5. SoundLog({}, 1) /\ 1 \in Nat \ {0}
    BY DEF SoundLog
  <1>6. SoundLog(log, 1) /\ \A a \in log : a.role \in DOMAIN b
    <2> DEFINE none == {}
    <2>1. SoundLog(none, 1) /\ (\A a \in none : a.role \in DOMAIN b) /\ log = UpsertEntryRoles(none, 1, pairs)
      BY <1>5
    <2> HIDE DEF none, log
    <2> QED
      BY <1>4, <1>5, <2>1, UpsertSound, UpsertKnown
  <1>7. \A i, j \in DOMAIN ids : ids[i] = ids[j] => i = j
    BY <1>1, OnePlaceEach
  <1>8. IsFiniteSet(DOMAIN pairs)
    BY <1>1, ListPositions
  <1>9. LockRoleViolations(ids, CurrentRolePairs(ids, log), b) = {}
    <2> DEFINE none == {}
    <2>1. SoundLog(none, 1) /\ log = UpsertEntryRoles(none, 1, pairs)
      BY <1>5
    <2> HIDE DEF none, log
    <2>2. ToSet(pairs) \subseteq ToSet(pairs) /\ 1 \in Nat \ {0}
      OBVIOUS
    <2>3. LockRoleViolations(ids, CurrentRolePairs(ids, UpsertEntryRoles(none, 1, pairs)), b) = {}
      BY <1>1, <1>2, <1>4, <1>7, <1>8, <2>1, <2>2, WrittenComplete
    <2> QED
      BY <2>1, <2>3
  <1> QED
    BY <1>6, <1>9 DEF ReplaceDraftRoles, ids, pairs

LEMMA IInvInit == Init => IInv
  <1> SUFFICES ASSUME Init PROVE IInv
    OBVIOUS
  <1>1. InFlight = {}
    BY DEF Init, InFlight
  <1>2. \A m \in Managers : IsList(slots[m])
    <2>1. IsList(<<>>)
      BY DEF IsList, ToSet
    <2> QED
      BY <2>1, SeasonAssumption DEF Init
  <1>3. Shapes
    BY <1>1, <1>2 DEF Init, Shapes
  <1>4. ASSUME book # None, NEW m \in Managers
        PROVE  /\ SoundLog(roles[m], round) /\ \A a \in roles[m] : a.role \in DOMAIN book
               /\ m \in Locked => Complete(slots[m], roles[m], m \in overtaken)
    <2>1. CASE m \in DOMAIN Settled
      <3>1. roles[m] = ReplaceDraftRoles(Settled[m].roles) /\ slots[m] = Settled[m].slots /\ round = 1
        BY <1>4, <2>1 DEF Init
      <3>2. book \in Books
        BY DEF Init
      <3> QED
        BY <1>4, <2>1, <3>1, <3>2, SettledComplete DEF Complete
    <2>2. CASE m \notin DOMAIN Settled
      <3>1. roles[m] = {} /\ m \notin Locked
        BY <2>2 DEF Init, Locked
      <3> QED
        BY <3>1 DEF SoundLog
    <2> QED
      BY <2>1, <2>2
  <1> QED
    BY <1>1, <1>3, <1>4 DEF IInv, Locked

\* A request is of a round that has begun.
LEMMA RequestRound ==
  ASSUME IInv, NEW s \in InFlight
  PROVE  req[s].t.round \in Nat \ {0} /\ req[s].t.round <= round /\ round \in Nat \ {0}
  <1>1. Shapes
    BY DEF IInv
  <1>2. req[s].t.round \in 1 .. round /\ round \in Nat \ {0}
    BY <1>1 DEF Shapes
  <1> QED
    BY <1>2

\* Steps that touch no entry, no request and no row.
LEMMA Undisturbed ==
  ASSUME IInv, UNCHANGED <<book, entry, slots, swaps, roles, overtaken, lock, req>>,
         round' = round \/ round' = round + 1
  PROVE  IInv'
  <1>1. InFlight' = InFlight /\ Locked' = Locked
    BY DEF InFlight, Locked
  <1>2. round \in Nat /\ round' \in Nat \ {0} /\ round <= round'
    BY DEF IInv, Shapes
  <1>3. Shapes'
    BY <1>1, <1>2 DEF IInv, Shapes
  <1>4. ASSUME book # None
        PROVE  /\ \A m \in Managers : SoundLog(roles[m], round')
               /\ \A m \in Locked : Complete(slots[m], roles[m], m \in overtaken)'
               /\ \A s \in InFlight : req[s].writes # None =>
                    SoundWrites(Owner[s], req[s].t.round, req[s].writes)'
    BY <1>2, <1>4, LaterRound DEF IInv, Complete, SoundWrites, KnownRoles, Behind
  <1> QED
    BY <1>1, <1>3, <1>4 DEF IInv

\* Steps on entries whose row is free.
LEMMA FreeRows ==
  ASSUME IInv, UNCHANGED <<round, book, swaps, overtaken, lock, req>>,
         DOMAIN entry' = Managers, DOMAIN slots' = Managers, DOMAIN roles' = Managers,
         \A m \in Managers :
           \/ entry'[m] = entry[m] /\ slots'[m] = slots[m] /\ roles'[m] = roles[m]
           \/ /\ lock[m] = None
              /\ IsList(slots'[m])
              /\ roles'[m] \subseteq roles[m]
              /\ \A r \in Nat : SoundLog(roles[m], r) => SoundLog(roles'[m], r)
              /\ entry'[m] = "LOCKED" /\ book # None => Complete(slots'[m], roles'[m], m \in overtaken)
  PROVE  IInv'
  <1>1. InFlight' = InFlight
    BY DEF InFlight
  <1>2. \A s \in InFlight : Owner[s] \in Managers /\ s # None
    BY SeasonAssumption DEF InFlight
  <1>3. Shapes'
    BY <1>1 DEF IInv, Shapes
  <1>4. ASSUME book # None, NEW m \in Managers
        PROVE  SoundLog(roles'[m], round) /\ \A a \in roles'[m] : a.role \in DOMAIN book
    BY <1>4 DEF IInv, Shapes
  <1>5. ASSUME book # None, NEW m \in Locked'
        PROVE  Complete(slots[m], roles[m], m \in overtaken)'
    BY <1>5 DEF IInv, Locked, Complete
  <1>6. ASSUME book # None, NEW s \in InFlight, req[s].writes # None
        PROVE  SoundWrites(Owner[s], req[s].t.round, req[s].writes)'
    <2>1. lock[Owner[s]] # None
      BY <1>2, <1>6 DEF IInv
    <2>2. entry'[Owner[s]] = entry[Owner[s]] /\ roles'[Owner[s]] = roles[Owner[s]]
      BY <1>2, <2>1
    <2>3. SoundWrites(Owner[s], req[s].t.round, req[s].writes)
      BY <1>6 DEF IInv
    <2> QED
      BY <2>2, <2>3 DEF SoundWrites, Complete, KnownRoles, Behind
  <1> QED
    BY <1>1, <1>3, <1>4, <1>5, <1>6 DEF IInv

\* A request that has taken its row decides what it writes.
LEMMA Decided ==
  ASSUME IInv, NEW s \in InFlight, req[s].writes = None,
         lock[Owner[s]] = None, lock' = [lock EXCEPT ![Owner[s]] = s],
         NEW w, Decide(s, w), UNCHANGED <<round, book, entry, slots, swaps, roles, overtaken>>,
         IsList(w.slots), book # None => SoundWrites(Owner[s], req[s].t.round, w)
  PROVE  IInv'
  <1>1. /\ s \in Sessions /\ \A o \in Sessions : Owner[o] \in Managers /\ o # None
        /\ DOMAIN lock = Managers /\ DOMAIN req = Sessions
    BY SeasonAssumption DEF InFlight, IInv, Shapes
  <1>2. req[s] = [kind |-> req[s].kind, t |-> req[s].t, writes |-> req[s].writes]
    BY DEF IInv, Shapes
  <1> DEFINE new == [kind |-> req[s].kind, t |-> req[s].t, writes |-> w]
  <1>3. [req[s] EXCEPT !.writes = w] = new
    BY <1>2
  <1>4. req' = [req EXCEPT ![s] = new]
    BY <1>3 DEF Decide
  <1>5. new.t = req[s].t /\ new.writes = w /\ new.kind = req[s].kind
    OBVIOUS
  <1> HIDE DEF new
  <1>6. /\ DOMAIN req' = Sessions /\ req'[s] = new
        /\ \A o \in Sessions \ {s} : req'[o] = req[o]
    BY <1>1, <1>4
  <1>7. InFlight' \subseteq InFlight
    BY <1>6 DEF InFlight
  <1>8. \A o \in InFlight' : req'[o].t = req[o].t
    BY <1>5, <1>6, <1>7 DEF InFlight
  <1>9. \A o \in InFlight : o # s /\ req[o].writes # None => Owner[o] # Owner[s]
    BY <1>1 DEF IInv, InFlight
  <1>10. Shapes'
    <2>1. \A o \in InFlight' : req'[o] = [kind |-> req'[o].kind, t |-> req'[o].t, writes |-> req'[o].writes]
      BY <1>5, <1>6, <1>7 DEF InFlight, IInv, Shapes, new
    <2>2. DOMAIN lock' = Managers
      BY <1>1
    <2> QED
      BY <1>6, <1>7, <1>8, <2>1, <2>2 DEF IInv, Shapes
  <1>11. \A o \in InFlight' :
           req'[o].writes # None => lock'[Owner[o]] = o /\ IsList(req'[o].writes.slots)
    BY <1>1, <1>5, <1>6, <1>7, <1>9 DEF IInv, InFlight
  <1>12. ASSUME book # None, NEW o \in InFlight', req'[o].writes # None
         PROVE  SoundWrites(Owner[o], req[o].t.round, req[o].writes)'
    <2>1. SoundWrites(Owner[o], req[o].t.round, req'[o].writes)
      <3>1. CASE o = s
        BY <1>5, <1>6, <1>12, <3>1
      <3>2. CASE o # s
        BY <1>6, <1>7, <1>12, <3>2 DEF IInv, InFlight
      <3> QED
        BY <3>1, <3>2
    <2> QED
      BY <1>8, <2>1 DEF SoundWrites, Complete, KnownRoles, Behind
  <1>13. /\ Locked' = Locked
         /\ \A m \in Locked : Complete(slots[m], roles[m], m \in overtaken)
                             => Complete(slots[m], roles[m], m \in overtaken)'
    BY DEF Locked, Complete
  <1> QED
    BY <1>7, <1>8, <1>10, <1>11, <1>12, <1>13 DEF IInv

\* A request that is over frees its row, and leaves an entry that is as it found it
\* or as it was about to write it.
LEMMA Ended ==
  ASSUME IInv, NEW s \in InFlight, End(s), UNCHANGED <<round, book, entry>>,
         DOMAIN slots' = Managers, DOMAIN roles' = Managers, DOMAIN swaps' = Managers,
         UNCHANGED <<slots, swaps, roles, overtaken>> \/ lock[Owner[s]] = s,
         \A m \in Managers \ {Owner[s]} :
           /\ slots'[m] = slots[m] /\ swaps'[m] = swaps[m] /\ roles'[m] = roles[m]
           /\ m \in overtaken' <=> m \in overtaken,
         IsList(slots'[Owner[s]]),
         book # None => SoundLog(roles'[Owner[s]], round),
         book # None => \A a \in roles'[Owner[s]] : a.role \in DOMAIN book,
         book # None /\ entry[Owner[s]] = "LOCKED" =>
           Complete(slots'[Owner[s]], roles'[Owner[s]], Owner[s] \in overtaken')
  PROVE  IInv'
  <1>1. s \in Sessions /\ Owner[s] \in Managers /\ DOMAIN req = Sessions
    BY SeasonAssumption DEF InFlight, IInv, Shapes
  <1>2. DOMAIN req' = Sessions /\ InFlight' \subseteq InFlight /\ \A o \in InFlight' : req'[o] = req[o]
    BY <1>1 DEF End, InFlight
  <1>3. \A o \in InFlight' : o = s => req'[o] = None
    BY <1>1 DEF End
  <1>4. \A o \in InFlight' : o # s
    BY <1>3 DEF InFlight
  <1>5. /\ DOMAIN lock' = Managers
        /\ \A m \in Managers : lock[m] # s => lock'[m] = lock[m]
    BY DEF End
  <1>6. \A o \in InFlight' : Owner[o] \in Managers
    BY SeasonAssumption DEF InFlight
  <1>7. \A o \in InFlight' : req'[o].writes # None =>
          lock[Owner[o]] = o /\ lock'[Owner[o]] = o /\ IsList(req'[o].writes.slots)
    BY <1>2, <1>4, <1>5, <1>6 DEF IInv
  <1>8. Shapes'
    <2>1. \A m \in Managers : IsList(slots'[m])
      BY DEF IInv, Shapes
    <2> QED
      BY <1>2, <1>5, <2>1 DEF IInv, Shapes
  <1>9. ASSUME book # None, NEW m \in Managers
        PROVE  SoundLog(roles'[m], round) /\ \A a \in roles'[m] : a.role \in DOMAIN book
    BY <1>9 DEF IInv
  <1>10. ASSUME book # None, NEW m \in Locked'
         PROVE  Complete(slots[m], roles[m], m \in overtaken)'
    <2>1. m \in Managers /\ m \in Locked /\ entry[m] = "LOCKED"
      BY <1>10 DEF Locked
    <2>2. Complete(slots'[m], roles'[m], m \in overtaken')
      <3>1. CASE m = Owner[s]
        BY <1>10, <2>1, <3>1
      <3>2. CASE m # Owner[s]
        <4>1. Complete(slots[m], roles[m], m \in overtaken)
          BY <1>10, <2>1 DEF IInv
        <4> QED
          BY <2>1, <3>2, <4>1 DEF Complete
      <3> QED
        BY <3>1, <3>2
    <2> QED
      BY <2>2 DEF Complete
  <1>11. ASSUME book # None, NEW o \in InFlight', req'[o].writes # None
         PROVE  SoundWrites(Owner[o], req[o].t.round, req[o].writes)'
    <2>1. UNCHANGED <<slots, swaps, roles, overtaken>> \/ Owner[o] # Owner[s]
      BY <1>4, <1>7, <1>11
    <2>2. /\ roles'[Owner[o]] = roles[Owner[o]] /\ swaps'[Owner[o]] = swaps[Owner[o]]
          /\ Owner[o] \in overtaken' <=> Owner[o] \in overtaken
      BY <1>6, <2>1
    <2>3. SoundWrites(Owner[o], req[o].t.round, req[o].writes)
      BY <1>2, <1>11 DEF IInv
    <2>4. req'[o] = req[o] /\ book' = book /\ entry' = entry
      BY <1>2
    <2> QED
      BY <2>2, <2>3, <2>4 DEF SoundWrites, Complete, KnownRoles, Behind
  <1> QED
    BY <1>2, <1>7, <1>8, <1>9, <1>10, <1>11 DEF IInv

LEMMA AbortKeeps ==
  ASSUME IInv, NEW s \in Sessions, Abort(s)
  PROVE  IInv'
  <1>1. s \in InFlight /\ Owner[s] \in Managers
    BY SeasonAssumption DEF Abort, InFlight
  <1>2. End(s) /\ UNCHANGED <<round, book, entry, slots, swaps, roles, overtaken>>
    BY DEF Abort, tournament, entries
  <1>3. /\ DOMAIN slots = Managers /\ DOMAIN roles = Managers /\ DOMAIN swaps = Managers
        /\ IsList(slots[Owner[s]])
    BY <1>1 DEF IInv, Shapes
  <1>4. /\ book # None => SoundLog(roles[Owner[s]], round)
        /\ book # None => \A a \in roles[Owner[s]] : a.role \in DOMAIN book
        /\ book # None /\ entry[Owner[s]] = "LOCKED" =>
             Complete(slots[Owner[s]], roles[Owner[s]], Owner[s] \in overtaken)
    BY <1>1 DEF IInv, Locked
  <1> QED
    BY <1>1, <1>2, <1>3, <1>4, Ended DEF Complete

LEMMA CommitKeeps ==
  ASSUME IInv, NEW s \in Sessions, Commit(s)
  PROVE  IInv'
  <1> DEFINE m == Owner[s]
             r == req[s].t.round
             w == req[s].writes
  <1>1. s \in InFlight /\ m \in Managers /\ w # None
    BY SeasonAssumption DEF Commit, InFlight
  <1>2. /\ End(s) /\ UNCHANGED <<round, book, entry>> /\ lock[m] = s /\ IsList(w.slots)
        /\ swaps' = [swaps EXCEPT ![m] = @ \o w.swaps]
    BY <1>1 DEF Commit, tournament, IInv
  <1>3. /\ DOMAIN slots = Managers /\ DOMAIN roles = Managers /\ DOMAIN swaps = Managers
        /\ IsList(slots[m])
    BY <1>1 DEF IInv, Shapes
  <1>4. r \in Nat \ {0} /\ r <= round /\ round \in Nat
    BY <1>1, RequestRound
  <1>5. book # None => /\ SoundLog(roles[m], round) /\ \A a \in roles[m] : a.role \in DOMAIN book
                       /\ SoundWrites(m, r, w)
    BY <1>1 DEF IInv
  <1>6. DOMAIN swaps' = Managers /\ \A x \in Managers \ {m} : swaps'[x] = swaps[x]
    BY <1>1, <1>2, <1>3
  <1> HIDE DEF m, r, w
  <1>7. CASE entry[m] = "LOCKED"
    <2>1. /\ slots' = [slots EXCEPT ![m] = w.slots]
          /\ roles' = [roles EXCEPT ![m] = UpsertEntryRoles(@, r, w.roles)]
          /\ overtaken' = IF Behind(m, r) THEN overtaken \cup {m} ELSE overtaken
      BY <1>7 DEF Commit, m, r, w
    <2>2. /\ DOMAIN slots' = Managers /\ DOMAIN roles' = Managers
          /\ slots'[m] = w.slots /\ roles'[m] = UpsertEntryRoles(roles[m], r, w.roles)
          /\ \A x \in Managers \ {m} : slots'[x] = slots[x] /\ roles'[x] = roles[x]
      BY <1>1, <1>3, <2>1
    <2>3. /\ \A x \in Managers \ {m} : x \in overtaken' <=> x \in overtaken
          /\ m \in overtaken' <=> (m \in overtaken \/ Behind(m, r))
      BY <2>1
    <2>4. ASSUME book # None
          PROVE  /\ SoundLog(roles'[m], round) /\ \A a \in roles'[m] : a.role \in DOMAIN book
                 /\ Complete(slots'[m], roles'[m], m \in overtaken')
      <3>1. /\ OncePerHero(w.roles) /\ \A p \in ToSet(w.roles) : p[2] \in DOMAIN book
            /\ Complete(w.slots, UpsertEntryRoles(roles[m], r, w.roles), m \in overtaken \/ Behind(m, r))
        BY <1>5, <1>7, <2>4 DEF SoundWrites, KnownRoles
      <3>2. SoundLog(roles'[m], round)
        BY <1>4, <1>5, <2>2, <2>4, <3>1, UpsertSound
      <3>3. \A a \in roles'[m] : a.role \in DOMAIN book
        BY <1>5, <2>2, <2>4, <3>1, UpsertKnown
      <3> QED
        BY <2>2, <2>3, <3>1, <3>2, <3>3 DEF Complete, Tolerated
    <2> QED
      BY <1>1, <1>2, <1>6, <2>2, <2>3, <2>4, Ended DEF m, r
  <1>8. CASE entry[m] # "LOCKED"
    <2>1. /\ roles' = [roles EXCEPT ![m] = ReplaceDraftRoles(w.roles)] /\ slots' = slots
          /\ overtaken' = overtaken
      BY <1>8 DEF Commit, m, w
    <2>2. /\ DOMAIN slots' = Managers /\ DOMAIN roles' = Managers
          /\ IsList(slots'[m]) /\ roles'[m] = UpsertEntryRoles({}, 1, w.roles)
          /\ \A x \in Managers \ {m} : slots'[x] = slots[x] /\ roles'[x] = roles[x]
      BY <1>1, <1>3, <2>1 DEF ReplaceDraftRoles
    <2>3. ASSUME book # None
          PROVE  SoundLog(roles'[m], round) /\ \A a \in roles'[m] : a.role \in DOMAIN book
      <3> DEFINE none == {}
      <3>1. /\ SoundLog(none, round) /\ (\A a \in none : a.role \in DOMAIN book)
            /\ roles'[m] = UpsertEntryRoles(none, 1, w.roles)
        BY <2>2 DEF SoundLog
      <3>2. OncePerHero(w.roles) /\ \A p \in ToSet(w.roles) : p[2] \in DOMAIN book
        BY <1>5, <2>3 DEF SoundWrites, KnownRoles
      <3>3. 1 \in Nat \ {0} /\ 1 <= round
        BY <1>4
      <3> HIDE DEF none
      <3> QED
        BY <1>4, <3>1, <3>2, <3>3, UpsertSound, UpsertKnown
    <2> QED
      BY <1>1, <1>2, <1>6, <1>8, <2>1, <2>2, <2>3, Ended DEF m, r
  <1> QED
    BY <1>7, <1>8

LEMMA BeginKeeps ==
  ASSUME IInv, NEW s \in Sessions, NEW kind, Begin(s, kind)
  PROVE  IInv'
  <1> DEFINE new == [kind |-> kind, t |-> T, writes |-> None]
  <1>1. /\ req' = [req EXCEPT ![s] = new]
        /\ UNCHANGED <<round, book, entry, slots, swaps, roles, overtaken, lock>>
    BY DEF Begin, tournament, entries
  <1>2. /\ DOMAIN req = Sessions /\ s \notin InFlight
        /\ \A o \in Sessions : Owner[o] \in Managers
    BY SeasonAssumption DEF Begin, InFlight, IInv, Shapes
  <1>3. new.t.round = round /\ new.writes = None /\ new = [kind |-> new.kind, t |-> new.t, writes |-> new.writes]
    BY DEF T
  <1> HIDE DEF new
  <1>4. /\ DOMAIN req' = Sessions /\ req'[s] = new
        /\ \A o \in Sessions \ {s} : req'[o] = req[o]
    BY <1>1, <1>2
  <1>5. InFlight' \subseteq InFlight \cup {s} /\ InFlight \subseteq Sessions
    BY <1>4 DEF InFlight
  <1>6. \A o \in InFlight : o # s /\ req'[o] = req[o]
    BY <1>2, <1>4, <1>5
  <1>7. \A o \in InFlight' : req'[o].writes # None => o \in InFlight
    BY <1>3, <1>4, <1>5
  <1>8. round \in Nat \ {0} /\ \A o \in InFlight' : req'[o].t.round \in 1 .. round
    BY <1>3, <1>4, <1>5, <1>6, RequestRound DEF IInv, Shapes
  <1>9. \A o \in InFlight' :
          req'[o] = [kind |-> req'[o].kind, t |-> req'[o].t, writes |-> req'[o].writes]
    BY <1>3, <1>4, <1>5, <1>6 DEF IInv, Shapes
  <1>10. Shapes'
    BY <1>1, <1>4, <1>8, <1>9 DEF IInv, Shapes
  <1>11. \A o \in InFlight' :
           req'[o].writes # None => lock'[Owner[o]] = o /\ IsList(req'[o].writes.slots)
    BY <1>1, <1>6, <1>7 DEF IInv
  <1>12. ASSUME book # None, NEW m \in Managers
         PROVE  SoundLog(roles[m], round) /\ \A a \in roles[m] : a.role \in DOMAIN book
    BY <1>12 DEF IInv
  <1>13. ASSUME book # None, NEW m \in Locked'
         PROVE  Complete(slots[m], roles[m], m \in overtaken)'
    <2>1. m \in Locked
      BY <1>1 DEF Locked
    <2> QED
      BY <1>1, <1>13, <2>1 DEF IInv, Complete
  <1>14. ASSUME book # None, NEW o \in InFlight', req'[o].writes # None
         PROVE  SoundWrites(Owner[o], req[o].t.round, req[o].writes)'
    <2>1. o \in InFlight /\ req'[o] = req[o]
      BY <1>6, <1>7, <1>14
    <2>2. SoundWrites(Owner[o], req[o].t.round, req[o].writes)
      BY <1>14, <2>1 DEF IInv
    <2> QED
      BY <1>1, <2>1, <2>2 DEF SoundWrites, Complete, KnownRoles, Behind
  <1> QED
    BY <1>1, <1>10, <1>11, <1>12, <1>13, <1>14 DEF IInv

\* A swap is decided on a locked roster, for heroes named once.
LEMMA SwapRules ==
  ASSUME NEW ids, NEW prices, NEW t, NEW e, NEW used, NEW already,
         ValidateSwap(ids, prices, t, e, used, already) = {}
  PROVE  e.status = "LOCKED" /\ ~DuplicateHero(ids)
  <1> DEFINE closed == ~AcceptsSwaps(t) \/ e.status # "LOCKED"
             many == TooManyPicks(ids)
             few == IncompleteRoster(ids)
             twice == DuplicateHero(ids)
             limit == HeroesChanged(e.slots, ids) > SwapAllowance(t.round, used)
             budget == BudgetExceeded(ids, prices)
             rules == [SWAP_WINDOW_CLOSED |-> closed, ALREADY_SWAPPED_THIS_ROUND |-> already,
                       TOO_MANY_PICKS |-> many, INCOMPLETE_ROSTER |-> few, DUPLICATE_HERO |-> twice,
                       SWAP_LIMIT_EXCEEDED |-> limit, BUDGET_EXCEEDED |-> budget]
  <1>1. ValidateSwap(ids, prices, t, e, used, already) = Broken(rules)
    BY DEF ValidateSwap
  <1> HIDE DEF closed, many, few, twice, limit, budget
  <1>2. ~closed /\ ~twice
    BY <1>1 DEF Broken
  <1> QED
    BY <1>2 DEF closed, twice

LEMMA LoadForSwapKeeps ==
  ASSUME IInv, NEW s \in Sessions, LoadForSwap(s)
  PROVE  IInv'
  <1> DEFINE m == Owner[s]
             t == req[s].t
             current == CurrentRolePairs(slots[m], roles[m])
  <1>1. s \in InFlight /\ m \in Managers
    BY SeasonAssumption DEF LoadForSwap, Waiting, InFlight
  <1>2. /\ req[s].writes = None /\ lock[m] = None /\ lock' = [lock EXCEPT ![m] = s]
        /\ UNCHANGED <<round, book, entry, slots, swaps, roles, overtaken>>
    BY DEF LoadForSwap, Waiting, TakeRow, tournament, entries
  <1> DEFINE Merged(ids, submitted) == IF book = None THEN <<>> ELSE MergeRoles(ids, current, submitted)
             Writes(ids, submitted) ==
               [slots |-> ids, swaps |-> Exchanges(t.round, slots[m], ids),
                roles |-> ChangedRoles(current, Merged(ids, submitted)), cast |-> Merged(ids, submitted)]
  <1>3. PICK ids \in Wishes, submitted \in RoleForms :
          SwapViolations(m, t, ids, submitted) = {} /\ Decide(s, Writes(ids, submitted))
    BY DEF LoadForSwap
  <1>4. /\ Writes(ids, submitted).slots = ids
        /\ Writes(ids, submitted).roles = ChangedRoles(current, Merged(ids, submitted))
    OBVIOUS
  <1> HIDE DEF Writes
  <1>5. IsList(ids) /\ IsList(submitted)
    BY SeasonAssumption
  <1>6. t.round \in Nat \ {0} /\ t.round <= round /\ round \in Nat
    BY <1>1, RequestRound
  <1>7. ASSUME book # None
        PROVE  SoundWrites(m, t.round, Writes(ids, submitted))
    <2> DEFINE merged == MergeRoles(ids, current, submitted)
               arrivals == RestrictValues(ids, LAMBDA h : ~Contains(slots[m], h))
               already == \E i \in DOMAIN swaps[m] : swaps[m][i].round = t.round
    <2>1. /\ ValidateSwap(ids, pool, t, EntryOf(m), Len(swaps[m]), already) = {}
          /\ ValidateAssignments(ids, merged, book, arrivals, TRUE) = {}
      BY <1>3, <1>7 DEF SwapViolations
    <2>2. EntryOf(m).status = "LOCKED" /\ ~DuplicateHero(ids)
      BY <2>1, SwapRules
    <2>3. m \in Locked
      BY <1>1, <2>2 DEF EntryOf, Locked
    <2> DEFINE late == m \in overtaken \/ Behind(m, t.round)
    <2>4. LockRoleViolations(slots[m], current, book) \subseteq {"ROLE_CAP_EXCEEDED"}
      BY <1>7, <2>3 DEF IInv, Complete, Tolerated
    <2>5. /\ SoundLog(roles[m], round) /\ \A a \in roles[m] : a.role \in DOMAIN book
          /\ IsList(slots[m]) /\ book \in Books
      BY <1>1, <1>7 DEF IInv, Shapes
    <2>6. late \in BOOLEAN /\ (late \/ \A a \in roles[m] : ~(a.from > t.round))
      BY DEF Behind
    <2> HIDE DEF late
    <2>7. LET changed == ChangedRoles(current, merged)
          IN  /\ OncePerHero(changed) /\ \A p \in ToSet(changed) : p[2] \in DOMAIN book
              /\ LockRoleViolations(ids, CurrentRolePairs(ids, UpsertEntryRoles(roles[m], t.round, changed)),
                                    book) \subseteq Tolerated(late)
      BY <1>5, <1>6, <1>7, <2>1, <2>2, <2>4, <2>5, <2>6, SwapComplete
    <2>8. Writes(ids, submitted).roles = ChangedRoles(current, merged)
      BY <1>4, <1>7
    <2> HIDE DEF current, merged
    <2> QED
      BY <1>4, <2>7, <2>8 DEF SoundWrites, Complete, KnownRoles, late
  <1> QED
    BY <1>1, <1>2, <1>3, <1>4, <1>5, <1>7, Decided

LEMMA LoadForRolesKeeps ==
  ASSUME IInv, NEW s \in Sessions, LoadForRoles(s)
  PROVE  IInv'
  <1> DEFINE m == Owner[s]
             t == req[s].t
             current == CurrentRolePairs(slots[m], roles[m])
             locked == entry[m] = "LOCKED"
  <1>1. s \in InFlight /\ m \in Managers
    BY SeasonAssumption DEF LoadForRoles, Waiting, InFlight
  <1>2. /\ req[s].writes = None /\ lock[m] = None /\ lock' = [lock EXCEPT ![m] = s]
        /\ UNCHANGED <<round, book, entry, slots, swaps, roles, overtaken>>
    BY DEF LoadForRoles, Waiting, TakeRow, tournament, entries
  <1> DEFINE Writes(submitted) ==
               [slots |-> slots[m], swaps |-> <<>>, cast |-> submitted,
                roles |-> IF locked THEN ChangedRoles(current, submitted) ELSE submitted]
  <1>3. PICK submitted \in RoleForms : RoleViolations(m, t, submitted) = {} /\ Decide(s, Writes(submitted))
    BY DEF LoadForRoles
  <1>4. /\ Writes(submitted).slots = slots[m]
        /\ Writes(submitted).roles = IF locked THEN ChangedRoles(current, submitted) ELSE submitted
    OBVIOUS
  <1> HIDE DEF Writes
  <1>5. IsList(slots[m]) /\ IsList(submitted)
    BY <1>1, SeasonAssumption DEF IInv, Shapes
  <1>6. t.round \in Nat \ {0} /\ t.round <= round /\ round \in Nat
    BY <1>1, RequestRound
  <1>7. ASSUME book # None
        PROVE  SoundWrites(m, t.round, Writes(submitted))
    <2>1. /\ locked  => ValidateAssignments(slots[m], submitted, book, slots[m], TRUE) = {}
          /\ ~locked => ValidateAssignments(slots[m], submitted, book, <<>>, FALSE) = {}
      BY <1>3 DEF RoleViolations
    <2>2. CASE locked
      <3>1. m \in Locked
        BY <1>1, <2>2 DEF Locked
      <3> DEFINE late == m \in overtaken \/ Behind(m, t.round)
      <3>2. LockRoleViolations(slots[m], current, book) \subseteq {"ROLE_CAP_EXCEEDED"}
        BY <1>7, <3>1 DEF IInv, Complete, Tolerated
      <3>3. /\ SoundLog(roles[m], round) /\ \A a \in roles[m] : a.role \in DOMAIN book
            /\ book \in Books
        BY <1>1, <1>7 DEF IInv, Shapes
      <3>4. \A i, j \in DOMAIN slots[m] : slots[m][i] = slots[m][j] => i = j
        BY <1>5, <1>7, <3>2, CompleteRoster
      <3>5. IsFiniteSet(DOMAIN submitted)
        BY <1>5, ListPositions
      <3>6. late \in BOOLEAN /\ (late \/ \A a \in roles[m] : ~(a.from > t.round))
        BY DEF Behind
      <3> HIDE DEF late
      <3>7. LET changed == ChangedRoles(current, submitted)
            IN  /\ OncePerHero(changed) /\ \A p \in ToSet(changed) : p[2] \in DOMAIN book
                /\ LockRoleViolations(slots[m],
                     CurrentRolePairs(slots[m], UpsertEntryRoles(roles[m], t.round, changed)), book)
                     \subseteq Tolerated(late)
        BY <1>5, <1>6, <1>7, <2>1, <2>2, <3>3, <3>4, <3>5, <3>6, ChangedComplete
      <3> HIDE DEF current
      <3> QED
        BY <1>4, <2>2, <3>7 DEF SoundWrites, Complete, KnownRoles, late
    <2>3. CASE ~locked
      <3>1. /\ ~UnknownRole(submitted, book) /\ ~RoleHeroNotOnRoster(slots[m], submitted)
            /\ ~RoleUnassigned(submitted, <<>>)
        BY <1>7, <2>1, <2>3, RulesKept
      <3>2. OncePerHero(submitted) /\ \A p \in ToSet(submitted) : p[2] \in DOMAIN book
        BY <1>5, <3>1, CleanRoles
      <3> QED
        BY <1>4, <2>3, <3>2 DEF SoundWrites, KnownRoles
    <2> QED
      BY <2>2, <2>3
  <1> QED
    BY <1>1, <1>2, <1>3, <1>4, <1>5, <1>7, Decided

\* A hero keeps all its rows or none.
LEMMA DeleteSound ==
  ASSUME NEW log, NEW r, SoundLog(log, r), NEW kept
  PROVE  SoundLog(DeleteDraftRolesExcept(log, kept), r)
  BY DEF SoundLog, DeleteDraftRolesExcept

LEMMA SetSlotsKeeps ==
  ASSUME IInv, NEW m \in Managers, NEW ids \in Wishes, SetSlots(m, ids)
  PROVE  IInv'
  <1>1. /\ entry[m] = "DRAFT" /\ lock[m] = None
        /\ slots' = [slots EXCEPT ![m] = ids]
        /\ roles' = [roles EXCEPT ![m] = DeleteDraftRolesExcept(@, ids)]
        /\ UNCHANGED <<round, book, entry, swaps, overtaken, lock, req>>
    BY DEF SetSlots, tournament
  <1>2. DOMAIN entry = Managers /\ DOMAIN slots = Managers /\ DOMAIN roles = Managers
    BY DEF IInv, Shapes
  <1>3. IsList(ids)
    BY SeasonAssumption
  <1>4. slots'[m] = ids /\ roles'[m] = DeleteDraftRolesExcept(roles[m], ids) /\ entry'[m] # "LOCKED"
    BY <1>1, <1>2
  <1>5. \A x \in Managers : x # m =>
          entry'[x] = entry[x] /\ slots'[x] = slots[x] /\ roles'[x] = roles[x]
    BY <1>1, <1>2
  <1>6. /\ roles'[m] \subseteq roles[m]
        /\ \A r \in Nat : SoundLog(roles[m], r) => SoundLog(roles'[m], r)
    BY <1>4, DeleteSound DEF DeleteDraftRolesExcept
  <1>7. DOMAIN entry' = Managers /\ DOMAIN slots' = Managers /\ DOMAIN roles' = Managers
    BY <1>1, <1>2
  <1> QED
    BY <1>1, <1>3, <1>4, <1>5, <1>6, <1>7, FreeRows

LEMMA LockRosterKeeps ==
  ASSUME IInv, NEW m \in Managers, LockRoster(m)
  PROVE  IInv'
  <1>1. /\ lock[m] = None /\ LockViolations(m) = {}
        /\ entry' = [entry EXCEPT ![m] = "LOCKED"]
        /\ UNCHANGED <<round, book, slots, swaps, roles, overtaken, lock, req>>
    BY DEF LockRoster, tournament
  <1>2. /\ DOMAIN entry = Managers /\ DOMAIN slots = Managers /\ DOMAIN roles = Managers
        /\ IsList(slots[m])
    BY DEF IInv, Shapes
  <1>3. Complete(slots[m], roles[m], m \in overtaken)
    BY <1>1 DEF LockViolations, Complete
  <1>4. Complete(slots'[m], roles'[m], m \in overtaken)
    BY <1>1, <1>3
  <1>5. /\ DOMAIN entry' = Managers
        /\ \A x \in Managers : x # m => entry'[x] = entry[x]
    BY <1>1, <1>2
  <1> QED
    BY <1>1, <1>2, <1>4, <1>5, FreeRows

LEMMA SaveStatusKeeps ==
  ASSUME IInv, NEW st, SaveStatus(st)
  PROVE  IInv'
  <1> DEFINE gone == {m \in Managers : st = "LIVE" /\ entry[m] = "DRAFT"}
  <1>1. /\ \A m \in gone : lock[m] = None
        /\ entry' = [m \in Managers |-> IF m \in gone THEN "none" ELSE entry[m]]
        /\ slots' = [m \in Managers |-> IF m \in gone THEN <<>> ELSE slots[m]]
        /\ roles' = [m \in Managers |-> IF m \in gone THEN {} ELSE roles[m]]
        /\ UNCHANGED <<round, book, swaps, overtaken, lock, req>>
    BY DEF SaveStatus
  <1> HIDE DEF gone
  <1>2. IsList(<<>>) /\ \A r \in Nat : SoundLog({}, r)
    BY DEF IsList, ToSet, SoundLog
  <1>3. ASSUME NEW m \in Managers
        PROVE  \/ entry'[m] = entry[m] /\ slots'[m] = slots[m] /\ roles'[m] = roles[m]
               \/ /\ lock[m] = None
                  /\ IsList(slots'[m])
                  /\ roles'[m] \subseteq roles[m]
                  /\ \A r \in Nat : SoundLog(roles[m], r) => SoundLog(roles'[m], r)
                  /\ entry'[m] = "LOCKED" /\ book # None => Complete(slots'[m], roles'[m], m \in overtaken)
    <2>1. CASE m \in gone
      <3>1. entry'[m] = "none" /\ slots'[m] = <<>> /\ roles'[m] = {} /\ lock[m] = None
        BY <1>1, <2>1
      <3> QED
        BY <1>2, <3>1
    <2>2. CASE m \notin gone
      BY <1>1, <2>2
    <2> QED
      BY <2>1, <2>2
  <1>4. DOMAIN entry' = Managers /\ DOMAIN slots' = Managers /\ DOMAIN roles' = Managers
    BY <1>1
  <1> QED
    BY <1>1, <1>3, <1>4, FreeRows

LEMMA IInvNext == IInv /\ [Next]_vars => IInv'
  <1> SUFFICES ASSUME IInv, [Next]_vars PROVE IInv'
    OBVIOUS
  <1>1. ASSUME NEW m \in Managers, Manager(m)
        PROVE  IInv'
    BY <1>1, LockRosterKeeps, SetSlotsKeeps DEF Manager
  <1>2. ASSUME NEW s \in Sessions, Session(s)
        PROVE  IInv'
    <2>1. CASE \E kind \in {"swap", "roles"} : Begin(s, kind)
      BY <2>1, BeginKeeps
    <2>2. CASE LoadForSwap(s)
      BY <2>2, LoadForSwapKeeps
    <2>3. CASE LoadForRoles(s)
      BY <2>3, LoadForRolesKeeps
    <2>4. CASE Commit(s)
      BY <2>4, CommitKeeps
    <2>5. CASE Abort(s)
      BY <2>5, AbortKeeps
    <2> QED
      BY <1>2, <2>1, <2>2, <2>3, <2>4, <2>5 DEF Session
  <1>3. CASE Admin
    <2>1. CASE AdvanceRound
      BY <2>1, Undisturbed DEF AdvanceRound, entries
    <2>2. CASE \E open \in BOOLEAN : SetSwapWindow(open)
      BY <2>2, Undisturbed DEF SetSwapWindow, entries
    <2>3. CASE \E st \in Statuses \ {"COMPLETED"} : SaveStatus(st)
      BY <2>3, SaveStatusKeeps
    <2> QED
      BY <1>3, <2>1, <2>2, <2>3 DEF Admin
  <1>4. CASE Late
    <2>1. CASE \E st \in Statuses \cap {"COMPLETED"} : SaveStatus(st)
      BY <2>1, SaveStatusKeeps
    <2>2. CASE \E h \in Droppable : DropFromPool(h)
      BY <2>2, Undisturbed DEF DropFromPool, entries
    <2>3. CASE \E f \in Fixtures, r \in Rounds :
                 RecordMatch(f, r) \/ \E i \in DOMAIN matches : CorrectMatch(i, f, r)
      BY <2>3, Undisturbed DEF RecordMatch, CorrectMatch, tournament, entries
    <2>4. CASE \E i \in DOMAIN matches : DeleteMatch(i)
      BY <2>4, Undisturbed DEF DeleteMatch, tournament, entries
    <2> QED
      BY <1>4, <2>1, <2>2, <2>3, <2>4 DEF Late
  <1>5. CASE UNCHANGED vars
    BY <1>5, Undisturbed DEF vars, tournament, entries
  <1> QED
    BY <1>1, <1>2, <1>3, <1>4, <1>5 DEF Next, Ongoing

\* IInv is inductive: an entry changes only while its row is free or by the request
\* that holds it, and that request writes what it decided on the entry as it is.
THEOREM Inductive == Spec => []IInv
  <1>1. Init => IInv
    BY IInvInit
  <1>2. IInv /\ [Next]_vars => IInv'
    BY IInvNext
  <1> QED
    BY <1>1, <1>2, PTL DEF Spec

\* Where roles are used every hero of a locked roster has one of the tournament's,
\* whatever the managers, sessions, rosters, roles and rounds and however long a request
\* stalls; and no role is over its cap unless a request of the manager has written behind
\* rows of a later round (service.rs swap_roster, set_roles and lock_roster; query.rs
\* lock_entry_by_manager).
THEOREM RolesComplete == Spec => []LockedRolesComplete
  <1>1. IInv => LockedRolesComplete
    BY DEF IInv, LockedRolesComplete, LockedViolations, Complete
  <1> QED
    BY <1>1, Inductive, PTL

-----------------------------------------------------------------------------
(* The folds of a roster, swap by swap.                                    *)

\* A list of states, each from the one before by the swap in between.
Rises(h, base, log, n) ==
  h[0] = base /\ \A k \in 1 .. n : h[k] = Replay(h[k - 1], log[k])

\* The same read backwards: each roster from the one after it.
Falls(o, heroes, log, n) ==
  o[n + 1] = heroes /\ \A k \in 1 .. n : o[k] = Undo(log[k], o[k + 1])

\* The holdings before the first swap.
Opened(e) == [i \in DOMAIN OpeningRoster(e) |-> Holding(OpeningRoster(e)[i], 1, None)]

\* Replaying any swap of the log stays in V; so does undoing one.
Stays(V, log, n) == \A k \in 1 .. n, xs \in V : Replay(xs, log[k]) \in V

StaysUndone(V, log, n) == \A k \in 1 .. n, heroes \in V : Undo(log[k], heroes) \in V

\* The holdings, swap by swap.
LEMMA HoldingsRise ==
  ASSUME NEW e, NEW n \in Nat, DOMAIN e.swaps = 1 .. n, NEW V, Opened(e) \in V, Stays(V, e.swaps, n)
  PROVE  \E h \in [0 .. n -> V] : Rises(h, Opened(e), e.swaps, n) /\ Holdings(e) = h[n]
  <1> DEFINE D == 1 .. n
             base == Opened(e)
             log == e.swaps
             step == [p \in D \X V |-> Replay(p[2], log[p[1]])]
             iter == CHOOSE g : g = [s \in SUBSET D |->
                       IF s = {} THEN base ELSE Replay(g[s \ {Max(s)}], log[Max(s)])]
  <1>1. \A k \in D, xs \in V : step[<<k, xs>>] = Replay(xs, log[k]) /\ step[<<k, xs>>] \in V
    BY DEF Stays
  <1> HIDE DEF step
  <1>2. Picks(Largest(D), D) /\ IsFiniteSet(D)
    <2>1. \A s \in SUBSET D : s # {} => Max(s) \in s
      BY LargestExists
    <2>2. IsFiniteSet(1 .. n)
      BY FS_Interval
    <2> HIDE DEF D
    <2>3. Picks(Largest(D), D)
      BY <2>1 DEF Picks, Largest
    <2> QED
      BY <2>2, <2>3 DEF D
  <1>3. PICK g \in [SUBSET D -> V] : Solves(g, D, base, Largest(D), step)
    <2>1. \A k \in D, xs \in V : step[<<k, xs>>] \in V
      BY <1>1
    <2> HIDE DEF D
    <2> QED
      BY <1>2, <2>1, SolutionExists
  <1>4. \E f : f = [s \in SUBSET D |->
                     IF s = {} THEN base ELSE Replay(f[s \ {Max(s)}], log[Max(s)])]
    <2>1. ASSUME NEW s \in SUBSET D
          PROVE  g[s] = IF s = {} THEN base ELSE Replay(g[s \ {Max(s)}], log[Max(s)])
      <3>1. s # {} => Max(s) \in D /\ g[s \ {Max(s)}] \in V
        BY LargestExists
      <3>2. g[s] = IF s = {} THEN base ELSE step[<<Max(s), g[s \ {Max(s)}]>>]
        BY <1>3 DEF Solves, Largest
      <3> QED
        BY <1>1, <3>1, <3>2
    <2>2. g = [s \in SUBSET D |->
                 IF s = {} THEN base ELSE Replay(g[s \ {Max(s)}], log[Max(s)])]
      BY <2>1
    <2> QED
      BY <2>2
  <1>5. iter = [s \in SUBSET D |->
                 IF s = {} THEN base ELSE Replay(iter[s \ {Max(s)}], log[Max(s)])]
    BY <1>4
  <1>6. Holdings(e) = iter[D]
    BY DEF Holdings, Opened, FoldLeft, MapThenFoldSet
  <1> HIDE DEF iter
  <1> DEFINE h == [k \in 0 .. n |-> iter[1 .. k]]
  <1>7. h[0] = base
    <2>1. 1 .. 0 = {} /\ 1 .. 0 \in SUBSET D
      OBVIOUS
    <2> QED
      BY <1>5, <2>1
  <1>8. \A k \in 1 .. n : h[k] = Replay(h[k - 1], log[k])
    <2> SUFFICES ASSUME NEW k \in 1 .. n PROVE h[k] = Replay(h[k - 1], log[k])
      OBVIOUS
    <2> DEFINE s == 1 .. k
    <2>1. s \in SUBSET D /\ s # {} /\ Max(s) = k /\ s \ {k} = 1 .. (k - 1)
      BY LastOfFirst
    <2>2. h[k] = iter[s] /\ h[k - 1] = iter[1 .. (k - 1)]
      OBVIOUS
    <2> HIDE DEF s, h
    <2>3. iter[s] = Replay(iter[s \ {Max(s)}], log[Max(s)])
      BY <1>5, <2>1
    <2> QED
      BY <2>1, <2>2, <2>3
  <1>9. h[n] = iter[D]
    OBVIOUS
  <1>10. DOMAIN h = 0 .. n /\ h = [k \in 0 .. n |-> h[k]]
    OBVIOUS
  <1> HIDE DEF h
  <1>11. \A k \in 0 .. n : h[k] \in V
    <2> DEFINE S == {k \in 0 .. n : h[k] \in V}
    <2>1. 0 \in S
      BY <1>7
    <2>2. \A k \in 1 .. n : k - 1 \in S => k \in S
      BY <1>8 DEF Stays
    <2> HIDE DEF S
    <2>3. \A k \in 0 .. n : k \in S
      BY <2>1, <2>2, UpTo
    <2> QED
      BY <2>3 DEF S
  <1>12. h \in [0 .. n -> V]
    BY <1>10, <1>11
  <1> QED
    BY <1>6, <1>7, <1>8, <1>9, <1>12 DEF Rises

\* The rosters before each swap, from the last back to the first.
LEMMA RostersFall ==
  ASSUME NEW e, NEW n \in Nat, DOMAIN e.swaps = 1 .. n, NEW V, e.heroes \in V, StaysUndone(V, e.swaps, n)
  PROVE  \E o \in [1 .. n + 1 -> V] : Falls(o, e.heroes, e.swaps, n) /\ OpeningRoster(e) = o[1]
  <1> DEFINE D == 1 .. n
             heroes == e.heroes
             log == e.swaps
             step == [p \in D \X V |-> Undo(log[p[1]], p[2])]
             iter == CHOOSE g : g = [s \in SUBSET D |->
                       IF s = {} THEN heroes ELSE Undo(log[Min(s)], g[s \ {Min(s)}])]
  <1>1. \A k \in D, v \in V : step[<<k, v>>] = Undo(log[k], v) /\ step[<<k, v>>] \in V
    BY DEF StaysUndone
  <1> HIDE DEF step
  <1>2. Picks(Smallest(D), D) /\ IsFiniteSet(D)
    <2>1. \A s \in SUBSET D : s # {} => Min(s) \in s
      BY SmallestExists
    <2>2. IsFiniteSet(1 .. n)
      BY FS_Interval
    <2> HIDE DEF D
    <2>3. Picks(Smallest(D), D)
      BY <2>1 DEF Picks, Smallest
    <2> QED
      BY <2>2, <2>3 DEF D
  <1>3. PICK g \in [SUBSET D -> V] : Solves(g, D, heroes, Smallest(D), step)
    <2>1. \A k \in D, v \in V : step[<<k, v>>] \in V
      BY <1>1
    <2> HIDE DEF D
    <2> QED
      BY <1>2, <2>1, SolutionExists
  <1>4. \E f : f = [s \in SUBSET D |->
                     IF s = {} THEN heroes ELSE Undo(log[Min(s)], f[s \ {Min(s)}])]
    <2>1. ASSUME NEW s \in SUBSET D
          PROVE  g[s] = IF s = {} THEN heroes ELSE Undo(log[Min(s)], g[s \ {Min(s)}])
      <3>1. s # {} => Min(s) \in D /\ g[s \ {Min(s)}] \in V
        BY SmallestExists
      <3>2. g[s] = IF s = {} THEN heroes ELSE step[<<Min(s), g[s \ {Min(s)}]>>]
        BY <1>3 DEF Solves, Smallest
      <3> QED
        BY <1>1, <3>1, <3>2
    <2>2. g = [s \in SUBSET D |->
                 IF s = {} THEN heroes ELSE Undo(log[Min(s)], g[s \ {Min(s)}])]
      BY <2>1
    <2> QED
      BY <2>2
  <1>5. iter = [s \in SUBSET D |->
                 IF s = {} THEN heroes ELSE Undo(log[Min(s)], iter[s \ {Min(s)}])]
    BY <1>4
  <1>6. OpeningRoster(e) = iter[D]
    BY DEF OpeningRoster, FoldRight, MapThenFoldSet
  <1> HIDE DEF iter
  <1> DEFINE o == [k \in 1 .. n + 1 |-> iter[k .. n]]
  <1>7. o[n + 1] = heroes
    <2>1. n + 1 .. n = {} /\ n + 1 .. n \in SUBSET D /\ n + 1 \in 1 .. n + 1
      OBVIOUS
    <2> QED
      BY <1>5, <2>1
  <1>8. \A k \in 1 .. n : o[k] = Undo(log[k], o[k + 1])
    <2> SUFFICES ASSUME NEW k \in 1 .. n PROVE o[k] = Undo(log[k], o[k + 1])
      OBVIOUS
    <2> DEFINE s == k .. n
    <2>1. s \in SUBSET D /\ s # {} /\ Min(s) = k /\ s \ {k} = (k + 1) .. n
      BY FirstOfLast
    <2>2. o[k] = iter[s] /\ o[k + 1] = iter[(k + 1) .. n]
      OBVIOUS
    <2> HIDE DEF s, o
    <2>3. iter[s] = Undo(log[Min(s)], iter[s \ {Min(s)}])
      BY <1>5, <2>1
    <2> QED
      BY <2>1, <2>2, <2>3
  <1>9. o[1] = iter[D]
    OBVIOUS
  <1>10. DOMAIN o = 1 .. n + 1 /\ o = [k \in 1 .. n + 1 |-> o[k]]
    OBVIOUS
  <1> HIDE DEF o
  <1>11. \A k \in 1 .. n + 1 : o[k] \in V
    <2> DEFINE S == {k \in 1 .. n + 1 : o[k] \in V}
    <2>1. n + 1 \in S
      BY <1>7
    <2>2. \A k \in 1 .. n : k + 1 \in S => k \in S
      BY <1>8 DEF StaysUndone
    <2> HIDE DEF S
    <2>3. \A k \in 1 .. n + 1 : k \in S
      BY <2>1, <2>2, DownFrom
    <2> QED
      BY <2>3 DEF S
  <1>12. o \in [1 .. n + 1 -> V]
    BY <1>10, <1>11
  <1> QED
    BY <1>6, <1>7, <1>8, <1>9, <1>12 DEF Falls

\* What is listed is a list.
LEMMA UndoStays ==
  ASSUME NEW H, NEW log, NEW n, \A k \in 1 .. n : log[k].out \in H
  PROVE  StaysUndone(Seq(H), log, n)
  <1> SUFFICES ASSUME NEW k \in 1 .. n, NEW heroes \in Seq(H)
               PROVE  Undo(log[k], heroes) \in Seq(H)
    BY DEF StaysUndone
  <1> DEFINE i == SelectInSeq(heroes, LAMBDA h : h = log[k].in)
  <1>1. Undo(log[k], heroes) = IF i = 0 THEN Append(heroes, log[k].out)
                                        ELSE [heroes EXCEPT ![i] = log[k].out]
    BY DEF Undo
  <1> HIDE DEF i
  <1>2. log[k].out \in H /\ Len(heroes) \in Nat /\ heroes \in [1 .. Len(heroes) -> H]
    OBVIOUS
  <1>3. Append(heroes, log[k].out) \in Seq(H)
    BY <1>2
  <1>4. [heroes EXCEPT ![i] = log[k].out] \in Seq(H)
    <2>1. [heroes EXCEPT ![i] = log[k].out] \in [1 .. Len(heroes) -> H]
      BY <1>2
    <2> QED
      BY <1>2, <2>1
  <1> QED
    BY <1>1, <1>3, <1>4

\* Replaying them leaves lists of holdings.
LEMMA ReplayStays ==
  ASSUME NEW R, NEW log, NEW n,
         \A k \in 1 .. n : Holding(log[k].in, log[k].round, None) \in R,
         \A k \in 1 .. n, x \in R : Holding(log[k].out, x.from, log[k].round) \in R
  PROVE  Stays(Seq(R), log, n)
  <1> SUFFICES ASSUME NEW k \in 1 .. n, NEW xs \in Seq(R)
               PROVE  Replay(xs, log[k]) \in Seq(R)
    BY DEF Stays
  <1> DEFINE open == SelectInSeq(xs, LAMBDA x : x.hero = log[k].out /\ x.until = None)
  <1>1. Close(xs, log[k]) = [j \in DOMAIN xs |-> IF j = open THEN Holding(log[k].out, xs[j].from, log[k].round)
                                                              ELSE xs[j]]
    BY DEF Close
  <1> HIDE DEF open
  <1>2. DOMAIN xs = 1 .. Len(xs) /\ Len(xs) \in Nat /\ \A j \in DOMAIN xs : xs[j] \in R
    OBVIOUS
  <1>3. Close(xs, log[k]) \in Seq(R)
    <2>1. \A j \in 1 .. Len(xs) : Close(xs, log[k])[j] \in R
      BY <1>1, <1>2
    <2>2. Close(xs, log[k]) \in [1 .. Len(xs) -> R]
      <3> DEFINE new(j) == IF j = open THEN Holding(log[k].out, xs[j].from, log[k].round) ELSE xs[j]
      <3>1. \A j \in 1 .. Len(xs) : new(j) \in R
        BY <1>2
      <3>2. Close(xs, log[k]) = [j \in 1 .. Len(xs) |-> new(j)]
        BY <1>1, <1>2
      <3> HIDE DEF new
      <3> QED
        BY <3>1, <3>2
    <2> QED
      BY <1>2, <2>2, IsSequence
  <1>4. Holding(log[k].in, log[k].round, None) \in R
    OBVIOUS
  <1> QED
    BY <1>3, <1>4 DEF Replay

\* How an entry's holdings come about: the rosters before each swap, and the holdings after
\* each.
Unfolds(e, n, o, h) ==
  /\ Falls(o, e.heroes, e.swaps, n) /\ OpeningRoster(e) = o[1]
  /\ Rises(h, Opened(e), e.swaps, n) /\ Holdings(e) = h[n]

\* They are lists.
LEMMA HoldingsUnfold ==
  ASSUME NEW e, IsList(e.heroes), NEW n \in Nat, DOMAIN e.swaps = 1 .. n
  PROVE  \E S, R : \E o \in [1 .. n + 1 -> Seq(S)], h \in [0 .. n -> Seq(R)] : Unfolds(e, n, o, h)
  <1> DEFINE log == e.swaps
             opening == OpeningRoster(e)
             H == ToSet(e.heroes) \cup {log[k].out : k \in 1 .. n} \cup {log[k].in : k \in 1 .. n}
             F == {1} \cup {log[k].round : k \in 1 .. n}
             U == F \cup {None}
             R == {Holding(p[1], p[2], p[3]) : p \in H \X F \X U}
  <1>1. DOMAIN log = 1 .. n
    OBVIOUS
  <1>2. e.heroes \in Seq(H)
    BY DEF IsList
  <1>3. \A k \in 1 .. n : log[k].out \in H /\ log[k].in \in H /\ log[k].round \in F
    OBVIOUS
  <1>4. 1 \in F /\ None \in U /\ \A f \in F : f \in U
    OBVIOUS
  <1>5. \A h \in H, f \in F, u \in U : Holding(h, f, u) \in R
    <2> SUFFICES ASSUME NEW h \in H, NEW f \in F, NEW u \in U PROVE Holding(h, f, u) \in R
      OBVIOUS
    <2> HIDE DEF H, F, U
    <2>1. <<h, f, u>> \in H \X F \X U
      OBVIOUS
    <2> QED
      BY <2>1
  <1>6. \A x \in R : x.from \in F
    BY DEF Holding
  <1> HIDE DEF log, H, F, U, R
  <1>7. StaysUndone(Seq(H), log, n)
    BY <1>3, UndoStays
  <1>8. PICK o \in [1 .. n + 1 -> Seq(H)] : Falls(o, e.heroes, e.swaps, n) /\ OpeningRoster(e) = o[1]
    <2>1. DOMAIN e.swaps = 1 .. n /\ StaysUndone(Seq(H), e.swaps, n)
      BY <1>7 DEF log
    <2> QED
      BY <1>2, <2>1, RostersFall
  <1>9. Stays(Seq(R), log, n)
    <2>1. \A k \in 1 .. n : Holding(log[k].in, log[k].round, None) \in R
      BY <1>3, <1>4, <1>5
    <2>2. \A k \in 1 .. n, x \in R : Holding(log[k].out, x.from, log[k].round) \in R
      BY <1>3, <1>4, <1>5, <1>6
    <2> QED
      BY <2>1, <2>2, ReplayStays
  <1>10. Opened(e) \in Seq(R)
    <2>0. opening \in Seq(H)
      BY <1>8
    <2>1. DOMAIN opening = 1 .. Len(opening) /\ Len(opening) \in Nat /\ \A i \in DOMAIN opening : opening[i] \in H
      BY <2>0
    <2>2. \A i \in DOMAIN opening : Holding(opening[i], 1, None) \in R
      BY <1>4, <1>5, <2>1
    <2>3. Opened(e) = [i \in DOMAIN opening |-> Holding(opening[i], 1, None)]
      BY DEF Opened
    <2> HIDE DEF opening
    <2>4. Opened(e) \in [1 .. Len(opening) -> R]
      BY <2>1, <2>2, <2>3
    <2> QED
      BY <2>1, <2>4, IsSequence
  <1>11. PICK h \in [0 .. n -> Seq(R)] : Rises(h, Opened(e), e.swaps, n) /\ Holdings(e) = h[n]
    <2>1. DOMAIN e.swaps = 1 .. n /\ Stays(Seq(R), e.swaps, n)
      BY <1>9 DEF log
    <2> QED
      BY <1>10, <2>1, HoldingsRise
  <1>12. Unfolds(e, n, o, h)
    BY <1>8, <1>11 DEF Unfolds
  <1> QED
    BY <1>8, <1>11, <1>12

\* Holdings are finitely many.
LEMMA FiniteHoldings ==
  ASSUME NEW e, IsList(e.heroes), IsList(e.swaps)
  PROVE  IsFiniteSet(DOMAIN Holdings(e))
  <1> DEFINE n == Len(e.swaps)
  <1>1. n \in Nat /\ DOMAIN e.swaps = 1 .. n
    BY ListPositions
  <1> HIDE DEF n
  <1>2. PICK S, R : \E o \in [1 .. n + 1 -> Seq(S)], h \in [0 .. n -> Seq(R)] : Unfolds(e, n, o, h)
    BY <1>1, HoldingsUnfold
  <1>3. Holdings(e) \in Seq(R)
    BY <1>1, <1>2 DEF Unfolds
  <1>4. DOMAIN Holdings(e) = 1 .. Len(Holdings(e)) /\ Len(Holdings(e)) \in Nat
    BY <1>3
  <1> QED
    BY <1>4, FS_Interval

\* A match that may be recorded has finitely many contexts.
LEMMA FiniteContexts ==
  ASSUME NEW m, Recordable(m)
  PROVE  IsFiniteSet(HeroContexts(m))
  <1>1. IsFiniteSet(DOMAIN m.games) /\ \A g \in DOMAIN m.games : m.games[g] \in ToSet(m.games)
    BY ListPositions DEF Recordable
  <1>2. \A g \in DOMAIN m.games : IsFiniteSet(DOMAIN m.games[g].seats)
    <2> SUFFICES ASSUME NEW g \in DOMAIN m.games PROVE IsFiniteSet(DOMAIN m.games[g].seats)
      OBVIOUS
    <2>1. IsList(m.games[g].seats)
      BY <1>1 DEF Recordable
    <2> QED
      BY <2>1, ListPositions
  <1> DEFINE At(g) == {SeatOf(m, g, s) : s \in DOMAIN m.games[g].seats}
  <1>3. ASSUME NEW g \in DOMAIN m.games PROVE IsFiniteSet(At(g))
    <2> DEFINE l == [s \in DOMAIN m.games[g].seats |-> SeatOf(m, g, s)]
    <2>1. ToSet(l) = At(g) /\ DOMAIN l = DOMAIN m.games[g].seats
      BY DEF ToSet
    <2> HIDE DEF l, At
    <2> QED
      BY <1>2, <2>1, FiniteRows
  <1>4. PlayedContexts(m) = UNION {At(g) : g \in DOMAIN m.games}
    BY DEF PlayedContexts, SeatOf
  <1>5. IsFiniteSet({At(g) : g \in DOMAIN m.games})
    <2> DEFINE l == [g \in DOMAIN m.games |-> At(g)]
    <2> HIDE DEF At
    <2>1. ToSet(l) = {At(g) : g \in DOMAIN m.games} /\ DOMAIN l = DOMAIN m.games
      BY DEF ToSet
    <2> HIDE DEF l
    <2> QED
      BY <1>1, <2>1, FiniteRows
  <1> HIDE DEF At
  <1>6. IsFiniteSet(PlayedContexts(m))
    <2>1. \A X \in {At(g) : g \in DOMAIN m.games} : IsFiniteSet(X)
      BY <1>3
    <2> QED
      BY <1>4, <1>5, <2>1, FS_UNION
  <1>7. IsFiniteSet(DraftedHeroes(m))
    <2>1. IsFiniteSet(ToSet(m.participants))
      BY ListPositions, FiniteRows DEF Recordable
    <2> DEFINE l == [p \in ToSet(m.participants) |-> ToSet(p.drafted)]
    <2>2. ToSet(l) = {ToSet(p.drafted) : p \in ToSet(m.participants)} /\ DOMAIN l = ToSet(m.participants)
      BY DEF ToSet
    <2> HIDE DEF l
    <2>3. IsFiniteSet({ToSet(p.drafted) : p \in ToSet(m.participants)})
      BY <2>1, <2>2, FiniteRows
    <2>4. ASSUME NEW p \in ToSet(m.participants) PROVE IsFiniteSet(ToSet(p.drafted))
      <3>1. IsList(p.drafted)
        BY DEF Recordable
      <3> QED
        BY <3>1, ListPositions, FiniteRows
    <2>5. \A S \in {ToSet(p.drafted) : p \in ToSet(m.participants)} : IsFiniteSet(S)
      BY <2>4
    <2>6. IsFiniteSet(UNION {ToSet(p.drafted) : p \in ToSet(m.participants)})
      BY <2>3, <2>5, FS_UNION
    <2> QED
      BY <2>6 DEF DraftedHeroes
  <1> DEFINE named == {b.hero : b \in ToSet(m.bans)}
             Off(role, hs) == {OffTable(role, h) : h \in hs}
  <1>8. IsFiniteSet(named)
    <2>1. IsFiniteSet(ToSet(m.bans))
      BY ListPositions, FiniteRows DEF Recordable
    <2> DEFINE l == [b \in ToSet(m.bans) |-> b.hero]
    <2>2. ToSet(l) = named /\ DOMAIN l = ToSet(m.bans)
      BY DEF ToSet
    <2> HIDE DEF l, named
    <2> QED
      BY <2>1, <2>2, FiniteRows
  <1>9. ASSUME NEW role, NEW hs, IsFiniteSet(hs) PROVE IsFiniteSet(Off(role, hs))
    <2> DEFINE l == [h \in hs |-> OffTable(role, h)]
    <2>1. ToSet(l) = Off(role, hs) /\ DOMAIN l = hs
      BY DEF ToSet
    <2> HIDE DEF l, Off
    <2> QED
      BY <1>9, <2>1, FiniteRows
  <1>10. HeroContexts(m) \subseteq (PlayedContexts(m) \cup Off("BANNED", named)) \cup Off("DRAFTED", DraftedHeroes(m))
    BY DEF HeroContexts
  <1>11. IsFiniteSet(Off("BANNED", named)) /\ IsFiniteSet(Off("DRAFTED", DraftedHeroes(m)))
    BY <1>7, <1>8, <1>9
  <1> HIDE DEF Off, named
  <1>12. IsFiniteSet((PlayedContexts(m) \cup Off("BANNED", named)) \cup Off("DRAFTED", DraftedHeroes(m)))
    BY <1>6, <1>11, FS_Union
  <1> QED
    BY <1>10, <1>12, FS_Subset

-----------------------------------------------------------------------------
(* What an appearance is worth.                                            *)

\* The image of a finite set, as its definition writes it down.
\* The coefficients of the rule set are whole numbers.
LEMMA CoefficientType ==
  ASSUME NEW metric
  PROVE  CoefficientOf(Rules, metric) \in Int
  <1> DEFINE found == {i \in 1 .. Len(Rules) : Rules[i][1] = metric}
             i == SelectLastInSeq(Rules, LAMBDA p : p[1] = metric)
  <1>1. /\ Len(Rules) \in Nat /\ DOMAIN Rules = 1 .. Len(Rules)
        /\ \A k \in DOMAIN Rules : Rules[k] \in ToSet(Rules)
    BY ListPositions, StoredAssumption
  <1>2. i = IF found # {} THEN Max(found) ELSE 0
    BY DEF SelectLastInSeq
  <1>3. CoefficientOf(Rules, metric) = IF i = 0 THEN 0 ELSE Rules[i][2]
    BY DEF CoefficientOf
  <1>4. found \in SUBSET (1 .. Len(Rules))
    OBVIOUS
  <1> HIDE DEF found, i
  <1>5. found # {} => Max(found) \in 1 .. Len(Rules)
    BY <1>1, <1>4, LargestExists
  <1>6. i \in 1 .. Len(Rules) => Rules[i][2] \in Int
    BY <1>1, StoredAssumption
  <1> QED
    BY <1>2, <1>3, <1>5, <1>6

\* A rule set prices finitely many metrics.
LEMMA FiniteMetrics == IsFiniteSet(ScoredMetrics(Rules))
  <1> DEFINE l == [p \in ToSet(Rules) |-> p[1]]
  <1>1. IsFiniteSet(ToSet(Rules))
    BY ListPositions, FiniteRows, StoredAssumption
  <1>2. DOMAIN l = ToSet(Rules) /\ ToSet(l) = {p[1] : p \in ToSet(Rules)}
    BY DEF ToSet
  <1> HIDE DEF l
  <1>3. IsFiniteSet({p[1] : p \in ToSet(Rules)})
    BY <1>1, <1>2, FiniteRows
  <1> QED
    BY <1>3, FS_Intersection DEF ScoredMetrics

\* A context is that of a seat or has no game.
LEMMA ContextShape ==
  ASSUME NEW m, NEW c \in HeroContexts(m)
  PROVE  /\ Played(c) => \E g \in DOMAIN m.games : \E s \in DOMAIN m.games[g].seats : c = SeatOf(m, g, s)
         /\ ~Played(c) => \E role \in {"BANNED", "DRAFTED"} : c = OffTable(role, c.hero)
  <1>1. CASE c \in PlayedContexts(m)
    <2>1. \E g \in DOMAIN m.games : \E s \in DOMAIN m.games[g].seats : c = SeatOf(m, g, s)
      BY <1>1 DEF PlayedContexts, SeatOf
    <2>2. c.role = "PLAYED"
      BY <2>1 DEF SeatOf
    <2> QED
      BY <2>1, <2>2 DEF Played
  <1>2. CASE c \notin PlayedContexts(m)
    <2>1. \E role \in {"BANNED", "DRAFTED"} : \E h : c = OffTable(role, h)
      BY <1>2 DEF HeroContexts
    <2>2. PICK role \in {"BANNED", "DRAFTED"} : \E h : c = OffTable(role, h)
      BY <2>1
    <2>4. PICK h : c = OffTable(role, h)
      BY <2>2
    <2>3. c.hero = h /\ c.role = role
      BY <2>4 DEF OffTable
    <2> QED
      BY <2>2, <2>3, <2>4 DEF Played
  <1> QED
    BY <1>1, <1>2

\* The seat of a context that was played.
LEMMA SeatShape ==
  ASSUME NEW m, Recordable(m), NEW c \in HeroContexts(m), Played(c)
  PROVE  /\ c.game \in DOMAIN m.games /\ c.seat \in DOMAIN m.games[c.game].seats
         /\ c.hero = Participant(m, c).hero /\ c = SeatOf(m, c.game, c.seat)
         /\ Participant(m, c) \in ToSet(m.games[c.game].seats)
         /\ m.games[c.game] \in ToSet(m.games)
         /\ Participant(m, c).health \in Int /\ Participant(m, c).winner \in BOOLEAN
         /\ IsCount(Participant(m, c).stats)
  <1>0. PICK g \in DOMAIN m.games : \E s \in DOMAIN m.games[g].seats : c = SeatOf(m, g, s)
    BY ContextShape
  <1>1. PICK s \in DOMAIN m.games[g].seats : c = SeatOf(m, g, s)
    BY <1>0
  <1>2. c.game = g /\ c.seat = s /\ c.hero = m.games[g].seats[s].hero
    BY <1>1 DEF SeatOf
  <1>3. Participant(m, c) = m.games[g].seats[s]
    BY <1>2 DEF Participant
  <1>4. m.games[g] \in ToSet(m.games) /\ m.games[g].seats[s] \in ToSet(m.games[g].seats)
    BY DEF ToSet
  <1>5. /\ m.games[g].seats[s].health \in Int /\ m.games[g].seats[s].winner \in BOOLEAN
        /\ IsCount(m.games[g].seats[s].stats)
    BY <1>4 DEF Recordable
  <1> QED
    BY <1>1, <1>2, <1>3, <1>4, <1>5

\* A health gap is a whole number.
LEMMA GapIsNumber ==
  ASSUME NEW m, Recordable(m), NEW c \in HeroContexts(m)
  PROVE  HealthGap(m, c) \in Int
  <1> SUFFICES ASSUME Opponents(m, c) # {} PROVE HealthGap(m, c) \in Int
    BY DEF HealthGap
  <1>1. Played(c)
    BY DEF Opponents
  <1> DEFINE game == m.games[c.game]
             healths == {o.health : o \in Opponents(m, c)}
  <1>2. game \in ToSet(m.games) /\ Participant(m, c).health \in Int
    BY <1>1, SeatShape
  <1>3. Opponents(m, c) \subseteq ToSet(game.seats)
    BY <1>1 DEF Opponents, OpponentsOf
  <1>4. IsList(game.seats) /\ \A s \in ToSet(game.seats) : s.health \in Int
    BY <1>2 DEF Recordable
  <1>5. IsFiniteSet(Opponents(m, c))
    <2>1. IsFiniteSet(ToSet(game.seats))
      BY <1>4, ListPositions, FiniteRows
    <2> QED
      BY <1>3, <2>1, FS_Subset
  <1>6. IsFiniteSet(healths)
    <2> DEFINE l == [o \in Opponents(m, c) |-> o.health]
    <2>1. DOMAIN l = Opponents(m, c) /\ ToSet(l) = healths
      BY DEF ToSet
    <2> HIDE DEF l, healths
    <2> QED
      BY <1>5, <2>1, FiniteRows
  <1>7. healths \in SUBSET Int /\ healths # {}
    BY <1>3, <1>4
  <1>8. HealthGap(m, c) = Participant(m, c).health - Max(healths)
    BY DEF HealthGap
  <1> HIDE DEF healths
  <1>9. Max(healths) \in Int
    BY <1>6, <1>7, MaxOfSome
  <1> QED
    BY <1>2, <1>8, <1>9

\* What a metric reads off an appearance is a whole number.
LEMMA MeasureType ==
  ASSUME NEW m, Recordable(m), NEW c \in HeroContexts(m), NEW metric \in Known
  PROVE  Measure(m, c, metric) \in Int
  <1>1. \A b : Flag(b) \in Int
    BY DEF Flag
  <1>2. HealthRemaining(m, c) \in Int
    BY SeatShape DEF HealthRemaining
  <1>3. HealthDifferential(m, c) \in Int /\ HealthDifferentialTwoWay(m, c) \in Int
    BY GapIsNumber DEF HealthDifferential, HealthDifferentialTwoWay
  <1>4. /\ Appearance(c) \in Int /\ BanOfType(m, c, "SELF_BAN") \in Int
        /\ BanOfType(m, c, "OPPONENT_BAN") \in Int /\ Win(m, c) \in Int /\ Loss(m, c) \in Int
        /\ Shutout(m, c) \in Int
    BY <1>1 DEF Appearance, BanOfType, Win, Loss, Shutout
  <1> QED
    BY <1>2, <1>3, <1>4 DEF Known, Measure

\* So is what it contributes, and their sum.
LEMMA PricedType ==
  ASSUME NEW m, Recordable(m), NEW c \in HeroContexts(m), NEW metric \in ScoredMetrics(Rules)
  PROVE  Priced(m, c, metric, Rules) \in Int
  <1> DEFINE a == Measure(m, c, metric)
             b == CoefficientOf(Rules, metric)
  <1>1. metric \in Known
    BY DEF ScoredMetrics
  <1>2. a \in Int /\ b \in Int
    BY <1>1, MeasureType, CoefficientType
  <1>3. Priced(m, c, metric, Rules) = Round2(a * b)
    BY DEF Priced
  <1> HIDE DEF a, b
  <1>4. a * b \in Int
    BY <1>2
  <1> QED
    BY <1>3, <1>4, Round2Type

\* So is the score of an appearance.
LEMMA ScoreType ==
  ASSUME NEW m, Recordable(m), NEW c \in HeroContexts(m)
  PROVE  Score(m, c, Rules) \in Int
  <1> DEFINE f == [metric \in ScoredMetrics(Rules) |-> Priced(m, c, metric, Rules)]
  <1>1. DOMAIN f = ScoredMetrics(Rules) /\ Numbers(f, ScoredMetrics(Rules))
    BY PricedType DEF Numbers
  <1>2. Score(m, c, Rules) = SumFunction(f)
    BY DEF Score
  <1> HIDE DEF f
  <1> QED
    BY <1>1, <1>2, FiniteMetrics, TotalType

\* And a bonus.
LEMMA BonusType ==
  ASSUME NEW b \in Books, b # None, NEW r \in DOMAIN b, NEW stats, IsCount(stats)
  PROVE  RoleBonus(b[r], stats) \in Int
  <1> DEFINE D == DOMAIN b[r].weights \cap DOMAIN stats
             f == [n \in D |-> Round2(stats[n] * b[r].weights[n])]
  <1>1. IsCount(b[r].weights)
    BY SeasonAssumption
  <1>2. IsFiniteSet(D)
    BY <1>1, FS_Intersection DEF IsCount
  <1>3. Numbers(f, D)
    <2> SUFFICES ASSUME NEW n \in D PROVE f[n] \in Int
      BY DEF Numbers
    <2>1. stats[n] \in Int /\ b[r].weights[n] \in Int
      BY <1>1 DEF IsCount
    <2> DEFINE x == stats[n]
               y == b[r].weights[n]
    <2>2. f[n] = Round2(x * y) /\ x \in Int /\ y \in Int
      BY <2>1
    <2> HIDE DEF x, y, f, D
    <2>3. x * y \in Int
      BY <2>2
    <2> QED
      BY <2>2, <2>3, Round2Type
  <1>4. DOMAIN f = D
    OBVIOUS
  <1>5. RoleBonus(b[r], stats) = IF SumFunction(f) > 0 THEN SumFunction(f) ELSE 0
    BY DEF RoleBonus
  <1> HIDE DEF f, D
  <1>6. SumFunction(f) \in Int
    BY <1>2, <1>3, <1>4, TotalType
  <1> QED
    BY <1>5, <1>6

-----------------------------------------------------------------------------
(* What the tables are folded from stays readable.                         *)

\* A function on 1 .. n is a list of its values.
LEMMA ListOfPlaces ==
  ASSUME NEW n \in Nat, NEW l, DOMAIN l = 1 .. n, l = [k \in DOMAIN l |-> l[k]]
  PROVE  IsList(l)
  <1>1. \A k \in 1 .. n : l[k] \in ToSet(l)
    BY DEF ToSet
  <1>2. l \in [1 .. n -> ToSet(l)]
    BY <1>1
  <1> QED
    BY <1>2, IsSequence DEF IsList

\* A sequence is a list.
LEMMA ListOf ==
  ASSUME NEW V, NEW s \in Seq(V)
  PROVE  IsList(s)
  <1>1. Len(s) \in Nat /\ DOMAIN s = 1 .. Len(s) /\ s = [k \in DOMAIN s |-> s[k]]
    OBVIOUS
  <1> QED
    BY <1>1, ListOfPlaces

\* Lists stay lists when they are joined,
LEMMA ListsJoin ==
  ASSUME NEW a, IsList(a), NEW b, IsList(b)
  PROVE  IsList(a \o b)
  <1> DEFINE V == ToSet(a) \cup ToSet(b)
  <1>1. a \in Seq(V) /\ b \in Seq(V)
    BY DEF IsList
  <1> HIDE DEF V
  <1>2. a \o b \in Seq(V)
    BY <1>1
  <1> QED
    BY <1>2, ListOf

\* when something is appended,
LEMMA ListGrows ==
  ASSUME NEW a, IsList(a), NEW x
  PROVE  /\ IsList(Append(a, x))
         /\ \A j \in DOMAIN Append(a, x) : (j \in DOMAIN a /\ Append(a, x)[j] = a[j]) \/ Append(a, x)[j] = x
  <1> DEFINE V == ToSet(a) \cup {x}
  <1>1. a \in Seq(V) /\ x \in V
    BY DEF IsList
  <1> HIDE DEF V
  <1>2. Append(a, x) \in Seq(V)
    BY <1>1
  <1>3. IsList(Append(a, x))
    BY <1>2, ListOf
  <1> QED
    BY <1>1, <1>3

\* when one element is replaced,
LEMMA ListReplaces ==
  ASSUME NEW a, IsList(a), NEW x, NEW i \in DOMAIN a
  PROVE  IsList([a EXCEPT ![i] = x])
  <1> DEFINE V == ToSet(a) \cup {x}
  <1>1. a \in Seq(V) /\ x \in V
    BY DEF IsList
  <1> HIDE DEF V
  <1>2. [a EXCEPT ![i] = x] \in Seq(V)
    BY <1>1
  <1> QED
    BY <1>2, ListOf

\* and when one is removed.
LEMMA ListShrinks ==
  ASSUME NEW a, IsList(a), NEW i \in DOMAIN a
  PROVE  /\ IsList(RemoveAt(a, i))
         /\ \A j \in DOMAIN RemoveAt(a, i) : \E k \in DOMAIN a : RemoveAt(a, i)[j] = a[k]
  <1> DEFINE V == ToSet(a)
             n == Len(a)
             left == SubSeq(a, 1, i - 1)
             right == SubSeq(a, i + 1, n)
  <1>1. a \in Seq(V) /\ n \in Nat /\ DOMAIN a = 1 .. n /\ i \in 1 .. n
    BY DEF IsList
  <1> HIDE DEF V, n
  <1>2. left \in Seq(V) /\ right \in Seq(V)
    <2>1. \A j \in 1 .. i - 1 : j \in 1 .. Len(a)
      BY <1>1 DEF n
    <2>2. \A j \in i + 1 .. n : j \in 1 .. Len(a)
      BY <1>1 DEF n
    <2> QED
      BY <1>1, <2>1, <2>2, SubSeqProperties
  <1> HIDE DEF left, right
  <1>3. RemoveAt(a, i) = left \o right
    BY DEF RemoveAt, left, right, n
  <1>4. left \o right \in Seq(V)
    BY <1>2
  <1>5. \A j \in DOMAIN (left \o right) : (left \o right)[j] \in V
    BY <1>4
  <1> QED
    BY <1>3, <1>4, <1>5, ListOf DEF V, ToSet

\* What one list lacks of another is a list.
LEMMA LackingIsList ==
  ASSUME NEW from, IsList(from), NEW to
  PROVE  IsList(Lacking(from, to))
  <1> DEFINE S == {i \in DOMAIN from : ~Contains(to, from[i])}
             Less(i, j) == i < j
             order == Sorted(S, Less)
  <1>1. IsFiniteSet(S)
    BY ListPositions, FS_Subset
  <1>2. Cardinality(S) \in Nat
    BY <1>1, FS_CardinalityType
  <1>3. DOMAIN order = 1 .. Cardinality(S)
    BY DEF Sorted
  <1>4. Lacking(from, to) = [k \in DOMAIN order |-> from[order[k]]]
    BY DEF Lacking
  <1> HIDE DEF S, order
  <1> DEFINE l == [k \in DOMAIN order |-> from[order[k]]]
  <1>5. DOMAIN l = 1 .. Cardinality(S)
    BY <1>3
  <1>6. l = [k \in DOMAIN l |-> l[k]]
    OBVIOUS
  <1> HIDE DEF l
  <1> QED
    BY <1>2, <1>4, <1>5, <1>6, ListOfPlaces DEF l

\* So is the log of a swap request.
LEMMA ExchangesAreListed ==
  ASSUME NEW r, NEW from, IsList(from), NEW to
  PROVE  IsList(Exchanges(r, from, to))
  <1> DEFINE gone == Lacking(from, to)
             l == Exchanges(r, from, to)
  <1>1. IsList(gone)
    BY LackingIsList
  <1>2. Len(gone) \in Nat /\ DOMAIN gone = 1 .. Len(gone)
    BY <1>1, ListPositions
  <1>3. DOMAIN l = DOMAIN gone /\ l = [k \in DOMAIN l |-> l[k]]
    BY DEF Exchanges
  <1> HIDE DEF gone, l
  <1>4. IsList(l)
    BY <1>2, <1>3, ListOfPlaces
  <1> QED
    BY <1>4 DEF l

\* Stored holds at the start.
LEMMA StoredInit == Init => Stored
  <1> SUFFICES ASSUME Init PROVE Stored
    OBVIOUS
  <1>1. IsList(<<>>)
    BY DEF IsList, ToSet
  <1>2. InFlight = {}
    BY DEF Init, InFlight
  <1>3. matches = <<>> /\ DOMAIN matches = {}
    BY DEF Init
  <1> QED
    BY <1>1, <1>2, <1>3 DEF Init, Stored

\* What a request decides to write lists its swaps.
LEMMA StoredWrites ==
  ASSUME IInv, Stored, [Next]_vars, NEW s \in Sessions, req'[s] # None, req'[s].writes # None
  PROVE  IsList(req'[s].writes.swaps)
  <1> DEFINE Listed == IsList(req'[s].writes.swaps)
  <1>1. DOMAIN req = Sessions
    BY DEF IInv, Shapes
  <1>2. CASE req' = req
    BY <1>2 DEF Stored, InFlight
  <1>3. ASSUME NEW o \in Sessions, End(o) PROVE Listed
    BY <1>1, <1>3 DEF End, Stored, InFlight
  <1>4. ASSUME NEW o \in Sessions, NEW kind, Begin(o, kind) PROVE Listed
    <2>1. CASE s = o
      BY <1>1, <1>4, <2>1 DEF Begin
    <2>2. CASE s # o
      BY <1>1, <1>4, <2>2 DEF Begin, Stored, InFlight
    <2> QED
      BY <2>1, <2>2
  <1>5. ASSUME NEW o \in Sessions, req[o] # None, NEW w, Decide(o, w), IsList(w.swaps) PROVE Listed
    <2>1. CASE s = o
      <3>1. req[o] = [kind |-> req[o].kind, t |-> req[o].t, writes |-> req[o].writes]
        BY <1>5 DEF IInv, Shapes, InFlight
      <3>2. req'[o].writes = w
        BY <1>1, <1>5, <3>1 DEF Decide
      <3> QED
        BY <1>5, <2>1, <3>2
    <2>2. CASE s # o
      BY <1>1, <1>5, <2>2 DEF Decide, Stored, InFlight
    <2> QED
      BY <2>1, <2>2
  <1> HIDE DEF Listed
  <1>6. ASSUME NEW o \in Sessions, LoadForSwap(o) PROVE Listed
    <2>1. PICK ids \in Wishes : \E cast1, changed :
            Decide(o, [slots |-> ids, swaps |-> Exchanges(req[o].t.round, slots[Owner[o]], ids),
                       roles |-> changed, cast |-> cast1])
      BY <1>6 DEF LoadForSwap
    <2>2. PICK cast1, changed :
            Decide(o, [slots |-> ids, swaps |-> Exchanges(req[o].t.round, slots[Owner[o]], ids),
                       roles |-> changed, cast |-> cast1])
      BY <2>1
    <2>3. IsList(slots[Owner[o]])
      BY SeasonAssumption DEF IInv, Shapes
    <2>4. IsList(Exchanges(req[o].t.round, slots[Owner[o]], ids))
      BY <2>3, ExchangesAreListed
    <2>5. req[o] # None
      BY <1>6 DEF LoadForSwap, Waiting
    <2> QED
      BY <1>5, <2>2, <2>4, <2>5
  <1>7. ASSUME NEW o \in Sessions, LoadForRoles(o) PROVE Listed
    <2>1. PICK cast1, changed :
            Decide(o, [slots |-> slots[Owner[o]], swaps |-> <<>>, cast |-> cast1, roles |-> changed])
      BY <1>7 DEF LoadForRoles
    <2>2. IsList(<<>>)
      BY DEF IsList, ToSet
    <2>3. req[o] # None
      BY <1>7 DEF LoadForRoles, Waiting
    <2> QED
      BY <1>5, <2>1, <2>2, <2>3
  <1>8. ASSUME NEW m \in Managers, Manager(m) PROVE req' = req
    BY <1>8 DEF Manager, LockRoster, SetSlots
  <1>9. Admin => req' = req
    BY DEF Admin, AdvanceRound, SetSwapWindow, SaveStatus
  <1>10. Late => req' = req
    BY DEF Late, SaveStatus, DropFromPool, RecordMatch, CorrectMatch, DeleteMatch
  <1>11. ASSUME NEW o \in Sessions, Session(o) PROVE Listed
    <2>1. Commit(o) => End(o)
      BY DEF Commit
    <2>2. Abort(o) => End(o)
      BY DEF Abort
    <2> QED
      BY <1>3, <1>4, <1>6, <1>7, <1>11, <2>1, <2>2 DEF Session
  <1>12. UNCHANGED vars => req' = req
    BY DEF vars
  <1>13. Listed
    BY <1>2, <1>8, <1>9, <1>10, <1>11, <1>12 DEF Next, Ongoing, Listed
  <1> QED
    BY <1>13 DEF Listed

\* Whoever writes swaps writes a list of them.
LEMMA StoredSwaps ==
  ASSUME IInv, Stored, [Next]_vars
  PROVE  DOMAIN swaps' = Managers /\ \A m \in Managers : IsList(swaps'[m])
  <1> DEFINE Kept == swaps' = swaps
  <1>1. ASSUME NEW s \in Sessions, Commit(s)
        PROVE  DOMAIN swaps' = Managers /\ \A m \in Managers : IsList(swaps'[m])
    <2>1. IsList(swaps[Owner[s]]) /\ IsList(req[s].writes.swaps) /\ Owner[s] \in Managers
      BY <1>1, SeasonAssumption DEF Commit, Stored, InFlight
    <2>2. IsList(swaps[Owner[s]] \o req[s].writes.swaps)
      BY <2>1, ListsJoin
    <2>3. swaps' = [swaps EXCEPT ![Owner[s]] = @ \o req[s].writes.swaps]
      BY <1>1 DEF Commit
    <2> QED
      BY <2>1, <2>2, <2>3 DEF Stored
  <1>2. ASSUME NEW m \in Managers, Manager(m) PROVE Kept
    BY <1>2 DEF Manager, LockRoster, SetSlots
  <1>3. ASSUME NEW s \in Sessions, Session(s) PROVE Kept \/ Commit(s)
    BY <1>3 DEF Session, Begin, LoadForSwap, LoadForRoles, Abort, entries
  <1>4. Admin => Kept
    BY DEF Admin, AdvanceRound, SetSwapWindow, SaveStatus, entries
  <1>5. Late => Kept
    BY DEF Late, SaveStatus, DropFromPool, RecordMatch, CorrectMatch, DeleteMatch, entries
  <1>6. UNCHANGED vars => Kept
    BY DEF vars, entries
  <1>7. Kept \/ \E s \in Sessions : Commit(s)
    BY <1>2, <1>3, <1>4, <1>5, <1>6 DEF Next, Ongoing
  <1> QED
    BY <1>1, <1>7 DEF Stored

\* A result that may be recorded, of a round of the season.
Playable(m) == Recordable(m) /\ m.round \in Rounds

\* What is recorded of a fixture is one.
LEMMA InIsPlayable ==
  ASSUME NEW f \in Fixtures, NEW r \in Rounds
  PROVE  Playable(In(f, r))
  <1>1. Recordable(f)
    BY StoredAssumption
  <1> DEFINE g == In(f, r)
  <1>2. DOMAIN f = {"round", "participants", "games", "bans"}
    BY <1>1 DEF Recordable
  <1>3. /\ DOMAIN g = DOMAIN f /\ g.round = r /\ g.participants = f.participants
        /\ g.games = f.games /\ g.bans = f.bans
    BY <1>2 DEF In
  <1> HIDE DEF g
  <1>4. Recordable(g)
    BY <1>1, <1>3 DEF Recordable
  <1> QED
    BY <1>3, <1>4 DEF Playable, g

\* Recording, correcting and deleting results leaves such results.
LEMMA StoredMatches ==
  ASSUME Stored, [Next]_vars
  PROVE  IsList(matches') /\ \A j \in DOMAIN matches' : Playable(matches'[j])
  <1> DEFINE Good == IsList(matches') /\ \A j \in DOMAIN matches' : Playable(matches'[j])
  <1>1. IsList(matches) /\ \A j \in DOMAIN matches : Playable(matches[j])
    BY DEF Stored, Playable
  <1>2. CASE matches' = matches
    BY <1>1, <1>2
  <1>3. ASSUME NEW f \in Fixtures, NEW r \in Rounds, RecordMatch(f, r) PROVE Good
    <2>1. matches' = Append(matches, In(f, r))
      BY <1>3 DEF RecordMatch
    <2> QED
      BY <1>1, <2>1, ListGrows, InIsPlayable
  <1>4. ASSUME NEW f \in Fixtures, NEW r \in Rounds, NEW i \in DOMAIN matches, CorrectMatch(i, f, r)
        PROVE  Good
    <2>1. matches' = [matches EXCEPT ![i] = In(f, r)]
      BY <1>4 DEF CorrectMatch
    <2>2. IsList([matches EXCEPT ![i] = In(f, r)])
      BY <1>1, ListReplaces
    <2>3. Playable(In(f, r))
      BY InIsPlayable
    <2>4. \A j \in DOMAIN matches' : matches'[j] = matches[j] \/ matches'[j] = In(f, r)
      BY <2>1
    <2>5. DOMAIN matches' = DOMAIN matches
      BY <2>1
    <2> QED
      BY <1>1, <2>1, <2>2, <2>3, <2>4, <2>5
  <1>5. ASSUME NEW i \in DOMAIN matches, DeleteMatch(i) PROVE Good
    <2>1. matches' = RemoveAt(matches, i)
      BY <1>5 DEF DeleteMatch
    <2> QED
      BY <1>1, <2>1, ListShrinks
  <1> HIDE DEF Good
  <1>6. ASSUME NEW m \in Managers, Manager(m) PROVE matches' = matches
    BY <1>6 DEF Manager, LockRoster, SetSlots
  <1>7. ASSUME NEW s \in Sessions, Session(s) PROVE matches' = matches
    BY <1>7 DEF Session, Begin, LoadForSwap, LoadForRoles, Abort, Commit
  <1>8. Admin => matches' = matches
    BY DEF Admin, AdvanceRound, SetSwapWindow, SaveStatus
  <1>9. Late => Good \/ matches' = matches
    <2> SUFFICES ASSUME Late PROVE Good \/ matches' = matches
      OBVIOUS
    <2>1. CASE \E st \in Statuses \cap {"COMPLETED"} : SaveStatus(st)
      BY <2>1 DEF SaveStatus
    <2>2. CASE \E h \in Droppable : DropFromPool(h)
      BY <2>2 DEF DropFromPool
    <2>3. CASE \E f \in Fixtures, r \in Rounds :
                 RecordMatch(f, r) \/ \E i \in DOMAIN matches : CorrectMatch(i, f, r)
      BY <1>3, <1>4, <2>3
    <2>4. CASE \E i \in DOMAIN matches : DeleteMatch(i)
      BY <1>5, <2>4
    <2> QED
      BY <2>1, <2>2, <2>3, <2>4 DEF Late
  <1>10. UNCHANGED vars => matches' = matches
    BY DEF vars
  <1>11. Good \/ matches' = matches
    BY <1>6, <1>7, <1>8, <1>9, <1>10 DEF Next, Ongoing
  <1> QED
    BY <1>2, <1>11 DEF Good

\* The pool only ever holds heroes with a price.
LEMMA StoredPool ==
  ASSUME Stored, [Next]_vars
  PROVE  DOMAIN pool' \subseteq DOMAIN Prices
  <1>1. ASSUME NEW h, DropFromPool(h) PROVE DOMAIN pool' \subseteq DOMAIN pool
    BY <1>1 DEF DropFromPool, RestrictDomain, Restrict
  <1>6. ASSUME NEW m \in Managers, Manager(m) PROVE pool' = pool
    BY <1>6 DEF Manager, LockRoster, SetSlots, tournament
  <1>7. ASSUME NEW s \in Sessions, Session(s) PROVE pool' = pool
    BY <1>7 DEF Session, Begin, LoadForSwap, LoadForRoles, Abort, Commit, tournament
  <1>8. Admin => pool' = pool
    BY DEF Admin, AdvanceRound, SetSwapWindow, SaveStatus
  <1>9. Late => pool' = pool \/ \E h : DropFromPool(h)
    BY DEF Late, SaveStatus, RecordMatch, CorrectMatch, DeleteMatch, tournament
  <1>10. UNCHANGED vars => pool' = pool
    BY DEF vars, tournament
  <1>11. pool' = pool \/ \E h : DropFromPool(h)
    BY <1>6, <1>7, <1>8, <1>9, <1>10 DEF Next, Ongoing
  <1> QED
    BY <1>1, <1>11 DEF Stored

\* What is stored stays readable: a swap, a recorded, corrected or deleted result and a
\* smaller pool leave lists of swaps and of results the policy admits.
THEOREM StoredIsReadable == Spec => []Stored
  <1>1. IInv /\ Stored /\ [Next]_vars => Stored'
    <2> SUFFICES ASSUME IInv, Stored, [Next]_vars PROVE Stored'
      OBVIOUS
    <2>1. \A s \in InFlight' : req'[s].writes # None => IsList(req'[s].writes.swaps)
      BY StoredWrites DEF InFlight
    <2>2. DOMAIN swaps' = Managers /\ \A m \in Managers : IsList(swaps'[m])
      BY StoredSwaps
    <2>3. IsList(matches') /\ \A j \in DOMAIN matches' : Recordable(matches'[j]) /\ matches'[j].round \in Rounds
      BY StoredMatches DEF Playable
    <2>4. DOMAIN pool' \subseteq DOMAIN Prices
      BY StoredPool
    <2> QED
      BY <2>1, <2>2, <2>3, <2>4 DEF Stored
  <1> QED
    BY <1>1, StoredInit, Inductive, PTL DEF Spec

-----------------------------------------------------------------------------
(* Places by points.                                                       *)

\* A row of a table, and rows of different names.
IsRow(row) == /\ row = [k \in DOMAIN row |-> row[k]] /\ {"rank", "name", "points"} \subseteq DOMAIN row
              /\ row.points \in Int /\ row.name \in Nat

AreRows(S) == (\A row \in S : IsRow(row)) /\ \A p, q \in S : p.name = q.name => p = q

\* The order of a table, and who has more points.
AheadIn(S) == {p \in S \X S : Ahead(p[1], p[2])}

MoreIn(S) == {p \in S \X S : p[1].points > p[2].points}

\* The order tells any two rows apart.
LEMMA AheadOrders ==
  ASSUME NEW S, AreRows(S)
  PROVE  StrictOrder(AheadIn(S), S)
  <1>1. \A x \in S : x.points \in Int /\ x.name \in Int
    BY DEF AreRows, IsRow
  <1>2. \A x, y \in S : <<x, y>> \in AheadIn(S) <=>
                          x.points > y.points \/ (x.points = y.points /\ x.name < y.name)
    BY DEF AheadIn, Ahead
  <1>3. \A x \in S : <<x, x>> \notin AheadIn(S)
    BY <1>1, <1>2
  <1>4. ASSUME NEW x \in S, NEW y \in S, x # y PROVE <<x, y>> \in AheadIn(S) \/ <<y, x>> \in AheadIn(S)
    <2>1. x.name # y.name
      BY <1>4 DEF AreRows
    <2> QED
      BY <1>1, <1>2, <2>1
  <1>5. ASSUME NEW x \in S, NEW y \in S, NEW z \in S, <<x, y>> \in AheadIn(S), <<y, z>> \in AheadIn(S)
        PROVE  <<x, z>> \in AheadIn(S)
    BY <1>1, <1>2, <1>5
  <1> QED
    BY <1>3, <1>4, <1>5 DEF StrictOrder

\* It goes by the points first.
LEMMA PointsScore ==
  ASSUME NEW S, AreRows(S)
  PROVE  Scores([x \in S |-> x.points], MoreIn(S), AheadIn(S), S)
  <1> DEFINE key == [x \in S |-> x.points]
  <1>1. \A x \in S : x.points \in Int /\ x.name \in Int /\ key[x] = x.points
    BY DEF AreRows, IsRow
  <1>2. \A x, y \in S : /\ <<x, y>> \in AheadIn(S) <=>
                             x.points > y.points \/ (x.points = y.points /\ x.name < y.name)
                        /\ <<x, y>> \in MoreIn(S) <=> x.points > y.points
    BY DEF AheadIn, Ahead, MoreIn
  <1> HIDE DEF key
  <1>3. ASSUME NEW x \in S, NEW y \in S
        PROVE  <<x, y>> \in MoreIn(S) <=> <<x, y>> \in AheadIn(S) /\ key[x] # key[y]
    BY <1>1, <1>2
  <1>4. ASSUME NEW x \in S, NEW y \in S, NEW z \in S,
               <<x, y>> \in AheadIn(S), <<y, z>> \in AheadIn(S), key[x] = key[z]
        PROVE  key[y] = key[z]
    <2>1. x.points >= y.points /\ y.points >= z.points /\ x.points = z.points
      BY <1>1, <1>2, <1>4
    <2> QED
      BY <1>1, <2>1
  <1>5. Scores(key, MoreIn(S), AheadIn(S), S)
    BY <1>3, <1>4 DEF Scores
  <1> QED
    BY <1>5 DEF key

\* The rows in order, as the table lists them.
LEMMA SortedRows ==
  ASSUME NEW S, IsFiniteSet(S), AreRows(S)
  PROVE  Lists(Sorted(S, Ahead), AheadIn(S), S)
  <1> DEFINE place == [x \in S |-> 1 + Cardinality(Below(x, AheadIn(S), S))]
             o == Sorted(S, Ahead)
  <1>1. CountsBelow(place, AheadIn(S), S)
    BY DEF CountsBelow
  <1>2. \A x \in S : {y \in S : Ahead(y, x)} = Below(x, AheadIn(S), S)
    BY DEF Below, AheadIn
  <1>3. o = [k \in 1 .. Cardinality(S) |-> CHOOSE x \in S : 1 + Cardinality({y \in S : Ahead(y, x)}) = k]
    BY DEF Sorted
  <1>4. \A x \in S : place[x] = 1 + Cardinality({y \in S : Ahead(y, x)})
    BY <1>2
  <1> HIDE DEF place, o
  <1>5. ByPlace(o, place, S)
    <2>1. DOMAIN o = 1 .. Cardinality(S)
      BY <1>3
    <2>2. ASSUME NEW k \in 1 .. Cardinality(S), NEW x \in S, place[x] = k
          PROVE  o[k] \in S /\ place[o[k]] = k
      <3>1. \E z \in S : 1 + Cardinality({y \in S : Ahead(y, z)}) = k
        BY <1>4, <2>2
      <3>2. o[k] \in S /\ 1 + Cardinality({y \in S : Ahead(y, o[k])}) = k
        BY <1>3, <3>1
      <3> QED
        BY <1>4, <3>2
    <2> QED
      BY <2>1, <2>2 DEF ByPlace
  <1>6. Lists(o, AheadIn(S), S)
    BY <1>1, <1>5, AheadOrders, PlacesList
  <1> QED
    BY <1>6 DEF o

\* The places of a table by points.
FairByPoints(rows) ==
  \A i \in DOMAIN rows :
    rows[i].rank = 1 + Cardinality({j \in DOMAIN rows : rows[j].points > rows[i].points})

\* A table holds the rows it is made from, each once, with their places.
Tabled(t, S) ==
  /\ DOMAIN t = 1 .. Cardinality(S) /\ t = [i \in DOMAIN t |-> t[i]]
  /\ \A i \in DOMAIN t : \E row \in S : t[i] = [row EXCEPT !.rank = t[i].rank]
  /\ \A row \in S : \E i \in DOMAIN t : t[i] = [row EXCEPT !.rank = t[i].rank]
  /\ \A i, j \in DOMAIN t : t[i].name = t[j].name => i = j
  /\ \A i \in DOMAIN t : t[i].rank \in Nat \ {0}

\* A competition rank is fair and keeps its rows.
LEMMA CompetitionIsFair ==
  ASSUME NEW S, IsFiniteSet(S), AreRows(S)
  PROVE  FairByPoints(CompetitionRank(S)) /\ Tabled(CompetitionRank(S), S)
  <1> DEFINE n == Cardinality(S)
             o == Sorted(S, Ahead)
             key == [x \in S |-> x.points]
             at == [k \in 1 .. n |-> key[o[k]]]
             t == CompetitionRank(S)
             Opens(k) == k = 1 \/ o[k].points # o[k - 1].points
  <1>1. n \in Nat
    BY FS_CardinalityType
  <1>2. Lists(o, AheadIn(S), S)
    BY SortedRows
  <1>3. t = [i \in DOMAIN o |-> [o[i] EXCEPT !.rank = Max({k \in 1 .. i : Opens(k)})]]
    BY DEF CompetitionRank, Ranked
  <1>4. /\ DOMAIN o = 1 .. n /\ (\A k \in 1 .. n : o[k] \in S)
        /\ \A x \in S : \E k \in 1 .. n : o[k] = x
    BY <1>2 DEF Lists
  <1>5. Placed(o, key, MoreIn(S), n)
    BY <1>1, <1>2, AheadOrders, PointsScore, RankedFairly
  <1> HIDE DEF n, o, t
  <1>6. ASSUME NEW i \in 1 .. n
        PROVE  {k \in 1 .. i : Opens(k)} = Openings(at, i)
    <2> SUFFICES ASSUME NEW k \in 1 .. i
                 PROVE  Opens(k) <=> (k = 1 \/ at[k] # at[k - 1])
      BY DEF Openings
    <2>1. CASE k = 1
      BY <2>1
    <2>2. CASE k # 1
      <3>1. k \in 1 .. n /\ k - 1 \in 1 .. n
        BY <1>1, <2>2
      <3>2. at[k] = o[k].points /\ at[k - 1] = o[k - 1].points
        BY <1>4, <3>1
      <3> QED
        BY <3>2
    <2> QED
      BY <2>1, <2>2
  <1>7. ASSUME NEW i \in 1 .. n
        PROVE  {j \in 1 .. n : <<o[j], o[i]>> \in MoreIn(S)} = {j \in 1 .. n : o[j].points > o[i].points}
    BY <1>4 DEF MoreIn
  <1>8. ASSUME NEW i \in 1 .. n
        PROVE  Max({k \in 1 .. i : Opens(k)}) = 1 + Cardinality({j \in 1 .. n : o[j].points > o[i].points})
    BY <1>5, <1>6, <1>7 DEF Placed
  <1> DEFINE rank(i) == 1 + Cardinality({j \in 1 .. n : o[j].points > o[i].points})
  <1>16. t = [i \in DOMAIN t |-> t[i]]
    BY <1>3
  <1>9. DOMAIN t = 1 .. n /\ \A i \in 1 .. n : t[i] = [o[i] EXCEPT !.rank = rank(i)]
    BY <1>3, <1>4, <1>8
  <1> HIDE DEF Opens, key, at
  <1>10. ASSUME NEW i \in 1 .. n
         PROVE  t[i].rank = rank(i) /\ t[i].points = o[i].points /\ t[i].name = o[i].name
    <2>1. IsRow(o[i])
      BY <1>4 DEF AreRows
    <2> HIDE DEF rank
    <2> QED
      BY <1>9, <2>1 DEF IsRow
  <1>11. FairByPoints(t)
    <2> SUFFICES ASSUME NEW i \in 1 .. n
                 PROVE  t[i].rank = 1 + Cardinality({j \in 1 .. n : t[j].points > t[i].points})
      BY <1>9 DEF FairByPoints
    <2>1. {j \in 1 .. n : t[j].points > t[i].points} = {j \in 1 .. n : o[j].points > o[i].points}
      BY <1>10
    <2> QED
      BY <1>10, <2>1
  <1>12. ASSUME NEW i \in 1 .. n PROVE rank(i) \in Nat \ {0}
    <2> DEFINE above == {j \in 1 .. n : o[j].points > o[i].points}
    <2>1. IsFiniteSet(above)
      <3>1. IsFiniteSet(1 .. n) /\ above \subseteq 1 .. n
        BY <1>1, FS_Interval
      <3> QED
        BY <3>1, FS_Subset
    <2>2. rank(i) = 1 + Cardinality(above)
      OBVIOUS
    <2> HIDE DEF above, rank
    <2>3. Cardinality(above) \in Nat
      BY <2>1, FS_CardinalityType
    <2> QED
      BY <2>2, <2>3
  <1>13. ASSUME NEW i \in 1 .. n, NEW j \in 1 .. n, t[i].name = t[j].name PROVE i = j
    <2>1. o[i] \in S /\ o[j] \in S /\ o[i].name = o[j].name
      BY <1>4, <1>10, <1>13
    <2>2. o[i] = o[j]
      BY <2>1 DEF AreRows
    <2>3. \A k, l \in 1 .. n : k < l => <<o[k], o[l]>> \in AheadIn(S)
      BY <1>2, <1>4 DEF Lists
    <2>4. <<o[i], o[i]>> \notin AheadIn(S)
      BY <2>1, AheadOrders DEF StrictOrder
    <2> QED
      BY <1>1, <2>2, <2>3, <2>4
  <1> HIDE DEF rank
  <1>14. \A i \in 1 .. n : t[i] = [o[i] EXCEPT !.rank = t[i].rank]
    BY <1>9, <1>10
  <1>15. Tabled(t, S)
    <2>1. \A i \in 1 .. n : \E row \in S : t[i] = [row EXCEPT !.rank = t[i].rank]
      BY <1>4, <1>14
    <2>2. \A row \in S : \E i \in 1 .. n : t[i] = [row EXCEPT !.rank = t[i].rank]
      BY <1>4, <1>14
    <2>3. \A i \in 1 .. n : t[i].rank \in Nat \ {0}
      BY <1>10, <1>12
    <2> QED
      BY <1>9, <1>13, <1>16, <2>1, <2>2, <2>3 DEF Tabled, n
  <1> QED
    BY <1>11, <1>15 DEF t

-----------------------------------------------------------------------------
(* The boards and the hero tables.                                         *)

\* Finitely many appearances, each of a recorded match.
Appears(a) == a[1] \in DOMAIN matches /\ a[2] \in HeroContexts(matches[a[1]])

\* Appearances are finitely many.
LEMMA AppearancesFinite ==
  ASSUME Stored
  PROVE  /\ IsFiniteSet(Appearances(matches))
         /\ \A a \in Appearances(matches) : Appears(a) /\ a = <<a[1], a[2]>>
  <1> DEFINE of == [j \in DOMAIN matches |-> {j} \X HeroContexts(matches[j])]
             F == {of[j] : j \in DOMAIN matches}
  <1>1. IsFiniteSet(DOMAIN matches)
    BY ListPositions DEF Stored
  <1>2. ASSUME NEW j \in DOMAIN matches PROVE IsFiniteSet(of[j])
    <2>1. Recordable(matches[j])
      BY DEF Stored
    <2>2. IsFiniteSet({j}) /\ IsFiniteSet(HeroContexts(matches[j]))
      BY <2>1, FiniteContexts, FS_Singleton
    <2>3. IsFiniteSet({j} \X HeroContexts(matches[j]))
      BY <2>2, FS_Product
    <2> QED
      BY <2>3
  <1>3. Appearances(matches) = UNION F
    BY DEF Appearances
  <1>4. DOMAIN of = DOMAIN matches
    OBVIOUS
  <1>5. \A a \in Appearances(matches) : Appears(a) /\ a = <<a[1], a[2]>>
    BY DEF Appearances, Appears
  <1>6. IsFiniteSet(F)
    <2> HIDE DEF of
    <2> QED
      BY <1>1, <1>4, FiniteImage
  <1>7. \A X \in F : IsFiniteSet(X)
    BY <1>2
  <1> HIDE DEF F
  <1>8. IsFiniteSet(UNION F)
    BY <1>6, <1>7, FS_UNION
  <1> QED
    BY <1>3, <1>5, <1>8

\* So is what a roster banks.
LEMMA BankedFinite ==
  ASSUME Stored, NEW e, IsFiniteSet(DOMAIN Holdings(e))
  PROVE  /\ IsFiniteSet(Banked(e, matches))
         /\ \A p \in Banked(e, matches) : Appears(<<p[2], p[3]>>)
  <1> DEFINE apps == Appearances(matches)
             P == (DOMAIN Holdings(e)) \X apps
             l == [q \in P |-> <<q[1], q[2][1], q[2][2]>>]
             R == {l[q] : q \in P}
  <1>1. IsFiniteSet(P)
    BY AppearancesFinite, FS_Product
  <1>2. DOMAIN l = P
    OBVIOUS
  <1>3. Banked(e, matches) \subseteq R
    <2> SUFFICES ASSUME NEW p \in Banked(e, matches) PROVE p \in R
      OBVIOUS
    <2>1. \E k \in DOMAIN Holdings(e) : \E a \in apps : p = <<k, a[1], a[2]>>
      BY DEF Banked
    <2>2. PICK k \in DOMAIN Holdings(e) : \E a \in apps : p = <<k, a[1], a[2]>>
      BY <2>1
    <2>3. PICK a \in apps : p = <<k, a[1], a[2]>>
      BY <2>2
    <2>4. <<k, a>> \in P /\ l[<<k, a>>] = p
      BY <2>3
    <2> QED
      BY <2>4
  <1>4. ASSUME NEW p \in R PROVE Appears(<<p[2], p[3]>>)
    <2>1. PICK q \in P : p = <<q[1], q[2][1], q[2][2]>>
      OBVIOUS
    <2>2. q[2] \in apps
      BY <2>1
    <2> QED
      BY <2>1, <2>2, AppearancesFinite DEF Appears
  <1>5. IsFiniteSet(R)
    <2> HIDE DEF l, P
    <2> QED
      BY <1>1, <1>2, FiniteImage
  <1> HIDE DEF R
  <1> QED
    BY <1>3, <1>4, <1>5, FS_Subset

\* A column's value for one appearance.
LEMMA PricedIsNumber ==
  ASSUME Stored, NEW a, Appears(a), NEW metric \in ScoredMetrics(Rules)
  PROVE  Priced(matches[a[1]], a[2], metric, Rules) \in Int
  BY PricedType DEF Appears, Stored

\* The bonus of an appearance is a whole number.
LEMMA BonusIsNumber ==
  ASSUME Stored, NEW a, Appears(a), NEW e, book \in Books
  PROVE  BonusOf(e, book, matches[a[1]], a[2]) \in Int
  <1> DEFINE m == matches[a[1]]
             c == a[2]
             r == RoleAt(e.roles, c.hero, m.round)
  <1>1. Recordable(m) /\ c \in HeroContexts(m)
    BY DEF Appears, Stored
  <1>2. BonusOf(e, book, m, c) = IF book # None /\ r # None /\ Played(c) /\ r \in DOMAIN book
                                   THEN RoleBonus(book[r], Participant(m, c).stats) ELSE 0
    BY DEF BonusOf
  <1> HIDE DEF m, c, r
  <1>3. ASSUME book # None, Played(c), r \in DOMAIN book
        PROVE  RoleBonus(book[r], Participant(m, c).stats) \in Int
    <2>1. IsCount(Participant(m, c).stats)
      BY <1>1, <1>3, SeatShape
    <2> QED
      BY <1>3, <2>1, BonusType
  <1>4. BonusOf(e, book, m, c) \in Int
    BY <1>2, <1>3
  <1> QED
    BY <1>4 DEF m, c

\* The columns of a board are finitely many.
LEMMA ColumnsFinite == IsFiniteSet(Columns(Rules, book))
  <1>1. IsFiniteSet(IF book = None THEN {} ELSE {RoleBonusMetric})
    BY FS_EmptySet, FS_Singleton
  <1> QED
    BY <1>1, FiniteMetrics, FS_Union DEF Columns

\* What a roster banked adds up to a whole number.
LEMMA TotalsAreNumbers ==
  ASSUME Stored, book \in Books, NEW e, NEW banked, IsFiniteSet(banked),
         \A p \in banked : Appears(<<p[2], p[3]>>)
  PROVE  SumFunction(Totals(e, matches, Rules, book, banked)) \in Int
  <1> DEFINE In1(metric, m, c) == IF metric = RoleBonusMetric THEN BonusOf(e, book, m, c)
                                                             ELSE Priced(m, c, metric, Rules)
             f(metric) == [p \in banked |-> In1(metric, matches[p[2]], p[3])]
             t == Totals(e, matches, Rules, book, banked)
  <1>1. t = [metric \in Columns(Rules, book) |-> SumFunction(f(metric))]
    BY DEF Totals
  <1>2. ASSUME NEW metric \in Columns(Rules, book) PROVE SumFunction(f(metric)) \in Int
    <2> DEFINE g == f(metric)
    <2>1. Numbers(g, banked)
      <3> SUFFICES ASSUME NEW p \in banked PROVE In1(metric, matches[p[2]], p[3]) \in Int
        BY DEF Numbers
      <3> DEFINE a == <<p[2], p[3]>>
      <3>1. Appears(a) /\ a[1] = p[2] /\ a[2] = p[3]
        OBVIOUS
      <3> HIDE DEF a
      <3>2. BonusOf(e, book, matches[a[1]], a[2]) \in Int
        BY <3>1, BonusIsNumber
      <3>3. metric # RoleBonusMetric => metric \in ScoredMetrics(Rules)
        BY DEF Columns
      <3>4. metric # RoleBonusMetric => Priced(matches[a[1]], a[2], metric, Rules) \in Int
        BY <3>1, <3>3, PricedIsNumber
      <3> QED
        BY <3>1, <3>2, <3>4
    <2>2. DOMAIN g = banked
      OBVIOUS
    <2> HIDE DEF f, g
    <2>3. SumFunction(g) \in Int
      BY <2>1, <2>2, TotalType
    <2> QED
      BY <2>3 DEF g
  <1> HIDE DEF f, t
  <1>3. DOMAIN t = Columns(Rules, book) /\ Numbers(t, Columns(Rules, book))
    BY <1>1, <1>2 DEF Numbers
  <1>4. SumFunction(t) \in Int
    BY <1>3, ColumnsFinite, TotalType
  <1> QED
    BY <1>4 DEF t

\* Rosters of lists have rows.
LEMMA RowOfRoster ==
  ASSUME Stored, book \in Books, NEW e, IsList(e.heroes), IsList(e.swaps), e.handle \in Nat
  PROVE  LET row == StandingsRow(e, matches, Rules, book) IN IsRow(row) /\ row.name = e.handle
  <1> DEFINE row == StandingsRow(e, matches, Rules, book)
             banked == Banked(e, matches)
  <1>1. IsFiniteSet(DOMAIN Holdings(e))
    BY FiniteHoldings
  <1>2. IsFiniteSet(banked) /\ \A p \in banked : Appears(<<p[2], p[3]>>)
    BY <1>1, BankedFinite
  <1> HIDE DEF banked
  <1>3. SumFunction(Totals(e, matches, Rules, book, banked)) \in Int
    BY <1>2, TotalsAreNumbers
  <1>4. /\ row = [k \in DOMAIN row |-> row[k]] /\ {"rank", "name", "points"} \subseteq DOMAIN row
        /\ row.name = e.handle /\ row.points = SumFunction(Totals(e, matches, Rules, book, banked))
    BY DEF StandingsRow, banked
  <1> HIDE DEF row
  <1>5. IsRow(row) /\ row.name = e.handle
    BY <1>3, <1>4 DEF IsRow
  <1> QED
    BY <1>5 DEF row

\* The log of a locked entry's swaps is a list.
LEMMA SwapLogIsList ==
  ASSUME Stored, NEW m \in Managers
  PROVE  IsList(SwapLog(m))
  <1> DEFINE D == DOMAIN swaps[m]
             Earlier(i, j) == \/ swaps[m][i].round < swaps[m][j].round
                              \/ swaps[m][i].round = swaps[m][j].round /\ i < j
             order == Sorted(D, Earlier)
             l == SwapLog(m)
  <1>1. IsFiniteSet(D)
    BY ListPositions DEF Stored
  <1>2. Cardinality(D) \in Nat
    BY <1>1, FS_CardinalityType
  <1>3. DOMAIN order = 1 .. Cardinality(D)
    BY DEF Sorted
  <1>4. l = [k \in DOMAIN order |-> swaps[m][order[k]]]
    BY DEF SwapLog
  <1> HIDE DEF D, order, l
  <1>5. DOMAIN l = 1 .. Cardinality(D) /\ l = [k \in DOMAIN l |-> l[k]]
    BY <1>3, <1>4
  <1>6. IsList(l)
    BY <1>2, <1>5, ListOfPlaces
  <1> QED
    BY <1>6 DEF l

\* The managers who locked, their rosters, and the rows of the board.
Lockers == {x \in Managers : entry[x] = "LOCKED"}

RosterOf(m) == [handle |-> Handle[m], heroes |-> slots[m], swaps |-> SwapLog(m), roles |-> roles[m]]

BoardRows == {StandingsRow(e, matches, Rules, book) : e \in Rosters}

\* The board ranks one row for each locked manager.
LEMMA BoardHasRows ==
  ASSUME IInv, Stored
  PROVE  IsFiniteSet(BoardRows) /\ AreRows(BoardRows)
  <1> DEFINE RowFor(m) == StandingsRow(RosterOf(m), matches, Rules, book)
             l == [m \in Lockers |-> RowFor(m)]
  <1>1. Rosters = {RosterOf(m) : m \in Lockers}
    BY DEF Rosters, RosterOf, Lockers
  <1>2. BoardRows = {RowFor(m) : m \in Lockers}
    BY <1>1 DEF BoardRows
  <1>3. ASSUME NEW m \in Lockers PROVE IsRow(RowFor(m)) /\ RowFor(m).name = Handle[m]
    <2> DEFINE e == RosterOf(m)
    <2>1. m \in Managers /\ IsList(slots[m]) /\ IsList(SwapLog(m)) /\ Handle[m] \in Nat
      BY SwapLogIsList, SeasonAssumption DEF Lockers, IInv, Shapes
    <2>2. e.heroes = slots[m] /\ e.swaps = SwapLog(m) /\ e.handle = Handle[m]
      BY DEF RosterOf
    <2>3. book \in Books
      BY DEF IInv, Shapes
    <2> HIDE DEF e
    <2>4. LET row == StandingsRow(e, matches, Rules, book) IN IsRow(row) /\ row.name = e.handle
      BY <2>1, <2>2, <2>3, RowOfRoster
    <2> QED
      BY <2>2, <2>4 DEF e
  <1>4. IsFiniteSet(Lockers)
    BY SeasonAssumption, FS_Subset DEF Lockers
  <1>5. DOMAIN l = Lockers /\ BoardRows = {l[m] : m \in Lockers}
    BY <1>2
  <1> HIDE DEF RowFor, l
  <1>6. IsFiniteSet(BoardRows)
    BY <1>4, <1>5, FiniteImage
  <1>7. \A row \in BoardRows : IsRow(row)
    BY <1>2, <1>3
  <1>8. ASSUME NEW p \in BoardRows, NEW q \in BoardRows, p.name = q.name PROVE p = q
    <2>1. PICK m \in Lockers : p = RowFor(m)
      BY <1>2
    <2>2. PICK k \in Lockers : q = RowFor(k)
      BY <1>2
    <2>3. Handle[m] = Handle[k]
      BY <1>3, <1>8, <2>1, <2>2
    <2>4. m = k
      BY <2>3, SeasonAssumption DEF IsInjective, Lockers
    <2> QED
      BY <2>1, <2>2, <2>4
  <1> QED
    BY <1>6, <1>7, <1>8 DEF AreRows

\* So its places are fair.
LEMMA BoardIsFair ==
  ASSUME IInv, Stored
  PROVE  FairByPoints(StandingsBoard) /\ Tabled(StandingsBoard, BoardRows)
  <1>1. StandingsBoard = CompetitionRank(BoardRows)
    BY DEF StandingsBoard, Board, BoardRows
  <1> QED
    BY <1>1, BoardHasRows, CompetitionIsFair

\* The rows of a hero table.
HeroRows(points) == {HeroRow(h, points[h]) : h \in DOMAIN pool}

\* They are rows of different heroes.
LEMMA HeroRowsAreRows ==
  ASSUME Stored, NEW points, \A h \in DOMAIN pool : points[h] \in Int
  PROVE  IsFiniteSet(HeroRows(points)) /\ AreRows(HeroRows(points))
  <1> DEFINE l == [h \in DOMAIN pool |-> HeroRow(h, points[h])]
             R == HeroRows(points)
  <1>1. IsFiniteSet(DOMAIN pool) /\ DOMAIN pool \subseteq Nat
    BY StoredAssumption, FS_Subset DEF Stored
  <1>2. DOMAIN l = DOMAIN pool /\ R = {l[h] : h \in DOMAIN pool}
    BY DEF HeroRows
  <1>3. ASSUME NEW h \in DOMAIN pool PROVE IsRow(HeroRow(h, points[h])) /\ HeroRow(h, points[h]).name = h
    <2> DEFINE p == points[h]
               row == HeroRow(h, p)
    <2>1. p \in Int /\ h \in Nat
      BY <1>1
    <2> HIDE DEF p
    <2>2. /\ row = [k \in DOMAIN row |-> row[k]] /\ {"rank", "name", "points"} \subseteq DOMAIN row
          /\ row.name = h /\ row.points = p
      BY DEF HeroRow
    <2> HIDE DEF row
    <2> QED
      BY <2>1, <2>2 DEF IsRow, row, p
  <1> HIDE DEF l
  <1>4. IsFiniteSet(R)
    BY <1>1, <1>2, FiniteImage
  <1>5. \A row \in R : IsRow(row)
    BY <1>3 DEF HeroRows
  <1>6. ASSUME NEW p \in R, NEW q \in R, p.name = q.name PROVE p = q
    BY <1>3, <1>6 DEF HeroRows
  <1>7. AreRows(R)
    BY <1>5, <1>6 DEF AreRows
  <1> QED
    BY <1>4, <1>7 DEF R

\* So a hero table is ranked fairly.
LEMMA HeroTableIsFair ==
  ASSUME Stored, NEW points, \A h \in DOMAIN pool : points[h] \in Int
  PROVE  FairByPoints(CompetitionRank(HeroRows(points)))
  BY HeroRowsAreRows, CompetitionIsFair

\* The tallies are of the heroes of the pool.
LEMMA TallyDomain == DOMAIN HeroStats = DOMAIN pool
  BY DEF HeroStats, Tallies

\* A hero has a whole number in every scored column.
LEMMA TallyType ==
  ASSUME Stored, NEW h \in DOMAIN pool
  PROVE  /\ DOMAIN HeroStats[h] = ScoredMetrics(Rules) /\ Numbers(HeroStats[h], ScoredMetrics(Rules))
  <1> DEFINE A == {b \in Appearances(matches) : b[2].hero = h}
             f(metric) == [a \in A |-> Priced(matches[a[1]], a[2], metric, Rules)]
             t == HeroStats
  <1>1. IsFiniteSet(A) /\ \A a \in A : Appears(a)
    BY AppearancesFinite, FS_Subset
  <1>2. DOMAIN t = DOMAIN pool /\ t[h] = [metric \in ScoredMetrics(Rules) |-> SumFunction(f(metric))]
    BY DEF HeroStats, Tallies
  <1>3. ASSUME NEW metric \in ScoredMetrics(Rules) PROVE SumFunction(f(metric)) \in Int
    <2> DEFINE g == f(metric)
    <2>1. DOMAIN g = A
      OBVIOUS
    <2>2. Numbers(g, A)
      BY <1>1, PricedIsNumber DEF Numbers
    <2> HIDE DEF A, f, g
    <2>3. SumFunction(g) \in Int
      BY <1>1, <2>1, <2>2, TotalType
    <2> QED
      BY <2>3 DEF g
  <1> HIDE DEF f, t
  <1>4. DOMAIN t[h] = ScoredMetrics(Rules) /\ Numbers(t[h], ScoredMetrics(Rules))
    BY <1>2, <1>3 DEF Numbers
  <1> QED
    BY <1>2, <1>4 DEF t

\* Overall and column by column.
LEMMA HeroTablesAreFair ==
  ASSUME Stored
  PROVE  /\ FairByPoints(Overall(HeroStats))
         /\ \A metric \in ScoredMetrics(Rules) : FairByPoints(Categories(HeroStats, Rules)[metric])
  <1> DEFINE t == HeroStats
  <1>1. DOMAIN t = DOMAIN pool /\ \A h \in DOMAIN pool : DOMAIN t[h] = ScoredMetrics(Rules) /\ Numbers(t[h], ScoredMetrics(Rules))
    BY TallyType, TallyDomain
  <1> HIDE DEF t
  <1> DEFINE net == [h \in DOMAIN pool |-> SumFunction(t[h])]
  <1>2. \A h \in DOMAIN pool : net[h] \in Int
    BY <1>1, FiniteMetrics, TotalType
  <1>3. Overall(t) = CompetitionRank(HeroRows(net))
    <2>1. {HeroRow(h, SumFunction(t[h])) : h \in DOMAIN t} = HeroRows(net)
      BY <1>1 DEF HeroRows
    <2> QED
      BY <2>1 DEF Overall
  <1> HIDE DEF net
  <1>4. FairByPoints(Overall(t))
    BY <1>2, <1>3, HeroTableIsFair
  <1>5. ASSUME NEW metric \in ScoredMetrics(Rules) PROVE FairByPoints(Categories(t, Rules)[metric])
    <2> DEFINE col == [h \in DOMAIN pool |-> t[h][metric]]
    <2>1. \A h \in DOMAIN pool : col[h] \in Int
      BY <1>1 DEF Numbers
    <2>2. Categories(t, Rules)[metric] = CompetitionRank(HeroRows(col))
      <3>1. {HeroRow(h, t[h][metric]) : h \in DOMAIN t} = HeroRows(col)
        BY <1>1 DEF HeroRows
      <3>2. Categories(t, Rules)[metric] = CompetitionRank({HeroRow(h, t[h][metric]) : h \in DOMAIN t})
        BY DEF Categories
      <3> QED
        BY <3>1, <3>2
    <2> HIDE DEF col
    <2> QED
      BY <2>1, <2>2, HeroTableIsFair
  <1> QED
    BY <1>4, <1>5 DEF t

-----------------------------------------------------------------------------
(* The Hall of Fame.                                                       *)

\* A board to be completed is ranked from one, each name once.
LEMMA BoardFinished ==
  ASSUME IInv, Stored
  PROVE  Finished(StandingsBoard)
  <1> DEFINE t == StandingsBoard
             S == BoardRows
  <1>1. Tabled(t, S) /\ AreRows(S) /\ IsFiniteSet(S)
    BY BoardIsFair, BoardHasRows
  <1> HIDE DEF t, S
  <1>2. Cardinality(S) \in Nat
    BY <1>1, FS_CardinalityType
  <1>3. IsList(t)
    BY <1>1, <1>2, ListOfPlaces DEF Tabled
  <1>4. ASSUME NEW i \in DOMAIN t PROVE t[i].rank \in Nat \ {0} /\ t[i].name \in Nat
    <2>1. PICK row \in S : t[i] = [row EXCEPT !.rank = t[i].rank]
      BY <1>1 DEF Tabled
    <2>2. IsRow(row)
      BY <1>1 DEF AreRows
    <2>3. t[i].name = row.name
      BY <2>1, <2>2 DEF IsRow
    <2>4. t[i].rank \in Nat \ {0}
      BY <1>1 DEF Tabled
    <2> QED
      BY <2>2, <2>3, <2>4 DEF IsRow
  <1>5. Finished(t)
    <2>1. \A row \in ToSet(t) : row.rank \in Nat \ {0} /\ row.name \in Nat
      BY <1>4 DEF ToSet
    <2>2. \A i, j \in DOMAIN t : t[i].name = t[j].name => i = j
      BY <1>1 DEF Tabled
    <2> QED
      BY <1>3, <2>1, <2>2 DEF Finished
  <1> QED
    BY <1>5 DEF t

\* So is every completed one.
LEMMA CompletedFinished ==
  ASSUME IInv, Stored
  PROVE  IsFiniteSet(Completed) /\ \A t \in Completed : Finished(t.board)
  <1> DEFINE own == [id |-> Cardinality(Past) + 1, board |-> StandingsBoard]
             now == IF status # "COMPLETED" THEN {} ELSE {own}
  <1>1. Finished(own.board)
    BY BoardFinished
  <1> HIDE DEF own
  <1>2. IsFiniteSet(now)
    BY FS_EmptySet, FS_Singleton
  <1>3. Completed = Past \cup now
    BY DEF Completed, own
  <1>4. IsFiniteSet(Past \cup now)
    BY <1>2, StoredAssumption, FS_Union
  <1> QED
    BY <1>1, <1>3, <1>4, StoredAssumption

\* Finitely many completed tournaments, with finished boards.
Finals(completed) == IsFiniteSet(completed) /\ \A t \in completed : Finished(t.board)

\* A tournament is on a name's list when a row of the given depth has that name.
PlaceRows(t, depth) == {i \in DOMAIN t.board : t.board[i].rank <= depth}

On(completed, name, depth) == {t \in completed : \E i \in PlaceRows(t, depth) : t.board[i].name = name}

Names(completed) == UNION {{row.name : row \in Podium(t)} : t \in completed}

\* A title row counts the tournaments in which its name was placed so high.
LEMMA TitleCounts ==
  ASSUME NEW completed, Finals(completed), NEW name
  PROVE  LET row == TitleRow(completed, name)
         IN  /\ row = [k \in DOMAIN row |-> row[k]]
             /\ {"rank", "name", "titles", "podiums"} \subseteq DOMAIN row /\ row.name = name
             /\ row.podiums = Cardinality(On(completed, name, 3))
             /\ row.titles = Cardinality(On(completed, name, 1))
             /\ row.podiums \in Nat /\ row.titles \in Nat
  <1> DEFINE on == {t \in completed : \E row \in Podium(t) : row.name = name}
             won == {t \in on : \E row \in Podium(t) : row.name = name /\ row.rank = 1}
  <1>1. ASSUME NEW t \in completed, NEW i \in DOMAIN t.board
        PROVE  t.board[i] \in ToSet(t.board) /\ t.board[i].rank \in Nat \ {0}
    BY DEF Finals, Finished, ToSet
  <1>2. \A t : \A row : row \in Podium(t) <=> \E i \in DOMAIN t.board : row = t.board[i] /\ row.rank <= 3
    BY DEF Podium, PodiumDepth, ToSet
  <1>3. on = On(completed, name, 3)
    BY <1>2 DEF On, PlaceRows
  <1>4. won = On(completed, name, 1)
    <2> SUFFICES ASSUME NEW t \in completed
                 PROVE  t \in won <=> \E i \in DOMAIN t.board : t.board[i].rank <= 1 /\ t.board[i].name = name
      BY DEF On, PlaceRows
    <2>1. \A i \in DOMAIN t.board : t.board[i].rank <= 1 <=> t.board[i].rank = 1
      BY <1>1
    <2>2. t \in won <=> \E i \in DOMAIN t.board : t.board[i].rank <= 3 /\ t.board[i].name = name /\ t.board[i].rank = 1
      BY <1>2
    <2> QED
      BY <1>1, <2>1, <2>2
  <1>5. Cardinality(on) \in Nat /\ Cardinality(won) \in Nat
    BY FS_Subset, FS_CardinalityType DEF Finals
  <1>6. TitleRow(completed, name) =
          [rank |-> 0, name |-> name, titles |-> Cardinality(won), podiums |-> Cardinality(on)]
    BY DEF TitleRow
  <1> HIDE DEF on, won
  <1> QED
    BY <1>3, <1>4, <1>5, <1>6

\* A row of the Hall of Fame, and rows of different names.
IsTitle(row) == /\ row = [k \in DOMAIN row |-> row[k]]
                /\ {"rank", "name", "titles", "podiums"} \subseteq DOMAIN row
                /\ row.titles \in Int /\ row.podiums \in Int /\ row.name \in Nat

AreTitles(S) == (\A row \in S : IsTitle(row)) /\ \A p, q \in S : p.name = q.name => p = q

\* Who is placed above whom, and who is listed before whom.
MoreTitled(a, b) == a.titles > b.titles \/ (a.titles = b.titles /\ a.podiums > b.podiums)

ListedFirst(a, b) ==
  \/ a.titles > b.titles
  \/ a.titles = b.titles /\ a.podiums > b.podiums
  \/ a.titles = b.titles /\ a.podiums = b.podiums /\ a.name < b.name

FirstIn(S) == {p \in S \X S : ListedFirst(p[1], p[2])}

OverIn(S) == {p \in S \X S : MoreTitled(p[1], p[2])}

\* The order of the Hall of Fame tells any two rows apart.
LEMMA FirstOrders ==
  ASSUME NEW S, AreTitles(S)
  PROVE  StrictOrder(FirstIn(S), S)
  <1>1. \A x \in S : x.titles \in Int /\ x.podiums \in Int /\ x.name \in Int
    BY DEF AreTitles, IsTitle
  <1>2. \A x, y \in S : <<x, y>> \in FirstIn(S) <=>
          \/ x.titles > y.titles
          \/ x.titles = y.titles /\ x.podiums > y.podiums
          \/ x.titles = y.titles /\ x.podiums = y.podiums /\ x.name < y.name
    BY DEF FirstIn, ListedFirst
  <1>3. \A x \in S : <<x, x>> \notin FirstIn(S)
    BY <1>1, <1>2
  <1>4. ASSUME NEW x \in S, NEW y \in S, x # y PROVE <<x, y>> \in FirstIn(S) \/ <<y, x>> \in FirstIn(S)
    <2>1. x.name # y.name
      BY <1>4 DEF AreTitles
    <2> QED
      BY <1>1, <1>2, <2>1
  <1>5. ASSUME NEW x \in S, NEW y \in S, NEW z \in S, <<x, y>> \in FirstIn(S), <<y, z>> \in FirstIn(S)
        PROVE  <<x, z>> \in FirstIn(S)
    BY <1>1, <1>2, <1>5
  <1> QED
    BY <1>3, <1>4, <1>5 DEF StrictOrder

\* It goes by titles and podiums first.
LEMMA TitlesScore ==
  ASSUME NEW S, AreTitles(S)
  PROVE  Scores([x \in S |-> <<x.titles, x.podiums>>], OverIn(S), FirstIn(S), S)
  <1> DEFINE key == [x \in S |-> <<x.titles, x.podiums>>]
  <1>1. \A x \in S : x.titles \in Int /\ x.podiums \in Int /\ x.name \in Int
    BY DEF AreTitles, IsTitle
  <1>2. \A x, y \in S : key[x] = key[y] <=> x.titles = y.titles /\ x.podiums = y.podiums
    OBVIOUS
  <1>3. \A x, y \in S :
          /\ <<x, y>> \in FirstIn(S) <=>
               \/ x.titles > y.titles
               \/ x.titles = y.titles /\ x.podiums > y.podiums
               \/ x.titles = y.titles /\ x.podiums = y.podiums /\ x.name < y.name
          /\ <<x, y>> \in OverIn(S) <=>
               \/ x.titles > y.titles
               \/ x.titles = y.titles /\ x.podiums > y.podiums
    BY DEF FirstIn, ListedFirst, OverIn, MoreTitled
  <1> HIDE DEF key
  <1>4. ASSUME NEW x \in S, NEW y \in S
        PROVE  <<x, y>> \in OverIn(S) <=> <<x, y>> \in FirstIn(S) /\ key[x] # key[y]
    BY <1>1, <1>2, <1>3
  <1>5. ASSUME NEW x \in S, NEW y \in S, NEW z \in S,
               <<x, y>> \in FirstIn(S), <<y, z>> \in FirstIn(S), key[x] = key[z]
        PROVE  key[y] = key[z]
    <2>1. x.titles = z.titles /\ x.podiums = z.podiums
      BY <1>2, <1>5
    <2>2. y.titles = z.titles /\ y.podiums = z.podiums
      BY <1>1, <1>3, <1>5, <2>1
    <2> QED
      BY <1>2, <2>2
  <1>6. Scores(key, OverIn(S), FirstIn(S), S)
    BY <1>4, <1>5 DEF Scores
  <1> QED
    BY <1>6 DEF key

\* The rows in order, as the Hall of Fame lists them.
LEMMA SortedTitles ==
  ASSUME NEW S, IsFiniteSet(S), AreTitles(S)
  PROVE  Lists(Sorted(S, ListedFirst), FirstIn(S), S)
  <1> DEFINE place == [x \in S |-> 1 + Cardinality(Below(x, FirstIn(S), S))]
             o == Sorted(S, ListedFirst)
  <1>1. CountsBelow(place, FirstIn(S), S)
    BY DEF CountsBelow
  <1>2. \A x \in S : {y \in S : ListedFirst(y, x)} = Below(x, FirstIn(S), S)
    BY DEF Below, FirstIn
  <1>3. o = [k \in 1 .. Cardinality(S) |-> CHOOSE x \in S : 1 + Cardinality({y \in S : ListedFirst(y, x)}) = k]
    BY DEF Sorted
  <1>4. \A x \in S : place[x] = 1 + Cardinality({y \in S : ListedFirst(y, x)})
    BY <1>2
  <1> HIDE DEF place, o
  <1>5. ByPlace(o, place, S)
    <2>1. DOMAIN o = 1 .. Cardinality(S)
      BY <1>3
    <2>2. ASSUME NEW k \in 1 .. Cardinality(S), NEW x \in S, place[x] = k
          PROVE  o[k] \in S /\ place[o[k]] = k
      <3>1. \E z \in S : 1 + Cardinality({y \in S : ListedFirst(y, z)}) = k
        BY <1>4, <2>2
      <3>2. o[k] \in S /\ 1 + Cardinality({y \in S : ListedFirst(y, o[k])}) = k
        BY <1>3, <3>1
      <3> QED
        BY <1>4, <3>2
    <2> QED
      BY <2>1, <2>2 DEF ByPlace
  <1>6. Lists(o, FirstIn(S), S)
    BY <1>1, <1>5, FirstOrders, PlacesList
  <1> QED
    BY <1>6 DEF o

\* The places of the Hall of Fame.
FairByTitles(rows) ==
  \A i \in DOMAIN rows :
    rows[i].rank = 1 + Cardinality({j \in DOMAIN rows : MoreTitled(rows[j], rows[i])})

\* The table's rows stand for S, each once, and keep what they count.
Entitled(t, S) ==
  /\ DOMAIN t = 1 .. Cardinality(S)
  /\ \A i \in DOMAIN t : \E x \in S : t[i].name = x.name /\ t[i].titles = x.titles /\ t[i].podiums = x.podiums
  /\ \A x \in S : \E i \in DOMAIN t : t[i].name = x.name
  /\ \A i, j \in DOMAIN t : t[i].name = t[j].name => i = j

\* The rows it is made from.
TitleRows(completed) == {TitleRow(completed, n) : n \in Names(completed)}

\* The Hall of Fame lists them in order and numbers each where the counts change.
LEMMA TitlesUnfold ==
  ASSUME NEW completed
  PROVE  LET o == Sorted(TitleRows(completed), ListedFirst)
             Opens(k) == k = 1 \/ <<o[k].titles, o[k].podiums>> # <<o[k - 1].titles, o[k - 1].podiums>>
         IN  Titles(completed) = [i \in DOMAIN o |-> [o[i] EXCEPT !.rank = Max({k \in 1 .. i : Opens(k)})]]
  BY DEF Titles, Ranked, TitleRows, Names, ListedFirst, Sorted

\* Its places are fair and it keeps its rows.
LEMMA TitlesAreFair ==
  ASSUME NEW completed, LET S == TitleRows(completed) IN IsFiniteSet(S) /\ AreTitles(S)
  PROVE  FairByTitles(Titles(completed)) /\ Entitled(Titles(completed), TitleRows(completed))
  <1> DEFINE S == TitleRows(completed)
             n == Cardinality(S)
             o == Sorted(S, ListedFirst)
             key == [x \in S |-> <<x.titles, x.podiums>>]
             at == [k \in 1 .. n |-> key[o[k]]]
             t == Titles(completed)
             Opens(k) == k = 1 \/ <<o[k].titles, o[k].podiums>> # <<o[k - 1].titles, o[k - 1].podiums>>
  <1>1. n \in Nat /\ IsFiniteSet(S) /\ AreTitles(S)
    BY FS_CardinalityType
  <1>3. t = [i \in DOMAIN o |-> [o[i] EXCEPT !.rank = Max({k \in 1 .. i : Opens(k)})]]
    BY TitlesUnfold
  <1> HIDE DEF S, t
  <1>2. Lists(o, FirstIn(S), S)
    BY <1>1, SortedTitles
  <1>4. /\ DOMAIN o = 1 .. n /\ (\A k \in 1 .. n : o[k] \in S)
        /\ \A x \in S : \E k \in 1 .. n : o[k] = x
    BY <1>2 DEF Lists
  <1>17. StrictOrder(FirstIn(S), S) /\ Scores(key, OverIn(S), FirstIn(S), S)
    BY <1>1, FirstOrders, TitlesScore
  <1> HIDE DEF n, o
  <1>5. Placed(o, key, OverIn(S), n)
    <2> HIDE DEF key
    <2> QED
      BY <1>1, <1>2, <1>17, RankedFairly DEF n
  <1>6. ASSUME NEW i \in 1 .. n
        PROVE  {k \in 1 .. i : Opens(k)} = Openings(at, i)
    <2> SUFFICES ASSUME NEW k \in 1 .. i
                 PROVE  Opens(k) <=> (k = 1 \/ at[k] # at[k - 1])
      BY DEF Openings
    <2>1. CASE k = 1
      BY <2>1
    <2>2. CASE k # 1
      <3>1. k \in 1 .. n /\ k - 1 \in 1 .. n
        BY <1>1, <2>2
      <3>2. /\ at[k] = <<o[k].titles, o[k].podiums>>
            /\ at[k - 1] = <<o[k - 1].titles, o[k - 1].podiums>>
        BY <1>4, <3>1
      <3> HIDE DEF at
      <3> QED
        BY <2>2, <3>2
    <2> QED
      BY <2>1, <2>2
  <1>7. ASSUME NEW i \in 1 .. n
        PROVE  {j \in 1 .. n : <<o[j], o[i]>> \in OverIn(S)} = {j \in 1 .. n : MoreTitled(o[j], o[i])}
    BY <1>4 DEF OverIn
  <1>8. ASSUME NEW i \in 1 .. n
        PROVE  Max({k \in 1 .. i : Opens(k)}) = 1 + Cardinality({j \in 1 .. n : MoreTitled(o[j], o[i])})
    BY <1>5, <1>6, <1>7 DEF Placed
  <1> DEFINE rank(i) == 1 + Cardinality({j \in 1 .. n : MoreTitled(o[j], o[i])})
  <1>9. DOMAIN t = 1 .. n /\ \A i \in 1 .. n : t[i] = [o[i] EXCEPT !.rank = rank(i)]
    BY <1>3, <1>4, <1>8
  <1> HIDE DEF Opens, key, at
  <1>10. ASSUME NEW i \in 1 .. n
         PROVE  /\ t[i].rank = rank(i) /\ t[i].titles = o[i].titles /\ t[i].podiums = o[i].podiums
                /\ t[i].name = o[i].name
    <2>1. IsTitle(o[i])
      BY <1>1, <1>4 DEF AreTitles
    <2> HIDE DEF rank
    <2> QED
      BY <1>9, <2>1 DEF IsTitle
  <1>11. FairByTitles(t)
    <2> SUFFICES ASSUME NEW i \in 1 .. n
                 PROVE  t[i].rank = 1 + Cardinality({j \in 1 .. n : MoreTitled(t[j], t[i])})
      BY <1>9 DEF FairByTitles
    <2>1. {j \in 1 .. n : MoreTitled(t[j], t[i])} = {j \in 1 .. n : MoreTitled(o[j], o[i])}
      BY <1>10 DEF MoreTitled
    <2> QED
      BY <1>10, <2>1
  <1>13. ASSUME NEW i \in 1 .. n, NEW j \in 1 .. n, t[i].name = t[j].name PROVE i = j
    <2>1. o[i] \in S /\ o[j] \in S /\ o[i].name = o[j].name
      BY <1>4, <1>10, <1>13
    <2>2. o[i] = o[j]
      BY <1>1, <2>1 DEF AreTitles
    <2>3. \A k, l \in 1 .. n : k < l => <<o[k], o[l]>> \in FirstIn(S)
      BY <1>2, <1>4 DEF Lists
    <2>4. <<o[i], o[i]>> \notin FirstIn(S)
      BY <1>17, <2>1 DEF StrictOrder
    <2> QED
      BY <1>1, <2>2, <2>3, <2>4
  <1> HIDE DEF rank
  <1>15. Entitled(t, S)
    <2>1. \A i \in 1 .. n : \E x \in S : t[i].name = x.name /\ t[i].titles = x.titles /\ t[i].podiums = x.podiums
      BY <1>4, <1>10
    <2>2. \A x \in S : \E i \in 1 .. n : t[i].name = x.name
      BY <1>4, <1>10
    <2> QED
      BY <1>9, <1>13, <2>1, <2>2 DEF Entitled, n
  <1> QED
    BY <1>11, <1>15 DEF t, S

\* Finitely many names have ever been on a podium.
LEMMA NamesFinite ==
  ASSUME NEW completed, Finals(completed)
  PROVE  IsFiniteSet(Names(completed)) /\ \A name \in Names(completed) : name \in Nat
  <1> DEFINE of == [t \in completed |-> {row.name : row \in Podium(t)}]
             F == {of[t] : t \in completed}
  <1>1. ASSUME NEW t \in completed
        PROVE  IsFiniteSet(of[t]) /\ \A name \in of[t] : name \in Nat
    <2> DEFINE l == [row \in Podium(t) |-> row.name]
    <2>1. IsFiniteSet(ToSet(t.board)) /\ Podium(t) \subseteq ToSet(t.board)
      BY ListPositions, FiniteRows DEF Finals, Finished, Podium
    <2>2. IsFiniteSet(Podium(t))
      BY <2>1, FS_Subset
    <2>3. DOMAIN l = Podium(t) /\ of[t] = {l[row] : row \in Podium(t)}
      OBVIOUS
    <2>4. \A name \in of[t] : name \in Nat
      BY <2>1 DEF Finals, Finished
    <2> HIDE DEF l, of
    <2>5. IsFiniteSet(of[t])
      BY <2>2, <2>3, FiniteImage
    <2> QED
      BY <2>4, <2>5
  <1>2. Names(completed) = UNION F
    BY DEF Names
  <1>3. DOMAIN of = completed
    OBVIOUS
  <1> HIDE DEF of
  <1>4. IsFiniteSet(F)
    BY <1>3, FiniteImage DEF Finals
  <1>5. \A X \in F : IsFiniteSet(X)
    BY <1>1
  <1>7. \A name \in UNION F : name \in Nat
    BY <1>1
  <1> HIDE DEF F
  <1>6. IsFiniteSet(UNION F)
    BY <1>4, <1>5, FS_UNION
  <1> QED
    BY <1>2, <1>6, <1>7

\* So the Hall of Fame has finitely many rows, of different names.
LEMMA TitleRowsAreTitles ==
  ASSUME NEW completed, Finals(completed)
  PROVE  LET S == TitleRows(completed) IN IsFiniteSet(S) /\ AreTitles(S)
  <1> DEFINE N == Names(completed)
             l == [name \in N |-> TitleRow(completed, name)]
             S == TitleRows(completed)
  <1>1. IsFiniteSet(N) /\ \A name \in N : name \in Nat
    BY NamesFinite
  <1>2. DOMAIN l = N /\ S = {l[name] : name \in N}
    BY DEF TitleRows
  <1>3. ASSUME NEW name \in N PROVE IsTitle(l[name]) /\ l[name].name = name
    <2> DEFINE row == TitleRow(completed, name)
    <2>1. /\ row = [k \in DOMAIN row |-> row[k]]
          /\ {"rank", "name", "titles", "podiums"} \subseteq DOMAIN row /\ row.name = name
          /\ row.podiums \in Nat /\ row.titles \in Nat
      BY TitleCounts
    <2> HIDE DEF row
    <2>2. IsTitle(row) /\ row.name = name
      BY <1>1, <2>1 DEF IsTitle
    <2> QED
      BY <2>2 DEF row
  <1> HIDE DEF l, N, S
  <1>4. IsFiniteSet(S)
    BY <1>1, <1>2, FiniteImage
  <1>5. AreTitles(S)
    BY <1>2, <1>3 DEF AreTitles
  <1> QED
    BY <1>4, <1>5 DEF S

\* What the tables of the Hall of Fame add up to, for a depth: one for each row of a board
\* that is placed so high.
LEMMA PlacesGiven ==
  ASSUME NEW completed, Finals(completed), NEW depth \in {1, 3},
         NEW count, \A name \in Names(completed) : count[name] = Cardinality(On(completed, name, depth))
  PROVE  SumFunctionOnSet(count, Names(completed))
           = SumFunction([t \in completed |-> Cardinality(PlaceRows(t, depth))])
  <1> DEFINE N == Names(completed)
             C == completed
             of == [name \in N |-> On(completed, name, depth)]
             at == [t \in C |-> PlaceRows(t, depth)]
             P == UNION {{t} \X at[t] : t \in C}
             label == [p \in P |-> p[1].board[p[2]].name]
             h == [t \in C |-> Cardinality(PlaceRows(t, depth))]
  <1>1. IsFiniteSet(N)
    BY NamesFinite
  <1>2. IsFiniteSet(C)
    BY DEF Finals
  <1>3. FiniteParts(of, N)
    BY <1>2, FS_Subset DEF FiniteParts, On
  <1>4. FiniteParts(at, C)
    <2> SUFFICES ASSUME NEW t \in C PROVE IsFiniteSet(PlaceRows(t, depth))
      BY DEF FiniteParts
    <2>1. IsFiniteSet(DOMAIN t.board) /\ PlaceRows(t, depth) \subseteq DOMAIN t.board
      BY ListPositions DEF Finals, Finished, PlaceRows
    <2> QED
      BY <2>1, FS_Subset
  <1>5. \A t \in C : \A i \in PlaceRows(t, depth) : label[<<t, i>>] = t.board[i].name
    <2> SUFFICES ASSUME NEW t \in C, NEW i \in PlaceRows(t, depth)
                 PROVE  label[<<t, i>>] = t.board[i].name
      OBVIOUS
    <2>1. <<t, i>> \in P
      OBVIOUS
    <2> QED
      BY <2>1
  <1>6. \A t \in C : at[t] = PlaceRows(t, depth)
    OBVIOUS
  <1>7. \A name \in N : of[name] = On(completed, name, depth)
    OBVIOUS
  <1> HIDE DEF label, P, at, of
  <1>8. ASSUME NEW t \in C, NEW i \in PlaceRows(t, depth)
        PROVE  t.board[i].name \in N /\ t \in On(completed, t.board[i].name, depth)
    <2>1. t.board[i].rank \in Nat /\ i \in DOMAIN t.board /\ t.board[i].rank <= depth
          /\ t.board[i] \in ToSet(t.board)
      BY DEF Finals, Finished, PlaceRows, ToSet
    <2>2. t.board[i].rank <= 3
      BY <2>1
    <2>3. t.board[i] \in Podium(t)
      BY <2>1, <2>2 DEF Podium, PodiumDepth
    <2> QED
      BY <2>3 DEF Names, On
  <1>9. Matched(of, at, N, C, label)
    <2>1. ASSUME NEW t \in C, NEW i \in at[t] PROVE label[<<t, i>>] \in N /\ t \in of[label[<<t, i>>]]
      BY <1>5, <1>6, <1>7, <1>8
    <2>2. ASSUME NEW t \in C, NEW i \in at[t], NEW j \in at[t], label[<<t, i>>] = label[<<t, j>>] PROVE i = j
      <3>1. i \in DOMAIN t.board /\ j \in DOMAIN t.board /\ t.board[i].name = t.board[j].name
        BY <1>5, <1>6, <2>2 DEF PlaceRows
      <3> QED
        BY <3>1 DEF Finals, Finished
    <2>3. ASSUME NEW n \in N, NEW t \in of[n] PROVE t \in C /\ \E i \in at[t] : label[<<t, i>>] = n
      <3>1. t \in On(completed, n, depth)
        BY <1>7
      <3>2. t \in C /\ \E i \in PlaceRows(t, depth) : t.board[i].name = n
        BY <3>1 DEF On
      <3> QED
        BY <1>5, <1>6, <3>2
    <2> HIDE DEF N, C
    <2> QED
      BY <2>1, <2>2, <2>3 DEF Matched
  <1>10. Tallied(count, of, N)
    BY <1>7 DEF Tallied
  <1>11. Tallied(h, at, C)
    BY <1>6 DEF Tallied
  <1>12. SumFunction(h) = SumFunctionOnSet(h, C)
    BY DEF SumFunction
  <1> HIDE DEF N, C, h
  <1>13. SumFunctionOnSet(count, N) = SumFunctionOnSet(h, C)
    BY <1>1, <1>2, <1>3, <1>4, <1>9, <1>10, <1>11, CountedTwice
  <1> QED
    BY <1>12, <1>13 DEF N, C, h

\* The table's own count.
LEMMA GivenBack ==
  ASSUME NEW completed, Finals(completed), NEW depth \in {1, 3},
         NEW given, LET t == Titles(completed)
                    IN  /\ DOMAIN given = DOMAIN t
                        /\ \A i \in DOMAIN t : given[i] = Cardinality(On(completed, t[i].name, depth))
  PROVE  SumFunction(given) = SumFunction([t \in completed |-> Cardinality(PlaceRows(t, depth))])
  <1> DEFINE t == Titles(completed)
             S == TitleRows(completed)
             N == Names(completed)
             D == DOMAIN t
             count == [name \in N |-> Cardinality(On(completed, name, depth))]
             name1 == [i \in D |-> t[i].name]
  <1>1. Entitled(t, S) /\ IsFiniteSet(S)
    BY TitleRowsAreTitles, TitlesAreFair
  <1>2. S = {TitleRow(completed, n) : n \in N} /\ \A n : TitleRow(completed, n).name = n
    BY TitleCounts DEF TitleRows
  <1>3. DOMAIN given = D /\ \A i \in D : given[i] = Cardinality(On(completed, t[i].name, depth))
    OBVIOUS
  <1>4. SumFunctionOnSet(count, N) = SumFunction([x \in completed |-> Cardinality(PlaceRows(x, depth))])
    <2>1. \A n \in N : count[n] = Cardinality(On(completed, n, depth))
      OBVIOUS
    <2> HIDE DEF count
    <2> QED
      BY <2>1, PlacesGiven
  <1>5. \A n \in N : count[n] = Cardinality(On(completed, n, depth)) /\ count[n] \in Int
    <2> SUFFICES ASSUME NEW n \in N PROVE Cardinality(On(completed, n, depth)) \in Int
      OBVIOUS
    <2>1. IsFiniteSet(On(completed, n, depth))
      BY FS_Subset DEF Finals, On
    <2> QED
      BY <2>1, FS_CardinalityType
  <1>6. \A i \in D : name1[i] = t[i].name
    OBVIOUS
  <1> HIDE DEF t, S, N, count, name1
  <1>7. Renames(name1, D, N)
    <2>1. ASSUME NEW i \in D PROVE name1[i] \in N
      BY <1>1, <1>2, <1>6 DEF Entitled
    <2>2. ASSUME NEW i \in D, NEW j \in D, name1[i] = name1[j] PROVE i = j
      BY <1>1, <1>6, <2>2 DEF Entitled
    <2>3. ASSUME NEW n \in N PROVE \E i \in D : name1[i] = n
      BY <1>1, <1>2, <1>6 DEF Entitled
    <2> HIDE DEF D
    <2> QED
      BY <2>1, <2>2, <2>3 DEF Renames
  <1>8. IsFiniteSet(D)
    BY <1>1, FS_CardinalityType, FS_Interval DEF Entitled
  <1>9. Through(given, count, name1, D)
    BY <1>3, <1>5, <1>6, <1>7 DEF Through, Renames
  <1>10. Numbers(count, N)
    BY <1>5 DEF Numbers
  <1> HIDE DEF D
  <1>11. SumFunctionOnSet(given, D) = SumFunctionOnSet(count, N)
    BY <1>7, <1>8, <1>9, <1>10, SumRenamed
  <1>12. SumFunction(given) = SumFunctionOnSet(given, D)
    BY <1>3 DEF SumFunction
  <1> QED
    BY <1>4, <1>11, <1>12

\* The Hall of Fame is fair, and gives what the boards give.
LEMMA HallIsFair ==
  ASSUME NEW completed, Finals(completed)
  PROVE  LET titles == Titles(completed)
             Given(column) == SumFunction([i \in DOMAIN titles |-> titles[i][column]])
             Places(depth) ==
               SumFunction([t \in completed |->
                              Cardinality({i \in DOMAIN t.board : t.board[i].rank <= depth})])
         IN  /\ FairByTitles(titles)
             /\ Given("podiums") = Places(PodiumDepth)
             /\ Given("titles") = Places(1)
  <1> DEFINE titles == Titles(completed)
             given(column) == [i \in DOMAIN titles |-> titles[i][column]]
             S == TitleRows(completed)
  <1>1. FairByTitles(titles) /\ Entitled(titles, S)
    BY TitleRowsAreTitles, TitlesAreFair
  <1>2. ASSUME NEW i \in DOMAIN titles
        PROVE  /\ titles[i].podiums = Cardinality(On(completed, titles[i].name, 3))
               /\ titles[i].titles = Cardinality(On(completed, titles[i].name, 1))
    <2>1. PICK x \in S : titles[i].name = x.name /\ titles[i].titles = x.titles /\ titles[i].podiums = x.podiums
      BY <1>1 DEF Entitled
    <2>2. PICK n \in Names(completed) : x = TitleRow(completed, n)
      BY <2>1 DEF TitleRows
    <2>3. x.name = n /\ x.podiums = Cardinality(On(completed, n, 3)) /\ x.titles = Cardinality(On(completed, n, 1))
      BY <2>2, TitleCounts
    <2> QED
      BY <2>1, <2>3
  <1> DEFINE pods == given("podiums")
             wins == given("titles")
  <1>3. SumFunction(pods) = SumFunction([t \in completed |-> Cardinality(PlaceRows(t, 3))])
    <2>1. DOMAIN pods = DOMAIN titles /\ \A i \in DOMAIN titles : pods[i] = Cardinality(On(completed, titles[i].name, 3))
      BY <1>2
    <2> HIDE DEF pods, given
    <2> QED
      BY <2>1, GivenBack
  <1>4. SumFunction(wins) = SumFunction([t \in completed |-> Cardinality(PlaceRows(t, 1))])
    <2>1. DOMAIN wins = DOMAIN titles /\ \A i \in DOMAIN titles : wins[i] = Cardinality(On(completed, titles[i].name, 1))
      BY <1>2
    <2> HIDE DEF wins, given
    <2> QED
      BY <2>1, GivenBack
  <1> HIDE DEF titles
  <1> QED
    BY <1>1, <1>3, <1>4 DEF titles, PlaceRows, PodiumDepth

\* Ties share a place on every board, and the Hall of Fame gives one podium for each row of
\* a podium and one title for each first place, whatever is recorded, swapped or corrected
\* and however many tournaments were completed (standings.rs competition ranks,
\* hero_stats.rs, hall_of_fame.rs).
THEOREM PlacesFair == Spec => []PlacesAreFair
  <1>1. IInv /\ Stored => PlacesAreFair
    <2> SUFFICES ASSUME IInv, Stored PROVE PlacesAreFair
      OBVIOUS
    <2>1. FairByPoints(StandingsBoard)
      BY BoardIsFair
    <2>2. /\ FairByPoints(Overall(HeroStats))
          /\ \A metric \in ScoredMetrics(Rules) : FairByPoints(Categories(HeroStats, Rules)[metric])
      BY HeroTablesAreFair
    <2> DEFINE completed == Completed
    <2>3. Finals(completed)
      BY CompletedFinished DEF Finals
    <2>5. completed = Completed
      OBVIOUS
    <2> HIDE DEF completed
    <2>4. LET titles == Titles(completed)
              Given(column) == SumFunction([i \in DOMAIN titles |-> titles[i][column]])
              Places(depth) ==
                SumFunction([t \in completed |->
                               Cardinality({i \in DOMAIN t.board : t.board[i].rank <= depth})])
          IN  /\ FairByTitles(titles)
              /\ Given("podiums") = Places(PodiumDepth)
              /\ Given("titles") = Places(1)
      BY <2>3, HallIsFair
    <2> QED
      BY <2>1, <2>2, <2>4, <2>5 DEF PlacesAreFair, Fair, FairByPoints, FairByTitles, MoreTitled
  <1> QED
    BY <1>1, Inductive, StoredIsReadable, PTL

-----------------------------------------------------------------------------
(* One price: a hero on a board of rosters of one hero.                    *)

\* A roster of one hero, held from the first round and never swapped.
OnlyHero(h) == [handle |-> h, heroes |-> <<h>>, swaps |-> <<>>, roles |-> {}]

\* A hero's appearances.
AppsOf(h) == {b \in Appearances(matches) : b[2].hero = h}

\* It holds the hero and nothing else.
LEMMA OnlyHolding ==
  ASSUME NEW h
  PROVE  DOMAIN Holdings(OnlyHero(h)) = {1} /\ Holdings(OnlyHero(h))[1] = Holding(h, 1, None)
  <1> DEFINE e == OnlyHero(h)
             zero == 0
             R == {e.heroes}
             X == {Opened(e)}
  <1>1. DOMAIN e.swaps = 1 .. 0 /\ e.heroes = <<h>> /\ 1 .. 0 = {}
    BY DEF OnlyHero
  <1>2. e.heroes \in R /\ Opened(e) \in X
    OBVIOUS
  <1>3. StaysUndone(R, e.swaps, 0) /\ Stays(X, e.swaps, 0)
    BY <1>1 DEF StaysUndone, Stays
  <1> HIDE DEF e, R, X
  <1>4. PICK o \in [1 .. 0 + 1 -> R] : Falls(o, e.heroes, e.swaps, 0) /\ OpeningRoster(e) = o[1]
    BY <1>1, <1>2, <1>3, RostersFall
  <1>5. OpeningRoster(e) = <<h>>
    BY <1>1, <1>4 DEF Falls
  <1>6. PICK r \in [0 .. 0 -> X] : Rises(r, Opened(e), e.swaps, 0) /\ Holdings(e) = r[0]
    BY <1>1, <1>2, <1>3, HoldingsRise
  <1>7. Holdings(e) = Opened(e)
    BY <1>6 DEF Rises
  <1>8. DOMAIN Opened(e) = {1} /\ Opened(e)[1] = Holding(h, 1, None)
    BY <1>5 DEF Opened
  <1> QED
    BY <1>7, <1>8 DEF e

\* It banks all of the hero's appearances.
LEMMA OnlyBanked ==
  ASSUME Stored, NEW h
  PROVE  Banked(OnlyHero(h), matches) = {<<1, a[1], a[2]>> : a \in AppsOf(h)}
  <1> DEFINE xs == Holdings(OnlyHero(h))
  <1>1. DOMAIN xs = {1} /\ xs[1] = Holding(h, 1, None)
    BY OnlyHolding
  <1>2. xs[1].hero = h /\ xs[1].from = 1 /\ xs[1].until = None
    BY <1>1 DEF Holding
  <1>3. \A a \in Appearances(matches) : Covers(xs[1], matches[a[1]].round)
    <2> SUFFICES ASSUME NEW a \in Appearances(matches) PROVE Covers(xs[1], matches[a[1]].round)
      OBVIOUS
    <2>1. matches[a[1]].round \in Rounds
      BY AppearancesFinite DEF Appears, Stored
    <2>2. matches[a[1]].round >= 1
      BY <2>1 DEF Rounds
    <2> HIDE DEF xs
    <2> QED
      BY <1>2, <2>2 DEF Covers
  <1>4. Banked(OnlyHero(h), matches) =
          UNION {{<<k, a[1], a[2]>> : a \in {b \in Appearances(matches) :
                     xs[k].hero = b[2].hero /\ Covers(xs[k], matches[b[1]].round)}} : k \in DOMAIN xs}
    BY DEF Banked
  <1> HIDE DEF xs
  <1>5. {b \in Appearances(matches) : xs[1].hero = b[2].hero /\ Covers(xs[1], matches[b[1]].round)} = AppsOf(h)
    BY <1>2, <1>3 DEF AppsOf
  <1>6. Banked(OnlyHero(h), matches) =
          {<<1, a[1], a[2]>> : a \in {b \in Appearances(matches) :
                     xs[1].hero = b[2].hero /\ Covers(xs[1], matches[b[1]].round)}}
    BY <1>1, <1>4
  <1> QED
    BY <1>5, <1>6

\* What a hero's appearances are worth, column by column.
PricesOf(h, metric) == [a \in AppsOf(h) |-> Priced(matches[a[1]], a[2], metric, Rules)]

\* They are finitely many.
LEMMA AppsFinite ==
  ASSUME Stored, NEW h
  PROVE  IsFiniteSet(AppsOf(h)) /\ \A a \in AppsOf(h) : Appears(a) /\ a = <<a[1], a[2]>> /\ a[2].hero = h
  BY AppearancesFinite, FS_Subset DEF AppsOf

\* They are whole numbers.
LEMMA PricesAreNumbers ==
  ASSUME Stored, NEW h, NEW metric \in ScoredMetrics(Rules)
  PROVE  DOMAIN PricesOf(h, metric) = AppsOf(h) /\ Numbers(PricesOf(h, metric), AppsOf(h))
  BY AppsFinite, PricedIsNumber DEF Numbers, PricesOf

\* Its row is the hero's tally.
LEMMA OnlyRow ==
  ASSUME Stored, NEW h \in DOMAIN pool
  PROVE  LET row == StandingsRow(OnlyHero(h), matches, Rules, None)
         IN  row.name = h /\ row.breakdown = HeroStats[h] /\ row.points = SumFunction(HeroStats[h])
  <1> DEFINE e == OnlyHero(h)
             banked == Banked(e, matches)
             A == AppsOf(h)
             t == Totals(e, matches, Rules, None, banked)
             s == HeroStats[h]
             M == ScoredMetrics(Rules)
  <1>1. banked = {<<1, a[1], a[2]>> : a \in A}
    BY OnlyBanked
  <1>2. s = [metric \in M |-> SumFunction(PricesOf(h, metric))]
    BY DEF HeroStats, Tallies, PricesOf, AppsOf
  <1>3. RoleBonusMetric \notin M
    BY DEF RoleBonusMetric, ScoredMetrics, Known
  <1>4. Columns(Rules, None) = M
    BY DEF Columns
  <1>5. t = [metric \in M |-> SumFunction([p \in banked |-> Priced(matches[p[2]], p[3], metric, Rules)])]
    BY <1>3, <1>4 DEF Totals
  <1>6. ASSUME NEW metric \in M
        PROVE  SumFunction([p \in banked |-> Priced(matches[p[2]], p[3], metric, Rules)])
                 = SumFunction(PricesOf(h, metric))
    <2> DEFINE f == [p \in banked |-> Priced(matches[p[2]], p[3], metric, Rules)]
               g == PricesOf(h, metric)
               back == [a \in A |-> <<1, a[1], a[2]>>]
    <2>1. IsFiniteSet(A) /\ \A a \in A : a = <<a[1], a[2]>>
      BY AppsFinite
    <2>2. DOMAIN g = A /\ Numbers(g, A)
      BY PricesAreNumbers
    <2>3. DOMAIN back = A /\ banked = {back[a] : a \in A}
      BY <1>1
    <2>4. Renames(back, A, banked)
      <3>1. \A a, b \in A : back[a] = back[b] => a = b
        BY <2>1
      <3> HIDE DEF back, A, banked
      <3> QED
        BY <2>3, <3>1 DEF Renames
    <2>5. \A a \in A : f[back[a]] = g[a]
      <3> SUFFICES ASSUME NEW a \in A PROVE f[back[a]] = g[a]
        OBVIOUS
      <3>1. back[a] \in banked /\ back[a] = <<1, a[1], a[2]>>
        BY <2>3
      <3>2. f[back[a]] = Priced(matches[a[1]], a[2], metric, Rules)
        BY <3>1
      <3> QED
        BY <3>2 DEF PricesOf
    <2>6. DOMAIN f = banked
      OBVIOUS
    <2> HIDE DEF f, g, back, A, banked
    <2>7. Through(g, f, back, A)
      BY <2>5 DEF Through
    <2>8. Numbers(f, banked)
      BY <2>2, <2>3, <2>5 DEF Numbers
    <2>9. SumFunctionOnSet(g, A) = SumFunctionOnSet(f, banked)
      BY <2>1, <2>4, <2>7, <2>8, SumRenamed
    <2>10. SumFunction(f) = SumFunction(g)
      BY <2>2, <2>6, <2>9 DEF SumFunction
    <2> QED
      BY <2>10 DEF f, g
  <1>7. t = s
    BY <1>2, <1>5, <1>6
  <1>8. LET row == StandingsRow(e, matches, Rules, None)
        IN  row.name = e.handle /\ row.breakdown = t /\ row.points = SumFunction(t)
    BY DEF StandingsRow
  <1>9. e.handle = h
    BY DEF OnlyHero
  <1> HIDE DEF t, s, e
  <1> QED
    BY <1>7, <1>8, <1>9 DEF e, s

\* The same row but for its place.
SameRow(r, row) == \E rank : r = [row EXCEPT !.rank = rank]

\* A name finds its row in a table.
LEMMA RowFound ==
  ASSUME NEW S, IsFiniteSet(S), NEW t, Tabled(t, S), NEW row \in S, IsRow(row), NEW name, row.name = name
  PROVE  SameRow(RowOf(t, name), row)
  <1> DEFINE n == Cardinality(S)
             found == {i \in 1 .. Len(t) : t[i].name = name}
  <1>1. n \in Nat /\ DOMAIN t = 1 .. n /\ t = [i \in DOMAIN t |-> t[i]]
    BY FS_CardinalityType DEF Tabled
  <1>2. Len(t) = n
    <2> HIDE DEF n
    <2>1. IsList(t)
      BY <1>1, ListOfPlaces
    <2>2. DOMAIN t = 1 .. Len(t) /\ Len(t) \in Nat
      BY <2>1, ListPositions
    <2> QED
      BY <1>1, <2>2
  <1>3. PICK i \in DOMAIN t : t[i] = [row EXCEPT !.rank = t[i].rank]
    BY DEF Tabled
  <1>4. t[i].name = row.name
    BY <1>3 DEF IsRow
  <1>5. i \in found /\ \A j \in found : j = i
    BY <1>1, <1>2, <1>4 DEF Tabled
  <1>6. found = {i}
    BY <1>5
  <1>7. Min({i}) = i
    <2>1. i \in Int
      BY <1>1
    <2> QED
      BY <2>1 DEF Min
  <1>8. SelectInSeq(t, LAMBDA r : r.name = name) = IF found # {} THEN Min(found) ELSE 0
    BY DEF SelectInSeq
  <1> HIDE DEF found
  <1>9. RowOf(t, name) = t[i]
    BY <1>6, <1>7, <1>8 DEF RowOf
  <1> QED
    BY <1>3, <1>9 DEF SameRow

\* The row of a hero in a hero table.
LEMMA HeroFound ==
  ASSUME Stored, NEW points, \A h \in DOMAIN pool : points[h] \in Int, NEW hero \in DOMAIN pool
  PROVE  RowOf(CompetitionRank(HeroRows(points)), hero).points = points[hero]
  <1> DEFINE t == CompetitionRank(HeroRows(points))
             S == HeroRows(points)
             p == points[hero]
             row == HeroRow(hero, p)
  <1>1. IsFiniteSet(S) /\ AreRows(S)
    BY HeroRowsAreRows
  <1>2. Tabled(t, S)
    BY <1>1, CompetitionIsFair
  <1>3. row \in S
    BY DEF HeroRows
  <1>4. IsRow(row)
    BY <1>1, <1>3 DEF AreRows
  <1>5. row.name = hero /\ row.points = p
    BY DEF HeroRow
  <1> HIDE DEF t, S, row, p
  <1>8. SameRow(RowOf(t, hero), row)
    BY <1>1, <1>2, <1>3, <1>4, <1>5, RowFound
  <1>6. PICK rank : RowOf(t, hero) = [row EXCEPT !.rank = rank]
    BY <1>8 DEF SameRow
  <1>7. [row EXCEPT !.rank = rank].points = p
    BY <1>4, <1>5 DEF IsRow
  <1> QED
    BY <1>5, <1>6, <1>7 DEF t, p

\* And the row of a roster of one hero on a board of such rosters.
LEMMA OnlyFound ==
  ASSUME Stored, NEW h \in DOMAIN pool
  PROVE  LET board == Board(matches, Rules, {OnlyHero(x) : x \in DOMAIN pool}, None)
         IN  /\ RowOf(board, h).points = SumFunction(HeroStats[h])
             /\ RowOf(board, h).breakdown = HeroStats[h]
  <1> DEFINE RowFor(x) == StandingsRow(OnlyHero(x), matches, Rules, None)
             S == {RowFor(x) : x \in DOMAIN pool}
             l == [x \in DOMAIN pool |-> RowFor(x)]
             board == Board(matches, Rules, {OnlyHero(x) : x \in DOMAIN pool}, None)
             row == RowFor(h)
  <1>1. IsFiniteSet(DOMAIN pool) /\ DOMAIN pool \subseteq Nat
    BY StoredAssumption, FS_Subset DEF Stored
  <1>2. ASSUME NEW x \in DOMAIN pool
        PROVE  IsRow(RowFor(x)) /\ RowFor(x).name = x
    <2>1. RowFor(x).name = x /\ RowFor(x).points = SumFunction(HeroStats[x])
      BY OnlyRow
    <2>2. DOMAIN HeroStats[x] = ScoredMetrics(Rules) /\ Numbers(HeroStats[x], ScoredMetrics(Rules))
      BY TallyType
    <2>3. SumFunction(HeroStats[x]) \in Int
      <3> DEFINE s == HeroStats[x]
      <3> HIDE DEF s
      <3>1. SumFunction(s) \in Int
        BY <2>2, FiniteMetrics, TotalType DEF s
      <3> QED
        BY <3>1 DEF s
    <2>4. /\ RowFor(x) = [k \in DOMAIN RowFor(x) |-> RowFor(x)[k]]
          /\ {"rank", "name", "points"} \subseteq DOMAIN RowFor(x)
      BY DEF StandingsRow
    <2> HIDE DEF RowFor
    <2> QED
      BY <1>1, <2>1, <2>3, <2>4 DEF IsRow
  <1>3. row.points = SumFunction(HeroStats[h]) /\ row.breakdown = HeroStats[h] /\ "breakdown" \in DOMAIN row
    BY OnlyRow DEF StandingsRow
  <1>4. board = CompetitionRank(S)
    <2>1. {StandingsRow(e, matches, Rules, None) : e \in {OnlyHero(x) : x \in DOMAIN pool}} = S
      OBVIOUS
    <2> QED
      BY <2>1 DEF Board
  <1>5. DOMAIN l = DOMAIN pool /\ S = {l[x] : x \in DOMAIN pool}
    OBVIOUS
  <1> HIDE DEF RowFor, l
  <1>6. IsFiniteSet(S)
    <2> HIDE DEF S
    <2> QED
      BY <1>1, <1>5, FiniteImage
  <1>7. AreRows(S)
    <2>1. \A r \in S : IsRow(r)
      BY <1>2
    <2>2. \A p, q \in S : p.name = q.name => p = q
      BY <1>2
    <2> QED
      BY <2>1, <2>2 DEF AreRows
  <1>8. row \in S /\ IsRow(row) /\ row.name = h
    BY <1>2
  <1> HIDE DEF S, row, board
  <1>9. Tabled(board, S)
    BY <1>4, <1>6, <1>7, CompetitionIsFair
  <1>12. SameRow(RowOf(board, h), row)
    BY <1>6, <1>8, <1>9, RowFound
  <1>10. PICK rank : RowOf(board, h) = [row EXCEPT !.rank = rank]
    BY <1>12 DEF SameRow
  <1>11. [row EXCEPT !.rank = rank].points = row.points /\ [row EXCEPT !.rank = rank].breakdown = row.breakdown
    BY <1>3, <1>8 DEF IsRow
  <1> QED
    BY <1>3, <1>8, <1>10, <1>11 DEF board

-----------------------------------------------------------------------------
(* And on the ticker.                                                      *)

\* What the ticker shows of game g: a place for every seat.
TickerSeats(m, g, t) ==
  LET seats == m.games[g].seats
  IN  /\ IsFiniteSet(DOMAIN t)
      /\ \A i \in DOMAIN t : \E s \in DOMAIN seats :
           t[i].hero = seats[s].hero /\ t[i].points = TickerPoints(m, Rules, g, seats[s].hero)
      /\ \A s \in DOMAIN seats : \E i \in DOMAIN t : t[i].hero = seats[s].hero
      /\ \A i, j \in DOMAIN t : t[i].hero = t[j].hero => i = j

\* The sides of a game place every seat once.
LEMMA SidesSeated ==
  ASSUME NEW m, Recordable(m), NEW g \in DOMAIN m.games
  PROVE  TickerSeats(m, g, TickerSides(m, Rules, g))
  <1> DEFINE seats == m.games[g].seats
             D == DOMAIN seats
             n == Cardinality(D)
             Before(i, j) == \/ seats[i].winner /\ ~seats[j].winner
                             \/ seats[i].winner = seats[j].winner /\ i < j
             rel == {p \in D \X D : Before(p[1], p[2])}
             o == Sorted(D, Before)
             place == [x \in D |-> 1 + Cardinality(Below(x, rel, D))]
             t == TickerSides(m, Rules, g)
  <1>1. /\ IsList(seats) /\ \A s \in DOMAIN seats : seats[s].winner \in BOOLEAN
        /\ \A i, j \in DOMAIN seats : seats[i].hero = seats[j].hero => i = j
    <2>1. m.games[g] \in ToSet(m.games)
      BY DEF ToSet
    <2>2. \A s \in DOMAIN seats : seats[s] \in ToSet(seats)
      BY DEF ToSet
    <2> QED
      BY <2>1, <2>2 DEF Recordable
  <1>2. IsFiniteSet(D) /\ (\A x \in D : x \in Int) /\ n \in Nat
    BY <1>1, ListPositions, FS_CardinalityType
  <1>3. StrictOrder(rel, D)
    <2>1. \A x, y \in D : <<x, y>> \in rel <=> ((seats[x].winner /\ ~seats[y].winner)
                                              \/ (seats[x].winner = seats[y].winner /\ x < y))
      OBVIOUS
    <2> HIDE DEF rel, D
    <2>2. \A x \in D : <<x, x>> \notin rel
      BY <1>2, <2>1
    <2>3. ASSUME NEW x \in D, NEW y \in D, x # y PROVE <<x, y>> \in rel \/ <<y, x>> \in rel
      <3>1. seats[x].winner \in BOOLEAN /\ seats[y].winner \in BOOLEAN
        BY <1>1 DEF D
      <3>2. x < y \/ y < x
        BY <1>2, <2>3
      <3> QED
        BY <2>1, <3>1, <3>2
    <2>4. ASSUME NEW x \in D, NEW y \in D, NEW z \in D, <<x, y>> \in rel, <<y, z>> \in rel
          PROVE  <<x, z>> \in rel
      <3>1. seats[x].winner \in BOOLEAN /\ seats[y].winner \in BOOLEAN /\ seats[z].winner \in BOOLEAN
        BY <1>1 DEF D
      <3>2. x < y /\ y < z => x < z
        BY <1>2
      <3> QED
        BY <2>1, <2>4, <3>1, <3>2
    <2> QED
      BY <2>2, <2>3, <2>4 DEF StrictOrder
  <1>4. CountsBelow(place, rel, D)
    BY DEF CountsBelow
  <1>5. \A x \in D : {y \in D : Before(y, x)} = Below(x, rel, D)
    BY DEF Below
  <1>6. o = [k \in 1 .. n |-> CHOOSE x \in D : 1 + Cardinality({y \in D : Before(y, x)}) = k]
    BY DEF Sorted
  <1>7. \A x \in D : place[x] = 1 + Cardinality({y \in D : Before(y, x)})
    BY <1>5
  <1>8. t = [i \in DOMAIN o |-> [hero |-> seats[o[i]].hero,
                                 points |-> TickerPoints(m, Rules, g, seats[o[i]].hero)]]
    BY DEF TickerSides
  <1> HIDE DEF place, o, rel, Before, t
  <1>9. ByPlace(o, place, D)
    <2>1. DOMAIN o = 1 .. Cardinality(D)
      BY <1>6
    <2>2. ASSUME NEW k \in 1 .. Cardinality(D), NEW x \in D, place[x] = k
          PROVE  o[k] \in D /\ place[o[k]] = k
      <3>1. \E z \in D : 1 + Cardinality({y \in D : Before(y, z)}) = k
        BY <1>7, <2>2
      <3>2. o[k] \in D /\ 1 + Cardinality({y \in D : Before(y, o[k])}) = k
        BY <1>6, <3>1
      <3> QED
        BY <1>7, <3>2
    <2> HIDE DEF D
    <2> QED
      BY <2>1, <2>2 DEF ByPlace
  <1>10. Lists(o, rel, D)
    <2> HIDE DEF D
    <2> QED
      BY <1>2, <1>3, <1>4, <1>9, PlacesList
  <1>11. /\ DOMAIN o = 1 .. n /\ (\A k \in 1 .. n : o[k] \in D)
         /\ \A x \in D : \E k \in 1 .. n : o[k] = x
    BY <1>10 DEF Lists
  <1>12. ASSUME NEW i \in 1 .. n, NEW j \in 1 .. n, o[i] = o[j] PROVE i = j
    <2>1. n = Cardinality(D)
      OBVIOUS
    <2> HIDE DEF D, n
    <2> QED
      BY <1>2, <1>3, <1>10, <1>12, <2>1, ListedOnce
  <1> HIDE DEF n
  <1>13. /\ DOMAIN t = 1 .. n
         /\ \A i \in 1 .. n : t[i].hero = seats[o[i]].hero /\ t[i].points = TickerPoints(m, Rules, g, seats[o[i]].hero)
    BY <1>8, <1>11
  <1>14. IsFiniteSet(1 .. n)
    BY <1>2, FS_Interval
  <1>15. \A i, j \in 1 .. n : t[i].hero = t[j].hero => i = j
    BY <1>1, <1>11, <1>12, <1>13
  <1>16. \A s \in D : \E i \in 1 .. n : t[i].hero = seats[s].hero
    BY <1>11, <1>13
  <1>17. TickerSeats(m, g, t)
    BY <1>11, <1>13, <1>14, <1>15, <1>16 DEF TickerSeats
  <1> QED
    BY <1>17 DEF t

\* Among games a hero played, one has the lowest number.
LEMMA FirstGameExists ==
  ASSUME NEW m, Recordable(m), NEW h,
         NEW k \in DOMAIN m.games, \E s \in ToSet(m.games[k].seats) : s.hero = h
  PROVE  \E g \in DOMAIN m.games : IsFirstGame(m, h, g) /\ \E s \in ToSet(m.games[g].seats) : s.hero = h
  <1> DEFINE G == {g \in DOMAIN m.games : \E s \in ToSet(m.games[g].seats) : s.hero = h}
             l == [g \in G |-> -m.games[g].number]
             N == {l[g] : g \in G}
  <1>1. IsFiniteSet(DOMAIN m.games)
    BY ListPositions DEF Recordable
  <1>2. IsFiniteSet(G)
    BY <1>1, FS_Subset
  <1>3. \A g \in DOMAIN m.games : m.games[g].number \in Int
    BY DEF Recordable, ToSet
  <1>11. k \in G
    OBVIOUS
  <1>12. \A x \in G : l[x] = -m.games[x].number /\ m.games[x].number \in Int
    BY <1>3
  <1>4. N \in SUBSET Int /\ N # {}
    <2> HIDE DEF l, G
    <2>1. ASSUME NEW x \in G PROVE l[x] \in Int
      <3> DEFINE a == m.games[x].number
      <3>1. l[x] = -a /\ a \in Int
        BY <1>12
      <3> HIDE DEF a
      <3> QED
        BY <3>1
    <2>2. l[k] \in N
      BY <1>11
    <2>3. \A y \in N : y \in Int
      BY <2>1
    <2> HIDE DEF N
    <2> QED
      BY <2>2, <2>3
  <1>5. IsFiniteSet(N)
    <2>1. DOMAIN l = G
      OBVIOUS
    <2> HIDE DEF l, G
    <2> QED
      BY <1>2, <2>1, FiniteImage
  <1>6. Max(N) \in N /\ \A y \in N : y <= Max(N)
    <2> HIDE DEF N
    <2> QED
      BY <1>4, <1>5, MaxOfSome
  <1>7. PICK g \in G : l[g] = Max(N)
    BY <1>6
  <1>8. \A x \in G : l[x] <= l[g]
    BY <1>6, <1>7
  <1>9. \A x \in G : m.games[g].number <= m.games[x].number
    <2> SUFFICES ASSUME NEW x \in G PROVE m.games[g].number <= m.games[x].number
      OBVIOUS
    <2> DEFINE a == m.games[g].number
               b == m.games[x].number
    <2>1. -b <= -a /\ a \in Int /\ b \in Int
      BY <1>8, <1>12
    <2> HIDE DEF a, b
    <2>2. a <= b
      BY <2>1
    <2> QED
      BY <2>2 DEF a, b
  <1>10. IsFirstGame(m, h, g)
    BY <1>9 DEF IsFirstGame
  <1> QED
    BY <1>7, <1>10

\* What the ticker shows of a hero at a place: the game, and a draft that was kept for it.
Shown(m, g, h) ==
  {c \in HeroContexts(m) : /\ c.hero = h
                           /\ \/ Played(c) /\ c.game = g
                              \/ c.role = "DRAFTED" /\ IsFirstGame(m, h, g)}

\* A hero's contexts of a match, and their scores.
ContextsOf(m, h) == {c \in HeroContexts(m) : c.hero = h}

ScoresOf(m, h) == [c \in ContextsOf(m, h) |-> Score(m, c, Rules)]

\* They are finitely many whole numbers.
LEMMA ContextsFinite ==
  ASSUME NEW m, Recordable(m), NEW h
  PROVE  /\ IsFiniteSet(ContextsOf(m, h)) /\ DOMAIN ScoresOf(m, h) = ContextsOf(m, h)
         /\ Numbers(ScoresOf(m, h), ContextsOf(m, h))
  <1>1. IsFiniteSet(HeroContexts(m))
    BY FiniteContexts
  <1>2. IsFiniteSet(ContextsOf(m, h))
    BY <1>1, FS_Subset DEF ContextsOf
  <1>3. \A c \in ContextsOf(m, h) : Score(m, c, Rules) \in Int
    BY ScoreType DEF ContextsOf
  <1> QED
    BY <1>2, <1>3 DEF ScoresOf, Numbers

\* A part of a hero's contexts adds up alike, whoever adds it up.
LEMMA PartOfScores ==
  ASSUME NEW m, Recordable(m), NEW h, NEW X \in SUBSET ContextsOf(m, h)
  PROVE  /\ SumFunction([c \in X |-> Score(m, c, Rules)]) = SumFunctionOnSet(ScoresOf(m, h), X)
         /\ IsFiniteSet(X) /\ Numbers(ScoresOf(m, h), X)
  <1> DEFINE f == [c \in X |-> Score(m, c, Rules)]
             sc == ScoresOf(m, h)
  <1>1. IsFiniteSet(X) /\ Numbers(sc, X)
    BY ContextsFinite, FS_Subset DEF Numbers
  <1>2. SumFunction(f) = SumFunctionOnSet(f, X)
    BY DEF SumFunction
  <1>3. Alike(sc, f, X)
    BY DEF Alike, ScoresOf
  <1> HIDE DEF f, sc
  <1>4. SumFunctionOnSet(sc, X) = SumFunctionOnSet(f, X)
    BY <1>1, <1>3, SumSame
  <1> QED
    BY <1>1, <1>2, <1>4 DEF f, sc

\* The ticker's places for a hero, and what is below them.
SeatsOn(t) == UNION {{<<g, i>> : i \in DOMAIN t.games[g]} : g \in DOMAIN t.games}

Taken(t, h) == {p \in SeatsOn(t) : t.games[p[1]][p[2]].hero = h}

BelowSeats(t, match, h) ==
  {c \in HeroContexts(match) : /\ c.hero = h
                               /\ \/ c.role = "DRAFTED" /\ h \in t.unplayed
                                  \/ c.role = "BANNED" /\ Contains(t.banned, h)}

\* A hero has one place for each game they played, with the points of that game.
LEMMA TakenPlaces ==
  ASSUME NEW m, Recordable(m), NEW h
  PROVE  LET t == TickerEntry(m, Rules)
             taken == Taken(t, h)
         IN  /\ IsFiniteSet(taken)
             /\ \A p \in taken : /\ p[1] \in DOMAIN m.games
                                 /\ \E s \in DOMAIN m.games[p[1]].seats : m.games[p[1]].seats[s].hero = h
                                 /\ t.games[p[1]][p[2]].points = TickerPoints(m, Rules, p[1], h)
             /\ \A p, q \in taken : p[1] = q[1] => p = q
             /\ \A g \in DOMAIN m.games :
                  (\E s \in DOMAIN m.games[g].seats : m.games[g].seats[s].hero = h) => \E p \in taken : p[1] = g
  <1> DEFINE t == TickerEntry(m, Rules)
             taken == Taken(t, h)
             of == [g \in DOMAIN m.games |-> {<<g, i>> : i \in DOMAIN t.games[g]}]
             F == {of[g] : g \in DOMAIN m.games}
  <1>1. DOMAIN t.games = DOMAIN m.games /\ \A g \in DOMAIN m.games : t.games[g] = TickerSides(m, Rules, g)
    BY DEF TickerEntry
  <1>2. \A g \in DOMAIN m.games : TickerSeats(m, g, t.games[g])
    BY <1>1, SidesSeated
  <1> HIDE DEF t
  <1>3. \A p \in taken : p[1] \in DOMAIN m.games /\ p[2] \in DOMAIN t.games[p[1]] /\ p = <<p[1], p[2]>>
                         /\ t.games[p[1]][p[2]].hero = h
    BY <1>1 DEF Taken, SeatsOn
  <1>4. ASSUME NEW g \in DOMAIN m.games, NEW i \in DOMAIN t.games[g], t.games[g][i].hero = h
        PROVE  <<g, i>> \in taken
    <2>1. <<g, i>> \in SeatsOn(t)
      BY <1>1 DEF SeatsOn
    <2> QED
      BY <1>4, <2>1 DEF Taken
  <1>5. IsFiniteSet(DOMAIN m.games)
    BY ListPositions DEF Recordable
  <1>6. ASSUME NEW g \in DOMAIN m.games PROVE IsFiniteSet(of[g])
    <2> DEFINE l == [i \in DOMAIN t.games[g] |-> <<g, i>>]
    <2>1. IsFiniteSet(DOMAIN t.games[g])
      BY <1>2 DEF TickerSeats
    <2>2. DOMAIN l = DOMAIN t.games[g] /\ of[g] = {l[i] : i \in DOMAIN t.games[g]}
      OBVIOUS
    <2> HIDE DEF l, of
    <2> QED
      BY <2>1, <2>2, FiniteImage
  <1>7. SeatsOn(t) = UNION F
    <2>1. \A g \in DOMAIN m.games : of[g] = {<<g, i>> : i \in DOMAIN t.games[g]}
      OBVIOUS
    <2>2. \A p : p \in SeatsOn(t) <=> \E g \in DOMAIN m.games : p \in {<<g, i>> : i \in DOMAIN t.games[g]}
      BY <1>1 DEF SeatsOn
    <2> HIDE DEF of
    <2>3. \A p : p \in UNION F <=> \E g \in DOMAIN m.games : p \in of[g]
      OBVIOUS
    <2> HIDE DEF F
    <2>4. \A p : p \in SeatsOn(t) <=> p \in UNION F
      BY <2>1, <2>2, <2>3
    <2> QED
      BY <2>4
  <1>8. DOMAIN of = DOMAIN m.games
    OBVIOUS
  <1> HIDE DEF of
  <1>9. IsFiniteSet(F)
    BY <1>5, <1>8, FiniteImage
  <1>10. \A X \in F : IsFiniteSet(X)
    BY <1>6
  <1> HIDE DEF F
  <1>11. IsFiniteSet(SeatsOn(t))
    BY <1>7, <1>9, <1>10, FS_UNION
  <1>12. IsFiniteSet(taken)
    BY <1>11, FS_Subset DEF Taken
  <1> HIDE DEF taken
  <1>13. ASSUME NEW p \in taken
         PROVE  /\ \E s \in DOMAIN m.games[p[1]].seats : m.games[p[1]].seats[s].hero = h
                /\ t.games[p[1]][p[2]].points = TickerPoints(m, Rules, p[1], h)
    <2>1. p[1] \in DOMAIN m.games /\ p[2] \in DOMAIN t.games[p[1]] /\ t.games[p[1]][p[2]].hero = h
      BY <1>3
    <2>2. TickerSeats(m, p[1], t.games[p[1]])
      BY <1>2, <2>1
    <2>3. PICK s \in DOMAIN m.games[p[1]].seats :
            /\ t.games[p[1]][p[2]].hero = m.games[p[1]].seats[s].hero
            /\ t.games[p[1]][p[2]].points = TickerPoints(m, Rules, p[1], m.games[p[1]].seats[s].hero)
      BY <2>1, <2>2 DEF TickerSeats
    <2> QED
      BY <2>1, <2>3
  <1>14. ASSUME NEW p \in taken, NEW q \in taken, p[1] = q[1] PROVE p = q
    <2>1. TickerSeats(m, p[1], t.games[p[1]]) /\ t.games[p[1]][p[2]].hero = t.games[p[1]][q[2]].hero
          /\ p[2] \in DOMAIN t.games[p[1]] /\ q[2] \in DOMAIN t.games[p[1]]
      BY <1>2, <1>3, <1>14
    <2>2. p[2] = q[2]
      BY <2>1 DEF TickerSeats
    <2> QED
      BY <1>3, <1>14, <2>2
  <1>15. ASSUME NEW g \in DOMAIN m.games, NEW s \in DOMAIN m.games[g].seats, m.games[g].seats[s].hero = h
         PROVE  \E p \in taken : p[1] = g
    <2>1. PICK i \in DOMAIN t.games[g] : t.games[g][i].hero = m.games[g].seats[s].hero
      BY <1>2 DEF TickerSeats
    <2>2. <<g, i>> \in taken
      BY <1>4, <1>15, <2>1
    <2> QED
      BY <2>2
  <1> QED
    BY <1>3, <1>12, <1>13, <1>14, <1>15 DEF t, taken

\* A banned hero is on the list of bans.
LEMMA BannedListed ==
  ASSUME NEW bans, IsList(bans), NEW list, list = [i \in DOMAIN bans |-> bans[i].hero], NEW h,
         \E i \in DOMAIN bans : bans[i].hero = h
  PROVE  Contains(list, h)
  <1>1. Len(bans) \in Nat /\ DOMAIN bans = 1 .. Len(bans)
    BY ListPositions
  <1>2. DOMAIN list = 1 .. Len(bans) /\ list = [i \in DOMAIN list |-> list[i]]
    BY <1>1
  <1>3. IsList(list)
    BY <1>1, <1>2, ListOfPlaces
  <1>4. h \in ToSet(list)
    BY DEF ToSet
  <1> QED
    BY <1>3, <1>4, ListPositions

\* The ticker shows a hero's whole score of the match, each context at one place.
LEMMA TickerAddsUp ==
  ASSUME NEW m, Recordable(m), NEW h
  PROVE  OnTicker(TickerEntry(m, Rules), m, h) = SumFunctionOnSet(ScoresOf(m, h), ContextsOf(m, h))
  <1> DEFINE t == TickerEntry(m, Rules)
             taken == Taken(t, h)
             under == BelowSeats(t, m, h)
             C == ContextsOf(m, h)
             sc == ScoresOf(m, h)
             part == [p \in taken |-> Shown(m, p[1], h)]
             points == [p \in taken |-> t.games[p[1]][p[2]].points]
             all == UNION {part[p] : p \in taken}
             fund == [c \in under |-> Score(m, c, Rules)]
  <1>1. OnTicker(t, m, h) = SumFunction(points) + SumFunction(fund)
    BY DEF OnTicker, Taken, SeatsOn, BelowSeats
  <1>2. IsFiniteSet(C) /\ Numbers(sc, C)
    BY ContextsFinite
  <1>3. /\ t.unplayed = DraftedUnplayed(m) /\ t.banned = [i \in DOMAIN m.bans |-> m.bans[i].hero]
    BY DEF TickerEntry
  <1>4. /\ IsFiniteSet(taken)
        /\ \A p \in taken : /\ p[1] \in DOMAIN m.games
                            /\ \E s \in DOMAIN m.games[p[1]].seats : m.games[p[1]].seats[s].hero = h
                            /\ t.games[p[1]][p[2]].points = TickerPoints(m, Rules, p[1], h)
        /\ \A p, q \in taken : p[1] = q[1] => p = q
        /\ \A g \in DOMAIN m.games :
             (\E s \in DOMAIN m.games[g].seats : m.games[g].seats[s].hero = h) => \E p \in taken : p[1] = g
    BY TakenPlaces
  <1> HIDE DEF t, taken
  <1>5. \A p \in taken : part[p] = Shown(m, p[1], h) /\ part[p] \in SUBSET C
    BY DEF Shown, ContextsOf
  <1>6. \A c \in C : /\ c \in HeroContexts(m) /\ c.hero = h /\ c.role \in {"PLAYED", "BANNED", "DRAFTED"}
                     /\ (Played(c) <=> c.role = "PLAYED")
    <2> SUFFICES ASSUME NEW c \in C PROVE c.role \in {"PLAYED", "BANNED", "DRAFTED"}
      BY DEF ContextsOf, Played
    <2>1. CASE Played(c)
      BY <2>1 DEF Played
    <2>2. CASE ~Played(c)
      <3>1. PICK role \in {"BANNED", "DRAFTED"} : c = OffTable(role, c.hero)
        BY <2>2, ContextShape DEF ContextsOf
      <3> QED
        BY <3>1 DEF OffTable
    <2> QED
      BY <2>1, <2>2
  <1>7. ASSUME NEW g \in DOMAIN m.games, NEW s \in DOMAIN m.games[g].seats, m.games[g].seats[s].hero = h
        PROVE  h \in PlayedHeroes(m)
    <2>1. SeatOf(m, g, s) \in PlayedContexts(m) /\ SeatOf(m, g, s).hero = h
      BY <1>7 DEF PlayedContexts, SeatOf
    <2> QED
      BY <2>1 DEF PlayedHeroes
  <1>8. Apart(part, taken)
    <2> SUFFICES ASSUME NEW p \in taken, NEW q \in taken, p # q, NEW c \in part[p], c \in part[q] PROVE FALSE
      BY DEF Apart
    <2>1. p[1] # q[1] /\ c \in C
      BY <1>4, <1>5
    <2>2. c \in Shown(m, p[1], h) /\ c \in Shown(m, q[1], h)
      BY <1>5
    <2>3. CASE Played(c)
      BY <1>6, <2>1, <2>2, <2>3 DEF Shown, Played
    <2>4. CASE ~Played(c)
      <3>1. IsFirstGame(m, h, p[1]) /\ IsFirstGame(m, h, q[1])
        BY <2>2, <2>4 DEF Shown
      <3>2. /\ p[1] \in DOMAIN m.games /\ q[1] \in DOMAIN m.games
            /\ \E s \in ToSet(m.games[p[1]].seats) : s.hero = h
            /\ \E s \in ToSet(m.games[q[1]].seats) : s.hero = h
        BY <1>4 DEF ToSet
      <3>3. m.games[p[1]].number <= m.games[q[1]].number /\ m.games[q[1]].number <= m.games[p[1]].number
        BY <3>1, <3>2 DEF IsFirstGame
      <3>4. m.games[p[1]].number \in Int /\ m.games[q[1]].number \in Int
        BY <3>2 DEF Recordable, ToSet
      <3>5. m.games[p[1]].number = m.games[q[1]].number
        BY <3>3, <3>4
      <3> QED
        BY <2>1, <3>2, <3>5 DEF Recordable
    <2> QED
      BY <2>3, <2>4
  <1>9. under \in SUBSET C
    BY DEF BelowSeats, ContextsOf
  <1>10. all \in SUBSET C
    BY <1>5
  <1>11. all \cap under = {}
    <2> SUFFICES ASSUME NEW p \in taken, NEW c \in part[p], c \in under PROVE FALSE
      OBVIOUS
    <2>1. h \in PlayedHeroes(m)
      BY <1>4, <1>7
    <2>2. h \notin t.unplayed
      BY <1>3, <2>1 DEF DraftedUnplayed
    <2>3. c.role = "BANNED"
      BY <2>2 DEF BelowSeats
    <2>4. c \in Shown(m, p[1], h)
      BY <1>5
    <2> QED
      BY <2>3, <2>4 DEF Shown, Played
  <1>12. C \subseteq all \cup under
    <2> SUFFICES ASSUME NEW c \in C PROVE c \in all \/ c \in under
      OBVIOUS
    <2>1. c \in HeroContexts(m) /\ c.hero = h
      BY <1>6
    <2>2. CASE c.role = "PLAYED"
      <3>1. Played(c)
        BY <2>2 DEF Played
      <3>2. c.game \in DOMAIN m.games /\ c.seat \in DOMAIN m.games[c.game].seats
            /\ m.games[c.game].seats[c.seat].hero = h
        BY <2>1, <3>1, SeatShape DEF Participant
      <3>3. PICK p \in taken : p[1] = c.game
        BY <1>4, <3>2
      <3>4. c \in Shown(m, p[1], h)
        BY <2>1, <3>1, <3>3 DEF Shown
      <3> QED
        BY <1>5, <3>3, <3>4
    <2>3. CASE c.role = "DRAFTED" /\ h \in PlayedHeroes(m)
      <3>1. PICK g \in DOMAIN m.games : \E s \in DOMAIN m.games[g].seats : m.games[g].seats[s].hero = h
        BY <2>3 DEF PlayedHeroes, PlayedContexts
      <3>2. \E s \in ToSet(m.games[g].seats) : s.hero = h
        BY <3>1 DEF ToSet
      <3>3. PICK k \in DOMAIN m.games : IsFirstGame(m, h, k) /\ \E s \in ToSet(m.games[k].seats) : s.hero = h
        BY <3>2, FirstGameExists
      <3>4. \E s \in DOMAIN m.games[k].seats : m.games[k].seats[s].hero = h
        BY <3>3 DEF ToSet
      <3>5. PICK p \in taken : p[1] = k
        BY <1>4, <3>4
      <3>6. c \in Shown(m, p[1], h)
        BY <2>1, <2>3, <3>3, <3>5 DEF Shown
      <3> QED
        BY <1>5, <3>5, <3>6
    <2>4. CASE c.role = "DRAFTED" /\ h \notin PlayedHeroes(m)
      <3>1. c \notin PlayedContexts(m)
        BY <2>1, <2>4 DEF PlayedHeroes
      <3>2. h \in DraftedHeroes(m)
        BY <2>1, <2>4, <3>1 DEF HeroContexts, OffTable
      <3> QED
        BY <1>3, <2>1, <2>4, <3>2 DEF BelowSeats, DraftedUnplayed
    <2>5. CASE c.role = "BANNED"
      <3>1. c \notin PlayedContexts(m)
        BY <2>5 DEF PlayedContexts
      <3>2. \E b \in ToSet(m.bans) : b.hero = h
        BY <2>1, <2>5, <3>1 DEF HeroContexts, OffTable
      <3>3. \E i \in DOMAIN m.bans : m.bans[i].hero = h
        BY <3>2 DEF ToSet
      <3>4. Contains(t.banned, h)
        BY <1>3, <3>3, BannedListed DEF Recordable
      <3> QED
        BY <2>1, <2>5, <3>4 DEF BelowSeats
    <2> QED
      BY <1>6, <2>2, <2>3, <2>4, <2>5
  <1>13. C = all \cup under
    BY <1>9, <1>10, <1>12
  <1> DEFINE onSeats == points
  <1>14. \A p \in taken : points[p] = SumFunctionOnSet(sc, part[p])
    <2> SUFFICES ASSUME NEW p \in taken PROVE points[p] = SumFunctionOnSet(sc, part[p])
      OBVIOUS
    <2>1. points[p] = TickerPoints(m, Rules, p[1], h)
      BY <1>4
    <2>2. TickerPoints(m, Rules, p[1], h) = SumFunction([c \in Shown(m, p[1], h) |-> Score(m, c, Rules)])
      BY DEF TickerPoints, Shown
    <2>3. Shown(m, p[1], h) \in SUBSET ContextsOf(m, h)
      BY DEF Shown, ContextsOf
    <2>4. SumFunction([c \in Shown(m, p[1], h) |-> Score(m, c, Rules)]) = SumFunctionOnSet(sc, Shown(m, p[1], h))
      BY <2>3, PartOfScores
    <2> QED
      BY <1>5, <2>1, <2>2, <2>4
  <1>15. FiniteParts(part, taken) /\ NumbersIn(sc, part, taken)
    <2> SUFFICES ASSUME NEW p \in taken PROVE IsFiniteSet(part[p]) /\ Numbers(sc, part[p])
      BY DEF FiniteParts, NumbersIn
    <2>1. part[p] \in SUBSET ContextsOf(m, h)
      BY <1>5
    <2> QED
      BY <2>1, PartOfScores
  <1>16. PartSums(points, sc, part, taken)
    BY <1>14 DEF PartSums
  <1>17. DOMAIN points = taken
    OBVIOUS
  <1>18. SumFunction(fund) = SumFunctionOnSet(sc, under) /\ IsFiniteSet(under)
    BY <1>9, PartOfScores
  <1> HIDE DEF part, points, fund, under, sc
  <1>19. IsFiniteSet(all) /\ SumFunctionOnSet(sc, all) = SumFunctionOnSet(points, taken)
    BY <1>4, <1>8, <1>15, <1>16, SumOverParts
  <1> HIDE DEF all, C
  <1>20. SumFunctionOnSet(sc, all \cup under) = SumFunctionOnSet(sc, all) + SumFunctionOnSet(sc, under)
    <2>1. Numbers(sc, all \cup under)
      BY <1>2, <1>13
    <2> QED
      BY <1>11, <1>18, <1>19, <2>1, SumOfUnion
  <1>21. SumFunction(points) = SumFunctionOnSet(points, taken)
    BY <1>17 DEF SumFunction
  <1>22. OnTicker(t, m, h) = SumFunctionOnSet(sc, C)
    BY <1>1, <1>13, <1>18, <1>19, <1>20, <1>21
  <1> QED
    BY <1>22 DEF t, sc, C

\* The scores of the appearances.
ScoreApps(h) == [a \in AppsOf(h) |-> Score(matches[a[1]], a[2], Rules)]

\* They are whole numbers.
LEMMA ScoreAppsType ==
  ASSUME Stored, NEW h
  PROVE  Numbers(ScoreApps(h), AppsOf(h))
  <1> SUFFICES ASSUME NEW a \in AppsOf(h) PROVE Score(matches[a[1]], a[2], Rules) \in Int
    BY DEF Numbers, ScoreApps
  <1>1. Recordable(matches[a[1]]) /\ a[2] \in HeroContexts(matches[a[1]])
    BY AppsFinite DEF Appears, Stored
  <1> QED
    BY <1>1, ScoreType

\* By column or by appearance, a hero's total is the same.
LEMMA TotalByAppearance ==
  ASSUME Stored, NEW h \in DOMAIN pool
  PROVE  SumFunction(HeroStats[h]) = SumFunctionOnSet(ScoreApps(h), AppsOf(h))
  <1> DEFINE M == ScoredMetrics(Rules)
             A == AppsOf(h)
             f == [p \in M \X A |-> Priced(matches[p[2][1]], p[2][2], p[1], Rules)]
             row == HeroStats[h]
             col == ScoreApps(h)
  <1>1. IsFiniteSet(M) /\ IsFiniteSet(A)
    BY FiniteMetrics, AppsFinite
  <1>2. \A metric \in M, a \in A : f[<<metric, a>>] = Priced(matches[a[1]], a[2], metric, Rules)
    OBVIOUS
  <1>3. Numbers(f, M \X A)
    <2> SUFFICES ASSUME NEW p \in M \X A PROVE Priced(matches[p[2][1]], p[2][2], p[1], Rules) \in Int
      BY DEF Numbers
    <2>1. p[1] \in M /\ Appears(p[2])
      BY AppsFinite
    <2> QED
      BY <2>1, PricedIsNumber
  <1>4. RowSums(row, f, M, A)
    <2> SUFFICES ASSUME NEW metric \in M
                 PROVE  row[metric] = SumFunctionOnSet([a \in A |-> f[<<metric, a>>]], A)
      BY DEF RowSums
    <2>1. row[metric] = SumFunction(PricesOf(h, metric))
      BY DEF HeroStats, Tallies, PricesOf, AppsOf
    <2>2. [a \in A |-> f[<<metric, a>>]] = PricesOf(h, metric)
      BY <1>2 DEF PricesOf
    <2>3. DOMAIN PricesOf(h, metric) = A
      BY DEF PricesOf
    <2> HIDE DEF f, row, A
    <2> QED
      BY <2>1, <2>2, <2>3 DEF SumFunction
  <1>5. ASSUME NEW a \in A
        PROVE  col[a] = SumFunctionOnSet([metric \in M |-> f[<<metric, a>>]], M)
    <2> DEFINE s == [metric \in M |-> Priced(matches[a[1]], a[2], metric, Rules)]
    <2>1. col[a] = SumFunction(s)
      BY DEF ScoreApps, Score
    <2>2. [metric \in M |-> f[<<metric, a>>]] = s
      BY <1>2
    <2>3. DOMAIN s = M
      OBVIOUS
    <2> HIDE DEF f, s, M, col
    <2> QED
      BY <2>1, <2>2, <2>3 DEF SumFunction
  <1>6. DOMAIN row = M
    BY TallyType
  <1> HIDE DEF f, row, col, M, A
  <1>9. ColumnSums(col, f, M, A)
    BY <1>5 DEF ColumnSums
  <1>7. SumFunctionOnSet(row, M) = SumFunctionOnSet(col, A)
    BY <1>1, <1>3, <1>4, <1>9, SumsCommute
  <1>8. SumFunction(row) = SumFunctionOnSet(row, M)
    BY <1>6 DEF SumFunction
  <1> QED
    BY <1>7, <1>8 DEF row, col, A

\* And match by match on the ticker.
LEMMA TotalByMatch ==
  ASSUME Stored, NEW h
  PROVE  SumFunctionOnSet(ScoreApps(h), AppsOf(h))
           = SumFunction([j \in DOMAIN matches |-> OnTicker(TickerEntry(matches[j], Rules), matches[j], h)])
  <1> DEFINE D == DOMAIN matches
             A == AppsOf(h)
             col == ScoreApps(h)
             part == [j \in D |-> {<<j, c>> : c \in ContextsOf(matches[j], h)}]
             g == [j \in D |-> OnTicker(TickerEntry(matches[j], Rules), matches[j], h)]
  <1>1. IsFiniteSet(D)
    BY ListPositions DEF Stored
  <1>2. UNION {part[j] : j \in D} = A
    <2>1. ASSUME NEW j \in D, NEW c \in ContextsOf(matches[j], h) PROVE <<j, c>> \in A
      BY DEF ContextsOf, AppsOf, Appearances
    <2>2. ASSUME NEW a \in A
          PROVE  a[1] \in D /\ a[2] \in ContextsOf(matches[a[1]], h) /\ a = <<a[1], a[2]>>
      BY AppsFinite DEF Appears, ContextsOf
    <2>3. \A j \in D : part[j] = {<<j, c>> : c \in ContextsOf(matches[j], h)}
      OBVIOUS
    <2> HIDE DEF part, A, D
    <2>4. \A x \in UNION {part[j] : j \in D} : x \in A
      BY <2>1, <2>3
    <2>5. \A a \in A : a \in part[a[1]] /\ a[1] \in D
      BY <2>2, <2>3
    <2>6. \A a \in A : a \in UNION {part[j] : j \in D}
      BY <2>5
    <2> QED
      BY <2>4, <2>6
  <1>3. Numbers(col, A)
    BY ScoreAppsType
  <1>4. Apart(part, D)
    BY DEF Apart
  <1>5. ASSUME NEW j \in D PROVE IsFiniteSet(part[j]) /\ Numbers(col, part[j]) /\ g[j] = SumFunctionOnSet(col, part[j])
    <2> DEFINE m == matches[j]
               C == ContextsOf(m, h)
               sc == ScoresOf(m, h)
               name == [c \in C |-> <<j, c>>]
               P == {<<j, c>> : c \in C}
    <2>1. Recordable(m)
      BY DEF Stored
    <2>2. IsFiniteSet(C) /\ DOMAIN sc = C
      BY <2>1, ContextsFinite
    <2>3. g[j] = SumFunctionOnSet(sc, C)
      BY <2>1, TickerAddsUp
    <2>4. part[j] = P
      OBVIOUS
    <2>5. \A c \in C : <<j, c>> \in A /\ col[<<j, c>>] = sc[c]
      <3> SUFFICES ASSUME NEW c \in C PROVE <<j, c>> \in A /\ col[<<j, c>>] = sc[c]
        OBVIOUS
      <3>1. <<j, c>> \in A
        BY DEF ContextsOf, AppsOf, Appearances
      <3> QED
        BY <3>1 DEF ScoreApps, ScoresOf
    <2>6. DOMAIN name = C /\ P = {name[c] : c \in C} /\ \A c \in C : name[c] = <<j, c>>
      OBVIOUS
    <2>7. Renames(name, C, P)
      BY DEF Renames
    <2> HIDE DEF name, C, P, A, col, sc, g, part
    <2>8. IsFiniteSet(P)
      BY <2>2, <2>6, FiniteImage
    <2>9. Numbers(col, P)
      <3>1. \A x \in P : x \in A
        BY <2>5 DEF P
      <3> QED
        BY <1>3, <3>1 DEF Numbers
    <2>10. Through(sc, col, name, C)
      BY <2>5, <2>6 DEF Through
    <2>11. SumFunctionOnSet(sc, C) = SumFunctionOnSet(col, P)
      BY <2>2, <2>7, <2>9, <2>10, SumRenamed
    <2> QED
      BY <2>3, <2>4, <2>8, <2>9, <2>11
  <1>6. DOMAIN g = D
    OBVIOUS
  <1> HIDE DEF D, A, col, part, g
  <1>7. FiniteParts(part, D) /\ NumbersIn(col, part, D) /\ PartSums(g, col, part, D)
    BY <1>5 DEF FiniteParts, NumbersIn, PartSums
  <1>8. SumFunctionOnSet(col, A) = SumFunctionOnSet(g, D)
    BY <1>1, <1>2, <1>4, <1>7, SumOverParts
  <1>9. SumFunction(g) = SumFunctionOnSet(g, D)
    BY <1>6 DEF SumFunction
  <1> QED
    BY <1>8, <1>9 DEF col, A, g, D

\* A hero is worth the same on the leaderboard, in the hero tables and on the ticker, column
\* by column and in total, whatever is recorded, corrected or deleted and whatever the rule
\* set (standings.rs build_standings and build_ticker, hero_stats.rs).
THEOREM OnePrice == Spec => []OnePriceEverywhere
  <1>1. Stored => OnePriceEverywhere
    <2> SUFFICES ASSUME Stored PROVE OnePriceEverywhere
      OBVIOUS
    <2> DEFINE tallies == HeroStats
               board == Board(matches, Rules, {OnlyHero(x) : x \in DOMAIN pool}, None)
               tickers == [j \in DOMAIN matches |-> TickerEntry(matches[j], Rules)]
    <2>1. ASSUME NEW h \in DOMAIN pool
          PROVE  /\ RowOf(board, h).points = SumFunction(tallies[h])
                 /\ RowOf(board, h).breakdown = tallies[h]
      BY OnlyFound
    <2>2. DOMAIN tallies = DOMAIN pool
      BY TallyDomain
    <2>3. ASSUME NEW h \in DOMAIN pool
          PROVE  /\ Numbers(tallies[h], ScoredMetrics(Rules)) /\ SumFunction(tallies[h]) \in Int
      <3>1. DOMAIN HeroStats[h] = ScoredMetrics(Rules) /\ Numbers(HeroStats[h], ScoredMetrics(Rules))
        BY TallyType
      <3> DEFINE s == HeroStats[h]
      <3> HIDE DEF s
      <3>2. SumFunction(s) \in Int
        BY <3>1, FiniteMetrics, TotalType DEF s
      <3> QED
        BY <3>1, <3>2 DEF s
    <2>4. ASSUME NEW h \in DOMAIN pool
          PROVE  SumFunction(tallies[h]) =
                   SumFunction([j \in DOMAIN matches |-> OnTicker(tickers[j], matches[j], h)])
      <3>1. SumFunction(HeroStats[h]) =
              SumFunction([j \in DOMAIN matches |-> OnTicker(TickerEntry(matches[j], Rules), matches[j], h)])
        BY TotalByAppearance, TotalByMatch
      <3>2. [j \in DOMAIN matches |-> OnTicker(tickers[j], matches[j], h)]
              = [j \in DOMAIN matches |-> OnTicker(TickerEntry(matches[j], Rules), matches[j], h)]
        OBVIOUS
      <3> HIDE DEF tickers
      <3> QED
        BY <3>1, <3>2
    <2> HIDE DEF tallies
    <2>5. ASSUME NEW h \in DOMAIN pool
          PROVE  RowOf(Overall(tallies), h).points = SumFunction(tallies[h])
      <3> DEFINE net == [x \in DOMAIN pool |-> SumFunction(tallies[x])]
      <3>1. \A x \in DOMAIN pool : net[x] \in Int
        BY <2>3
      <3>2. {HeroRow(x, SumFunction(tallies[x])) : x \in DOMAIN tallies} = HeroRows(net)
        BY <2>2 DEF HeroRows
      <3>3. Overall(tallies) = CompetitionRank(HeroRows(net))
        BY <3>2 DEF Overall
      <3>4. net[h] = SumFunction(tallies[h])
        OBVIOUS
      <3> HIDE DEF net
      <3>5. RowOf(CompetitionRank(HeroRows(net)), h).points = net[h]
        BY <3>1, HeroFound
      <3> QED
        BY <3>3, <3>4, <3>5
    <2>6. ASSUME NEW h \in DOMAIN pool, NEW metric \in ScoredMetrics(Rules)
          PROVE  RowOf(Categories(tallies, Rules)[metric], h).points = tallies[h][metric]
      <3> DEFINE col == [x \in DOMAIN pool |-> tallies[x][metric]]
      <3>1. \A x \in DOMAIN pool : col[x] \in Int
        BY <2>3 DEF Numbers
      <3>2. {HeroRow(x, tallies[x][metric]) : x \in DOMAIN tallies} = HeroRows(col)
        BY <2>2 DEF HeroRows
      <3>3. Categories(tallies, Rules)[metric] = CompetitionRank(HeroRows(col))
        BY <3>2 DEF Categories
      <3>4. col[h] = tallies[h][metric]
        OBVIOUS
      <3> HIDE DEF col
      <3>5. RowOf(CompetitionRank(HeroRows(col)), h).points = col[h]
        BY <3>1, HeroFound
      <3> QED
        BY <3>3, <3>4, <3>5
    <2>7. DOMAIN Categories(tallies, Rules) = ScoredMetrics(Rules)
      BY DEF Categories
    <2>8. board = Board(matches, Rules, {[handle |-> h, heroes |-> <<h>>, swaps |-> <<>>, roles |-> {}] : h \in DOMAIN pool}, None)
      BY DEF OnlyHero
    <2>9. tallies = HeroStats
      BY DEF tallies
    <2> DEFINE overall == Overall(tallies)
               columns == Categories(tallies, Rules)
    <2>10. OnePriceEverywhere
             <=> \A h \in DOMAIN pool :
                   /\ RowOf(board, h).points = RowOf(overall, h).points
                   /\ RowOf(board, h).points =
                        SumFunction([j \in DOMAIN matches |-> OnTicker(tickers[j], matches[j], h)])
                   /\ \A metric \in DOMAIN columns :
                        RowOf(columns[metric], h).points = RowOf(board, h).breakdown[metric]
      BY <2>8, <2>9 DEF OnePriceEverywhere
    <2>11. ASSUME NEW h \in DOMAIN pool
          PROVE  /\ RowOf(board, h).points = RowOf(overall, h).points
                 /\ RowOf(board, h).points =
                      SumFunction([j \in DOMAIN matches |-> OnTicker(tickers[j], matches[j], h)])
                 /\ \A metric \in DOMAIN columns :
                      RowOf(columns[metric], h).points = RowOf(board, h).breakdown[metric]
      <3> HIDE DEF board, tickers
      <3> QED
        BY <2>1, <2>4, <2>5, <2>6, <2>7
    <2> HIDE DEF board, tickers, overall, columns
    <2> QED
      BY <2>10, <2>11
  <1> QED
    BY <1>1, StoredIsReadable, PTL

-----------------------------------------------------------------------------
(* The holdings against the rosters of a log.                              *)

\* A list without repetition of the elements of C.
Roster(ids, C) ==
  /\ ToSet(ids) = C
  /\ \A i, j \in DOMAIN ids : ids[i] = ids[j] => i = j

\* Undoing a swap that a roster went through gives the roster before it.
LEMMA UndoLeads ==
  ASSUME NEW H, NEW ids \in Seq(H), NEW B, NEW C, Roster(ids, C), NEW s,
         s.out \in B, s.in \notin B, C = (B \ {s.out}) \cup {s.in}
  PROVE  Roster(Undo(s, ids), B)
  <1> DEFINE i == SelectInSeq(ids, LAMBDA h : h = s.in)
             new == Undo(s, ids)
  <1>1. DOMAIN ids = 1 .. Len(ids) /\ Len(ids) \in Nat
    OBVIOUS
  <1>2. \E k \in DOMAIN ids : ids[k] = s.in
    BY DEF Roster, ToSet
  <1>3. i \in DOMAIN ids /\ ids[i] = s.in
    <2> DEFINE at == {k \in 1 .. Len(ids) : ids[k] = s.in}
    <2>1. at # {} /\ at \in SUBSET (1 .. Len(ids))
      BY <1>1, <1>2
    <2>2. i = IF at # {} THEN Min(at) ELSE 0
      BY DEF SelectInSeq
    <2> HIDE DEF at, i
    <2>3. Min(at) \in at
      BY <1>1, <2>1, SmallestExists
    <2> QED
      BY <1>1, <2>1, <2>2, <2>3 DEF at
  <1>4. i # 0
    BY <1>1, <1>3
  <1>5. new = [ids EXCEPT ![i] = s.out]
    BY <1>4 DEF Undo
  <1> HIDE DEF i, new
  <1>6. DOMAIN new = DOMAIN ids /\ \A k \in DOMAIN ids : new[k] = IF k = i THEN s.out ELSE ids[k]
    BY <1>1, <1>3, <1>5
  <1>7. \A k \in DOMAIN ids : k # i => ids[k] \in C /\ ids[k] # s.in
    BY <1>3 DEF Roster, ToSet
  <1>8. s.out # s.in /\ s.out \notin C
    OBVIOUS
  <1>9. \A x, y \in DOMAIN new : new[x] = new[y] => x = y
    BY <1>3, <1>6, <1>7, <1>8 DEF Roster
  <1>10. ASSUME NEW x \in B PROVE \E k \in DOMAIN new : new[k] = x
    <2>1. CASE x = s.out
      BY <1>3, <1>6, <2>1
    <2>2. CASE x # s.out
      <3>1. x \in C /\ x # s.in
        BY <2>2
      <3>2. PICK k \in DOMAIN ids : ids[k] = x
        BY <3>1 DEF Roster, ToSet
      <3> QED
        BY <1>3, <1>6, <3>1, <3>2
    <2> QED
      BY <2>1, <2>2
  <1>11. \A k \in DOMAIN new : new[k] \in B
    BY <1>3, <1>6, <1>7
  <1>12. ToSet(new) = B
    BY <1>10, <1>11 DEF ToSet
  <1> QED
    BY <1>9, <1>12 DEF Roster, new

\* So every roster the log goes back to is the one that was held.
LEMMA RostersLead ==
  ASSUME NEW H, NEW n \in Nat, NEW log, Len(log) = n, NEW c, NEW heroes,
         Leads(c, log, ToSet(heroes)), Roster(heroes, ToSet(heroes)),
         NEW o \in [1 .. n + 1 -> Seq(H)], Falls(o, heroes, log, n)
  PROVE  \A k \in 1 .. n + 1 : Roster(o[k], c[k - 1])
  <1> DEFINE S == {k \in 1 .. n + 1 : Roster(o[k], c[k - 1])}
  <1>1. n + 1 \in S
    BY DEF Leads, Falls
  <1>2. ASSUME NEW k \in 1 .. n, k + 1 \in S PROVE k \in S
    <2>1. /\ log[k].out \in c[k - 1] /\ log[k].in \notin c[k - 1]
          /\ c[k] = (c[k - 1] \ {log[k].out}) \cup {log[k].in}
      BY DEF Leads
    <2>2. (k + 1) - 1 = k /\ k + 1 \in 1 .. n + 1 /\ k \in 1 .. n + 1
      OBVIOUS
    <2>3. Roster(o[k + 1], c[k]) /\ o[k + 1] \in Seq(H)
      BY <1>2, <2>2
    <2>4. o[k] = Undo(log[k], o[k + 1])
      BY DEF Falls
    <2> HIDE DEF S
    <2>5. Roster(Undo(log[k], o[k + 1]), c[k - 1])
      BY <2>1, <2>3, UndoLeads
    <2> QED
      BY <2>2, <2>4, <2>5 DEF S
  <1> HIDE DEF S
  <1>3. \A k \in 1 .. n + 1 : k \in S
    BY <1>1, <1>2, DownFrom
  <1> QED
    BY <1>3 DEF S

\* The heroes of C, each by one holding, are those that a list of holdings covers in
\* round r,
CoversIn(hs, r, C) ==
  /\ \A x : x \in C <=> \E i \in DOMAIN hs : hs[i].hero = x /\ Covers(hs[i], r)
  /\ \A i, j \in DOMAIN hs :
       Covers(hs[i], r) /\ Covers(hs[j], r) /\ hs[i].hero = hs[j].hero => i = j

\* or that it leaves open.
LeavesOpen(hs, C) ==
  /\ \A x : x \in C <=> \E i \in DOMAIN hs : hs[i].hero = x /\ hs[i].until = None
  /\ \A i, j \in DOMAIN hs :
       hs[i].until = None /\ hs[j].until = None /\ hs[i].hero = hs[j].hero => i = j

\* Holdings of whole rounds that end, if at all, by round q.
EndBy(hs, q) ==
  \A i \in DOMAIN hs : /\ hs[i].from \in Int /\ hs[i].from <= q
                       /\ hs[i].until = None \/ (hs[i].until \in Int /\ hs[i].until <= q)

\* The list after a swap: the i-th holding is closed, and one is opened.
Exchanged(new, hs, s, i) ==
  /\ i \in DOMAIN hs /\ hs[i].hero = s.out /\ hs[i].until = None
  /\ DOMAIN new = DOMAIN hs \cup {Len(hs) + 1}
  /\ Len(hs) + 1 \notin DOMAIN hs
  /\ new[Len(hs) + 1] = Holding(s.in, s.round, None)
  /\ new[i] = Holding(s.out, hs[i].from, s.round)
  /\ \A k \in DOMAIN hs : k # i => new[k] = hs[k]

\* A swap closes the open holding of who leaves.
LEMMA ReplayExchanges ==
  ASSUME NEW R, NEW hs \in Seq(R), NEW s, NEW C, LeavesOpen(hs, C), s.out \in C
  PROVE  \E i : Exchanged(Replay(hs, s), hs, s, i)
  <1> DEFINE i == SelectInSeq(hs, LAMBDA x : x.hero = s.out /\ x.until = None)
             at == {k \in 1 .. Len(hs) : hs[k].hero = s.out /\ hs[k].until = None}
             new == Replay(hs, s)
             closed == Close(hs, s)
             opened == Holding(s.in, s.round, None)
  <1>1. DOMAIN hs = 1 .. Len(hs) /\ Len(hs) \in Nat
    OBVIOUS
  <1>2. \E k \in DOMAIN hs : hs[k].hero = s.out /\ hs[k].until = None
    BY DEF LeavesOpen
  <1>3. i \in DOMAIN hs /\ hs[i].hero = s.out /\ hs[i].until = None
    <2>1. at # {} /\ at \in SUBSET (1 .. Len(hs))
      BY <1>1, <1>2
    <2>2. i = IF at # {} THEN Min(at) ELSE 0
      BY DEF SelectInSeq
    <2> HIDE DEF at, i
    <2>3. Min(at) \in at
      BY <1>1, <2>1, SmallestExists
    <2> QED
      BY <1>1, <2>1, <2>2, <2>3 DEF at
  <1>4. closed = [k \in DOMAIN hs |-> IF k = i THEN Holding(s.out, hs[k].from, s.round) ELSE hs[k]]
    BY DEF Close
  <1>5. new = Append(closed, opened)
    BY DEF Replay
  <1> HIDE DEF i, at, new, closed, opened
  <1>6. closed \in Seq(R \cup {Holding(s.out, hs[i].from, s.round)}) /\ Len(closed) = Len(hs)
    <2>1. closed \in [1 .. Len(hs) -> R \cup {Holding(s.out, hs[i].from, s.round)}]
      BY <1>1, <1>4
    <2> QED
      BY <1>1, <2>1, IsSequence
  <1>7. /\ DOMAIN new = 1 .. (Len(hs) + 1) /\ new[Len(hs) + 1] = opened
        /\ \A k \in DOMAIN hs : new[k] = closed[k]
    BY <1>1, <1>5, <1>6
  <1>8. DOMAIN new = DOMAIN hs \cup {Len(hs) + 1} /\ Len(hs) + 1 \notin DOMAIN hs
    BY <1>1, <1>7
  <1>9. new[i] = Holding(s.out, hs[i].from, s.round) /\ \A k \in DOMAIN hs : k # i => new[k] = hs[k]
    BY <1>3, <1>4, <1>7
  <1>10. Exchanged(new, hs, s, i)
    BY <1>3, <1>7, <1>8, <1>9 DEF Exchanged, opened
  <1> QED
    BY <1>10 DEF new

\* What is open then is the roster after the swap.
LEMMA ExchangeOpens ==
  ASSUME NEW new, NEW hs, NEW s, NEW i, Exchanged(new, hs, s, i), NEW C, LeavesOpen(hs, C),
         s.out \in C, s.in \notin C, s.round \in Int
  PROVE  LeavesOpen(new, (C \ {s.out}) \cup {s.in})
  <1> DEFINE last == Len(hs) + 1
             D == (C \ {s.out}) \cup {s.in}
  <1>1. None \notin Int
    BY SeasonAssumption
  <1>2. new[i].hero = s.out /\ new[i].until # None
    BY <1>1 DEF Exchanged, Holding
  <1>3. new[last].hero = s.in /\ new[last].until = None
    BY DEF Exchanged, Holding
  <1>4. /\ DOMAIN new = DOMAIN hs \cup {last} /\ last \notin DOMAIN hs
        /\ i \in DOMAIN hs /\ hs[i].hero = s.out /\ hs[i].until = None
        /\ \A k \in DOMAIN hs : k # i => new[k] = hs[k]
    BY DEF Exchanged
  <1> HIDE DEF last
  <1>5. \A k \in DOMAIN hs : hs[k].until = None => hs[k].hero \in C
    BY DEF LeavesOpen
  <1>6. \A k \in DOMAIN hs : hs[k].until = None /\ hs[k].hero = s.out => k = i
    BY <1>4 DEF LeavesOpen
  <1>7. ASSUME NEW x \in D PROVE \E k \in DOMAIN new : new[k].hero = x /\ new[k].until = None
    <2>1. CASE x = s.in
      BY <1>3, <1>4, <2>1
    <2>2. CASE x # s.in
      <3>1. x \in C /\ x # s.out
        BY <2>2
      <3>2. PICK k \in DOMAIN hs : hs[k].hero = x /\ hs[k].until = None
        BY <3>1 DEF LeavesOpen
      <3> QED
        BY <1>4, <3>1, <3>2
    <2> QED
      BY <2>1, <2>2
  <1>8. ASSUME NEW k \in DOMAIN new, new[k].until = None PROVE new[k].hero \in D
    BY <1>2, <1>3, <1>4, <1>5, <1>6, <1>8
  <1>9. ASSUME NEW k \in DOMAIN new, NEW l \in DOMAIN new, new[k].until = None, new[l].until = None,
               new[k].hero = new[l].hero
        PROVE  k = l
    <2>1. \A j \in DOMAIN hs : new[j].until = None => j # i /\ new[j] = hs[j] /\ hs[j].hero # s.in
      BY <1>2, <1>4, <1>5
    <2>2. CASE k = last \/ l = last
      BY <1>3, <1>4, <1>9, <2>1, <2>2
    <2>3. CASE k # last /\ l # last
      BY <1>4, <1>9, <2>1, <2>3 DEF LeavesOpen
    <2> QED
      BY <2>2, <2>3
  <1> QED
    BY <1>7, <1>8, <1>9 DEF LeavesOpen

\* In the rounds from the swap on it covers those too,
LEMMA ExchangeCoversLater ==
  ASSUME NEW new, NEW hs, NEW s, NEW i, Exchanged(new, hs, s, i), s.round \in Int, EndBy(hs, s.round),
         NEW r \in Int, s.round <= r, NEW C, CoversIn(hs, r, C), s.out \in C, s.in \notin C
  PROVE  CoversIn(new, r, (C \ {s.out}) \cup {s.in})
  <1> DEFINE last == Len(hs) + 1
             D == (C \ {s.out}) \cup {s.in}
  <1>1. None \notin Int
    BY SeasonAssumption
  <1>2. new[i].hero = s.out /\ ~Covers(new[i], r)
    BY <1>1 DEF Exchanged, Holding, Covers
  <1>3. new[last].hero = s.in /\ Covers(new[last], r)
    BY DEF Exchanged, Holding, Covers
  <1>4. /\ DOMAIN new = DOMAIN hs \cup {last} /\ last \notin DOMAIN hs
        /\ i \in DOMAIN hs /\ hs[i].hero = s.out
        /\ \A k \in DOMAIN hs : k # i => new[k] = hs[k]
    BY DEF Exchanged
  <1>10. Covers(hs[i], r)
    BY DEF Exchanged, EndBy, Covers
  <1> HIDE DEF last
  <1>5. \A k \in DOMAIN hs : Covers(hs[k], r) => hs[k].hero \in C
    BY DEF CoversIn
  <1>6. \A k \in DOMAIN hs : Covers(hs[k], r) /\ hs[k].hero = s.out => k = i
    BY <1>4, <1>10 DEF CoversIn
  <1>7. ASSUME NEW x \in D PROVE \E k \in DOMAIN new : new[k].hero = x /\ Covers(new[k], r)
    <2>1. CASE x = s.in
      BY <1>3, <1>4, <2>1
    <2>2. CASE x # s.in
      <3>1. x \in C /\ x # s.out
        BY <2>2
      <3>2. PICK k \in DOMAIN hs : hs[k].hero = x /\ Covers(hs[k], r)
        BY <3>1 DEF CoversIn
      <3> QED
        BY <1>4, <3>1, <3>2
    <2> QED
      BY <2>1, <2>2
  <1>8. ASSUME NEW k \in DOMAIN new, Covers(new[k], r) PROVE new[k].hero \in D
    BY <1>2, <1>3, <1>4, <1>5, <1>6, <1>8
  <1>9. ASSUME NEW k \in DOMAIN new, NEW l \in DOMAIN new, Covers(new[k], r), Covers(new[l], r),
               new[k].hero = new[l].hero
        PROVE  k = l
    <2>1. \A j \in DOMAIN hs : Covers(new[j], r) => j # i /\ new[j] = hs[j] /\ hs[j].hero # s.in
      BY <1>2, <1>4, <1>5
    <2>2. CASE k = last \/ l = last
      BY <1>3, <1>4, <1>9, <2>1, <2>2
    <2>3. CASE k # last /\ l # last
      BY <1>4, <1>9, <2>1, <2>3 DEF CoversIn
    <2> QED
      BY <2>2, <2>3
  <1> QED
    BY <1>7, <1>8, <1>9 DEF CoversIn

\* and in the rounds before it covers what it did.
LEMMA ExchangeCoversEarlier ==
  ASSUME NEW new, NEW hs, NEW s, NEW i, Exchanged(new, hs, s, i), s.round \in Int,
         NEW r \in Int, r < s.round, NEW C, CoversIn(hs, r, C)
  PROVE  CoversIn(new, r, C)
  <1> DEFINE last == Len(hs) + 1
  <1>1. None \notin Int
    BY SeasonAssumption
  <1>2. new[i].hero = hs[i].hero /\ (Covers(new[i], r) <=> Covers(hs[i], r))
    BY <1>1 DEF Exchanged, Holding, Covers
  <1>3. ~Covers(new[last], r)
    BY DEF Exchanged, Holding, Covers
  <1>4. /\ DOMAIN new = DOMAIN hs \cup {last}
        /\ \A k \in DOMAIN hs : k # i => new[k] = hs[k]
    BY DEF Exchanged
  <1> HIDE DEF last
  <1>5. \A k \in DOMAIN hs : new[k].hero = hs[k].hero /\ (Covers(new[k], r) <=> Covers(hs[k], r))
    BY <1>2, <1>4
  <1>6. \A k \in DOMAIN new : Covers(new[k], r) => k \in DOMAIN hs
    BY <1>3, <1>4
  <1>7. \A x : (\E k \in DOMAIN new : new[k].hero = x /\ Covers(new[k], r))
                 <=> (\E k \in DOMAIN hs : hs[k].hero = x /\ Covers(hs[k], r))
    BY <1>4, <1>5, <1>6
  <1>8. \A k, l \in DOMAIN new : Covers(new[k], r) /\ Covers(new[l], r) /\ new[k].hero = new[l].hero => k = l
    BY <1>5, <1>6 DEF CoversIn
  <1> QED
    BY <1>7, <1>8 DEF CoversIn

\* It ends by every round from the swap on.
LEMMA ExchangeEnds ==
  ASSUME NEW new, NEW hs, NEW s, NEW i, Exchanged(new, hs, s, i), s.round \in Int, EndBy(hs, s.round),
         NEW q \in Int, s.round <= q
  PROVE  EndBy(new, q)
  <1> DEFINE last == Len(hs) + 1
  <1>1. new[i].from = hs[i].from /\ new[i].until = s.round
    BY DEF Exchanged, Holding
  <1>2. new[last].from = s.round /\ new[last].until = None
    BY DEF Exchanged, Holding
  <1>3. /\ DOMAIN new = DOMAIN hs \cup {last} /\ i \in DOMAIN hs
        /\ \A k \in DOMAIN hs : k # i => new[k] = hs[k]
    BY DEF Exchanged
  <1> HIDE DEF last
  <1>4. \A k \in DOMAIN hs : /\ hs[k].from \in Int /\ hs[k].from <= s.round
                             /\ hs[k].until = None \/ (hs[k].until \in Int /\ hs[k].until <= s.round)
    BY DEF EndBy
  <1>5. ASSUME NEW k \in DOMAIN new
        PROVE  /\ new[k].from \in Int /\ new[k].from <= q
               /\ new[k].until = None \/ (new[k].until \in Int /\ new[k].until <= q)
    <2>1. CASE k = last
      BY <1>2, <2>1
    <2>2. CASE k = i
      BY <1>1, <1>3, <1>4, <2>2
    <2>3. CASE k # last /\ k # i
      <3>1. k \in DOMAIN hs /\ new[k] = hs[k]
        BY <1>3, <2>3
      <3>2. /\ hs[k].from \in Int /\ hs[k].from <= s.round
            /\ hs[k].until = None \/ (hs[k].until \in Int /\ hs[k].until <= s.round)
        BY <1>4, <3>1
      <3> QED
        BY <3>1, <3>2
    <2> QED
      BY <2>1, <2>2, <2>3
  <1> QED
    BY <1>5 DEF EndBy

\* The first k swaps up to the j-th, and no others of them, are of rounds up to r.
InRoundsOf(log, k, j, r) == \A i \in 1 .. k : log[i].round <= r <=> i <= j

\* What the holdings say after the k-th of n swaps.
Tells(hs, log, n, c, k) ==
  /\ LeavesOpen(hs, c[k])
  /\ \A l \in (k + 1) .. n : EndBy(hs, log[l].round)
  /\ \A r \in Nat \ {0}, j \in 0 .. k : InRoundsOf(log, k, j, r) => CoversIn(hs, r, c[j])

\* Every round of a log is told by the holdings in the end.
HoldingsTold(e, c) ==
  \A r \in Nat \ {0}, j \in 0 .. Len(e.swaps) :
    InRounds(e.swaps, j, r) => CoversIn(Holdings(e), r, c[j])

\* The holdings before the first swap cover the opening roster.
LEMMA OpeningTells ==
  ASSUME NEW e, NEW H, NEW n \in Nat, NEW log, \A l \in 1 .. n : log[l].round \in Nat \ {0},
         OpeningRoster(e) \in Seq(H), NEW c, Roster(OpeningRoster(e), c[0])
  PROVE  Tells(Opened(e), log, n, c, 0)
  <1> DEFINE o == OpeningRoster(e)
             hs == Opened(e)
  <1>1. hs = [i \in DOMAIN o |-> Holding(o[i], 1, None)]
    BY DEF Opened
  <1> HIDE DEF hs, o
  <1>2. DOMAIN hs = DOMAIN o
    BY <1>1
  <1>3. \A i \in DOMAIN o : hs[i].hero = o[i] /\ hs[i].from = 1 /\ hs[i].until = None
    BY <1>1 DEF Holding
  <1>4. \A x : x \in c[0] <=> \E i \in DOMAIN o : o[i] = x
    BY DEF Roster, ToSet, o
  <1>5. \A i, j \in DOMAIN o : o[i] = o[j] => i = j
    BY DEF Roster, o
  <1>6. LeavesOpen(hs, c[0])
    BY <1>2, <1>3, <1>4, <1>5 DEF LeavesOpen
  <1>7. ASSUME NEW l \in 1 .. n PROVE EndBy(hs, log[l].round)
    <2>1. log[l].round \in Nat \ {0}
      OBVIOUS
    <2>2. 1 <= log[l].round
      BY <2>1
    <2> QED
      BY <1>2, <1>3, <2>2 DEF EndBy
  <1>8. ASSUME NEW r \in Nat \ {0} PROVE CoversIn(hs, r, c[0])
    <2>1. \A i \in DOMAIN hs : Covers(hs[i], r)
      BY <1>2, <1>3 DEF Covers
    <2> QED
      BY <1>2, <1>3, <1>4, <1>5, <2>1 DEF CoversIn
  <1>9. \A j \in 0 .. 0 : j = 0
    OBVIOUS
  <1>10. 0 + 1 = 1
    OBVIOUS
  <1>11. \A l \in (0 + 1) .. n : EndBy(hs, log[l].round)
    BY <1>7, <1>10
  <1>12. \A r \in Nat \ {0}, j \in 0 .. 0 : InRoundsOf(log, 0, j, r) => CoversIn(hs, r, c[j])
    BY <1>8, <1>9
  <1> QED
    BY <1>6, <1>11, <1>12 DEF Tells, hs

\* And each swap replayed tells the rounds from its own on.
LEMMA SwapTells ==
  ASSUME NEW n \in Nat, NEW log, \A l \in 1 .. n : log[l].round \in Nat \ {0},
         \A i, j \in 1 .. n : i < j => log[i].round <= log[j].round,
         NEW c, NEW k \in 1 .. n,
         log[k].out \in c[k - 1], log[k].in \notin c[k - 1],
         c[k] = (c[k - 1] \ {log[k].out}) \cup {log[k].in},
         NEW R, NEW hs \in Seq(R), Tells(hs, log, n, c, k - 1)
  PROVE  Tells(Replay(hs, log[k]), log, n, c, k)
  <1> DEFINE s == log[k]
             C == c[k - 1]
             new == Replay(hs, s)
  <1>1. LeavesOpen(hs, C)
    BY DEF Tells
  <1>2. s.out \in C /\ s.in \notin C /\ s.round \in Int
    OBVIOUS
  <1>3. PICK i : Exchanged(new, hs, s, i)
    <2> HIDE DEF s, C
    <2> QED
      BY <1>1, <1>2, ReplayExchanges
  <1>4. EndBy(hs, s.round)
    <2>1. k \in (k - 1) + 1 .. n
      OBVIOUS
    <2> QED
      BY <2>1 DEF Tells
  <1>5. c[k] = (C \ {s.out}) \cup {s.in}
    OBVIOUS
  <1>6. \A r \in Nat \ {0}, j \in 0 .. (k - 1) : InRoundsOf(log, k - 1, j, r) => CoversIn(hs, r, c[j])
    BY DEF Tells
  <1>7. k - 1 \in 0 .. (k - 1) /\ k - 1 \in Nat
    OBVIOUS
  <1> HIDE DEF new
  <1>8. LeavesOpen(new, c[k])
    <2> HIDE DEF s, C
    <2> QED
      BY <1>1, <1>2, <1>3, <1>5, ExchangeOpens
  <1>9. ASSUME NEW l \in (k + 1) .. n PROVE EndBy(new, log[l].round)
    <2>1. log[l].round \in Int /\ s.round <= log[l].round
      OBVIOUS
    <2> DEFINE q == log[l].round
    <2> HIDE DEF s, C, q
    <2> QED
      BY <1>2, <1>3, <1>4, <2>1, ExchangeEnds DEF q
  <1>10. ASSUME NEW r \in Nat \ {0}, NEW j \in 0 .. k, InRoundsOf(log, k, j, r)
         PROVE  CoversIn(new, r, c[j])
    <2>0. r \in Int
      OBVIOUS
    <2>1. CASE j = k
      <3>1. s.round <= r
        BY <1>10, <2>1 DEF InRoundsOf
      <3>2. InRoundsOf(log, k - 1, k - 1, r)
        BY <1>10, <2>1 DEF InRoundsOf
      <3>3. CoversIn(hs, r, C)
        BY <1>6, <1>7, <3>2
      <3> HIDE DEF s, C
      <3>4. CoversIn(new, r, c[k])
        BY <1>2, <1>3, <1>4, <1>5, <2>0, <3>1, <3>3, ExchangeCoversLater
      <3> QED
        BY <2>1, <3>4
    <2>2. CASE j # k
      <3>1. j \in 0 .. (k - 1)
        BY <2>2
      <3>2. ~(s.round <= r)
        BY <1>10, <3>1 DEF InRoundsOf
      <3>3. r < s.round
        BY <1>2, <3>2
      <3>4. InRoundsOf(log, k - 1, j, r)
        BY <1>10 DEF InRoundsOf
      <3>5. CoversIn(hs, r, c[j])
        BY <1>6, <3>1, <3>4
      <3> DEFINE D == c[j]
      <3> HIDE DEF s, C, D
      <3> QED
        BY <1>2, <1>3, <2>0, <3>3, <3>5, ExchangeCoversEarlier DEF D
    <2> QED
      BY <2>1, <2>2
  <1> QED
    BY <1>8, <1>9, <1>10 DEF Tells, new, s

\* The holdings of a log cover in every round the heroes held in it, each once.
LEMMA HoldingsTell ==
  ASSUME NEW e, IsList(e.heroes), Roster(e.heroes, ToSet(e.heroes)),
         IsList(e.swaps), NEW q \in Nat, InOrder(e.swaps, q), NEW c, Leads(c, e.swaps, ToSet(e.heroes))
  PROVE  HoldingsTold(e, c)
  <1> DEFINE n == Len(e.swaps)
             log == e.swaps
  <1>1. n \in Nat /\ DOMAIN log = 1 .. n
    BY ListPositions
  <1>2. \A l \in 1 .. n : log[l].round \in Nat \ {0}
    BY <1>1 DEF InOrder
  <1>3. \A i, j \in 1 .. n : i < j => log[i].round <= log[j].round
    BY <1>1 DEF InOrder
  <1>4. \A k \in 1 .. n : /\ log[k].out \in c[k - 1] /\ log[k].in \notin c[k - 1]
                          /\ c[k] = (c[k - 1] \ {log[k].out}) \cup {log[k].in}
    BY DEF Leads
  <1> HIDE DEF n
  <1>5. PICK S, R : \E o \in [1 .. n + 1 -> Seq(S)], h \in [0 .. n -> Seq(R)] : Unfolds(e, n, o, h)
    BY <1>1, HoldingsUnfold
  <1>6. PICK o \in [1 .. n + 1 -> Seq(S)], h \in [0 .. n -> Seq(R)] : Unfolds(e, n, o, h)
    BY <1>5
  <1>7. Roster(o[1], c[0])
    <2>1. Falls(o, e.heroes, log, n) /\ Len(log) = n
      BY <1>6 DEF Unfolds, n
    <2>2. \A k \in 1 .. n + 1 : Roster(o[k], c[k - 1])
      BY <1>1, <2>1, RostersLead
    <2>3. 1 \in 1 .. n + 1 /\ 1 - 1 = 0
      BY <1>1
    <2> QED
      BY <2>2, <2>3
  <1>8. OpeningRoster(e) = o[1] /\ o[1] \in Seq(S)
    BY <1>1, <1>6 DEF Unfolds
  <1> DEFINE Told == {k \in 0 .. n : Tells(h[k], log, n, c, k)}
  <1> HIDE DEF log
  <1>9. 0 \in Told
    <2>1. Tells(Opened(e), log, n, c, 0)
      BY <1>1, <1>2, <1>7, <1>8, OpeningTells
    <2>2. h[0] = Opened(e)
      BY <1>6 DEF Unfolds, Rises
    <2> QED
      BY <1>1, <2>1, <2>2
  <1>10. ASSUME NEW k \in 1 .. n, k - 1 \in Told PROVE k \in Told
    <2>1. h[k] = Replay(h[k - 1], log[k])
      BY <1>6 DEF Unfolds, Rises, log
    <2>2. h[k - 1] \in Seq(R) /\ k \in 0 .. n
      BY <1>1
    <2>3. Tells(h[k - 1], log, n, c, k - 1)
      BY <1>10
    <2>4. /\ log[k].out \in c[k - 1] /\ log[k].in \notin c[k - 1]
          /\ c[k] = (c[k - 1] \ {log[k].out}) \cup {log[k].in}
      BY <1>4
    <2> DEFINE hs == h[k - 1]
    <2> HIDE DEF hs, Told
    <2>5. Tells(Replay(hs, log[k]), log, n, c, k)
      BY <1>1, <1>2, <1>3, <2>2, <2>3, <2>4, SwapTells DEF hs
    <2> QED
      BY <2>1, <2>2, <2>5 DEF hs, Told
  <1> HIDE DEF Told
  <1>11. \A k \in 0 .. n : k \in Told
    BY <1>1, <1>9, <1>10, UpTo
  <1>12. Tells(h[n], log, n, c, n)
    <2>1. n \in 0 .. n
      BY <1>1
    <2> QED
      BY <1>11, <2>1 DEF Told
  <1>13. Holdings(e) = h[n]
    BY <1>6 DEF Unfolds
  <1>14. ASSUME NEW r \in Nat \ {0}, NEW j \in 0 .. n, InRounds(e.swaps, j, r)
         PROVE  CoversIn(Holdings(e), r, c[j])
    <2>1. InRoundsOf(log, n, j, r)
      BY <1>14 DEF InRounds, InRoundsOf, log, n
    <2> QED
      BY <1>12, <1>13, <2>1 DEF Tells
  <1> QED
    BY <1>14 DEF HoldingsTold, n

-----------------------------------------------------------------------------
(* A log in order, and a roster exchanged for another.                     *)

\* The log of an entry in the order of its rounds is read as it was written.
LEMMA SwapLogInOrder ==
  ASSUME NEW m \in Managers, Stored, NEW q \in Nat, InOrder(swaps[m], q)
  PROVE  SwapLog(m) = swaps[m]
  <1> DEFINE log == swaps[m]
             n == Len(log)
             D == DOMAIN log
             Earlier(i, j) == \/ log[i].round < log[j].round
                              \/ log[i].round = log[j].round /\ i < j
             order == Sorted(D, Earlier)
  <1>1. n \in Nat /\ D = 1 .. n /\ log \in Seq(ToSet(log))
    BY ListPositions DEF Stored, IsList
  <1>2. \A i \in D : log[i].round \in 1 .. q
    BY DEF InOrder
  <1>3. \A i, j \in D : i < j => log[i].round <= log[j].round
    BY DEF InOrder
  <1> HIDE DEF log, n, D
  <1>4. \A i, j \in D : Earlier(i, j) <=> i < j
    <2> SUFFICES ASSUME NEW i \in D, NEW j \in D PROVE Earlier(i, j) <=> i < j
      OBVIOUS
    <2>1. i \in Int /\ j \in Int /\ log[i].round \in Int /\ log[j].round \in Int
      BY <1>1, <1>2
    <2>2. (i < j => log[i].round <= log[j].round) /\ (j < i => log[j].round <= log[i].round)
      BY <1>3
    <2> DEFINE x == log[i].round
               y == log[j].round
    <2> HIDE DEF x, y
    <2>3. (x < y \/ (x = y /\ i < j)) <=> i < j
      BY <2>1, <2>2 DEF x, y
    <2> QED
      BY <2>3 DEF x, y
  <1>5. order = [k \in 1 .. Cardinality(D) |-> CHOOSE x \in D : 1 + Cardinality({y \in D : Earlier(y, x)}) = k]
    BY DEF Sorted
  <1>6. SwapLog(m) = [k \in DOMAIN order |-> log[order[k]]]
    BY DEF SwapLog, log, D
  <1> HIDE DEF order, Earlier
  <1>7. ASSUME NEW x \in D PROVE 1 + Cardinality({y \in D : Earlier(y, x)}) = x
    <2>1. {y \in D : Earlier(y, x)} = {y \in D : y < x}
      BY <1>4
    <2>2. {y \in D : y < x} = 1 .. (x - 1)
      BY <1>1
    <2>3. x \in Int /\ x >= 1
      BY <1>1
    <2>4. Cardinality(1 .. (x - 1)) = x - 1
      BY <2>3, FS_Interval
    <2>5. Cardinality({y \in D : Earlier(y, x)}) = x - 1
      BY <2>1, <2>2, <2>4
    <2> QED
      BY <2>3, <2>5
  <1>8. Cardinality(D) = n
    <2>1. Cardinality(1 .. n) = n
      BY <1>1, FS_Interval
    <2> QED
      BY <1>1, <2>1
  <1>9. ASSUME NEW k \in 1 .. n PROVE order[k] = k
    <2>1. k \in D
      BY <1>1
    <2>2. \E x \in D : 1 + Cardinality({y \in D : Earlier(y, x)}) = k
      BY <1>7, <2>1
    <2>3. order[k] \in D /\ 1 + Cardinality({y \in D : Earlier(y, order[k])}) = k
      BY <1>5, <1>8, <2>2
    <2> QED
      BY <1>7, <2>3
  <1>10. DOMAIN order = 1 .. n
    BY <1>5, <1>8
  <1>11. SwapLog(m) = [k \in 1 .. n |-> log[k]]
    BY <1>6, <1>9, <1>10
  <1>12. log = [k \in 1 .. n |-> log[k]]
    <2>1. DOMAIN log = 1 .. n
      BY <1>1 DEF D
    <2>2. log = [k \in DOMAIN log |-> log[k]]
      BY <1>1
    <2> QED
      BY <2>1, <2>2
  <1> QED
    BY <1>11, <1>12 DEF log

\* A list without repetition is as long as the set of its elements.
LEMMA RosterSizes ==
  ASSUME NEW ids, IsList(ids), NEW C, Roster(ids, C)
  PROVE  IsFiniteSet(C) /\ Cardinality(C) = Len(ids)
  <1> DEFINE n == Len(ids)
  <1>1. n \in Nat /\ DOMAIN ids = 1 .. n /\ IsFiniteSet(DOMAIN ids)
    BY ListPositions
  <1>2. Cardinality(DOMAIN ids) = n
    <2> HIDE DEF n
    <2>1. Cardinality(1 .. n) = n
      BY <1>1, FS_Interval
    <2> QED
      BY <1>1, <2>1
  <1>3. Renames(ids, DOMAIN ids, C)
    BY DEF Renames, Roster, ToSet
  <1> DEFINE D == DOMAIN ids
  <1> HIDE DEF D
  <1>4. Cardinality(C) = Cardinality(D)
    BY <1>1, <1>3, SameSize DEF D
  <1>5. IsFiniteSet(ToSet(ids))
    BY <1>1, FiniteRows
  <1> QED
    BY <1>2, <1>4, <1>5 DEF D, Roster

\* What one list lacks of another, each once.
LEMMA LackingListed ==
  ASSUME NEW from, IsList(from), Roster(from, ToSet(from)), NEW to, IsList(to)
  PROVE  Roster(Lacking(from, to), ToSet(from) \ ToSet(to))
  <1> DEFINE S == {i \in DOMAIN from : ~Contains(to, from[i])}
             Less(i, j) == i < j
             rel == {p \in S \X S : p[1] < p[2]}
             place == [x \in S |-> 1 + Cardinality(Below(x, rel, S))]
             o == Sorted(S, Less)
             l == Lacking(from, to)
  <1>1. DOMAIN from = 1 .. Len(from) /\ Len(from) \in Nat /\ IsFiniteSet(DOMAIN from)
    BY ListPositions
  <1>2. IsFiniteSet(S) /\ S \subseteq Nat
    BY <1>1, FS_Subset
  <1>3. \A x : Contains(to, x) <=> x \in ToSet(to)
    BY ListPositions
  <1>4. l = [k \in DOMAIN o |-> from[o[k]]]
    BY DEF Lacking
  <1>5. o = [k \in 1 .. Cardinality(S) |-> CHOOSE x \in S : 1 + Cardinality({y \in S : Less(y, x)}) = k]
    BY DEF Sorted
  <1>6. \A i : i \in S <=> i \in DOMAIN from /\ from[i] \notin ToSet(to)
    BY <1>3
  <1> HIDE DEF S, o, l
  <1>7. StrictOrder(rel, S)
    BY <1>2 DEF StrictOrder
  <1>8. \A x \in S : {y \in S : Less(y, x)} = Below(x, rel, S)
    BY DEF Below
  <1>9. CountsBelow(place, rel, S)
    BY DEF CountsBelow
  <1>10. \A x \in S : place[x] = 1 + Cardinality({y \in S : Less(y, x)})
    BY <1>8
  <1> HIDE DEF place, rel
  <1>11. ByPlace(o, place, S)
    <2>1. DOMAIN o = 1 .. Cardinality(S)
      BY <1>5
    <2>2. ASSUME NEW k \in 1 .. Cardinality(S), NEW x \in S, place[x] = k
          PROVE  o[k] \in S /\ place[o[k]] = k
      <3>1. \E z \in S : 1 + Cardinality({y \in S : Less(y, z)}) = k
        BY <1>10, <2>2
      <3>2. o[k] \in S /\ 1 + Cardinality({y \in S : Less(y, o[k])}) = k
        BY <1>5, <3>1
      <3> QED
        BY <1>10, <3>2
    <2> QED
      BY <2>1, <2>2 DEF ByPlace
  <1>12. Lists(o, rel, S)
    BY <1>2, <1>7, <1>9, <1>11, PlacesList
  <1>13. /\ \A k \in DOMAIN o : o[k] \in S
         /\ \A x \in S : \E k \in DOMAIN o : o[k] = x
    BY <1>12 DEF Lists
  <1>14. ASSUME NEW i \in DOMAIN o, NEW j \in DOMAIN o, o[i] = o[j] PROVE i = j
    <2>1. Cardinality(S) \in Nat /\ DOMAIN o = 1 .. Cardinality(S)
      BY <1>2, <1>5, FS_CardinalityType
    <2> DEFINE c == Cardinality(S)
    <2> HIDE DEF c
    <2> QED
      BY <1>7, <1>12, <1>14, <2>1, ListedOnce DEF c
  <1>15. \A i, j \in DOMAIN l : l[i] = l[j] => i = j
    <2> SUFFICES ASSUME NEW i \in DOMAIN l, NEW j \in DOMAIN l, l[i] = l[j] PROVE i = j
      OBVIOUS
    <2>1. o[i] \in DOMAIN from /\ o[j] \in DOMAIN from /\ from[o[i]] = from[o[j]]
      BY <1>4, <1>6, <1>13
    <2>2. o[i] = o[j]
      BY <2>1 DEF Roster
    <2> QED
      BY <1>4, <1>14, <2>2
  <1>16. ASSUME NEW k \in DOMAIN l PROVE l[k] \in ToSet(from) \ ToSet(to)
    BY <1>4, <1>6, <1>13 DEF ToSet
  <1>17. ASSUME NEW x \in ToSet(from) \ ToSet(to) PROVE \E k \in DOMAIN l : l[k] = x
    <2>1. PICK i \in DOMAIN from : from[i] = x
      BY DEF ToSet
    <2>2. i \in S
      BY <1>6, <2>1
    <2> QED
      BY <1>4, <1>13, <2>1, <2>2
  <1>18. ToSet(l) = ToSet(from) \ ToSet(to)
    BY <1>16, <1>17 DEF ToSet
  <1> QED
    BY <1>15, <1>18 DEF Roster, l

\* A roster that locking or swapping admits has each of its heroes once.
LEMMA FullRosters ==
  ASSUME NEW ids, IsList(ids), FullRoster(ids)
  PROVE  /\ Roster(ids, ToSet(ids))
         /\ IsFiniteSet(ToSet(ids)) /\ Cardinality(ToSet(ids)) = RosterSize
  <1>1. \A i, j \in DOMAIN ids : ids[i] = ids[j] => i = j
    BY OnePlaceEach DEF FullRoster
  <1>2. Roster(ids, ToSet(ids))
    BY <1>1 DEF Roster
  <1>3. IsFiniteSet(ToSet(ids)) /\ Cardinality(ToSet(ids)) = Len(ids)
    BY <1>2, RosterSizes
  <1> QED
    BY <1>2, <1>3 DEF FullRoster

\* Two sets of one size lack equally many of each other's elements.
LEMMA LackEqually ==
  ASSUME NEW A, IsFiniteSet(A), NEW B, IsFiniteSet(B), Cardinality(A) = Cardinality(B)
  PROVE  Cardinality(A \ B) = Cardinality(B \ A)
  <1>1. Cardinality(A \ B) = Cardinality(A) - Cardinality(A \cap B)
    BY FS_Difference
  <1>2. Cardinality(B \ A) = Cardinality(B) - Cardinality(B \cap A)
    BY FS_Difference
  <1>3. A \cap B = B \cap A
    OBVIOUS
  <1> QED
    BY <1>1, <1>2, <1>3

\* The roster on the way from A to B once the first k have gone and come.
Halfway(A, out, in, k) == (A \ {out[l] : l \in 1 .. k}) \cup {in[l] : l \in 1 .. k}

\* It is A before the first of p and B after the last, and each is a swap.
EndsAtBoth(A, B, out, in, p) ==
  /\ Halfway(A, out, in, 0) = A /\ Halfway(A, out, in, p) = B
  /\ \A k \in 1 .. p : /\ out[k] \in Halfway(A, out, in, k - 1)
                       /\ in[k] \notin Halfway(A, out, in, k - 1)
                       /\ Halfway(A, out, in, k) = (Halfway(A, out, in, k - 1) \ {out[k]}) \cup {in[k]}

\* The rosters half way lead from the one to the other.
LEMMA HalfwayLeads ==
  ASSUME NEW A, NEW B, NEW p \in Nat, NEW out, NEW in,
         DOMAIN out = 1 .. p, DOMAIN in = 1 .. p, Roster(out, A \ B), Roster(in, B \ A)
  PROVE  EndsAtBoth(A, B, out, in, p)
  <1>1. \A k \in 1 .. p : out[k] \in A /\ out[k] \notin B /\ in[k] \in B /\ in[k] \notin A
    BY DEF Roster, ToSet
  <1>2. \A k, l \in 1 .. p : (out[k] = out[l] => k = l) /\ (in[k] = in[l] => k = l)
    BY DEF Roster
  <1>3. \A x \in A \ B : \E k \in 1 .. p : out[k] = x
    BY DEF Roster, ToSet
  <1>4. \A x \in B \ A : \E k \in 1 .. p : in[k] = x
    BY DEF Roster, ToSet
  <1>5. \A k, x : x \in Halfway(A, out, in, k)
                    <=> \/ x \in A /\ \A l \in 1 .. k : out[l] # x
                        \/ \E l \in 1 .. k : in[l] = x
    BY DEF Halfway
  <1>6. Halfway(A, out, in, 0) = A
    <2>1. \A l : l \notin 1 .. 0
      OBVIOUS
    <2> QED
      BY <1>5, <2>1
  <1>7. Halfway(A, out, in, p) = B
    <2>1. ASSUME NEW x \in Halfway(A, out, in, p) PROVE x \in B
      BY <1>1, <1>3, <1>5
    <2>2. ASSUME NEW x \in B PROVE x \in Halfway(A, out, in, p)
      <3>1. CASE x \in A
        BY <1>1, <1>5, <3>1
      <3>2. CASE x \notin A
        BY <1>4, <1>5, <3>2
      <3> QED
        BY <3>1, <3>2
    <2> QED
      BY <2>1, <2>2
  <1>8. ASSUME NEW k \in 1 .. p
        PROVE  /\ out[k] \in Halfway(A, out, in, k - 1)
               /\ in[k] \notin Halfway(A, out, in, k - 1)
               /\ Halfway(A, out, in, k) = (Halfway(A, out, in, k - 1) \ {out[k]}) \cup {in[k]}
    <2>1. \A l \in 1 .. (k - 1) : l \in 1 .. p /\ l # k
      OBVIOUS
    <2>2. \A l \in 1 .. k : l = k \/ l \in 1 .. (k - 1)
      OBVIOUS
    <2>3. k \in 1 .. k /\ \A l \in 1 .. (k - 1) : l \in 1 .. k
      OBVIOUS
    <2>4. out[k] \in Halfway(A, out, in, k - 1)
      <3>1. \A l \in 1 .. (k - 1) : out[l] # out[k]
        BY <1>2, <2>1
      <3> QED
        BY <1>1, <1>5, <3>1
    <2>5. in[k] \notin Halfway(A, out, in, k - 1)
      <3>1. \A l \in 1 .. (k - 1) : in[l] # in[k]
        BY <1>2, <2>1
      <3> QED
        BY <1>1, <1>5, <3>1
    <2>6. ASSUME NEW x
          PROVE  x \in Halfway(A, out, in, k)
                   <=> x \in (Halfway(A, out, in, k - 1) \ {out[k]}) \cup {in[k]}
      <3>1. x \in Halfway(A, out, in, k)
              <=> \/ x \in A /\ \A l \in 1 .. k : out[l] # x
                  \/ \E l \in 1 .. k : in[l] = x
        BY <1>5
      <3>2. x \in Halfway(A, out, in, k - 1)
              <=> \/ x \in A /\ \A l \in 1 .. (k - 1) : out[l] # x
                  \/ \E l \in 1 .. (k - 1) : in[l] = x
        BY <1>5
      <3>3. (\A l \in 1 .. k : out[l] # x) <=> (x # out[k] /\ \A l \in 1 .. (k - 1) : out[l] # x)
        BY <2>2, <2>3
      <3>4. (\E l \in 1 .. k : in[l] = x) <=> (x = in[k] \/ \E l \in 1 .. (k - 1) : in[l] = x)
        BY <2>2, <2>3
      <3>5. (\E l \in 1 .. (k - 1) : in[l] = x) => x # out[k]
        BY <1>1, <2>1
      <3> QED
        BY <3>1, <3>2, <3>3, <3>4, <3>5
    <2> QED
      BY <2>4, <2>5, <2>6
  <1> QED
    BY <1>6, <1>7, <1>8 DEF EndsAtBoth

\* The log of a swap leads from the one roster to the other.
LeadsFrom(d, log, A, B) ==
  /\ d \in [0 .. Len(log) -> SUBSET DOMAIN Prices]
  /\ d[0] = A /\ Leads(d, log, B)

\* So what a request exchanges leads from the roster it found to the one it wants.
LEMMA ExchangesLead ==
  ASSUME NEW r, NEW from, IsList(from), FullRoster(from), NEW to, IsList(to), FullRoster(to)
  PROVE  LET ex == Exchanges(r, from, to)
         IN  /\ \A i \in DOMAIN ex : ex[i].round = r
             /\ \E d : LeadsFrom(d, ex, ToSet(from), ToSet(to))
  <1> DEFINE A == ToSet(from)
             B == ToSet(to)
             out == Lacking(from, to)
             in == Lacking(to, from)
             ex == Exchanges(r, from, to)
             p == Len(out)
  <1>1. /\ Roster(from, A) /\ IsFiniteSet(A) /\ Cardinality(A) = RosterSize
        /\ Roster(to, B) /\ IsFiniteSet(B) /\ Cardinality(B) = RosterSize
    BY FullRosters
  <1>2. A \subseteq DOMAIN Prices /\ B \subseteq DOMAIN Prices
    BY DEF FullRoster
  <1>3. IsList(out) /\ IsList(in) /\ IsList(ex)
    BY LackingIsList, ExchangesAreListed
  <1>4. Roster(out, A \ B) /\ Roster(in, B \ A)
    BY <1>1, LackingListed
  <1>5. ex = [i \in DOMAIN out |-> [round |-> r, out |-> out[i], in |-> in[i]]]
    BY DEF Exchanges
  <1> HIDE DEF A, B, out, in, ex
  <1>6. Len(in) = p
    <2>1. Cardinality(A \ B) = Len(out) /\ Cardinality(B \ A) = Len(in)
      BY <1>3, <1>4, RosterSizes
    <2>2. Cardinality(A \ B) = Cardinality(B \ A)
      BY <1>1, LackEqually
    <2> QED
      BY <2>1, <2>2
  <1>7. p \in Nat /\ DOMAIN out = 1 .. p /\ DOMAIN in = 1 .. p
    BY <1>3, <1>6, ListPositions
  <1>8. Len(ex) = p /\ DOMAIN ex = 1 .. p
    <2>1. Len(ex) \in Nat /\ DOMAIN ex = 1 .. Len(ex)
      BY <1>3, ListPositions
    <2>2. DOMAIN ex = 1 .. p
      BY <1>5, <1>7
    <2> DEFINE q == Len(ex)
    <2> HIDE DEF p, q
    <2>3. q \in Nat /\ 1 .. q = 1 .. p
      BY <2>1, <2>2 DEF q
    <2>4. \A i \in Nat : i \in 1 .. q <=> i \in 1 .. p
      BY <2>3
    <2>5. q = p
      BY <1>7, <2>3, <2>4
    <2> QED
      BY <2>2, <2>5 DEF q
  <1> HIDE DEF p
  <1>9. /\ Halfway(A, out, in, 0) = A /\ Halfway(A, out, in, p) = B
        /\ \A k \in 1 .. p : /\ out[k] \in Halfway(A, out, in, k - 1)
                             /\ in[k] \notin Halfway(A, out, in, k - 1)
                             /\ Halfway(A, out, in, k)
                                  = (Halfway(A, out, in, k - 1) \ {out[k]}) \cup {in[k]}
    <2>1. EndsAtBoth(A, B, out, in, p)
      BY <1>4, <1>7, HalfwayLeads
    <2> QED
      BY <2>1 DEF EndsAtBoth
  <1> DEFINE d == [k \in 0 .. p |-> Halfway(A, out, in, k)]
  <1>10. \A k \in 0 .. p : d[k] = Halfway(A, out, in, k)
    OBVIOUS
  <1>11. \A k \in 0 .. p : Halfway(A, out, in, k) \subseteq DOMAIN Prices
    <2> SUFFICES ASSUME NEW k \in 0 .. p, NEW x \in Halfway(A, out, in, k) PROVE x \in DOMAIN Prices
      OBVIOUS
    <2>1. \A l \in 1 .. k : l \in 1 .. p
      BY <1>7
    <2>2. \A l \in 1 .. p : in[l] \in B
      BY <1>4, <1>7 DEF Roster, ToSet
    <2> QED
      BY <1>2, <2>1, <2>2 DEF Halfway
  <1>12. d \in [0 .. p -> SUBSET DOMAIN Prices]
    BY <1>11
  <1> HIDE DEF d
  <1>13. \A k \in 1 .. p : ex[k].out = out[k] /\ ex[k].in = in[k] /\ ex[k].round = r
    BY <1>5, <1>7
  <1>14. Leads(d, ex, B)
    <2>1. d[Len(ex)] = B
      BY <1>7, <1>8, <1>9, <1>10
    <2>2. ASSUME NEW k \in 1 .. p
          PROVE  /\ ex[k].out \in d[k - 1] /\ ex[k].in \notin d[k - 1]
                 /\ d[k] = (d[k - 1] \ {ex[k].out}) \cup {ex[k].in}
      <3>1. k \in 0 .. p /\ k - 1 \in 0 .. p
        BY <1>7
      <3>2. d[k] = Halfway(A, out, in, k) /\ d[k - 1] = Halfway(A, out, in, k - 1)
        BY <1>10, <3>1
      <3> QED
        BY <1>9, <1>13, <3>2
    <2> QED
      BY <1>8, <2>1, <2>2 DEF Leads
  <1>15. d[0] = A
    BY <1>7, <1>9, <1>10
  <1>16. LeadsFrom(d, ex, A, B)
    BY <1>8, <1>12, <1>14, <1>15 DEF LeadsFrom
  <1>17. \A i \in DOMAIN ex : ex[i].round = r
    BY <1>8, <1>13
  <1> QED
    BY <1>16, <1>17 DEF A, B, ex

-----------------------------------------------------------------------------
(* The log of roles, round by round.                                       *)

\* In a round no row is past, a hero has the role of its last row.
LEMMA InForce ==
  ASSUME NEW log, NEW r \in Nat, SoundLog(log, r), NEW x \in Nat, r <= x,
         NEW h \in DOMAIN CurrentRoles(log)
  PROVE  RoleAt(log, h, x) = CurrentRoles(log)[h]
  <1> DEFINE rows == {a \in log : a.hero = h /\ a.from <= x}
             last == CHOOSE a \in rows : \A b \in rows : b.from <= a.from
  <1>1. PICK a \in log : /\ a.hero = h /\ a.role = CurrentRoles(log)[h]
                         /\ \A c \in log : c.hero = h => c.from <= a.from
    BY CurrentIsLastRow
  <1>2. \A c \in log : c.from \in 1 .. r
    BY DEF SoundLog
  <1>3. \A c \in log : c.from \in Int /\ c.from <= x
    BY <1>2
  <1>4. \A c : c \in rows <=> c \in log /\ c.hero = h
    BY <1>3
  <1>5. a \in rows /\ \A c \in rows : c.from <= a.from
    BY <1>1, <1>4
  <1>6. RoleAt(log, h, x) = last.role
    BY <1>5 DEF RoleAt
  <1>7. last \in rows /\ \A c \in rows : c.from <= last.from
    BY <1>5
  <1> HIDE DEF last, rows
  <1>8. last.from = a.from
    BY <1>3, <1>4, <1>5, <1>7
  <1>9. last = a
    BY <1>1, <1>4, <1>7, <1>8 DEF SoundLog
  <1> QED
    BY <1>1, <1>6, <1>9

\* Rows of a later round say nothing of an earlier one.
LEMMA EarlierRoles ==
  ASSUME NEW log, NEW r \in Int, NEW x \in Int, x < r, NEW pairs, NEW h
  PROVE  RoleAt(UpsertEntryRoles(log, r, pairs), h, x) = RoleAt(log, h, x)
  <1> DEFINE new == UpsertEntryRoles(log, r, pairs)
  <1>1. \A a : a \in new
                 <=> \/ a \in log /\ \A p \in ToSet(pairs) : a.hero # p[1] \/ a.from # r
                     \/ \E p \in ToSet(pairs) : a = [hero |-> p[1], from |-> r, role |-> p[2]]
    BY UpsertRows
  <1> HIDE DEF new
  <1>2. ~(r <= x)
    OBVIOUS
  <1>3. ASSUME NEW a PROVE a \in new /\ a.from <= x <=> a \in log /\ a.from <= x
    <2>1. (\E p \in ToSet(pairs) : a = [hero |-> p[1], from |-> r, role |-> p[2]]) => a.from = r
      OBVIOUS
    <2> QED
      BY <1>1, <1>2, <2>1
  <1> DEFINE then == {a \in new : a.hero = h /\ a.from <= x}
             now == {a \in log : a.hero = h /\ a.from <= x}
             RoleOf(rows) == IF rows = {} THEN None ELSE (CHOOSE a \in rows : \A b \in rows : b.from <= a.from).role
  <1>4. then = now
    BY <1>3
  <1>5. RoleAt(new, h, x) = RoleAt(log, h, x)
    <2>1. RoleAt(new, h, x) = RoleOf(then) /\ RoleAt(log, h, x) = RoleOf(now)
      BY DEF RoleAt
    <2> HIDE DEF then, now
    <2> QED
      BY <1>4, <2>1
  <1> QED
    BY <1>5 DEF new

\* Each hero of a complete roster has in such a round a role, one of the book's.
LEMMA CompleteCast ==
  ASSUME NEW ids, IsList(ids), NEW log, NEW b, b # None, NEW r \in Nat, SoundLog(log, r),
         LockRoleViolations(ids, CurrentRolePairs(ids, log), b) = {}, NEW x \in Nat, r <= x
  PROVE  /\ ToSet(CurrentRolePairs(ids, log)) = CastOf(log, ToSet(ids), x)
         /\ \A h \in ToSet(ids) : RoleAt(log, h, x) \in DOMAIN b
  <1> DEFINE pairs == CurrentRolePairs(ids, log)
             current == CurrentRoles(log)
  <1>1. ~UnknownRole(pairs, b) /\ ~RoleHeroNotOnRoster(ids, pairs) /\ ~RoleUnassigned(pairs, ids)
    BY RulesKept DEF LockRoleViolations
  <1>2. /\ \A p \in ToSet(pairs) : p[1] \in ToSet(ids) /\ p[2] \in DOMAIN b
        /\ \A h \in ToSet(ids) : \E p \in ToSet(pairs) : p[1] = h
    BY <1>1, CleanRoles
  <1>3. \A p \in ToSet(pairs) : p[1] \in DOMAIN current /\ current[p[1]] = p[2]
    BY PairsInForce
  <1>4. \A p \in ToSet(pairs) : p = <<p[1], p[2]>>
    <2>1. pairs = [i \in {k \in DOMAIN ids : ids[k] \in DOMAIN current} |-> <<ids[i], current[ids[i]]>>]
      BY DEF CurrentRolePairs
    <2> HIDE DEF pairs, current
    <2>2. \A i \in DOMAIN pairs : pairs[i] = <<pairs[i][1], pairs[i][2]>>
      BY <2>1
    <2> QED
      BY <2>2 DEF ToSet
  <1>5. \A h \in DOMAIN current : RoleAt(log, h, x) = current[h]
    BY InForce
  <1> HIDE DEF pairs, current
  <1>6. \A p \in ToSet(pairs) : p = <<p[1], RoleAt(log, p[1], x)>>
    BY <1>3, <1>4, <1>5
  <1>7. ASSUME NEW p \in ToSet(pairs) PROVE p \in CastOf(log, ToSet(ids), x)
    BY <1>2, <1>6 DEF CastOf
  <1>8. ASSUME NEW h \in ToSet(ids)
        PROVE  <<h, RoleAt(log, h, x)>> \in ToSet(pairs) /\ RoleAt(log, h, x) \in DOMAIN b
    <2>1. PICK p \in ToSet(pairs) : p[1] = h
      BY <1>2
    <2>2. p = <<h, RoleAt(log, h, x)>>
      BY <1>6, <2>1
    <2>3. p[2] = RoleAt(log, h, x)
      BY <2>2
    <2> QED
      BY <1>2, <2>2, <2>3
  <1>9. ToSet(pairs) = CastOf(log, ToSet(ids), x)
    BY <1>7, <1>8 DEF CastOf
  <1> QED
    BY <1>8, <1>9 DEF pairs

Pairs(list) == \A p \in ToSet(list) : p = <<p[1], p[2]>>

\* The roles a roster has once it has been written in which of them the wanted ones differ
\* from those of the heroes owned before.
InForceAfter(log, r, ids, owned, wanted) ==
  LET changed == ChangedRoles(CurrentRolePairs(owned, log), wanted)
  IN  ToSet(wanted) = ToSet(CurrentRolePairs(ids, UpsertEntryRoles(log, r, changed)))

\* Once what differs is written, what was wanted is in force.
LEMMA WantedInForce ==
  ASSUME NEW log, NEW r \in Nat \ {0}, SoundLog(log, r),
         NEW ids, IsList(ids), NEW b \in Books, b # None,
         NEW wanted, Pairs(wanted), NEW owned,
         ValidateAssignments(ids, wanted, b, ids, TRUE) = {}
  PROVE  InForceAfter(log, r, ids, owned, wanted)
  <1> DEFINE current == CurrentRolePairs(owned, log)
             changed == ChangedRoles(current, wanted)
             new == UpsertEntryRoles(log, r, changed)
             pairs == CurrentRolePairs(ids, new)
             now == CurrentRoles(new)
  <1>1. ~UnknownRole(wanted, b) /\ ~RoleHeroNotOnRoster(ids, wanted) /\ ~RoleUnassigned(wanted, ids)
    BY RulesKept
  <1>2. /\ OncePerHero(wanted)
        /\ \A p \in ToSet(wanted) : p[1] \in ToSet(ids)
        /\ \A h \in ToSet(ids) : \E p \in ToSet(wanted) : p[1] = h
    BY <1>1, CleanRoles
  <1>3. OncePerHero(changed) /\ ToSet(changed) = {p \in ToSet(wanted) : p \notin ToSet(current)}
    BY <1>2, ChangedPairs
  <1>4. \A p \in ToSet(current) : p[1] \in DOMAIN CurrentRoles(log) /\ CurrentRoles(log)[p[1]] = p[2]
    BY PairsInForce
  <1> HIDE DEF current, changed
  <1>5. ASSUME NEW p \in ToSet(wanted) PROVE p[1] \in DOMAIN now /\ now[p[1]] = p[2]
    <2>1. CASE p \in ToSet(changed)
      BY <1>3, <2>1, WrittenIsCurrent
    <2>2. CASE p \notin ToSet(changed)
      <3>1. p \in ToSet(current)
        BY <1>3, <2>2
      <3>2. \A q \in ToSet(changed) : q[1] # p[1]
        BY <1>2, <1>3, <2>2, SamePair
      <3> DEFINE h == p[1]
      <3>3. h \in DOMAIN CurrentRoles(log) /\ CurrentRoles(log)[h] = p[2]
        BY <1>4, <3>1
      <3>4. \A q \in ToSet(changed) : q[1] # h
        BY <3>2
      <3> HIDE DEF h
      <3>5. h \in DOMAIN now /\ now[h] = CurrentRoles(log)[h]
        BY <1>3, <3>3, <3>4, UnnamedIsKept
      <3> QED
        BY <3>3, <3>5 DEF h
    <2> QED
      BY <2>1, <2>2
  <1>6. pairs = [i \in {k \in DOMAIN ids : ids[k] \in DOMAIN now} |-> <<ids[i], now[ids[i]]>>]
    BY DEF CurrentRolePairs
  <1> HIDE DEF now, pairs, new
  <1>7. ASSUME NEW p \in ToSet(wanted) PROVE p \in ToSet(pairs)
    <2>1. PICK i \in DOMAIN ids : ids[i] = p[1]
      BY <1>2 DEF ToSet
    <2>2. i \in DOMAIN pairs /\ pairs[i] = <<p[1], p[2]>>
      BY <1>5, <1>6, <2>1
    <2>3. p = <<p[1], p[2]>>
      BY DEF Pairs
    <2> QED
      BY <2>2, <2>3 DEF ToSet
  <1>8. ASSUME NEW q \in ToSet(pairs) PROVE q \in ToSet(wanted)
    <2>1. PICK i \in DOMAIN pairs : q = pairs[i]
      BY DEF ToSet
    <2>2. i \in DOMAIN ids /\ q = <<ids[i], now[ids[i]]>>
      BY <1>6, <2>1
    <2>3. PICK p \in ToSet(wanted) : p[1] = ids[i]
      BY <1>2, <2>2 DEF ToSet
    <2>4. now[ids[i]] = p[2] /\ p = <<p[1], p[2]>>
      BY <1>5, <2>3 DEF Pairs
    <2> QED
      BY <2>2, <2>3, <2>4
  <1>9. ToSet(wanted) = ToSet(pairs)
    BY <1>7, <1>8
  <1> QED
    BY <1>9 DEF pairs, new, changed, current, InForceAfter

\* A merged list has nothing of its own.
LEMMA MergedFrom ==
  ASSUME NEW proposed, NEW current, NEW submitted, Pairs(current), Pairs(submitted)
  PROVE  Pairs(MergeRoles(proposed, current, submitted))
  <1> DEFINE Kept(p) == Contains(proposed, p[1]) /\ \A q \in ToSet(submitted) : q[1] # p[1]
             kept    == {k \in DOMAIN current : Kept(current[k])}
             old     == {"kept"} \X kept
             new     == {"submitted"} \X DOMAIN submitted
             merged  == MergeRoles(proposed, current, submitted)
  <1>1. merged = [k \in old \cup new |-> IF k[1] = "kept" THEN current[k[2]] ELSE submitted[k[2]]]
    BY DEF MergeRoles
  <1>2. \A k \in old \cup new : \/ k[1] = "kept" /\ k[2] \in DOMAIN current
                                \/ k[1] # "kept" /\ k[2] \in DOMAIN submitted
    OBVIOUS
  <1> HIDE DEF merged, old, new
  <1>3. \A k \in DOMAIN merged : merged[k] \in ToSet(current) \cup ToSet(submitted)
    BY <1>1, <1>2 DEF ToSet
  <1>4. \A p \in ToSet(merged) : p \in ToSet(current) \cup ToSet(submitted)
    BY <1>3 DEF ToSet
  <1>5. Pairs(merged)
    BY <1>4 DEF Pairs
  <1> QED
    BY <1>5 DEF merged

\* The roles in force are pairs.
LEMMA CurrentPairs ==
  ASSUME NEW ids, NEW log
  PROVE  Pairs(CurrentRolePairs(ids, log))
  <1> DEFINE pairs == CurrentRolePairs(ids, log)
             current == CurrentRoles(log)
  <1>1. pairs = [i \in {k \in DOMAIN ids : ids[k] \in DOMAIN current} |-> <<ids[i], current[ids[i]]>>]
    BY DEF CurrentRolePairs
  <1> HIDE DEF pairs, current
  <1>2. \A i \in DOMAIN pairs : pairs[i] = <<pairs[i][1], pairs[i][2]>>
    BY <1>1
  <1>3. Pairs(pairs)
    BY <1>2 DEF ToSet, Pairs
  <1> QED
    BY <1>3 DEF pairs

-----------------------------------------------------------------------------
(* The history, step by step.                                              *)

\* A log in order up to a round is in order up to a later one.
LEMMA InOrderLater ==
  ASSUME NEW log, NEW r \in Nat, NEW q \in Nat, r <= q, InOrder(log, r)
  PROVE  InOrder(log, q)
  <1>1. \A i \in DOMAIN log : log[i].round \in 1 .. q
    BY DEF InOrder
  <1> QED
    BY <1>1 DEF InOrder

\* The empty log is in order, and leads from a roster to itself.
LEMMA NoSwaps ==
  ASSUME NEW r, NEW C \in SUBSET DOMAIN Prices
  PROVE  /\ InOrder(<<>>, r) /\ LeadsFrom([k \in {0} |-> C], <<>>, C, C)
  <1> DEFINE d == [k \in {0} |-> C]
  <1>1. Len(<<>>) = 0 /\ DOMAIN <<>> = {} /\ 1 .. 0 = {} /\ 0 .. 0 = {0}
    OBVIOUS
  <1>2. d \in [{0} -> SUBSET DOMAIN Prices] /\ d[0] = C
    OBVIOUS
  <1> HIDE DEF d
  <1>3. Leads(d, <<>>, C)
    BY <1>1, <1>2 DEF Leads
  <1>4. LeadsFrom(d, <<>>, C, C)
    BY <1>1, <1>2, <1>3 DEF LeadsFrom
  <1>5. InOrder(<<>>, r)
    BY <1>1 DEF InOrder
  <1> QED
    BY <1>4, <1>5 DEF d

\* Locking admits a full roster, and so does swapping.
LEMMA LockRules ==
  ASSUME NEW ids, IsList(ids), NEW prices, DOMAIN prices \subseteq DOMAIN Prices,
         \A h \in ToSet(ids) : h \in DOMAIN prices,
         NEW t, NEW e, ValidateLock(ids, prices, t, e) = {}
  PROVE  FullRoster(ids)
  <1> DEFINE many == TooManyPicks(ids)
             few == IncompleteRoster(ids)
             twice == DuplicateHero(ids)
             budget == BudgetExceeded(ids, prices)
             draft == [TOO_MANY_PICKS |-> many, DUPLICATE_HERO |-> twice]
             rules == [INCOMPLETE_ROSTER |-> few, BUDGET_EXCEEDED |-> budget]
  <1>1. Broken(draft) = {} /\ Broken(rules) = {}
    BY DEF ValidateLock, ValidateDraft
  <1> HIDE DEF many, few, twice, budget
  <1>2. ~many /\ ~twice /\ ~few
    BY <1>1 DEF Broken
  <1>3. Len(ids) \in Nat /\ RosterSize \in Nat
    BY ListPositions, SeasonAssumption
  <1>4. Len(ids) = RosterSize
    BY <1>2, <1>3 DEF many, few, TooManyPicks, IncompleteRoster
  <1> QED
    BY <1>2, <1>4 DEF FullRoster, twice

\* What a swap admits is a full roster too.
LEMMA SwapIsFull ==
  ASSUME NEW ids, IsList(ids), NEW prices, DOMAIN prices \subseteq DOMAIN Prices,
         \A h \in ToSet(ids) : h \in DOMAIN prices,
         NEW t, NEW e, NEW used, NEW already, ValidateSwap(ids, prices, t, e, used, already) = {}
  PROVE  FullRoster(ids)
  <1> DEFINE closed == ~AcceptsSwaps(t) \/ e.status # "LOCKED"
             many == TooManyPicks(ids)
             few == IncompleteRoster(ids)
             twice == DuplicateHero(ids)
             limit == HeroesChanged(e.slots, ids) > SwapAllowance(t.round, used)
             budget == BudgetExceeded(ids, prices)
             rules == [SWAP_WINDOW_CLOSED |-> closed, ALREADY_SWAPPED_THIS_ROUND |-> already,
                       TOO_MANY_PICKS |-> many, INCOMPLETE_ROSTER |-> few, DUPLICATE_HERO |-> twice,
                       SWAP_LIMIT_EXCEEDED |-> limit, BUDGET_EXCEEDED |-> budget]
  <1>1. ValidateSwap(ids, prices, t, e, used, already) = Broken(rules)
    BY DEF ValidateSwap
  <1> HIDE DEF closed, many, few, twice, limit, budget
  <1>2. ~many /\ ~few /\ ~twice
    BY <1>1 DEF Broken
  <1>3. Len(ids) \in Nat /\ RosterSize \in Nat
    BY ListPositions, SeasonAssumption
  <1>4. Len(ids) = RosterSize
    BY <1>2, <1>3 DEF many, few, TooManyPicks, IncompleteRoster
  <1> QED
    BY <1>2, <1>4 DEF FullRoster, twice

-----------------------------------------------------------------------------
(* What no step touches.                                                   *)

\* An entry left as it is.
Left(m) ==
  /\ entry'[m] = entry[m] /\ slots'[m] = slots[m] /\ swaps'[m] = swaps[m] /\ roles'[m] = roles[m]
  /\ held'[m] = held[m] /\ cast'[m] = cast[m] /\ (m \in overtaken' <=> m \in overtaken)

\* An entry left as it is stays told, also in a later round.
LEMMA EntryStays ==
  ASSUME NEW m \in Managers, Left(m), book' = book, round \in Nat, round' \in Nat, round <= round',
         EntryTold(m)
  PROVE  EntryTold(m)'
  <1>1. m \notin overtaken => InOrder(swaps[m], round')
    BY InOrderLater DEF EntryTold
  <1> QED
    BY <1>1 DEF EntryTold, Left

\* A request that is the same for an entry left as it is,
LEMMA RequestStays ==
  ASSUME NEW s \in InFlight, req'[s] = req[s], Left(Owner[s]), book' = book,
         RequestTold(Owner[s], req[s].t.round, req[s].writes)
  PROVE  RequestTold(Owner[s], req[s].t.round, req[s].writes)'
  BY DEF RequestTold, Left, Behind

\* and one that has not decided yet.
LEMMA RequestWaits ==
  ASSUME NEW s, req'[s].writes = None
  PROVE  RequestTold(Owner[s], req[s].t.round, req[s].writes)'
  BY DEF RequestTold

\* Steps that touch no entry, and at most end a request.
LEMMA HistoryStays ==
  ASSUME IInv, HistoryInv, UNCHANGED <<book, entry, slots, swaps, roles, held, cast, overtaken>>,
         round' = round \/ round' = round + 1,
         InFlight' \subseteq InFlight, \A s \in InFlight' : req'[s] = req[s]
  PROVE  HistoryInv'
  <1>1. round \in Nat /\ round' \in Nat /\ round <= round'
    BY DEF IInv, Shapes
  <1>2. \A m \in Managers : Left(m)
    BY DEF Left
  <1>3. \A m \in Managers : EntryTold(m)'
    BY <1>1, <1>2, EntryStays DEF HistoryInv
  <1>4. \A s \in InFlight' : RequestTold(Owner[s], req[s].t.round, req[s].writes)'
    <2> SUFFICES ASSUME NEW s \in InFlight'
                 PROVE  RequestTold(Owner[s], req[s].t.round, req[s].writes)'
      OBVIOUS
    <2>1. s \in InFlight /\ req'[s] = req[s] /\ Owner[s] \in Managers
      BY SeasonAssumption DEF InFlight
    <2>2. RequestTold(Owner[s], req[s].t.round, req[s].writes)
      BY <2>1 DEF HistoryInv
    <2> QED
      BY <1>2, <2>1, <2>2, RequestStays
  <1>5. DOMAIN held' = Managers /\ DOMAIN cast' = Managers
    BY DEF HistoryInv
  <1> QED
    BY <1>3, <1>4, <1>5 DEF HistoryInv

\* Steps that touch entries whose row is free.
LEMMA FreeHistory ==
  ASSUME IInv, HistoryInv, UNCHANGED <<round, book, req>>,
         DOMAIN held' = Managers, DOMAIN cast' = Managers,
         \A m \in Managers : Left(m) \/ (lock[m] = None /\ EntryTold(m)')
  PROVE  HistoryInv'
  <1>1. round \in Nat /\ round' \in Nat /\ round <= round'
    BY DEF IInv, Shapes
  <1>2. \A m \in Managers : EntryTold(m)'
    BY <1>1, EntryStays DEF HistoryInv
  <1>3. \A s \in InFlight' : RequestTold(Owner[s], req[s].t.round, req[s].writes)'
    <2> SUFFICES ASSUME NEW s \in InFlight'
                 PROVE  RequestTold(Owner[s], req[s].t.round, req[s].writes)'
      OBVIOUS
    <2>1. s \in InFlight /\ req'[s] = req[s] /\ Owner[s] \in Managers /\ s # None
      BY SeasonAssumption DEF InFlight
    <2>2. RequestTold(Owner[s], req[s].t.round, req[s].writes)
      BY <2>1 DEF HistoryInv
    <2>3. CASE req[s].writes = None
      BY <2>1, <2>3, RequestWaits
    <2>4. CASE req[s].writes # None
      <3>1. lock[Owner[s]] # None
        BY <2>1, <2>4 DEF IInv
      <3>2. Left(Owner[s])
        BY <2>1, <3>1
      <3> QED
        BY <2>1, <2>2, <3>2, RequestStays
    <2> QED
      BY <2>3, <2>4
  <1> QED
    BY <1>2, <1>3 DEF HistoryInv

\* Before the first swap the roster is the one of every round,
LEMMA FreshlyHeld ==
  ASSUME NEW ids, FullRoster(ids), NEW history, \A r \in Rounds : history[r] = ToSet(ids)
  PROVE  HeldAlong(<<>>, ids, history)
  <1> DEFINE C == ToSet(ids)
             d == [k \in {0} |-> C]
             log == <<>>
  <1>1. C \in SUBSET DOMAIN Prices
    BY DEF FullRoster
  <1> HIDE DEF C
  <1>2. LeadsFrom(d, log, C, C)
    BY <1>1, NoSwaps
  <1>3. Len(log) = 0
    OBVIOUS
  <1> HIDE DEF d, log
  <1>4. d \in [0 .. Len(log) -> SUBSET DOMAIN Prices] /\ d[0] = C /\ Leads(d, log, C)
    BY <1>2 DEF LeadsFrom
  <1>5. \A r \in Rounds : \A j \in 0 .. Len(log) : InRounds(log, j, r) => history[r] = d[j]
    BY <1>3, <1>4 DEF C
  <1>6. HeldAlong(log, ids, history)
    BY <1>4, <1>5 DEF HeldAlong, C
  <1> QED
    BY <1>6 DEF log

\* and its roles are those of every round.
LEMMA FreshlyCast ==
  ASSUME NEW ids, IsList(ids), NEW log, NEW b, b # None, SoundLog(log, 1),
         LockRoleViolations(ids, CurrentRolePairs(ids, log), b) = {},
         NEW history, \A r \in Rounds : history[r] = ToSet(ids),
         NEW played, \A r \in Rounds : played[r] = ToSet(CurrentRolePairs(ids, log))
  PROVE  CastAlong(b, log, history, played)
  <1>1. ASSUME NEW r \in Rounds
        PROVE  /\ played[r] = CastOf(log, history[r], r)
               /\ \A h \in history[r] : RoleAt(log, h, r) \in DOMAIN b
    <2>1. r \in Nat /\ 1 <= r /\ 1 \in Nat
      BY SeasonAssumption DEF Rounds
    <2>2. /\ ToSet(CurrentRolePairs(ids, log)) = CastOf(log, ToSet(ids), r)
          /\ \A h \in ToSet(ids) : RoleAt(log, h, r) \in DOMAIN b
      BY <2>1, CompleteCast
    <2> QED
      BY <2>2
  <1> QED
    BY <1>1 DEF CastAlong

\* HistoryInv holds at the start.
LEMMA HistoryInit == Init => HistoryInv
  <1> SUFFICES ASSUME Init PROVE HistoryInv
    OBVIOUS
  <1>1. IInv
    BY IInvInit
  <1>2. InFlight = {}
    BY DEF Init, InFlight
  <1>3. /\ held = [m \in Managers |-> [r \in Rounds |-> ToSet(slots[m])]]
        /\ cast = [m \in Managers |-> [r \in Rounds |-> ToSet(CurrentRolePairs(slots[m], roles[m]))]]
        /\ swaps = [m \in Managers |-> <<>>] /\ round = 1 /\ book \in Books
    BY DEF Init
  <1>4. ASSUME NEW m \in Managers PROVE EntryTold(m)
    <2>1. /\ DOMAIN held[m] = Rounds /\ DOMAIN cast[m] = Rounds
          /\ \A r \in Rounds : held[m][r] = ToSet(slots[m])
          /\ \A r \in Rounds : cast[m][r] = ToSet(CurrentRolePairs(slots[m], roles[m]))
          /\ swaps[m] = <<>>
      BY <1>3
    <2>2. InOrder(swaps[m], round)
      <3> DEFINE none == {}
      <3>1. none \in SUBSET DOMAIN Prices
        OBVIOUS
      <3> HIDE DEF none
      <3>2. InOrder(<<>>, round)
        BY <3>1, NoSwaps
      <3> QED
        BY <2>1, <3>2
    <2>3. CASE m \notin DOMAIN Settled
      <3>1. entry[m] # "LOCKED" /\ roles[m] = {}
        BY <2>3 DEF Init
      <3> QED
        BY <2>1, <2>2, <3>1 DEF EntryTold
    <2>4. CASE m \in DOMAIN Settled
      <3>1. entry[m] = "LOCKED" /\ slots[m] = Settled[m].slots
        BY <2>4 DEF Init
      <3>2. FullRoster(slots[m]) /\ IsList(slots[m])
        BY <2>4, <3>1, SeasonAssumption DEF FullRoster
      <3>3. HeldAlong(swaps[m], slots[m], held[m])
        BY <2>1, <3>2, FreshlyHeld
      <3>4. ASSUME book # None PROVE CastAlong(book, roles[m], held[m], cast[m])
        <4>1. roles[m] = ReplaceDraftRoles(Settled[m].roles)
          BY <2>4, <3>4 DEF Init
        <4>2. /\ SoundLog(roles[m], 1)
              /\ LockRoleViolations(slots[m], CurrentRolePairs(slots[m], roles[m]), book) = {}
          BY <1>3, <2>4, <3>1, <3>4, <4>1, SettledComplete
        <4> QED
          BY <2>1, <3>2, <3>4, <4>2, FreshlyCast
      <3> QED
        BY <2>1, <2>2, <3>1, <3>2, <3>3, <3>4 DEF EntryTold
    <2> QED
      BY <2>3, <2>4
  <1>5. DOMAIN held = Managers /\ DOMAIN cast = Managers
    BY <1>3
  <1> QED
    BY <1>2, <1>4, <1>5 DEF HistoryInv

-----------------------------------------------------------------------------
(* Steps on a free row.                                                    *)

\* A draft's roster changes: nothing has been held yet.
LEMMA SetSlotsTold ==
  ASSUME IInv, HistoryInv, NEW m \in Managers, NEW ids \in Wishes, SetSlots(m, ids)
  PROVE  HistoryInv'
  <1>1. /\ entry[m] = "DRAFT" /\ lock[m] = None
        /\ slots' = [slots EXCEPT ![m] = ids]
        /\ roles' = [roles EXCEPT ![m] = DeleteDraftRolesExcept(@, ids)]
        /\ UNCHANGED <<round, book, req, swaps, held, cast, overtaken, entry>>
    BY DEF SetSlots, tournament
  <1>2. DOMAIN slots = Managers /\ DOMAIN roles = Managers
    BY DEF IInv, Shapes
  <1>3. \A x \in Managers : x # m => Left(x)
    BY <1>1, <1>2 DEF Left
  <1>4. EntryTold(m)
    BY DEF HistoryInv
  <1>5. roles'[m] \subseteq roles[m]
    BY <1>1, <1>2 DEF DeleteDraftRolesExcept
  <1>6. EntryTold(m)'
    BY <1>1, <1>4, <1>5 DEF EntryTold
  <1>7. DOMAIN held' = Managers /\ DOMAIN cast' = Managers
    BY <1>1 DEF HistoryInv
  <1>8. \A x \in Managers : Left(x) \/ (lock[x] = None /\ EntryTold(x)')
    BY <1>1, <1>3, <1>6
  <1> QED
    BY <1>1, <1>7, <1>8, FreeHistory

\* A roster is locked: it is the one of every round.
LEMMA LockRosterTold ==
  ASSUME IInv, Stored, HistoryInv, NEW m \in Managers, LockRoster(m)
  PROVE  HistoryInv'
  <1> DEFINE ids == slots[m]
             log == roles[m]
  <1>1. /\ entry[m] = "DRAFT" /\ lock[m] = None /\ LockViolations(m) = {}
        /\ entry' = [entry EXCEPT ![m] = "LOCKED"]
        /\ held' = [held EXCEPT ![m] = [r \in Rounds |-> ToSet(ids)]]
        /\ cast' = [cast EXCEPT ![m] = [r \in Rounds |-> ToSet(CurrentRolePairs(ids, log))]]
        /\ UNCHANGED <<round, book, req, swaps, slots, roles, overtaken>>
    BY DEF LockRoster, tournament
  <1>2. /\ DOMAIN entry = Managers /\ DOMAIN held = Managers /\ DOMAIN cast = Managers
        /\ IsList(ids) /\ DOMAIN pool \subseteq DOMAIN Prices
    BY DEF IInv, Shapes, HistoryInv, Stored
  <1>3. \A x \in Managers : x # m => Left(x)
    BY <1>1, <1>2 DEF Left
  <1>4. /\ ~Unknown(ids)
        /\ ValidateLock(ids, pool, T, EntryOf(m)) = {}
        /\ LockRoleViolations(ids, CurrentRolePairs(ids, log), book) = {}
    BY <1>1 DEF LockViolations
  <1>5. \A h \in ToSet(ids) : h \in DOMAIN pool
    BY <1>4 DEF Unknown
  <1>6. FullRoster(ids)
    <2> DEFINE t == T
               e == EntryOf(m)
    <2>1. ValidateLock(ids, pool, t, e) = {}
      BY <1>4
    <2> HIDE DEF ids, t, e
    <2> QED
      BY <1>2, <1>5, <2>1, LockRules
  <1>7. /\ DOMAIN held'[m] = Rounds /\ DOMAIN cast'[m] = Rounds
        /\ \A r \in Rounds : held'[m][r] = ToSet(ids)
        /\ \A r \in Rounds : cast'[m][r] = ToSet(CurrentRolePairs(ids, log))
    BY <1>1, <1>2
  <1>8. EntryTold(m) /\ swaps[m] = <<>> /\ \A a \in log : a.from = 1
    BY <1>1 DEF HistoryInv, EntryTold
  <1>9. HeldAlong(swaps[m], ids, held'[m])
    <2> DEFINE history == held'[m]
    <2>1. \A r \in Rounds : history[r] = ToSet(ids)
      BY <1>7
    <2> HIDE DEF ids, history
    <2>2. HeldAlong(<<>>, ids, history)
      BY <1>6, <2>1, FreshlyHeld
    <2> QED
      BY <1>8, <2>2 DEF history
  <1>10. ASSUME book # None PROVE CastAlong(book, log, held'[m], cast'[m])
    <2> DEFINE history == held'[m]
               played == cast'[m]
               b == book
    <2>1. SoundLog(log, round)
      BY <1>10 DEF IInv
    <2>2. SoundLog(log, 1)
      BY <1>8, <2>1 DEF SoundLog
    <2>3. /\ \A r \in Rounds : history[r] = ToSet(ids)
          /\ \A r \in Rounds : played[r] = ToSet(CurrentRolePairs(ids, log))
      BY <1>7
    <2>4. b # None /\ LockRoleViolations(ids, CurrentRolePairs(ids, log), b) = {}
      BY <1>4, <1>10
    <2> HIDE DEF ids, log, history, played, b
    <2>5. CastAlong(b, log, history, played)
      BY <1>2, <2>2, <2>3, <2>4, FreshlyCast
    <2> QED
      BY <2>5 DEF b, history, played
  <1>11. entry'[m] = "LOCKED" /\ swaps'[m] = swaps[m] /\ slots'[m] = ids /\ roles'[m] = log
    BY <1>1, <1>2
  <1>12. m \notin overtaken => InOrder(swaps[m], round)
    BY <1>8 DEF EntryTold
  <1>13. EntryTold(m)'
    <2>1. DOMAIN held'[m] = Rounds /\ DOMAIN cast'[m] = Rounds
      BY <1>7
    <2>2. book' = book /\ round' = round /\ overtaken' = overtaken
      BY <1>1
    <2> HIDE DEF ids, log
    <2> QED
      BY <1>6, <1>9, <1>10, <1>11, <1>12, <2>1, <2>2 DEF EntryTold
  <1>14. DOMAIN held' = Managers /\ DOMAIN cast' = Managers
    BY <1>1, <1>2
  <1>15. \A x \in Managers : Left(x) \/ (lock[x] = None /\ EntryTold(x)')
    BY <1>1, <1>3, <1>13
  <1> QED
    BY <1>1, <1>14, <1>15, FreeHistory

\* An entry that is not locked goes.
LEMMA SaveStatusTold ==
  ASSUME IInv, HistoryInv, NEW st, SaveStatus(st)
  PROVE  HistoryInv'
  <1> DEFINE gone == {m \in Managers : st = "LIVE" /\ entry[m] = "DRAFT"}
  <1>1. /\ \A m \in gone : lock[m] = None
        /\ entry' = [m \in Managers |-> IF m \in gone THEN "none" ELSE entry[m]]
        /\ slots' = [m \in Managers |-> IF m \in gone THEN <<>> ELSE slots[m]]
        /\ roles' = [m \in Managers |-> IF m \in gone THEN {} ELSE roles[m]]
        /\ UNCHANGED <<round, book, req, swaps, held, cast, overtaken>>
    BY DEF SaveStatus
  <1>2. \A m \in gone : entry[m] = "DRAFT"
    OBVIOUS
  <1> HIDE DEF gone
  <1>3. ASSUME NEW m \in Managers PROVE Left(m) \/ (lock[m] = None /\ EntryTold(m)')
    <2>1. CASE m \in gone
      <3>1. entry'[m] = "none" /\ roles'[m] = {} /\ lock[m] = None
        BY <1>1, <2>1
      <3>2. EntryTold(m) /\ entry[m] # "LOCKED"
        BY <1>2, <2>1 DEF HistoryInv
      <3>3. EntryTold(m)'
        BY <1>1, <3>1, <3>2 DEF EntryTold
      <3> QED
        BY <3>1, <3>3
    <2>2. CASE m \notin gone
      BY <1>1, <2>2 DEF Left
    <2> QED
      BY <2>1, <2>2
  <1>4. DOMAIN held' = Managers /\ DOMAIN cast' = Managers
    BY <1>1 DEF HistoryInv
  <1> QED
    BY <1>1, <1>3, <1>4, FreeHistory

-----------------------------------------------------------------------------
(* Steps of a request.                                                     *)

\* A request begins in the current round.
LEMMA BeginTold ==
  ASSUME IInv, HistoryInv, NEW s \in Sessions, NEW kind, Begin(s, kind)
  PROVE  HistoryInv'
  <1> DEFINE new == [kind |-> kind, t |-> T, writes |-> None]
  <1>1. /\ req' = [req EXCEPT ![s] = new]
        /\ UNCHANGED <<round, book, entry, slots, swaps, roles, held, cast, overtaken>>
    BY DEF Begin, tournament, entries
  <1>2. DOMAIN req = Sessions /\ Owner[s] \in Managers
    BY SeasonAssumption DEF IInv, Shapes
  <1>3. new.t.round = round /\ new.writes = None
    BY DEF T
  <1> HIDE DEF new
  <1>4. req'[s] = new /\ \A o \in Sessions \ {s} : req'[o] = req[o]
    BY <1>1, <1>2
  <1>5. \A m \in Managers : Left(m)
    BY <1>1 DEF Left
  <1>6. round \in Nat /\ round' \in Nat /\ round <= round'
    BY <1>1 DEF IInv, Shapes
  <1>7. \A m \in Managers : EntryTold(m)'
    BY <1>1, <1>5, <1>6, EntryStays DEF HistoryInv
  <1>8. ASSUME NEW o \in InFlight' PROVE RequestTold(Owner[o], req[o].t.round, req[o].writes)'
    <2>1. CASE o = s
      BY <1>3, <1>4, <2>1, RequestWaits
    <2>2. CASE o # s
      <3>1. o \in InFlight /\ req'[o] = req[o] /\ Owner[o] \in Managers
        BY <1>4, <2>2, SeasonAssumption DEF InFlight
      <3>2. RequestTold(Owner[o], req[o].t.round, req[o].writes)
        BY <3>1 DEF HistoryInv
      <3>3. Left(Owner[o])
        BY <1>5, <3>1
      <3> QED
        BY <1>1, <3>1, <3>2, <3>3, RequestStays
    <2> QED
      BY <2>1, <2>2
  <1>9. DOMAIN held' = Managers /\ DOMAIN cast' = Managers
    BY <1>1 DEF HistoryInv
  <1> QED
    BY <1>7, <1>8, <1>9 DEF HistoryInv

\* A request that decides on what to write.
LEMMA DecidedTold ==
  ASSUME IInv, HistoryInv, NEW s \in InFlight, NEW w, Decide(s, w),
         UNCHANGED <<round, book, entry, slots, swaps, roles, held, cast, overtaken>>,
         RequestTold(Owner[s], req[s].t.round, w)
  PROVE  HistoryInv'
  <1>1. s \in Sessions /\ DOMAIN req = Sessions /\ Owner[s] \in Managers
    BY SeasonAssumption DEF IInv, Shapes, InFlight
  <1>2. req[s] = [kind |-> req[s].kind, t |-> req[s].t, writes |-> req[s].writes]
    BY DEF IInv, Shapes
  <1>3. /\ req'[s].t = req[s].t /\ req'[s].writes = w
        /\ \A o \in Sessions \ {s} : req'[o] = req[o]
    BY <1>1, <1>2 DEF Decide
  <1>4. \A m \in Managers : Left(m)
    BY DEF Left
  <1>5. round \in Nat /\ round' \in Nat /\ round <= round'
    BY DEF IInv, Shapes
  <1>6. \A m \in Managers : EntryTold(m)'
    BY <1>4, <1>5, EntryStays DEF HistoryInv
  <1>7. ASSUME NEW o \in InFlight' PROVE RequestTold(Owner[o], req[o].t.round, req[o].writes)'
    <2>1. CASE o = s
      <3>1. Left(Owner[s])
        BY <1>1, <1>4
      <3>2. RequestTold(Owner[s], req'[s].t.round, req'[s].writes)
        BY <1>3
      <3> QED
        BY <2>1, <3>1, <3>2 DEF RequestTold, Left, Behind
    <2>2. CASE o # s
      <3>1. o \in InFlight /\ req'[o] = req[o] /\ Owner[o] \in Managers
        BY <1>3, <2>2, SeasonAssumption DEF InFlight
      <3>2. RequestTold(Owner[o], req[o].t.round, req[o].writes)
        BY <3>1 DEF HistoryInv
      <3>3. Left(Owner[o])
        BY <1>4, <3>1
      <3> QED
        BY <3>1, <3>2, <3>3, RequestStays
    <2> QED
      BY <2>1, <2>2
  <1>8. DOMAIN held' = Managers /\ DOMAIN cast' = Managers
    BY DEF HistoryInv
  <1> QED
    BY <1>6, <1>7, <1>8 DEF HistoryInv

\* swap_roster decides on exchanges and roles that lead on from the entry it locked,
LEMMA LoadForSwapTold ==
  ASSUME IInv, Stored, HistoryInv, NEW s \in Sessions, LoadForSwap(s)
  PROVE  HistoryInv'
  <1> DEFINE m == Owner[s]
             t == req[s].t
             current == CurrentRolePairs(slots[m], roles[m])
  <1>1. s \in InFlight /\ m \in Managers
    BY SeasonAssumption DEF LoadForSwap, Waiting, InFlight
  <1>2. UNCHANGED <<round, book, entry, slots, swaps, roles, held, cast, overtaken>>
    BY DEF LoadForSwap, tournament, entries
  <1> DEFINE Merged(ids, submitted) == IF book = None THEN <<>> ELSE MergeRoles(ids, current, submitted)
             Writes(ids, submitted) ==
               [slots |-> ids, swaps |-> Exchanges(t.round, slots[m], ids),
                roles |-> ChangedRoles(current, Merged(ids, submitted)), cast |-> Merged(ids, submitted)]
  <1>3. PICK ids \in Wishes, submitted \in RoleForms :
          /\ ~Unknown(ids)
          /\ SwapViolations(m, t, ids, submitted) = {} /\ Decide(s, Writes(ids, submitted))
    BY DEF LoadForSwap
  <1> DEFINE w == Writes(ids, submitted)
  <1>4. /\ w.slots = ids /\ w.swaps = Exchanges(t.round, slots[m], ids)
        /\ w.roles = ChangedRoles(current, Merged(ids, submitted))
        /\ w.cast = Merged(ids, submitted)
    OBVIOUS
  <1>5. Decide(s, w)
    BY <1>3
  <1> HIDE DEF w, Writes
  <1>6. IsList(ids) /\ IsList(submitted) /\ Pairs(submitted)
    BY SeasonAssumption DEF Pairs
  <1>7. t.round \in Nat \ {0}
    BY <1>1, RequestRound
  <1>8. round \in Nat /\ t.round \in Nat
    BY <1>1, RequestRound
  <1>9. DOMAIN pool \subseteq DOMAIN Prices /\ \A h \in ToSet(ids) : h \in DOMAIN pool
    BY <1>3 DEF Stored, Unknown
  <1> DEFINE already == \E i \in DOMAIN swaps[m] : swaps[m][i].round = t.round
             e == EntryOf(m)
             used == Len(swaps[m])
  <1>10. ValidateSwap(ids, pool, t, e, used, already) = {}
    BY <1>3 DEF SwapViolations
  <1>11. entry[m] = "LOCKED"
    <2> HIDE DEF already, used, t
    <2>1. EntryOf(m).status = "LOCKED"
      BY <1>10, SwapRules
    <2> QED
      BY <2>1 DEF EntryOf
  <1>12. FullRoster(ids)
    <2> HIDE DEF already, used, e, t
    <2> QED
      BY <1>6, <1>9, <1>10, SwapIsFull
  <1>13. ASSUME book # None, ~Behind(m, t.round)
         PROVE  ToSet(w.cast) = ToSet(CurrentRolePairs(ids, UpsertEntryRoles(roles[m], t.round, w.roles)))
    <2> DEFINE b == book
               log == roles[m]
               owned == slots[m]
               r == t.round
               merged == MergeRoles(ids, CurrentRolePairs(owned, log), submitted)
               arrivals == RestrictValues(ids, LAMBDA h : ~Contains(owned, h))
    <2>1. w.cast = merged /\ w.roles = ChangedRoles(CurrentRolePairs(owned, log), merged)
      BY <1>4, <1>13
    <2>2. ValidateAssignments(ids, merged, b, arrivals, TRUE) = {}
      BY <1>3, <1>13 DEF SwapViolations
    <2>3. m \in Locked
      BY <1>1, <1>11 DEF Locked
    <2>4. LockRoleViolations(owned, CurrentRolePairs(owned, log), b) \subseteq {"ROLE_CAP_EXCEEDED"}
      BY <1>13, <2>3 DEF IInv, Complete, Tolerated
    <2>5. SoundLog(log, r) /\ IsList(owned) /\ b \in Books /\ b # None /\ r \in Nat \ {0}
      BY <1>1, <1>7, <1>8, <1>13, UpToDate DEF IInv, Shapes, Behind
    <2> HIDE DEF b, log, owned, r
    <2>6. ValidateAssignments(ids, merged, b, ids, TRUE) = {}
      BY <1>6, <2>2, <2>4, <2>5, SwapWanted
    <2>7. Pairs(merged)
      BY <1>6, CurrentPairs, MergedFrom
    <2> HIDE DEF merged
    <2>8. InForceAfter(log, r, ids, owned, merged)
      BY <1>6, <2>5, <2>6, <2>7, WantedInForce
    <2> QED
      BY <2>1, <2>8 DEF log, r, InForceAfter
  <1>14. RequestTold(m, t.round, w)
    BY <1>4, <1>11, <1>12, <1>13 DEF RequestTold
  <1> QED
    BY <1>1, <1>2, <1>5, <1>14, DecidedTold

\* A list of roles exchanges nobody.
LEMMA NoExchange ==
  ASSUME NEW r, NEW ids, IsList(ids)
  PROVE  Exchanges(r, ids, ids) = <<>>
  <1> DEFINE gone == Lacking(ids, ids)
             ex == Exchanges(r, ids, ids)
             S == {i \in DOMAIN ids : ~Contains(ids, ids[i])}
             Less(i, j) == i < j
             order == Sorted(S, Less)
  <1>1. S = {}
    BY ListPositions
  <1>2. DOMAIN order = 1 .. Cardinality(S)
    BY DEF Sorted
  <1>3. Cardinality(S) = 0
    BY <1>1, FS_EmptySet
  <1>4. DOMAIN gone = DOMAIN order
    BY DEF Lacking
  <1>5. DOMAIN ex = DOMAIN gone /\ ex = [i \in DOMAIN ex |-> ex[i]]
    BY DEF Exchanges
  <1> HIDE DEF S, order, gone, ex
  <1>6. DOMAIN ex = {}
    BY <1>2, <1>3, <1>4, <1>5
  <1>7. ex = <<>>
    BY <1>5, <1>6
  <1> QED
    BY <1>7 DEF ex

\* and set_roles on roles, with no exchange.
LEMMA LoadForRolesTold ==
  ASSUME IInv, HistoryInv, NEW s \in Sessions, LoadForRoles(s)
  PROVE  HistoryInv'
  <1> DEFINE m == Owner[s]
             t == req[s].t
             current == CurrentRolePairs(slots[m], roles[m])
             locked == entry[m] = "LOCKED"
  <1>1. s \in InFlight /\ m \in Managers
    BY SeasonAssumption DEF LoadForRoles, Waiting, InFlight
  <1>2. UNCHANGED <<round, book, entry, slots, swaps, roles, held, cast, overtaken>>
    BY DEF LoadForRoles, tournament, entries
  <1> DEFINE Writes(submitted) ==
               [slots |-> slots[m], swaps |-> <<>>, cast |-> submitted,
                roles |-> IF locked THEN ChangedRoles(current, submitted) ELSE submitted]
  <1>3. PICK submitted \in RoleForms : RoleViolations(m, t, submitted) = {} /\ Decide(s, Writes(submitted))
    BY DEF LoadForRoles
  <1> DEFINE w == Writes(submitted)
  <1>4. /\ w.slots = slots[m] /\ w.swaps = <<>> /\ w.cast = submitted
        /\ locked => w.roles = ChangedRoles(current, submitted)
    OBVIOUS
  <1>5. Decide(s, w)
    BY <1>3
  <1> HIDE DEF w, Writes
  <1>6. IsList(slots[m]) /\ Pairs(submitted)
    BY <1>1, SeasonAssumption DEF IInv, Shapes, Pairs
  <1>7. t.round \in Nat \ {0}
    BY <1>1, RequestRound
  <1>8. round \in Nat /\ t.round \in Nat
    BY <1>1, RequestRound
  <1>9. locked => FullRoster(slots[m])
    BY <1>1 DEF HistoryInv, EntryTold
  <1>10. Exchanges(t.round, slots[m], slots[m]) = <<>>
    <2> DEFINE r == t.round
               ids == slots[m]
    <2> HIDE DEF r, ids
    <2>1. Exchanges(r, ids, ids) = <<>>
      BY <1>6, NoExchange DEF ids
    <2> QED
      BY <2>1 DEF r, ids
  <1>11. ASSUME book # None, locked, ~Behind(m, t.round)
         PROVE  ToSet(w.cast) = ToSet(CurrentRolePairs(slots[m], UpsertEntryRoles(roles[m], t.round, w.roles)))
    <2> DEFINE b == book
               log == roles[m]
               ids == slots[m]
               r == t.round
    <2>1. ValidateAssignments(ids, submitted, b, ids, TRUE) = {}
      BY <1>3, <1>11 DEF RoleViolations
    <2>2. SoundLog(log, r) /\ IsList(ids) /\ b \in Books /\ b # None /\ r \in Nat \ {0}
      BY <1>1, <1>6, <1>7, <1>8, <1>11, UpToDate DEF IInv, Shapes, Behind
    <2>3. w.cast = submitted /\ w.roles = ChangedRoles(CurrentRolePairs(ids, log), submitted)
      BY <1>4, <1>11
    <2> HIDE DEF b, log, ids, r
    <2>4. InForceAfter(log, r, ids, ids, submitted)
      BY <1>6, <2>1, <2>2, WantedInForce
    <2> QED
      BY <2>3, <2>4 DEF log, ids, r, InForceAfter
  <1>12. RequestTold(m, t.round, w)
    BY <1>4, <1>9, <1>10, <1>11 DEF RequestTold
  <1> QED
    BY <1>1, <1>2, <1>5, <1>12, DecidedTold

-----------------------------------------------------------------------------
(* Writes that lead on.                                                    *)

\* One log after another.
LEMMA Joined ==
  ASSUME NEW a, IsList(a), NEW b, IsList(b)
  PROVE  /\ Len(a \o b) = Len(a) + Len(b)
         /\ DOMAIN (a \o b) = 1 .. Len(a) + Len(b)
         /\ \A i \in 1 .. Len(a) : (a \o b)[i] = a[i]
         /\ \A i \in 1 .. Len(b) : (a \o b)[Len(a) + i] = b[i]
  <1> DEFINE V == ToSet(a) \cup ToSet(b)
  <1>1. /\ Len(a) \in Nat /\ DOMAIN a = 1 .. Len(a) /\ \A i \in DOMAIN a : a[i] \in V
        /\ Len(b) \in Nat /\ DOMAIN b = 1 .. Len(b) /\ \A i \in DOMAIN b : b[i] \in V
    BY ListPositions
  <1>2. a \in Seq(ToSet(a)) /\ b \in Seq(ToSet(b))
    BY DEF IsList
  <1>3. a \in Seq(V) /\ b \in Seq(V)
    <2>1. a = [i \in 1 .. Len(a) |-> a[i]] /\ b = [i \in 1 .. Len(b) |-> b[i]]
      BY <1>1, <1>2
    <2> HIDE DEF V
    <2>2. a \in [1 .. Len(a) -> V] /\ b \in [1 .. Len(b) -> V]
      BY <1>1, <2>1
    <2> QED
      BY <1>1, <2>2, IsSequence
  <1> HIDE DEF V
  <1> QED
    BY <1>1, <1>3

\* The rosters along one log and then along the next.
Onward(c, d, n, p) == [k \in 0 .. n + p |-> IF k <= n THEN c[k] ELSE d[k - n]]

\* Rosters along two logs lead along the one after the other.
LEMMA OnwardLeads ==
  ASSUME NEW log, IsList(log), NEW ex, IsList(ex), NEW A, NEW B, NEW c, NEW d,
         c \in [0 .. Len(log) -> SUBSET DOMAIN Prices], Leads(c, log, A), LeadsFrom(d, ex, A, B)
  PROVE  LET e == Onward(c, d, Len(log), Len(ex))
         IN  e \in [0 .. Len(log \o ex) -> SUBSET DOMAIN Prices] /\ Leads(e, log \o ex, B)
  <1> DEFINE n == Len(log)
             p == Len(ex)
             all == log \o ex
             e == Onward(c, d, n, p)
             P == SUBSET DOMAIN Prices
  <1>1. n \in Nat /\ p \in Nat
    BY ListPositions
  <1>2. /\ Len(all) = n + p
        /\ \A i \in 1 .. n : all[i] = log[i]
        /\ \A i \in 1 .. p : all[n + i] = ex[i]
    BY Joined
  <1>3. /\ c[n] = A
        /\ \A k \in 1 .. n : /\ log[k].out \in c[k - 1] /\ log[k].in \notin c[k - 1]
                             /\ c[k] = (c[k - 1] \ {log[k].out}) \cup {log[k].in}
    BY DEF Leads
  <1>4. /\ d[0] = A /\ d[p] = B
        /\ \A k \in 1 .. p : /\ ex[k].out \in d[k - 1] /\ ex[k].in \notin d[k - 1]
                             /\ d[k] = (d[k - 1] \ {ex[k].out}) \cup {ex[k].in}
    BY DEF LeadsFrom, Leads
  <1>5. c \in [0 .. n -> P] /\ d \in [0 .. p -> P]
    BY DEF LeadsFrom
  <1>6. e = [k \in 0 .. n + p |-> IF k <= n THEN c[k] ELSE d[k - n]]
    BY DEF Onward
  <1> HIDE DEF n, p, all, e, P
  <1>7. (\A k \in 0 .. n : e[k] = c[k]) /\ (\A k \in 0 .. p : e[n + k] = d[k])
    <2>1. ASSUME NEW k \in 0 .. n PROVE e[k] = c[k]
      BY <1>1, <1>6
    <2>2. ASSUME NEW k \in 0 .. p PROVE e[n + k] = d[k]
      <3>1. CASE k = 0
        BY <1>1, <1>3, <1>4, <1>6, <3>1
      <3>2. CASE k # 0
        <4>1. n + k \in 0 .. n + p /\ ~(n + k <= n) /\ (n + k) - n = k
          BY <1>1, <3>2
        <4> QED
          BY <1>6, <4>1
      <3> QED
        BY <3>1, <3>2
    <2> QED
      BY <2>1, <2>2
  <1>8. e \in [0 .. n + p -> P]
    <2>1. ASSUME NEW k \in 0 .. n + p PROVE e[k] \in P
      <3>1. CASE k <= n
        BY <1>1, <1>5, <1>7, <3>1
      <3>2. CASE ~(k <= n)
        <4>1. k - n \in 0 .. p /\ n + (k - n) = k
          BY <1>1, <3>2
        <4> QED
          BY <1>5, <1>7, <4>1
      <3> QED
        BY <3>1, <3>2
    <2> QED
      BY <1>6, <2>1
  <1>9. e[n + p] = B
    BY <1>1, <1>4, <1>7
  <1>10. ASSUME NEW k \in 1 .. n + p
         PROVE  /\ all[k].out \in e[k - 1] /\ all[k].in \notin e[k - 1]
                /\ e[k] = (e[k - 1] \ {all[k].out}) \cup {all[k].in}
    <2>1. CASE k <= n
      <3>1. k \in 1 .. n /\ k \in 0 .. n /\ k - 1 \in 0 .. n
        BY <1>1, <2>1
      <3> QED
        BY <1>2, <1>3, <1>7, <3>1
    <2>2. CASE ~(k <= n)
      <3> DEFINE i == k - n
      <3>1. i \in 1 .. p /\ i \in 0 .. p /\ i - 1 \in 0 .. p /\ n + i = k /\ n + (i - 1) = k - 1
        BY <1>1, <2>2
      <3> HIDE DEF i
      <3>2. all[k] = ex[i] /\ e[k] = d[i] /\ e[k - 1] = d[i - 1]
        BY <1>2, <1>7, <3>1
      <3> QED
        BY <1>4, <3>1, <3>2
    <2> QED
      BY <2>1, <2>2
  <1>11. Leads(e, all, B)
    BY <1>2, <1>9, <1>10 DEF Leads
  <1> QED
    BY <1>2, <1>8, <1>11 DEF e, all, n, p, P

\* Swaps of round r after a log in order up to it.
LEMMA OnwardInOrder ==
  ASSUME NEW log, IsList(log), NEW ex, IsList(ex), NEW r \in Nat \ {0}, InOrder(log, r),
         \A i \in DOMAIN ex : ex[i].round = r
  PROVE  InOrder(log \o ex, r)
  <1> DEFINE n == Len(log)
             p == Len(ex)
             all == log \o ex
  <1>1. n \in Nat /\ p \in Nat /\ DOMAIN log = 1 .. n /\ DOMAIN ex = 1 .. p
    BY ListPositions
  <1>2. /\ DOMAIN all = 1 .. n + p
        /\ \A i \in 1 .. n : all[i] = log[i]
        /\ \A i \in 1 .. p : all[n + i] = ex[i]
    BY Joined
  <1>3. /\ \A i \in 1 .. n : log[i].round \in 1 .. r
        /\ \A i, j \in 1 .. n : i < j => log[i].round <= log[j].round
    BY <1>1 DEF InOrder
  <1> HIDE DEF n, p, all
  <1>4. \A i \in 1 .. n + p : i \in 1 .. n \/ all[i].round = r
    <2> SUFFICES ASSUME NEW i \in 1 .. n + p, i \notin 1 .. n PROVE all[i].round = r
      OBVIOUS
    <2>1. i - n \in 1 .. p /\ n + (i - n) = i
      BY <1>1
    <2> QED
      BY <1>1, <1>2, <2>1
  <1>5. ASSUME NEW i \in 1 .. n + p PROVE all[i].round \in 1 .. r
    <2>1. r \in 1 .. r
      OBVIOUS
    <2> QED
      BY <1>2, <1>3, <1>4, <2>1
  <1>6. ASSUME NEW i \in 1 .. n + p, NEW j \in 1 .. n + p, i < j PROVE all[i].round <= all[j].round
    <2>1. CASE j \in 1 .. n
      <3>1. i \in 1 .. n
        BY <1>1, <1>6, <2>1
      <3> QED
        BY <1>2, <1>3, <1>6, <2>1, <3>1
    <2>2. CASE j \notin 1 .. n
      <3>1. all[j].round = r /\ all[i].round \in 1 .. r
        BY <1>4, <1>5, <2>2
      <3> QED
        BY <3>1
    <2> QED
      BY <2>1, <2>2
  <1> QED
    BY <1>2, <1>5, <1>6 DEF InOrder, all

\* A swap of round r leads on: the rounds before it are as they were.
LEMMA HeldOn ==
  ASSUME NEW log, IsList(log), NEW r \in Nat \ {0}, InOrder(log, r),
         NEW ids, IsList(ids), FullRoster(ids), NEW new, IsList(new), FullRoster(new),
         NEW history, HeldAlong(log, ids, history)
  PROVE  LET all == log \o Exchanges(r, ids, new)
         IN  InOrder(all, r) /\ HeldAlong(all, new, From(r, history, ToSet(new)))
  <1> DEFINE ex == Exchanges(r, ids, new)
             all == log \o ex
             n == Len(log)
             p == Len(ex)
             A == ToSet(ids)
             B == ToSet(new)
             later == From(r, history, B)
  <1>1. IsList(ex)
    BY ExchangesAreListed
  <1>2. (\A i \in DOMAIN ex : ex[i].round = r) /\ \E d : LeadsFrom(d, ex, A, B)
    BY ExchangesLead
  <1>3. PICK c \in [0 .. n -> SUBSET DOMAIN Prices] :
          /\ Leads(c, log, A)
          /\ \A x \in Rounds : \A j \in 0 .. n : InRounds(log, j, x) => history[x] = c[j]
    BY DEF HeldAlong
  <1>4. n \in Nat /\ DOMAIN log = 1 .. n /\ \A i \in 1 .. n : log[i].round \in 1 .. r
    BY ListPositions DEF InOrder
  <1> HIDE DEF ex
  <1>5. PICK d : LeadsFrom(d, ex, A, B)
    BY <1>2
  <1>6. p \in Nat /\ DOMAIN ex = 1 .. p
    BY <1>1, ListPositions
  <1>7. InOrder(all, r)
    BY <1>1, <1>2, OnwardInOrder
  <1>8. /\ Len(all) = n + p
        /\ \A i \in 1 .. n : all[i] = log[i]
        /\ \A i \in 1 .. p : all[n + i] = ex[i]
    BY <1>1, Joined
  <1> DEFINE e == Onward(c, d, n, p)
  <1> HIDE DEF A, B
  <1>9. e \in [0 .. Len(all) -> SUBSET DOMAIN Prices] /\ Leads(e, all, B)
    BY <1>1, <1>3, <1>5, OnwardLeads
  <1>10. e = [k \in 0 .. n + p |-> IF k <= n THEN c[k] ELSE d[k - n]]
    BY DEF Onward
  <1>11. e[n + p] = B
    BY <1>8, <1>9 DEF Leads
  <1>12. later = [x \in Rounds |-> IF x >= r THEN B ELSE history[x]]
    BY DEF From
  <1> HIDE DEF n, p, all, e, later
  <1>13. ASSUME NEW x \in Rounds, NEW j \in 0 .. n + p, InRounds(all, j, x)
         PROVE  later[x] = e[j]
    <2>1. x \in Int
      BY SeasonAssumption DEF Rounds
    <2>2. \A k \in 1 .. n + p : all[k].round <= x <=> k <= j
      BY <1>8, <1>13 DEF InRounds
    <2>3. CASE x >= r
      <3>1. \A k \in 1 .. n + p : all[k].round <= r /\ all[k].round \in Int
        <4>1. DOMAIN all = 1 .. n + p
          BY <1>1, Joined DEF all, n, p
        <4> QED
          BY <1>7, <4>1 DEF InOrder
      <3>2. \A k \in 1 .. n + p : k <= j
        BY <2>1, <2>2, <2>3, <3>1
      <3>3. j = n + p
        <4>1. CASE n + p = 0
          BY <1>4, <1>6, <4>1
        <4>2. CASE n + p # 0
          <5>1. n + p \in 1 .. n + p
            BY <1>4, <1>6, <4>2
          <5> QED
            BY <1>4, <1>6, <3>2, <5>1
        <4> QED
          BY <4>1, <4>2
      <3> QED
        BY <1>11, <1>12, <2>3, <3>3
    <2>4. CASE ~(x >= r)
      <3>1. \A i \in 1 .. p : ~(n + i <= j)
        <4> SUFFICES ASSUME NEW i \in 1 .. p PROVE ~(n + i <= j)
          OBVIOUS
        <4>1. n + i \in 1 .. n + p /\ all[n + i].round = r
          BY <1>2, <1>4, <1>6, <1>8
        <4>2. ~(r <= x)
          BY <2>1, <2>4
        <4> QED
          BY <2>2, <4>1, <4>2
      <3>2. j \in 0 .. n
        <4>1. CASE p = 0
          BY <1>4, <4>1
        <4>2. CASE p # 0
          <5>1. 1 \in 1 .. p
            BY <1>6, <4>2
          <5>2. ~(n + 1 <= j)
            BY <3>1, <5>1
          <5> QED
            BY <1>4, <5>2
        <4> QED
          BY <4>1, <4>2
      <3>3. \A k \in 1 .. n : log[k].round <= x <=> k <= j
        <4>1. \A k \in 1 .. n : k \in 1 .. n + p
          BY <1>4, <1>6
        <4> QED
          BY <1>8, <2>2, <4>1
      <3>4. InRounds(log, j, x)
        BY <3>3 DEF InRounds, n
      <3>5. history[x] = c[j]
        BY <1>3, <3>2, <3>4
      <3>6. e[j] = c[j]
        BY <1>4, <1>6, <1>10, <3>2
      <3> QED
        BY <1>12, <2>4, <3>5, <3>6
    <2> QED
      BY <2>3, <2>4
  <1>14. HeldAlong(all, new, later)
    BY <1>8, <1>9, <1>13 DEF HeldAlong, B
  <1> QED
    BY <1>7, <1>14 DEF all, ex, later, B

\* So do roles written in round r.
LEMMA CastOn ==
  ASSUME NEW log, NEW r \in Nat \ {0}, SoundLog(log, r), NEW pairs, OncePerHero(pairs),
         NEW b, b # None, NEW new, IsList(new),
         LockRoleViolations(new, CurrentRolePairs(new, UpsertEntryRoles(log, r, pairs)), b) = {},
         NEW given, given = ToSet(CurrentRolePairs(new, UpsertEntryRoles(log, r, pairs))),
         NEW history, NEW played, CastAlong(b, log, history, played)
  PROVE  CastAlong(b, UpsertEntryRoles(log, r, pairs), From(r, history, ToSet(new)), From(r, played, given))
  <1> DEFINE all == UpsertEntryRoles(log, r, pairs)
             then == From(r, history, ToSet(new))
             now == From(r, played, given)
  <1>1. SoundLog(all, r)
    BY UpsertSound
  <1>2. /\ then = [x \in Rounds |-> IF x >= r THEN ToSet(new) ELSE history[x]]
        /\ now = [x \in Rounds |-> IF x >= r THEN given ELSE played[x]]
    BY DEF From
  <1> HIDE DEF then, now
  <1>3. ASSUME NEW x \in Rounds
        PROVE  /\ now[x] = CastOf(all, then[x], x)
               /\ \A h \in then[x] : RoleAt(all, h, x) \in DOMAIN b
    <2>0. x \in Nat /\ x \in Int
      BY SeasonAssumption DEF Rounds
    <2>1. CASE x >= r
      <3>1. then[x] = ToSet(new) /\ now[x] = given
        BY <1>2, <2>1
      <3>2. r <= x /\ r \in Nat
        BY <2>0, <2>1
      <3> HIDE DEF all
      <3>3. /\ ToSet(CurrentRolePairs(new, all)) = CastOf(all, ToSet(new), x)
            /\ \A h \in ToSet(new) : RoleAt(all, h, x) \in DOMAIN b
        BY <1>1, <2>0, <3>2, CompleteCast DEF all
      <3> QED
        BY <3>1, <3>3 DEF all
    <2>2. CASE ~(x >= r)
      <3>1. then[x] = history[x] /\ now[x] = played[x]
        BY <1>2, <2>2
      <3>2. x < r /\ r \in Int
        BY <2>0, <2>2
      <3>3. \A h : RoleAt(all, h, x) = RoleAt(log, h, x)
        BY <2>0, <3>2, EarlierRoles
      <3>4. /\ played[x] = CastOf(log, history[x], x)
            /\ \A h \in history[x] : RoleAt(log, h, x) \in DOMAIN b
        BY DEF CastAlong
      <3> HIDE DEF all
      <3>5. CastOf(log, history[x], x) = CastOf(all, history[x], x)
        BY <3>3 DEF CastOf
      <3> QED
        BY <3>1, <3>3, <3>4, <3>5
    <2> QED
      BY <2>1, <2>2
  <1>4. CastAlong(b, all, then, now)
    BY <1>3 DEF CastAlong
  <1> QED
    BY <1>4 DEF all, then, now

\* A request that wrote and is over: the others of its entry have yet to decide.
LEMMA EndedTold ==
  ASSUME IInv, HistoryInv, NEW s \in InFlight, req[s].writes # None, End(s),
         UNCHANGED <<round, book>>, DOMAIN held' = Managers, DOMAIN cast' = Managers,
         \A x \in Managers \ {Owner[s]} : Left(x),
         EntryTold(Owner[s])'
  PROVE  HistoryInv'
  <1>1. /\ s \in Sessions /\ DOMAIN req = Sessions /\ Owner[s] \in Managers
        /\ req' = [req EXCEPT ![s] = None]
    BY SeasonAssumption DEF IInv, Shapes, InFlight, End
  <1>2. req'[s] = None /\ \A o \in Sessions \ {s} : req'[o] = req[o]
    BY <1>1
  <1>3. round \in Nat /\ round' \in Nat /\ round <= round'
    BY DEF IInv, Shapes
  <1>4. \A x \in Managers : EntryTold(x)'
    <2>1. ASSUME NEW x \in Managers, x # Owner[s] PROVE EntryTold(x)'
      <3>1. Left(x) /\ EntryTold(x)
        BY <2>1 DEF HistoryInv
      <3> QED
        BY <1>3, <2>1, <3>1, EntryStays
    <2> QED
      BY <2>1
  <1>5. ASSUME NEW o \in InFlight' PROVE RequestTold(Owner[o], req[o].t.round, req[o].writes)'
    <2>1. o \in InFlight /\ o # s /\ req'[o] = req[o] /\ Owner[o] \in Managers
      BY <1>2, SeasonAssumption DEF InFlight
    <2>2. RequestTold(Owner[o], req[o].t.round, req[o].writes)
      BY <2>1 DEF HistoryInv
    <2>3. CASE Owner[o] = Owner[s]
      <3>1. lock[Owner[s]] = s
        BY <2>1, <2>3 DEF IInv
      <3>2. req[o].writes = None
        BY <2>1, <2>3, <3>1 DEF IInv
      <3> QED
        BY <2>1, <3>2, RequestWaits
    <2>4. CASE Owner[o] # Owner[s]
      <3>1. Left(Owner[o])
        BY <2>1, <2>4
      <3> QED
        BY <2>1, <2>2, <3>1, RequestStays
    <2> QED
      BY <2>3, <2>4
  <1> QED
    BY <1>4, <1>5 DEF HistoryInv

\* What a request decided on leads on from the entry, which is as it found it.
LEMMA CommitTold ==
  ASSUME IInv, Stored, HistoryInv, NEW s \in Sessions, Commit(s)
  PROVE  HistoryInv'
  <1> DEFINE m == Owner[s]
             r == req[s].t.round
             w == req[s].writes
  <1>1. s \in InFlight /\ m \in Managers /\ w # None
    BY SeasonAssumption DEF Commit, InFlight
  <1>2. /\ End(s) /\ UNCHANGED <<round, book, entry>>
        /\ swaps' = [swaps EXCEPT ![m] = @ \o w.swaps]
    BY DEF Commit, tournament
  <1>3. /\ IsList(w.slots) /\ IsList(slots[m]) /\ IsList(swaps[m])
        /\ DOMAIN slots = Managers /\ DOMAIN roles = Managers /\ DOMAIN swaps = Managers
        /\ DOMAIN held = Managers /\ DOMAIN cast = Managers
    BY <1>1 DEF IInv, Shapes, Stored, HistoryInv
  <1>4. r \in Nat \ {0} /\ r \in 1 .. round /\ round \in Nat
    BY <1>1, RequestRound DEF IInv, Shapes
  <1>5. book # None => SoundLog(roles[m], round) /\ SoundWrites(m, r, w)
    BY <1>1 DEF IInv
  <1>6. EntryTold(m) /\ RequestTold(m, r, w)
    BY <1>1 DEF HistoryInv
  <1>7. swaps'[m] = swaps[m] \o w.swaps /\ \A x \in Managers \ {m} : swaps'[x] = swaps[x]
    BY <1>1, <1>2, <1>3
  <1>8. s \in InFlight /\ Owner[s] = m /\ req[s].t.round = r /\ req[s].writes = w
    BY <1>1
  <1>9. CASE entry[m] = "LOCKED"
    <2>1. /\ slots' = [slots EXCEPT ![m] = w.slots]
          /\ roles' = [roles EXCEPT ![m] = UpsertEntryRoles(@, r, w.roles)]
          /\ held' = [held EXCEPT ![m] = From(r, @, ToSet(w.slots))]
          /\ cast' = [cast EXCEPT ![m] = From(r, @, ToSet(w.cast))]
          /\ overtaken' = IF Behind(m, r) THEN overtaken \cup {m} ELSE overtaken
      BY <1>9 DEF Commit
    <2> HIDE DEF m, r, w
    <2>2. /\ slots'[m] = w.slots /\ roles'[m] = UpsertEntryRoles(roles[m], r, w.roles)
          /\ held'[m] = From(r, held[m], ToSet(w.slots)) /\ cast'[m] = From(r, cast[m], ToSet(w.cast))
          /\ DOMAIN held' = Managers /\ DOMAIN cast' = Managers
      BY <1>1, <1>3, <2>1
    <2>3. \A x \in Managers \ {m} : Left(x)
      BY <1>1, <1>2, <1>3, <1>7, <2>1 DEF Left
    <2>4. FullRoster(slots[m]) /\ FullRoster(w.slots) /\ w.swaps = Exchanges(r, slots[m], w.slots)
      BY <1>1, <1>6, <1>9 DEF EntryTold, RequestTold
    <2>5. DOMAIN held'[m] = Rounds /\ DOMAIN cast'[m] = Rounds
      BY <2>2 DEF From
    <2>6. m \notin overtaken' <=> m \notin overtaken /\ ~Behind(m, r)
      BY <2>1
    <2>7. ASSUME m \notin overtaken'
          PROVE  /\ InOrder(swaps'[m], round) /\ HeldAlong(swaps'[m], w.slots, held'[m])
                 /\ book # None => CastAlong(book, roles'[m], held'[m], cast'[m])
      <3>1. InOrder(swaps[m], round) /\ HeldAlong(swaps[m], slots[m], held[m])
        BY <1>6, <1>9, <2>6, <2>7 DEF EntryTold
      <3>2. InOrder(swaps[m], r)
        <4> DEFINE log == swaps[m]
        <4>1. InOrder(log, round) /\ \A i \in DOMAIN log : ~(log[i].round > r)
          BY <2>6, <2>7, <3>1 DEF Behind
        <4> HIDE DEF log
        <4>2. InOrder(log, r)
          BY <1>4, <4>1 DEF InOrder
        <4> QED
          BY <4>2 DEF log
      <3>3. InOrder(swaps'[m], r) /\ HeldAlong(swaps'[m], w.slots, held'[m])
        BY <1>3, <1>4, <1>7, <2>2, <2>4, <3>1, <3>2, HeldOn
      <3>4. InOrder(swaps'[m], round)
        <4>1. r \in Nat /\ r <= round
          BY <1>4
        <4> QED
          BY <1>4, <3>3, <4>1, InOrderLater
      <3>5. ASSUME book # None PROVE CastAlong(book, roles'[m], held'[m], cast'[m])
        <4> DEFINE b == book
                   log == roles[m]
                   given == ToSet(w.cast)
        <4>1. SoundLog(log, r) /\ OncePerHero(w.roles) /\ b # None
          BY <1>4, <1>5, <2>6, <2>7, <3>5, UpToDate DEF SoundWrites, Behind
        <4>2. LockRoleViolations(w.slots, CurrentRolePairs(w.slots, UpsertEntryRoles(log, r, w.roles)), b) = {}
          BY <1>5, <1>9, <2>6, <2>7, <3>5 DEF SoundWrites, Complete, Tolerated
        <4>3. given = ToSet(CurrentRolePairs(w.slots, UpsertEntryRoles(log, r, w.roles)))
          BY <1>1, <1>6, <1>9, <2>6, <2>7, <3>5 DEF RequestTold
        <4>4. CastAlong(b, log, held[m], cast[m])
          BY <1>6, <1>9, <2>6, <2>7, <3>5 DEF EntryTold
        <4> HIDE DEF b, log, given
        <4>5. CastAlong(b, UpsertEntryRoles(log, r, w.roles), From(r, held[m], ToSet(w.slots)),
                        From(r, cast[m], given))
          BY <1>3, <1>4, <4>1, <4>2, <4>3, <4>4, CastOn
        <4> QED
          BY <2>2, <4>5 DEF b, log, given
      <3> QED
        BY <3>3, <3>4, <3>5
    <2>8. EntryTold(m)'
      <3>1. entry'[m] = "LOCKED" /\ book' = book /\ round' = round
        BY <1>2, <1>9
      <3> QED
        BY <2>2, <2>4, <2>5, <2>7, <3>1 DEF EntryTold, m
    <2> QED
      BY <1>2, <1>1, <1>8, <2>2, <2>3, <2>8, EndedTold DEF m
  <1>10. CASE entry[m] # "LOCKED"
    <2>1. /\ roles' = [roles EXCEPT ![m] = ReplaceDraftRoles(w.roles)]
          /\ UNCHANGED <<slots, held, cast, overtaken>>
      BY <1>10 DEF Commit
    <2> HIDE DEF m, r, w
    <2>2. swaps[m] = <<>> /\ w.swaps = <<>>
      BY <1>1, <1>6, <1>10 DEF EntryTold, RequestTold
    <2>3. swaps'[m] = <<>>
      BY <1>7, <2>2
    <2>4. \A x \in Managers \ {m} : Left(x)
      BY <1>1, <1>2, <1>3, <1>7, <2>1 DEF Left
    <2>5. \A a \in roles'[m] : a.from = 1
      <3>1. roles'[m] = UpsertEntryRoles({}, 1, w.roles)
        BY <1>1, <1>3, <2>1 DEF ReplaceDraftRoles
      <3> DEFINE none == {}
      <3>2. \A a : a \in UpsertEntryRoles(none, 1, w.roles)
                 <=> \/ a \in none /\ \A p \in ToSet(w.roles) : a.hero # p[1] \/ a.from # 1
                     \/ \E p \in ToSet(w.roles) : a = [hero |-> p[1], from |-> 1, role |-> p[2]]
        BY UpsertRows
      <3> QED
        BY <3>1, <3>2
    <2>6. InOrder(swaps'[m], round)
      BY <2>3 DEF InOrder
    <2>7. EntryTold(m)'
      <3>1. /\ entry'[m] # "LOCKED" /\ round' = round
            /\ DOMAIN held'[m] = Rounds /\ DOMAIN cast'[m] = Rounds
        BY <1>2, <1>6, <1>10, <2>1 DEF EntryTold
      <3> QED
        BY <2>3, <2>5, <2>6, <3>1 DEF EntryTold, m
    <2>8. DOMAIN held' = Managers /\ DOMAIN cast' = Managers
      BY <1>3, <2>1
    <2> QED
      BY <1>1, <1>2, <1>8, <2>4, <2>7, <2>8, EndedTold DEF m
  <1> QED
    BY <1>9, <1>10

\* A request that is dropped writes nothing.
LEMMA AbortTold ==
  ASSUME IInv, HistoryInv, NEW s \in Sessions, Abort(s)
  PROVE  HistoryInv'
  <1>1. /\ req' = [req EXCEPT ![s] = None] /\ DOMAIN req = Sessions
        /\ UNCHANGED <<round, book, entry, slots, swaps, roles, held, cast, overtaken>>
    BY DEF Abort, End, tournament, entries, IInv, Shapes
  <1>2. req'[s] = None /\ \A o \in Sessions \ {s} : req'[o] = req[o]
    BY <1>1
  <1>3. InFlight' \subseteq InFlight /\ \A o \in InFlight' : req'[o] = req[o]
    BY <1>2 DEF InFlight
  <1> QED
    BY <1>1, <1>3, HistoryStays

\* Every step keeps it.
LEMMA HistoryNext == IInv /\ Stored /\ HistoryInv /\ [Next]_vars => HistoryInv'
  <1> SUFFICES ASSUME IInv, Stored, HistoryInv, [Next]_vars PROVE HistoryInv'
    OBVIOUS
  <1>1. ASSUME UNCHANGED <<book, entry, slots, swaps, roles, held, cast, overtaken, req>>,
               round' = round \/ round' = round + 1
        PROVE  HistoryInv'
    <2>1. InFlight' = InFlight
      BY <1>1 DEF InFlight
    <2> QED
      BY <1>1, <2>1, HistoryStays
  <1>2. ASSUME NEW m \in Managers, Manager(m) PROVE HistoryInv'
    BY <1>2, LockRosterTold, SetSlotsTold DEF Manager
  <1>3. ASSUME NEW s \in Sessions, Session(s) PROVE HistoryInv'
    <2>1. CASE \E kind \in {"swap", "roles"} : Begin(s, kind)
      BY <2>1, BeginTold
    <2>2. CASE LoadForSwap(s)
      BY <2>2, LoadForSwapTold
    <2>3. CASE LoadForRoles(s)
      BY <2>3, LoadForRolesTold
    <2>4. CASE Commit(s)
      BY <2>4, CommitTold
    <2>5. CASE Abort(s)
      BY <2>5, AbortTold
    <2> QED
      BY <1>3, <2>1, <2>2, <2>3, <2>4, <2>5 DEF Session
  <1>4. CASE Admin
    <2>1. CASE AdvanceRound
      BY <1>1, <2>1 DEF AdvanceRound, entries
    <2>2. CASE \E open \in BOOLEAN : SetSwapWindow(open)
      BY <1>1, <2>2 DEF SetSwapWindow, entries
    <2>3. CASE \E st \in Statuses \ {"COMPLETED"} : SaveStatus(st)
      BY <2>3, SaveStatusTold
    <2> QED
      BY <1>4, <2>1, <2>2, <2>3 DEF Admin
  <1>5. CASE Late
    <2>1. CASE \E st \in Statuses \cap {"COMPLETED"} : SaveStatus(st)
      BY <2>1, SaveStatusTold
    <2>2. CASE \E h \in Droppable : DropFromPool(h)
      BY <1>1, <2>2 DEF DropFromPool, entries
    <2>3. CASE \E f \in Fixtures, r \in Rounds :
                 RecordMatch(f, r) \/ \E i \in DOMAIN matches : CorrectMatch(i, f, r)
      BY <1>1, <2>3 DEF RecordMatch, CorrectMatch, tournament, entries
    <2>4. CASE \E i \in DOMAIN matches : DeleteMatch(i)
      BY <1>1, <2>4 DEF DeleteMatch, tournament, entries
    <2> QED
      BY <1>5, <2>1, <2>2, <2>3, <2>4 DEF Late
  <1>6. CASE UNCHANGED vars
    BY <1>1, <1>6 DEF vars, tournament, entries
  <1> QED
    BY <1>2, <1>3, <1>4, <1>5, <1>6 DEF Next, Ongoing

\* The two logs tell what was held and played in every round, for every manager none of
\* whose requests has written behind rows of a later round: whoever writes to them holds
\* the row and found what the log leads to (service.rs swap_roster, set_roles; query.rs
\* insert_roster_swaps, upsert_entry_roles).
THEOREM HistoryTold == Spec => []HistoryInv
  <1>1. Init => HistoryInv
    BY HistoryInit
  <1>2. IInv /\ Stored /\ HistoryInv /\ [Next]_vars => HistoryInv'
    BY HistoryNext
  <1> QED
    BY <1>1, <1>2, Inductive, StoredIsReadable, PTL DEF Spec

-----------------------------------------------------------------------------
(* The board's folds and the history.                                      *)

\* The swaps of a log in order up to any round come first in it.
LEMMA RoundsCutTheLog ==
  ASSUME NEW log, IsList(log), NEW q \in Nat, InOrder(log, q), NEW r \in Nat
  PROVE  \E j \in 0 .. Len(log) : InRounds(log, j, r)
  <1> DEFINE n == Len(log)
             past == {k \in 1 .. n : log[k].round <= r}
  <1>1. n \in Nat /\ DOMAIN log = 1 .. n
    BY ListPositions
  <1>2. \A k \in 1 .. n : log[k].round \in Int
    BY <1>1 DEF InOrder
  <1>3. \A i, j \in 1 .. n : i < j => log[i].round <= log[j].round
    BY <1>1 DEF InOrder
  <1> HIDE DEF n
  <1>4. CASE past = {}
    <2>1. InRounds(log, 0, r)
      BY <1>4 DEF InRounds, n
    <2>2. 0 \in 0 .. n
      BY <1>1
    <2> QED
      BY <2>1, <2>2 DEF n
  <1>5. CASE past # {}
    <2> DEFINE j == Max(past)
    <2>1. past \in SUBSET (1 .. n)
      OBVIOUS
    <2>2. j \in past /\ \A y \in past : y <= j
      <3> HIDE DEF past
      <3> QED
        BY <1>1, <1>5, <2>1, LargestExists
    <2> HIDE DEF j
    <2>3. \A k \in 1 .. n : log[k].round <= r <=> k <= j
      <3> SUFFICES ASSUME NEW k \in 1 .. n PROVE log[k].round <= r <=> k <= j
        OBVIOUS
      <3>1. log[k].round <= r => k <= j
        BY <2>2
      <3>2. ASSUME k <= j PROVE log[k].round <= r
        <4>1. j \in 1 .. n /\ log[j].round <= r
          BY <2>2
        <4>2. CASE k = j
          BY <4>1, <4>2
        <4>3. CASE k # j
          <5>1. k < j
            BY <1>1, <3>2, <4>1, <4>3
          <5>2. log[k].round <= log[j].round
            BY <1>3, <4>1, <5>1
          <5> QED
            BY <1>2, <4>1, <5>2
        <4> QED
          BY <4>2, <4>3
      <3> QED
        BY <3>1, <3>2
    <2>4. InRounds(log, j, r)
      BY <2>3 DEF InRounds, n
    <2>5. j \in 0 .. n
      BY <1>1, <2>2
    <2> QED
      BY <2>4, <2>5 DEF n
  <1> QED
    BY <1>4, <1>5

\* The holdings the board folds cover in every round the heroes held in it.
LEMMA HoldingsCover ==
  ASSUME IInv, Stored, HistoryInv, NEW m \in Lockers, m \notin overtaken, NEW r \in Rounds
  PROVE  CoversIn(Holdings(RosterOf(m)), r, held[m][r])
  <1> DEFINE e == RosterOf(m)
             log == swaps[m]
  <1>1. m \in Managers /\ entry[m] = "LOCKED"
    BY DEF Lockers
  <1>2. /\ InOrder(log, round) /\ FullRoster(slots[m]) /\ HeldAlong(log, slots[m], held[m])
        /\ IsList(slots[m]) /\ IsList(log) /\ round \in Nat
    BY <1>1 DEF HistoryInv, EntryTold, IInv, Shapes, Stored
  <1>3. SwapLog(m) = log
    BY <1>1, <1>2, SwapLogInOrder
  <1>4. e.heroes = slots[m] /\ e.swaps = log
    BY <1>3 DEF RosterOf
  <1> HIDE DEF e, log
  <1>5. PICK c \in [0 .. Len(log) -> SUBSET DOMAIN Prices] :
          /\ Leads(c, log, ToSet(slots[m]))
          /\ \A x \in Rounds : \A j \in 0 .. Len(log) : InRounds(log, j, x) => held[m][x] = c[j]
    BY <1>2 DEF HeldAlong
  <1>6. r \in Nat /\ r \in Nat \ {0}
    BY SeasonAssumption DEF Rounds
  <1>7. PICK j \in 0 .. Len(log) : InRounds(log, j, r)
    BY <1>2, <1>6, RoundsCutTheLog
  <1>8. Roster(slots[m], ToSet(slots[m]))
    BY <1>2, FullRosters
  <1>9. HoldingsTold(e, c)
    BY <1>2, <1>4, <1>5, <1>8, HoldingsTell
  <1>10. CoversIn(Holdings(e), r, c[j])
    BY <1>4, <1>6, <1>7, <1>9 DEF HoldingsTold
  <1>11. held[m][r] = c[j]
    BY <1>5, <1>7
  <1> QED
    BY <1>10, <1>11 DEF e

\* What a manager's heroes did in these matches, and what the board banks of them.
MineIn(m, which) ==
  {a \in Appearances(matches) : a[1] \in which /\ a[2].hero \in held[m][matches[a[1]].round]}

BankedIn(m, which) == {p \in Banked(RosterOf(m), matches) : p[2] \in which}

Appearing(m, which) == [p \in BankedIn(m, which) |-> <<p[2], p[3]>>]

\* One by one they are the same.
LEMMA BankedOnce ==
  ASSUME IInv, Stored, HistoryInv, NEW m \in Lockers, m \notin overtaken, NEW which
  PROVE  Renames(Appearing(m, which), BankedIn(m, which), MineIn(m, which))
  <1> DEFINE xs == Holdings(RosterOf(m))
             B == BankedIn(m, which)
             A == MineIn(m, which)
             name == Appearing(m, which)
  <1>1. ASSUME NEW a \in Appearances(matches)
        PROVE  /\ CoversIn(xs, matches[a[1]].round, held[m][matches[a[1]].round])
               /\ a = <<a[1], a[2]>>
    <2>1. matches[a[1]].round \in Rounds /\ a = <<a[1], a[2]>>
      BY AppearancesFinite DEF Appears, Stored
    <2> QED
      BY <2>1, HoldingsCover
  <1>2. \A p : p \in B <=> \E k \in DOMAIN xs : \E a \in Appearances(matches) :
                 /\ xs[k].hero = a[2].hero /\ Covers(xs[k], matches[a[1]].round)
                 /\ p = <<k, a[1], a[2]>> /\ p[2] \in which
    <2> HIDE DEF xs
    <2> QED
      BY DEF BankedIn, Banked, xs
  <1>3. name = [p \in B |-> <<p[2], p[3]>>]
    BY DEF Appearing
  <1>4. \A a : a \in A <=> /\ a \in Appearances(matches) /\ a[1] \in which
                           /\ a[2].hero \in held[m][matches[a[1]].round]
    BY DEF MineIn
  <1> HIDE DEF xs, B, A, name
  <1>5. ASSUME NEW p \in B
        PROVE  \E k \in DOMAIN xs : \E a \in A :
                 /\ xs[k].hero = a[2].hero /\ Covers(xs[k], matches[a[1]].round)
                 /\ p = <<k, a[1], a[2]>> /\ name[p] = a
    <2>1. PICK k \in DOMAIN xs : \E a \in Appearances(matches) :
                 /\ xs[k].hero = a[2].hero /\ Covers(xs[k], matches[a[1]].round)
                 /\ p = <<k, a[1], a[2]>> /\ p[2] \in which
      BY <1>2
    <2>2. PICK a \in Appearances(matches) :
                 /\ xs[k].hero = a[2].hero /\ Covers(xs[k], matches[a[1]].round)
                 /\ p = <<k, a[1], a[2]>> /\ p[2] \in which
      BY <2>1
    <2>3. name[p] = a /\ a[1] \in which
      BY <1>1, <1>3, <2>2
    <2>4. a[2].hero \in held[m][matches[a[1]].round]
      BY <1>1, <2>2 DEF CoversIn
    <2>5. a \in A
      BY <1>4, <2>3, <2>4
    <2> QED
      BY <2>2, <2>3, <2>5
  <1>6. \A p \in B : name[p] \in A
    BY <1>5
  <1>7. ASSUME NEW p \in B, NEW q \in B, name[p] = name[q] PROVE p = q
    <2>1. PICK k \in DOMAIN xs : \E a \in A :
                 /\ xs[k].hero = a[2].hero /\ Covers(xs[k], matches[a[1]].round)
                 /\ p = <<k, a[1], a[2]>> /\ name[p] = a
      BY <1>5
    <2>2. PICK l \in DOMAIN xs : \E a \in A :
                 /\ xs[l].hero = a[2].hero /\ Covers(xs[l], matches[a[1]].round)
                 /\ q = <<l, a[1], a[2]>> /\ name[q] = a
      BY <1>5
    <2> DEFINE a == name[p]
               x == matches[a[1]].round
    <2>3. /\ a \in A /\ xs[k].hero = a[2].hero /\ xs[l].hero = a[2].hero
          /\ Covers(xs[k], x) /\ Covers(xs[l], x) /\ p = <<k, a[1], a[2]>> /\ q = <<l, a[1], a[2]>>
      BY <1>7, <2>1, <2>2
    <2>4. CoversIn(xs, x, held[m][x])
      BY <1>1, <1>4, <2>3
    <2> HIDE DEF a, x
    <2>5. k = l
      BY <2>3, <2>4 DEF CoversIn
    <2> QED
      BY <2>3, <2>5
  <1>8. ASSUME NEW a \in A PROVE \E p \in B : name[p] = a
    <2> DEFINE x == matches[a[1]].round
    <2>1. a \in Appearances(matches) /\ a[1] \in which /\ a[2].hero \in held[m][x]
      BY <1>4
    <2>2. CoversIn(xs, x, held[m][x]) /\ a = <<a[1], a[2]>>
      BY <1>1, <2>1
    <2> HIDE DEF x
    <2>3. PICK k \in DOMAIN xs : xs[k].hero = a[2].hero /\ Covers(xs[k], x)
      BY <2>1, <2>2 DEF CoversIn
    <2> DEFINE p == <<k, a[1], a[2]>>
    <2>4. p \in B
      BY <1>2, <2>1, <2>3 DEF x
    <2>5. name[p] = a
      BY <1>3, <2>2, <2>4
    <2> QED
      BY <2>4, <2>5
  <1> QED
    BY <1>6, <1>7, <1>8 DEF Renames, name, B, A

-----------------------------------------------------------------------------
(* What the board adds up.                                                 *)

\* What an appearance is worth to a manager: its score, and a bonus for its role.
BonusFor(m, a) == BonusOf(RosterOf(m), book, matches[a[1]], a[2])

ScoreFor(a) == Score(matches[a[1]], a[2], Rules)

BonusesIn(m, S) == [a \in S |-> BonusFor(m, a)]
ScoresIn(S) == [a \in S |-> ScoreFor(a)]
WorthsIn(m, S) == [a \in S |-> ScoreFor(a) + BonusFor(m, a)]

\* Finitely many whole numbers.
LEMMA WorthsType ==
  ASSUME IInv, Stored, NEW m, NEW S \in SUBSET Appearances(matches)
  PROVE  /\ IsFiniteSet(S) /\ \A a \in S : Appears(a) /\ a = <<a[1], a[2]>>
         /\ Numbers(BonusesIn(m, S), S) /\ Numbers(ScoresIn(S), S) /\ Numbers(WorthsIn(m, S), S)
  <1>1. IsFiniteSet(S) /\ \A a \in S : Appears(a) /\ a = <<a[1], a[2]>>
    BY AppearancesFinite, FS_Subset
  <1>2. book \in Books
    BY DEF IInv, Shapes
  <1>3. ASSUME NEW a \in S PROVE BonusFor(m, a) \in Int /\ ScoreFor(a) \in Int
    <2>1. Appears(a) /\ Recordable(matches[a[1]]) /\ a[2] \in HeroContexts(matches[a[1]])
      BY <1>1 DEF Appears, Stored
    <2>2. BonusFor(m, a) \in Int
      BY <1>2, <2>1, BonusIsNumber DEF BonusFor
    <2>3. ScoreFor(a) \in Int
      BY <2>1, ScoreType DEF ScoreFor
    <2> QED
      BY <2>2, <2>3
  <1> QED
    BY <1>1, <1>3 DEF Numbers, BonusesIn, ScoresIn, WorthsIn

\* A column's value for an appearance.
InColumn(m, metric, a) ==
  IF metric = RoleBonusMetric THEN BonusFor(m, a) ELSE Priced(matches[a[1]], a[2], metric, Rules)

\* All columns of an appearance are its worth.
LEMMA ColumnsAddUp ==
  ASSUME IInv, Stored, NEW m, NEW a, Appears(a)
  PROVE  LET columns == Columns(Rules, book)
         IN  SumFunctionOnSet([metric \in columns |-> InColumn(m, metric, a)], columns)
               = ScoreFor(a) + BonusFor(m, a)
  <1> DEFINE C == Columns(Rules, book)
             M == ScoredMetrics(Rules)
             R == IF book = None THEN {} ELSE {RoleBonusMetric}
             f == [metric \in C |-> InColumn(m, metric, a)]
             g == [metric \in M |-> Priced(matches[a[1]], a[2], metric, Rules)]
  <1>1. RoleBonusMetric \notin M
    BY DEF RoleBonusMetric, ScoredMetrics, Known
  <1>2. C = M \cup R /\ M \cap R = {}
    BY <1>1 DEF Columns
  <1>3. IsFiniteSet(M) /\ IsFiniteSet(R)
    BY FiniteMetrics, FS_EmptySet, FS_Singleton
  <1>4. BonusFor(m, a) \in Int
    BY BonusIsNumber DEF BonusFor, IInv, Shapes
  <1>5. \A metric \in M : f[metric] = g[metric] /\ g[metric] \in Int
    BY <1>1, <1>2, PricedIsNumber DEF InColumn
  <1>6. \A metric \in R : f[metric] = BonusFor(m, a)
    <2>1. \A metric \in R : metric = RoleBonusMetric /\ metric \in C
      BY <1>2
    <2> QED
      BY <2>1 DEF InColumn
  <1>7. ScoreFor(a) = SumFunction(g) /\ DOMAIN g = M
    BY DEF ScoreFor, Score
  <1>8. book = None => R = {} /\ BonusFor(m, a) = 0
    BY DEF BonusFor, BonusOf
  <1>9. book # None => R = {RoleBonusMetric}
    OBVIOUS
  <1> HIDE DEF C, M, R, f, g
  <1>10. Numbers(f, M \cup R) /\ Numbers(g, M) /\ Alike(g, f, M)
    BY <1>4, <1>5, <1>6 DEF Numbers, Alike
  <1>11. SumFunctionOnSet(f, C) = SumFunctionOnSet(f, M) + SumFunctionOnSet(f, R)
    BY <1>2, <1>3, <1>10, SumOfUnion
  <1>12. SumFunctionOnSet(f, M) = ScoreFor(a)
    <2>1. SumFunctionOnSet(g, M) = SumFunctionOnSet(f, M)
      BY <1>3, <1>10, SumSame
    <2>2. SumFunction(g) = SumFunctionOnSet(g, M)
      BY <1>7 DEF SumFunction
    <2> QED
      BY <1>7, <2>1, <2>2
  <1>13. SumFunctionOnSet(f, R) = BonusFor(m, a)
    <2>1. CASE book = None
      BY <1>8, <2>1, SumOfNone
    <2>2. CASE book # None
      <3> DEFINE x == RoleBonusMetric
      <3>1. R = {x} /\ f[x] = BonusFor(m, a)
        BY <1>6, <1>9, <2>2
      <3> HIDE DEF x
      <3>2. SumFunctionOnSet(f, {x}) = f[x]
        BY <1>4, <3>1, SumOfOne
      <3> QED
        BY <3>1, <3>2
    <2> QED
      BY <2>1, <2>2
  <1>14. SumFunctionOnSet(f, C) = ScoreFor(a) + BonusFor(m, a)
    BY <1>11, <1>12, <1>13
  <1> QED
    BY <1>14 DEF f, C

\* The board banks what the manager's heroes did, appearance by appearance.
LEMMA RowAddsUp ==
  ASSUME IInv, Stored, HistoryInv, NEW m \in Lockers, m \notin overtaken, NEW which
  PROVE  SumFunction(Totals(RosterOf(m), matches, Rules, book, BankedIn(m, which)))
           = SumFunctionOnSet(WorthsIn(m, MineIn(m, which)), MineIn(m, which))
  <1> DEFINE e == RosterOf(m)
             B == BankedIn(m, which)
             A == MineIn(m, which)
             C == Columns(Rules, book)
             t == Totals(e, matches, Rules, book, B)
             f == [p \in C \X A |-> InColumn(m, p[1], p[2])]
             worth == WorthsIn(m, A)
             name == Appearing(m, which)
  <1>1. IsFiniteSet(C) /\ A \in SUBSET Appearances(matches)
    BY ColumnsFinite DEF MineIn
  <1>2. IsFiniteSet(A) /\ \A a \in A : Appears(a) /\ a = <<a[1], a[2]>>
    BY <1>1, WorthsType
  <1>3. ASSUME NEW metric \in C, NEW a \in A PROVE InColumn(m, metric, a) \in Int
    <2>1. BonusFor(m, a) \in Int
      BY <1>2, BonusIsNumber DEF BonusFor, IInv, Shapes
    <2>2. metric # RoleBonusMetric => metric \in ScoredMetrics(Rules)
      BY DEF Columns
    <2>3. metric # RoleBonusMetric => Priced(matches[a[1]], a[2], metric, Rules) \in Int
      BY <1>2, <2>2, PricedIsNumber
    <2> QED
      BY <2>1, <2>3 DEF InColumn
  <1>4. Numbers(f, C \X A)
    <2> SUFFICES ASSUME NEW p \in C \X A PROVE InColumn(m, p[1], p[2]) \in Int
      BY DEF Numbers
    <2>1. p[1] \in C /\ p[2] \in A
      OBVIOUS
    <2> HIDE DEF C, A
    <2> QED
      BY <1>3, <2>1
  <1>5. \A metric \in C, a \in A : f[<<metric, a>>] = InColumn(m, metric, a)
    OBVIOUS
  <1>6. DOMAIN t = C
    BY DEF Totals
  <1>7. \A metric \in C : t[metric] = SumFunction([p \in B |-> InColumn(m, metric, <<p[2], p[3]>>)])
    BY DEF Totals, InColumn, BonusFor
  <1>8. /\ name = [p \in B |-> <<p[2], p[3]>>]
        /\ Renames(name, B, A) /\ \A p \in B : name[p] \in A
    BY BankedOnce DEF Appearing, Renames
  <1>9. IsFiniteSet(B)
    <2>1. IsList(e.heroes) /\ IsList(e.swaps)
      BY SwapLogIsList DEF RosterOf, Lockers, IInv, Shapes
    <2>2. IsFiniteSet(DOMAIN Holdings(e))
      BY <2>1, FiniteHoldings
    <2>3. IsFiniteSet(Banked(e, matches)) /\ B \subseteq Banked(e, matches)
      BY <2>2, BankedFinite DEF BankedIn
    <2> QED
      BY <2>3, FS_Subset
  <1>10. \A a \in A : worth[a] = ScoreFor(a) + BonusFor(m, a)
    BY DEF WorthsIn
  <1> HIDE DEF e, B, A, C, t, f, worth, name
  <1>11. RowSums(t, f, C, A)
    <2> SUFFICES ASSUME NEW metric \in C
                 PROVE  t[metric] = SumFunctionOnSet([a \in A |-> f[<<metric, a>>]], A)
      BY DEF RowSums
    <2> DEFINE g == [a \in A |-> f[<<metric, a>>]]
               h == [p \in B |-> InColumn(m, metric, <<p[2], p[3]>>)]
    <2>1. \A a \in A : g[a] = InColumn(m, metric, a)
      BY <1>5
    <2>2. Numbers(g, A)
      BY <1>3, <2>1 DEF Numbers
    <2>3. \A p \in B : h[p] = g[name[p]]
      <3> SUFFICES ASSUME NEW p \in B PROVE h[p] = g[name[p]]
        OBVIOUS
      <3>1. name[p] = <<p[2], p[3]>> /\ name[p] \in A
        BY <1>8
      <3>2. h[p] = InColumn(m, metric, name[p])
        BY <3>1
      <3> HIDE DEF h, g
      <3> QED
        BY <2>1, <3>1, <3>2
    <2>4. DOMAIN h = B
      OBVIOUS
    <2>5. t[metric] = SumFunction(h)
      BY <1>7
    <2> HIDE DEF g, h
    <2>6. Through(h, g, name, B)
      BY <2>3 DEF Through
    <2>7. SumFunctionOnSet(h, B) = SumFunctionOnSet(g, A)
      BY <1>8, <1>9, <2>2, <2>6, SumRenamed
    <2>8. SumFunction(h) = SumFunctionOnSet(h, B)
      BY <2>4 DEF SumFunction
    <2>9. t[metric] = SumFunctionOnSet(g, A)
      BY <2>5, <2>7, <2>8
    <2> QED
      BY <2>9 DEF g
  <1>12. ColumnSums(worth, f, C, A)
    <2> SUFFICES ASSUME NEW a \in A
                 PROVE  worth[a] = SumFunctionOnSet([metric \in C |-> f[<<metric, a>>]], C)
      BY DEF ColumnSums
    <2>1. SumFunctionOnSet([metric \in C |-> InColumn(m, metric, a)], C) = ScoreFor(a) + BonusFor(m, a)
      BY <1>2, ColumnsAddUp DEF C
    <2>2. [metric \in C |-> InColumn(m, metric, a)] = [metric \in C |-> f[<<metric, a>>]]
      BY <1>5
    <2> QED
      BY <1>10, <2>1, <2>2
  <1>13. SumFunctionOnSet(t, C) = SumFunctionOnSet(worth, A)
    BY <1>1, <1>2, <1>4, <1>11, <1>12, SumsCommute
  <1>14. SumFunction(t) = SumFunctionOnSet(t, C)
    BY <1>6 DEF SumFunction
  <1>15. SumFunction(t) = SumFunctionOnSet(worth, A)
    BY <1>13, <1>14
  <1> QED
    BY <1>15 DEF t, e, B, A, worth

\* A hero's games are those of its contexts that are played.
LEMMA GamesPlayed ==
  ASSUME NEW match
  PROVE  PlayedContexts(match) = {c \in HeroContexts(match) : Played(c)}
  <1>1. \A c \in PlayedContexts(match) : Played(c)
    BY DEF PlayedContexts, Played
  <1>2. PlayedContexts(match) \subseteq HeroContexts(match)
    BY DEF HeroContexts
  <1>3. \A c \in HeroContexts(match) : c \in PlayedContexts(match) \/ ~Played(c)
    BY DEF HeroContexts, OffTable, Played
  <1> QED
    BY <1>1, <1>2, <1>3

\* The manager's heroes with their roles, game by game.
PairedIn(m, match) ==
  {pc \in {p \in cast[m][match.round] : book # None} \X PlayedContexts(match) :
     pc[1][1] = pc[2].hero /\ pc[2].hero \in held[m][match.round]}

BonusOfPair(match, pc) == RoleBonus(book[pc[1][2]], Participant(match, pc[2]).stats)

MyContexts(m, match) == {c \in HeroContexts(match) : c.hero \in held[m][match.round]}

\* What a match earns are the scores of these contexts and the bonuses of these pairs.
LEMMA EarnedUnfolds ==
  ASSUME NEW m, NEW match
  PROVE  Earned(m, match) = SumFunction([c \in MyContexts(m, match) |-> Score(match, c, Rules)])
                            + SumFunction([pc \in PairedIn(m, match) |-> BonusOfPair(match, pc)])
  BY DEF Earned, PairedIn, BonusOfPair, MyContexts

\* The appearances of one match.
LEMMA MineOfMatch ==
  ASSUME Stored, NEW m, NEW j \in DOMAIN matches
  PROVE  \A a : a \in MineIn(m, {j}) <=> \E c \in MyContexts(m, matches[j]) : a = <<j, c>>
  <1>1. ASSUME NEW c \in MyContexts(m, matches[j]) PROVE <<j, c>> \in MineIn(m, {j})
    BY DEF MyContexts, MineIn, Appearances
  <1>2. ASSUME NEW a \in MineIn(m, {j})
        PROVE  a[2] \in MyContexts(m, matches[j]) /\ a = <<j, a[2]>>
    <2>1. a[1] = j /\ a = <<a[1], a[2]>> /\ Appears(a) /\ a[2].hero \in held[m][matches[a[1]].round]
      BY AppearancesFinite DEF MineIn
    <2> QED
      BY <2>1 DEF Appears, MyContexts
  <1> QED
    BY <1>1, <1>2

\* Their scores are those of the contexts.
LEMMA ScoresOfMatch ==
  ASSUME IInv, Stored, NEW m, NEW j \in DOMAIN matches
  PROVE  SumFunctionOnSet(ScoresIn(MineIn(m, {j})), MineIn(m, {j}))
           = SumFunction([c \in MyContexts(m, matches[j]) |-> Score(matches[j], c, Rules)])
  <1> DEFINE A == MineIn(m, {j})
             H == MyContexts(m, matches[j])
             f == [c \in H |-> Score(matches[j], c, Rules)]
             g == ScoresIn(A)
             name == [c \in H |-> <<j, c>>]
  <1>1. \A a : a \in A <=> \E c \in H : a = <<j, c>>
    BY MineOfMatch
  <1>2. Numbers(g, A)
    BY WorthsType DEF MineIn
  <1>3. IsFiniteSet(H)
    <2>1. IsFiniteSet(HeroContexts(matches[j]))
      BY FiniteContexts DEF Stored
    <2> QED
      BY <2>1, FS_Subset DEF MyContexts
  <1>4. \A c \in H : name[c] = <<j, c>> /\ f[c] = Score(matches[j], c, Rules)
    OBVIOUS
  <1>5. \A a \in A : g[a] = Score(matches[a[1]], a[2], Rules)
    BY DEF ScoresIn, ScoreFor
  <1>6. DOMAIN f = H
    OBVIOUS
  <1> HIDE DEF A, H, f, g, name
  <1>7. Renames(name, H, A)
    BY <1>1, <1>4 DEF Renames
  <1>8. Through(f, g, name, H)
    <2> SUFFICES ASSUME NEW c \in H PROVE f[c] = g[name[c]]
      BY DEF Through
    <2> DEFINE a == <<j, c>>
    <2>1. a \in A /\ name[c] = a /\ a[1] = j /\ a[2] = c
      BY <1>1, <1>4
    <2> HIDE DEF a
    <2> QED
      BY <1>4, <1>5, <2>1
  <1>9. SumFunctionOnSet(f, H) = SumFunctionOnSet(g, A)
    BY <1>2, <1>3, <1>7, <1>8, SumRenamed
  <1>10. SumFunction(f) = SumFunctionOnSet(g, A)
    BY <1>6, <1>9 DEF SumFunction
  <1> QED
    BY <1>10 DEF f, g, A, H

\* Their bonuses are those of the pairs: only a game earns one, and the role in
\* force in the round of the match is the one the hero had in it.
LEMMA BonusesOfMatch ==
  ASSUME IInv, Stored, HistoryInv, NEW m \in Lockers, m \notin overtaken, NEW j \in DOMAIN matches
  PROVE  SumFunctionOnSet(BonusesIn(m, MineIn(m, {j})), MineIn(m, {j}))
           = SumFunction([pc \in PairedIn(m, matches[j]) |-> BonusOfPair(matches[j], pc)])
  <1> DEFINE match == matches[j]
             r == match.round
             log == roles[m]
             A == MineIn(m, {j})
             H == MyContexts(m, match)
             P == PairedIn(m, match)
             f == [pc \in P |-> BonusOfPair(match, pc)]
             g == BonusesIn(m, A)
             games == {a \in A : Played(a[2]) /\ book # None}
             rest == {a \in A : ~(Played(a[2]) /\ book # None)}
             name == [a \in games |-> <<<<a[2].hero, RoleAt(log, a[2].hero, r)>>, a[2]>>]
  <1>1. \A a : a \in A <=> \E c \in H : a = <<j, c>>
    BY MineOfMatch
  <1>2. IsFiniteSet(A) /\ Numbers(g, A)
    BY WorthsType DEF MineIn
  <1>3. \A a \in A : g[a] = BonusOf(RosterOf(m), book, matches[a[1]], a[2])
    BY DEF BonusesIn, BonusFor
  <1>4. RosterOf(m).roles = log
    BY DEF RosterOf
  <1>5. r \in Rounds /\ m \in Managers /\ entry[m] = "LOCKED" /\ book \in Books
    BY DEF Stored, Lockers, IInv, Shapes
  <1>6. book # None => /\ cast[m][r] = CastOf(log, held[m][r], r)
                       /\ \A h \in held[m][r] : RoleAt(log, h, r) \in DOMAIN book
    BY <1>5 DEF HistoryInv, EntryTold, CastAlong
  <1>7. book # None => None \notin DOMAIN book
    BY <1>5, SeasonAssumption
  <1>8. DOMAIN f = P
    OBVIOUS
  <1>9. \A pc \in P : f[pc] = BonusOfPair(match, pc)
    OBVIOUS
  <1>10. \A a \in games : name[a] = <<<<a[2].hero, RoleAt(log, a[2].hero, r)>>, a[2]>>
    OBVIOUS
  <1>11. A = games \cup rest /\ games \cap rest = {} /\ games \subseteq A /\ rest \subseteq A
    OBVIOUS
  <1>12. \A a \in A : a[1] = j /\ a = <<j, a[2]>> /\ a[2] \in HeroContexts(match) /\ a[2].hero \in held[m][r]
    BY <1>1 DEF MyContexts
  <1>13. \A pc : pc \in P <=> /\ book # None
                              /\ \E p \in cast[m][r] : \E c \in HeroContexts(match) :
                                   /\ Played(c) /\ pc = <<p, c>> /\ p[1] = c.hero /\ c.hero \in held[m][r]
    <2>1. PlayedContexts(match) = {c \in HeroContexts(match) : Played(c)}
      BY GamesPlayed
    <2> HIDE DEF match, r
    <2> QED
      BY <2>1 DEF PairedIn, P, r
  <1>14. \A a \in rest : g[a] = 0
    <2> SUFFICES ASSUME NEW a \in rest PROVE g[a] = 0
      OBVIOUS
    <2>1. a \in A /\ ~(Played(a[2]) /\ book # None)
      OBVIOUS
    <2> HIDE DEF A, g, rest
    <2> QED
      BY <1>3, <2>1 DEF BonusOf
  <1>15. \A a \in games : a \in A /\ Played(a[2]) /\ book # None
    OBVIOUS
  <1>19. \A a \in A : Played(a[2]) /\ book # None => a \in games
    OBVIOUS
  <1> HIDE DEF A, H, P, f, g, games, rest, name, log
  <1>16. Renames(name, games, P)
    <2>1. ASSUME NEW a \in games PROVE name[a] \in P
      <3> DEFINE c == a[2]
                 p == <<c.hero, RoleAt(log, c.hero, r)>>
      <3>1. name[a] = <<p, c>> /\ p[1] = c.hero
        BY <1>10
      <3>2. c \in HeroContexts(match) /\ Played(c) /\ book # None /\ c.hero \in held[m][r]
        BY <1>12, <1>15
      <3>3. p \in cast[m][r]
        BY <1>6, <3>2 DEF CastOf
      <3> HIDE DEF c, p, match, r
      <3> QED
        BY <1>13, <3>1, <3>2, <3>3
    <2>2. ASSUME NEW a \in games, NEW b \in games, name[a] = name[b] PROVE a = b
      <3>1. a[2] = b[2]
        BY <1>10, <2>2
      <3> QED
        BY <1>12, <1>15, <3>1
    <2>3. ASSUME NEW pc \in P PROVE \E a \in games : name[a] = pc
      <3>1. book # None
        BY <1>13
      <3>2. PICK p \in cast[m][r] : \E c \in HeroContexts(match) :
               Played(c) /\ pc = <<p, c>> /\ p[1] = c.hero /\ c.hero \in held[m][r]
        BY <1>13
      <3>3. PICK c \in HeroContexts(match) : Played(c) /\ pc = <<p, c>> /\ p[1] = c.hero /\ c.hero \in held[m][r]
        BY <3>2
      <3> DEFINE a == <<j, c>>
      <3>4. a \in A /\ a[2] = c
        <4>1. c \in H
          BY <3>3 DEF H, MyContexts
        <4> QED
          BY <1>1, <4>1
      <3> HIDE DEF a
      <3>5. a \in games
        BY <1>19, <3>1, <3>3, <3>4
      <3>6. \E h \in held[m][r] : p = <<h, RoleAt(log, h, r)>>
        BY <1>6, <3>1, <3>2 DEF CastOf
      <3>7. p = <<c.hero, RoleAt(log, c.hero, r)>>
        BY <3>3, <3>6
      <3>8. name[a] = <<p, c>>
        BY <1>10, <3>4, <3>5, <3>7
      <3> QED
        BY <3>3, <3>5, <3>8
    <2> QED
      BY <2>1, <2>2, <2>3 DEF Renames
  <1>17. ASSUME NEW a \in games PROVE g[a] = f[name[a]]
    <2> DEFINE c == a[2]
               role == RoleAt(log, c.hero, r)
               p == <<c.hero, role>>
               stats == Participant(match, c).stats
    <2>1. a \in A /\ Played(c) /\ book # None /\ a[1] = j /\ c.hero \in held[m][r]
      BY <1>12, <1>15
    <2>2. role \in DOMAIN book /\ role # None
      BY <1>6, <1>7, <2>1
    <2>3. name[a] = <<p, c>> /\ name[a] \in P
      BY <1>10, <1>16 DEF Renames
    <2>4. g[a] = BonusOf(RosterOf(m), book, match, c)
      BY <1>3, <2>1
    <2>5. BonusOf(RosterOf(m), book, match, c) = RoleBonus(book[role], stats)
      BY <1>4, <2>1, <2>2 DEF BonusOf
    <2>6. f[name[a]] = BonusOfPair(match, <<p, c>>)
      BY <1>9, <2>3
    <2>7. BonusOfPair(match, <<p, c>>) = RoleBonus(book[role], stats)
      BY DEF BonusOfPair
    <2> QED
      BY <2>4, <2>5, <2>6, <2>7
  <1>18. SumFunctionOnSet(g, games) = SumFunctionOnSet(f, P)
    <2>1. IsFiniteSet(games)
      BY <1>2, <1>11, FS_Subset
    <2>2. Numbers(f, P)
      <3> SUFFICES ASSUME NEW pc \in P PROVE f[pc] \in Int
        BY DEF Numbers
      <3>1. PICK a \in games : name[a] = pc
        BY <1>16 DEF Renames
      <3>2. g[a] \in Int
        BY <1>2, <1>15 DEF Numbers
      <3> QED
        BY <1>17, <3>1, <3>2
    <2>3. Through(g, f, name, games)
      BY <1>17 DEF Through
    <2> QED
      BY <1>16, <2>1, <2>2, <2>3, SumRenamed
  <1>20. SumFunctionOnSet(g, A) = SumFunctionOnSet(g, games) + SumFunctionOnSet(g, rest)
    <2>1. IsFiniteSet(games) /\ IsFiniteSet(rest)
      BY <1>2, <1>11, FS_Subset
    <2> QED
      BY <1>2, <1>11, <2>1, SumOfUnion
  <1>21. SumFunctionOnSet(g, rest) = 0
    <2>1. IsFiniteSet(rest)
      BY <1>2, <1>11, FS_Subset
    <2> QED
      BY <1>14, <2>1, SumOfZeros
  <1>22. SumFunctionOnSet(g, games) \in Int
    <2>1. IsFiniteSet(games) /\ Numbers(g, games)
      BY <1>2, <1>11, FS_Subset DEF Numbers
    <2> QED
      BY <2>1, SumType
  <1>23. SumFunctionOnSet(g, A) = SumFunctionOnSet(f, P)
    BY <1>18, <1>20, <1>21, <1>22
  <1>24. SumFunctionOnSet(g, A) = SumFunction(f)
    BY <1>8, <1>23 DEF SumFunction
  <1> QED
    BY <1>24 DEF f, g, A, P

\* A match earns what the appearances in it are worth.
LEMMA EarnedByMatch ==
  ASSUME IInv, Stored, HistoryInv, NEW m \in Lockers, m \notin overtaken, NEW j \in DOMAIN matches
  PROVE  Earned(m, matches[j]) = SumFunctionOnSet(WorthsIn(m, MineIn(m, {j})), MineIn(m, {j}))
  <1> DEFINE A == MineIn(m, {j})
             f == ScoresIn(A)
             g == BonusesIn(m, A)
             h == WorthsIn(m, A)
  <1>1. IsFiniteSet(A) /\ Numbers(f, A) /\ Numbers(g, A)
    BY WorthsType DEF MineIn
  <1>2. AddsUp(h, f, g, A)
    BY DEF AddsUp, ScoresIn, BonusesIn, WorthsIn
  <1>3. /\ SumFunctionOnSet(f, A) = SumFunction([c \in MyContexts(m, matches[j]) |-> Score(matches[j], c, Rules)])
        /\ SumFunctionOnSet(g, A) = SumFunction([pc \in PairedIn(m, matches[j]) |-> BonusOfPair(matches[j], pc)])
    BY ScoresOfMatch, BonusesOfMatch
  <1>4. Earned(m, matches[j]) = SumFunctionOnSet(f, A) + SumFunctionOnSet(g, A)
    BY <1>3, EarnedUnfolds
  <1> HIDE DEF A, f, g, h
  <1>5. SumFunctionOnSet(h, A) = SumFunctionOnSet(f, A) + SumFunctionOnSet(g, A)
    BY <1>1, <1>2, SumsAdd
  <1> QED
    BY <1>4, <1>5 DEF A, h

\* And matches earn together what theirs are.
LEMMA EarnedAddsUp ==
  ASSUME IInv, Stored, HistoryInv, NEW m \in Lockers, m \notin overtaken, NEW which \in SUBSET DOMAIN matches
  PROVE  EarnedIn(m, which) = SumFunctionOnSet(WorthsIn(m, MineIn(m, which)), MineIn(m, which))
  <1> DEFINE A == MineIn(m, which)
             f == WorthsIn(m, A)
             part == [j \in which |-> MineIn(m, {j})]
             g == [j \in which |-> Earned(m, matches[j])]
  <1>1. IsFiniteSet(which)
    <2>1. IsFiniteSet(DOMAIN matches)
      BY ListPositions DEF Stored
    <2> QED
      BY <2>1, FS_Subset
  <1>2. Numbers(f, A)
    BY WorthsType DEF MineIn
  <1>3. \A a : a \in A <=> \E j \in which : a \in part[j]
    BY DEF MineIn
  <1>4. Apart(part, which)
    BY DEF Apart, MineIn
  <1>5. ASSUME NEW j \in which
        PROVE  IsFiniteSet(part[j]) /\ Numbers(f, part[j]) /\ g[j] = SumFunctionOnSet(f, part[j])
    <2> DEFINE S == MineIn(m, {j})
               h == WorthsIn(m, S)
    <2>1. IsFiniteSet(S) /\ Numbers(h, S)
      BY WorthsType DEF MineIn
    <2>2. g[j] = SumFunctionOnSet(h, S)
      BY EarnedByMatch
    <2>3. \A a \in S : a \in A
      BY DEF MineIn
    <2>4. \A a \in S : h[a] = f[a]
      BY <2>3 DEF WorthsIn
    <2>5. part[j] = S
      OBVIOUS
    <2> HIDE DEF S, h, f, A, part, g
    <2>6. Alike(h, f, S) /\ Numbers(f, S)
      BY <1>2, <2>3, <2>4 DEF Alike, Numbers
    <2>7. SumFunctionOnSet(h, S) = SumFunctionOnSet(f, S)
      BY <2>1, <2>6, SumSame
    <2> QED
      BY <2>1, <2>2, <2>5, <2>6, <2>7
  <1>6. EarnedIn(m, which) = SumFunction(g) /\ DOMAIN g = which
    BY DEF EarnedIn
  <1> HIDE DEF A, f, part, g
  <1>7. UNION {part[j] : j \in which} = A
    <2>1. \A a \in UNION {part[j] : j \in which} : a \in A
      BY <1>3
    <2>2. \A a \in A : a \in UNION {part[j] : j \in which}
      BY <1>3
    <2> QED
      BY <2>1, <2>2
  <1>8. FiniteParts(part, which) /\ NumbersIn(f, part, which) /\ PartSums(g, f, part, which)
    BY <1>5 DEF FiniteParts, NumbersIn, PartSums
  <1>9. SumFunctionOnSet(f, A) = SumFunctionOnSet(g, which)
    BY <1>1, <1>4, <1>7, <1>8, SumOverParts
  <1> QED
    BY <1>6, <1>9 DEF SumFunction, f, A

\* So the board's row of a manager is what was held.
LEMMA RowIsWhatWasHeld ==
  ASSUME IInv, Stored, HistoryInv, NEW m \in Lockers, m \notin overtaken
  PROVE  LET row == StandingsRow(RosterOf(m), matches, Rules, book)
         IN  /\ row.points = EarnedIn(m, DOMAIN matches)
             /\ row.roundPoints =
                  EarnedIn(m, {j \in DOMAIN matches : matches[j].round = LatestRound(matches)})
  <1> DEFINE e == RosterOf(m)
             row == StandingsRow(e, matches, Rules, book)
             all == DOMAIN matches
             late == {j \in all : matches[j].round = LatestRound(matches)}
             banked == Banked(e, matches)
             last == {p \in banked : matches[p[2]].round = LatestRound(matches)}
  <1>1. /\ row.points = SumFunction(Totals(e, matches, Rules, book, banked))
        /\ row.roundPoints = SumFunction(Totals(e, matches, Rules, book, last))
    BY DEF StandingsRow
  <1>2. \A p \in banked : p[2] \in all
    <2>1. IsList(e.heroes) /\ IsList(e.swaps)
      BY SwapLogIsList DEF RosterOf, Lockers, IInv, Shapes
    <2>2. IsFiniteSet(DOMAIN Holdings(e))
      BY <2>1, FiniteHoldings
    <2> HIDE DEF e
    <2> QED
      BY <2>2, BankedFinite DEF Appears
  <1>3. banked = BankedIn(m, all)
    <2> HIDE DEF banked, all
    <2>1. BankedIn(m, all) = {p \in banked : p[2] \in all}
      BY DEF BankedIn, banked
    <2> QED
      BY <1>2, <2>1
  <1>4. last = BankedIn(m, late)
    <2> DEFINE x == LatestRound(matches)
    <2> HIDE DEF banked, x
    <2>1. BankedIn(m, late) = {p \in banked : p[2] \in late}
      BY DEF BankedIn, banked
    <2>2. \A p \in banked : p[2] \in late <=> matches[p[2]].round = x
      BY <1>2 DEF x
    <2> HIDE DEF late
    <2> QED
      BY <2>1, <2>2 DEF x
  <1>5. ASSUME NEW which \in SUBSET all
        PROVE  SumFunction(Totals(e, matches, Rules, book, BankedIn(m, which))) = EarnedIn(m, which)
    BY RowAddsUp, EarnedAddsUp
  <1> HIDE DEF e, row, banked, last
  <1>6. row.points = EarnedIn(m, all) /\ row.roundPoints = EarnedIn(m, late)
    BY <1>1, <1>3, <1>4, <1>5
  <1> QED
    BY <1>6 DEF row, e

\* The board, folded from today's roster and two logs, gives every match to the heroes
\* held in its round, under the roles they had in it, whatever was swapped, corrected or
\* recorded since, for every manager none of whose requests has stalled until it wrote
\* behind rows of a later round (standings.rs Holding::replay, Accumulator::add, build_standings).
THEOREM BoardHeld == Spec => []BoardIsWhatWasHeld
  <1>1. IInv /\ Stored /\ HistoryInv => BoardIsWhatWasHeld
    <2> SUFFICES ASSUME IInv, Stored, HistoryInv, NEW m \in Locked \ overtaken
                 PROVE  LET row == RowOf(StandingsBoard, Handle[m])
                        IN  /\ row.points = EarnedIn(m, DOMAIN matches)
                            /\ row.roundPoints =
                                 EarnedIn(m, {j \in DOMAIN matches : matches[j].round = LatestRound(matches)})
      BY DEF BoardIsWhatWasHeld
    <2> DEFINE row == StandingsRow(RosterOf(m), matches, Rules, book)
               name == Handle[m]
               board == StandingsBoard
               p == EarnedIn(m, DOMAIN matches)
               q == EarnedIn(m, {j \in DOMAIN matches : matches[j].round = LatestRound(matches)})
    <2>1. m \in Lockers /\ m \notin overtaken
      BY DEF Locked, Lockers
    <2>2. row \in BoardRows
      BY <2>1 DEF BoardRows, Rosters, RosterOf, Lockers
    <2>3. IsFiniteSet(BoardRows) /\ IsRow(row)
      BY <2>2, BoardHasRows DEF AreRows
    <2>4. Tabled(board, BoardRows)
      BY BoardIsFair
    <2>5. row.name = name
      BY DEF StandingsRow, RosterOf
    <2>6. row.points = p /\ row.roundPoints = q
      BY <2>1, RowIsWhatWasHeld
    <2>7. "points" \in DOMAIN row /\ "roundPoints" \in DOMAIN row
      BY DEF StandingsRow
    <2> HIDE DEF row, name, board, p, q
    <2>8. SameRow(RowOf(board, name), row)
      BY <2>2, <2>3, <2>4, <2>5, RowFound
    <2>9. PICK rank : RowOf(board, name) = [row EXCEPT !.rank = rank]
      BY <2>8 DEF SameRow
    <2>10. [row EXCEPT !.rank = rank].points = p /\ [row EXCEPT !.rank = rank].roundPoints = q
      BY <2>3, <2>6, <2>7 DEF IsRow
    <2> QED
      BY <2>9, <2>10 DEF board, name, p, q
  <1> QED
    BY <1>1, HistoryTold, Inductive, StoredIsReadable, PTL
=============================================================================
