-------------------------- MODULE MatchScoringProofs --------------------------
(***************************************************************************)
(* Rounding to cents, and the metric that pays one side what the other     *)
(* loses: for every health value and coefficient.                          *)
(***************************************************************************)
EXTENDS MatchScoring, FoldLemmas

-----------------------------------------------------------------------------
(* Points.                                                                 *)

LEMMA Round2Type ==
  ASSUME NEW x \in Int
  PROVE  Round2(x) \in Int
  BY DEF Round2

\* Rounding treats gains and losses alike: half away from zero on both sides.
\* (rounding.rs round2)
THEOREM RoundingIsSymmetric ==
  ASSUME NEW x \in Int
  PROVE  Round2(-x) = -Round2(x)
  BY DEF Round2

\* A score that is already whole cents is kept, and no other moves by more than
\* half a cent.  (rounding.rs round2)
THEOREM RoundingIsNearest ==
  ASSUME NEW x \in Int
  PROVE  /\ Round2(100 * x) = x
         /\ 100 * Round2(x) - x \in -50 .. 50
  BY DEF Round2

\* The maximum over a single opponent is that opponent.
LEMMA MaxOfOne ==
  ASSUME NEW x \in Int
  PROVE  Max({x}) = x
  BY DEF Max

\* In a game of two different heroes each seat's opponent is the other.
LEMMA GapOfSeat ==
  ASSUME NEW m, NEW g, NEW s \in {1, 2}, NEW o \in {1, 2} \ {s},
         DOMAIN m.games[g].seats = {1, 2},
         m.games[g].seats[1].hero # m.games[g].seats[2].hero,
         m.games[g].seats[o].health \in Int,
         NEW c, c.role = "PLAYED", c.game = g, c.seat = s,
         c.hero = m.games[g].seats[s].hero
  PROVE  HealthGap(m, c) = m.games[g].seats[s].health - m.games[g].seats[o].health
  <1> DEFINE seats == m.games[g].seats
  <1>1. ToSet(seats) = {seats[1], seats[2]}
    BY DEF ToSet
  <1>2. Opponents(m, c) = {seats[o]}
    BY <1>1 DEF Opponents, OpponentsOf, Played
  <1>3. {p.health : p \in Opponents(m, c)} = {seats[o].health}
    BY <1>2
  <1> QED
    BY <1>2, <1>3, MaxOfOne DEF HealthGap, Participant

\* What the two-way differential pays one side of a game it takes from the other,
\* to the cent and at every coefficient.  (match_metrics.rs
\* HealthDifferentialTwoWayMetric, scoring_engine.rs score_hero)
THEOREM TwoWayIsZeroSum ==
  ASSUME NEW m, NEW g, NEW configured,
         CoefficientOf(configured, "HEALTH_DIFFERENTIAL_TWO_WAY") \in Int,
         DOMAIN m.games[g].seats = {1, 2},
         m.games[g].seats[1].hero # m.games[g].seats[2].hero,
         \A s \in {1, 2} : m.games[g].seats[s].health \in Int,
         NEW c1, c1 = [role |-> "PLAYED", hero |-> m.games[g].seats[1].hero,
                       game |-> g, seat |-> 1],
         NEW c2, c2 = [role |-> "PLAYED", hero |-> m.games[g].seats[2].hero,
                       game |-> g, seat |-> 2]
  PROVE  Priced(m, c1, "HEALTH_DIFFERENTIAL_TWO_WAY", configured)
           + Priced(m, c2, "HEALTH_DIFFERENTIAL_TWO_WAY", configured) = 0
  <1> DEFINE w == CoefficientOf(configured, "HEALTH_DIFFERENTIAL_TWO_WAY")
             d == m.games[g].seats[1].health - m.games[g].seats[2].health
  <1>1. HealthGap(m, c1) = d
    BY GapOfSeat
  <1>2. HealthGap(m, c2) = -d
    <2>1. HealthGap(m, c2) = m.games[g].seats[2].health - m.games[g].seats[1].health
      BY GapOfSeat
    <2> QED
      BY <2>1
  <1>3. /\ Measure(m, c1, "HEALTH_DIFFERENTIAL_TWO_WAY") = d
        /\ Measure(m, c2, "HEALTH_DIFFERENTIAL_TWO_WAY") = -d
    BY <1>1, <1>2 DEF Measure, HealthDifferentialTwoWay
  <1> HIDE DEF w
  <1>4. w \in Int
    BY DEF w
  <1>5. d \in Int /\ d * w \in Int
    BY <1>4
  <1>6. (-d) * w = -(d * w)
    BY <1>4, <1>5
  <1> HIDE DEF d
  <1>7. Round2(d * w) + Round2(-(d * w)) = 0
    BY <1>5, RoundingIsSymmetric, Round2Type
  <1> QED
    BY <1>3, <1>6, <1>7 DEF Priced, w

\* A rule set of one metric gives it its coefficient.
LEMMA OneCoefficient ==
  ASSUME NEW metric, NEW w
  PROVE  CoefficientOf(<<<<metric, w>>>>, metric) = w
  <1> DEFINE rules == <<<<metric, w>>>>
             found == {i \in 1 .. Len(rules) : rules[i][1] = metric}
  <1>1. Len(rules) = 1 /\ rules[1] = <<metric, w>>
    OBVIOUS
  <1>2. found = {1}
    BY <1>1
  <1>3. SelectLastInSeq(rules, LAMBDA p : p[1] = metric) = 1
    BY <1>2, MaxOfOne DEF SelectLastInSeq
  <1> HIDE DEF rules
  <1>4. CoefficientOf(rules, metric) = rules[1][2]
    BY <1>3 DEF CoefficientOf
  <1> QED
    BY <1>1, <1>4 DEF rules

\* And scores by it alone.
LEMMA OneMetricScores ==
  ASSUME NEW m, NEW c, NEW metric \in Known, NEW w \in Int, Measure(m, c, metric) \in Int
  PROVE  Score(m, c, <<<<metric, w>>>>) = Priced(m, c, metric, <<<<metric, w>>>>)
  <1> DEFINE rules == <<<<metric, w>>>>
             family == [x \in {metric} |-> Priced(m, c, x, rules)]
  <1>1. ScoredMetrics(rules) = {metric}
    <2>1. ToSet(rules) = {<<metric, w>>}
      BY DEF ToSet
    <2> QED
      BY <2>1 DEF ScoredMetrics
  <1>2. Priced(m, c, metric, rules) \in Int
    <2>1. CoefficientOf(rules, metric) \in Int
      BY OneCoefficient
    <2> QED
      BY <2>1, Round2Type DEF Priced
  <1>3. Score(m, c, rules) = SumFunction(family)
    BY <1>1 DEF Score
  <1>4. IsFiniteSet({metric}) /\ family \in [{metric} -> Int]
    BY <1>2, FS_Singleton
  <1> HIDE DEF family
  <1>5. SumFunction(family) = family[metric]
    BY <1>4, TotalOfOne
  <1> QED
    BY <1>3, <1>5 DEF family

-----------------------------------------------------------------------------
(* Contexts.                                                               *)

\* The context of a seat.
SeatOf(m, g, s) == [role |-> "PLAYED", hero |-> m.games[g].seats[s].hero, game |-> g, seat |-> s]

\* The gap of a seat is a number.
LEMMA GapType ==
  ASSUME NEW m, NEW g, DOMAIN m.games[g].seats = {1, 2},
         m.games[g].seats[1].hero # m.games[g].seats[2].hero,
         \A s \in {1, 2} : m.games[g].seats[s].health \in Int,
         NEW s \in {1, 2}
  PROVE  HealthGap(m, SeatOf(m, g, s)) \in Int
  <1> DEFINE c == SeatOf(m, g, s)
             o == 3 - s
             seats == m.games[g].seats
  <1>1. o \in {1, 2} \ {s}
    OBVIOUS
  <1>2. c.role = "PLAYED" /\ c.game = g /\ c.seat = s /\ c.hero = seats[s].hero
    BY DEF SeatOf
  <1> HIDE DEF c, o
  <1>3. HealthGap(m, c) = seats[s].health - seats[o].health
    BY <1>1, <1>2, GapOfSeat
  <1> QED
    BY <1>1, <1>3 DEF c

\* The contexts of a game are its seats'.
LEMMA ContextsOfGame ==
  ASSUME NEW m, NEW g \in DOMAIN m.games, g # 0, DOMAIN m.games[g].seats = {1, 2}
  PROVE  {c \in HeroContexts(m) : c.game = g} = {SeatOf(m, g, 1), SeatOf(m, g, 2)}
  <1>1. ASSUME NEW c \in HeroContexts(m), c.game = g
        PROVE  c \in {SeatOf(m, g, 1), SeatOf(m, g, 2)}
    <2>1. c \in PlayedContexts(m)
      BY <1>1 DEF HeroContexts, OffTable
    <2>2. PICK k \in DOMAIN m.games : \E s \in DOMAIN m.games[k].seats : c = SeatOf(m, k, s)
      BY <2>1 DEF PlayedContexts, SeatOf
    <2>3. PICK s \in DOMAIN m.games[k].seats : c = SeatOf(m, k, s)
      BY <2>2
    <2>4. k = g
      BY <1>1, <2>3 DEF SeatOf
    <2> QED
      BY <2>3, <2>4
  <1>2. ASSUME NEW s \in {1, 2}
        PROVE  SeatOf(m, g, s) \in HeroContexts(m) /\ SeatOf(m, g, s).game = g
    BY DEF HeroContexts, PlayedContexts, SeatOf
  <1> QED
    BY <1>1, <1>2

\* A match has finitely many.
LEMMA FiniteSeats ==
  ASSUME NEW m, IsFiniteSet(DOMAIN m.games),
         \A g \in DOMAIN m.games : DOMAIN m.games[g].seats = {1, 2}
  PROVE  IsFiniteSet(PlayedContexts(m))
  <1> DEFINE places == (DOMAIN m.games) \X {1, 2}
             l == [p \in places |-> SeatOf(m, p[1], p[2])]
  <1>1. IsFiniteSet({1, 2})
    <2>1. IsFiniteSet({1}) /\ {1, 2} = {1} \cup {2}
      BY FS_Singleton
    <2> QED
      BY <2>1, FS_AddElement
  <1>2. IsFiniteSet(places)
    BY <1>1, FS_Product
  <1>3. PlayedContexts(m) \subseteq ToSet(l)
    <2> SUFFICES ASSUME NEW c \in PlayedContexts(m) PROVE c \in ToSet(l)
      OBVIOUS
    <2>1. PICK g \in DOMAIN m.games, s \in {1, 2} : c = SeatOf(m, g, s)
      BY DEF PlayedContexts, SeatOf
    <2>2. <<g, s>> \in DOMAIN l /\ l[<<g, s>>] = c
      BY <2>1
    <2> HIDE DEF l
    <2> QED
      BY <2>2 DEF ToSet
  <1>4. IsFiniteSet(ToSet(l))
    <2>1. DOMAIN l = places
      OBVIOUS
    <2> HIDE DEF l
    <2> QED
      BY <1>2, <2>1, FiniteRows
  <1> HIDE DEF l
  <1> QED
    BY <1>3, <1>4, FS_Subset

\* A drafted hero that is not banned has one context for the draft, whatever it played.
LEMMA ContextsOfDrafted ==
  ASSUME NEW m, IsFiniteSet(PlayedContexts(m)), NEW h \in DraftedHeroes(m),
         \A b \in ToSet(m.bans) : b.hero # h
  PROVE  LET D   == {x \in HeroContexts(m) : x.hero = h}
             off == OffTable("DRAFTED", h)
         IN  IsFiniteSet(D) /\ off \in D /\ \A c \in D \ {off} : c.role = "PLAYED"
  <1> DEFINE D == {x \in HeroContexts(m) : x.hero = h}
             off == OffTable("DRAFTED", h)
  <1>1. off \in D
    BY DEF HeroContexts, OffTable
  <1>2. ASSUME NEW c \in D
        PROVE  c \in PlayedContexts(m) \/ c = off
    BY DEF HeroContexts, OffTable
  <1>3. IsFiniteSet(PlayedContexts(m) \cup {off})
    BY FS_AddElement
  <1> HIDE DEF D, off
  <1>4. IsFiniteSet(D)
    BY <1>2, <1>3, FS_Subset
  <1>5. \A c \in D \ {off} : c.role = "PLAYED"
    <2>1. \A c \in PlayedContexts(m) : c.role = "PLAYED"
      BY DEF PlayedContexts
    <2> QED
      BY <1>2, <2>1
  <1> QED
    BY <1>1, <1>4, <1>5 DEF D, off

\* A banned hero that nobody drafted or played has one for the ban.
LEMMA ContextsOfBanned ==
  ASSUME NEW m, NEW b \in ToSet(m.bans), b.hero \notin DraftedHeroes(m),
         \A c \in PlayedContexts(m) : c.hero # b.hero
  PROVE  {x \in HeroContexts(m) : x.hero = b.hero} = {OffTable("BANNED", b.hero)}
  <1>1. OffTable("BANNED", b.hero) \in HeroContexts(m)
    BY DEF HeroContexts
  <1>2. ASSUME NEW c \in HeroContexts(m), c.hero = b.hero
        PROVE  c = OffTable("BANNED", b.hero)
    BY <1>2 DEF HeroContexts, OffTable
  <1>3. OffTable("BANNED", b.hero).hero = b.hero
    BY DEF OffTable
  <1> QED
    BY <1>1, <1>2, <1>3

\* The ban that names a hero is the one that prices it.
LEMMA BanOfHero ==
  ASSUME NEW m, NEW n \in Nat, DOMAIN m.bans = 1 .. n, m.bans \in Seq(ToSet(m.bans)),
         NEW b \in ToSet(m.bans), \A a \in ToSet(m.bans) : a.hero = b.hero => a = b,
         NEW type
  PROVE  BanOfType(m, OffTable("BANNED", b.hero), type) = Flag(b.type = type)
  <1> DEFINE found == {i \in 1 .. n : m.bans[i].hero = b.hero}
             c == OffTable("BANNED", b.hero)
  <1>1. Len(m.bans) = n
    OBVIOUS
  <1>2. \A i \in 1 .. n : m.bans[i] \in ToSet(m.bans)
    BY DEF ToSet
  <1>3. found # {} /\ found \in SUBSET (1 .. n)
    BY DEF ToSet
  <1>4. Min(found) \in found
    <2> HIDE DEF found
    <2> QED
      BY <1>3, SmallestExists
  <1>5. m.bans[Min(found)] = b
    BY <1>2, <1>4
  <1>6. c.role = "BANNED" /\ c.hero = b.hero
    BY DEF OffTable
  <1> HIDE DEF c
  <1>7. {i \in 1 .. Len(m.bans) : m.bans[i].hero = c.hero} = found
    BY <1>1, <1>6
  <1> HIDE DEF found
  <1>8. BanOfType(m, c, type) = Flag(m.bans[Min(found)].type = type)
    BY <1>3, <1>6, <1>7 DEF BanOfType, SelectInSeq, Flag
  <1> QED
    BY <1>5, <1>8 DEF c
=============================================================================
