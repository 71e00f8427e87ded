--------------------------- MODULE MatchFormsProofs ---------------------------
(***************************************************************************)
(* What the policy accepts the database can hold, and what the database    *)
(* holds is read back as it was submitted, for every submission there is.  *)
(*                                                                         *)
(*   PolicyImpliesConstraints  one constraint after another, from the rule *)
(*                             of the policy that stands for it            *)
(*   WrittenReadsBack          one table after another, from the order its *)
(*                             rows are read in                            *)
(*   Inductive                 the tables are those of the last submission *)
(*   NoRawConstraint, MatchReadsBack   the two invariants of the runs      *)
(***************************************************************************)
EXTENDS MatchForms, MatchScoringProofs

\* An empty list of violations is every rule kept.
LEMMA RulesKept ==
  ASSUME NEW s, Violations(s) = {}
  PROVE  /\ ~InvalidParticipantCount(s)
         /\ ~InvalidGameCount(s)
         /\ ~GameNumbersNotSequential(s)
         /\ ~MapNotInPool(MapPool, s)
         /\ ~InvalidGameParticipantCount(s)
         /\ ~DuplicateHero(s)
         /\ ~DuplicateBan(s)
         /\ ~BanSideInvalid(s)
         /\ ~DuplicatePick(s)
         /\ ~BannedHeroDrafted(s)
         /\ ~BannedHeroPlayed(s)
         /\ ~NotExactlyOneWinner(s)
         /\ ~LoserHasPositiveHealth(s)
         /\ ~UnknownHero(HeroIds, s)
         /\ ~StatNameMalformed(s)
         /\ ~StatValueNegative(s)
  BY DEF Violations, Validate

\* A list has the positions 1 to its length.
LEMMA ListPositions ==
  ASSUME NEW items, IsList(items)
  PROVE  /\ Len(items) \in Nat
         /\ DOMAIN items = 1..Len(items)
         /\ \A i \in DOMAIN items : items[i] \in ToSet(items)
  BY DEF IsList, ToSet

\* In an accepted submission there are two participants and two seats in each game.
LEMMA Pairs ==
  ASSUME NEW s, Accepted(s)
  PROVE  /\ DOMAIN s.participants = 1..2
         /\ \A g \in DOMAIN s.games : DOMAIN s.games[g].seats = 1..2
  <1>1. DOMAIN s.participants = 1..2
    BY RulesKept, ListPositions
    DEF Accepted, WellShaped, ExactlyTwo, InvalidParticipantCount, ExpectedParticipantCount
  <1>2. ASSUME NEW g \in DOMAIN s.games
        PROVE  DOMAIN s.games[g].seats = 1..2
    <2>1. s.games[g] \in ToSet(s.games)
      BY DEF ToSet
    <2>2. IsList(s.games[g].seats)
      BY <2>1 DEF Accepted, WellShaped, WellShapedGame, ExactlyTwo
    <2>3. Len(s.games[g].seats) = 2
      BY <2>1, RulesKept
      DEF Accepted, InvalidGameParticipantCount, SomeGame, ExpectedParticipantCount
    <2> QED
      BY <2>2, <2>3, ListPositions
  <1> QED
    BY <1>1, <1>2

\* What a game, a seat, a pick and a ban of an accepted submission look like.
LEMMA GameShape ==
  ASSUME NEW s, Accepted(s), NEW g \in DOMAIN s.games
  PROVE  /\ s.games[g] = [number |-> s.games[g].number, map |-> s.games[g].map,
                          seats |-> s.games[g].seats]
         /\ s.games[g].number \in Int /\ s.games[g].number > 0
  BY DEF Accepted, WellShaped, WellShapedGame, ToSet

LEMMA SeatShape ==
  ASSUME NEW s, Accepted(s), NEW g \in DOMAIN s.games, NEW i \in 1..2
  PROVE  LET p == s.games[g].seats[i]
         IN  /\ p = [hero |-> p.hero, health |-> p.health, winner |-> p.winner,
                     stats |-> p.stats]
             /\ p.hero \in Int /\ p.health \in Int /\ p.winner \in BOOLEAN
             /\ \A k \in DOMAIN p.stats : p.stats[k] \in Int
  <1>1. s.games[g] \in ToSet(s.games)
    BY DEF ToSet
  <1>2. s.games[g].seats[i] \in ToSet(s.games[g].seats)
    BY Pairs DEF ToSet
  <1> QED
    BY <1>1, <1>2 DEF Accepted, WellShaped, WellShapedGame, WellShapedSeat

LEMMA DraftShape ==
  ASSUME NEW s, Accepted(s), NEW i \in 1..2
  PROVE  LET d == s.participants[i].drafted
         IN  /\ s.participants[i] = [drafted |-> d]
             /\ Len(d) \in Nat /\ DOMAIN d = 1..Len(d)
             /\ \A j \in DOMAIN d : d[j] \in Int
  <1>1. s.participants[i] \in ToSet(s.participants)
    BY Pairs DEF ToSet
  <1>2. WellShapedParticipant(s.participants[i])
    BY <1>1 DEF Accepted, WellShaped
  <1> QED
    BY <1>2, ListPositions DEF WellShapedParticipant

LEMMA BanShape ==
  ASSUME NEW s, Accepted(s)
  PROVE  /\ Len(s.bans) \in Nat /\ DOMAIN s.bans = 1..Len(s.bans)
         /\ \A b \in DOMAIN s.bans : s.bans[b].hero \in Int
  BY ListPositions DEF Accepted, WellShaped, WellShapedBan

-----------------------------------------------------------------------------
(* What the policy accepts the constraints accept.                         *)

\* A pair of different things has two members.
LEMMA TwoMembers ==
  ASSUME NEW x, NEW y, x # y
  PROVE  Cardinality({x, y}) = 2
  <1>1. IsFiniteSet({x}) /\ Cardinality({x}) = 1
    BY FS_Singleton
  <1>2. Cardinality({x} \cup {y}) = Cardinality({x}) + 1
    <2>1. y \notin {x}
      OBVIOUS
    <2> QED
      BY <1>1, <2>1, FS_AddElement
  <1>3. {x, y} = {x} \cup {y}
    OBVIOUS
  <1>4. Cardinality({x, y}) = Cardinality({x}) + 1
    BY <1>2, <1>3
  <1> QED
    BY <1>1, <1>4

\* Values of which none is repeated differ at different positions.
LEMMA NoneRepeated ==
  ASSUME NEW values, NEW n \in Nat, DOMAIN values = 1..n, Repeated(values) = {},
         NEW i \in 1..n, NEW j \in 1..n, values[i] = values[j]
  PROVE  i = j
  <1> SUFFICES ASSUME i # j PROVE FALSE
    OBVIOUS
  <1> DEFINE same == {k \in DOMAIN values : values[k] = values[i]}
  <1>1. IsFiniteSet(1..n)
    BY FS_Interval
  <1>2. IsFiniteSet(same) /\ Cardinality(same) \in Nat
    BY <1>1, FS_Subset, FS_CardinalityType
  <1>3. {i, j} \in SUBSET same
    OBVIOUS
  <1>4. Cardinality({i, j}) = 2
    BY TwoMembers
  <1>5. Cardinality(same) > 1
    BY <1>2, <1>3, <1>4, FS_Subset
  <1> QED
    BY <1>5 DEF Repeated, ToSet

\* A set of one has no two members.
LEMMA OnlyOne ==
  ASSUME NEW S, IsFiniteSet(S), Cardinality(S) = 1, NEW a \in S, NEW b \in S
  PROVE  a = b
  BY FS_Singleton

\* The children of the match are gone before its new ones are written.
LEMMA Emptied ==
  LET kept == DeleteChildren(NoRows)
  IN  /\ DOMAIN kept = DOMAIN NoRows
      /\ kept.participants = {} /\ kept.picks = {} /\ kept.games = {}
      /\ kept.seats = {} /\ kept.stats = {} /\ kept.bans = {}
  BY DEF DeleteChildren, NoRows

LEMMA ParticipantsStorable ==
  ASSUME NEW s, Accepted(s), NEW kept, kept.participants = {}
  PROVE  ParticipantConstraints(kept, Inserts(s))
  <1> DEFINE new == InsertParticipants(s)
  <1>1. Inserts(s).participants = new
    BY DEF Inserts
  <1>2. DOMAIN new = 1..2 /\ \A i \in 1..2 : new[i] = [side |-> i - 1]
    BY Pairs DEF InsertParticipants
  <1> HIDE DEF new
  <1>3. \A i, j \in 1..2 : new[i].side = new[j].side => i = j
    BY <1>2
  <1>4. \A r \in ToSet(new) : Side(r.side)
    BY <1>2 DEF Side, ToSet
  <1> QED
    BY <1>1, <1>2, <1>3, <1>4 DEF ParticipantConstraints, UniqueKey

\* Numbers that are 1 to the number of games are each given once.
LEMMA GameNumbers ==
  ASSUME NEW s, Accepted(s),
         NEW g \in DOMAIN s.games, NEW h \in DOMAIN s.games,
         s.games[g].number = s.games[h].number
  PROVE  g = h
  <1> DEFINE n == Len(s.games)
             number == [k \in 1..n |-> s.games[k].number]
  <1>1. IsList(s.games) /\ n \in Nat /\ DOMAIN s.games = 1..n
    BY ListPositions DEF Accepted, WellShaped
  <1>2. {x.number : x \in ToSet(s.games)} = 1..n
    BY RulesKept DEF Accepted, GameNumbersNotSequential, InvalidGameCount
  <1>3. number \in Surjection(1..n, 1..n)
    BY <1>1, <1>2 DEF Surjection, ToSet
  <1>4. number \in Injection(1..n, 1..n)
    BY <1>1, <1>3, FS_Interval, FS_SurjSameCardinalityImpliesInj
  <1> QED
    BY <1>1, <1>4 DEF Injection, IsInjective

LEMMA GamesStorable ==
  ASSUME NEW s, Accepted(s), NEW kept, kept.games = {}
  PROVE  GameConstraints(kept, Inserts(s), MapPool)
  <1> DEFINE new == InsertGames(s)
  <1>1. Inserts(s).games = new
    BY DEF Inserts
  <1>2. /\ DOMAIN new = DOMAIN s.games
        /\ \A g \in DOMAIN new : new[g].number = s.games[g].number /\ new[g].map = s.games[g].map
    BY DEF InsertGames
  <1> HIDE DEF new
  <1>3. \A g, h \in DOMAIN new : new[g].number = new[h].number => g = h
    BY <1>2, GameNumbers
  <1>4. \A g \in DOMAIN new : new[g].number > 0
    BY <1>2, GameShape
  <1>5. \A g \in DOMAIN new : new[g].map \in MapPool
    BY <1>2, RulesKept DEF Accepted, MapNotInPool, SomeGame, ToSet
  <1> QED
    BY <1>1, <1>3, <1>4, <1>5 DEF GameConstraints, UniqueKey, ToSet

\* A family of rows by two places, the second of which depends on the first.
LEMMA TwoPlaces ==
  ASSUME NEW S, NEW f
  PROVE  LET places == UNION {{i} \X f[i] : i \in S}
         IN  /\ \A p \in places : p[1] \in S /\ p[2] \in f[p[1]] /\ p = <<p[1], p[2]>>
             /\ \A i \in S : \A j \in f[i] : <<i, j>> \in places
             /\ \A p, q \in places : p[1] = q[1] /\ p[2] = q[2] => p = q
  <1> DEFINE places == UNION {{i} \X f[i] : i \in S}
  <1>1. ASSUME NEW p \in places
        PROVE  p[1] \in S /\ p[2] \in f[p[1]] /\ p = <<p[1], p[2]>>
    <2>1. PICK i \in S : p \in {i} \X f[i]
      OBVIOUS
    <2> QED
      BY <2>1
  <1>2. ASSUME NEW i \in S, NEW j \in f[i]
        PROVE  <<i, j>> \in places
    <2>1. <<i, j>> \in {i} \X f[i]
      OBVIOUS
    <2> QED
      BY <2>1
  <1>3. ASSUME NEW p \in places, NEW q \in places, p[1] = q[1], p[2] = q[2]
        PROVE  p = q
    <2>1. p = <<p[1], p[2]>> /\ q = <<q[1], q[2]>>
      BY <1>1
    <2> QED
      BY <1>3, <2>1
  <1> HIDE DEF places
  <1>4. \A p, q \in places : p[1] = q[1] /\ p[2] = q[2] => p = q
    BY <1>3
  <1> QED
    BY <1>1, <1>2, <1>4 DEF places

\* The rows of the seats, by game and list position.
LEMMA SeatRows ==
  ASSUME NEW s, Accepted(s)
  PROVE  LET new == InsertSeats(s)
         IN  /\ \A p \in DOMAIN new :
                  LET seat == s.games[p[1]].seats[p[2]]
                  IN  /\ p[1] \in DOMAIN s.games /\ p[2] \in 1..2
                      /\ new[p] = [game |-> p[1], side |-> p[2] - 1, hero |-> seat.hero,
                                   health |-> seat.health, winner |-> seat.winner]
             /\ \A p, q \in DOMAIN new : p[1] = q[1] /\ p[2] = q[2] => p = q
             /\ \A g \in DOMAIN s.games, i \in 1..2 :
                  \E p \in DOMAIN new : p[1] = g /\ p[2] = i
  <1> DEFINE places == UNION {{g} \X DOMAIN s.games[g].seats : g \in DOMAIN s.games}
             seats  == [g \in DOMAIN s.games |-> DOMAIN s.games[g].seats]
             row(p) == LET seat == s.games[p[1]].seats[p[2]]
                       IN  [game |-> p[1], side |-> p[2] - 1, hero |-> seat.hero,
                            health |-> seat.health, winner |-> seat.winner]
  <1>1. InsertSeats(s) = [p \in places |-> row(p)]
    BY DEF InsertSeats
  <1>2. \A g \in DOMAIN s.games : seats[g] = 1..2
    BY Pairs
  <1>3. places = UNION {{g} \X seats[g] : g \in DOMAIN s.games}
    OBVIOUS
  <1> HIDE DEF places, seats
  <1>4. /\ \A p \in places : p[1] \in DOMAIN s.games /\ p[2] \in seats[p[1]]
        /\ \A g \in DOMAIN s.games : \A i \in seats[g] : <<g, i>> \in places
        /\ \A p, q \in places : p[1] = q[1] /\ p[2] = q[2] => p = q
    BY <1>3, TwoPlaces
  <1>5. ASSUME NEW g \in DOMAIN s.games, NEW i \in 1..2
        PROVE  \E p \in places : p[1] = g /\ p[2] = i
    <2>1. <<g, i>> \in places
      BY <1>2, <1>4
    <2>2. <<g, i>>[1] = g /\ <<g, i>>[2] = i
      OBVIOUS
    <2> QED
      BY <2>1, <2>2
  <1>6. ASSUME NEW p \in places
        PROVE  p[1] \in DOMAIN s.games /\ p[2] \in 1..2
    BY <1>2, <1>4
  <1>7. DOMAIN InsertSeats(s) = places /\ \A p \in places : InsertSeats(s)[p] = row(p)
    BY <1>1
  <1> QED
    BY <1>4, <1>5, <1>6, <1>7

\* No hero sits twice in a game.
LEMMA SeatsDiffer ==
  ASSUME NEW s, Accepted(s), NEW g \in DOMAIN s.games, NEW i \in 1..2, NEW j \in 1..2,
         s.games[g].seats[i].hero = s.games[g].seats[j].hero
  PROVE  i = j
  <1> DEFINE seats == s.games[g].seats
             heroes == SeqMap(LAMBDA p : p.hero, seats)
  <1>1. s.games[g] \in ToSet(s.games)
    BY DEF ToSet
  <1>2. Repeated(heroes) = {}
    BY <1>1, RulesKept DEF Accepted, DuplicateHero, SomeGame
  <1>3. DOMAIN seats = 1..2
    BY Pairs
  <1>4. heroes = [k \in DOMAIN seats |-> seats[k].hero]
    BY DEF SeqMap
  <1>5. seats[i].hero = seats[j].hero
    OBVIOUS
  <1> HIDE DEF heroes, seats
  <1>6. DOMAIN heroes = 1..2 /\ heroes[i] = heroes[j]
    BY <1>3, <1>4, <1>5
  <1> QED
    BY <1>2, <1>6, NoneRepeated

\* A game has one winner.
LEMMA WinnersDiffer ==
  ASSUME NEW s, Accepted(s), NEW g \in DOMAIN s.games, NEW i \in 1..2, NEW j \in 1..2,
         s.games[g].seats[i].winner, s.games[g].seats[j].winner
  PROVE  i = j
  <1> DEFINE seats == s.games[g].seats
             winners == {k \in DOMAIN seats : seats[k].winner}
  <1>1. s.games[g] \in ToSet(s.games)
    BY DEF ToSet
  <1>2. Cardinality(winners) = 1
    BY <1>1, RulesKept DEF Accepted, NotExactlyOneWinner, SomeGame
  <1>3. DOMAIN seats = 1..2
    BY Pairs
  <1>4. i \in winners /\ j \in winners
    BY <1>3
  <1>5. IsFiniteSet(winners)
    BY <1>3, FS_Interval, FS_Subset
  <1> HIDE DEF winners
  <1> QED
    BY <1>2, <1>4, <1>5, OnlyOne

LEMMA SeatsStorable ==
  ASSUME NEW s, Accepted(s), NEW kept, kept.seats = {}
  PROVE  SeatConstraints(kept, Inserts(s), HeroIds)
  <1> DEFINE new == InsertSeats(s)
             Seat(g, i) == s.games[g].seats[i]
  <1>1. Inserts(s).seats = new
    BY DEF Inserts
  <1>2. ASSUME NEW p \in DOMAIN new
        PROVE  /\ p[1] \in DOMAIN s.games /\ p[2] \in 1..2
               /\ new[p].game = p[1] /\ new[p].side = p[2] - 1
               /\ new[p].hero = Seat(p[1], p[2]).hero
               /\ new[p].health = Seat(p[1], p[2]).health
               /\ new[p].winner = Seat(p[1], p[2]).winner
    <2>1. /\ p[1] \in DOMAIN s.games /\ p[2] \in 1..2
          /\ new[p] = [game |-> p[1], side |-> p[2] - 1, hero |-> Seat(p[1], p[2]).hero,
                       health |-> Seat(p[1], p[2]).health, winner |-> Seat(p[1], p[2]).winner]
      BY SeatRows
    <2> HIDE DEF new, Seat
    <2> QED
      BY <2>1
  <1>3. \A p, q \in DOMAIN new : p[1] = q[1] /\ p[2] = q[2] => p = q
    BY SeatRows
  <1> HIDE DEF new
  <1>4. ASSUME NEW p \in DOMAIN new, NEW q \in DOMAIN new, new[p].game = new[q].game,
               \/ new[p].side = new[q].side
               \/ new[p].hero = new[q].hero
               \/ new[p].winner /\ new[q].winner
        PROVE  p = q
    <2>1. p[1] = q[1] /\ p[1] \in DOMAIN s.games /\ p[2] \in 1..2 /\ q[2] \in 1..2
      BY <1>2, <1>4
    <2>2. CASE new[p].side = new[q].side
      <3>1. p[2] = q[2]
        BY <1>2, <2>1, <2>2
      <3> QED
        BY <1>3, <2>1, <3>1
    <2>3. CASE new[p].hero = new[q].hero
      <3>1. Seat(p[1], p[2]).hero = Seat(p[1], q[2]).hero
        BY <1>2, <2>1, <2>3
      <3>2. p[2] = q[2]
        BY <3>1, <2>1, SeatsDiffer
      <3> QED
        BY <1>3, <2>1, <3>2
    <2>4. CASE new[p].winner /\ new[q].winner
      <3>1. Seat(p[1], p[2]).winner /\ Seat(p[1], q[2]).winner
        BY <1>2, <2>1, <2>4
      <3>2. p[2] = q[2]
        BY <3>1, <2>1, WinnersDiffer
      <3> QED
        BY <1>3, <2>1, <3>2
    <2> QED
      BY <1>4, <2>2, <2>3, <2>4
  <1>5. ASSUME NEW g \in DOMAIN s.games, NEW i \in 1..2
        PROVE  Seat(g, i).hero \in HeroIds /\ (Seat(g, i).winner \/ Seat(g, i).health <= 0)
    <2>1. s.games[g] \in ToSet(s.games)
      BY DEF ToSet
    <2>2. DOMAIN s.games[g].seats = 1..2
      BY Pairs
    <2>3. Seat(g, i) \in ToSet(s.games[g].seats)
      BY <2>2 DEF ToSet
    <2>4. Seat(g, i).hero \in PlayedHeroIds(s)
      BY <2>1, <2>3 DEF PlayedHeroIds
    <2>5. Seat(g, i).hero \in HeroIds
      BY <2>4, RulesKept DEF Accepted, UnknownHero, NamedHeroes
    <2>6. Seat(g, i).winner \/ ~(Seat(g, i).health > 0)
      BY <2>1, <2>3, RulesKept DEF Accepted, LoserHasPositiveHealth, SomeSeat, SomeGame
    <2>7. Seat(g, i).health \in Int
      BY SeatShape
    <2> QED
      BY <2>5, <2>6, <2>7
  <1>6. ASSUME NEW p \in DOMAIN new
        PROVE  /\ Side(new[p].side) /\ new[p].hero \in HeroIds
               /\ new[p].winner \/ new[p].health <= 0
    <2>1. p[1] \in DOMAIN s.games /\ p[2] \in 1..2
      BY <1>2
    <2>2. /\ Seat(p[1], p[2]).hero \in HeroIds
          /\ Seat(p[1], p[2]).winner \/ Seat(p[1], p[2]).health <= 0
      BY <1>5, <2>1
    <2> HIDE DEF Seat
    <2>3. Side(new[p].side) /\ new[p].hero \in HeroIds
      BY <1>2, <2>1, <2>2 DEF Side
    <2>4. new[p].winner \/ new[p].health <= 0
      BY <1>2, <2>2
    <2> QED
      BY <2>3, <2>4
  <1> DEFINE won == RestrictValues(new, LAMBDA r : r.winner)
  <1>7. /\ DOMAIN won = {p \in DOMAIN new : new[p].winner}
        /\ \A p \in DOMAIN won : won[p] = new[p]
    BY DEF RestrictValues, Restrict
  <1>8. {r \in kept.seats : r.winner} = {}
    OBVIOUS
  <1> HIDE DEF won
  <1>9. UniqueKey({r \in kept.seats : r.winner}, won, LAMBDA r : r.game)
    BY <1>4, <1>7, <1>8 DEF UniqueKey
  <1>10. UniqueKey(kept.seats, new, LAMBDA r : <<r.game, r.side>>)
    BY <1>4 DEF UniqueKey
  <1>11. UniqueKey(kept.seats, new, LAMBDA r : <<r.game, r.hero>>)
    BY <1>4 DEF UniqueKey
  <1> QED
    BY <1>1, <1>6, <1>9, <1>10, <1>11 DEF SeatConstraints, ToSet, won

\* What is stored of a sheet, under each normalised name one of its values.
LEMMA StatsStored ==
  ASSUME NEW stats, NEW n \in DOMAIN ToStats(stats)
  PROVE  \E k \in DOMAIN stats : NormaliseStat(k) = n /\ ToStats(stats)[n] = stats[k]
  <1> DEFINE chosen == CHOOSE k \in DOMAIN stats : NormaliseStat(k) = n
  <1>1. \E k \in DOMAIN stats : NormaliseStat(k) = n
    BY DEF ToStats
  <1>2. chosen \in DOMAIN stats /\ NormaliseStat(chosen) = n
    BY <1>1
  <1>3. ToStats(stats)[n] = stats[chosen]
    BY <1>1 DEF ToStats
  <1> QED
    BY <1>2, <1>3

\* A stat's row names its seat's.
LEMMA StatOfSeat ==
  ASSUME NEW s, Accepted(s), NEW r \in InsertStats(s)
  PROVE  \E p \in ToSet(InsertSeats(s)) : p.game = r.game /\ p.side = r.side
  <1> DEFINE new == InsertSeats(s)
  <1>1. PICK g \in DOMAIN s.games :
          \E i \in DOMAIN s.games[g].seats : r.game = g /\ r.side = i - 1
    BY DEF InsertStats
  <1>2. PICK i \in 1..2 : r.game = g /\ r.side = i - 1
    BY <1>1, Pairs
  <1>3. PICK p \in DOMAIN new : p[1] = g /\ p[2] = i
    BY SeatRows
  <1>4. new[p].game = p[1] /\ new[p].side = p[2] - 1
    BY SeatRows
  <1>5. new[p] \in ToSet(new)
    BY DEF ToSet
  <1> QED
    BY <1>2, <1>3, <1>4, <1>5

\* Once normalised, a seat has one stat of each name.
LEMMA StatOnce ==
  ASSUME NEW s, Accepted(s), NEW r \in InsertStats(s), NEW q \in InsertStats(s),
         q.game = r.game, q.side = r.side, q.stat = r.stat
  PROVE  q = r
  <1> DEFINE Kept(g, i) == ToStats(s.games[g].seats[i].stats)
             Row(g, i, n) == [game |-> g, side |-> i - 1, stat |-> n, value |-> Kept(g, i)[n]]
  <1>1. ASSUME NEW x \in InsertStats(s)
        PROVE  \E i \in 1..2 : x = Row(x.game, i, x.stat) /\ x.side = i - 1
    <2>1. PICK g \in DOMAIN s.games :
            \E i \in DOMAIN s.games[g].seats : \E n \in DOMAIN Kept(g, i) : x = Row(g, i, n)
      BY DEF InsertStats
    <2>2. PICK i \in 1..2 : \E n \in DOMAIN Kept(g, i) : x = Row(g, i, n)
      BY <2>1, Pairs
    <2>3. PICK n \in DOMAIN Kept(g, i) : x = Row(g, i, n)
      BY <2>2
    <2> HIDE DEF Kept
    <2>4. x.game = g /\ x.side = i - 1 /\ x.stat = n
      BY <2>3
    <2> QED
      BY <2>3, <2>4
  <1> HIDE DEF Kept
  <1>2. PICK i \in 1..2 : r = Row(r.game, i, r.stat) /\ r.side = i - 1
    BY <1>1
  <1>3. PICK j \in 1..2 : q = Row(q.game, j, q.stat) /\ q.side = j - 1
    BY <1>1
  <1>4. i = j
    BY <1>2, <1>3
  <1> QED
    BY <1>2, <1>3, <1>4

LEMMA StatsStorable ==
  ASSUME NEW s, Accepted(s), NEW kept, kept.stats = {}
  PROVE  StatConstraints(kept, Inserts(s))
  <1> DEFINE Sheet(g, i) == s.games[g].seats[i].stats
  <1> SUFFICES ASSUME NEW r \in InsertStats(s)
               PROVE  r.stat \notin Malformed /\ r.value >= 0
    <2>1. Inserts(s).stats = InsertStats(s) /\ Inserts(s).seats = InsertSeats(s)
      BY DEF Inserts
    <2> QED
      BY <2>1, StatOfSeat, StatOnce DEF StatConstraints
  <1> DEFINE Row(g, i, n) == [game |-> g, side |-> i - 1, stat |-> n,
                               value |-> ToStats(Sheet(g, i))[n]]
  <1>1. PICK g \in DOMAIN s.games :
          \E i \in DOMAIN s.games[g].seats : \E n \in DOMAIN ToStats(Sheet(g, i)) : r = Row(g, i, n)
    BY DEF InsertStats
  <1>2. PICK i \in DOMAIN s.games[g].seats : \E n \in DOMAIN ToStats(Sheet(g, i)) : r = Row(g, i, n)
    BY <1>1
  <1>3. PICK n \in DOMAIN ToStats(Sheet(g, i)) : r = Row(g, i, n)
    BY <1>2
  <1>4. PICK k \in DOMAIN Sheet(g, i) :
               NormaliseStat(k) = n /\ ToStats(Sheet(g, i))[n] = Sheet(g, i)[k]
    BY StatsStored
  <1>5. s.games[g] \in ToSet(s.games) /\ s.games[g].seats[i] \in ToSet(s.games[g].seats)
    BY DEF ToSet
  <1>6. NormaliseStat(k) \notin Malformed
    BY <1>5, RulesKept DEF Accepted, StatNameMalformed, SomeSeat, SomeGame
  <1>7. ~(Sheet(g, i)[k] < 0)
    BY <1>5, RulesKept DEF Accepted, StatValueNegative, SomeSeat, SomeGame
  <1>8. i \in 1..2
    BY Pairs
  <1>9. Sheet(g, i)[k] \in Int
    BY <1>8, SeatShape
  <1> HIDE DEF Sheet
  <1>30. r.stat = n /\ r.value = Sheet(g, i)[k]
    BY <1>3, <1>4
  <1> QED
    BY <1>4, <1>6, <1>7, <1>9, <1>30

LEMMA BansStorable ==
  ASSUME NEW s, Accepted(s), NEW kept, kept.bans = {}
  PROVE  BanConstraints(kept, Inserts(s), HeroIds)
  <1> DEFINE heroes == SeqMap(LAMBDA b : b.hero, s.bans)
  <1>1. heroes = [b \in DOMAIN s.bans |-> s.bans[b].hero]
    BY DEF SeqMap
  <1>2. Repeated(heroes) = {}
    BY RulesKept DEF Accepted, DuplicateBan
  <1> HIDE DEF heroes
  <1>3. \A a, b \in DOMAIN s.bans : s.bans[a].hero = s.bans[b].hero => a = b
    <2>1. Len(s.bans) \in Nat /\ DOMAIN heroes = 1..Len(s.bans) /\ DOMAIN s.bans = 1..Len(s.bans)
      BY <1>1, BanShape
    <2> QED
      BY <1>1, <1>2, <2>1, NoneRepeated
  <1>4. UniqueKey(kept.bans, s.bans, LAMBDA r : r.hero)
    BY <1>3 DEF UniqueKey
  <1>5. ASSUME NEW b \in ToSet(s.bans)
        PROVE  /\ b.hero \in HeroIds
               /\ b.side = None \/ Side(b.side)
               /\ b.side = None \/ b.type # "PRE_BAN"
    <2>1. b.hero \in HeroIds
      BY RulesKept DEF Accepted, UnknownHero, NamedHeroes, BannedHeroIds
    <2> QED
      BY <2>1, RulesKept DEF Accepted, BanSideInvalid, Side
  <1> QED
    BY <1>4, <1>5 DEF BanConstraints, Inserts, InsertBans

\* The rows of the picks, by side and first place of the hero in its draft.
LEMMA PickRows ==
  ASSUME NEW s, Accepted(s)
  PROVE  LET new == ToPicks(s)
         IN  /\ \A p \in DOMAIN new :
                  LET d == s.participants[p[1]].drafted
                  IN  /\ p[1] \in 1..2 /\ p[2] \in DOMAIN d
                      /\ \A k \in DOMAIN d : k < p[2] => d[k] # d[p[2]]
                      /\ new[p] = [side |-> p[1] - 1, hero |-> d[p[2]]]
             /\ \A p, q \in DOMAIN new : p[1] = q[1] /\ p[2] = q[2] => p = q
             /\ \A i \in 1..2 : \A j \in DOMAIN s.participants[i].drafted :
                  (\A k \in DOMAIN s.participants[i].drafted :
                     k < j => s.participants[i].drafted[k] # s.participants[i].drafted[j])
                  => \E p \in DOMAIN new : p[1] = i /\ p[2] = j
  <1> DEFINE Drafted(i) == s.participants[i].drafted
             Firsts(i)  == {j \in DOMAIN Drafted(i) :
                              \A k \in DOMAIN Drafted(i) : k < j => Drafted(i)[k] # Drafted(i)[j]}
             firsts == [i \in 1..2 |-> Firsts(i)]
             places == UNION {{i} \X Firsts(i) : i \in DOMAIN s.participants}
  <1>1. ToPicks(s) = [p \in places |-> [side |-> p[1] - 1, hero |-> Drafted(p[1])[p[2]]]]
    BY DEF ToPicks
  <1>2. \A i \in 1..2 : firsts[i] = Firsts(i)
    OBVIOUS
  <1>3. places = UNION {{i} \X firsts[i] : i \in 1..2}
    BY Pairs
  <1> HIDE DEF places, firsts
  <1>4. /\ \A p \in places : p[1] \in 1..2 /\ p[2] \in firsts[p[1]]
        /\ \A i \in 1..2 : \A j \in firsts[i] : <<i, j>> \in places
        /\ \A p, q \in places : p[1] = q[1] /\ p[2] = q[2] => p = q
    BY <1>3, TwoPlaces
  <1>5. ASSUME NEW i \in 1..2, NEW j \in Firsts(i)
        PROVE  \E p \in places : p[1] = i /\ p[2] = j
    <2>1. <<i, j>> \in places
      BY <1>2, <1>4
    <2>2. <<i, j>>[1] = i /\ <<i, j>>[2] = j
      OBVIOUS
    <2> QED
      BY <2>1, <2>2
  <1>6. ASSUME NEW p \in places
        PROVE  p[1] \in 1..2 /\ p[2] \in Firsts(p[1])
    BY <1>2, <1>4
  <1>7. DOMAIN ToPicks(s) = places
        /\ \A p \in places : ToPicks(s)[p] = [side |-> p[1] - 1, hero |-> Drafted(p[1])[p[2]]]
    BY <1>1
  <1> QED
    BY <1>4, <1>5, <1>6, <1>7

LEMMA PicksStorable ==
  ASSUME NEW s, Accepted(s), NEW kept, kept.picks = {}
  PROVE  PickConstraints(kept, Inserts(s), HeroIds)
  <1> DEFINE new == ToPicks(s)
             Drafted(i) == s.participants[i].drafted
  <1>1. Inserts(s).picks = new
    BY DEF Inserts
  <1>2. ASSUME NEW p \in DOMAIN new
        PROVE  /\ p[1] \in 1..2 /\ p[2] \in DOMAIN Drafted(p[1])
               /\ \A k \in DOMAIN Drafted(p[1]) :
                    k < p[2] => Drafted(p[1])[k] # Drafted(p[1])[p[2]]
               /\ new[p].side = p[1] - 1 /\ new[p].hero = Drafted(p[1])[p[2]]
    <2>1. new[p] = [side |-> p[1] - 1, hero |-> Drafted(p[1])[p[2]]]
      BY PickRows
    <2>2. new[p].side = p[1] - 1 /\ new[p].hero = Drafted(p[1])[p[2]]
      BY <2>1
    <2> QED
      BY <2>2, PickRows
  <1>3. \A p, q \in DOMAIN new : p[1] = q[1] /\ p[2] = q[2] => p = q
    BY PickRows
  <1> HIDE DEF new
  <1>4. ASSUME NEW p \in DOMAIN new, NEW q \in DOMAIN new, new[p] = new[q]
        PROVE  p = q
    <2>1. p[1] = q[1] /\ Drafted(p[1])[p[2]] = Drafted(p[1])[q[2]]
      BY <1>2, <1>4
    <2>2. p[2] \in Int /\ q[2] \in Int
      <3>1. /\ Len(Drafted(p[1])) \in Nat
            /\ DOMAIN Drafted(p[1]) = 1..Len(Drafted(p[1]))
        BY <1>2, DraftShape
      <3>2. p[2] \in DOMAIN Drafted(p[1]) /\ q[2] \in DOMAIN Drafted(p[1])
        BY <1>2, <2>1
      <3> QED
        BY <3>1, <3>2
    <2>3. ~(p[2] < q[2]) /\ ~(q[2] < p[2])
      BY <1>2, <2>1
    <2> QED
      BY <1>3, <2>1, <2>2, <2>3
  <1>5. UniqueKey(kept.picks, new, LAMBDA r : r)
    BY <1>4 DEF UniqueKey
  <1>6. ASSUME NEW p \in DOMAIN new
        PROVE  Side(new[p].side) /\ new[p].hero \in HeroIds
    <2>1. s.participants[p[1]] \in ToSet(s.participants)
      BY <1>2, Pairs DEF ToSet
    <2>2. new[p].hero \in ToSet(Drafted(p[1]))
      BY <1>2 DEF ToSet
    <2>3. new[p].hero \in DraftedHeroIds(s)
      BY <2>1, <2>2 DEF DraftedHeroIds
    <2>4. new[p].hero \in HeroIds
      BY <2>3, RulesKept DEF Accepted, UnknownHero, NamedHeroes
    <2>5. Side(new[p].side)
      BY <1>2 DEF Side
    <2> QED
      BY <2>4, <2>5
  <1> QED
    BY <1>1, <1>5, <1>6 DEF PickConstraints, ToSet

\* Once the rows of the match are deleted, no statement of an accepted submission is
\* refused, whoever sent it (match_policy.rs against the constraints of V1 and V6).
THEOREM PolicyImpliesConstraints ==
  ASSUME NEW s, WellShaped(s), Violations(s) = {}, NEW t, DOMAIN t = DOMAIN NoRows
  PROVE  Storable(DeleteChildren(t), Inserts(s), MapPool, HeroIds)
  <1>1. Accepted(s)
    BY DEF Accepted
  <1>2. DeleteChildren(t) = DeleteChildren(NoRows)
    BY DEF DeleteChildren
  <1> QED
    BY <1>1, <1>2, Emptied, ParticipantsStorable, GamesStorable, SeatsStorable, StatsStorable,
       BansStorable, PicksStorable
    DEF Storable

-----------------------------------------------------------------------------
(* Reading in order.                                                       *)

\* ORDER BY a column that tells the rows apart lists each row once, ascending.
LEMMA Ordered ==
  ASSUME NEW table, IsFiniteSet(table), NEW c, \A r \in table : r[c] \in Int,
         \A q, r \in table : q[c] = r[c] => q = r
  PROVE  LET o == OrderBy(table, c)
         IN  /\ DOMAIN o = 1..Cardinality(table)
             /\ \A k \in DOMAIN o : o[k] \in table
             /\ \A r \in table : \E k \in DOMAIN o : o[k] = r
             /\ \A k, l \in DOMAIN o : k < l => o[k][c] < o[l][c]
  <1> DEFINE rel   == {p \in table \X table : p[1][c] < p[2][c]}
             place == [r \in table |-> 1 + Cardinality({q \in table : q[c] < r[c]})]
             o     == OrderBy(table, c)
  <1>1. StrictOrder(rel, table)
    BY DEF StrictOrder
  <1>2. CountsBelow(place, rel, table)
    <2> SUFFICES ASSUME NEW r \in table
                 PROVE  place[r] = 1 + Cardinality(Below(r, rel, table))
      BY DEF CountsBelow
    <2>1. Below(r, rel, table) = {q \in table : q[c] < r[c]}
      BY DEF Below
    <2> QED
      BY <2>1
  <1>3. ByPlace(o, place, table)
    <2>1. o = [k \in 1 .. Cardinality(table) |->
                 CHOOSE r \in table : 1 + Cardinality({q \in table : q[c] < r[c]}) = k]
      BY DEF OrderBy, Sorted
    <2>2. \A r \in table : place[r] = 1 + Cardinality({q \in table : q[c] < r[c]})
      OBVIOUS
    <2> HIDE DEF o, place
    <2> QED
      BY <2>1, <2>2 DEF ByPlace
  <1> HIDE DEF place, rel, o
  <1>4. Lists(o, rel, table)
    BY <1>1, <1>2, <1>3, PlacesList
  <1>5. \A k, l \in DOMAIN o : k < l => o[k][c] < o[l][c]
    BY <1>4 DEF Lists, rel
  <1> QED
    BY <1>4, <1>5 DEF Lists, o

\* Two rows of sides 0 and 1 are read in that order.
LEMMA OrderedSides ==
  ASSUME NEW a, NEW b, a["side"] = 0, b["side"] = 1
  PROVE  LET o == OrderBy({a, b}, "side")
         IN  DOMAIN o = 1..2 /\ o[1] = a /\ o[2] = b
  <1> DEFINE o == OrderBy({a, b}, "side")
  <1>1. IsFiniteSet({a}) /\ Cardinality({a}) = 1
    BY FS_Singleton
  <1>2. Cardinality({a} \cup {b}) = IF b \in {a} THEN Cardinality({a}) ELSE Cardinality({a}) + 1
    BY <1>1, FS_AddElement
  <1>3. IsFiniteSet({a, b}) /\ Cardinality({a, b}) = 2
    <2>1. IsFiniteSet({a} \cup {b})
      BY <1>1, FS_AddElement
    <2>2. b \notin {a}
      OBVIOUS
    <2>3. {a, b} = {a} \cup {b}
      OBVIOUS
    <2> QED
      BY <1>1, <1>2, <2>1, <2>2, <2>3
  <1>4. /\ DOMAIN o = 1..Cardinality({a, b})
        /\ \A k \in DOMAIN o : o[k] \in {a, b}
        /\ \A k, l \in DOMAIN o : k < l => o[k]["side"] < o[l]["side"]
    <2>1. /\ \A r \in {a, b} : r["side"] \in Int
          /\ \A q, r \in {a, b} : q["side"] = r["side"] => q = r
      OBVIOUS
    <2> DEFINE table == {a, b}
    <2> HIDE DEF table
    <2>2. LET p == OrderBy(table, "side")
          IN  /\ DOMAIN p = 1..Cardinality(table)
              /\ \A k \in DOMAIN p : p[k] \in table
              /\ \A k, l \in DOMAIN p : k < l => p[k]["side"] < p[l]["side"]
      BY <1>3, <2>1, Ordered DEF table
    <2> QED
      BY <2>2 DEF table
  <1> HIDE DEF o
  <1>5. DOMAIN o = 1..2 /\ o[1] \in {a, b} /\ o[2] \in {a, b} /\ o[1]["side"] < o[2]["side"]
    BY <1>3, <1>4
  <1>6. o[1] = a /\ o[2] = b
    BY <1>5
  <1> QED
    BY <1>5, <1>6 DEF o

-----------------------------------------------------------------------------
(* What is written is what is read.                                        *)

\* The rows of an accepted submission, in tables that held none.
Written(s) == Insert(DeleteChildren(NoRows), Inserts(s))

LEMMA WrittenTables ==
  ASSUME NEW s
  PROVE  /\ Written(s).participants = ToSet(InsertParticipants(s))
         /\ Written(s).picks = ToSet(ToPicks(s))
         /\ Written(s).games = ToSet(InsertGames(s))
         /\ Written(s).seats = ToSet(InsertSeats(s))
         /\ Written(s).stats = InsertStats(s)
         /\ Written(s).bans = ToSet(s.bans)
  <1> DEFINE kept == DeleteChildren(NoRows)
             new == Inserts(s)
  <1>1. /\ kept.participants = {} /\ kept.picks = {} /\ kept.games = {}
        /\ kept.seats = {} /\ kept.stats = {} /\ kept.bans = {}
    BY Emptied
  <1>2. /\ new.participants = InsertParticipants(s) /\ new.picks = ToPicks(s)
        /\ new.games = InsertGames(s) /\ new.seats = InsertSeats(s)
        /\ new.stats = InsertStats(s) /\ new.bans = s.bans
    BY DEF Inserts, InsertBans
  <1> HIDE DEF kept, new
  <1> QED
    BY <1>1, <1>2 DEF Written, Insert, kept, new

\* A sheet goes out under its stored names and comes back under them.
LEMMA SheetRoundTrip ==
  ASSUME NEW stats
  PROVE  ToStats(FormStats(ToStats(stats))) = ToStats(stats)
  <1> DEFINE names == {NormaliseStat(k) : k \in DOMAIN stats}
             kept == ToStats(stats)
             sent == FormStats(kept)
  <1>1. kept = [n \in names |-> stats[CHOOSE k \in DOMAIN stats : NormaliseStat(k) = n]]
    BY DEF ToStats
  <1>2. DOMAIN kept = names
    BY <1>1
  <1>3. sent = [k \in {<<n, n>> : n \in names} |-> kept[k[1]]]
    BY <1>2 DEF FormStats
  <1> HIDE DEF kept, names, sent
  <1>4. DOMAIN sent = {<<n, n>> : n \in names}
    BY <1>3
  <1>5. \A n \in names : <<n, n>> \in DOMAIN sent /\ NormaliseStat(<<n, n>>) = n
    BY <1>4 DEF NormaliseStat
  <1>6. \A k \in DOMAIN sent : NormaliseStat(k) \in names /\ sent[k] = kept[NormaliseStat(k)]
    BY <1>3, <1>4 DEF NormaliseStat
  <1>7. {NormaliseStat(k) : k \in DOMAIN sent} = names
    BY <1>5, <1>6
  <1>8. ASSUME NEW n \in names
        PROVE  sent[CHOOSE k \in DOMAIN sent : NormaliseStat(k) = n] = kept[n]
    <2>1. \E k \in DOMAIN sent : NormaliseStat(k) = n
      BY <1>5
    <2> DEFINE chosen == CHOOSE k \in DOMAIN sent : NormaliseStat(k) = n
    <2>2. chosen \in DOMAIN sent /\ NormaliseStat(chosen) = n
      BY <2>1
    <2> HIDE DEF chosen
    <2>3. sent[chosen] = kept[n]
      BY <1>6, <2>2
    <2> QED
      BY <2>3 DEF chosen
  <1>9. ToStats(sent) = [n \in names |-> kept[n]]
    BY <1>7, <1>8 DEF ToStats
  <1>10. kept = [n \in names |-> kept[n]]
    BY <1>1
  <1> QED
    BY <1>9, <1>10 DEF sent, kept

\* The stats of a seat, normalised.
LEMMA StatsReadBack ==
  ASSUME NEW s, Accepted(s), NEW g \in DOMAIN s.games, NEW i \in 1..2
  PROVE  AssembleStats(Written(s), g, i - 1) = ToStats(s.games[g].seats[i].stats)
  <1> DEFINE Kept(x, y) == ToStats(s.games[x].seats[y].stats)
             Row(x, y, n) == [game |-> x, side |-> y - 1, stat |-> n, value |-> Kept(x, y)[n]]
             kept == Kept(g, i)
             found == {r \in Written(s).stats : r.game = g /\ r.side = i - 1}
  <1>1. ASSUME NEW r \in found
        PROVE  \E n \in DOMAIN kept : r = Row(g, i, n)
    <2>1. r \in InsertStats(s) /\ r.game = g /\ r.side = i - 1
      BY WrittenTables
    <2>2. PICK x \in DOMAIN s.games :
            \E y \in DOMAIN s.games[x].seats : \E n \in DOMAIN Kept(x, y) : r = Row(x, y, n)
      BY <2>1 DEF InsertStats
    <2>3. PICK y \in DOMAIN s.games[x].seats : \E n \in DOMAIN Kept(x, y) : r = Row(x, y, n)
      BY <2>2
    <2>4. PICK n \in DOMAIN Kept(x, y) : r = Row(x, y, n)
      BY <2>3
    <2>5. y \in 1..2
      BY Pairs
    <2>6. r.game = x /\ r.side = y - 1
      BY <2>4
    <2>7. x = g /\ y = i
      BY <2>1, <2>5, <2>6
    <2> QED
      BY <2>4, <2>7
  <1>2. ASSUME NEW n \in DOMAIN kept
        PROVE  Row(g, i, n) \in found
    <2>1. i \in DOMAIN s.games[g].seats
      BY Pairs
    <2> DEFINE Sheet(x, y) == {Row(x, y, m) : m \in DOMAIN Kept(x, y)}
               Game(x) == UNION {Sheet(x, y) : y \in DOMAIN s.games[x].seats}
    <2>2. InsertStats(s) = UNION {Game(x) : x \in DOMAIN s.games}
      BY DEF InsertStats
    <2>3. Row(g, i, n) \in Sheet(g, i)
      OBVIOUS
    <2> HIDE DEF Sheet, Row
    <2>4. Row(g, i, n) \in Game(g)
      BY <2>1, <2>3
    <2> HIDE DEF Game
    <2>5. Row(g, i, n) \in InsertStats(s)
      BY <2>2, <2>4
    <2> USE DEF Row
    <2> QED
      BY <2>5, WrittenTables
  <1>3. \A n : Row(g, i, n).stat = n /\ Row(g, i, n).value = kept[n]
    OBVIOUS
  <1>4. AssembleStats(Written(s), g, i - 1)
          = [n \in {r.stat : r \in found} |-> (CHOOSE r \in found : r.stat = n).value]
    BY DEF AssembleStats
  <1>5. kept = [n \in DOMAIN kept |-> kept[n]]
    BY DEF ToStats
  <1> HIDE DEF found, kept, Row, Kept
  <1>6. {r.stat : r \in found} = DOMAIN kept
    <2>1. \A n \in DOMAIN kept : \E r \in found : r.stat = n
      BY <1>2, <1>3
    <2>2. \A r \in found : r.stat \in DOMAIN kept
      BY <1>1, <1>3
    <2> QED
      BY <2>1, <2>2
  <1>7. ASSUME NEW n \in DOMAIN kept
        PROVE  (CHOOSE r \in found : r.stat = n).value = kept[n]
    <2> DEFINE chosen == CHOOSE r \in found : r.stat = n
    <2>1. \E r \in found : r.stat = n
      BY <1>2, <1>3
    <2>2. chosen \in found /\ chosen.stat = n
      BY <2>1
    <2> HIDE DEF chosen
    <2>3. PICK m \in DOMAIN kept : chosen = Row(g, i, m)
      BY <1>1, <2>2
    <2>4. chosen.value = kept[n]
      BY <1>3, <2>2, <2>3
    <2> QED
      BY <2>4 DEF chosen
  <1>8. AssembleStats(Written(s), g, i - 1) = [n \in DOMAIN kept |-> kept[n]]
    BY <1>4, <1>6, <1>7
  <1> QED
    BY <1>5, <1>8 DEF kept, Kept

\* The seats of a game, in the order they were submitted in.
LEMMA SeatsReadBack ==
  ASSUME NEW s, Accepted(s), NEW g \in DOMAIN s.games
  PROVE  LET seats == s.games[g].seats
         IN  AssembleSeats(Written(s), g) =
               [i \in 1..2 |-> [side |-> i - 1, hero |-> seats[i].hero,
                               health |-> seats[i].health, winner |-> seats[i].winner,
                               stats |-> ToStats(seats[i].stats)]]
  <1> DEFINE seats == s.games[g].seats
             Row(i) == [game |-> g, side |-> i - 1, hero |-> seats[i].hero,
                        health |-> seats[i].health, winner |-> seats[i].winner]
             found == {r \in Written(s).seats : r.game = g}
             new == InsertSeats(s)
  <1>1. ASSUME NEW r \in found
        PROVE  r = Row(1) \/ r = Row(2)
    <2>1. r \in ToSet(new) /\ r.game = g
      BY WrittenTables
    <2>2. PICK p \in DOMAIN new : r = new[p]
      BY <2>1 DEF ToSet
    <2> DEFINE seat == s.games[p[1]].seats[p[2]]
    <2>3. /\ p[2] \in 1..2
          /\ r = [game |-> p[1], side |-> p[2] - 1, hero |-> seat.hero,
                  health |-> seat.health, winner |-> seat.winner]
      BY <2>2, SeatRows
    <2>4. p[1] = g
      BY <2>1, <2>3
    <2>5. r = Row(p[2])
      BY <2>3, <2>4
    <2> QED
      BY <2>3, <2>5
  <1>2. ASSUME NEW i \in 1..2
        PROVE  Row(i) \in found
    <2>1. PICK p \in DOMAIN new : p[1] = g /\ p[2] = i
      BY SeatRows
    <2>2. new[p] = Row(i)
      BY <2>1, SeatRows
    <2>3. Row(i) \in ToSet(new)
      BY <2>1, <2>2 DEF ToSet
    <2> QED
      BY <2>3, WrittenTables
  <1>3. found = {Row(1), Row(2)}
    BY <1>1, <1>2
  <1>4. Row(1).side = 0 /\ Row(2).side = 1
    OBVIOUS
  <1> DEFINE o == OrderBy(found, "side")
             Read(r) == [side |-> r.side, hero |-> r.hero, health |-> r.health,
                         winner |-> r.winner, stats |-> AssembleStats(Written(s), g, r.side)]
  <1>5. DOMAIN o = 1..2 /\ o[1] = Row(1) /\ o[2] = Row(2)
    BY <1>3, <1>4, OrderedSides
  <1>6. AssembleSeats(Written(s), g) = [i \in DOMAIN o |-> Read(o[i])]
    BY DEF AssembleSeats, SeqMap
  <1> HIDE DEF o, found
  <1>7. ASSUME NEW i \in 1..2
        PROVE  Read(o[i]) = [side |-> i - 1, hero |-> seats[i].hero,
                             health |-> seats[i].health, winner |-> seats[i].winner,
                             stats |-> ToStats(seats[i].stats)]
    <2>1. o[i] = Row(i)
      BY <1>5
    <2>2. AssembleStats(Written(s), g, i - 1) = ToStats(seats[i].stats)
      BY StatsReadBack
    <2> QED
      BY <2>1, <2>2
  <1> HIDE DEF Read, Row
  <1> QED
    BY <1>5, <1>6, <1>7

\* A draft that names no hero twice is stored whole: its places are the picks.
LEMMA DraftRows ==
  ASSUME NEW s, Accepted(s), NEW i \in 1..2
  PROVE  LET d == s.participants[i].drafted
         IN  {p \in Written(s).picks : p.side = i - 1} = {[side |-> i - 1, hero |-> d[j]] : j \in DOMAIN d}
  <1> DEFINE d == s.participants[i].drafted
             new == ToPicks(s)
  <1>1. /\ Len(d) \in Nat /\ DOMAIN d = 1..Len(d)
        /\ Repeated(d) = {}
    <2>1. s.participants[i] \in ToSet(s.participants)
      BY Pairs DEF ToSet
    <2> QED
      BY <2>1, DraftShape, RulesKept DEF Accepted, DuplicatePick
  <1>2. ASSUME NEW r \in Written(s).picks, r.side = i - 1
        PROVE  \E j \in DOMAIN d : r = [side |-> i - 1, hero |-> d[j]]
    <2>1. r \in ToSet(new)
      BY WrittenTables
    <2>2. PICK p \in DOMAIN new : r = new[p]
      BY <2>1 DEF ToSet
    <2>3. /\ p[1] \in 1..2 /\ p[2] \in DOMAIN s.participants[p[1]].drafted
          /\ r = [side |-> p[1] - 1, hero |-> s.participants[p[1]].drafted[p[2]]]
      BY <2>2, PickRows
    <2>4. p[1] = i
      BY <1>2, <2>3
    <2> QED
      BY <2>3, <2>4
  <1>3. ASSUME NEW j \in DOMAIN d
        PROVE  [side |-> i - 1, hero |-> d[j]] \in Written(s).picks
    <2>1. \A k \in DOMAIN d : k < j => d[k] # d[j]
      BY <1>1, NoneRepeated
    <2>2. PICK p \in DOMAIN new : p[1] = i /\ p[2] = j
      BY <2>1, PickRows
    <2>3. new[p] = [side |-> i - 1, hero |-> d[j]]
      BY <2>2, PickRows
    <2>4. new[p] \in ToSet(new)
      BY DEF ToSet
    <2> QED
      BY <2>3, <2>4, WrittenTables
  <1> QED
    BY <1>2, <1>3

\* The participants, each with its draft.
LEMMA ParticipantsReadBack ==
  ASSUME NEW s, Accepted(s)
  PROVE  LET read == AssembleParticipants(Written(s))
         IN  /\ DOMAIN read = 1..2
             /\ \A i \in 1..2 : ToSet(read[i].drafted) = ToSet(s.participants[i].drafted)
  <1> DEFINE t == Written(s)
             Row(i) == [side |-> i - 1]
             Draft(side) == SeqMap(LAMBDA p : p.hero,
                                   OrderBy({p \in t.picks : p.side = side}, "hero"))
             o == OrderBy(t.participants, "side")
  <1>1. t.participants = {Row(1), Row(2)}
    <2>1. InsertParticipants(s) = [i \in 1..2 |-> Row(i)]
      BY Pairs DEF InsertParticipants
    <2>2. ToSet(InsertParticipants(s)) = {Row(1), Row(2)}
      BY <2>1 DEF ToSet
    <2> QED
      BY <2>2, WrittenTables
  <1>2. DOMAIN o = 1..2 /\ o[1] = Row(1) /\ o[2] = Row(2)
    <2>1. Row(1).side = 0 /\ Row(2).side = 1
      OBVIOUS
    <2> QED
      BY <1>1, <2>1, OrderedSides
  <1>3. AssembleParticipants(t) = [i \in DOMAIN o |-> [side |-> o[i].side, drafted |-> Draft(o[i].side)]]
    BY DEF AssembleParticipants, SeqMap
  <1>4. ASSUME NEW i \in 1..2
        PROVE  ToSet(Draft(i - 1)) = ToSet(s.participants[i].drafted)
    <2> DEFINE d == s.participants[i].drafted
               found == {p \in t.picks : p.side = i - 1}
               q == OrderBy(found, "hero")
    <2>1. found = {[side |-> i - 1, hero |-> d[j]] : j \in DOMAIN d}
      BY DraftRows
    <2>2. /\ Len(d) \in Nat /\ DOMAIN d = 1..Len(d)
          /\ \A j \in DOMAIN d : d[j] \in Int
      BY DraftShape
    <2>3. Draft(i - 1) = [k \in DOMAIN q |-> q[k].hero]
      BY DEF SeqMap
    <2> HIDE DEF found, q, Draft
    <2>4. IsFiniteSet(found)
      <3> DEFINE f == [j \in DOMAIN d |-> [side |-> i - 1, hero |-> d[j]]]
      <3>1. IsFiniteSet(DOMAIN d)
        BY <2>2, FS_Interval
      <3>2. f \in Surjection(DOMAIN d, found)
        BY <2>1 DEF Surjection
      <3> QED
        BY <3>1, <3>2, FS_Surjection
    <2>5. /\ \A r \in found : r["hero"] \in Int
          /\ \A a, b \in found : a["hero"] = b["hero"] => a = b
      BY <2>1, <2>2
    <2>6. /\ \A k \in DOMAIN q : q[k] \in found
          /\ \A r \in found : \E k \in DOMAIN q : q[k] = r
      BY <2>4, <2>5, Ordered DEF q
    <2>7. \A h : h \in ToSet(Draft(i - 1)) <=> \E r \in found : r.hero = h
      BY <2>3, <2>6 DEF ToSet
    <2>8. \A h : h \in ToSet(d) <=> \E r \in found : r.hero = h
      <3> DEFINE Pick(j) == [side |-> i - 1, hero |-> d[j]]
      <3>1. \A j \in DOMAIN d : Pick(j) \in found
        BY <2>1
      <3>2. \A r \in found : \E j \in DOMAIN d : r = Pick(j)
        BY <2>1
      <3>3. \A j : Pick(j).hero = d[j]
        OBVIOUS
      <3> HIDE DEF Pick, d
      <3> QED
        BY <3>1, <3>2, <3>3 DEF ToSet
    <2> QED
      BY <2>7, <2>8
  <1> HIDE DEF o, Draft, t
  <1>5. \A i \in 1..2 : o[i].side = i - 1
    BY <1>2
  <1> QED
    BY <1>2, <1>3, <1>4, <1>5 DEF t

\* No hero is banned twice.
LEMMA BansDiffer ==
  ASSUME NEW s, Accepted(s)
  PROVE  \A a, b \in ToSet(s.bans) : a.hero = b.hero => a = b
  <1> SUFFICES ASSUME NEW x \in ToSet(s.bans), NEW y \in ToSet(s.bans), x.hero = y.hero
               PROVE  x = y
    OBVIOUS
  <1> DEFINE heroes == SeqMap(LAMBDA b : b.hero, s.bans)
  <1>1. Len(s.bans) \in Nat /\ DOMAIN s.bans = 1..Len(s.bans)
    BY BanShape
  <1>2. heroes = [b \in DOMAIN s.bans |-> s.bans[b].hero]
    BY DEF SeqMap
  <1>3. Repeated(heroes) = {}
    BY RulesKept DEF Accepted, DuplicateBan
  <1> HIDE DEF heroes
  <1>4. PICK a \in DOMAIN s.bans : x = s.bans[a]
    BY DEF ToSet
  <1>5. PICK b \in DOMAIN s.bans : y = s.bans[b]
    BY DEF ToSet
  <1>6. DOMAIN heroes = 1..Len(s.bans) /\ heroes[a] = heroes[b]
    BY <1>1, <1>2, <1>4, <1>5
  <1>7. a = b
    BY <1>1, <1>3, <1>6, NoneRepeated
  <1> QED
    BY <1>4, <1>5, <1>7

\* The bans, in another order.
LEMMA BansReadBack ==
  ASSUME NEW s, Accepted(s)
  PROVE  /\ ToSet(AssembleBans(Written(s))) = ToSet(s.bans)
         /\ AssembleBans(Written(s)) \in Seq(ToSet(s.bans))
  <1> DEFINE bans == ToSet(s.bans)
             o == OrderBy(bans, "hero")
  <1>1. /\ Len(s.bans) \in Nat /\ DOMAIN s.bans = 1..Len(s.bans)
        /\ \A b \in DOMAIN s.bans : s.bans[b].hero \in Int
    BY BanShape
  <1>2. IsFiniteSet(bans)
    <2>1. IsFiniteSet(DOMAIN s.bans)
      BY <1>1, FS_Interval
    <2> QED
      BY <2>1, FiniteRows
  <1>3. \A r \in bans : r["hero"] \in Int
    BY <1>1 DEF ToSet
  <1>4. \A a, b \in bans : a["hero"] = b["hero"] => a = b
    BY BansDiffer
  <1> HIDE DEF bans
  <1>5. /\ \A k \in DOMAIN o : o[k] \in bans
        /\ \A r \in bans : \E k \in DOMAIN o : o[k] = r
        /\ DOMAIN o = 1..Cardinality(bans)
    BY <1>2, <1>3, <1>4, Ordered
  <1>6. AssembleBans(Written(s)) = o
    BY WrittenTables DEF AssembleBans, bans
  <1> HIDE DEF o
  <1>7. ToSet(o) = bans
    BY <1>5 DEF ToSet
  <1>8. o \in Seq(bans)
    <2>1. Cardinality(bans) \in Nat
      BY <1>2, FS_CardinalityType
    <2> DEFINE at(k) == CHOOSE r \in bans : 1 + Cardinality({q \in bans : q["hero"] < r["hero"]}) = k
    <2>2. o = [k \in 1..Cardinality(bans) |-> at(k)]
      BY DEF o, OrderBy, Sorted
    <2> HIDE DEF at
    <2>3. o \in [1..Cardinality(bans) -> bans]
      BY <1>5, <2>2
    <2> QED
      BY <2>1, <2>3
  <1> QED
    BY <1>6, <1>7, <1>8 DEF bans

\* The games, each under its number with its seats.
LEMMA GamesReadBack ==
  ASSUME NEW s, Accepted(s)
  PROVE  LET Game(g) == [number |-> s.games[g].number, map |-> s.games[g].map,
                         seats |-> AssembleSeats(Written(s), g)]
         IN  /\ ToSet(AssembleGames(Written(s))) = {Game(g) : g \in DOMAIN s.games}
             /\ \E n \in Nat : DOMAIN AssembleGames(Written(s)) = 1..n
  <1> DEFINE t == Written(s)
             new == InsertGames(s)
             Row(g) == [id |-> g, number |-> s.games[g].number, map |-> s.games[g].map]
             Read(r) == [number |-> r.number, map |-> r.map, seats |-> AssembleSeats(t, r.id)]
             o == OrderBy(t.games, "number")
  <1>1. new = [g \in DOMAIN s.games |-> Row(g)]
    BY DEF InsertGames
  <1>2. t.games = ToSet(new)
    BY WrittenTables
  <1>3. t.games = {Row(g) : g \in DOMAIN s.games}
    BY <1>1, <1>2 DEF ToSet
  <1>4. IsFiniteSet(t.games)
    <2>1. DOMAIN s.games = 1..Len(s.games) /\ Len(s.games) \in Nat
      BY ListPositions DEF Accepted, WellShaped
    <2>2. DOMAIN new = DOMAIN s.games
      BY <1>1
    <2>3. IsFiniteSet(DOMAIN new)
      BY <2>1, <2>2, FS_Interval
    <2> QED
      BY <1>2, <2>3, FiniteRows
  <1>5. ASSUME NEW g \in DOMAIN s.games
        PROVE  /\ Row(g)["number"] = s.games[g].number /\ s.games[g].number \in Int
               /\ Read(Row(g)) = [number |-> s.games[g].number, map |-> s.games[g].map,
                                 seats |-> AssembleSeats(t, g)]
    <2>1. s.games[g].number \in Int
      BY GameShape
    <2> HIDE DEF t
    <2> QED
      BY <2>1
  <1> HIDE DEF t, new, Read, Row
  <1>6. \A r \in t.games : r["number"] \in Int
    BY <1>3, <1>5
  <1>7. \A q, r \in t.games : q["number"] = r["number"] => q = r
    <2> SUFFICES ASSUME NEW q \in t.games, NEW r \in t.games, q["number"] = r["number"]
                 PROVE  q = r
      OBVIOUS
    <2>1. PICK g \in DOMAIN s.games : q = Row(g)
      BY <1>3
    <2>2. PICK h \in DOMAIN s.games : r = Row(h)
      BY <1>3
    <2>3. s.games[g].number = s.games[h].number
      BY <1>5, <2>1, <2>2
    <2>4. g = h
      BY <2>3, GameNumbers
    <2> QED
      BY <2>1, <2>2, <2>4
  <1>8. /\ \A k \in DOMAIN o : o[k] \in t.games
        /\ \A r \in t.games : \E k \in DOMAIN o : o[k] = r
        /\ DOMAIN o = 1..Cardinality(t.games)
    BY <1>4, <1>6, <1>7, Ordered
  <1>9. AssembleGames(t) = [k \in DOMAIN o |-> Read(o[k])]
    BY DEF AssembleGames, SeqMap, Read
  <1> HIDE DEF o
  <1>10. ToSet(AssembleGames(t)) = {Read(r) : r \in t.games}
    BY <1>8, <1>9 DEF ToSet
  <1>11. {Read(r) : r \in t.games} = {Read(Row(g)) : g \in DOMAIN s.games}
    BY <1>3
  <1>12. \E n \in Nat : DOMAIN AssembleGames(t) = 1..n
    <2>1. Cardinality(t.games) \in Nat
      BY <1>4, FS_CardinalityType
    <2> QED
      BY <1>8, <1>9, <2>1
  <1> QED
    BY <1>5, <1>10, <1>11, <1>12 DEF t

\* One field of a record replaced.
LEMMA ReplacedStats ==
  ASSUME NEW h, NEW l, NEW w, NEW a, NEW p, NEW b,
         p = [hero |-> h, health |-> l, winner |-> w, stats |-> a]
  PROVE  [p EXCEPT !.stats = b] = [hero |-> h, health |-> l, winner |-> w, stats |-> b]
  OBVIOUS

LEMMA ReplacedSeats ==
  ASSUME NEW n, NEW m, NEW a, NEW g, NEW b, g = [number |-> n, map |-> m, seats |-> a]
  PROVE  [g EXCEPT !.seats = b] = [number |-> n, map |-> m, seats |-> b]
  OBVIOUS

\* Writing a submission and reading the match back gives the submission, up to the
\* order of its lists and the spelling of its stats (match/writer.rs, match/query.rs).
THEOREM WrittenReadsBack ==
  ASSUME NEW s, Accepted(s)
  PROVE  Canonical(AsSubmission(Assemble(Written(s)))) = Canonical(s)
  <1> DEFINE t == Written(s)
             m == Assemble(t)
             sent == AsSubmission(m)
             seats(g) == s.games[g].seats
             PlainSeat(p) == [p EXCEPT !.stats = ToStats(@)]
             PlainGame(g) == [g EXCEPT !.seats = SeqMap(PlainSeat, @)]
             SentSeat(p) == [hero |-> p.hero, health |-> p.health, winner |-> p.winner,
                             stats |-> FormStats(p.stats)]
             SentGame(g) == [g EXCEPT !.seats = SeqMap(SentSeat, @)]
             Game(g) == [number |-> s.games[g].number, map |-> s.games[g].map,
                         seats |-> AssembleSeats(t, g)]
             Plain(g) == [number |-> s.games[g].number, map |-> s.games[g].map,
                          seats |-> [i \in 1..2 |->
                            [hero |-> seats(g)[i].hero, health |-> seats(g)[i].health,
                             winner |-> seats(g)[i].winner, stats |-> ToStats(seats(g)[i].stats)]]]
  <1>1. /\ m.participants = AssembleParticipants(t) /\ m.games = AssembleGames(t)
        /\ m.bans = AssembleBans(t)
    BY DEF Assemble
  <1>2. /\ sent.participants = m.participants /\ sent.bans = m.bans
        /\ sent.games = SeqMap(SentGame, m.games)
    BY DEF AsSubmission
  <1>3. ASSUME NEW g \in DOMAIN s.games
        PROVE  PlainGame(s.games[g]) = Plain(g)
    <2>1. DOMAIN seats(g) = 1..2
      BY Pairs
    <2>2. ASSUME NEW i \in 1..2
          PROVE  PlainSeat(seats(g)[i]) =
                   [hero |-> seats(g)[i].hero, health |-> seats(g)[i].health,
                    winner |-> seats(g)[i].winner, stats |-> ToStats(seats(g)[i].stats)]
      <3> DEFINE p == seats(g)[i]
      <3>1. p = [hero |-> p.hero, health |-> p.health, winner |-> p.winner, stats |-> p.stats]
        BY SeatShape
      <3> HIDE DEF p
      <3>2. PlainSeat(p) = [hero |-> p.hero, health |-> p.health, winner |-> p.winner,
                            stats |-> ToStats(p.stats)]
        BY <3>1, ReplacedStats
      <3> QED
        BY <3>2 DEF p
    <2>3. SeqMap(PlainSeat, seats(g)) = [i \in 1..2 |-> PlainSeat(seats(g)[i])]
      BY <2>1 DEF SeqMap
    <2>4. s.games[g] = [number |-> s.games[g].number, map |-> s.games[g].map, seats |-> seats(g)]
      BY GameShape
    <2> HIDE DEF PlainSeat, seats
    <2>5. SeqMap(PlainSeat, seats(g)) = Plain(g).seats
      BY <2>2, <2>3
    <2>6. PlainGame(s.games[g]) = [number |-> s.games[g].number, map |-> s.games[g].map,
                                   seats |-> SeqMap(PlainSeat, seats(g))]
      BY <2>4
    <2> QED
      BY <2>5, <2>6
  <1>4. ASSUME NEW g \in DOMAIN s.games
        PROVE  PlainGame(SentGame(Game(g))) = Plain(g)
    <2> DEFINE read == AssembleSeats(t, g)
    <2>1. read = [i \in 1..2 |-> [side |-> i - 1, hero |-> seats(g)[i].hero,
                                 health |-> seats(g)[i].health, winner |-> seats(g)[i].winner,
                                 stats |-> ToStats(seats(g)[i].stats)]]
      BY SeatsReadBack
    <2>2. ASSUME NEW i \in 1..2
          PROVE  PlainSeat(SentSeat(read[i])) =
                   [hero |-> seats(g)[i].hero, health |-> seats(g)[i].health,
                    winner |-> seats(g)[i].winner, stats |-> ToStats(seats(g)[i].stats)]
      <3>1. /\ read[i].hero = seats(g)[i].hero /\ read[i].health = seats(g)[i].health
            /\ read[i].winner = seats(g)[i].winner
            /\ read[i].stats = ToStats(seats(g)[i].stats)
        <4>1. read[i] = [side |-> i - 1, hero |-> seats(g)[i].hero,
                         health |-> seats(g)[i].health, winner |-> seats(g)[i].winner,
                         stats |-> ToStats(seats(g)[i].stats)]
          BY <2>1
        <4> HIDE DEF read, seats
        <4> QED
          BY <4>1
      <3>2. ToStats(FormStats(ToStats(seats(g)[i].stats))) = ToStats(seats(g)[i].stats)
        BY SheetRoundTrip
      <3> HIDE DEF read, seats
      <3>3. PlainSeat(SentSeat(read[i])) =
              [hero |-> read[i].hero, health |-> read[i].health, winner |-> read[i].winner,
               stats |-> ToStats(FormStats(read[i].stats))]
        OBVIOUS
      <3> QED
        BY <3>1, <3>2, <3>3
    <2>3. DOMAIN read = 1..2
      BY <2>1
    <2> HIDE DEF read
    <2>4. Game(g) = [number |-> s.games[g].number, map |-> s.games[g].map, seats |-> read]
      BY DEF read
    <2>5. SeqMap(PlainSeat, SeqMap(SentSeat, read)) = [i \in 1..2 |-> PlainSeat(SentSeat(read[i]))]
      BY <2>3 DEF SeqMap
    <2> HIDE DEF PlainSeat, SentSeat, seats, Game
    <2>6. SeqMap(PlainSeat, SeqMap(SentSeat, read)) = Plain(g).seats
      BY <2>2, <2>5
    <2>7. PlainGame(SentGame(Game(g))) =
            [number |-> s.games[g].number, map |-> s.games[g].map,
             seats |-> SeqMap(PlainSeat, SeqMap(SentSeat, read))]
      <3>1. SentGame(Game(g)) = [number |-> s.games[g].number, map |-> s.games[g].map,
                                 seats |-> SeqMap(SentSeat, read)]
        <4>1. Game(g).seats = read
          BY <2>4
        <4>2. SentGame(Game(g)) = [Game(g) EXCEPT !.seats = SeqMap(SentSeat, read)]
          BY <4>1
        <4> HIDE DEF SentGame
        <4> QED
          BY <2>4, <4>2, ReplacedSeats
      <3> DEFINE x == SentGame(Game(g))
      <3>2. x.seats = SeqMap(SentSeat, read)
        BY <3>1
      <3>3. PlainGame(x) = [x EXCEPT !.seats = SeqMap(PlainSeat, SeqMap(SentSeat, read))]
        BY <3>2
      <3> HIDE DEF x, SentGame, PlainGame
      <3>4. PlainGame(x) = [number |-> s.games[g].number, map |-> s.games[g].map,
                            seats |-> SeqMap(PlainSeat, SeqMap(SentSeat, read))]
        BY <3>1, <3>3, ReplacedSeats DEF x
      <3> QED
        BY <3>4 DEF x
    <2> QED
      BY <2>6, <2>7
  <1>5. ToSet(m.games) = {Game(g) : g \in DOMAIN s.games}
    BY <1>1, GamesReadBack
  <1>6. ToSet(sent.games) = {SentGame(Game(g)) : g \in DOMAIN s.games}
    <2>1. sent.games = [k \in DOMAIN m.games |-> SentGame(m.games[k])]
      BY <1>2 DEF SeqMap
    <2> HIDE DEF sent, m, SentGame, Game
    <2>2. \A x : x \in ToSet(sent.games) <=> \E y \in ToSet(m.games) : x = SentGame(y)
      BY <2>1 DEF ToSet
    <2> QED
      BY <1>5, <2>2
  <1>7. {PlainGame(x) : x \in ToSet(sent.games)} = {Plain(g) : g \in DOMAIN s.games}
    <2> HIDE DEF sent, m, SentGame, Game, PlainGame, Plain
    <2> QED
      BY <1>4, <1>6
  <1>8. {PlainGame(x) : x \in ToSet(s.games)} = {Plain(g) : g \in DOMAIN s.games}
    <2> HIDE DEF PlainGame, Plain
    <2> QED
      BY <1>3 DEF ToSet
  <1>9. [i \in DOMAIN sent.participants |-> ToSet(sent.participants[i].drafted)]
          = [i \in DOMAIN s.participants |-> ToSet(s.participants[i].drafted)]
    <2>1. DOMAIN s.participants = 1..2
      BY Pairs
    <2>2. DOMAIN sent.participants = 1..2
      BY <1>1, <1>2, ParticipantsReadBack
    <2>3. \A i \in 1..2 : ToSet(sent.participants[i].drafted) = ToSet(s.participants[i].drafted)
      BY <1>1, <1>2, ParticipantsReadBack
    <2> HIDE DEF sent
    <2> QED
      BY <2>1, <2>2, <2>3
  <1>10. ToSet(sent.bans) = ToSet(s.bans)
    BY <1>1, <1>2, BansReadBack
  <1> HIDE DEF sent
  <1>11. Canonical(sent) = [drafted |-> [i \in DOMAIN sent.participants |->
                                           ToSet(sent.participants[i].drafted)],
                            games |-> {PlainGame(x) : x \in ToSet(sent.games)},
                            bans |-> ToSet(sent.bans)]
    BY DEF Canonical
  <1>12. Canonical(s) = [drafted |-> [i \in DOMAIN s.participants |->
                                        ToSet(s.participants[i].drafted)],
                         games |-> {PlainGame(x) : x \in ToSet(s.games)},
                         bans |-> ToSet(s.bans)]
    BY DEF Canonical
  <1> HIDE DEF PlainGame, Plain
  <1> QED
    BY <1>7, <1>8, <1>9, <1>10, <1>11, <1>12 DEF sent

-----------------------------------------------------------------------------
(* The invariant.                                                          *)

\* The server's part of the state.
server == <<rows, saved, refused>>

\* Whatever happens, a submission is written or the server does nothing.
LEMMA StepsOfTheServer ==
  ASSUME Next
  PROVE  UNCHANGED server \/ \E s : Submit(s)
  <1>1. ASSUME NEW i \in 1..2, EditSide(i)
        PROVE  UNCHANGED server
    <2>1. CASE AddDraftPick(i)
      BY <2>1 DEF AddDraftPick, Edit, server
    <2>2. CASE ChangeDraftPick(i)
      BY <2>2 DEF ChangeDraftPick, Edit, server
    <2>3. CASE RemoveDraftPick(i)
      BY <2>3 DEF RemoveDraftPick, Edit, server
    <2>4. CASE AddSideBan(i)
      BY <2>4 DEF AddSideBan, Edit, server
    <2>5. CASE RemoveSideBan(i)
      BY <2>5 DEF RemoveSideBan, Edit, server
    <2>6. CASE AssignBanToSide(i)
      BY <2>6 DEF AssignBanToSide, Edit, server
    <2>7. CASE Field(i)
      BY <2>7 DEF Field, Edit, server
    <2>8. CASE SetHealth(i)
      BY <2>8 DEF SetHealth, Edit, server
    <2>9. CASE SetWinner(i)
      BY <2>9 DEF SetWinner, Edit, server
    <2> QED
      BY <1>1, <2>1, <2>2, <2>3, <2>4, <2>5, <2>6, <2>7, <2>8, <2>9 DEF EditSide
  <1>2. CASE AddPreBan
    BY <1>2 DEF AddPreBan, Edit, server
  <1>3. CASE RemovePreBan
    BY <1>3 DEF RemovePreBan, Edit, server
  <1>4. CASE SetMap
    BY <1>4 DEF SetMap, Edit, server
  <1>5. CASE AddGame
    BY <1>5 DEF AddGame, Edit, server
  <1>6. CASE RemoveGame
    BY <1>6 DEF RemoveGame, Edit, server
  <1>7. CASE ApplyStats
    BY <1>7 DEF ApplyStats, Edit, server
  <1>8. CASE SaveMatch
    BY <1>8 DEF SaveMatch
  <1>9. CASE SubmitOther
    BY <1>9 DEF SubmitOther
  <1>10. CASE Reopen
    BY <1>10 DEF Reopen, server
  <1> QED
    BY <1>1, <1>2, <1>3, <1>4, <1>5, <1>6, <1>7, <1>8, <1>9, <1>10 DEF Next

LEMMA IInvInit == Init => IInv
  BY DEF Init, IInv

\* The tables before a submission have the right names, whatever was recorded.
LEMMA StoredTables ==
  ASSUME IInv
  PROVE  DOMAIN Stored = DOMAIN NoRows
  BY DEF IInv, Stored, Insert, NoRows

LEMMA IInvNext == IInv /\ [Next]_vars => IInv'
  <1> SUFFICES ASSUME IInv, [Next]_vars PROVE IInv'
    OBVIOUS
  <1>1. CASE UNCHANGED server
    BY <1>1 DEF IInv, server
  <1>2. ASSUME NEW s, Submit(s)
        PROVE  IInv'
    <2>1. WellShaped(s) /\ Violations(s) = {}
      BY <1>2 DEF Submit
    <2>2. Storable(DeleteChildren(Stored), Inserts(s), MapPool, HeroIds)
      BY <2>1, StoredTables, PolicyImpliesConstraints
    <2>3. DeleteChildren(Stored) = DeleteChildren(NoRows)
      BY StoredTables DEF DeleteChildren
    <2>4. /\ rows' = Insert(DeleteChildren(NoRows), Inserts(s))
          /\ saved' = s /\ refused' = refused
      BY <1>2, <2>2, <2>3 DEF Submit
    <2>5. Accepted(s)
      BY <2>1 DEF Accepted
    <2> QED
      BY <2>4, <2>5 DEF IInv
  <1>3. CASE UNCHANGED vars
    BY <1>1, <1>3 DEF vars, server
  <1> QED
    BY <1>1, <1>2, <1>3, StepsOfTheServer

\* IInv is inductive: an edit of the form leaves the server's part alone, a submission
\* that is written replaces all of it, and one that is not changes nothing.
THEOREM Inductive == Spec => []IInv
  <1>1. Init => IInv
    BY IInvInit
  <1>2. IInv /\ [Next]_vars => IInv'
    BY IInvNext
  <1> QED
    BY <1>1, <1>2, PTL DEF Spec

\* No submission the policy accepts meets a constraint, whatever the heroes, maps and
\* pools, whoever submits it and whatever was recorded before (admin_service.rs record
\* and correct).
THEOREM NoRawConstraint == Spec => []AcceptedIsStorable
  <1>1. IInv => AcceptedIsStorable
    BY DEF IInv, AcceptedIsStorable
  <1> QED
    BY <1>1, Inductive, PTL

\* The match read back is the last submission accepted, nothing of an earlier one
\* being left (match/writer.rs update, match/query.rs assemble).
THEOREM MatchReadsBack == Spec => []ReadsBackAsSaved
  <1>1. IInv => ReadsBackAsSaved
    BY WrittenReadsBack DEF IInv, ReadsBackAsSaved, Recorded, Written
  <1> QED
    BY <1>1, Inductive, PTL

-----------------------------------------------------------------------------
(* What a recorded match is worth.                                         *)

\* In a recorded game two different heroes sit, and one of them won.
LEMMA RecordedGames ==
  ASSUME NEW s, Accepted(s), NEW m, m = Assemble(Written(s)), NEW g \in DOMAIN m.games
  PROVE  LET seats == m.games[g].seats
         IN  /\ g # 0 /\ IsFiniteSet(DOMAIN m.games)
             /\ DOMAIN seats = {1, 2}
             /\ seats[1].hero # seats[2].hero
             /\ \A i \in {1, 2} : /\ seats[i].hero \in PlayedHeroIds(s)
                                  /\ seats[i].health \in Int /\ seats[i].winner \in BOOLEAN
             /\ seats[1].winner = ~seats[2].winner
  <1> DEFINE seats == m.games[g].seats
  <1>1. m.games = AssembleGames(Written(s))
    BY DEF Assemble
  <1>2. g # 0 /\ IsFiniteSet(DOMAIN m.games)
    <2>1. PICK n \in Nat : DOMAIN m.games = 1..n
      BY <1>1, GamesReadBack
    <2> QED
      BY <2>1, FS_Interval
  <1>3. PICK h \in DOMAIN s.games : seats = AssembleSeats(Written(s), h)
    <2> DEFINE Game(k) == [number |-> s.games[k].number, map |-> s.games[k].map,
                           seats |-> AssembleSeats(Written(s), k)]
    <2>1. m.games[g] \in ToSet(m.games)
      BY DEF ToSet
    <2>2. m.games[g] \in {Game(k) : k \in DOMAIN s.games}
      BY <1>1, <2>1, GamesReadBack
    <2>3. PICK k \in DOMAIN s.games : m.games[g] = Game(k)
      BY <2>2
    <2> QED
      BY <2>3
  <1> DEFINE sent == s.games[h].seats
  <1>4. /\ DOMAIN seats = {1, 2}
        /\ \A i \in {1, 2} : /\ seats[i].hero = sent[i].hero
                             /\ seats[i].health = sent[i].health
                             /\ seats[i].winner = sent[i].winner
    <2>1. seats = [i \in 1..2 |-> [side |-> i - 1, hero |-> sent[i].hero,
                                  health |-> sent[i].health, winner |-> sent[i].winner,
                                  stats |-> ToStats(sent[i].stats)]]
      BY <1>3, SeatsReadBack
    <2>2. 1..2 = {1, 2}
      OBVIOUS
    <2> HIDE DEF seats, sent
    <2> QED
      BY <2>1, <2>2
  <1>5. ASSUME NEW i \in {1, 2}
        PROVE  sent[i].health \in Int /\ sent[i].winner \in BOOLEAN
    <2>1. i \in 1..2
      OBVIOUS
    <2> QED
      BY <2>1, SeatShape
  <1>6. sent[1].hero # sent[2].hero
    BY SeatsDiffer
  <1>7. sent[1].winner = ~sent[2].winner
    <2>1. ~(sent[1].winner /\ sent[2].winner)
      BY WinnersDiffer
    <2>2. sent[1].winner \/ sent[2].winner
      <3> DEFINE winners == {k \in DOMAIN sent : sent[k].winner}
      <3>1. s.games[h] \in ToSet(s.games)
        BY DEF ToSet
      <3>2. Cardinality(winners) = 1
        BY <3>1, RulesKept DEF Accepted, NotExactlyOneWinner, SomeGame
      <3>3. winners # {}
        <4> HIDE DEF winners
        <4> QED
          BY <3>2, FS_EmptySet
      <3>4. DOMAIN sent = 1..2
        BY Pairs
      <3>5. PICK k \in 1..2 : sent[k].winner
        BY <3>3, <3>4
      <3>6. k = 1 \/ k = 2
        OBVIOUS
      <3> QED
        BY <3>5, <3>6
    <2> QED
      BY <1>5, <2>1, <2>2
  <1>8. ASSUME NEW i \in {1, 2}
        PROVE  sent[i].hero \in PlayedHeroIds(s)
    <2>1. sent[i] \in ToSet(sent) /\ s.games[h] \in ToSet(s.games)
      BY Pairs DEF ToSet
    <2> QED
      BY <2>1 DEF PlayedHeroIds
  <1> HIDE DEF seats, sent
  <1>9. /\ DOMAIN seats = {1, 2}
        /\ seats[1].hero # seats[2].hero
        /\ \A i \in {1, 2} : /\ seats[i].hero \in PlayedHeroIds(s)
                             /\ seats[i].health \in Int /\ seats[i].winner \in BOOLEAN
        /\ seats[1].winner = ~seats[2].winner
    BY <1>4, <1>5, <1>6, <1>7, <1>8
  <1> QED
    BY <1>2, <1>9 DEF seats

\* A recorded hero is banned once, and then neither drafted nor played.
LEMMA RecordedHeroes ==
  ASSUME NEW s, Accepted(s), NEW m, m = Assemble(Written(s))
  PROVE  /\ IsFiniteSet(PlayedContexts(m))
         /\ \A b \in ToSet(m.bans) : /\ b.hero \notin DraftedHeroes(m)
                                     /\ \A c \in PlayedContexts(m) : c.hero # b.hero
         /\ \A a, b \in ToSet(m.bans) : a.hero = b.hero => a = b
         /\ m.bans \in Seq(ToSet(m.bans))
  <1>1. /\ m.participants = AssembleParticipants(Written(s))
        /\ m.games = AssembleGames(Written(s)) /\ m.bans = AssembleBans(Written(s))
    BY DEF Assemble
  <1>2. ToSet(m.bans) = ToSet(s.bans) /\ m.bans \in Seq(ToSet(m.bans))
    BY <1>1, BansReadBack
  <1>3. DraftedHeroes(m) = DraftedHeroIds(s)
    <2>1. DOMAIN m.participants = 1..2 /\ DOMAIN s.participants = 1..2
      BY <1>1, ParticipantsReadBack, Pairs
    <2>2. DraftedHeroes(m) = UNION {ToSet(m.participants[i].drafted) : i \in 1..2}
      BY <2>1 DEF DraftedHeroes, ToSet
    <2>3. DraftedHeroIds(s) = UNION {ToSet(s.participants[i].drafted) : i \in 1..2}
      BY <2>1 DEF DraftedHeroIds, ToSet
    <2>4. \A i \in 1..2 : ToSet(m.participants[i].drafted) = ToSet(s.participants[i].drafted)
      BY <1>1, ParticipantsReadBack
    <2> QED
      BY <2>2, <2>3, <2>4
  <1>4. ASSUME NEW g \in DOMAIN m.games
        PROVE  /\ IsFiniteSet(DOMAIN m.games) /\ DOMAIN m.games[g].seats = {1, 2}
               /\ \A i \in {1, 2} : m.games[g].seats[i].hero \in PlayedHeroIds(s)
    BY RecordedGames
  <1>5. IsFiniteSet(PlayedContexts(m))
    <2>1. IsFiniteSet(DOMAIN m.games)
      BY <1>4, FS_EmptySet
    <2> QED
      BY <1>4, <2>1, FiniteSeats
  <1>6. \A c \in PlayedContexts(m) : c.hero \in PlayedHeroIds(s)
    <2> SUFFICES ASSUME NEW c \in PlayedContexts(m) PROVE c.hero \in PlayedHeroIds(s)
      OBVIOUS
    <2>1. PICK g \in DOMAIN m.games : \E i \in DOMAIN m.games[g].seats : c = SeatOf(m, g, i)
      BY DEF PlayedContexts, SeatOf
    <2>2. PICK i \in {1, 2} : c = SeatOf(m, g, i)
      BY <1>4, <2>1
    <2> QED
      BY <1>4, <2>2 DEF SeatOf
  <1>7. /\ BannedHeroIds(s) \cap DraftedHeroIds(s) = {}
        /\ BannedHeroIds(s) \cap PlayedHeroIds(s) = {}
    <2>1. ~BannedHeroDrafted(s) /\ ~BannedHeroPlayed(s)
      BY RulesKept DEF Accepted
    <2> QED
      BY <2>1 DEF BannedHeroDrafted, BannedHeroPlayed
  <1>8. \A b \in ToSet(m.bans) : b.hero \in BannedHeroIds(s)
    BY <1>2 DEF BannedHeroIds
  <1>9. \A a, b \in ToSet(s.bans) : a.hero = b.hero => a = b
    BY BansDiffer
  <1> QED
    BY <1>2, <1>3, <1>5, <1>6, <1>7, <1>8, <1>9

\* Every recorded game has one winner and one loser, and at every coefficient the
\* two-way differential pays one side what it takes from the other.  (match_metrics.rs,
\* scoring_engine.rs score_hero, match_policy.rs)
THEOREM RecordedGamesBalance == Spec => []GamesBalance
  <1> SUFFICES ASSUME IInv PROVE GamesBalance
    BY Inductive, PTL
  <1> SUFFICES ASSUME rows # None, NEW g \in DOMAIN Recorded.games
               PROVE  LET contexts == {c \in HeroContexts(Recorded) : c.game = g}
                          Paid(w)  == [c \in contexts |->
                            Score(Recorded, c, <<<<"HEALTH_DIFFERENTIAL_TWO_WAY", w>>>>)]
                      IN  /\ SumFunction([c \in contexts |-> Win(Recorded, c)]) = 1
                          /\ SumFunction([c \in contexts |-> Loss(Recorded, c)]) = 1
                          /\ \A w \in Weights : SumFunction(Paid(w)) = 0
    BY DEF GamesBalance
  <1> DEFINE m == Recorded
             seats == m.games[g].seats
             contexts == {c \in HeroContexts(m) : c.game = g}
             c1 == SeatOf(m, g, 1)
             c2 == SeatOf(m, g, 2)
  <1>1. /\ g # 0
        /\ DOMAIN seats = {1, 2}
        /\ seats[1].hero # seats[2].hero
        /\ \A i \in {1, 2} : seats[i].health \in Int /\ seats[i].winner \in BOOLEAN
        /\ seats[1].winner = ~seats[2].winner
    <2>1. Accepted(saved) /\ Recorded = Assemble(Written(saved))
      BY DEF IInv, Recorded, Written
    <2> QED
      BY <2>1, RecordedGames
  <1> HIDE DEF m
  <1>2. contexts = {c1, c2}
    BY <1>1, ContextsOfGame DEF m
  <1>3. /\ c1 # c2 /\ Played(c1) /\ Played(c2)
        /\ Participant(m, c1) = seats[1] /\ Participant(m, c2) = seats[2]
    BY DEF SeatOf, Played, Participant
  <1> HIDE DEF contexts, c1, c2
  <1>4. /\ Flag(seats[1].winner) + Flag(seats[2].winner) = 1
        /\ Flag(~seats[1].winner) + Flag(~seats[2].winner) = 1
        /\ \A i \in {1, 2} : Flag(seats[i].winner) \in Int /\ Flag(~seats[i].winner) \in Int
    <2>1. CASE seats[1].winner
      BY <1>1, <2>1 DEF Flag
    <2>2. CASE ~seats[1].winner
      BY <1>1, <2>2 DEF Flag
    <2> QED
      BY <2>1, <2>2
  <1>5. SumFunction([c \in contexts |-> Win(m, c)]) = 1
    <2> DEFINE won == [c \in {c1, c2} |-> Win(m, c)]
    <2>1. Win(m, c1) = Flag(seats[1].winner) /\ Win(m, c2) = Flag(seats[2].winner)
      BY <1>3 DEF Win, Flag
    <2>2. won[c1] + won[c2] = 1 /\ won \in [{c1, c2} -> Int]
      BY <1>4, <2>1
    <2> HIDE DEF won
    <2>3. SumFunction(won) = won[c1] + won[c2]
      BY <1>3, <2>2, TotalOfTwo
    <2> QED
      BY <1>2, <2>2, <2>3 DEF won
  <1>6. SumFunction([c \in contexts |-> Loss(m, c)]) = 1
    <2> DEFINE lost == [c \in {c1, c2} |-> Loss(m, c)]
    <2>1. Loss(m, c1) = Flag(~seats[1].winner) /\ Loss(m, c2) = Flag(~seats[2].winner)
      BY <1>3 DEF Loss, Flag
    <2>2. lost[c1] + lost[c2] = 1 /\ lost \in [{c1, c2} -> Int]
      BY <1>4, <2>1
    <2> HIDE DEF lost
    <2>3. SumFunction(lost) = lost[c1] + lost[c2]
      BY <1>3, <2>2, TotalOfTwo
    <2> QED
      BY <1>2, <2>2, <2>3 DEF lost
  <1>7. ASSUME NEW w \in Weights
        PROVE  SumFunction([c \in contexts |->
                        Score(m, c, <<<<"HEALTH_DIFFERENTIAL_TWO_WAY", w>>>>)]) = 0
    <2> DEFINE rules == <<<<"HEALTH_DIFFERENTIAL_TWO_WAY", w>>>>
               Paid(c) == Priced(m, c, "HEALTH_DIFFERENTIAL_TWO_WAY", rules)
               paid == [c \in {c1, c2} |-> Score(m, c, rules)]
    <2>1. w \in Int
      BY MatchFormsAssumption
    <2>2. CoefficientOf(rules, "HEALTH_DIFFERENTIAL_TWO_WAY") = w
      BY OneCoefficient
    <2>3. Paid(c1) + Paid(c2) = 0
      BY <1>1, <2>1, <2>2, TwoWayIsZeroSum DEF c1, c2, SeatOf
    <2>4. ASSUME NEW c \in {c1, c2}
          PROVE  Score(m, c, rules) = Paid(c) /\ Paid(c) \in Int
      <3>1. Measure(m, c, "HEALTH_DIFFERENTIAL_TWO_WAY") \in Int
        <4>1. HealthGap(m, c) \in Int
          BY <1>1, GapType DEF c1, c2
        <4> QED
          BY <4>1 DEF Measure, HealthDifferentialTwoWay
      <3>2. Score(m, c, rules) = Paid(c)
        BY <2>1, <3>1, OneMetricScores DEF Known
      <3>3. Paid(c) \in Int
        BY <2>1, <2>2, <3>1, Round2Type DEF Priced
      <3> QED
        BY <3>2, <3>3
    <2> HIDE DEF rules, Paid
    <2>5. paid[c1] + paid[c2] = 0 /\ paid \in [{c1, c2} -> Int]
      BY <2>3, <2>4
    <2> HIDE DEF paid
    <2>6. SumFunction(paid) = paid[c1] + paid[c2]
      BY <1>3, <2>5, TotalOfTwo
    <2> QED
      BY <1>2, <2>5, <2>6 DEF paid, rules
  <1> QED
    BY <1>5, <1>6, <1>7 DEF m, contexts

\* In a recorded match the draft pays a drafted hero once, however many sides took it
\* and games it played, and a ban pays the banned hero once, for its type, and nothing
\* for the draft: no two shapes of a hero compete.  (match_result.rs hero_contexts,
\* match_metrics.rs, match_policy.rs)
THEOREM DraftPaysOnce == Spec => []DraftIsPricedOnce
  <1> SUFFICES ASSUME IInv PROVE DraftIsPricedOnce
    BY Inductive, PTL
  <1> SUFFICES ASSUME rows # None PROVE DraftIsPricedOnce
    BY DEF DraftIsPricedOnce
  <1> DEFINE m == Recorded
             Of(h) == {x \in HeroContexts(m) : x.hero = h}
  <1>1. /\ IsFiniteSet(PlayedContexts(m))
        /\ \A b \in ToSet(m.bans) : /\ b.hero \notin DraftedHeroes(m)
                                    /\ \A c \in PlayedContexts(m) : c.hero # b.hero
        /\ \A a, b \in ToSet(m.bans) : a.hero = b.hero => a = b
        /\ m.bans \in Seq(ToSet(m.bans))
    <2>1. Accepted(saved) /\ Recorded = Assemble(Written(saved))
      BY DEF IInv, Recorded, Written
    <2> QED
      BY <2>1, RecordedHeroes
  <1> HIDE DEF m
  <1>2. ASSUME NEW h \in DraftedHeroes(m)
        PROVE  /\ SumFunction([c \in Of(h) |-> Appearance(c)]) = 1
               /\ SumFunction([c \in Of(h) |-> Flag(c.role = "BANNED")]) = 0
    <2> DEFINE off == OffTable("DRAFTED", h)
               D == Of(h)
               seen == [c \in D |-> Appearance(c)]
               banned == [c \in D |-> Flag(c.role = "BANNED")]
    <2>1. IsFiniteSet(D) /\ off \in D /\ \A c \in D \ {off} : c.role = "PLAYED"
      BY <1>1, ContextsOfDrafted
    <2>2. off.role = "DRAFTED"
      BY DEF OffTable
    <2> HIDE DEF D, off
    <2>3. /\ seen \in [D -> Int] /\ seen[off] = 1 /\ \A c \in D \ {off} : seen[c] = 0
          /\ banned \in [D -> Int] /\ banned[off] = 0 /\ \A c \in D \ {off} : banned[c] = 0
      BY <2>1, <2>2 DEF Appearance, Flag
    <2> HIDE DEF seen, banned
    <2>4. SumFunction(seen) = 1 /\ SumFunction(banned) = 0
      BY <2>1, <2>3, TotalOfOne
    <2> QED
      BY <2>4 DEF seen, banned, D
  <1>3. ASSUME NEW b \in ToSet(m.bans)
        PROVE  /\ SumFunction([c \in Of(b.hero) |-> Appearance(c)]) = 0
               /\ \A type : SumFunction([c \in Of(b.hero) |-> BanOfType(m, c, type)]) = Flag(b.type = type)
    <2> DEFINE off == OffTable("BANNED", b.hero)
               seen == [c \in {off} |-> Appearance(c)]
               priced(type) == [c \in {off} |-> BanOfType(m, c, type)]
    <2>1. Of(b.hero) = {off}
      BY <1>1, ContextsOfBanned
    <2>2. off.role = "BANNED"
      BY DEF OffTable
    <2>3. \A type : BanOfType(m, off, type) = Flag(b.type = type)
      <3>1. Len(m.bans) \in Nat /\ DOMAIN m.bans = 1..Len(m.bans)
        BY <1>1
      <3> QED
        BY <1>1, <3>1, BanOfHero
    <2>4. IsFiniteSet({off})
      BY FS_Singleton
    <2> HIDE DEF off, Of
    <2>5. seen \in [{off} -> Int] /\ seen[off] = 0
      BY <2>2 DEF Appearance, Flag
    <2>6. ASSUME NEW type
          PROVE  priced(type) \in [{off} -> Int] /\ priced(type)[off] = Flag(b.type = type)
      BY <2>3 DEF Flag
    <2> HIDE DEF seen, priced
    <2>7. SumFunction(seen) = 0
      BY <2>4, <2>5, TotalOfOne
    <2>8. \A type : SumFunction(priced(type)) = Flag(b.type = type)
      BY <2>4, <2>6, TotalOfOne
    <2> QED
      BY <2>1, <2>7, <2>8 DEF seen, priced
  <1>4. \A h \in DraftedHeroes(Recorded) :
          /\ SumFunction([c \in {x \in HeroContexts(Recorded) : x.hero = h} |-> Appearance(c)]) = 1
          /\ SumFunction([c \in {x \in HeroContexts(Recorded) : x.hero = h} |-> Flag(c.role = "BANNED")]) = 0
    BY <1>2 DEF m
  <1>5. \A b \in ToSet(Recorded.bans) :
          /\ SumFunction([c \in {x \in HeroContexts(Recorded) : x.hero = b.hero} |-> Appearance(c)]) = 0
          /\ \A type \in {"SELF_BAN", "OPPONENT_BAN"} :
               SumFunction([c \in {x \in HeroContexts(Recorded) : x.hero = b.hero} |->
                        BanOfType(Recorded, c, type)]) = Flag(b.type = type)
    BY <1>3 DEF m
  <1> QED
    BY <1>4, <1>5 DEF DraftIsPricedOnce
=============================================================================
