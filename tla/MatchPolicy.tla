----------------------------- MODULE MatchPolicy -----------------------------
(***************************************************************************)
(* The rules a submitted match has to satisfy before anything is written   *)
(* (backend-rs/crates/umfl-domain/src/match_policy.rs).                    *)
(*                                                                         *)
(* A submission is a record                                                *)
(*   participants (a sequence of [drafted]: the position is the side),     *)
(*   games (of [number, map, seats], a seat being                          *)
(*          [hero, health, winner, stats]),                                *)
(*   bans (of [hero, type, side]).                                         *)
(* A stat is submitted under a key <<name, spelling>>: keys of one name    *)
(* are the same once trimmed and upper-cased.                              *)
(***************************************************************************)
EXTENDS Integers, SequencesExt

CONSTANTS
  None,       \* absent
  Malformed   \* normalised stat names that are not SCREAMING_SNAKE_CASE

ExpectedParticipantCount == 2

NormaliseStat(key) == key[1]

\* The values that appear more than once.
Repeated(values) == {v \in ToSet(values) : Cardinality({i \in DOMAIN values : values[i] = v}) > 1}

SeqMap(Op(_), s) == [i \in DOMAIN s |-> Op(s[i])]

BannedHeroIds(s)  == {b.hero : b \in ToSet(s.bans)}
DraftedHeroIds(s) == UNION {ToSet(p.drafted) : p \in ToSet(s.participants)}
PlayedHeroIds(s)  == UNION {{p.hero : p \in ToSet(g.seats)} : g \in ToSet(s.games)}
NamedHeroes(s)    == PlayedHeroIds(s) \cup DraftedHeroIds(s) \cup BannedHeroIds(s)

SomeGame(s, Broken(_)) == \E g \in ToSet(s.games) : Broken(g)
SomeSeat(s, Broken(_)) == SomeGame(s, LAMBDA g : \E p \in ToSet(g.seats) : Broken(p))

-----------------------------------------------------------------------------

InvalidParticipantCount(s) == Len(s.participants) # ExpectedParticipantCount

InvalidGameCount(s) == s.games = <<>>

\* Sorted, the numbers are 1..N: no gap and no repeat.
GameNumbersNotSequential(s) ==
  /\ s.games # <<>>
  /\ {g.number : g \in ToSet(s.games)} # 1..Len(s.games)

MapNotInPool(maps, s) == SomeGame(s, LAMBDA g : g.map \notin maps)

InvalidGameParticipantCount(s) ==
  SomeGame(s, LAMBDA g : Len(g.seats) # ExpectedParticipantCount)

DuplicateHero(s) ==
  SomeGame(s, LAMBDA g : Repeated(SeqMap(LAMBDA p : p.hero, g.seats)) # {})

DuplicateBan(s) == Repeated(SeqMap(LAMBDA b : b.hero, s.bans)) # {}

\* Mistake: only the range of the side is looked at.
BanSideInvalid_RangeOnly(s) == \E b \in ToSet(s.bans) : b.side # None /\ b.side \notin 0..1

\* A typed ban without a side is legal.
BanSideInvalid(s) ==
  \E b \in ToSet(s.bans) :
    b.side # None /\ (b.side \notin 0..1 \/ b.type = "PRE_BAN")

\* Per side: both sides may draft the same hero.
DuplicatePick(s) == \E p \in ToSet(s.participants) : Repeated(p.drafted) # {}

\* Mistake: a ban is compared with the draft it came out of only.
BannedHeroDrafted_OwnSide(s) ==
  \E b \in ToSet(s.bans) :
    /\ b.side # None
    /\ b.side + 1 \in DOMAIN s.participants
    /\ Contains(s.participants[b.side + 1].drafted, b.hero)

BannedHeroDrafted(s) == BannedHeroIds(s) \cap DraftedHeroIds(s) # {}

\* A seat beyond the participants is another rule's business.
PlayedHeroNotDrafted(s) ==
  SomeGame(s, LAMBDA g :
    \E i \in DOMAIN g.seats \cap DOMAIN s.participants :
      ~Contains(s.participants[i].drafted, g.seats[i].hero))

BannedHeroPlayed(s) == BannedHeroIds(s) \cap PlayedHeroIds(s) # {}

NotExactlyOneWinner(s) ==
  SomeGame(s, LAMBDA g : Cardinality({i \in DOMAIN g.seats : g.seats[i].winner}) # 1)

LoserHasPositiveHealth(s) == SomeSeat(s, LAMBDA p : ~p.winner /\ p.health > 0)

UnknownHero(heroes, s) == NamedHeroes(s) \ heroes # {}

HeroNotInPool(heroes, pool, s) == (NamedHeroes(s) \cap heroes) \ pool # {}

StatNameMalformed(s) ==
  SomeSeat(s, LAMBDA p : \E k \in DOMAIN p.stats : NormaliseStat(k) \in Malformed)

DuplicateStat(s) ==
  SomeSeat(s, LAMBDA p : \E k, l \in DOMAIN p.stats : k # l /\ NormaliseStat(k) = NormaliseStat(l))

StatValueNegative(s) == SomeSeat(s, LAMBDA p : \E k \in DOMAIN p.stats : p.stats[k] < 0)

-----------------------------------------------------------------------------

\* Every broken rule, not the first.
Validate(maps, heroes, pool, s) ==
  LET broken ==
    [INVALID_PARTICIPANT_COUNT      |-> InvalidParticipantCount(s),
     INVALID_GAME_COUNT             |-> InvalidGameCount(s),
     GAME_NUMBERS_NOT_SEQUENTIAL    |-> GameNumbersNotSequential(s),
     MAP_NOT_IN_POOL                |-> MapNotInPool(maps, s),
     INVALID_GAME_PARTICIPANT_COUNT |-> InvalidGameParticipantCount(s),
     DUPLICATE_HERO                 |-> DuplicateHero(s),
     DUPLICATE_BAN                  |-> DuplicateBan(s),
     BAN_SIDE_INVALID               |-> BanSideInvalid(s),
     DUPLICATE_PICK                 |-> DuplicatePick(s),
     BANNED_HERO_DRAFTED            |-> BannedHeroDrafted(s),
     PLAYED_HERO_NOT_DRAFTED        |-> PlayedHeroNotDrafted(s),
     BANNED_HERO_PLAYED             |-> BannedHeroPlayed(s),
     NOT_EXACTLY_ONE_WINNER         |-> NotExactlyOneWinner(s),
     LOSER_HAS_POSITIVE_HEALTH      |-> LoserHasPositiveHealth(s),
     UNKNOWN_HERO                   |-> UnknownHero(heroes, s),
     HERO_NOT_IN_POOL               |-> HeroNotInPool(heroes, pool, s),
     STAT_NAME_MALFORMED            |-> StatNameMalformed(s),
     DUPLICATE_STAT                 |-> DuplicateStat(s),
     STAT_VALUE_NEGATIVE            |-> StatValueNegative(s)]
  IN  {rule \in DOMAIN broken : broken[rule]}
=============================================================================
