----------------------------- MODULE MatchImport -----------------------------
(***************************************************************************)
(* The preview of a scraped match                                          *)
(* (backend-rs/crates/umfl-server/src/matchimport/,                        *)
(* backend-rs/crates/umfl-domain/src/name_resolver.rs).  It writes nothing.*)
(*                                                                         *)
(* A name as a page spells it is a pair <<name, spelling>>: pairs of one   *)
(* name are the same once normalised, and the name Blank is all white      *)
(* space.  A page is a record                                              *)
(*   sides (a pair of None or [picks, bans]),                              *)
(*   preBans (names), games (of [index, map, seats], a seat being None or  *)
(*   [hero, health, winner]);                                              *)
(* whatever a selector missed is None.                                     *)
(***************************************************************************)
EXTENDS Integers, SequencesExt

CONSTANTS
  None, Blank,
  HeroCatalogue, MapCatalogue,   \* sequences of <<normalised name, id>>
  Aliases                        \* a function from alias to catalogue name

NormaliseName(name) == name[1]

\* The first of two rows that normalise together is kept.
Lookup(catalogue, n) ==
  LET i == SelectInSeq(catalogue, LAMBDA e : e[1] = n)
  IN  IF i = 0 THEN None ELSE catalogue[i][2]

\* Exactly the normalised name, or the name it is a known alias of.
Resolve(catalogue, name) ==
  LET n     == NormaliseName(name)
      exact == Lookup(catalogue, n)
  IN  IF exact = None /\ n \in DOMAIN Aliases THEN Lookup(catalogue, Aliases[n]) ELSE exact

Named(name) == name # None /\ NormaliseName(name) # Blank

ResolveIn(catalogue, pool, name) ==
  LET id == Resolve(catalogue, name)
  IN  IF Named(name) /\ id \in pool THEN id ELSE None

Hero(pool, name) == ResolveIn(HeroCatalogue, pool, name)
Map(pool, name)  == ResolveIn(MapCatalogue, pool, name)

\* What the admin is told about a name: nothing, or why it could not be used.
Reason(catalogue, pool, name) ==
  LET id == Resolve(catalogue, name)
  IN  CASE ~Named(name)   -> "none"
        [] id = None      -> "UNKNOWN"
        [] id \notin pool -> "NOT_IN_POOL"
        [] OTHER          -> "none"

Default(value, default) == IF value = None THEN default ELSE value

-----------------------------------------------------------------------------

DistinctIds(ids) ==
  LET firsts == SelectSeq([i \in DOMAIN ids |-> <<i, ids[i]>>],
                          LAMBDA e : ~Contains(SubSeq(ids, 1, e[1] - 1), e[2]))
  IN  [i \in DOMAIN firsts |-> firsts[i][2]]

\* Mistake: picks that do not resolve are kept.
PreviewParticipant_Unfiltered(pool, side) ==
  [drafted |-> DistinctIds([i \in DOMAIN side.picks |-> Hero(pool, side.picks[i])])]

\* A side's picks that resolve.
PreviewParticipant(pool, side) ==
  [drafted |-> DistinctIds(SelectSeq([i \in DOMAIN side.picks |-> Hero(pool, side.picks[i])],
                                     LAMBDA id : id # None))]

PreviewSeat(pool, seat) ==
  IF seat = None
    THEN [hero |-> None, health |-> 0, winner |-> FALSE]
    ELSE [hero |-> Hero(pool, seat.hero), health |-> Default(seat.health, 0),
          winner |-> seat.winner]

\* A stable sort by the source's index, where a missing one comes first.
SortedGames(games) ==
  LET Key(i)       == <<Default(games[i].index, 0), i>>
      Before(i, j) == \/ Key(i)[1] < Key(j)[1]
                      \/ Key(i)[1] = Key(j)[1] /\ i < j
      order        == SetToSortSeq(DOMAIN games, Before)
  IN  [i \in DOMAIN order |-> games[order[i]]]

\* The source's index is trusted; the position stands in for a missing one.
PreviewGames(heroPool, mapPool, page) ==
  LET sorted == SortedGames(page.games)
  IN  [i \in DOMAIN sorted |->
        [number |-> Default(sorted[i].index, i), map |-> Map(mapPool, sorted[i].map),
         seats |-> [s \in 1..2 |-> PreviewSeat(heroPool, sorted[i].seats[s])]]]

\* The scraper speaks the league's own vocabulary; anything else is a PRE_BAN.
ParseBanType(raw) == IF raw \in {"SELF_BAN", "OPPONENT_BAN"} THEN raw ELSE "PRE_BAN"

SideBans(pool, side, i) ==
  [b \in DOMAIN side.bans |->
    LET type == ParseBanType(side.bans[b].type)
    IN  [hero |-> Hero(pool, side.bans[b].hero), name |-> side.bans[b].hero, type |-> type,
         side |-> IF type = "PRE_BAN" THEN None ELSE i]]

PreBans(pool, names) ==
  [b \in DOMAIN names |-> [hero |-> Hero(pool, names[b]), name |-> names[b],
                           type |-> "PRE_BAN", side |-> None]]

\* One ban per hero, or per name that did not resolve: the first stays.
CollectBans(pool, page) ==
  LET bans == SideBans(pool, page.sides[1], 0) \o SideBans(pool, page.sides[2], 1)
                \o PreBans(pool, page.preBans)
      Key(b)   == IF b.hero = None THEN b.name ELSE <<b.hero>>
      firsts == SelectSeq([i \in DOMAIN bans |-> <<i, bans[i]>>],
                  LAMBDA e : \A j \in 1..(e[1] - 1) : Key(bans[j]) # Key(e[2]))
  IN  [i \in DOMAIN firsts |-> firsts[i][2]]

\* A page with only one side is refused with a 409.
Readable(page) == \A i \in 1..2 : page.sides[i] # None

Preview(heroPool, mapPool, page) ==
  [participants |-> [i \in 1..2 |-> PreviewParticipant(heroPool, page.sides[i])],
   games |-> PreviewGames(heroPool, mapPool, page),
   bans |-> CollectBans(heroPool, page)]

\* Everything the page names.
NamesOf(page) ==
  [hero |-> UNION {ToSet(page.sides[i].picks) \cup {b.hero : b \in ToSet(page.sides[i].bans)} :
                     i \in 1..2}
              \cup ToSet(page.preBans)
              \cup UNION {{s.hero : s \in ToSet(g.seats) \ {None}} : g \in ToSet(page.games)},
   map |-> {g.map : g \in ToSet(page.games)}]

\* The names handed back to the admin, each with its reason.
Unresolved(heroPool, mapPool, page) ==
  LET Told(catalogue, pool, names) ==
        {<<n, Reason(catalogue, pool, n)>> :
           n \in {k \in names : Reason(catalogue, pool, k) # "none"}}
  IN  Told(HeroCatalogue, heroPool, NamesOf(page).hero)
        \cup Told(MapCatalogue, mapPool, NamesOf(page).map)
=============================================================================
