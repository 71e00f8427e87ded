------------------------------ MODULE MatchRows ------------------------------
(***************************************************************************)
(* One match in the database: the rows a submission becomes                *)
(* (backend-rs/crates/umfl-server/src/match/admin_service.rs, to_*, and    *)
(* match/writer.rs), the constraints they meet (db/migration/V1, V6), and  *)
(* the match that is read back from them (match/query.rs).                 *)
(***************************************************************************)
EXTENDS MatchPolicy, Ordering

NoRows == [participants |-> {}, picks |-> {}, games |-> {}, seats |-> {},
           stats |-> {}, bans |-> {}]

\* The rows of one insert are a function of the place their values have in the
\* submission.  A side is a list position, a game's id its place.

\* A repeated pick of one side is dropped: the first of each hero stays.
ToPicks(s) ==
  LET Drafted(i) == s.participants[i].drafted
      firsts(i)  == {j \in DOMAIN Drafted(i) :
                       \A k \in DOMAIN Drafted(i) : k < j => Drafted(i)[k] # Drafted(i)[j]}
  IN  [p \in UNION {{i} \X firsts(i) : i \in DOMAIN s.participants} |->
         [side |-> p[1] - 1, hero |-> Drafted(p[1])[p[2]]]]

\* Stats are kept under their normalised names.
ToStats(stats) ==
  LET names == {NormaliseStat(k) : k \in DOMAIN stats}
  IN  [n \in names |-> stats[CHOOSE k \in DOMAIN stats : NormaliseStat(k) = n]]

InsertParticipants(s) == [i \in DOMAIN s.participants |-> [side |-> i - 1]]

InsertGames(s) ==
  [g \in DOMAIN s.games |-> [id |-> g, number |-> s.games[g].number, map |-> s.games[g].map]]

InsertSeats(s) ==
  [p \in UNION {{g} \X DOMAIN s.games[g].seats : g \in DOMAIN s.games} |->
     LET seat == s.games[p[1]].seats[p[2]]
     IN  [game |-> p[1], side |-> p[2] - 1, hero |-> seat.hero, health |-> seat.health,
          winner |-> seat.winner]]

InsertStats(s) ==
  UNION {UNION {LET stats == ToStats(s.games[g].seats[i].stats)
                IN  {[game |-> g, side |-> i - 1, stat |-> n, value |-> stats[n]] :
                       n \in DOMAIN stats}
                : i \in DOMAIN s.games[g].seats} : g \in DOMAIN s.games}

InsertBans(s) == s.bans

\* The insert statements of one submission, table by table.
Inserts(s) ==
  [participants |-> InsertParticipants(s), picks |-> ToPicks(s), games |-> InsertGames(s),
   seats |-> InsertSeats(s), stats |-> InsertStats(s), bans |-> InsertBans(s)]

-----------------------------------------------------------------------------
(* Constraints.                                                            *)

\* The new rows differ in Key from each other and from those in the table.
UniqueKey(table, new, Key(_)) ==
  \A i \in DOMAIN new :
    /\ \A j \in DOMAIN new : Key(new[i]) = Key(new[j]) => i = j
    /\ \A r \in table : Key(r) # Key(new[i])

Side(side) == side \in 0..1

ParticipantConstraints(t, new) ==
  /\ UniqueKey(t.participants, new.participants, LAMBDA r : r.side)
  /\ \A r \in ToSet(new.participants) : Side(r.side)

GameConstraints(t, new, maps) ==
  /\ UniqueKey(t.games, new.games, LAMBDA r : r.number)
  /\ \A r \in ToSet(new.games) : r.number > 0 /\ r.map \in maps

SeatConstraints(t, new, heroes) ==
  /\ UniqueKey(t.seats, new.seats, LAMBDA r : <<r.game, r.side>>)
  /\ UniqueKey(t.seats, new.seats, LAMBDA r : <<r.game, r.hero>>)
  /\ UniqueKey({r \in t.seats : r.winner}, RestrictValues(new.seats, LAMBDA r : r.winner),
               LAMBDA r : r.game)
  /\ \A r \in ToSet(new.seats) :
       Side(r.side) /\ r.hero \in heroes /\ (r.winner \/ r.health <= 0)

\* A stat is of a seat, and one for each name.
StatConstraints(t, new) ==
  \A r \in new.stats :
    /\ r.stat \notin Malformed /\ r.value >= 0
    /\ \E p \in t.seats \cup ToSet(new.seats) : p.game = r.game /\ p.side = r.side
    /\ \A q \in t.stats \cup new.stats :
         q.game = r.game /\ q.side = r.side /\ q.stat = r.stat => q = r

BanConstraints(t, new, heroes) ==
  /\ UniqueKey(t.bans, new.bans, LAMBDA r : r.hero)
  /\ \A r \in ToSet(new.bans) :
       /\ r.hero \in heroes
       /\ r.side = None \/ Side(r.side)
       /\ r.side = None \/ r.type # "PRE_BAN"

PickConstraints(t, new, heroes) ==
  /\ UniqueKey(t.picks, new.picks, LAMBDA r : r)
  /\ \A r \in ToSet(new.picks) : Side(r.side) /\ r.hero \in heroes

\* No statement of the transaction is refused.
Storable(t, new, maps, heroes) ==
  /\ ParticipantConstraints(t, new)
  /\ GameConstraints(t, new, maps)
  /\ SeatConstraints(t, new, heroes)
  /\ StatConstraints(t, new)
  /\ BanConstraints(t, new, heroes)
  /\ PickConstraints(t, new, heroes)

\* Every child collection of the match is deleted before the new one is written;
\* the stats go with the seats.
DeleteChildren(t) == [table \in DOMAIN t |-> {}]

Insert(t, new) ==
  [participants |-> t.participants \cup ToSet(new.participants),
   picks |-> t.picks \cup ToSet(new.picks),
   games |-> t.games \cup ToSet(new.games),
   seats |-> t.seats \cup ToSet(new.seats),
   stats |-> t.stats \cup new.stats,
   bans  |-> t.bans \cup ToSet(new.bans)]

-----------------------------------------------------------------------------
(* Reading back.  Heroes are numbered in the order of their names.         *)

\* ORDER BY a column that tells the rows apart.
OrderBy(table, column) ==
  LET Lower(q, r) == q[column] < r[column] IN Sorted(table, Lower)

AssembleParticipants(t) ==
  SeqMap(LAMBDA r : [side |-> r.side,
                     drafted |-> SeqMap(LAMBDA p : p.hero,
                                        OrderBy({p \in t.picks : p.side = r.side}, "hero"))],
         OrderBy(t.participants, "side"))

AssembleStats(t, g, side) ==
  LET rows == {r \in t.stats : r.game = g /\ r.side = side}
  IN  [n \in {r.stat : r \in rows} |-> (CHOOSE r \in rows : r.stat = n).value]

\* Mistake: the seats of a game come back in the order of their heroes' names.
AssembleSeats_ByName(t, g) ==
  SeqMap(LAMBDA r : [side |-> r.side, hero |-> r.hero, health |-> r.health,
                     winner |-> r.winner, stats |-> AssembleStats(t, g, r.side)],
         OrderBy({r \in t.seats : r.game = g}, "hero"))

AssembleSeats(t, g) ==
  SeqMap(LAMBDA r : [side |-> r.side, hero |-> r.hero, health |-> r.health,
                     winner |-> r.winner, stats |-> AssembleStats(t, g, r.side)],
         OrderBy({r \in t.seats : r.game = g}, "side"))

AssembleGames(t) ==
  SeqMap(LAMBDA r : [number |-> r.number, map |-> r.map, seats |-> AssembleSeats(t, r.id)],
         OrderBy(t.games, "number"))

AssembleBans(t) == OrderBy(t.bans, "hero")

Assemble(t) ==
  [participants |-> AssembleParticipants(t), games |-> AssembleGames(t),
   bans |-> AssembleBans(t)]
=============================================================================
