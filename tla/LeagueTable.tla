----------------------------- MODULE LeagueTable -----------------------------
(***************************************************************************)
(* What is folded from the recorded matches on every read: the leaderboard *)
(* and the ticker (backend-rs/crates/umfl-domain/src/standings.rs), the    *)
(* hero tables (hero_stats.rs) and the Hall of Fame (hall_of_fame.rs).     *)
(*                                                                         *)
(* An entry is a record                                                    *)
(*   handle, heroes (now, by slot), swaps (of [round, out, in], by round   *)
(*   and id), roles (the rows of its role log).                            *)
(* A handle or a hero's name stands for its place in byte order: a number. *)
(* Points are exact integers in 1/100, so the roundings of sums of rounded *)
(* points have nothing left to do.                                         *)
(***************************************************************************)
EXTENDS RosterRoles, Ordering

-----------------------------------------------------------------------------
(* Who held whom, and when.                                                *)

\* until is exclusive; None while the hero is held.
Holding(h, from, until) == [hero |-> h, from |-> from, until |-> until]

\* Mistake: the round of the swap still counts for the hero that left.
Covers_Inclusive(x, r) == r >= x.from /\ (x.until = None \/ r <= x.until)

Covers(x, r) == r >= x.from /\ (x.until = None \/ r < x.until)

Undo(s, heroes) ==
  LET i == SelectInSeq(heroes, LAMBDA h : h = s.in)
  IN  IF i = 0 THEN Append(heroes, s.out) ELSE [heroes EXCEPT ![i] = s.out]

\* Every swap undone, the newest first.
OpeningRoster(e) == FoldRight(Undo, e.swaps, e.heroes)

Close(xs, s) ==
  LET open == SelectInSeq(xs, LAMBDA x : x.hero = s.out /\ x.until = None)
  IN  [k \in DOMAIN xs |-> IF k = open THEN Holding(s.out, xs[k].from, s.round) ELSE xs[k]]

Replay(xs, s) == Append(Close(xs, s), Holding(s.in, s.round, None))

\* And replayed, the oldest first.
Holdings(e) ==
  LET opening == OpeningRoster(e)
  IN  FoldLeft(Replay, [i \in DOMAIN opening |-> Holding(opening[i], 1, None)], e.swaps)

-----------------------------------------------------------------------------
(* Places.                                                                 *)

\* Standard competition ranking of sorted rows: equal scores share a place, and the
\* places they take are not handed out again.  A row has the place of the last one so
\* far whose score is not that of the row above it.
Ranked(rows, Score1(_)) ==
  LET Opens(i) == i = 1 \/ Score1(rows[i]) # Score1(rows[i - 1])
  IN  [i \in DOMAIN rows |-> [rows[i] EXCEPT !.rank = Max({k \in 1 .. i : Opens(k)})]]

\* By points, then by name.
Ahead(a, b) == a.points > b.points \/ (a.points = b.points /\ a.name < b.name)

\* The name never splits a place.
CompetitionRank(rows) == LET Points(row) == row.points IN Ranked(Sorted(rows, Ahead), Points)

-----------------------------------------------------------------------------
(* The leaderboard.                                                        *)

LatestRound(matches) == Max({m.round : m \in ToSet(matches)} \cup {0})

\* Every context of every match: <<match, context>>.
Appearances(matches) ==
  UNION {{j} \X HeroContexts(matches[j]) : j \in DOMAIN matches}

RoleBonusMetric == "ROLE_BONUS"

Columns(rules, book) ==
  ScoredMetrics(rules) \cup IF book = None THEN {} ELSE {RoleBonusMetric}

\* The bonus of an appearance for this entry: no game, no role in force or a role
\* the tournament does not have, no bonus.
BonusOf(e, book, m, c) ==
  LET r == RoleAt(e.roles, c.hero, m.round)
  IN  IF book # None /\ r # None /\ Played(c) /\ r \in DOMAIN book
        THEN RoleBonus(book[r], Participant(m, c).stats)
        ELSE 0

\* What entry e banks: <<holding, match, context>>.
Banked(e, matches) ==
  LET xs == Holdings(e)
      Banks(x, a) == x.hero = a[2].hero /\ Covers(x, matches[a[1]].round)
  IN  UNION {{<<k, a[1], a[2]>> : a \in {b \in Appearances(matches) : Banks(xs[k], b)}} :
               k \in DOMAIN xs}

\* Dense: every column has a value.
Totals(e, matches, rules, book, banked) ==
  LET In(metric, m, c) == IF metric = RoleBonusMetric THEN BonusOf(e, book, m, c)
                                                      ELSE Priced(m, c, metric, rules)
  IN  [metric \in Columns(rules, book) |->
         SumFunction([p \in banked |-> In(metric, matches[p[2]], p[3])])]

StandingsRow(e, matches, rules, book) ==
  LET banked == Banked(e, matches)
      last   == {p \in banked : matches[p[2]].round = LatestRound(matches)}
      totals == Totals(e, matches, rules, book, banked)
  IN  [rank |-> 0, name |-> e.handle, breakdown |-> totals, points |-> SumFunction(totals),
       roundPoints |-> SumFunction(Totals(e, matches, rules, book, last))]

\* One row per entry.
Board(matches, rules, entries, book) ==
  CompetitionRank({StandingsRow(e, matches, rules, book) : e \in entries})

RowOf(board, name) == board[SelectInSeq(board, LAMBDA row : row.name = name)]

-----------------------------------------------------------------------------
(* The ticker.                                                             *)

\* Mistake: the draft is shown with every game.
IsFirstGame_Any(m, h, g) == TRUE

\* The game with the lowest number among those h played.
IsFirstGame(m, h, g) ==
  \A k \in DOMAIN m.games :
    (\E s \in ToSet(m.games[k].seats) : s.hero = h) => m.games[g].number <= m.games[k].number

\* A seat's points: its game, and the draft if this is the hero's first game.
TickerPoints(m, rules, g, h) ==
  LET shown == {c \in HeroContexts(m) : /\ c.hero = h
                                        /\ \/ Played(c) /\ c.game = g
                                           \/ c.role = "DRAFTED" /\ IsFirstGame(m, h, g)}
  IN  SumFunction([c \in shown |-> Score(m, c, rules)])

\* The winner first, the rest as recorded.
TickerSides(m, rules, g) ==
  LET seats == m.games[g].seats
      Before(i, j) == \/ seats[i].winner /\ ~seats[j].winner
                      \/ seats[i].winner = seats[j].winner /\ i < j
      order == Sorted(DOMAIN seats, Before)
      hero(i) == seats[order[i]].hero
  IN  [i \in DOMAIN order |-> [hero |-> hero(i), points |-> TickerPoints(m, rules, g, hero(i))]]

PlayedHeroes(m) == {c.hero : c \in PlayedContexts(m)}

\* Named once, however many sides drafted the hero.
DraftedUnplayed(m) == DraftedHeroes(m) \ PlayedHeroes(m)

TickerEntry(m, rules) ==
  [round |-> m.round, games |-> [g \in DOMAIN m.games |-> TickerSides(m, rules, g)],
   banned |-> [i \in DOMAIN m.bans |-> m.bans[i].hero], unplayed |-> DraftedUnplayed(m)]

-----------------------------------------------------------------------------
(* The hero tables: the pool's heroes, and no others.                      *)

\* Dense: a hero nobody fielded has zeros.
Tallies(matches, rules, pool) ==
  LET apps == Appearances(matches)
  IN  [h \in DOMAIN pool |-> [metric \in ScoredMetrics(rules) |->
         SumFunction([a \in {b \in apps : b[2].hero = h} |->
                        Priced(matches[a[1]], a[2], metric, rules)])]]

HeroRow(h, points) == [rank |-> 0, name |-> h, points |-> points]

Overall(tallies) ==
  CompetitionRank({HeroRow(h, SumFunction(tallies[h])) : h \in DOMAIN tallies})

Categories(tallies, rules) ==
  [metric \in ScoredMetrics(rules) |->
     CompetitionRank({HeroRow(h, tallies[h][metric]) : h \in DOMAIN tallies})]

-----------------------------------------------------------------------------
(* The Hall of Fame: completed tournaments are [id, board] records.        *)

PodiumDepth == 3

\* Ties share a place, so a podium may have more rows than places.
Podium(t) == {row \in ToSet(t.board) : row.rank <= PodiumDepth}

\* Mistake: a shared first place is no title.
TitleRow_OnlyAlone(completed, name) ==
  LET on == {t \in completed : \E row \in Podium(t) : row.name = name}
      won == {t \in on : t.board[1].name = name}
  IN  [rank |-> 0, name |-> name, titles |-> Cardinality(won), podiums |-> Cardinality(on)]

TitleRow(completed, name) ==
  LET on  == {t \in completed : \E row \in Podium(t) : row.name = name}
      won == {t \in on : \E row \in Podium(t) : row.name = name /\ row.rank = 1}
  IN  [rank |-> 0, name |-> name, titles |-> Cardinality(won), podiums |-> Cardinality(on)]

\* By titles, then podiums; two managers share a place when both counts agree.
Titles(completed) ==
  LET names == UNION {{row.name : row \in Podium(t)} : t \in completed}
      Above(a, b) == \/ a.titles > b.titles
                     \/ a.titles = b.titles /\ a.podiums > b.podiums
                     \/ a.titles = b.titles /\ a.podiums = b.podiums /\ a.name < b.name
      Counts(row) == <<row.titles, row.podiums>>
  IN  Ranked(Sorted({TitleRow(completed, n) : n \in names}, Above), Counts)
=============================================================================
