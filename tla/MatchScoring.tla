---------------------------- MODULE MatchScoring ----------------------------
(***************************************************************************)
(* What a recorded match is worth to each hero in it                       *)
(* (backend-rs/crates/umfl-domain/src/match_result.rs, match_metrics.rs,   *)
(* scoring_engine.rs, rounding.rs).                                        *)
(*                                                                         *)
(* A match is a record                                                     *)
(*   round, participants (a sequence of [side, drafted]),                  *)
(*   games (of [number, map, seats], a seat being                          *)
(*          [side, hero, health, winner, stats]),                          *)
(*   bans (of [hero, type, side]).                                         *)
(* Coefficients are integers in 1/10000, the scale of numeric(10,4), and   *)
(* points are integers in 1/100: the product of a measurement and a        *)
(* coefficient is exact here, where the code multiplies in f64.            *)
(***************************************************************************)
EXTENDS Integers, SequencesExt

BanTypes == {"PRE_BAN", "OPPONENT_BAN", "SELF_BAN"}

-----------------------------------------------------------------------------
(* The three shapes a hero can have in a match.                            *)

\* Every hero either side drafted, once however many sides took it.
DraftedHeroes(m) == UNION {ToSet(p.drafted) : p \in ToSet(m.participants)}

\* One context per seat of each game.
PlayedContexts(m) ==
  UNION {{[role |-> "PLAYED", hero |-> m.games[g].seats[s].hero, game |-> g, seat |-> s] :
            s \in DOMAIN m.games[g].seats} : g \in DOMAIN m.games}

\* A drafted or banned hero has one context for the series, and no game.
OffTable(role, h) == [role |-> role, hero |-> h, game |-> 0, seat |-> 0]

\* Played > Banned > Drafted.
HeroContexts(m) ==
  LET played == PlayedContexts(m)
      banned == {b.hero : b \in ToSet(m.bans)} \ {c.hero : c \in played}
  IN  played \cup {OffTable("BANNED", h) : h \in banned}
             \cup {OffTable("DRAFTED", h) : h \in DraftedHeroes(m) \ banned}

Played(c) == c.role = "PLAYED"

Participant(m, c) == m.games[c.game].seats[c.seat]

\* Everyone in the game who is not the named hero.
OpponentsOf(game, h) == {s \in ToSet(game.seats) : s.hero # h}

Opponents(m, c) == IF Played(c) THEN OpponentsOf(m.games[c.game], c.hero) ELSE {}

-----------------------------------------------------------------------------
(* The registry: one measurement per metric.                               *)

Flag(b) == IF b THEN 1 ELSE 0

Appearance(c) == Flag(c.role = "DRAFTED")

\* The first ban that names the hero decides; whose draft it came out of is
\* not looked at.
BanOfType(m, c, type) ==
  Flag(/\ c.role = "BANNED"
       /\ m.bans[SelectInSeq(m.bans, LAMBDA b : b.hero = c.hero)].type = type)

Win(m, c) == Flag(Played(c) /\ Participant(m, c).winner)

Loss(m, c) == Flag(Played(c) /\ ~Participant(m, c).winner)

HealthRemaining(m, c) == IF Played(c) THEN Participant(m, c).health ELSE 0

\* Own health less the healthiest opponent's; 0 without a game or an opponent.
HealthGap(m, c) ==
  IF Opponents(m, c) = {}
    THEN 0
    ELSE Participant(m, c).health - Max({o.health : o \in Opponents(m, c)})

HealthDifferential(m, c) == IF Win(m, c) = 1 THEN HealthGap(m, c) ELSE 0

HealthDifferentialTwoWay(m, c) == HealthGap(m, c)

\* Every opponent on exactly zero: an overkill is no shutout.
Shutout(m, c) ==
  Flag(/\ Opponents(m, c) # {}
       /\ \A o \in Opponents(m, c) : o.health = 0)

Known ==
  {"APPEARANCE", "SELF_BAN", "OPPONENT_BAN", "WIN", "LOSS", "HEALTH_REMAINING",
   "HEALTH_DIFFERENTIAL", "HEALTH_DIFFERENTIAL_TWO_WAY", "SHUTOUT"}

Measure(m, c, metric) ==
  CASE metric = "APPEARANCE"                  -> Appearance(c)
    [] metric = "SELF_BAN"                    -> BanOfType(m, c, "SELF_BAN")
    [] metric = "OPPONENT_BAN"                -> BanOfType(m, c, "OPPONENT_BAN")
    [] metric = "WIN"                         -> Win(m, c)
    [] metric = "LOSS"                        -> Loss(m, c)
    [] metric = "HEALTH_REMAINING"            -> HealthRemaining(m, c)
    [] metric = "HEALTH_DIFFERENTIAL"         -> HealthDifferential(m, c)
    [] metric = "HEALTH_DIFFERENTIAL_TWO_WAY" -> HealthDifferentialTwoWay(m, c)
    [] metric = "SHUTOUT"                     -> Shutout(m, c)

-----------------------------------------------------------------------------
(* A rule set as configured is a sequence of <<metric, coefficient>> in    *)
(* sort order; the database keeps metrics normalised.                      *)

\* A key that comes again keeps its first place and takes its last value.
CoefficientOf(configured, metric) ==
  LET i == SelectLastInSeq(configured, LAMBDA p : p[1] = metric)
  IN  IF i = 0 THEN 0 ELSE configured[i][2]

\* The metrics that score: configured and implemented.  Others are ignored.
ScoredMetrics(configured) == {p[1] : p \in ToSet(configured)} \cap Known

\* Mistake: midpoints go up, also below zero.
Round2_Up(x) == (x + 50) \div 100

\* Half away from zero, from 1/10000 to 1/100.
Round2(x) == IF x >= 0 THEN (x + 50) \div 100 ELSE -((50 - x) \div 100)

\* What a metric contributes: rounded before anything is summed.
Priced(m, c, metric, configured) ==
  Round2(Measure(m, c, metric) * CoefficientOf(configured, metric))

\* The hero's net score in this context; the sum needs no second rounding here.
Score(m, c, configured) ==
  SumFunction([metric \in ScoredMetrics(configured) |-> Priced(m, c, metric, configured)])
=============================================================================
