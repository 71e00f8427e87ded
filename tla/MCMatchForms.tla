---------------------------- MODULE MCMatchForms ----------------------------
(***************************************************************************)
(* An instance of MatchForms for TLC: three priced heroes, a fourth that   *)
(* exists outside the pool, one map in the pool, two games.                *)
(***************************************************************************)
EXTENDS MatchForms

N(name)    == <<name, "as in the catalogue">>
Odd(name)  == <<name, "in its own way">>

MCHeroes == <<<<"arthur", 1>>, <<"buffy", 2>>, <<"medusa", 3>>, <<"sinbad", 4>>, <<"buffy", 4>>>>
MCMaps   == <<<<"sarpedon", 1>>, <<"marmoreal", 2>>>>
MCAliases == [n \in {"buffy giles"} |-> "buffy"]

Seat(h, health, w)     == [hero |-> h, health |-> health, winner |-> w]
FormSeat(h, health, w) == [hero |-> h, health |-> health, winner |-> w, stats |-> <<>>]
Ban(h, type)           == [hero |-> h, type |-> type]

\* A page that reads well; one with picks under two spellings, bans of one hero
\* by both sides, names that do not resolve, a seat and an index missed; one that
\* has a single side.
GoodPage ==
  [sides |-> <<[picks |-> <<N("arthur"), Odd("buffy")>>, bans |-> <<>>],
               [picks |-> <<N("medusa")>>, bans |-> <<Ban(N("buffy giles"), "SELF_BAN")>>]>>,
   preBans |-> <<>>,
   games |-> <<[index |-> 1, map |-> N("sarpedon"),
                seats |-> <<Seat(N("arthur"), 7, TRUE), Seat(N("medusa"), -2, FALSE)>>]>>]

OddPage ==
  [sides |-> <<[picks |-> <<N("arthur"), Odd("arthur"), N("sinbad")>>,
                bans |-> <<Ban(Odd("buffy"), "OPPONENT_BAN")>>],
               [picks |-> <<N("medusa"), N("nobody")>>,
                bans |-> <<Ban(N("buffy giles"), "SELF_BAN"), Ban(N(Blank), "draft")>>]>>,
   preBans |-> <<Odd("buffy")>>,
   games |-> <<[index |-> 1, map |-> N("sarpedon"),
                seats |-> <<Seat(Odd("arthur"), 3, TRUE), Seat(N("medusa"), None, FALSE)>>],
               [index |-> None, map |-> N("marmoreal"),
                seats |-> <<None, Seat(N("medusa"), 4, TRUE)>>]>>]

\* Everything resolves, but the second game of the page has no index.
UnnumberedPage ==
  [GoodPage EXCEPT !.games = <<@[1], [@[1] EXCEPT !.index = None]>>]

HalfPage == [GoodPage EXCEPT !.sides[2] = None]

MCPages == {GoodPage, OddPage, UnnumberedPage, HalfPage}

\* Two games; buffy on both arsenals.
TwoGames ==
  [sides |-> <<[drafted |-> <<1, 2>>, bans |-> <<>>], [drafted |-> <<3, 2>>, bans |-> <<>>]>>,
   games |-> <<[number |-> 1, map |-> 1, seats |-> <<FormSeat(1, 5, TRUE), FormSeat(3, 0, FALSE)>>],
               [number |-> 2, map |-> 1, seats |-> <<FormSeat(1, -1, FALSE), FormSeat(2, 6, TRUE)>>]>>,
   preBans |-> <<>>, unassigned |-> <<>>]

\* Buffy struck by the opponent.
OneBan ==
  [sides |-> <<[drafted |-> <<1, 2>>, bans |-> <<Ban(2, "OPPONENT_BAN")>>],
               [drafted |-> <<3>>, bans |-> <<>>]>>,
   games |-> <<[number |-> 1, map |-> 1, seats |-> <<FormSeat(1, 0, FALSE), FormSeat(3, 4, TRUE)>>]>>,
   preBans |-> <<>>, unassigned |-> <<>>]

MCDrafts == {TwoGames, OneBan}

\* The wizard's parser lets no malformed or negative stat through.
MCSheets == {[k \in {N("ATTACKS")} |-> 3]}
MCOddSheets ==
  {[k \in {N("ATTACKS"), N("9 LIVES")} |-> 1], [k \in {N("ATTACKS"), Odd("ATTACKS")} |-> 1],
   [k \in {N("ATTACKS")} |-> -1], [k \in {Odd("HEALING"), N("ATTACKS")} |-> 2]}
MCHealths == {-2, 0, 4}
MCWeights == {1250, -3333, 7}
=============================================================================
