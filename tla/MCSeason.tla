------------------------------ MODULE MCSeason ------------------------------
(***************************************************************************)
(* An instance of Season for TLC: four heroes, rosters of two, two roles  *)
(* of which one is for a single hero, three rounds; a manager with two     *)
(* tabs against one whose roster was locked before.                        *)
(***************************************************************************)
EXTENDS Season

CONSTANTS ann, bob, tab1, tab2

MCHandle == [m \in {ann, bob} |-> IF m = ann THEN 1 ELSE 2]
MCOwner  == [s \in {tab1, tab2} |-> ann]
MCMay    == [s \in {tab1, tab2} |-> IF s = tab1 THEN {"swap"} ELSE {"roles"}]
MCPrices == [h \in 1 .. 4 |-> h]

NoStats == [k \in {} |-> 0]
Stats(attacks) == [k \in {"ATTACKS"} |-> attacks]

\* Role 1 rewards attacks and fits one hero; role 2 takes what role 1 gives.
MCBook  == [r \in 1 .. 2 |->
              IF r = 1 THEN [cap |-> 1, weights |-> [k \in {"ATTACKS"} |-> 10000]]
                       ELSE [cap |-> None, weights |-> [k \in {"ATTACKS", "HEALING"} |-> 5000]]]
MCBooks == {MCBook}

MCWishes    == {<<1, 2>>, <<3, 2>>, <<1, 3>>}
MCRoleForms == {<<>>, <<<<1, 1>>, <<2, 2>>>>, <<<<2, 1>>, <<1, 2>>>>, <<<<3, 1>>>>, <<<<3, 2>>>>, <<<<2, 1>>, <<3, 2>>>>,
                <<<<1, 1>>, <<1, 2>>>>, <<<<1, 3>>, <<2, 2>>>>}
MCSettled   == [m \in {bob} |-> [slots |-> <<1, 2>>, roles |-> <<<<1, 2>>, <<2, 1>>>>]]

Seat(side, h, health, w, stats) ==
  [side |-> side, hero |-> h, health |-> health, winner |-> w, stats |-> stats]

\* Hero 2 on both arsenals and the games out of order; hero 3 drafted and not
\* played, hero 4 banned out of its own draft.
Series ==
  [round |-> 0,
   participants |-> <<[side |-> 0, drafted |-> <<1, 2>>], [side |-> 1, drafted |-> <<3, 2>>]>>,
   games |-> <<[number |-> 2, map |-> 1, seats |-> <<Seat(0, 1, 0, FALSE, Stats(2)),
                                                     Seat(1, 2, 4, TRUE, Stats(1))>>],
               [number |-> 1, map |-> 1, seats |-> <<Seat(0, 1, 3, TRUE, NoStats),
                                                     Seat(1, 2, 0, FALSE, Stats(4))>>]>>,
   bans |-> <<[hero |-> 4, type |-> "SELF_BAN", side |-> 0]>>]

MCFixtures == {Series}
MCRules == <<<<"APPEARANCE", 10000>>, <<"WIN", 30000>>, <<"LOSS", -5000>>, <<"SELF_BAN", 2500>>,
             <<"HEALTH_REMAINING", 1250>>, <<"CROWD_FAVOURITE", 70000>>>>

Final(name, rank) == [rank |-> rank, name |-> name, points |-> 0]

\* A shared first place, and a podium without bob.
MCPast ==
  {[id |-> 1, board |-> <<Final(1, 1), Final(2, 1), Final(3, 3), Final(4, 4)>>],
   [id |-> 2, board |-> <<Final(3, 1), Final(1, 2), Final(4, 3), Final(5, 3), Final(2, 5)>>]}
=============================================================================
