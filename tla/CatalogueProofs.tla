--------------------------- MODULE CatalogueProofs ---------------------------
(***************************************************************************)
(* What the admins' saves keep, for any number of requests in flight.      *)
(*                                                                         *)
(* IInv of Catalogue is inductive.  The lemmas come in the order of the    *)
(* argument: what a request is, what each statement does to what its       *)
(* transaction has written, that a statement leaves the other requests     *)
(* alone, one lemma per statement, and the theorems.                       *)
(***************************************************************************)
EXTENDS Catalogue, FiniteSetTheorems, TLAPS

-----------------------------------------------------------------------------
(* Requests, steps and rows.                                               *)

\* Every request is of a kind the tables know, and carries what its kind carries.
LEMMA Request ==
  ASSUME NEW q \in AllRequests
  PROVE  /\ q.kind \in Kinds
         /\ TableOf(q.kind) \in Tables
         /\ ~Creates(q.kind) => q.id \in Ids
         /\ TableOf(q.kind) \in {"sets", "roles", "heroes", "maps"} /\ ~Deletes(q.kind)
              /\ q.kind # "activate" => q.name \in Names
         /\ TableOf(q.kind) \in {"sets", "roles"} /\ ~Deletes(q.kind) /\ q.kind # "activate"
              => q.list \in Submitted
         /\ q.kind \in {"record", "correct"} =>
              /\ q.link \in Links /\ q.map \in Ids /\ q.hero \in Ids
              /\ q.round \in Rounds \cup {None}
  <1>1. \/ q \in RuleSetRequests
        \/ q \in RoleRequests
        \/ q \in HeroRequests
        \/ q \in MapRequests
        \/ q \in MatchRequests
        \/ q \in [kind : {"setRoles"}, id : Ids]
    BY DEF AllRequests
  <1>2. CASE q \in RuleSetRequests
    BY <1>2 DEF RuleSetRequests, Kinds, TableOf, Creates, Deletes, Tables
  <1>3. CASE q \in RoleRequests
    BY <1>3 DEF RoleRequests, Kinds, TableOf, Creates, Deletes, Tables
  <1>4. CASE q \in HeroRequests
    BY <1>4 DEF HeroRequests, Kinds, TableOf, Creates, Deletes, Tables
  <1>5. CASE q \in MapRequests
    BY <1>5 DEF MapRequests, Kinds, TableOf, Creates, Deletes, Tables
  <1>6. CASE q \in MatchRequests
    BY <1>6 DEF MatchRequests, Kinds, TableOf, Creates, Deletes, Tables
  <1>7. CASE q \in [kind : {"setRoles"}, id : Ids]
    BY <1>7 DEF Kinds, TableOf, Creates, Deletes, Tables
  <1> QED
    BY <1>1, <1>2, <1>3, <1>4, <1>5, <1>6, <1>7

\* The tables of the kinds.
LEMMA Kind ==
  /\ \A k \in Kinds :
       /\ TableOf(k) = "sets" <=> k \in {"createRuleSet", "updateRuleSet", "activate"}
       /\ TableOf(k) = "roles" <=> k \in {"createRole", "updateRole", "deleteRole"}
       /\ TableOf(k) = "heroes" <=> k \in {"createHero", "updateHero"}
       /\ TableOf(k) = "maps" <=> k \in {"createMap", "updateMap"}
       /\ TableOf(k) = "mapPool" <=> k = "removeMap"
       /\ TableOf(k) = "given" <=> k = "setRoles"
       /\ TableOf(k) = "matches" <=> k \in {"record", "correct", "delete"}
       /\ TableOf(k) # "heroPool"
  BY DEF Kinds, TableOf

\* What is left of a request's statements at each of them.
LEMMA Step ==
  ASSUME NEW s \in Sessions, InFlight(s), tx[s].todo # <<>>
  PROVE  /\ Head(tx[s].todo) = "write" =>
              /\ tx[s].todo = Steps(tx[s].q) /\ tx[s].q.kind # "activate"
              /\ Tail(tx[s].todo) = IF tx[s].q.kind = "removeMap" THEN <<"recheck">>
                                    ELSE IF Activates(tx[s].q) THEN Flipping ELSE <<>>
         /\ Head(tx[s].todo) = "deactivate" =>
              /\ Activates(tx[s].q) /\ tx[s].todo = Flipping
              /\ Tail(tx[s].todo) = <<"flip", "raise">>
         /\ Head(tx[s].todo) = "flip" =>
              /\ Activates(tx[s].q) /\ tx[s].todo = <<"flip", "raise">>
              /\ Tail(tx[s].todo) = <<"raise">>
         /\ Head(tx[s].todo) = "raise" =>
              Activates(tx[s].q) /\ tx[s].todo = <<"raise">> /\ Tail(tx[s].todo) = <<>>
         /\ Head(tx[s].todo) = "recheck" =>
              tx[s].q.kind = "removeMap" /\ Tail(tx[s].todo) = <<>>
  <1> DEFINE q == tx[s].q  todo == tx[s].todo
             All == <<"write", "deactivate", "flip", "raise">>
  <1> USE DEF Flipping
  <1>1. /\ Head(All) = "write" /\ Tail(All) = Flipping
        /\ Head(Flipping) = "deactivate" /\ Tail(Flipping) = <<"flip", "raise">>
        /\ Head(<<"flip", "raise">>) = "flip" /\ Tail(<<"flip", "raise">>) = <<"raise">>
        /\ Head(<<"raise">>) = "raise" /\ Tail(<<"raise">>) = <<>>
        /\ Head(<<"write", "recheck">>) = "write"
        /\ Tail(<<"write", "recheck">>) = <<"recheck">>
        /\ Head(<<"recheck">>) = "recheck" /\ Tail(<<"recheck">>) = <<>>
        /\ Head(<<"write">>) = "write" /\ Tail(<<"write">>) = <<>>
    OBVIOUS
  <1>2. todo \in {Steps(q)} \cup
           IF Activates(q) THEN {Flipping, <<"flip", "raise">>, <<"raise">>}
           ELSE IF q.kind = "removeMap" THEN {<<"recheck">>} ELSE {}
    BY DEF InFlight
  <1> HIDE DEF Flipping
  <1>3. Steps(q) = IF Activates(q) THEN IF q.kind = "activate" THEN Flipping ELSE All
                   ELSE IF q.kind = "removeMap" THEN <<"write", "recheck">> ELSE <<"write">>
    BY DEF Steps, Activates
  <1> HIDE DEF All
  <1> QED
    BY <1>1, <1>2, <1>3 DEF Activates

\* .. and none of the lists is another.
LEMMA Lists ==
  /\ <<"flip", "raise">> # <<"raise">> /\ <<"raise">> # <<>> /\ <<"flip", "raise">> # <<>>
  /\ Flipping \notin {<<>>, <<"flip", "raise">>, <<"raise">>}
  /\ <<"recheck">> \notin {<<>>, <<"raise">>, <<"flip", "raise">>}
  /\ \A q : Steps(q) \notin {<<>>, <<"flip", "raise">>, <<"raise">>, <<"recheck">>}
  /\ \A q : q.kind # "activate" => Steps(q) # Flipping
  BY DEF Flipping, Steps
\* The row of every table is a row, and None is not.
LEMMA Rows ==
  /\ \A t \in Tables : Row(t) \subseteq AnyRow /\ None \notin Row(t)
  /\ None \notin AnyRow
  /\ \A row \in Row("sets") :
       /\ DOMAIN row = {"key", "list", "active"}
       /\ row.key \in Names /\ row.list \in Seq(Metrics) /\ row.active \in BOOLEAN
  /\ \A row \in Row("matches") :
       /\ DOMAIN row = {"key", "map", "hero", "round"}
       /\ row.key \in Links /\ row.map \in Ids /\ row.hero \in Ids /\ row.round \in Rounds
  <1>1. \A t \in Tables : Row(t) \subseteq AnyRow
    BY DEF Tables, Row, AnyRow
  <1>2. /\ Row("sets") = [key : Names, list : Seq(Metrics), active : BOOLEAN]
        /\ Row("matches") = [key : Links, map : Ids, hero : Ids, round : Rounds]
    BY DEF Row
  <1>3. {"sets", "roles", "heroes", "mapPool", "matches"} \subseteq Tables
    BY DEF Tables
  <1>4. None \notin AnyRow
    BY <1>3, NoneAssumption DEF AnyRow
  <1>5. ASSUME NEW row \in [key : Names, list : Seq(Metrics), active : BOOLEAN]
        PROVE  /\ DOMAIN row = {"key", "list", "active"}
               /\ row.key \in Names /\ row.list \in Seq(Metrics) /\ row.active \in BOOLEAN
    OBVIOUS
  <1>6. ASSUME NEW row \in [key : Links, map : Ids, hero : Ids, round : Rounds]
        PROVE  /\ DOMAIN row = {"key", "map", "hero", "round"}
               /\ row.key \in Links /\ row.map \in Ids /\ row.hero \in Ids
               /\ row.round \in Rounds
    OBVIOUS
  <1> QED
    BY <1>1, <1>2, <1>4, <1>5, <1>6, NoneAssumption

\* A list of metrics stays one when it is normalised.
LEMMA Normalised ==
  ASSUME NEW list \in Seq(Metrics)
  PROVE  ToCoefficients(list) \in Seq(Metrics)
  <1>1. /\ DOMAIN ToCoefficients(list) = 1 .. Len(list)
        /\ \A i \in 1 .. Len(list) : ToCoefficients(list)[i] = Normalise[list[i]]
        /\ \A i \in 1 .. Len(list) : Normalise[list[i]] \in Metrics
        /\ Len(list) \in Nat
        /\ DOMAIN list = 1 .. Len(list)
    BY CatalogueAssumption DEF ToCoefficients
  <1>2. ToCoefficients(list) \in [1 .. Len(list) -> Metrics]
    BY <1>1 DEF ToCoefficients
  <1> QED
    BY <1>1, <1>2

\* What a save writes is a row of its table.
LEMMA Saved ==
  ASSUME NEW q \in AllRequests, NEW seen,
         ~Deletes(q.kind), q.kind # "activate",
         q.kind \in {"updateRuleSet", "correct"} => seen \in Row(TableOf(q.kind))
  PROVE  SavedRow(q, seen) \in Row(TableOf(q.kind))
  <1> USE Request
  <1>1. CASE TableOf(q.kind) = "sets"
    <2>1. ToCoefficients(q.list) \in Seq(Metrics)
      BY <1>1, Normalised, CatalogueAssumption
    <2>2. (q.kind = "updateRuleSet" /\ CarriedFlag(seen)) \in BOOLEAN
      BY <1>1, Rows DEF CarriedFlag
    <2> QED
      BY <1>1, <2>1, <2>2 DEF SavedRow, SavedRuleSet, Row
  <1>2. CASE TableOf(q.kind) = "roles"
    <2>1. ToCoefficients(q.list) \in Seq(Metrics)
      BY <1>2, Normalised, CatalogueAssumption
    <2> QED
      BY <1>2, <2>1 DEF SavedRow, SavedRole, Row
  <1>3. CASE TableOf(q.kind) \in {"heroes", "maps"}
    BY <1>3 DEF SavedRow, SavedName, Row
  <1>4. CASE TableOf(q.kind) = "matches"
    <2>1. q.kind \in {"record", "correct"}
      BY <1>4, Kind DEF Deletes
    <2>2. SavedMatch(q, seen).round \in Rounds
      BY <2>1, <1>4, Rows, CatalogueAssumption DEF SavedMatch
    <2>3. SavedMatch(q, seen) = [key |-> q.link, map |-> q.map, hero |-> q.hero,
                                 round |-> SavedMatch(q, seen).round]
      BY DEF SavedMatch
    <2> QED
      BY <1>4, <2>1, <2>2, <2>3 DEF SavedRow, Row
  <1>5. CASE TableOf(q.kind) = "given"
    BY <1>5 DEF SavedRow, Row
  <1> QED
    BY <1>1, <1>2, <1>3, <1>4, <1>5, Kind DEF Kinds, Tables, Deletes

-----------------------------------------------------------------------------
(* What a statement does to what its transaction has written.              *)

\* mine is a function from the sessions to functions.
Shape == mine = [s \in Sessions |-> [x \in DOMAIN mine[s] |-> mine[s][x]]]

LEMMA PutEffect ==
  ASSUME NEW s \in Sessions, NEW t, NEW i, NEW row, Shape, Put(s, t, i, row)
  PROVE  /\ Shape'
         /\ \A o \in Sessions \ {s} : mine'[o] = mine[o]
         /\ DOMAIN mine'[s] = DOMAIN mine[s] \cup {<<t, i>>}
         /\ mine'[s][<<t, i>>] = row
         /\ \A x \in DOMAIN mine[s] : x # <<t, i>> => mine'[s][x] = mine[s][x]
  <1> DEFINE new == [x \in {<<t, i>>} \cup DOMAIN mine[s] |->
                       IF x = <<t, i>> THEN row ELSE mine[s][x]]
  <1>1. mine' = [mine EXCEPT ![s] = new]
    BY DEF Put
  <1>2. /\ new = [x \in DOMAIN new |-> new[x]]
        /\ DOMAIN new = DOMAIN mine[s] \cup {<<t, i>>}
        /\ new[<<t, i>>] = row
        /\ \A x \in DOMAIN mine[s] : x # <<t, i>> => new[x] = mine[s][x]
    OBVIOUS
  <1> HIDE DEF new
  <1>3. DOMAIN mine = Sessions
    BY DEF Shape
  <1>4. mine' = [o \in Sessions |-> IF o = s THEN new ELSE mine[o]]
    BY <1>1, <1>3
  <1>5. \A o \in Sessions : mine[o] = [x \in DOMAIN mine[o] |-> mine[o][x]]
    BY DEF Shape
  <1>6. Shape'
    BY <1>2, <1>4, <1>5 DEF Shape
  <1> QED
    BY <1>2, <1>4, <1>6

LEMMA EndEffect ==
  ASSUME NEW s \in Sessions, NEW how, Shape, End(s, how)
  PROVE  /\ Shape'
         /\ \A o \in Sessions \ {s} : mine'[o] = mine[o]
         /\ DOMAIN mine'[s] = {}
  <1>1. mine' = [mine EXCEPT ![s] = Nothing]
    BY DEF End
  <1>2. Nothing = [x \in DOMAIN Nothing |-> Nothing[x]] /\ DOMAIN Nothing = {}
    BY DEF Nothing
  <1>3. DOMAIN mine = Sessions
    BY DEF Shape
  <1>4. mine' = [o \in Sessions |-> IF o = s THEN Nothing ELSE mine[o]]
    BY <1>1, <1>3
  <1>5. \A o \in Sessions : mine[o] = [x \in DOMAIN mine[o] |-> mine[o][x]]
    BY DEF Shape
  <1>6. Shape'
    BY <1>2, <1>4, <1>5 DEF Shape
  <1> QED
    BY <1>2, <1>4, <1>6
LEMMA ProceedEffect ==
  ASSUME TypeOK, NEW s \in Sessions, tx[s] # None, tx[s].todo # <<>>, Proceed(s)
  PROVE  /\ tx' \in [Sessions -> Transaction \cup {None}]
         /\ \A o \in Sessions \ {s} : tx'[o] = tx[o]
         /\ tx'[s] \in Transaction /\ tx'[s] # None
         /\ tx'[s].q = tx[s].q /\ tx'[s].id = tx[s].id /\ tx'[s].seen = tx[s].seen
         /\ tx'[s].others = tx[s].others /\ tx'[s].raced = tx[s].raced
         /\ tx'[s].todo = Tail(tx[s].todo)
         /\ UNCHANGED <<db, answer, area, started>>
  <1>1. tx \in [Sessions -> Transaction \cup {None}] /\ tx[s] \in Transaction
    BY DEF TypeOK
  <1>2. tx' = [tx EXCEPT ![s] = [tx[s] EXCEPT !.todo = Tail(tx[s].todo)]]
    BY <1>1 DEF Proceed
  <1>3. Tail(tx[s].todo) \in Seq({"write", "recheck", "deactivate", "flip", "raise"})
    BY <1>1 DEF Transaction
  <1>4. /\ [tx[s] EXCEPT !.todo = Tail(tx[s].todo)] \in Transaction
        /\ [tx[s] EXCEPT !.todo = Tail(tx[s].todo)].todo = Tail(tx[s].todo)
        /\ [tx[s] EXCEPT !.todo = Tail(tx[s].todo)].q = tx[s].q
        /\ [tx[s] EXCEPT !.todo = Tail(tx[s].todo)].id = tx[s].id
        /\ [tx[s] EXCEPT !.todo = Tail(tx[s].todo)].seen = tx[s].seen
        /\ [tx[s] EXCEPT !.todo = Tail(tx[s].todo)].others = tx[s].others
        /\ [tx[s] EXCEPT !.todo = Tail(tx[s].todo)].raced = tx[s].raced
    BY <1>1, <1>3 DEF Transaction
  <1> QED
    BY <1>1, <1>2, <1>4, NoneAssumption DEF Proceed

-----------------------------------------------------------------------------
(* A statement of one request leaves the others alone.                     *)

\* What a predicate of a session says is a matter of the tables and of its own transaction.
LEMMA OthersKeep ==
  ASSUME NEW o \in Sessions, db' = db, tx'[o] = tx[o], mine'[o] = mine[o]
  PROVE  /\ InFlight(o) => InFlight(o)'
         /\ Carried(o) => Carried(o)'
         /\ Orphans(o)' = Orphans(o)
         /\ \A i : Raised(o, i)' = Raised(o, i)
         /\ \A i : ActiveClash(o, i)' = ActiveClash(o, i)
  <1>1. ActiveIds' = ActiveIds
    BY DEF ActiveIds, Stored
  <1>2. \A i : Raised(o, i)' = Raised(o, i)
    BY DEF Raised
  <1>3. \A t, i : RowFor(o, t, i)' = RowFor(o, t, i)
    BY DEF RowFor
  <1>4. InFlight(o) => InFlight(o)'
    BY DEF InFlight
  <1>5. Carried(o) => Carried(o)'
    BY <1>1, <1>2 DEF Carried
  <1>6. Orphans(o)' = Orphans(o)
    BY <1>3 DEF Orphans
  <1>7. \A i : ActiveClash(o, i)' = ActiveClash(o, i)
    BY <1>3 DEF ActiveClash
  <1> QED
    BY <1>2, <1>4, <1>5, <1>6, <1>7

LEMMA StatementType ==
  ASSUME TypeOK, NEW s \in Sessions, UNCHANGED <<db, next, area, started>>,
         tx' \in [Sessions -> Transaction \cup {None}],
         answer' \in [Sessions -> [kind : Kinds, how : {"ok", "generic", "named", "dropped"}]
                                    \cup {None}],
         Shape', \A o \in Sessions \ {s} : mine'[o] = mine[o],
         DOMAIN mine'[s] \subseteq Tables \X Ids,
         \A t \in Tables, i \in Ids :
           <<t, i>> \in DOMAIN mine'[s] => mine'[s][<<t, i>>] \in Row(t) \cup {None}
  PROVE  TypeOK'
  BY DEF TypeOK, Shape

\* What the writes and the flags of s owe to the rest.
Owed(s) ==
  /\ tx[s] # None /\ tx[s].q.kind = "removeMap" /\ tx[s].todo = <<>> => Orphans(s) = {}
  /\ tx[s] # None /\ tx[s].q.kind = "createRuleSet" /\ tx[s].todo # Steps(tx[s].q) =>
       <<"sets", tx[s].id>> \in DOMAIN mine[s]
  /\ \A i \in Ids : <<"sets", i>> \in DOMAIN mine[s] =>
       /\ mine[s][<<"sets", i>>] # None
       /\ db["sets"][i] # None \/ (tx[s].q.kind = "createRuleSet" /\ i = tx[s].id)
  /\ \A i \in Ids : Raised(s, i) =>
       /\ ~ActiveClash(s, i)
       /\ \A o \in Sessions \ {s}, j \in Ids : ~Raised(o, j)
  /\ IF tx[s] = None THEN DOMAIN mine[s] = {} ELSE InFlight(s) /\ Carried(s)

\* A statement that leaves the tables alone, and pays what it owes, keeps the invariant.
LEMMA Statement ==
  ASSUME IInv, NEW s \in Sessions, TypeOK', UNCHANGED <<db, next>>,
         \A o \in Sessions \ {s} : tx'[o] = tx[o] /\ mine'[o] = mine[o],
         tx'[s] # None => tx[s] # None /\ tx'[s].q = tx[s].q /\ tx'[s].id = tx[s].id,
         \A x \in DOMAIN mine'[s], o \in Sessions \ {s} : x \notin DOMAIN mine[o],
         RemovalNamesItsBoard', Owed(s)'
  PROVE  IInv'
  <1>1. \A o \in Sessions \ {s} :
          /\ InFlight(o) => InFlight(o)'
          /\ Carried(o) => Carried(o)'
          /\ Orphans(o)' = Orphans(o)
          /\ \A i : Raised(o, i)' = Raised(o, i)
          /\ \A i : ActiveClash(o, i)' = ActiveClash(o, i)
    BY OthersKeep
  <1>2. RowsHeldOnce'
    BY DEF IInv, RowsHeldOnce
  <1>3. BoardInv'
    BY <1>1 DEF IInv, BoardInv, Owed, Stored
  <1>4. SetsInv'
    <2>1. \A i \in Ids : next'["sets"] <= i => db'["sets"][i] = None
      BY DEF IInv, SetsInv
    <2>2. \A o \in Sessions : tx'[o] # None =>
            /\ tx[o] # None /\ tx'[o].q = tx[o].q /\ tx'[o].id = tx[o].id
      OBVIOUS
    <2>3. ASSUME NEW o \in Sessions, tx'[o] # None
          PROVE  /\ tx'[o].q.kind = "createRuleSet" =>
                      /\ tx'[o].id < next'["sets"] /\ db'["sets"][tx'[o].id] = None
                      /\ tx'[o].todo # Steps(tx'[o].q) =>
                           <<"sets", tx'[o].id>> \in DOMAIN mine'[o]
                      /\ \A p \in Sessions \ {o} :
                           tx'[p] # None /\ tx'[p].q.kind = "createRuleSet" =>
                             tx'[p].id # tx'[o].id
                 /\ tx'[o].q.kind \in {"updateRuleSet", "activate"} =>
                      db'["sets"][tx'[o].id] # None
      BY <2>2, <2>3 DEF IInv, SetsInv, Owed
    <2>4. ASSUME NEW o \in Sessions, NEW i \in Ids, <<"sets", i>> \in DOMAIN mine'[o]
          PROVE  /\ mine'[o][<<"sets", i>>] # None
                 /\ \/ db'["sets"][i] # None
                    \/ tx'[o].q.kind = "createRuleSet" /\ i = tx'[o].id
      BY <2>4 DEF IInv, SetsInv, Owed
    <2> QED
      BY <2>1, <2>3, <2>4 DEF SetsInv
  <1>5. FlagInv'
    <2>1. ActiveIds' = ActiveIds
      BY DEF ActiveIds, Stored
    <2> QED
      BY <1>1, <2>1 DEF IInv, FlagInv, Owed
  <1>6. \A o \in Sessions : IF tx'[o] = None THEN DOMAIN mine'[o] = {}
                            ELSE InFlight(o)' /\ Carried(o)'
    BY <1>1 DEF IInv, Owed
  <1> QED
    BY <1>2, <1>3, <1>4, <1>5, <1>6 DEF IInv

\* A request that fails leaves nothing: a removal may not fail in the generic way.
LEMMA Failing ==
  ASSUME IInv, NEW s \in Sessions, tx[s] # None,
         NEW how \in {"generic", "named", "dropped"}, Fail(s, how),
         how = "generic" => tx[s].q.kind # "removeMap"
  PROVE  IInv'
  <1>1. TypeOK /\ Shape
    BY DEF IInv, TypeOK, Shape
  <1>2. tx \in [Sessions -> Transaction \cup {None}] /\ tx[s] \in Transaction
    BY <1>1 DEF TypeOK
  <1>3. /\ tx' \in [Sessions -> Transaction \cup {None}]
        /\ tx'[s] = None
        /\ \A o \in Sessions \ {s} : tx'[o] = tx[o]
    BY <1>2 DEF Fail
  <1>4. /\ Shape'
        /\ \A o \in Sessions \ {s} : mine'[o] = mine[o]
        /\ DOMAIN mine'[s] = {}
    BY <1>1, EndEffect DEF Fail
  <1>5. tx[s].q.kind \in Kinds
    BY <1>2, Request DEF Transaction
  <1>6. /\ answer' \in [Sessions -> [kind : Kinds, how : {"ok", "generic", "named", "dropped"}]
                                      \cup {None}]
        /\ \A o \in Sessions \ {s} : answer'[o] = answer[o]
        /\ answer'[s].kind = tx[s].q.kind /\ answer'[s].how = how
    BY <1>1, <1>5 DEF TypeOK, Fail, End
  <1>7. UNCHANGED <<db, next, area, started>>
    BY DEF Fail, End
  <1>8. TypeOK'
    BY <1>1, <1>3, <1>4, <1>6, <1>7, StatementType
  <1>9. RemovalNamesItsBoard'
    BY <1>6 DEF IInv, RemovalNamesItsBoard
  <1>10. Owed(s)'
    BY <1>3, <1>4 DEF Owed, Raised
  <1> QED
    BY <1>3, <1>4, <1>7, <1>8, <1>9, <1>10, Statement
\* A statement that succeeds: it takes its step and may have written.
LEMMA Succeeding ==
  ASSUME IInv, NEW s \in Sessions, tx[s] # None, tx[s].todo # <<>>, Proceed(s),
         UNCHANGED next, Shape', \A o \in Sessions \ {s} : mine'[o] = mine[o],
         DOMAIN mine'[s] \subseteq Tables \X Ids,
         \A t \in Tables, i \in Ids :
           <<t, i>> \in DOMAIN mine'[s] => mine'[s][<<t, i>>] \in Row(t) \cup {None},
         \A x \in DOMAIN mine'[s], o \in Sessions \ {s} : x \notin DOMAIN mine[o],
         Owed(s)'
  PROVE  IInv'
  <1>1. TypeOK
    BY DEF IInv
  <1>2. /\ tx' \in [Sessions -> Transaction \cup {None}]
        /\ \A o \in Sessions \ {s} : tx'[o] = tx[o]
        /\ tx'[s].q = tx[s].q /\ tx'[s].id = tx[s].id
        /\ UNCHANGED <<db, answer, area, started>>
    BY <1>1, ProceedEffect
  <1>3. TypeOK'
    <2>1. answer' \in [Sessions -> [kind : Kinds, how : {"ok", "generic", "named", "dropped"}]
                                    \cup {None}]
      BY <1>1, <1>2 DEF TypeOK
    <2> QED
      BY <1>1, <1>2, <2>1, StatementType
  <1>4. RemovalNamesItsBoard'
    BY <1>2 DEF IInv, RemovalNamesItsBoard
  <1> QED
    BY <1>2, <1>3, <1>4, Statement

\* What a transaction holds is not held by another.
LEMMA Held ==
  ASSUME IInv, NEW s \in Sessions
  PROVE  /\ \A x \in DOMAIN mine[s], o \in Sessions \ {s} : x \notin DOMAIN mine[o]
         /\ DOMAIN mine[s] \subseteq Tables \X Ids
         /\ \A t \in Tables, i \in Ids :
              <<t, i>> \in DOMAIN mine[s] => mine[s][<<t, i>>] \in Row(t) \cup {None}
         /\ Shape
  BY DEF IInv, RowsHeldOnce, TypeOK, Shape

\* The same for one more row, whose lock was free.
LEMMA Writing ==
  ASSUME IInv, NEW s \in Sessions, tx[s] # None, tx[s].todo # <<>>,
         NEW t \in Tables, NEW i \in Ids, NEW row \in Row(t) \cup {None},
         ~HeldByOther(s, t, i), Put(s, t, i, row), Proceed(s), UNCHANGED next, Owed(s)'
  PROVE  IInv'
  <1>1. /\ Shape'
        /\ \A o \in Sessions \ {s} : mine'[o] = mine[o]
        /\ DOMAIN mine'[s] = DOMAIN mine[s] \cup {<<t, i>>}
        /\ mine'[s][<<t, i>>] = row
        /\ \A x \in DOMAIN mine[s] : x # <<t, i>> => mine'[s][x] = mine[s][x]
    BY Held, PutEffect
  <1>2. DOMAIN mine'[s] \subseteq Tables \X Ids
    BY <1>1, Held
  <1>3. ASSUME NEW u \in Tables, NEW j \in Ids, <<u, j>> \in DOMAIN mine'[s]
        PROVE  mine'[s][<<u, j>>] \in Row(u) \cup {None}
    BY <1>1, <1>3, Held
  <1>4. \A x \in DOMAIN mine'[s], o \in Sessions \ {s} : x \notin DOMAIN mine[o]
    BY <1>1, Held DEF HeldByOther
  <1> QED
    BY <1>1, <1>2, <1>3, <1>4, Succeeding

\* A flagged row is written only when no index entry is in its way: then no other
\* transaction is about to flag one.
LEMMA Unrivalled ==
  ASSUME IInv, NEW s \in Sessions, NEW i \in Ids,
         ~HeldByOther(s, "sets", i), ~ActiveUnsettled(s, i)
  PROVE  \A o \in Sessions \ {s}, j \in Ids : ~Raised(o, j)
  <1> SUFFICES ASSUME NEW o \in Sessions \ {s}, NEW j \in Ids, Raised(o, j) PROVE FALSE
    OBVIOUS
  <1>1. <<"sets", j>> \in DOMAIN mine[o] /\ mine[o][<<"sets", j>>].active
    BY DEF Raised
  <1>2. mine[o][<<"sets", j>>] # None
    BY <1>1 DEF IInv, SetsInv
  <1>3. HeldByOther(s, "sets", j)
    BY <1>1 DEF HeldByOther
  <1>4. mine[o][<<"sets", j>>] \in VersionsOf(s, "sets", j)
    BY <1>1, <1>2 DEF VersionsOf
  <1> QED
    BY <1>1, <1>3, <1>4 DEF ActiveUnsettled, Unsettled

\* What is known of the transaction of a request in flight.
LEMMA Running ==
  ASSUME IInv, NEW s \in Sessions, tx[s] # None
  PROVE  /\ TypeOK /\ InFlight(s) /\ Carried(s)
         /\ tx[s] \in Transaction
         /\ tx[s].q \in AllRequests /\ tx[s].q.kind \in Kinds
         /\ TableOf(tx[s].q.kind) \in Tables
         /\ tx[s].id \in Ids /\ tx[s].others \subseteq Ids
         /\ tx[s].todo = Steps(tx[s].q) => DOMAIN mine[s] = {}
  <1>1. tx[s] \in Transaction
    BY DEF IInv, TypeOK
  <1>2. tx[s].q \in AllRequests /\ tx[s].id \in Ids /\ tx[s].others \subseteq Ids
    BY <1>1 DEF Transaction
  <1> QED
    BY <1>1, <1>2, Request DEF IInv, InFlight
-----------------------------------------------------------------------------
(* The statements, one by one.                                             *)

LEMMA SaveKeeps ==
  ASSUME IInv, NEW s \in Sessions, Save(s)
  PROVE  IInv'
  <1> DEFINE q == tx[s].q  t == TableOf(q.kind)  i == tx[s].id  row == SavedRow(q, tx[s].seen)
             gone == ~Creates(q.kind) /\ RowFor(s, t, i) = None
             flag == "active" \in DOMAIN row /\ row.active
             children == "list" \notin DOMAIN row \/ row.list # <<>>
  <1>1. /\ tx[s] # None /\ tx[s].todo # <<>> /\ Head(tx[s].todo) = "write"
        /\ ~Deletes(q.kind) /\ q.kind # "setRoles" /\ q.kind # "removeMap"
        /\ ~HeldByOther(s, t, i)
        /\ ~gone /\ flag => ~ActiveUnsettled(s, i)
    BY DEF Save, Due, Deletes
  <1>2. /\ TypeOK /\ InFlight(s) /\ Carried(s)
        /\ q \in AllRequests /\ q.kind \in Kinds /\ t \in Tables /\ i \in Ids
    BY <1>1, Running
  <1>3. /\ tx[s].todo = Steps(q) /\ q.kind # "activate"
        /\ Tail(tx[s].todo) = IF Activates(q) THEN Flipping ELSE <<>>
        /\ Activates(q) => q.kind = "createRuleSet"
    BY <1>1, <1>2, Step DEF Activates
  <1>4. DOMAIN mine[s] = {}
    BY <1>1, <1>3, Running
  <1>5. row \in Row(t)
    BY <1>1, <1>2, <1>3, Saved DEF InFlight
  <1>6. /\ t = "sets" => /\ DOMAIN row = {"key", "list", "active"}
                         /\ row.active = (q.kind = "updateRuleSet" /\ tx[s].seen.active)
        /\ t = "matches" => /\ DOMAIN row = {"key", "map", "hero", "round"}
                            /\ row = SavedMatch(q, tx[s].seen)
    BY <1>5, Rows DEF SavedRow, SavedRuleSet, CarriedFlag
  <1>7. ASSUME NEW how \in {"generic", "named"}, Fail(s, how)
        PROVE  IInv'
    BY <1>1, <1>7, Failing
  <1>8. ASSUME gone, ~children, Proceed(s), UNCHANGED <<mine, next>>
        PROVE  IInv'
    <2>1. /\ ~Activates(q) /\ t # "matches"
      BY <1>3, <1>6, <1>8 DEF Creates
    <2>2. /\ tx'[s] # None /\ tx'[s].q = q /\ tx'[s].id = i /\ tx'[s].seen = tx[s].seen
          /\ tx'[s].others = tx[s].others /\ tx'[s].raced = tx[s].raced
          /\ tx'[s].todo = <<>> /\ db' = db
      BY <1>1, <1>2, <1>3, <1>8, <2>1, ProceedEffect
    <2>3. InFlight(s)'
      BY <1>2, <1>4, <1>8, <2>2, Lists DEF InFlight
    <2>4. Carried(s)'
      <3>1. ActiveIds' = ActiveIds
        BY <2>2 DEF ActiveIds, Stored
      <3>2. q.kind # "correct"
        BY <1>2, <2>1, Kind
      <3>3. mine'[s] = mine[s]
        BY <1>8
      <3> QED
        BY <1>2, <1>4, <2>1, <2>2, <3>1, <3>2, <3>3, Lists DEF Carried, Raised
    <2>5. Owed(s)'
      <3>1. q.kind # "createRuleSet"
        BY <1>8 DEF Creates
      <3> QED
        BY <1>1, <1>4, <1>8, <2>2, <2>3, <2>4, <3>1 DEF Owed, Raised
    <2>6. Shape'
      BY <1>8, Held DEF Shape
    <2> QED
      BY <1>1, <1>8, <2>5, <2>6, Held, Succeeding
  <1>9. ASSUME ~gone, Put(s, t, i, row), Proceed(s), UNCHANGED next, ~(flag /\ ActiveClash(s, i))
        PROVE  IInv'
    <2>1. /\ tx'[s] # None /\ tx'[s].q = q /\ tx'[s].id = i /\ tx'[s].seen = tx[s].seen
          /\ tx'[s].others = tx[s].others /\ tx'[s].raced = tx[s].raced
          /\ tx'[s].todo = (IF Activates(q) THEN Flipping ELSE <<>>) /\ db' = db
      BY <1>1, <1>2, <1>3, <1>9, ProceedEffect
    <2>2. /\ \A o \in Sessions \ {s} : mine'[o] = mine[o]
          /\ DOMAIN mine'[s] = {<<t, i>>}
          /\ mine'[s][<<t, i>>] = row
      BY <1>4, <1>9, Held, PutEffect
    <2>3. \A j \in Ids : Raised(s, j)' <=> t = "sets" /\ j = i /\ row.active
      BY <2>2 DEF Raised
    <2>4. InFlight(s)'
      <3>1. tx'[s].todo \in {<<>>} \cup IF Activates(q) THEN {Flipping} ELSE {}
        BY <2>1
      <3>2. tx'[s].todo # Steps(q)
        BY <1>3, <2>1, Lists
      <3>3. t = "matches" => \A x \in DOMAIN mine'[s] : mine'[s][x] = SavedMatch(q, tx[s].seen)
        BY <1>6, <2>2
      <3> QED
        BY <1>1, <1>2, <2>1, <2>2, <3>1, <3>2, <3>3 DEF InFlight
    <2>5. Carried(s)'
      <3>1. ActiveIds' = ActiveIds
        BY <2>1 DEF ActiveIds, Stored
      <3>2. tx'[s].todo \notin {<<"flip", "raise">>, <<"raise">>}
        BY <2>1, Lists
      <3>3. q.kind = "updateRuleSet" /\ ~tx[s].raced => (tx[s].seen.active <=> i \in ActiveIds)
        BY <1>2 DEF Carried
      <3>4. tx'[s].todo # <<>> => \A j \in Ids : ~Raised(s, j)'
        BY <1>2, <1>3, <1>6, <2>1, <2>3, Kind
      <3>5. tx'[s].todo = <<>> => ~Activates(q)
        BY <2>1, Lists
      <3>6. <<"sets", i>> \in DOMAIN mine'[s] =>
              (Raised(s, tx[s].id)' <=> q.kind = "updateRuleSet" /\ tx[s].seen.active)
        <4>1. Raised(s, tx[s].id)' <=> (t = "sets" /\ row.active)
          BY <1>2, <2>1, <2>3
        <4> QED
          BY <1>6, <2>1, <2>2, <4>1
      <3>7. q.kind = "correct" => <<"matches", i>> \in DOMAIN mine'[s]
        BY <1>2, <2>2, Kind
      <3> QED
        BY <2>1, <3>1, <3>2, <3>3, <3>4, <3>5, <3>6, <3>7 DEF Carried
    <2>6. Owed(s)'
      <3>1. q.kind = "createRuleSet" => <<"sets", i>> \in DOMAIN mine'[s]
        BY <1>2, <2>2, Kind
      <3>2. ASSUME NEW j \in Ids, <<"sets", j>> \in DOMAIN mine'[s]
            PROVE  /\ mine'[s][<<"sets", j>>] # None
                   /\ db["sets"][j] # None \/ (q.kind = "createRuleSet" /\ j = i)
        <4>1. t = "sets" /\ j = i
          BY <2>2, <3>2
        <4>2. row # None
          BY <1>2, <1>5, Rows
        <4>3. Creates(q.kind) \/ db["sets"][i] # None
          BY <1>4, <1>9, <4>1 DEF RowFor
        <4> QED
          BY <1>2, <2>2, <4>1, <4>2, <4>3, Kind DEF Creates
      <3>3. ASSUME NEW j \in Ids, Raised(s, j)'
            PROVE  /\ ~ActiveClash(s, j)'
                   /\ \A o \in Sessions \ {s}, k \in Ids : ~Raised(o, k)'
        <4>1. t = "sets" /\ j = i /\ flag
          BY <1>6, <2>3, <3>3
        <4>2. \A k \in Ids \ {j} : RowFor(s, "sets", k)' = RowFor(s, "sets", k)
          BY <1>4, <2>1, <2>2, <4>1 DEF RowFor
        <4>3. ~ActiveClash(s, j)'
          BY <1>9, <4>1, <4>2 DEF ActiveClash
        <4>4. \A o \in Sessions \ {s}, k \in Ids : ~Raised(o, k)
          BY <1>1, <1>2, <1>9, <4>1, Unrivalled
        <4>5. \A o \in Sessions \ {s}, k \in Ids : Raised(o, k)' = Raised(o, k)
          BY <2>2 DEF Raised
        <4> QED
          BY <4>1, <4>3, <4>4, <4>5
      <3> QED
        BY <1>1, <2>1, <2>4, <2>5, <3>1, <3>2, <3>3 DEF Owed
    <2> QED
      BY <1>1, <1>2, <1>5, <1>9, <2>6, Writing
  <1>10. \/ \E how \in {"generic", "named"} : Fail(s, how)
         \/ gone /\ ~children /\ Proceed(s) /\ UNCHANGED <<mine, next>>
         \/ /\ ~gone /\ ~(flag /\ ActiveClash(s, i))
            /\ Put(s, t, i, row) /\ Proceed(s) /\ UNCHANGED next
    BY DEF Save
  <1> QED
    BY <1>7, <1>8, <1>9, <1>10
\* A request that does not touch the rule sets owes nothing of them.
LEMMA Apart ==
  ASSUME NEW s \in Sessions, tx'[s] # None, InFlight(s)', tx'[s].q.kind \in Kinds,
         TableOf(tx'[s].q.kind) # "sets", tx'[s].q.kind # "correct",
         tx'[s].todo \notin {<<"flip", "raise">>, <<"raise">>},
         tx'[s].q.kind = "removeMap" /\ tx'[s].todo = <<>> => Orphans(s)' = {}
  PROVE  Owed(s)'
  <1>1. /\ tx'[s].q.kind \notin {"createRuleSet", "updateRuleSet", "activate"}
        /\ ~Activates(tx'[s].q)
    BY Kind DEF Activates
  <1>2. \A i : <<"sets", i>> \notin DOMAIN mine'[s]
    BY DEF InFlight
  <1>3. \A i : ~Raised(s, i)'
    BY <1>2 DEF Raised
  <1>4. Carried(s)'
    BY <1>1, <1>2, <1>3 DEF Carried
  <1> QED
    BY <1>1, <1>2, <1>3, <1>4 DEF Owed

LEMMA SetRolesKeeps ==
  ASSUME IInv, NEW s \in Sessions, SetRoles(s)
  PROVE  IInv'
  <1> DEFINE q == tx[s].q  i == tx[s].id  row == SavedRow(q, None)
  <1>1. /\ tx[s] # None /\ tx[s].todo # <<>> /\ Head(tx[s].todo) = "write"
        /\ q.kind = "setRoles" /\ ~HeldByOther(s, "given", i)
    BY DEF SetRoles, Due
  <1>2. /\ TypeOK /\ InFlight(s) /\ q \in AllRequests /\ q.kind \in Kinds /\ i \in Ids
    BY <1>1, Running
  <1>3. /\ tx[s].todo = Steps(q) /\ Tail(tx[s].todo) = <<>> /\ DOMAIN mine[s] = {}
        /\ TableOf(q.kind) = "given"
    BY <1>1, <1>2, Running, Step, Kind DEF Activates
  <1>4. row \in Row("given") /\ "given" \in Tables
    BY <1>1, <1>2, <1>3, Saved DEF Deletes, Tables
  <1>5. CASE Fail(s, "generic")
    BY <1>1, <1>5, Failing
  <1>6. ASSUME Put(s, "given", i, row), Proceed(s), UNCHANGED next
        PROVE  IInv'
    <2>1. /\ tx'[s] # None /\ tx'[s].q = q /\ tx'[s].id = i /\ tx'[s].todo = <<>>
      BY <1>1, <1>2, <1>3, <1>6, ProceedEffect
    <2>2. DOMAIN mine'[s] = {<<"given", i>>}
      <3>1. Shape
        BY Held
      <3>2. PICK k : k = i
        OBVIOUS
      <3>3. Put(s, "given", k, row)
        BY <1>6, <3>2
      <3>4. DOMAIN mine'[s] = DOMAIN mine[s] \cup {<<"given", k>>}
        BY <3>1, <3>3, PutEffect
      <3> QED
        BY <1>3, <3>2, <3>4
    <2>3. InFlight(s)'
      <3>1. tx'[s].todo # Steps(q)
        BY <2>1, Lists
      <3>2. \A x \in DOMAIN mine'[s] : x[1] = "given" /\ x[2] = i
        BY <2>2
      <3> QED
        BY <1>1, <1>2, <1>3, <2>1, <3>1, <3>2 DEF InFlight
    <2>4. Owed(s)'
      BY <1>1, <1>2, <1>3, <2>1, <2>3, Apart, Lists
    <2> QED
      BY <1>1, <1>2, <1>4, <1>6, <2>4, Writing
  <1> QED
    BY <1>5, <1>6 DEF SetRoles

LEMMA DeleteKeeps ==
  ASSUME IInv, NEW s \in Sessions, Delete(s)
  PROVE  IInv'
  <1> DEFINE q == tx[s].q  t == TableOf(q.kind)  i == tx[s].id
  <1>1. /\ tx[s] # None /\ tx[s].todo # <<>> /\ Head(tx[s].todo) = "write"
        /\ q.kind \in {"deleteRole", "removeMap", "delete"} /\ ~HeldByOther(s, t, i)
    BY DEF Delete, Due, Deletes
  <1>2. /\ TypeOK /\ InFlight(s) /\ q \in AllRequests /\ q.kind \in Kinds /\ i \in Ids
        /\ t \in Tables
    BY <1>1, Running
  <1>3. /\ tx[s].todo = Steps(q) /\ DOMAIN mine[s] = {} /\ ~Activates(q)
        /\ Tail(tx[s].todo) = IF q.kind = "removeMap" THEN <<"recheck">> ELSE <<>>
    BY <1>1, <1>2, Running, Step DEF Activates
  <1>4. /\ t # "sets"
        /\ t = "mapPool" <=> q.kind = "removeMap"
        /\ t = "roles" <=> q.kind = "deleteRole"
    BY <1>1, <1>2, Kind
  <1>5. ASSUME NEW how \in {"generic", "named"}, Fail(s, how), how = "generic" => t = "roles"
        PROVE  IInv'
    BY <1>1, <1>4, <1>5, Failing
  <1>6. ASSUME Proceed(s)
        PROVE  /\ tx'[s] # None /\ tx'[s].q = q /\ tx'[s].id = i
               /\ tx'[s].todo = IF q.kind = "removeMap" THEN <<"recheck">> ELSE <<>>
    BY <1>1, <1>2, <1>3, <1>6, ProceedEffect
  <1>7. ASSUME Proceed(s), \/ DOMAIN mine'[s] = {}
                           \/ DOMAIN mine'[s] = {<<t, i>>} /\ mine'[s][<<t, i>>] = None
        PROVE  Owed(s)'
    <2>1. tx'[s].todo # Steps(q) /\ tx'[s].todo \notin {<<"flip", "raise">>, <<"raise">>}
      BY <1>6, <1>7, Lists
    <2>2. InFlight(s)'
      <3>1. tx'[s].todo \in {<<>>} \cup IF q.kind = "removeMap" THEN {<<"recheck">>} ELSE {}
        BY <1>6, <1>7
      <3>2. \A x \in DOMAIN mine'[s] : x[1] = t /\ x[2] = i /\ mine'[s][x] = None
        BY <1>7
      <3>3. Deletes(q.kind)
        BY <1>1 DEF Deletes
      <3> QED
        BY <1>1, <1>2, <1>3, <1>6, <1>7, <2>1, <3>1, <3>2, <3>3 DEF InFlight
    <2> QED
      BY <1>1, <1>2, <1>4, <1>6, <1>7, <2>1, <2>2, Apart, Lists
  <1>8. ASSUME Proceed(s), UNCHANGED <<mine, next>>
        PROVE  IInv'
    <2>1. Owed(s)'
      BY <1>3, <1>7, <1>8
    <2>2. Shape'
      BY <1>8, Held DEF Shape
    <2> QED
      BY <1>1, <1>8, <2>1, <2>2, Held, Succeeding
  <1>9. ASSUME Put(s, t, i, None), Proceed(s), UNCHANGED next
        PROVE  IInv'
    <2>1. DOMAIN mine'[s] = {<<t, i>>} /\ mine'[s][<<t, i>>] = None
      BY <1>3, <1>9, Held, PutEffect
    <2>2. Owed(s)'
      BY <1>7, <1>9, <2>1
    <2> QED
      BY <1>1, <1>2, <1>9, <2>2, Writing
  <1>10. \/ t = "roles" /\ Fail(s, "generic")
         \/ Fail(s, "named")
         \/ Proceed(s) /\ UNCHANGED <<mine, next>>
         \/ Put(s, t, i, None) /\ Proceed(s) /\ UNCHANGED next
    BY DEF Delete
  <1> QED
    BY <1>5, <1>8, <1>9, <1>10

LEMMA RecheckKeeps ==
  ASSUME IInv, NEW s \in Sessions, Recheck(s)
  PROVE  IInv'
  <1> DEFINE q == tx[s].q
  <1>1. tx[s] # None /\ tx[s].todo # <<>> /\ Head(tx[s].todo) = "recheck"
    BY DEF Recheck, Due
  <1>2. /\ TypeOK /\ InFlight(s) /\ q \in AllRequests /\ q.kind \in Kinds
    BY <1>1, Running
  <1>3. /\ q.kind = "removeMap" /\ Tail(tx[s].todo) = <<>> /\ TableOf(q.kind) = "mapPool"
    BY <1>1, <1>2, Step, Kind
  <1>4. CASE Fail(s, "named")
    BY <1>1, <1>4, Failing
  <1>5. ASSUME Orphans(s) = {}, Proceed(s), UNCHANGED <<mine, next>>
        PROVE  IInv'
    <2>1. /\ tx'[s] # None /\ tx'[s].q = q /\ tx'[s].id = tx[s].id /\ tx'[s].todo = <<>>
          /\ db' = db
      BY <1>1, <1>2, <1>3, <1>5, ProceedEffect
    <2>2. Orphans(s)' = {}
      <3>1. \A t, i : RowFor(s, t, i)' = RowFor(s, t, i)
        BY <1>5, <2>1 DEF RowFor
      <3> QED
        BY <1>5, <3>1 DEF Orphans
    <2>3. InFlight(s)'
      BY <1>2, <1>3, <1>5, <2>1, Lists DEF InFlight, Deletes
    <2>4. Owed(s)'
      BY <1>2, <1>3, <2>1, <2>2, <2>3, Apart, Lists
    <2>5. Shape'
      BY <1>5, Held DEF Shape
    <2> QED
      BY <1>1, <1>5, <2>4, <2>5, Held, Succeeding
  <1> QED
    BY <1>4, <1>5 DEF Recheck
\* While an activation is under way it has flagged no row, its target is a row it can see,
\* and what it has written of the rule sets are rows.
LEMMA Activating ==
  ASSUME IInv, NEW s \in Sessions, tx[s] # None, Activates(tx[s].q), tx[s].todo # <<>>,
         tx[s].todo # Steps(tx[s].q) \/ tx[s].q.kind = "activate"
  PROVE  /\ tx[s].q.kind \in {"createRuleSet", "activate"} /\ TableOf(tx[s].q.kind) = "sets"
         /\ RowFor(s, "sets", tx[s].id) \in Row("sets")
         /\ tx[s].q.kind = "createRuleSet" => <<"sets", tx[s].id>> \in DOMAIN mine[s]
         /\ tx[s].q.kind = "activate" => db["sets"][tx[s].id] # None
         /\ \A j \in Ids : ~Raised(s, j)
         /\ \A j \in Ids : <<"sets", j>> \in DOMAIN mine[s] =>
              /\ mine[s][<<"sets", j>>] \in Row("sets") /\ mine[s][<<"sets", j>>] # None
              /\ db["sets"][j] # None \/ (tx[s].q.kind = "createRuleSet" /\ j = tx[s].id)
  <1>1. /\ tx[s].q.kind \in {"createRuleSet", "activate"}
        /\ TableOf(tx[s].q.kind) = "sets" /\ tx[s].id \in Ids /\ "sets" \in Tables
    BY Running, Kind DEF Activates, Tables
  <1>2. /\ tx[s].q.kind = "createRuleSet" => <<"sets", tx[s].id>> \in DOMAIN mine[s]
        /\ tx[s].q.kind = "activate" => db["sets"][tx[s].id] # None
    BY DEF IInv, SetsInv
  <1>3. \A j \in Ids : ~Raised(s, j)
    BY Running DEF Carried
  <1>4. ASSUME NEW j \in Ids, <<"sets", j>> \in DOMAIN mine[s]
        PROVE  /\ mine[s][<<"sets", j>>] \in Row("sets") /\ mine[s][<<"sets", j>>] # None
               /\ db["sets"][j] # None \/ (tx[s].q.kind = "createRuleSet" /\ j = tx[s].id)
    BY <1>1, <1>4, Held DEF IInv, SetsInv
  <1>5. db["sets"][tx[s].id] \in Row("sets") \cup {None}
    BY <1>1 DEF IInv, TypeOK
  <1>6. RowFor(s, "sets", tx[s].id) \in Row("sets")
    BY <1>1, <1>2, <1>4, <1>5 DEF RowFor
  <1> QED
    BY <1>1, <1>2, <1>3, <1>4, <1>6

LEMMA DeactivateKeeps ==
  ASSUME IInv, NEW s \in Sessions, Deactivate(s)
  PROVE  IInv'
  <1> DEFINE q == tx[s].q  i == tx[s].id
             new == [tx[s] EXCEPT !.todo = Tail(tx[s].todo), !.others = ActiveIds \ {i}]
  <1>1. tx[s] # None /\ tx[s].todo # <<>> /\ Head(tx[s].todo) = "deactivate"
    BY DEF Deactivate, Due
  <1>2. /\ TypeOK /\ InFlight(s) /\ Carried(s) /\ tx[s] \in Transaction
        /\ tx \in [Sessions -> Transaction \cup {None}]
    BY <1>1, Running DEF TypeOK
  <1>3. Activates(q) /\ tx[s].todo = Flipping /\ Tail(tx[s].todo) = <<"flip", "raise">>
    BY <1>1, <1>2, Step
  <1>4. tx[s].todo # Steps(q) \/ q.kind = "activate"
    BY <1>3, Lists
  <1>5. ActiveIds \ {i} \subseteq Ids
    BY DEF ActiveIds, Stored
  <1>6. Tail(tx[s].todo) \in Seq({"write", "recheck", "deactivate", "flip", "raise"})
    BY <1>1, <1>2 DEF Transaction
  <1>7. /\ new \in Transaction /\ new.q = q /\ new.id = i /\ new.seen = tx[s].seen
        /\ new.todo = Tail(tx[s].todo) /\ new.others = ActiveIds \ {i}
        /\ new.raced = tx[s].raced
    BY <1>2, <1>5, <1>6 DEF Transaction
  <1>8. tx' = [tx EXCEPT ![s] = new]
    BY <1>2 DEF Deactivate
  <1> HIDE DEF new
  <1>9. /\ tx' \in [Sessions -> Transaction \cup {None}]
        /\ \A o \in Sessions \ {s} : tx'[o] = tx[o]
        /\ tx'[s] # None /\ tx'[s].q = q /\ tx'[s].id = i /\ tx'[s].seen = tx[s].seen
        /\ tx'[s].todo = <<"flip", "raise">> /\ tx'[s].others = ActiveIds \ {i}
        /\ tx'[s].raced = tx[s].raced
    BY <1>2, <1>3, <1>7, <1>8, NoneAssumption
  <1>10. UNCHANGED <<db, next, mine, answer, area, started>>
    BY DEF Deactivate
  <1>11. TypeOK'
    <2>1. Shape' /\ answer' \in [Sessions -> [kind : Kinds,
                                   how : {"ok", "generic", "named", "dropped"}] \cup {None}]
      BY <1>2, <1>10 DEF TypeOK, Shape
    <2> QED
      BY <1>2, <1>9, <1>10, <2>1, Held, StatementType
  <1>12. ActiveIds' = ActiveIds
    BY <1>10 DEF ActiveIds, Stored
  <1>13. \A j \in Ids : ~Raised(s, j)'
    BY <1>1, <1>3, <1>4, <1>10, Activating DEF Raised
  <1>14. InFlight(s)'
    BY <1>1, <1>2, <1>3, <1>9, <1>10, Lists DEF InFlight
  <1>15. Carried(s)'
    BY <1>2, <1>9, <1>10, <1>12, <1>13, Lists DEF Carried
  <1>16. Owed(s)'
    BY <1>1, <1>3, <1>4, <1>9, <1>10, <1>13, <1>14, <1>15, Lists, Activating DEF Owed
  <1>17. RemovalNamesItsBoard'
    BY <1>10 DEF IInv, RemovalNamesItsBoard
  <1> QED
    BY <1>1, <1>9, <1>10, <1>11, <1>16, <1>17, Held, Statement

LEMMA FlipEffect ==
  ASSUME NEW s \in Sessions, Shape, NEW lowered, Lower(s, lowered)
  PROVE  /\ Shape'
         /\ \A o \in Sessions \ {s} : mine'[o] = mine[o]
         /\ DOMAIN mine'[s] = DOMAIN mine[s] \cup ({"sets"} \X lowered)
         /\ \A j \in lowered : mine'[s][<<"sets", j>>] = [db["sets"][j] EXCEPT !.active = FALSE]
         /\ \A x \in DOMAIN mine[s] : x \notin {"sets"} \X lowered => mine'[s][x] = mine[s][x]
  <1> DEFINE new == [x \in ({"sets"} \X lowered) \cup DOMAIN mine[s] |->
                       IF x \in {"sets"} \X lowered
                       THEN [db["sets"][x[2]] EXCEPT !.active = FALSE]
                       ELSE mine[s][x]]
  <1>1. mine' = [mine EXCEPT ![s] = new]
    BY DEF Lower
  <1>2. /\ new = [x \in DOMAIN new |-> new[x]]
        /\ DOMAIN new = DOMAIN mine[s] \cup ({"sets"} \X lowered)
        /\ \A x \in DOMAIN mine[s] : x \notin {"sets"} \X lowered => new[x] = mine[s][x]
    OBVIOUS
  <1>3. ASSUME NEW j \in lowered
        PROVE  new[<<"sets", j>>] = [db["sets"][j] EXCEPT !.active = FALSE]
    <2>1. <<"sets", j>> \in {"sets"} \X lowered /\ <<"sets", j>>[2] = j
      OBVIOUS
    <2> QED
      BY <2>1
  <1> HIDE DEF new
  <1>4. DOMAIN mine = Sessions
    BY DEF Shape
  <1>5. mine' = [o \in Sessions |-> IF o = s THEN new ELSE mine[o]]
    BY <1>1, <1>4
  <1>6. \A o \in Sessions : mine[o] = [x \in DOMAIN mine[o] |-> mine[o][x]]
    BY DEF Shape
  <1>7. Shape'
    <2>1. \A o \in Sessions : mine'[o] = [x \in DOMAIN mine'[o] |-> mine'[o][x]]
      <3> TAKE o \in Sessions
      <3>1. CASE o = s
        BY <1>2, <1>5, <3>1, Zenon
      <3>2. CASE o # s
        BY <1>5, <1>6, <3>2, Zenon
      <3> QED
        BY <3>1, <3>2
    <2>2. mine' = [o \in Sessions |-> mine'[o]]
      BY <1>5
    <2> QED
      BY <2>1, <2>2 DEF Shape
  <1> QED
    BY <1>2, <1>3, <1>5, <1>7
LEMMA FlipKeeps ==
  ASSUME IInv, NEW s \in Sessions, Flip(s)
  PROVE  IInv'
  <1> DEFINE q == tx[s].q  i == tx[s].id  lowered == tx[s].others \cap ActiveIds
  <1>1. /\ tx[s] # None /\ tx[s].todo # <<>> /\ Head(tx[s].todo) = "flip"
        /\ \A j \in tx[s].others : ~HeldByOther(s, "sets", j)
        /\ Proceed(s) /\ UNCHANGED next
    BY DEF Flip, Due
  <1>2. /\ TypeOK /\ InFlight(s) /\ Carried(s) /\ tx[s].others \subseteq Ids
    BY <1>1, Running
  <1>3. Activates(q) /\ tx[s].todo = <<"flip", "raise">> /\ Tail(tx[s].todo) = <<"raise">>
    BY <1>1, <1>2, Step
  <1>4. tx[s].todo # Steps(q)
    BY <1>3, Lists
  <1>5. /\ q.kind \in {"createRuleSet", "activate"} /\ TableOf(q.kind) = "sets"
        /\ q.kind = "createRuleSet" => <<"sets", i>> \in DOMAIN mine[s]
        /\ \A j \in Ids : ~Raised(s, j)
        /\ \A j \in Ids : <<"sets", j>> \in DOMAIN mine[s] =>
             /\ mine[s][<<"sets", j>>] \in Row("sets") /\ mine[s][<<"sets", j>>] # None
             /\ db["sets"][j] # None \/ (q.kind = "createRuleSet" /\ j = i)
    BY <1>1, <1>3, <1>4, Activating
  <1>6. /\ tx'[s] # None /\ tx'[s].q = q /\ tx'[s].id = i /\ tx'[s].seen = tx[s].seen
        /\ tx'[s].others = tx[s].others /\ tx'[s].raced = tx[s].raced
        /\ tx'[s].todo = <<"raise">> /\ db' = db
    BY <1>1, <1>2, <1>3, ProceedEffect
  <1>7. /\ Shape'
        /\ \A o \in Sessions \ {s} : mine'[o] = mine[o]
        /\ DOMAIN mine'[s] = DOMAIN mine[s] \cup ({"sets"} \X lowered)
        /\ \A j \in lowered : mine'[s][<<"sets", j>>] = [db["sets"][j] EXCEPT !.active = FALSE]
        /\ \A x \in DOMAIN mine[s] : x \notin {"sets"} \X lowered => mine'[s][x] = mine[s][x]
    <2>1. Lower(s, lowered)
      BY DEF Flip
    <2> HIDE DEF lowered
    <2> QED
      BY <2>1, Held, FlipEffect
  <1>8. ActiveIds \subseteq Ids /\ ActiveIds' = ActiveIds
    BY <1>6 DEF ActiveIds, Stored
  <1>9. \A j \in ActiveIds : db["sets"][j] \in Row("sets") /\ db["sets"][j] # None
    BY <1>2 DEF ActiveIds, Stored, TypeOK, Tables
  <1>10. \A j \in lowered : /\ mine'[s][<<"sets", j>>] \in Row("sets")
                            /\ mine'[s][<<"sets", j>>].active = FALSE
    <2> SUFFICES ASSUME NEW j \in lowered
                 PROVE  /\ mine'[s][<<"sets", j>>] \in Row("sets")
                        /\ mine'[s][<<"sets", j>>].active = FALSE
      OBVIOUS
    <2>1. PICK row \in Row("sets") : row = db["sets"][j]
      BY <1>9
    <2>2. mine'[s][<<"sets", j>>] = [row EXCEPT !.active = FALSE]
      BY <1>7, <2>1
    <2>3. row \in [key : Names, list : Seq(Metrics), active : BOOLEAN]
      BY DEF Row
    <2>4. [row EXCEPT !.active = FALSE] \in [key : Names, list : Seq(Metrics), active : BOOLEAN]
      BY <2>3
    <2>5. [row EXCEPT !.active = FALSE].active = FALSE
      BY <2>3
    <2> QED
      BY <2>2, <2>4, <2>5 DEF Row
  <1>11. ASSUME NEW j \in Ids, <<"sets", j>> \in DOMAIN mine'[s]
         PROVE  /\ mine'[s][<<"sets", j>>] \in Row("sets") /\ mine'[s][<<"sets", j>>] # None
                /\ db["sets"][j] # None \/ (q.kind = "createRuleSet" /\ j = i)
                /\ ~mine'[s][<<"sets", j>>].active
    <2>1. None \notin Row("sets")
      BY NoneAssumption DEF Tables
    <2>2. CASE j \in lowered
      BY <1>9, <1>10, <2>1, <2>2
    <2>3. CASE j \notin lowered
      <3>1. /\ <<"sets", j>> \in DOMAIN mine[s] /\ <<"sets", j>> \notin {"sets"} \X lowered
        BY <1>7, <1>11, <2>3
      <3>2. mine'[s][<<"sets", j>>] = mine[s][<<"sets", j>>]
        BY <1>7, <3>1
      <3> QED
        BY <1>5, <3>1, <3>2 DEF Raised
    <2> QED
      BY <2>2, <2>3
  <1>12. DOMAIN mine'[s] \subseteq {"sets"} \X Ids
    <2>1. \A x \in DOMAIN mine[s] : x \in Tables \X Ids /\ x[1] = "sets"
      BY <1>2, <1>5, Held DEF InFlight
    <2> QED
      BY <1>7, <1>8, <2>1
  <1>13. ASSUME NEW t \in Tables, NEW j \in Ids, <<t, j>> \in DOMAIN mine'[s]
         PROVE  mine'[s][<<t, j>>] \in Row(t) \cup {None}
    BY <1>11, <1>12, <1>13
  <1>14. \A x \in DOMAIN mine'[s], o \in Sessions \ {s} : x \notin DOMAIN mine[o]
    BY <1>1, <1>7, Held DEF HeldByOther
  <1>15. \A j \in Ids : ~Raised(s, j)'
    BY <1>11 DEF Raised
  <1>16. InFlight(s)'
    <2>1. \A x \in DOMAIN mine'[s] : x[1] = "sets"
      BY <1>12
    <2>2. tx'[s].todo # Steps(q)
      BY <1>6, Lists
    <2>3. TableOf(q.kind) # "matches" /\ q.kind # "correct"
      BY <1>5
    <2> QED
      BY <1>2, <1>3, <1>5, <1>6, <2>1, <2>2, <2>3 DEF InFlight
  <1>17. Carried(s)'
    <2>1. ~tx[s].raced => \A j \in tx[s].others : <<"sets", j>> \in DOMAIN mine'[s]
      <3> SUFFICES ASSUME ~tx[s].raced, NEW j \in tx[s].others
                   PROVE  <<"sets", j>> \in DOMAIN mine'[s]
        OBVIOUS
      <3>1. tx[s].others = ActiveIds \ {i}
        BY <1>2, <1>3 DEF Carried
      <3> QED
        BY <1>7, <3>1
    <2> QED
      BY <1>2, <1>3, <1>5, <1>6, <1>8, <1>15, <2>1, Lists DEF Carried
  <1>18. Owed(s)'
    <2>1. q.kind = "createRuleSet" => <<"sets", i>> \in DOMAIN mine'[s]
      BY <1>5, <1>7
    <2> QED
      BY <1>5, <1>6, <1>11, <1>15, <1>16, <1>17, <2>1 DEF Owed
  <1>19. DOMAIN mine'[s] \subseteq Tables \X Ids
    BY <1>12 DEF Tables
  <1> QED
    BY <1>1, <1>7, <1>13, <1>14, <1>18, <1>19, Succeeding

LEMMA RaiseKeeps ==
  ASSUME IInv, NEW s \in Sessions, Raise(s)
  PROVE  IInv'
  <1> DEFINE q == tx[s].q
  <1>1. PICK i \in Ids : i = tx[s].id
    BY Running DEF Raise, Due
  <1>2. PICK row : row = [RowFor(s, "sets", i) EXCEPT !.active = TRUE]
    OBVIOUS
  <1>3. /\ tx[s] # None /\ tx[s].todo # <<>> /\ Head(tx[s].todo) = "raise"
        /\ ~HeldByOther(s, "sets", i) /\ ~ActiveUnsettled(s, i)
    BY <1>1 DEF Raise, Due
  <1>4. TypeOK /\ InFlight(s) /\ Carried(s) /\ q.kind \in Kinds
    BY <1>3, Running
  <1>5. Activates(q) /\ tx[s].todo = <<"raise">> /\ Tail(tx[s].todo) = <<>>
    BY <1>3, <1>4, Step
  <1>6. tx[s].todo # Steps(q)
    BY <1>5, Lists
  <1>7. /\ q.kind \in {"createRuleSet", "activate"} /\ TableOf(q.kind) = "sets"
        /\ RowFor(s, "sets", i) \in Row("sets")
        /\ q.kind = "activate" => db["sets"][i] # None
        /\ \A j \in Ids : ~Raised(s, j)
        /\ \A j \in Ids : <<"sets", j>> \in DOMAIN mine[s] =>
             /\ mine[s][<<"sets", j>>] # None
             /\ db["sets"][j] # None \/ (q.kind = "createRuleSet" /\ j = i)
    BY <1>1, <1>3, <1>5, <1>6, Activating
  <1>8. row \in Row("sets") /\ row.active = TRUE /\ row # None /\ "sets" \in Tables
    <2>1. PICK old \in Row("sets") : old = RowFor(s, "sets", i)
      BY <1>7
    <2>2. row = [old EXCEPT !.active = TRUE]
      BY <1>2, <2>1
    <2>3. old \in [key : Names, list : Seq(Metrics), active : BOOLEAN]
      BY DEF Row
    <2>4. [old EXCEPT !.active = TRUE] \in [key : Names, list : Seq(Metrics), active : BOOLEAN]
      BY <2>3
    <2>5. [old EXCEPT !.active = TRUE].active = TRUE
      BY <2>3
    <2>6. row \in Row("sets") /\ row.active = TRUE /\ "sets" \in Tables
      BY <2>2, <2>4, <2>5 DEF Row, Tables
    <2> QED
      BY <2>6, NoneAssumption
  <1>9. CASE Fail(s, "generic")
    BY <1>3, <1>7, <1>9, Failing
  <1>10. ASSUME ~ActiveClash(s, i), Put(s, "sets", i, row), Proceed(s), UNCHANGED next
         PROVE  IInv'
    <2>1. /\ tx'[s] # None /\ tx'[s].q = q /\ tx'[s].id = i /\ tx'[s].seen = tx[s].seen
          /\ tx'[s].others = tx[s].others /\ tx'[s].raced = tx[s].raced
          /\ tx'[s].todo = <<>> /\ db' = db
      BY <1>1, <1>3, <1>4, <1>5, <1>10, ProceedEffect
    <2>2. /\ \A o \in Sessions \ {s} : mine'[o] = mine[o]
          /\ DOMAIN mine'[s] = DOMAIN mine[s] \cup {<<"sets", i>>}
          /\ mine'[s][<<"sets", i>>] = row
          /\ \A x \in DOMAIN mine[s] : x # <<"sets", i>> => mine'[s][x] = mine[s][x]
      BY <1>10, Held, PutEffect
    <2>3. \A j \in Ids : Raised(s, j)' <=> j = i
      BY <1>7, <1>8, <2>2 DEF Raised
    <2>4. InFlight(s)'
      <3>1. \A x \in DOMAIN mine'[s] : x[1] = "sets"
        BY <1>4, <1>7, <2>2 DEF InFlight
      <3>2. tx'[s].todo # Steps(q)
        BY <2>1, Lists
      <3> QED
        BY <1>1, <1>4, <1>5, <1>7, <2>1, <3>1, <3>2 DEF InFlight
    <2>5. Carried(s)'
      <3>1. ActiveIds' = ActiveIds
        BY <2>1 DEF ActiveIds, Stored
      <3>2. Raised(s, tx[s].id)'
        BY <1>1, <2>1, <2>3
      <3> QED
        BY <1>5, <1>7, <2>1, <3>1, <3>2, Lists DEF Carried
    <2>6. ASSUME NEW j \in Ids, <<"sets", j>> \in DOMAIN mine'[s]
          PROVE  /\ mine'[s][<<"sets", j>>] # None
                 /\ db["sets"][j] # None \/ (q.kind = "createRuleSet" /\ j = i)
      <3>1. CASE j = i
        BY <1>7, <1>8, <2>2, <3>1
      <3>2. CASE j # i
        BY <1>7, <2>2, <2>6, <3>2
      <3> QED
        BY <3>1, <3>2
    <2>7. ~ActiveClash(s, i)'
      <3>1. \A j \in Ids \ {i} : RowFor(s, "sets", j)' = RowFor(s, "sets", j)
        BY <2>1, <2>2 DEF RowFor
      <3> QED
        BY <1>10, <3>1 DEF ActiveClash
    <2>8. \A o \in Sessions \ {s}, j \in Ids : ~Raised(o, j)'
      BY <1>1, <1>3, <2>2, Unrivalled DEF Raised
    <2>9. Owed(s)'
      BY <1>7, <2>1, <2>2, <2>3, <2>4, <2>5, <2>6, <2>7, <2>8 DEF Owed
    <2> QED
      BY <1>3, <1>8, <1>10, <2>9, Writing
  <1> QED
    BY <1>1, <1>2, <1>9, <1>10 DEF Raise
LEMMA StartKeeps ==
  ASSUME IInv, NEW s \in Sessions, NEW q \in AllRequests, Start(s, q)
  PROVE  IInv'
  <1> DEFINE t == TableOf(q.kind)
             new == [q      |-> q,
                     id     |-> IF Creates(q.kind) THEN next[t] ELSE q.id,
                     seen   |-> IF Creates(q.kind) THEN None ELSE db[t][q.id],
                     todo   |-> Steps(q),
                     others |-> {},
                     raced  |-> FALSE]
  <1>1. /\ tx[s] = None /\ ~Refused(q)
        /\ Creates(q.kind) => next[t] \in Ids
        /\ tx' = [tx EXCEPT ![s] = new]
        /\ next' = IF Creates(q.kind) THEN [next EXCEPT ![t] = @ + 1] ELSE next
        /\ answer' = [answer EXCEPT ![s] = None]
        /\ started' = started + 1 /\ UNCHANGED <<db, mine, area>>
    BY DEF Start
  <1>2. /\ TypeOK /\ q.kind \in Kinds /\ t \in Tables
        /\ ~Creates(q.kind) => q.id \in Ids
    BY Request DEF IInv
  <1>3. /\ tx \in [Sessions -> Transaction \cup {None}]
        /\ next \in [Tables -> Nat]
        /\ db \in [Tables -> [Ids -> AnyRow \cup {None}]]
        /\ \A u \in Tables, i \in Ids : db[u][i] \in Row(u) \cup {None}
    BY <1>2 DEF TypeOK
  <1>4. Steps(q) \in Seq({"write", "recheck", "deactivate", "flip", "raise"})
    <2> DEFINE Statements == {"write", "recheck", "deactivate", "flip", "raise"}
    <2>1. /\ <<"deactivate", "flip", "raise">> \in Seq(Statements)
          /\ <<"write", "deactivate", "flip", "raise">> \in Seq(Statements)
          /\ <<"write", "recheck">> \in Seq(Statements) /\ <<"write">> \in Seq(Statements)
      OBVIOUS
    <2> HIDE DEF Statements
    <2> QED
      BY <2>1 DEF Steps, Flipping, Statements
  <1>5. new.seen \in AnyRow \cup {None} /\ new.id \in Ids
    BY <1>1, <1>2, <1>3
  <1>6. /\ new \in Transaction /\ new.q = q /\ new.todo = Steps(q) /\ new.raced = FALSE
        /\ new.id = IF Creates(q.kind) THEN next[t] ELSE q.id
        /\ new.seen = IF Creates(q.kind) THEN None ELSE db[t][q.id]
    BY <1>4, <1>5 DEF Transaction
  <1> HIDE DEF new
  <1>7. /\ tx' \in [Sessions -> Transaction \cup {None}]
        /\ tx'[s] = new /\ tx'[s] # None
        /\ \A o \in Sessions \ {s} : tx'[o] = tx[o]
    BY <1>1, <1>3, <1>6, NoneAssumption
  <1>8. /\ next' \in [Tables -> Nat]
        /\ Creates(q.kind) => next'[t] = next[t] + 1
        /\ \A u \in Tables : next'[u] >= next[u]
    BY <1>1, <1>2, <1>3
  <1>9. TypeOK'
    <2>1. answer' \in [Sessions -> [kind : Kinds, how : {"ok", "generic", "named", "dropped"}]
                                     \cup {None}]
      BY <1>1, <1>2 DEF TypeOK
    <2>2. area' \in Areas /\ started' \in Nat
      BY <1>1, <1>2 DEF TypeOK
    <2> QED
      BY <1>1, <1>2, <1>7, <1>8, <2>1, <2>2 DEF TypeOK
  <1>10. DOMAIN mine'[s] = {}
    BY <1>1 DEF IInv
  <1>11. /\ q.kind \in {"updateRuleSet", "activate"} => db["sets"][q.id] # None
         /\ q.kind \in {"updateRuleSet", "correct"} => db[t][q.id] # None
         /\ q.kind \in {"createRuleSet", "updateRuleSet", "createRole", "updateRole"} =>
              ~MalformedMetric(q.list) /\ ~Repeats(ToCoefficients(q.list))
    <2>1. q.kind = "createRuleSet" => ~CreateRuleSetRefused(q)
      BY <1>1 DEF Refused
    <2>2. q.kind = "updateRuleSet" => ~UpdateRuleSetRefused(q)
      BY <1>1 DEF Refused
    <2>3. q.kind = "activate" => ~ActivateRefused(q)
      BY <1>1 DEF Refused
    <2>4. q.kind = "createRole" => ~CreateRoleRefused(q)
      BY <1>1 DEF Refused
    <2>5. q.kind = "updateRole" => ~UpdateRoleRefused(q)
      BY <1>1 DEF Refused
    <2>6. q.kind = "correct" => ~CorrectRefused(q)
      BY <1>1 DEF Refused
    <2> QED
      BY <1>2, <2>1, <2>2, <2>3, <2>4, <2>5, <2>6, Kind
         DEF CreateRuleSetRefused, UpdateRuleSetRefused, ActivateRefused, CreateRoleRefused,
             UpdateRoleRefused, CorrectRefused, RuleSetViolations, DuplicateMetric,
             WeightViolations, Stored
  <1>12. InFlight(s)'
    <2>1. TableOf(q.kind) \in {"sets", "roles"} /\ ~Deletes(q.kind) /\ q.kind # "activate" =>
            ~MalformedMetric(q.list) /\ ~Repeats(ToCoefficients(q.list))
      BY <1>2, <1>11, Kind DEF Deletes
    <2>2. q.kind \in {"updateRuleSet", "correct"} => new.seen \in Row(t)
      BY <1>2, <1>3, <1>6, <1>11 DEF Creates
    <2> QED
      BY <1>6, <1>7, <1>10, <2>1, <2>2 DEF InFlight
  <1>13. Carried(s)'
    <2>1. q.kind = "updateRuleSet" => (new.seen.active <=> new.id \in ActiveIds)
      BY <1>2, <1>6, <1>11, Kind DEF Creates, ActiveIds, Stored
    <2>2. ActiveIds' = ActiveIds
      BY <1>1 DEF ActiveIds, Stored
    <2>3. \A j : ~Raised(s, j)'
      BY <1>10 DEF Raised
    <2> QED
      BY <1>6, <1>7, <2>1, <2>2, <2>3, Lists DEF Carried
  <1>14. \A o \in Sessions \ {s} :
           /\ InFlight(o) => InFlight(o)'
           /\ Carried(o) => Carried(o)'
           /\ Orphans(o)' = Orphans(o)
    BY <1>1, <1>7, OthersKeep
  <1>15. BoardInv'
    BY <1>1, <1>6, <1>7, <1>14, Lists DEF IInv, BoardInv, Stored
  <1>16. SetsInv'
    <2>1. \A i \in Ids : next'["sets"] <= i => db'["sets"][i] = None
      <3>1. "sets" \in Tables
        BY DEF Tables
      <3>2. next'["sets"] >= next["sets"] /\ next["sets"] \in Nat /\ next'["sets"] \in Nat
        BY <1>3, <1>8, <3>1
      <3>3. \A i \in Ids : next["sets"] <= i => db["sets"][i] = None
        BY DEF IInv, SetsInv
      <3> QED
        BY <1>1, <3>2, <3>3 DEF Ids
    <2>2. ASSUME q.kind = "createRuleSet"
          PROVE  /\ new.id = next["sets"] /\ next'["sets"] = next["sets"] + 1
                 /\ next["sets"] \in Nat /\ db["sets"][new.id] = None
      <3>1. t = "sets" /\ Creates(q.kind) /\ new.id = next["sets"] /\ new.id \in Ids
        BY <1>2, <1>1, <1>6, <2>2, Kind DEF Creates
      <3> QED
        BY <1>2, <1>3, <1>8, <3>1 DEF IInv, SetsInv
    <2>3. \A o \in Sessions \ {s} : tx[o] # None /\ tx[o].q.kind = "createRuleSet" =>
            /\ tx[o].id \in Nat /\ tx[o].id < next["sets"] /\ db["sets"][tx[o].id] = None
            /\ tx[o].todo # Steps(tx[o].q) => <<"sets", tx[o].id>> \in DOMAIN mine[o]
            /\ \A p \in Sessions \ {o} :
                 tx[p] # None /\ tx[p].q.kind = "createRuleSet" => tx[p].id # tx[o].id
      BY Running DEF IInv, SetsInv, Ids
    <2>4. ASSUME NEW o \in Sessions, tx'[o] # None, tx'[o].q.kind = "createRuleSet"
          PROVE  /\ tx'[o].id < next'["sets"] /\ db'["sets"][tx'[o].id] = None
                 /\ tx'[o].todo # Steps(tx'[o].q) => <<"sets", tx'[o].id>> \in DOMAIN mine'[o]
                 /\ \A p \in Sessions \ {o} :
                      tx'[p] # None /\ tx'[p].q.kind = "createRuleSet" => tx'[p].id # tx'[o].id
      <3>1. next["sets"] \in Nat /\ next'["sets"] \in Nat /\ next'["sets"] >= next["sets"]
        BY <1>3, <1>8 DEF Tables
      <3>2. CASE o = s
        BY <1>1, <1>6, <1>7, <2>2, <2>3, <2>4, <3>2
      <3>3. CASE o # s
        BY <1>1, <1>6, <1>7, <2>2, <2>3, <2>4, <3>1, <3>3
      <3> QED
        BY <3>2, <3>3
    <2>5. ASSUME NEW o \in Sessions, tx'[o] # None,
                 tx'[o].q.kind \in {"updateRuleSet", "activate"}
          PROVE  db'["sets"][tx'[o].id] # None
      <3>1. CASE o = s
        BY <1>1, <1>6, <1>7, <1>11, <2>5, <3>1 DEF Creates
      <3>2. CASE o # s
        BY <1>1, <1>7, <2>5, <3>2 DEF IInv, SetsInv
      <3> QED
        BY <3>1, <3>2
    <2>6. ASSUME NEW o \in Sessions, NEW i \in Ids, <<"sets", i>> \in DOMAIN mine'[o]
          PROVE  /\ mine'[o][<<"sets", i>>] # None
                 /\ \/ db'["sets"][i] # None
                    \/ tx'[o].q.kind = "createRuleSet" /\ i = tx'[o].id
      BY <1>1, <1>7, <1>10, <2>6 DEF IInv, SetsInv
    <2> QED
      BY <2>1, <2>4, <2>5, <2>6 DEF SetsInv
  <1>17. FlagInv'
    <2>1. ActiveIds' = ActiveIds
      BY <1>1 DEF ActiveIds, Stored
    <2>2. \A o \in Sessions, i \in Ids : Raised(o, i)' = Raised(o, i)
      BY <1>1 DEF Raised
    <2>3. \A o \in Sessions, i \in Ids : ActiveClash(o, i)' = ActiveClash(o, i)
      BY <1>1 DEF ActiveClash, RowFor
    <2> QED
      BY <2>1, <2>2, <2>3 DEF IInv, FlagInv
  <1>18. RowsHeldOnce'
    BY <1>1 DEF IInv, RowsHeldOnce
  <1>19. RemovalNamesItsBoard'
    BY <1>1, <1>2 DEF IInv, RemovalNamesItsBoard, TypeOK
  <1>20. \A o \in Sessions : IF tx'[o] = None THEN DOMAIN mine'[o] = {}
                             ELSE InFlight(o)' /\ Carried(o)'
    BY <1>1, <1>7, <1>12, <1>13, <1>14 DEF IInv
  <1> QED
    BY <1>9, <1>15, <1>16, <1>17, <1>18, <1>19, <1>20 DEF IInv
\* A commit makes what its transaction sees the tables, and tells the others whether it
\* moved the flag.
LEMMA CommitEffect ==
  ASSUME IInv, NEW s \in Sessions, Commit(s), Orphans(s) = {}
  PROVE  /\ \A t \in Tables, i \in Ids : db'[t][i] = RowFor(s, t, i)
         /\ db' \in [Tables -> [Ids -> AnyRow \cup {None}]]
         /\ \A t \in Tables, i \in Ids : db'[t][i] \in Row(t) \cup {None}
         /\ tx' \in [Sessions -> Transaction \cup {None}]
         /\ tx'[s] = None
         /\ \A o \in Sessions \ {s} :
              /\ tx[o] = None <=> tx'[o] = None
              /\ tx[o] # None =>
                   /\ tx'[o].q = tx[o].q /\ tx'[o].id = tx[o].id /\ tx'[o].seen = tx[o].seen
                   /\ tx'[o].todo = tx[o].todo /\ tx'[o].others = tx[o].others
                   /\ ~tx'[o].raced => ~tx[o].raced /\ ActiveIds' = ActiveIds
         /\ Shape' /\ DOMAIN mine'[s] = {}
         /\ \A o \in Sessions \ {s} : mine'[o] = mine[o]
         /\ answer' = [answer EXCEPT ![s] = [kind |-> tx[s].q.kind, how |-> "ok"]]
         /\ UNCHANGED <<next, area, started>>
  <1> DEFINE after == [t \in Tables |-> [i \in Ids |-> RowFor(s, t, i)]]
             raced == {i \in Ids : after["sets"][i] # None /\ after["sets"][i].active}
                        # ActiveIds
  <1>1. /\ tx[s] # None /\ End(s, "ok") /\ db' = after
        /\ tx' = [o \in Sessions |-> IF o = s THEN None
                                     ELSE IF tx[o] = None THEN None
                                     ELSE [tx[o] EXCEPT !.raced = @ \/ raced]]
    BY DEF Commit
  <1>2. TypeOK /\ tx \in [Sessions -> Transaction \cup {None}]
    BY DEF IInv, TypeOK
  <1>3. \A t \in Tables, i \in Ids : RowFor(s, t, i) \in Row(t) \cup {None}
    BY <1>2, Held DEF RowFor, TypeOK
  <1>4. \A t \in Tables, i \in Ids : db'[t][i] = RowFor(s, t, i)
    BY <1>1
  <1>5. \A t \in Tables, i \in Ids : RowFor(s, t, i) \in AnyRow \cup {None}
    BY <1>3, Rows
  <1>6. db' \in [Tables -> [Ids -> AnyRow \cup {None}]]
    BY <1>1, <1>5
  <1>7. raced <=> ActiveIds' # ActiveIds
    <2>1. "sets" \in Tables
      BY DEF Tables
    <2> QED
      BY <1>1, <2>1 DEF ActiveIds, Stored
  <1> HIDE DEF after, raced
  <1>8. PICK flag \in BOOLEAN : flag <=> raced
    BY Zenon
  <1>9. ASSUME NEW o \in Sessions \ {s}, tx[o] # None
        PROVE  /\ tx'[o] \in Transaction
               /\ tx'[o].q = tx[o].q /\ tx'[o].id = tx[o].id /\ tx'[o].seen = tx[o].seen
               /\ tx'[o].todo = tx[o].todo /\ tx'[o].others = tx[o].others
               /\ ~tx'[o].raced => ~tx[o].raced /\ ActiveIds' = ActiveIds
    <2>1. tx[o] \in Transaction /\ tx[o].raced \in BOOLEAN
      BY <1>2, <1>9 DEF Transaction
    <2>2. PICK b \in BOOLEAN : b <=> (tx[o].raced \/ raced)
      BY Zenon
    <2>3. tx'[o] = [tx[o] EXCEPT !.raced = tx[o].raced \/ raced]
      BY <1>1, <1>9
    <2>4. (tx[o].raced \/ raced) \in BOOLEAN
      OBVIOUS
    <2>5. tx'[o] \in Transaction
      BY <2>1, <2>3, <2>4 DEF Transaction
    <2>6. tx'[o].raced = (tx[o].raced \/ raced)
      BY <2>1, <2>3 DEF Transaction
    <2>7. /\ tx'[o].q = tx[o].q /\ tx'[o].id = tx[o].id /\ tx'[o].seen = tx[o].seen
          /\ tx'[o].todo = tx[o].todo /\ tx'[o].others = tx[o].others
      BY <2>1, <2>3 DEF Transaction
    <2> QED
      BY <1>7, <2>5, <2>6, <2>7
  <1>10. tx' \in [Sessions -> Transaction \cup {None}]
    <2>1. \A o \in Sessions : tx'[o] \in Transaction \cup {None}
      BY <1>1, <1>9
    <2> QED
      BY <1>1, <2>1
  <1>11. /\ Shape' /\ DOMAIN mine'[s] = {}
         /\ \A o \in Sessions \ {s} : mine'[o] = mine[o]
    BY <1>1, Held, EndEffect
  <1>12. /\ answer' = [answer EXCEPT ![s] = [kind |-> tx[s].q.kind, how |-> "ok"]]
         /\ UNCHANGED <<next, area, started>>
    BY <1>1 DEF End
  <1>13. tx'[s] = None /\ \A o \in Sessions \ {s} : tx[o] = None => tx'[o] = None
    BY <1>1
  <1> QED
    BY <1>3, <1>4, <1>6, <1>9, <1>10, <1>11, <1>12, <1>13, NoneAssumption

\* Which failures to commit there are: a game whose board left the pool.
LEMMA CommitFails ==
  ASSUME IInv, NEW s \in Sessions, Commit(s), Orphans(s) # {}
  PROVE  Fail(s, "generic") /\ tx[s] # None /\ tx[s].q.kind # "removeMap"
  BY DEF Commit, IInv, BoardInv

LEMMA CommitKeeps ==
  ASSUME IInv, NEW s \in Sessions, Commit(s)
  PROVE  IInv'
  <1>1. CASE Orphans(s) # {}
    BY <1>1, CommitFails, Failing
  <1>2. CASE Orphans(s) = {}
    <2>1. /\ tx[s] # None /\ tx[s].todo = <<>>
          /\ \A m \in BoardsOf(s) : ~HeldByOther(s, "mapPool", m)
      BY DEF Commit
    <2>2. /\ TypeOK /\ InFlight(s) /\ Carried(s) /\ tx[s].q.kind \in Kinds
      BY <2>1, Running
    <2>3. /\ \A t \in Tables, i \in Ids : db'[t][i] = RowFor(s, t, i)
          /\ db' \in [Tables -> [Ids -> AnyRow \cup {None}]]
          /\ \A t \in Tables, i \in Ids : db'[t][i] \in Row(t) \cup {None}
          /\ tx' \in [Sessions -> Transaction \cup {None}]
          /\ tx'[s] = None
      BY <1>2, CommitEffect
    <2>4. \A o \in Sessions \ {s} :
            /\ tx[o] = None <=> tx'[o] = None
            /\ tx[o] # None =>
                 /\ tx'[o].q = tx[o].q /\ tx'[o].id = tx[o].id /\ tx'[o].seen = tx[o].seen
                 /\ tx'[o].todo = tx[o].todo /\ tx'[o].others = tx[o].others
                 /\ ~tx'[o].raced => ~tx[o].raced /\ ActiveIds' = ActiveIds
      BY <1>2, CommitEffect
    <2>5. /\ Shape' /\ DOMAIN mine'[s] = {}
          /\ \A o \in Sessions \ {s} : mine'[o] = mine[o]
          /\ answer' = [answer EXCEPT ![s] = [kind |-> tx[s].q.kind, how |-> "ok"]]
          /\ UNCHANGED <<next, area, started>>
      BY <1>2, CommitEffect
    <2>6. {"sets", "matches", "mapPool"} \subseteq Tables
      BY DEF Tables
    <2>7. TypeOK'
      <3>1. answer' \in [Sessions -> [kind : Kinds, how : {"ok", "generic", "named", "dropped"}]
                                       \cup {None}]
        BY <2>2, <2>5 DEF TypeOK
      <3>2. /\ next' \in [Tables -> Nat] /\ area' \in Areas /\ started' \in Nat
        BY <2>2, <2>5 DEF TypeOK
      <3>3. \A o \in Sessions :
              /\ DOMAIN mine'[o] \subseteq Tables \X Ids
              /\ \A t \in Tables, i \in Ids :
                   <<t, i>> \in DOMAIN mine'[o] => mine'[o][<<t, i>>] \in Row(t) \cup {None}
        BY <2>5, Held
      <3> QED
        BY <2>3, <2>5, <3>1, <3>2, <3>3 DEF TypeOK, Shape
    <2>8. RowsHeldOnce'
      BY <2>5 DEF IInv, RowsHeldOnce
    <2>9. RemovalNamesItsBoard'
      BY <2>2, <2>5 DEF IInv, RemovalNamesItsBoard, TypeOK
    <2>10. \A i \in Stored("matches")' : db'["matches"][i].map \in Stored("mapPool")'
      <3> SUFFICES ASSUME NEW i \in Ids, db'["matches"][i] # None
                   PROVE  /\ db'["matches"][i].map \in Ids
                          /\ db'["mapPool"][db'["matches"][i].map] # None
        BY DEF Stored
      <3>1. db'["matches"][i] \in Row("matches") /\ db'["matches"][i] = RowFor(s, "matches", i)
        BY <2>3, <2>6
      <3>2. db'["matches"][i].map \in Ids
        BY <3>1, Rows
      <3>3. RowFor(s, "mapPool", RowFor(s, "matches", i).map) # None
        BY <1>2, <3>1 DEF Orphans
      <3> QED
        BY <2>3, <2>6, <3>1, <3>2, <3>3
    <2>11. ASSUME NEW o \in Sessions \ {s}, tx[o] # None, tx[o].q.kind = "removeMap",
                  tx[o].todo = <<>>
           PROVE  Orphans(o)' = {}
      <3>1. TypeOK /\ InFlight(o) /\ Orphans(o) = {}
        BY <2>11, Running DEF IInv, BoardInv
      <3>2. \A i : <<"matches", i>> \notin DOMAIN mine[o]
        BY <2>11, <3>1, Kind DEF InFlight, Kinds
      <3> SUFFICES ASSUME NEW i \in Ids, RowFor(o, "matches", i)' # None,
                          NEW m, m = RowFor(o, "matches", i)'.map
                   PROVE  RowFor(o, "mapPool", m)' # None
        BY DEF Orphans, RowFor
      <3>3. RowFor(o, "matches", i)' = db'["matches"][i]
        BY <2>5, <3>2 DEF RowFor
      <3>4. m \in Ids /\ m = db'["matches"][i].map
        BY <2>10, <3>3 DEF Stored
      <3>5. CASE <<"mapPool", m>> \notin DOMAIN mine[o]
        <4>1. RowFor(o, "mapPool", m)' = db'["mapPool"][m]
          BY <2>5, <3>5 DEF RowFor
        <4> QED
          BY <2>10, <3>3, <3>4, <4>1 DEF Stored
      <3>6. CASE <<"mapPool", m>> \in DOMAIN mine[o]
        <4>1. <<"matches", i>> \notin DOMAIN mine[s]
          <5> SUFFICES ASSUME <<"matches", i>> \in DOMAIN mine[s] PROVE FALSE
            OBVIOUS
          <5>1. mine[s][<<"matches", i>>] = db'["matches"][i]
            BY <2>3, <2>6 DEF RowFor
          <5>2. m \in BoardsOf(s)
            BY <3>3, <3>4, <5>1 DEF BoardsOf
          <5> QED
            BY <2>1, <3>6, <5>2 DEF HeldByOther
        <4>2. db'["matches"][i] = db["matches"][i] /\ RowFor(o, "matches", i) = db["matches"][i]
          BY <2>3, <2>6, <3>2, <4>1 DEF RowFor
        <4>3. RowFor(o, "mapPool", m) # None
          BY <3>1, <3>3, <3>4, <4>2 DEF Orphans
        <4>4. RowFor(o, "mapPool", m)' = RowFor(o, "mapPool", m)
          BY <2>5, <3>6 DEF RowFor
        <4> QED
          BY <3>3, <3>4, <4>3, <4>4
      <3> QED
        BY <3>5, <3>6
    <2>12. BoardInv'
      BY <2>3, <2>4, <2>10, <2>11 DEF BoardInv
    <2>13. \A i \in Ids : db'["sets"][i] = IF <<"sets", i>> \in DOMAIN mine[s]
                                           THEN mine[s][<<"sets", i>>] ELSE db["sets"][i]
      BY <2>3, <2>6 DEF RowFor
    <2>14. SetsInv'
      <3>1. ASSUME NEW i \in Ids, next'["sets"] <= i
            PROVE  db'["sets"][i] = None
        <4>1. next["sets"] \in Nat /\ next'["sets"] = next["sets"]
          BY <2>2, <2>5, <2>6 DEF TypeOK
        <4>2. db["sets"][i] = None
          BY <3>1, <4>1 DEF IInv, SetsInv
        <4>3. <<"sets", i>> \notin DOMAIN mine[s]
          BY <3>1, <2>1, <4>1, <4>2 DEF IInv, SetsInv, Ids
        <4> QED
          BY <2>13, <4>2, <4>3
      <3>2. ASSUME NEW i \in Ids, db["sets"][i] # None
            PROVE  db'["sets"][i] # None
        <4>1. <<"sets", i>> \in DOMAIN mine[s] => mine[s][<<"sets", i>>] # None
          BY DEF IInv, SetsInv
        <4>2. CASE <<"sets", i>> \in DOMAIN mine[s]
          BY <2>13, <4>1, <4>2
        <4>3. CASE <<"sets", i>> \notin DOMAIN mine[s]
          BY <2>13, <3>2, <4>3
        <4> QED
          BY <4>2, <4>3
      <3>3. ASSUME NEW o \in Sessions, tx'[o] # None, tx'[o].q.kind = "createRuleSet"
            PROVE  /\ tx'[o].id < next'["sets"] /\ db'["sets"][tx'[o].id] = None
                   /\ tx'[o].todo # Steps(tx'[o].q) => <<"sets", tx'[o].id>> \in DOMAIN mine'[o]
                   /\ \A p \in Sessions \ {o} :
                        tx'[p] # None /\ tx'[p].q.kind = "createRuleSet" =>
                          tx'[p].id # tx'[o].id
        <4>1. /\ o \in Sessions \ {s} /\ tx[o] # None /\ tx[o].q.kind = "createRuleSet"
              /\ tx'[o].id = tx[o].id /\ tx'[o].q = tx[o].q /\ tx'[o].todo = tx[o].todo
          BY <2>3, <2>4, <3>3
        <4>2. /\ tx[o].id < next["sets"] /\ db["sets"][tx[o].id] = None
              /\ tx[o].todo # Steps(tx[o].q) => <<"sets", tx[o].id>> \in DOMAIN mine[o]
              /\ \A p \in Sessions \ {o} :
                   tx[p] # None /\ tx[p].q.kind = "createRuleSet" => tx[p].id # tx[o].id
          BY <4>1 DEF IInv, SetsInv
        <4>3. tx[o].id \in Ids
          BY <4>1, Running
        <4>4. <<"sets", tx[o].id>> \notin DOMAIN mine[s]
          BY <2>1, <4>1, <4>2, <4>3 DEF IInv, SetsInv
        <4>5. db'["sets"][tx[o].id] = None
          BY <2>13, <4>2, <4>3, <4>4
        <4>6. \A p \in Sessions \ {o} :
                tx'[p] # None /\ tx'[p].q.kind = "createRuleSet" => tx'[p].id # tx[o].id
          BY <2>3, <2>4, <4>2
        <4> QED
          BY <2>5, <4>1, <4>2, <4>5, <4>6
      <3>4. ASSUME NEW o \in Sessions, tx'[o] # None,
                   tx'[o].q.kind \in {"updateRuleSet", "activate"}
            PROVE  db'["sets"][tx'[o].id] # None
        <4>1. /\ tx[o] # None /\ tx[o].q.kind \in {"updateRuleSet", "activate"}
              /\ tx'[o].id = tx[o].id /\ tx[o].id \in Ids
          BY <2>3, <2>4, <3>4, Running
        <4> QED
          BY <3>2, <4>1 DEF IInv, SetsInv
      <3>5. ASSUME NEW o \in Sessions, NEW i \in Ids, <<"sets", i>> \in DOMAIN mine'[o]
            PROVE  /\ mine'[o][<<"sets", i>>] # None
                   /\ \/ db'["sets"][i] # None
                      \/ tx'[o].q.kind = "createRuleSet" /\ i = tx'[o].id
        <4>1. o \in Sessions \ {s} /\ <<"sets", i>> \in DOMAIN mine[o]
          BY <2>5, <3>5
        <4>2. tx[o] # None
          BY <4>1 DEF IInv
        <4> QED
          BY <2>4, <2>5, <3>2, <4>1, <4>2 DEF IInv, SetsInv
      <3> QED
        BY <3>1, <3>3, <3>4, <3>5 DEF SetsInv
    <2>15. FlagInv'
      <3>1. \A o \in Sessions, i \in Ids : Raised(o, i)' => o # s /\ Raised(o, i)
        BY <2>5 DEF Raised
      <3>2. ASSUME NEW i \in ActiveIds', NEW j \in ActiveIds', i # j
            PROVE  FALSE
        <4>1. i \in Ids /\ j \in Ids /\ db'["sets"][i] # None /\ db'["sets"][i].active
              /\ db'["sets"][j] # None /\ db'["sets"][j].active
          BY DEF ActiveIds, Stored
        <4>2. ~Raised(s, i)
          <5>1. RowFor(s, "sets", j) # None /\ RowFor(s, "sets", j).active
            BY <2>3, <2>6, <4>1
          <5> QED
            BY <3>2, <4>1, <5>1 DEF IInv, FlagInv, ActiveClash
        <4>3. ~Raised(s, j)
          <5>1. RowFor(s, "sets", i) # None /\ RowFor(s, "sets", i).active
            BY <2>3, <2>6, <4>1
          <5> QED
            BY <3>2, <4>1, <5>1 DEF IInv, FlagInv, ActiveClash
        <4>4. i \in ActiveIds /\ j \in ActiveIds
          BY <2>13, <4>1, <4>2, <4>3 DEF Raised, ActiveIds, Stored
        <4> QED
          BY <3>2, <4>4 DEF IInv, FlagInv
      <3>3. ASSUME NEW o \in Sessions, NEW i \in Ids, Raised(o, i)'
            PROVE  ~ActiveClash(o, i)'
        <4>1. o \in Sessions \ {s} /\ Raised(o, i) /\ ~ActiveClash(o, i)
          BY <3>1, <3>3 DEF IInv, FlagInv
        <4>2. \A j \in Ids : ~Raised(s, j)
          BY <4>1 DEF IInv, FlagInv
        <4>3. ASSUME NEW j \in Ids \ {i}, RowFor(o, "sets", j)' # None,
                     RowFor(o, "sets", j)'.active
              PROVE  FALSE
          <5>1. CASE <<"sets", j>> \in DOMAIN mine[o]
            BY <2>5, <4>1, <4>3, <5>1 DEF RowFor, ActiveClash
          <5>2. CASE <<"sets", j>> \notin DOMAIN mine[o]
            <6>1. db'["sets"][j] # None /\ db'["sets"][j].active
              BY <2>5, <4>1, <4>3, <5>2 DEF RowFor
            <6>2. db["sets"][j] # None /\ db["sets"][j].active
              BY <2>13, <4>2, <6>1 DEF Raised
            <6> QED
              BY <4>1, <5>2, <6>2 DEF RowFor, ActiveClash
          <5> QED
            BY <5>1, <5>2
        <4> QED
          BY <4>3 DEF ActiveClash
      <3> QED
        BY <3>1, <3>2, <3>3 DEF IInv, FlagInv
    <2>16. ASSUME NEW o \in Sessions
           PROVE  IF tx'[o] = None THEN DOMAIN mine'[o] = {} ELSE InFlight(o)' /\ Carried(o)'
      <3>1. CASE tx'[o] = None
        BY <2>4, <2>5, <3>1 DEF IInv
      <3>2. CASE tx'[o] # None
        <4>1. /\ o \in Sessions \ {s} /\ tx[o] # None /\ mine'[o] = mine[o]
              /\ tx'[o].q = tx[o].q /\ tx'[o].id = tx[o].id /\ tx'[o].seen = tx[o].seen
              /\ tx'[o].todo = tx[o].todo /\ tx'[o].others = tx[o].others
              /\ ~tx'[o].raced => ~tx[o].raced /\ ActiveIds' = ActiveIds
          BY <2>3, <2>4, <2>5, <3>2
        <4>2. InFlight(o) /\ Carried(o)
          BY <4>1, Running
        <4>3. InFlight(o)'
          BY <4>1, <4>2 DEF InFlight
        <4>4. \A i : Raised(o, i)' = Raised(o, i)
          BY <4>1 DEF Raised
        <4>5. Carried(o)'
          BY <4>1, <4>2, <4>4 DEF Carried
        <4> QED
          BY <3>2, <4>3, <4>5
      <3> QED
        BY <3>1, <3>2
    <2> QED
      BY <2>7, <2>8, <2>9, <2>12, <2>14, <2>15, <2>16 DEF IInv
  <1> QED
    BY <1>1, <1>2
\* The pools grow, or lose a hero: nothing that is in flight hangs on a hero.
LEMMA PoolsKeep ==
  ASSUME IInv, Pools
  PROVE  IInv'
  <1>1. TypeOK /\ db \in [Tables -> [Ids -> AnyRow \cup {None}]]
    BY DEF IInv, TypeOK
  <1>2. UNCHANGED <<next, tx, mine, answer, area>> /\ started' = started + 1
    BY DEF Pools
  <1>3. [key |-> None] \in Row("mapPool") /\ [key |-> None] \in Row("heroPool")
    BY DEF Row
  <1>4. [key |-> None] \in AnyRow /\ [key |-> None] # None
    BY <1>3, Rows DEF Tables
  <1>5. {"mapPool", "heroPool", "sets", "matches"} \subseteq Tables
    BY DEF Tables
  <1>6. /\ db' \in [Tables -> [Ids -> AnyRow \cup {None}]]
        /\ \A t \in Tables, i \in Ids : db'[t][i] \in Row(t) \cup {None}
        /\ db'["sets"] = db["sets"] /\ db'["matches"] = db["matches"]
        /\ \A m \in Ids : db["mapPool"][m] # None => db'["mapPool"][m] # None
    <2>1. ASSUME NEW ms \in SUBSET Ids, AddMaps(ms)
          PROVE  <1>6!:
      <3>1. db' = [db EXCEPT !["mapPool"] =
                     [m \in Ids |-> IF m \in ms THEN [key |-> None] ELSE db["mapPool"][m]]]
        BY <2>1 DEF AddMaps
      <3> QED
        BY <1>1, <1>3, <1>4, <1>5, <3>1 DEF TypeOK
    <2>2. ASSUME NEW hs \in SUBSET Ids, AddHeroes(hs)
          PROVE  <1>6!:
      <3>1. db' = [db EXCEPT !["heroPool"] =
                     [h \in Ids |-> IF h \in hs THEN [key |-> None] ELSE db["heroPool"][h]]]
        BY <2>2 DEF AddHeroes
      <3> QED
        BY <1>1, <1>3, <1>4, <1>5, <3>1 DEF TypeOK
    <2>3. ASSUME NEW h \in Ids, RemoveHero(h)
          PROVE  <1>6!:
      <3>1. db' = [db EXCEPT !["heroPool"] = [db["heroPool"] EXCEPT ![h] = None]]
        BY <2>3 DEF RemoveHero
      <3> QED
        BY <1>1, <1>5, <3>1 DEF TypeOK
    <2> QED
      BY <2>1, <2>2, <2>3 DEF Pools
  <1>7. ActiveIds' = ActiveIds
    BY <1>6 DEF ActiveIds, Stored
  <1>8. \A o \in Sessions : \A i : /\ Raised(o, i)' = Raised(o, i)
                                   /\ ActiveClash(o, i)' = ActiveClash(o, i)
    BY <1>2, <1>6 DEF Raised, ActiveClash, RowFor
  <1>9. TypeOK'
    BY <1>1, <1>2, <1>6 DEF TypeOK
  <1>10. RowsHeldOnce' /\ RemovalNamesItsBoard'
    BY <1>2 DEF IInv, RowsHeldOnce, RemovalNamesItsBoard
  <1>11. BoardInv'
    <2>1. \A i \in Stored("matches")' : db'["matches"][i].map \in Stored("mapPool")'
      BY <1>6 DEF IInv, BoardInv, Stored
    <2>2. ASSUME NEW s \in Sessions, Orphans(s) = {}
          PROVE  Orphans(s)' = {}
      <3> SUFFICES ASSUME NEW i \in Ids, RowFor(s, "matches", i)' # None,
                          NEW m, m = RowFor(s, "matches", i)'.map
                   PROVE  RowFor(s, "mapPool", m)' # None
        BY DEF Orphans, RowFor
      <3>1. RowFor(s, "matches", i)' = RowFor(s, "matches", i)
        BY <1>2, <1>6 DEF RowFor
      <3>2. RowFor(s, "mapPool", m) # None
        BY <2>2, <3>1 DEF Orphans
      <3>3. m \in Ids
        <4>1. RowFor(s, "matches", i) \in Row("matches")
          BY <1>1, <1>5, <3>1, Held DEF RowFor, TypeOK
        <4> QED
          BY <3>1, <4>1, Rows
      <3> QED
        BY <1>2, <1>6, <3>2, <3>3 DEF RowFor
    <2> QED
      BY <1>2, <2>1, <2>2 DEF IInv, BoardInv
  <1>12. SetsInv'
    BY <1>2, <1>6 DEF IInv, SetsInv
  <1>13. FlagInv'
    BY <1>7, <1>8 DEF IInv, FlagInv
  <1>14. ASSUME NEW s \in Sessions
         PROVE  IF tx'[s] = None THEN DOMAIN mine'[s] = {} ELSE InFlight(s)' /\ Carried(s)'
    <2>1. InFlight(s) => InFlight(s)'
      BY <1>2 DEF InFlight
    <2>2. Carried(s) => Carried(s)'
      BY <1>2, <1>7, <1>8 DEF Carried
    <2> QED
      BY <1>2, <2>1, <2>2 DEF IInv
  <1> QED
    BY <1>9, <1>10, <1>11, <1>12, <1>13, <1>14 DEF IInv

LEMMA StutterKeeps ==
  ASSUME IInv, UNCHANGED vars
  PROVE  IInv'
  <1>1. UNCHANGED <<db, next, tx, mine, answer, area, started>>
    BY DEF vars
  <1>2. TypeOK'
    BY <1>1 DEF IInv, TypeOK
  <1>3. \A s \in Sessions :
          /\ InFlight(s) => InFlight(s)'
          /\ Carried(s) => Carried(s)'
          /\ Orphans(s)' = Orphans(s)
          /\ \A i : Raised(s, i)' = Raised(s, i)
          /\ \A i : ActiveClash(s, i)' = ActiveClash(s, i)
    BY <1>1, OthersKeep
  <1>4. ActiveIds' = ActiveIds /\ \A t : Stored(t)' = Stored(t)
    BY <1>1 DEF ActiveIds, Stored
  <1>5. BoardInv'
    BY <1>1, <1>3, <1>4 DEF IInv, BoardInv
  <1>6. FlagInv'
    BY <1>3, <1>4 DEF IInv, FlagInv
  <1>7. SetsInv' /\ RowsHeldOnce' /\ RemovalNamesItsBoard'
    BY <1>1 DEF IInv, SetsInv, RowsHeldOnce, RemovalNamesItsBoard
  <1> QED
    BY <1>1, <1>2, <1>3, <1>5, <1>6, <1>7 DEF IInv

LEMMA NextKeeps ==
  ASSUME IInv, [Next]_vars
  PROVE  IInv'
  <1>1. ASSUME NEW s \in Sessions, NEW q \in AllRequests, Start(s, q)
        PROVE  IInv'
    BY <1>1, StartKeeps
  <1>2. ASSUME NEW s \in Sessions, \/ Save(s) \/ SetRoles(s) \/ Delete(s) \/ Deactivate(s)
                                   \/ Flip(s) \/ Raise(s) \/ Recheck(s) \/ Commit(s)
        PROVE  IInv'
    BY <1>2, SaveKeeps, SetRolesKeeps, DeleteKeeps, DeactivateKeeps, FlipKeeps, RaiseKeeps,
       RecheckKeeps, CommitKeeps
  <1>3. ASSUME NEW s \in Sessions, Abort(s)
        PROVE  IInv'
    BY <1>3, Failing DEF Abort
  <1>4. CASE Pools
    BY <1>4, PoolsKeep
  <1>5. CASE UNCHANGED vars
    BY <1>5, StutterKeeps
  <1> QED
    BY <1>1, <1>2, <1>3, <1>4, <1>5 DEF Next

LEMMA InitHolds ==
  ASSUME Init
  PROVE  IInv
  <1>1. /\ db = [t \in Tables |-> [i \in Ids |-> IF i \in DOMAIN Start0[t]
                                                 THEN Start0[t][i] ELSE None]]
        /\ next = [t \in Tables |-> 1 + Cardinality(DOMAIN Start0[t])]
        /\ tx = [s \in Sessions |-> None] /\ answer = [s \in Sessions |-> None]
        /\ mine = [s \in Sessions |-> Nothing] /\ area \in Areas /\ started = 0
    BY DEF Init
  <1>2. ASSUME NEW t \in Tables
        PROVE  /\ Len(Start0[t]) \in Nat /\ DOMAIN Start0[t] = 1 .. Len(Start0[t])
               /\ \A i \in DOMAIN Start0[t] : Start0[t][i] \in Row(t)
               /\ Cardinality(DOMAIN Start0[t]) = Len(Start0[t])
    <2>1. Start0[t] \in Seq(Row(t))
      BY StartAssumption
    <2>2. Len(Start0[t]) \in Nat /\ DOMAIN Start0[t] = 1 .. Len(Start0[t])
      BY <2>1
    <2>3. \A i \in DOMAIN Start0[t] : Start0[t][i] \in Row(t)
      BY <2>1
    <2>4. Cardinality(1 .. Len(Start0[t])) = Len(Start0[t])
      BY <2>2, FS_Interval
    <2> QED
      BY <2>2, <2>3, <2>4
  <1>3. /\ Nothing = [x \in DOMAIN Nothing |-> Nothing[x]] /\ DOMAIN Nothing = {}
        /\ \A s \in Sessions : DOMAIN mine[s] = {}
    BY <1>1 DEF Nothing
  <1>4. \A t \in Tables, i \in Ids :
          /\ db[t][i] \in Row(t) \cup {None}
          /\ db[t][i] # None <=> i \in DOMAIN Start0[t]
          /\ i \in DOMAIN Start0[t] => db[t][i] = Start0[t][i]
    BY <1>1, <1>2, Rows
  <1>5. TypeOK
    <2>1. db \in [Tables -> [Ids -> AnyRow \cup {None}]]
      <3>1. \A t \in Tables, i \in Ids : db[t][i] \in AnyRow \cup {None}
        BY <1>4, Rows
      <3> QED
        BY <1>1, <3>1
    <2>2. next \in [Tables -> Nat]
      BY <1>1, <1>2
    <2>3. mine = [s \in Sessions |-> [x \in DOMAIN mine[s] |-> mine[s][x]]]
      BY <1>1, <1>3
    <2> QED
      BY <1>1, <1>3, <1>4, <2>1, <2>2, <2>3 DEF TypeOK
  <1>6. {"sets", "matches", "mapPool"} \subseteq Tables
    BY DEF Tables
  <1>7. BoardInv
    <2> SUFFICES ASSUME NEW i \in Ids, db["matches"][i] # None
                 PROVE  db["matches"][i].map \in Ids
                          /\ db["mapPool"][db["matches"][i].map] # None
      BY <1>1 DEF BoardInv, Stored
    <2>1. db["matches"][i] \in Row("matches") /\ i \in DOMAIN Start0["matches"]
          /\ db["matches"][i] = Start0["matches"][i]
      BY <1>4, <1>6
    <2> QED
      BY <1>4, <1>6, <2>1, Rows, StartAssumption
  <1>8. SetsInv
    <2>1. ASSUME NEW i \in Ids, next["sets"] <= i
          PROVE  db["sets"][i] = None
      <3>1. next["sets"] = 1 + Len(Start0["sets"]) /\ Len(Start0["sets"]) \in Nat
        BY <1>1, <1>2, <1>6
      <3>2. i \notin 1 .. Len(Start0["sets"])
        BY <2>1, <3>1 DEF Ids
      <3> QED
        BY <1>2, <1>4, <1>6, <3>2
    <2> QED
      BY <1>1, <1>3, <2>1 DEF SetsInv
  <1>9. FlagInv
    <2>1. \A s \in Sessions, i \in Ids : ~Raised(s, i)
      BY <1>3 DEF Raised
    <2>2. \A i, j \in ActiveIds : i = j
      BY <1>4, <1>6, StartAssumption DEF ActiveIds, Stored
    <2> QED
      BY <2>1, <2>2 DEF FlagInv
  <1>10. RowsHeldOnce /\ RemovalNamesItsBoard
    BY <1>1, <1>3 DEF RowsHeldOnce, RemovalNamesItsBoard
  <1> QED
    BY <1>1, <1>3, <1>5, <1>7, <1>8, <1>9, <1>10 DEF IInv

\* IInv is inductive.
THEOREM Inductive == Spec => []IInv
  <1>1. Init => IInv
    BY InitHolds
  <1>2. IInv /\ [Next]_vars => IInv'
    BY NextKeeps
  <1> QED
    BY <1>1, <1>2, PTL DEF Spec
-----------------------------------------------------------------------------
(* The unique texts, and the roles that are assigned.                      *)

\* What a version of a row is.
LEMMA Version ==
  ASSUME NEW t, NEW i, NEW x
  PROVE  x \in Versions(t, i) <=>
           /\ x # None
           /\ \/ x = db[t][i]
              \/ \E s \in Sessions : <<t, i>> \in DOMAIN mine[s] /\ mine[s][<<t, i>>] = x
  BY DEF Versions

LEMMA VersionNext ==
  ASSUME NEW t, NEW i, NEW x
  PROVE  x \in Versions(t, i)' <=>
           /\ x # None
           /\ \/ x = db'[t][i]
              \/ \E s \in Sessions : <<t, i>> \in DOMAIN mine'[s] /\ mine'[s][<<t, i>>] = x
  BY DEF Versions

\* What nobody touches stays as it may become.
LEMMA SameVersions ==
  ASSUME NEW t, NEW i, db'[t][i] = db[t][i],
         \A o \in Sessions :
           /\ <<t, i>> \in DOMAIN mine'[o] <=> <<t, i>> \in DOMAIN mine[o]
           /\ <<t, i>> \in DOMAIN mine[o] => mine'[o][<<t, i>>] = mine[o][<<t, i>>]
  PROVE  Versions(t, i)' = Versions(t, i)
  <1>1. ASSUME NEW x
        PROVE  x \in Versions(t, i)' <=> x \in Versions(t, i)
    <2>1. (\E o \in Sessions : <<t, i>> \in DOMAIN mine'[o] /\ mine'[o][<<t, i>>] = x)
            <=> (\E o \in Sessions : <<t, i>> \in DOMAIN mine[o] /\ mine[o][<<t, i>>] = x)
      OBVIOUS
    <2>2. x \in Versions(t, i)' <=>
            /\ x # None
            /\ \/ x = db'[t][i]
               \/ \E o \in Sessions : <<t, i>> \in DOMAIN mine'[o] /\ mine'[o][<<t, i>>] = x
      BY VersionNext
    <2>3. x \in Versions(t, i) <=>
            /\ x # None
            /\ \/ x = db[t][i]
               \/ \E o \in Sessions : <<t, i>> \in DOMAIN mine[o] /\ mine[o][<<t, i>>] = x
      BY Version
    <2> QED
      BY <2>1, <2>2, <2>3
  <1> QED
    BY <1>1

\* No text is new: every version carries one that a version of its row had.
LEMMA NoNewText ==
  ASSUME KeysInv,
         \A t \in Tables, i \in Ids : \A x \in Versions(t, i)' :
           x.key = None \/ \E y \in Versions(t, i) : y.key = x.key
  PROVE  KeysInv'
  <1> SUFFICES ASSUME NEW t \in Tables, NEW i \in Ids, NEW j \in Ids, i # j,
                      NEW x \in Versions(t, i)', NEW y \in Versions(t, j)', x.key = y.key
               PROVE  x.key = None
    BY DEF KeysInv
  <1>1. \/ x.key = None
        \/ /\ \E u \in Versions(t, i) : u.key = x.key
           /\ \E v \in Versions(t, j) : v.key = y.key
    OBVIOUS
  <1> QED
    BY <1>1 DEF KeysInv

\* No version is new, and no role is given up.
LEMMA NoNewVersion ==
  ASSUME KeysInv, GivenInv,
         \A t \in Tables, i \in Ids : Versions(t, i)' \subseteq Versions(t, i),
         \A i \in Ids : Stands(i) => Stands(i)'
  PROVE  KeysInv' /\ GivenInv'
  <1>1. KeysInv'
    <2>1. \A t \in Tables, i \in Ids : \A x \in Versions(t, i)' :
            \E y \in Versions(t, i) : y.key = x.key
      OBVIOUS
    <2> QED
      BY <2>1, NoNewText
  <1>2. "given" \in Tables
    BY DEF Tables
  <1>3. \A i \in Ids : Assigned(i)' => Assigned(i)
    BY <1>2 DEF Assigned
  <1> QED
    BY <1>1, <1>3 DEF GivenInv

\* A transaction that keeps what it has written, or gives it up, adds no version.
LEMMA WritesNothing ==
  ASSUME KeysInv, GivenInv, NEW s \in Sessions, db' = db,
         \A o \in Sessions \ {s} : mine'[o] = mine[o],
         mine'[s] = mine[s] \/ DOMAIN mine'[s] = {}
  PROVE  KeysInv' /\ GivenInv'
  <1>1. ASSUME NEW o \in Sessions
        PROVE  mine'[o] = mine[o] \/ DOMAIN mine'[o] = {}
    OBVIOUS
  <1>2. ASSUME NEW t \in Tables, NEW i \in Ids, NEW x \in Versions(t, i)'
        PROVE  x \in Versions(t, i)
    <2>1. /\ x # None
          /\ \/ x = db[t][i]
             \/ \E o \in Sessions : <<t, i>> \in DOMAIN mine'[o] /\ mine'[o][<<t, i>>] = x
      BY VersionNext
    <2>2. \/ x = db[t][i]
          \/ \E o \in Sessions : <<t, i>> \in DOMAIN mine[o] /\ mine[o][<<t, i>>] = x
      BY <1>1, <2>1
    <2> QED
      BY <2>1, <2>2, Version
  <1>3. \A i \in Ids : Stands(i) => Stands(i)'
    BY <1>1 DEF Stands
  <1> QED
    BY <1>2, <1>3, NoNewVersion

\* One row written: what it may become is what it was or the row.
LEMMA PutVersions ==
  ASSUME NEW s \in Sessions, NEW t, NEW i, NEW row, Shape, Put(s, t, i, row), db' = db
  PROVE  /\ \A u, j : <<u, j>> # <<t, i>> => Versions(u, j)' = Versions(u, j)
         /\ Versions(t, i)' \subseteq Versions(t, i) \cup {row}
  <1>1. /\ \A o \in Sessions \ {s} : mine'[o] = mine[o]
        /\ DOMAIN mine'[s] = DOMAIN mine[s] \cup {<<t, i>>}
        /\ mine'[s][<<t, i>>] = row
        /\ \A x \in DOMAIN mine[s] : x # <<t, i>> => mine'[s][x] = mine[s][x]
    BY PutEffect
  <1>2. ASSUME NEW u, NEW j, <<u, j>> # <<t, i>>
        PROVE  Versions(u, j)' = Versions(u, j)
    <2>1. \A o \in Sessions :
            /\ <<u, j>> \in DOMAIN mine'[o] <=> <<u, j>> \in DOMAIN mine[o]
            /\ <<u, j>> \in DOMAIN mine[o] => mine'[o][<<u, j>>] = mine[o][<<u, j>>]
      BY <1>1, <1>2
    <2> QED
      BY <2>1, SameVersions
  <1>3. ASSUME NEW x \in Versions(t, i)', x # row
        PROVE  x \in Versions(t, i)
    <2>1. \/ x = db[t][i]
          \/ \E o \in Sessions : <<t, i>> \in DOMAIN mine'[o] /\ mine'[o][<<t, i>>] = x
      BY VersionNext
    <2>2. x # None
      BY VersionNext
    <2>3. ASSUME NEW o \in Sessions, <<t, i>> \in DOMAIN mine'[o], mine'[o][<<t, i>>] = x
          PROVE  <<t, i>> \in DOMAIN mine[o] /\ mine[o][<<t, i>>] = x
      BY <1>1, <1>3, <2>3
    <2> QED
      BY <2>1, <2>2, <2>3, Version
  <1> QED
    BY <1>2, <1>3

\* A row may be saved under a text that no version of another row carries.
LEMMA PutKeepsKeys ==
  ASSUME KeysInv, NEW s \in Sessions, NEW t \in Tables, NEW i \in Ids, NEW row, Shape,
         Put(s, t, i, row), db' = db,
         \A j \in Ids \ {i} : \A y \in Versions(t, j) :
           row # None /\ row.key = y.key => row.key = None
  PROVE  KeysInv'
  <1>1. /\ \A u, j : <<u, j>> # <<t, i>> => Versions(u, j)' = Versions(u, j)
        /\ Versions(t, i)' \subseteq Versions(t, i) \cup {row}
    BY PutVersions
  <1> SUFFICES ASSUME NEW u \in Tables, NEW j \in Ids, NEW k \in Ids, j # k,
                      NEW x \in Versions(u, j)', NEW y \in Versions(u, k)', x.key = y.key
               PROVE  x.key = None
    BY DEF KeysInv
  <1>2. x # None /\ y # None
    BY VersionNext
  <1>3. CASE <<u, j>> = <<t, i>> /\ x = row
    <2>1. u = t /\ j = i /\ <<u, k>> # <<t, i>>
      BY <1>3
    <2>2. y \in Versions(t, k) /\ k \in Ids \ {i}
      BY <1>1, <2>1
    <2> QED
      BY <1>2, <1>3, <2>2
  <1>4. CASE <<u, k>> = <<t, i>> /\ y = row
    <2>1. u = t /\ k = i /\ <<u, j>> # <<t, i>>
      BY <1>4
    <2>2. x \in Versions(t, j) /\ j \in Ids \ {i}
      BY <1>1, <2>1
    <2> QED
      BY <1>2, <1>4, <2>2
  <1>5. CASE ~(<<u, j>> = <<t, i>> /\ x = row) /\ ~(<<u, k>> = <<t, i>> /\ y = row)
    <2>1. x \in Versions(u, j)
      BY <1>1, <1>5
    <2>2. y \in Versions(u, k)
      BY <1>1, <1>5
    <2> QED
      BY <2>1, <2>2 DEF KeysInv
  <1> QED
    BY <1>3, <1>4, <1>5

\* No index entry is in a save's way, settled or not: no version has its text.
LEMMA FreeText ==
  ASSUME NEW s \in Sessions, NEW t, NEW i, NEW key,
         ~KeyUnsettled(s, t, i, key), ~KeyClash(s, t, i, key),
         NEW j \in Ids \ {i}, NEW y \in Versions(t, j), y.key = key,
         <<t, j>> \notin DOMAIN mine[s]
  PROVE  key = None
  <1> SUFFICES ASSUME key # None PROVE FALSE
    OBVIOUS
  <1>1. /\ y # None
        /\ \/ y = db[t][j]
           \/ \E o \in Sessions : <<t, j>> \in DOMAIN mine[o] /\ mine[o][<<t, j>>] = y
    BY Version
  <1>2. CASE y = db[t][j]
    <2>1. RowFor(s, t, j) = y
      BY <1>2 DEF RowFor
    <2> QED
      BY <1>1, <2>1 DEF KeyClash
  <1>3. ASSUME NEW o \in Sessions, <<t, j>> \in DOMAIN mine[o], mine[o][<<t, j>>] = y
        PROVE  FALSE
    <2>1. o # s
      BY <1>3
    <2>2. HeldByOther(s, t, j) /\ y \in VersionsOf(s, t, j)
      BY <1>1, <1>3, <2>1 DEF HeldByOther, VersionsOf
    <2>3. j \in Unsettled(s, t) \ {i}
      BY <2>2 DEF Unsettled
    <2> QED
      BY <2>2, <2>3 DEF KeyUnsettled
  <1> QED
    BY <1>1, <1>2, <1>3

\* Nothing is assigned or given up by a write of another table.
LEMMA PutKeepsGiven ==
  ASSUME GivenInv, NEW s \in Sessions, NEW t, NEW i, NEW row, Shape,
         Put(s, t, i, row), db' = db, t # "given", t = "roles" => row # None
  PROVE  GivenInv'
  <1>1. /\ \A o \in Sessions \ {s} : mine'[o] = mine[o]
        /\ DOMAIN mine'[s] = DOMAIN mine[s] \cup {<<t, i>>}
        /\ mine'[s][<<t, i>>] = row
        /\ \A x \in DOMAIN mine[s] : x # <<t, i>> => mine'[s][x] = mine[s][x]
    BY PutEffect
  <1>2. ASSUME NEW j \in Ids
        PROVE  Assigned(j)' = Assigned(j)
    <2>1. <<"given", j>> # <<t, i>>
      OBVIOUS
    <2> QED
      BY <2>1, PutVersions DEF Assigned
  <1>3. ASSUME NEW j \in Ids, Stands(j)
        PROVE  Stands(j)'
    <2>1. ASSUME NEW o \in Sessions, <<"roles", j>> \in DOMAIN mine'[o]
          PROVE  mine'[o][<<"roles", j>>] # None
      BY <1>1, <1>3, <2>1 DEF Stands
    <2> QED
      BY <1>3, <2>1 DEF Stands
  <1> QED
    BY <1>2, <1>3 DEF GivenInv

LEMMA SaveKeepsTables ==
  ASSUME IInv, KeysInv, GivenInv, NEW s \in Sessions, Save(s)
  PROVE  KeysInv' /\ GivenInv'
  <1> DEFINE q == tx[s].q
  <1>a. PICK t \in Tables : t = TableOf(q.kind)
    BY Running DEF Save, Due
  <1>b. PICK i \in Ids : i = tx[s].id
    BY Running DEF Save, Due
  <1>c. PICK row : row = SavedRow(q, tx[s].seen)
    OBVIOUS
  <1>d. PICK gone \in BOOLEAN : gone <=> ~Creates(q.kind) /\ RowFor(s, t, i) = None
    OBVIOUS
  <1>1. /\ tx[s] # None /\ tx[s].todo # <<>> /\ Head(tx[s].todo) = "write"
        /\ ~Deletes(q.kind) /\ q.kind # "setRoles"
        /\ ~gone => ~KeyUnsettled(s, t, i, row.key)
    BY <1>a, <1>b, <1>c, <1>d DEF Save, Due
  <1>2. /\ TypeOK /\ InFlight(s) /\ q \in AllRequests /\ q.kind \in Kinds
    BY <1>1, Running
  <1>3. tx[s].todo = Steps(q) /\ q.kind # "activate"
    BY <1>1, <1>2, Step
  <1>4. DOMAIN mine[s] = {}
    BY <1>1, <1>3, Running
  <1>5. row \in Row(t) /\ row # None
    <2>1. row \in Row(t)
      BY <1>a, <1>c, <1>1, <1>2, <1>3, Saved DEF InFlight
    <2> QED
      BY <2>1, Rows
  <1>6. t # "given"
    BY <1>a, <1>1, <1>2, Kind
  <1>7. ASSUME NEW how, Fail(s, how)
        PROVE  KeysInv' /\ GivenInv'
    BY <1>7, Held, EndEffect, WritesNothing DEF Fail
  <1>8. ASSUME Proceed(s), UNCHANGED <<mine, next>>
        PROVE  KeysInv' /\ GivenInv'
    BY <1>8, WritesNothing DEF Proceed
  <1>9. ASSUME ~gone, ~KeyClash(s, t, i, row.key), Put(s, t, i, row), Proceed(s)
        PROVE  KeysInv' /\ GivenInv'
    <2>1. ASSUME NEW j \in Ids \ {i}, NEW y \in Versions(t, j), row.key = y.key
          PROVE  row.key = None
      <3>1. ~KeyUnsettled(s, t, i, row.key) /\ ~KeyClash(s, t, i, row.key)
        BY <1>1, <1>9
      <3>2. <<t, j>> \notin DOMAIN mine[s]
        BY <1>4
      <3> QED
        BY <2>1, <3>1, <3>2, FreeText
    <2>4. Shape /\ db' = db
      BY <1>9, Held DEF Proceed
    <2>5. KeysInv'
      BY <1>9, <2>1, <2>4, PutKeepsKeys
    <2>6. GivenInv'
      BY <1>5, <1>6, <1>9, <2>4, PutKeepsGiven
    <2> QED
      BY <2>5, <2>6
  <1>10. \/ \E how : Fail(s, how)
         \/ Proceed(s) /\ UNCHANGED <<mine, next>>
         \/ ~gone /\ ~KeyClash(s, t, i, row.key) /\ Put(s, t, i, row) /\ Proceed(s)
    BY <1>a, <1>b, <1>c, <1>d DEF Save
  <1> QED
    BY <1>7, <1>8, <1>9, <1>10

\* An assignment waits for whoever deletes its role.
LEMMA SetRolesKeepsTables ==
  ASSUME IInv, KeysInv, GivenInv, NEW s \in Sessions, SetRoles(s)
  PROVE  KeysInv' /\ GivenInv'
  <1>1. PICK i \in Ids : i = tx[s].id
    BY Running DEF SetRoles, Due
  <1>2. PICK row : row = SavedRow(tx[s].q, None)
    OBVIOUS
  <1>3. /\ tx[s] # None /\ tx[s].todo # <<>> /\ Head(tx[s].todo) = "write"
        /\ tx[s].q.kind = "setRoles"
        /\ ~HeldByOther(s, "given", i) /\ ~HeldByOther(s, "roles", i)
    BY <1>1 DEF SetRoles, Due
  <1>4. TypeOK /\ InFlight(s) /\ tx[s].q.kind \in Kinds
    BY <1>3, Running
  <1>5. tx[s].todo = Steps(tx[s].q) /\ DOMAIN mine[s] = {}
    BY <1>3, <1>4, Step, Running
  <1>6. row.key = None
    <2>1. TableOf(tx[s].q.kind) = "given"
      BY <1>3 DEF TableOf
    <2> QED
      BY <1>2, <2>1 DEF SavedRow
  <1>7. CASE Fail(s, "generic")
    BY <1>7, Held, EndEffect, WritesNothing DEF Fail
  <1>8. ASSUME db["roles"][i] # None, Put(s, "given", i, row), Proceed(s)
        PROVE  KeysInv' /\ GivenInv'
    <2>1. Shape /\ db' = db /\ "given" \in Tables
      BY <1>8, Held DEF Proceed, Tables
    <2>2. KeysInv'
      BY <1>6, <1>8, <2>1, PutKeepsKeys
    <2>3. \A o \in Sessions : <<"roles", i>> \notin DOMAIN mine[o]
      BY <1>3, <1>5 DEF HeldByOther
    <2>4. /\ \A o \in Sessions \ {s} : mine'[o] = mine[o]
          /\ DOMAIN mine'[s] = {<<"given", i>>}
      <3>1. /\ \A o \in Sessions \ {s} : mine'[o] = mine[o]
            /\ DOMAIN mine'[s] = DOMAIN mine[s] \cup {<<"given", i>>}
        BY <1>8, <2>1, PutEffect
      <3> QED
        BY <1>5, <3>1
    <2>5. ASSUME NEW j \in Ids, Stands(j) \/ j = i
          PROVE  Stands(j)'
      <3>1. ASSUME NEW o \in Sessions, <<"roles", j>> \in DOMAIN mine'[o]
            PROVE  <<"roles", j>> \in DOMAIN mine[o] /\ mine'[o] = mine[o]
        BY <2>4, <3>1
      <3> QED
        BY <1>8, <2>1, <2>3, <2>5, <3>1 DEF Stands
    <2>6. ASSUME NEW j \in Ids \ {i}
          PROVE  Assigned(j)' = Assigned(j)
      <3>1. <<"given", j>> # <<"given", i>>
        OBVIOUS
      <3> QED
        BY <1>8, <2>1, <3>1, PutVersions DEF Assigned
    <2>7. GivenInv'
      BY <2>5, <2>6 DEF GivenInv
    <2> QED
      BY <2>2, <2>7
  <1> QED
    BY <1>1, <1>2, <1>7, <1>8 DEF SetRoles

\* A role's deletion waits for whoever assigns it.
LEMMA DeleteKeepsTables ==
  ASSUME IInv, KeysInv, GivenInv, NEW s \in Sessions, Delete(s)
  PROVE  KeysInv' /\ GivenInv'
  <1>1. PICK i \in Ids : i = tx[s].id
    BY Running DEF Delete, Due
  <1>2. PICK t \in Tables : t = TableOf(tx[s].q.kind)
    BY Running DEF Delete, Due
  <1>3. /\ tx[s] # None /\ tx[s].todo # <<>> /\ Head(tx[s].todo) = "write"
        /\ Deletes(tx[s].q.kind)
        /\ t = "roles" => ~HeldByOther(s, "given", i)
    BY <1>1, <1>2 DEF Delete, Due
  <1>4. TypeOK /\ InFlight(s) /\ tx[s].q.kind \in Kinds
    BY <1>3, Running
  <1>5. tx[s].todo = Steps(tx[s].q) /\ DOMAIN mine[s] = {}
    BY <1>3, <1>4, Step, Running
  <1>6. t # "given"
    BY <1>2, <1>3, <1>4, Kind DEF Deletes
  <1>7. ASSUME NEW how, Fail(s, how)
        PROVE  KeysInv' /\ GivenInv'
    BY <1>7, Held, EndEffect, WritesNothing DEF Fail
  <1>8. ASSUME Proceed(s), UNCHANGED <<mine, next>>
        PROVE  KeysInv' /\ GivenInv'
    BY <1>8, WritesNothing DEF Proceed
  <1>9. ASSUME ~(t = "roles" /\ db["roles"][i] # None /\ db["given"][i] # None),
               db[t][i] # None, Put(s, t, i, None), Proceed(s)
        PROVE  KeysInv' /\ GivenInv'
    <2>1. Shape /\ db' = db
      BY <1>9, Held DEF Proceed
    <2>2. KeysInv'
      BY <1>9, <2>1, PutKeepsKeys
    <2>3. CASE t # "roles"
      BY <1>6, <1>9, <2>1, <2>2, <2>3, PutKeepsGiven
    <2>4. CASE t = "roles"
      <3>1. /\ \A o \in Sessions \ {s} : mine'[o] = mine[o]
            /\ DOMAIN mine'[s] = {<<"roles", i>>}
        <4>1. /\ \A o \in Sessions \ {s} : mine'[o] = mine[o]
              /\ DOMAIN mine'[s] = DOMAIN mine[s] \cup {<<"roles", i>>}
          BY <1>9, <2>1, <2>4, PutEffect
        <4> QED
          BY <1>5, <4>1
      <3>2. ASSUME NEW j \in Ids
            PROVE  Assigned(j)' = Assigned(j)
        <4>1. <<"given", j>> # <<t, i>>
          BY <2>4
        <4> QED
          BY <1>9, <2>1, <4>1, PutVersions DEF Assigned
      <3>3. ~Assigned(i)
        <4>1. db["given"][i] = None
          BY <1>9, <2>4
        <4>2. \A o \in Sessions : <<"given", i>> \notin DOMAIN mine[o]
          BY <1>3, <1>5, <2>4 DEF HeldByOther
        <4> QED
          BY <4>1, <4>2 DEF Versions, Assigned
      <3>4. ASSUME NEW j \in Ids \ {i}, Stands(j)
            PROVE  Stands(j)'
        <4>1. ASSUME NEW o \in Sessions, <<"roles", j>> \in DOMAIN mine'[o]
              PROVE  <<"roles", j>> \in DOMAIN mine[o] /\ mine'[o] = mine[o]
          BY <3>1, <4>1
        <4> QED
          BY <2>1, <3>4, <4>1 DEF Stands
      <3>5. GivenInv'
        BY <3>2, <3>3, <3>4 DEF GivenInv
      <3> QED
        BY <2>2, <3>5
    <2> QED
      BY <2>3, <2>4
  <1>10. \/ \E how : Fail(s, how)
         \/ Proceed(s) /\ UNCHANGED <<mine, next>>
         \/ /\ ~(t = "roles" /\ db["roles"][i] # None /\ db["given"][i] # None)
            /\ db[t][i] # None /\ Put(s, t, i, None) /\ Proceed(s)
    BY <1>1, <1>2 DEF Delete
  <1> QED
    BY <1>7, <1>8, <1>9, <1>10

\* An activation writes rule sets under the texts they have.
LEMMA FlipKeepsTables ==
  ASSUME IInv, KeysInv, GivenInv, NEW s \in Sessions, Flip(s)
  PROVE  KeysInv' /\ GivenInv'
  <1>1. PICK lowered : lowered = tx[s].others \cap ActiveIds
    OBVIOUS
  <1>2. Lower(s, lowered) /\ db' = db /\ Shape
    BY <1>1, Held DEF Flip, Proceed
  <1>3. /\ \A o \in Sessions \ {s} : mine'[o] = mine[o]
        /\ DOMAIN mine'[s] = DOMAIN mine[s] \cup ({"sets"} \X lowered)
        /\ \A j \in lowered : mine'[s][<<"sets", j>>] = [db["sets"][j] EXCEPT !.active = FALSE]
        /\ \A x \in DOMAIN mine[s] : x \notin {"sets"} \X lowered => mine'[s][x] = mine[s][x]
    BY <1>2, FlipEffect
  <1>4. ASSUME NEW j \in lowered
        PROVE  /\ db["sets"][j] \in Versions("sets", j)
               /\ [db["sets"][j] EXCEPT !.active = FALSE].key = db["sets"][j].key
    <2>1. j \in Ids /\ db["sets"][j] # None /\ "sets" \in Tables
      BY <1>1 DEF ActiveIds, Stored, Tables
    <2>2. db["sets"][j] \in Row("sets")
      BY <2>1 DEF IInv, TypeOK
    <2>3. db["sets"][j] \in [key : Names, list : Seq(Metrics), active : BOOLEAN]
      BY <2>2 DEF Row
    <2> QED
      BY <2>1, <2>3, Version
  <1>5. ASSUME NEW t \in Tables, NEW i \in Ids, NEW x \in Versions(t, i)'
        PROVE  \E y \in Versions(t, i) : y.key = x.key
    <2>1. /\ x # None
          /\ \/ x = db[t][i]
             \/ \E o \in Sessions : <<t, i>> \in DOMAIN mine'[o] /\ mine'[o][<<t, i>>] = x
      BY <1>2, VersionNext
    <2>2. CASE x = db[t][i]
      <3>1. x \in Versions(t, i)
        BY <2>1, <2>2, Version
      <3> QED
        BY <3>1
    <2>3. ASSUME NEW o \in Sessions, <<t, i>> \in DOMAIN mine'[o], mine'[o][<<t, i>>] = x
          PROVE  \E y \in Versions(t, i) : y.key = x.key
      <3>1. CASE o = s /\ t = "sets" /\ i \in lowered
        <4>1. x = [db["sets"][i] EXCEPT !.active = FALSE]
          BY <1>3, <2>3, <3>1
        <4>2. db["sets"][i] \in Versions(t, i) /\ db["sets"][i].key = x.key
          BY <1>4, <3>1, <4>1
        <4> QED
          BY <4>2
      <3>2. CASE ~(o = s /\ t = "sets" /\ i \in lowered)
        <4>1. <<t, i>> \in DOMAIN mine[o] /\ mine[o][<<t, i>>] = x
          BY <1>3, <2>3, <3>2
        <4>2. x \in Versions(t, i)
          BY <2>1, <4>1, Version
        <4> QED
          BY <4>2
      <3> QED
        BY <3>1, <3>2
    <2> QED
      BY <2>1, <2>2, <2>3
  <1>6. KeysInv'
    BY <1>5, NoNewText
  <1>7. GivenInv'
    <2>1. \A u \in {"given", "roles"}, i \in Ids, o \in Sessions :
            /\ <<u, i>> \in DOMAIN mine'[o] <=> <<u, i>> \in DOMAIN mine[o]
            /\ <<u, i>> \in DOMAIN mine[o] => mine'[o][<<u, i>>] = mine[o][<<u, i>>]
      BY <1>3
    <2>2. ASSUME NEW i \in Ids
          PROVE  Assigned(i)' = Assigned(i)
      <3>1. \A o \in Sessions :
              /\ <<"given", i>> \in DOMAIN mine'[o] <=> <<"given", i>> \in DOMAIN mine[o]
              /\ <<"given", i>> \in DOMAIN mine[o] =>
                   mine'[o][<<"given", i>>] = mine[o][<<"given", i>>]
        BY <2>1
      <3> QED
        BY <1>2, <3>1, SameVersions DEF Assigned
    <2>3. ASSUME NEW i \in Ids, Stands(i)
          PROVE  Stands(i)'
      <3>1. \A o \in Sessions : <<"roles", i>> \in DOMAIN mine'[o] =>
              <<"roles", i>> \in DOMAIN mine[o]
                /\ mine'[o][<<"roles", i>>] = mine[o][<<"roles", i>>]
        BY <2>1
      <3> QED
        BY <1>2, <2>3, <3>1 DEF Stands
    <2> QED
      BY <2>2, <2>3 DEF GivenInv
  <1> QED
    BY <1>6, <1>7

LEMMA RaiseKeepsTables ==
  ASSUME IInv, KeysInv, GivenInv, NEW s \in Sessions, Raise(s)
  PROVE  KeysInv' /\ GivenInv'
  <1>1. PICK i \in Ids : i = tx[s].id
    BY Running DEF Raise, Due
  <1>2. PICK old : old = RowFor(s, "sets", i)
    OBVIOUS
  <1>3. PICK row : row = [old EXCEPT !.active = TRUE]
    OBVIOUS
  <1>4. CASE Fail(s, "generic")
    BY <1>4, Held, EndEffect, WritesNothing DEF Fail
  <1>5. ASSUME Put(s, "sets", i, row), Proceed(s)
        PROVE  KeysInv' /\ GivenInv'
    <2>1. Shape /\ db' = db /\ "sets" \in Tables
      BY <1>5, Held DEF Proceed, Tables
    <2>2. old \in Row("sets")
      <3>1. /\ tx[s] # None /\ tx[s].todo # <<>> /\ Head(tx[s].todo) = "raise"
        BY DEF Raise, Due
      <3>2. InFlight(s)
        BY <3>1, Running
      <3>3. Activates(tx[s].q) /\ tx[s].todo = <<"raise">>
        BY <3>1, <3>2, Step
      <3>4. tx[s].todo # Steps(tx[s].q)
        BY <3>3, Lists
      <3> QED
        BY <1>1, <1>2, <3>1, <3>3, <3>4, Activating
    <2>3. old # None /\ row.key = old.key
      <3>1. old \in [key : Names, list : Seq(Metrics), active : BOOLEAN]
        BY <2>2 DEF Row
      <3> QED
        BY <1>3, <2>1, <2>2, <3>1, Rows
    <2>4. old \in Versions("sets", i)
      BY <1>2, <2>3, Version DEF RowFor
    <2>5. \A j \in Ids \ {i} : \A y \in Versions("sets", j) : row.key = y.key => row.key = None
      BY <2>1, <2>3, <2>4 DEF KeysInv
    <2>6. KeysInv'
      BY <1>5, <2>1, <2>5, PutKeepsKeys
    <2>7. GivenInv'
      BY <1>5, <2>1, PutKeepsGiven
    <2> QED
      BY <2>6, <2>7
  <1> QED
    BY <1>1, <1>2, <1>3, <1>4, <1>5 DEF Raise

\* A commit chooses among the versions there are.
LEMMA CommitKeepsTables ==
  ASSUME IInv, KeysInv, GivenInv, NEW s \in Sessions, Commit(s)
  PROVE  KeysInv' /\ GivenInv'
  <1>1. CASE Orphans(s) # {}
    <2>1. Fail(s, "generic")
      BY <1>1, CommitFails
    <2> QED
      BY <2>1, Held, EndEffect, WritesNothing DEF Fail
  <1>2. CASE Orphans(s) = {}
    <2>1. /\ \A t \in Tables, i \in Ids : db'[t][i] = RowFor(s, t, i)
          /\ DOMAIN mine'[s] = {}
          /\ \A o \in Sessions \ {s} : mine'[o] = mine[o]
      BY <1>2, CommitEffect
    <2>2. ASSUME NEW t \in Tables, NEW i \in Ids, NEW x \in Versions(t, i)'
          PROVE  x \in Versions(t, i)
      <3>1. /\ x # None
            /\ \/ x = db'[t][i]
               \/ \E o \in Sessions : <<t, i>> \in DOMAIN mine'[o] /\ mine'[o][<<t, i>>] = x
        BY VersionNext
      <3>2. CASE x = db'[t][i]
        BY <2>1, <3>1, <3>2, Version DEF RowFor
      <3>3. ASSUME NEW o \in Sessions, <<t, i>> \in DOMAIN mine'[o], mine'[o][<<t, i>>] = x
            PROVE  x \in Versions(t, i)
        <4>1. o # s /\ mine'[o] = mine[o]
          BY <2>1, <3>3
        <4> QED
          BY <3>1, <3>3, <4>1, Version
      <3> QED
        BY <3>1, <3>2, <3>3
    <2>3. ASSUME NEW i \in Ids, Stands(i)
          PROVE  Stands(i)'
      <3>1. db'["roles"][i] = RowFor(s, "roles", i)
        BY <2>1 DEF Tables
      <3>2. db'["roles"][i] # None
        BY <2>3, <3>1 DEF RowFor, Stands
      <3>3. ASSUME NEW o \in Sessions, <<"roles", i>> \in DOMAIN mine'[o]
            PROVE  mine'[o][<<"roles", i>>] # None
        BY <2>1, <2>3, <3>3 DEF Stands
      <3> QED
        BY <3>2, <3>3 DEF Stands
    <2> QED
      BY <2>2, <2>3, NoNewVersion
  <1> QED
    BY <1>1, <1>2

\* The pools have no texts and no roles.
LEMMA PoolsKeepTables ==
  ASSUME IInv, KeysInv, GivenInv, Pools
  PROVE  KeysInv' /\ GivenInv'
  <1>1. mine' = mine /\ db \in [Tables -> [Ids -> AnyRow \cup {None}]]
    BY DEF Pools, IInv, TypeOK
  <1>2. "mapPool" \in Tables /\ "heroPool" \in Tables
    BY DEF Tables
  <1>3. /\ \A t \in Tables \ {"mapPool", "heroPool"} : db'[t] = db[t]
        /\ \A t \in Tables, i \in Ids :
             db'[t][i] # None => db'[t][i] = db[t][i] \/ db'[t][i].key = None
    <2>1. ASSUME NEW ms \in SUBSET Ids, AddMaps(ms)
          PROVE  <1>3!:
      <3>1. db' = [db EXCEPT !["mapPool"] =
                     [m \in Ids |-> IF m \in ms THEN [key |-> None] ELSE db["mapPool"][m]]]
        BY <2>1 DEF AddMaps
      <3> QED
        BY <1>1, <1>2, <3>1
    <2>2. ASSUME NEW hs \in SUBSET Ids, AddHeroes(hs)
          PROVE  <1>3!:
      <3>1. db' = [db EXCEPT !["heroPool"] =
                     [h \in Ids |-> IF h \in hs THEN [key |-> None] ELSE db["heroPool"][h]]]
        BY <2>2 DEF AddHeroes
      <3> QED
        BY <1>1, <1>2, <3>1
    <2>3. ASSUME NEW h \in Ids, RemoveHero(h)
          PROVE  <1>3!:
      <3>1. db' = [db EXCEPT !["heroPool"] = [db["heroPool"] EXCEPT ![h] = None]]
        BY <2>3 DEF RemoveHero
      <3> QED
        BY <1>1, <1>2, <3>1
    <2> QED
      BY <2>1, <2>2, <2>3 DEF Pools
  <1>4. ASSUME NEW t \in Tables, NEW i \in Ids, NEW x \in Versions(t, i)'
        PROVE  x.key = None \/ \E y \in Versions(t, i) : y.key = x.key
    <2>1. /\ x # None
          /\ \/ x = db'[t][i]
             \/ \E o \in Sessions : <<t, i>> \in DOMAIN mine[o] /\ mine[o][<<t, i>>] = x
      BY <1>1, VersionNext
    <2>2. CASE x = db'[t][i] /\ x.key # None
      <3>1. x = db[t][i]
        BY <1>3, <2>1, <2>2
      <3>2. x \in Versions(t, i)
        BY <2>1, <3>1, Version
      <3> QED
        BY <3>2
    <2>3. CASE \E o \in Sessions : <<t, i>> \in DOMAIN mine[o] /\ mine[o][<<t, i>>] = x
      <3>1. x \in Versions(t, i)
        BY <2>1, <2>3, Version
      <3> QED
        BY <3>1
    <2> QED
      BY <2>1, <2>2, <2>3
  <1>5. KeysInv'
    BY <1>4, NoNewText
  <1>6. GivenInv'
    <2>1. db'["given"] = db["given"] /\ db'["roles"] = db["roles"]
      BY <1>3 DEF Tables
    <2>2. ASSUME NEW i \in Ids
          PROVE  Assigned(i)' = Assigned(i) /\ Stands(i)' = Stands(i)
      <3>1. Assigned(i)' = Assigned(i)
        BY <1>1, <2>1, SameVersions DEF Assigned
      <3>2. Stands(i)' = Stands(i)
        BY <1>1, <2>1 DEF Stands
      <3> QED
        BY <3>1, <3>2
    <2> QED
      BY <2>2 DEF GivenInv
  <1> QED
    BY <1>5, <1>6

\* No text is in two rows and no assigned role is missing, nor will be, whoever commits first.
THEOREM TextsStayUnique == Spec => [](KeysInv /\ GivenInv)
  <1>1. Init => KeysInv /\ GivenInv
    <2> SUFFICES ASSUME Init PROVE KeysInv /\ GivenInv
      OBVIOUS
    <2>1. /\ db = [t \in Tables |-> [i \in Ids |-> IF i \in DOMAIN Start0[t]
                                                   THEN Start0[t][i] ELSE None]]
          /\ \A s \in Sessions : DOMAIN mine[s] = {}
      <3>1. DOMAIN Nothing = {}
        BY DEF Nothing
      <3> QED
        BY <3>1 DEF Init
    <2>2. ASSUME NEW t \in Tables, NEW i \in Ids, NEW x \in Versions(t, i)
          PROVE  i \in DOMAIN Start0[t] /\ x = Start0[t][i]
      <3>1. x # None /\ x = db[t][i]
        BY <2>1, Version
      <3> QED
        BY <2>1, <3>1
    <2>3. KeysInv
      BY <2>2, StartAssumption DEF KeysInv
    <2>4. GivenInv
      <3> SUFFICES ASSUME NEW i \in Ids, NEW x \in Versions("given", i)
                   PROVE  db["roles"][i] # None
        BY <2>1 DEF GivenInv, Assigned, Stands
      <3>1. "given" \in Tables /\ "roles" \in Tables
        BY DEF Tables
      <3>2. i \in DOMAIN Start0["roles"]
        BY <2>2, <3>1, StartAssumption
      <3>3. Start0["roles"][i] \in Row("roles")
        <4>1. Start0["roles"] \in Seq(Row("roles"))
          BY <3>1, StartAssumption
        <4> QED
          BY <3>2, <4>1
      <3> QED
        BY <2>1, <3>1, <3>2, <3>3, NoneAssumption
    <2> QED
      BY <2>3, <2>4
  <1>2. IInv /\ (KeysInv /\ GivenInv) /\ [Next]_vars => (KeysInv /\ GivenInv)'
    <2> SUFFICES ASSUME IInv, KeysInv, GivenInv, [Next]_vars PROVE KeysInv' /\ GivenInv'
      OBVIOUS
    <2>1. ASSUME NEW s \in Sessions, NEW q \in AllRequests, Start(s, q)
          PROVE  KeysInv' /\ GivenInv'
      BY <2>1, WritesNothing DEF Start
    <2>2. ASSUME NEW s \in Sessions, Deactivate(s)
          PROVE  KeysInv' /\ GivenInv'
      BY <2>2, WritesNothing DEF Deactivate
    <2>3. ASSUME NEW s \in Sessions, NEW how, Fail(s, how)
          PROVE  KeysInv' /\ GivenInv'
      BY <2>3, Held, EndEffect, WritesNothing DEF Fail
    <2>4. ASSUME NEW s \in Sessions, Recheck(s)
          PROVE  KeysInv' /\ GivenInv'
      <3>1. CASE Fail(s, "named")
        BY <2>3, <3>1
      <3>2. CASE Proceed(s) /\ UNCHANGED <<mine, next>>
        BY <3>2, WritesNothing DEF Proceed
      <3> QED
        BY <2>4, <3>1, <3>2 DEF Recheck
    <2>5. ASSUME NEW s \in Sessions, \/ Save(s) \/ SetRoles(s) \/ Delete(s) \/ Flip(s)
                                     \/ Raise(s) \/ Commit(s)
          PROVE  KeysInv' /\ GivenInv'
      BY <2>5, SaveKeepsTables, SetRolesKeepsTables, DeleteKeepsTables, FlipKeepsTables,
         RaiseKeepsTables, CommitKeepsTables
    <2>6. ASSUME NEW s \in Sessions, Abort(s)
          PROVE  KeysInv' /\ GivenInv'
      BY <2>3, <2>6 DEF Abort
    <2>7. CASE Pools
      BY <2>7, PoolsKeepTables
    <2>8. CASE UNCHANGED vars
      BY <2>8 DEF vars, KeysInv, GivenInv, Assigned, Stands, Versions
    <2> QED
      BY <2>1, <2>2, <2>4, <2>5, <2>6, <2>7, <2>8 DEF Next
  <1> QED
    BY <1>1, <1>2, Inductive, PTL DEF Spec

-----------------------------------------------------------------------------
(* The results.                                                            *)

\* Tables, sequences and transactions keep their types, and every row its table's shape.
THEOREM TypeCorrect == Spec => []TypeOK
  <1>1. IInv => TypeOK
    BY DEF IInv
  <1> QED
    BY <1>1, Inductive, PTL

\* What removals of boards promise: a refusal by name, at the delete, at the recheck or, by
\* the row locks, at no commit (remove_from_pool, check_map_in_pool_now).
THEOREM RemovalsNameTheirBoard == Spec => []RemovalNamesItsBoard
  <1>1. IInv => RemovalNamesItsBoard
    BY DEF IInv
  <1> QED
    BY <1>1, Inductive, PTL

\* What two admins who both passed their checks leave behind is sound, in every committed
\* state: the waits of the unique indexes and of the foreign key of an assignment, the waits of
\* uq_scoring_rule_set_active, and the deferred check of match_game_map_in_pool, made by each
\* transaction of what it sees with the pool row locked, are enough for it.
THEOREM TablesAreSound == Spec => []TablesHold
  <1>1. IInv /\ KeysInv /\ GivenInv => TablesHold
    <2> SUFFICES ASSUME IInv, KeysInv, GivenInv PROVE TablesHold
      OBVIOUS
    <2>1. \A t \in Tables, i \in Ids : db[t][i] # None => db[t][i] \in Versions(t, i)
      BY Version
    <2>2. \A t \in Tables : \A i, j \in Stored(t) :
            db[t][i].key = db[t][j].key => i = j \/ db[t][i].key = None
      BY <2>1 DEF KeysInv, Stored
    <2>3. Stored("given") \subseteq Stored("roles")
      <3>1. "given" \in Tables
        BY DEF Tables
      <3> QED
        BY <2>1, <3>1 DEF GivenInv, Assigned, Stands, Stored
    <2> QED
      BY <2>2, <2>3 DEF IInv, BoardInv, FlagInv, TablesHold
  <1> QED
    BY <1>1, Inductive, TextsStayUnique, PTL

\* Only a statement of its own ends a request.
LEMMA EndsOnlyItself ==
  ASSUME IInv, NEW s \in Sessions, NEW how, NEW o \in Sessions, End(o, how)
  PROVE  /\ o # s => answer'[s] = answer[s]
         /\ answer'[o].how = how
  BY DEF End, IInv, TypeOK

\* A request ends in one of these ways.
LEMMA HowItEnds ==
  ASSUME IInv, [Next]_vars, NEW s \in Sessions, NEW how, Ends(s, how)
  PROVE  /\ tx[s] # None
         /\ \/ how = "ok" /\ Commit(s) /\ Orphans(s) = {}
            \/ how # "ok" /\ Fail(s, how)
                 /\ \/ Save(s) \/ SetRoles(s) \/ Delete(s) \/ Raise(s) \/ Recheck(s) \/ Commit(s)
                    \/ how = "dropped"
  <1>1. answer'[s] # answer[s] /\ answer'[s] # None /\ answer'[s].how = how
    BY DEF Ends
  <1>2. answer \in [Sessions -> [kind : Kinds, how : {"ok", "generic", "named", "dropped"}]
                                  \cup {None}]
    BY DEF IInv, TypeOK
  <1>3. ~UNCHANGED vars /\ ~Pools
    BY <1>1 DEF vars, Pools
  <1>4. \A o \in Sessions, q \in AllRequests : ~Start(o, q)
    BY <1>1, <1>2 DEF Start
  <1>5. PICK o \in Sessions :
           \/ Save(o) \/ SetRoles(o) \/ Delete(o) \/ Deactivate(o) \/ Flip(o) \/ Raise(o)
           \/ Recheck(o) \/ Commit(o) \/ Abort(o)
    BY <1>3, <1>4 DEF Next
  <1>6. UNCHANGED answer \/ \E h : End(o, h)
    BY <1>5 DEF Save, SetRoles, Delete, Deactivate, Flip, Raise, Recheck, Commit, Abort, Fail,
                Proceed
  <1>7. PICK h : End(o, h)
    BY <1>1, <1>6
  <1>8. o = s
    BY <1>1, <1>7, EndsOnlyItself
  <1>9. answer' # answer
    BY <1>1
  <1>10. CASE Commit(s)
    <2>1. CASE Orphans(s) # {}
      <3>1. Fail(s, "generic") /\ tx[s] # None
        BY <1>10, <2>1, CommitFails
      <3>2. how = "generic"
        BY <1>1, <3>1, EndsOnlyItself DEF Fail
      <3> QED
        BY <1>10, <3>1, <3>2
    <2>2. CASE Orphans(s) = {}
      <3>1. End(s, "ok") /\ tx[s] # None
        BY <1>10, <2>2 DEF Commit
      <3>2. how = "ok"
        BY <1>1, <3>1, EndsOnlyItself
      <3> QED
        BY <1>10, <2>2, <3>1, <3>2
    <2> QED
      BY <2>1, <2>2
  <1>11. CASE ~Commit(s)
    <2>1. tx[s] # None
      BY <1>5, <1>8, <1>11 DEF Save, SetRoles, Delete, Deactivate, Flip, Raise, Recheck, Due, Abort
    <2>2. PICK k \in {"generic", "named", "dropped"} :
            /\ Fail(s, k)
            /\ \/ Save(s) \/ SetRoles(s) \/ Delete(s) \/ Raise(s) \/ Recheck(s)
               \/ k = "dropped"
      BY <1>5, <1>8, <1>9, <1>11
         DEF Save, SetRoles, Delete, Deactivate, Flip, Raise, Recheck, Abort, Proceed
    <2>3. how = k
      BY <1>1, <2>2, EndsOnlyItself DEF Fail
    <2> QED
      BY <2>1, <2>2, <2>3
  <1> QED
    BY <1>10, <1>11
\* What a commit does to the flag and to a match: the step of CarriedOver.
LEMMA CommitCarries ==
  ASSUME IInv, NEW s \in Sessions, tx[s] # None, Commit(s), Orphans(s) = {}
  PROVE  /\ Activates(tx[s].q) => ActiveIds' = {tx[s].id}
         /\ ~Activates(tx[s].q) /\ ~tx[s].raced => ActiveIds' = ActiveIds
         /\ tx[s].q.kind = "correct" /\ tx[s].q.round = None =>
              db'["matches"][tx[s].id].round = tx[s].seen.round
  <1> DEFINE q == tx[s].q  i == tx[s].id
  <1>1. /\ \A t \in Tables, j \in Ids : db'[t][j] = RowFor(s, t, j)
        /\ "sets" \in Tables /\ "matches" \in Tables
    BY CommitEffect DEF Tables
  <1>2. tx[s].todo = <<>>
    BY DEF Commit
  <1>3. InFlight(s) /\ Carried(s) /\ i \in Ids /\ q.kind \in Kinds
    BY Running
  <1>4. IInv'
    BY CommitKeeps
  <1>5. \A j \in Ids : j \in ActiveIds' <=>
          IF <<"sets", j>> \in DOMAIN mine[s] THEN Raised(s, j) ELSE j \in ActiveIds
    <2> TAKE j \in Ids
    <2>1. j \in ActiveIds' <=> db'["sets"][j] # None /\ db'["sets"][j].active
      BY DEF ActiveIds, Stored
    <2>2. CASE <<"sets", j>> \in DOMAIN mine[s]
      <3>1. db'["sets"][j] = mine[s][<<"sets", j>>] /\ mine[s][<<"sets", j>>] # None
        BY <1>1, <2>2 DEF RowFor, IInv, SetsInv
      <3> QED
        BY <2>1, <2>2, <3>1 DEF Raised
    <2>3. CASE <<"sets", j>> \notin DOMAIN mine[s]
      BY <1>1, <2>1, <2>3 DEF RowFor, ActiveIds, Stored
    <2> QED
      BY <2>2, <2>3
  <1>6. ActiveIds \subseteq Ids /\ ActiveIds' \subseteq Ids
    BY DEF ActiveIds, Stored
  <1>7. Activates(q) => ActiveIds' = {i}
    <2> SUFFICES ASSUME Activates(q) PROVE ActiveIds' = {i}
      OBVIOUS
    <2>1. i \in ActiveIds'
      BY <1>2, <1>3, <1>5 DEF Carried, Raised
    <2>2. \A j, k \in ActiveIds' : j = k
      BY <1>4 DEF IInv, FlagInv
    <2> QED
      BY <2>1, <2>2
  <1>8. ~Activates(q) /\ ~tx[s].raced => ActiveIds' = ActiveIds
    <2> SUFFICES ASSUME ~Activates(q), ~tx[s].raced, NEW j \in Ids, <<"sets", j>> \in DOMAIN mine[s]
                 PROVE  Raised(s, j) <=> j \in ActiveIds
      BY <1>5, <1>6
    <2>1. j = i /\ q.kind \in {"createRuleSet", "updateRuleSet"}
      <3>1. <<"sets", j>>[1] = TableOf(q.kind) /\ <<"sets", j>>[2] = i
        BY <1>3 DEF InFlight
      <3> QED
        BY <1>3, <3>1, Kind DEF Activates
    <2>2. Raised(s, i) <=> (q.kind = "updateRuleSet" /\ tx[s].seen.active)
      BY <1>2, <1>3, <2>1 DEF Carried
    <2>3. CASE q.kind = "updateRuleSet"
      BY <1>3, <2>1, <2>2, <2>3 DEF Carried
    <2>4. CASE q.kind = "createRuleSet"
      <3>1. db["sets"][i] = None
        BY <2>4 DEF IInv, SetsInv
      <3> QED
        BY <2>1, <2>2, <2>4, <3>1 DEF ActiveIds, Stored
    <2> QED
      BY <2>1, <2>3, <2>4
  <1>9. q.kind = "correct" /\ q.round = None => db'["matches"][i].round = tx[s].seen.round
    <2> SUFFICES ASSUME q.kind = "correct", q.round = None
                 PROVE  db'["matches"][i].round = tx[s].seen.round
      OBVIOUS
    <2>1. <<"matches", i>> \in DOMAIN mine[s]
      BY <1>2, <1>3 DEF Carried
    <2>2. db'["matches"][i] = SavedMatch(q, tx[s].seen)
      BY <1>1, <1>3, <2>1, Kind DEF RowFor, InFlight, Deletes
    <2> QED
      BY <2>2 DEF SavedMatch
  <1> QED
    BY <1>7, <1>8, <1>9

\* A rename keeps the active rule set, only an activation moves the flag, and a correction
\* keeps its round, whatever else is in flight (..existing in scoring and match services).
THEOREM SavesCarryOver == Spec => CarriedOver
  <1> DEFINE Step1 == \A s \in Sessions : Ends(s, "ok") =>
               LET q == tx[s].q  i == tx[s].id
               IN  /\ Activates(q) => ActiveIds' = {i}
                   /\ (~Activates(q) /\ ~tx[s].raced) => ActiveIds' = ActiveIds
                   /\ (q.kind = "correct" /\ q.round = None)
                        => db'["matches"][i].round = tx[s].seen.round
  <1>1. IInv /\ [Next]_vars => Step1
    <2> SUFFICES ASSUME IInv, [Next]_vars, NEW s \in Sessions, Ends(s, "ok")
                 PROVE  LET q == tx[s].q  i == tx[s].id
                        IN  /\ Activates(q) => ActiveIds' = {i}
                            /\ (~Activates(q) /\ ~tx[s].raced) => ActiveIds' = ActiveIds
                            /\ (q.kind = "correct" /\ q.round = None)
                                 => db'["matches"][i].round = tx[s].seen.round
      OBVIOUS
    <2>1. tx[s] # None /\ Commit(s) /\ Orphans(s) = {}
      BY HowItEnds
    <2> QED
      BY <2>1, CommitCarries
  <1> HIDE DEF Step1
  <1>2. IInv /\ [Next]_vars => [Step1]_vars
    BY <1>1
  <1>3. Spec => [][Step1]_vars
    BY <1>2, Inductive, PTL DEF Spec
  <1> QED
    BY <1>3 DEF CarriedOver, Step1

\* The text by which a request is told from another.
KeyOf(q) == IF TableOf(q.kind) = "matches" THEN q.link ELSE q.name

Saves(q) ==
  q.kind \in {"createRuleSet", "updateRuleSet", "createRole", "updateRole", "createHero",
              "updateHero", "createMap", "updateMap", "record", "correct"}

\* A save whose text is another row's, or whose row is gone, is one its own check refuses.
LEMMA Refusals ==
  ASSUME NEW q, Saves(q)
  PROVE  /\ ~Creates(q.kind) /\ q.id \notin Stored(TableOf(q.kind)) => Refused(q)
         /\ NameTaken(TableOf(q.kind), KeyOf(q), IF Creates(q.kind) THEN None ELSE q.id)
              => Refused(q)
  <1>1. CASE q.kind = "createRuleSet"
    BY <1>1 DEF Refused, CreateRuleSetRefused, TableOf, KeyOf, Creates
  <1>2. CASE q.kind = "updateRuleSet"
    BY <1>2 DEF Refused, UpdateRuleSetRefused, TableOf, KeyOf, Creates
  <1>3. CASE q.kind = "createRole"
    BY <1>3 DEF Refused, CreateRoleRefused, TableOf, KeyOf, Creates
  <1>4. CASE q.kind = "updateRole"
    BY <1>4 DEF Refused, UpdateRoleRefused, TableOf, KeyOf, Creates
  <1>5. CASE q.kind = "createHero"
    BY <1>5 DEF Refused, CreateHeroRefused, TableOf, KeyOf, Creates
  <1>6. CASE q.kind = "updateHero"
    BY <1>6 DEF Refused, UpdateHeroRefused, TableOf, KeyOf, Creates
  <1>7. CASE q.kind = "createMap"
    BY <1>7 DEF Refused, CreateMapRefused, TableOf, KeyOf, Creates
  <1>8. CASE q.kind = "updateMap"
    BY <1>8 DEF Refused, UpdateMapRefused, TableOf, KeyOf, Creates
  <1>9. CASE q.kind = "record"
    BY <1>9 DEF Refused, RecordRefused, TableOf, KeyOf, Creates
  <1>10. CASE q.kind = "correct"
    BY <1>10 DEF Refused, CorrectRefused, TableOf, KeyOf, Creates
  <1> QED
    BY <1>1, <1>2, <1>3, <1>4, <1>5, <1>6, <1>7, <1>8, <1>9, <1>10 DEF Saves
\* A failure ends the transaction, a step that succeeds does not.
LEMMA FailedOrNot ==
  ASSUME IInv, NEW s \in Sessions, NEW how, Fail(s, how), tx[s] # None, tx[s].todo # <<>>
  PROVE  ~Proceed(s)
  <1>1. tx'[s] = None
    BY DEF Fail, IInv, TypeOK
  <1> QED
    BY <1>1, ProceedEffect DEF IInv

LEMMA SaveFails ==
  ASSUME IInv, NEW s \in Sessions, Save(s), Fail(s, "generic")
  PROVE  Refused(tx[s].q) \/ tx[s].raced
  <1> DEFINE q == tx[s].q  t == TableOf(q.kind)  i == tx[s].id  row == SavedRow(q, tx[s].seen)
             gone == ~Creates(q.kind) /\ RowFor(s, t, i) = None
             flag == "active" \in DOMAIN row /\ row.active
  <1>1. /\ tx[s] # None /\ tx[s].todo # <<>> /\ Head(tx[s].todo) = "write"
        /\ ~Deletes(q.kind) /\ q.kind # "setRoles"
    BY DEF Save, Due
  <1>2. /\ InFlight(s) /\ Carried(s) /\ q \in AllRequests /\ q.kind \in Kinds
        /\ t \in Tables /\ i \in Ids
    BY <1>1, Running
  <1>3. tx[s].todo = Steps(q) /\ q.kind # "activate" /\ DOMAIN mine[s] = {}
    BY <1>1, <1>2, Step, Running
  <1>4. Saves(q)
    BY <1>1, <1>2, <1>3 DEF Saves, Kinds, Deletes
  <1>5. /\ \A j : RowFor(s, t, j) = db[t][j]
        /\ \A j : RowFor(s, "sets", j) = db["sets"][j]
    BY <1>3 DEF RowFor
  <1>6. ~Creates(q.kind) => i = q.id
    BY <1>2 DEF InFlight
  <1>7. row \in Row(t)
    BY <1>1, <1>2, <1>3, Saved DEF InFlight
  <1>8. \/ gone
        \/ KeyClash(s, t, i, row.key)
        \/ flag /\ ActiveClash(s, i)
        \/ /\ "list" \in DOMAIN row
           /\ Repeats(row.list) \/ ~(ToSet(row.list) \subseteq WellFormed)
    BY <1>1, FailedOrNot DEF Save
  <1>9. CASE gone
    BY <1>4, <1>5, <1>6, <1>9, Refusals DEF Stored
  <1>10. CASE KeyClash(s, t, i, row.key)
    <2>1. row.key = KeyOf(q)
      BY <1>2, <1>4, Kind
         DEF Saves, SavedRow, SavedRuleSet, SavedRole, SavedName, SavedMatch, KeyOf, Kinds
    <2>2. PICK j \in Ids \ {i} : db[t][j] # None /\ db[t][j].key = row.key
      BY <1>5, <1>10 DEF KeyClash
    <2>3. j \in Stored(t) \ {IF Creates(q.kind) THEN None ELSE q.id}
      BY <1>6, <2>2, NoneAssumption DEF Stored
    <2>4. NameTaken(t, KeyOf(q), IF Creates(q.kind) THEN None ELSE q.id)
      BY <2>1, <2>2, <2>3 DEF NameTaken
    <2> QED
      BY <1>4, <2>4, Refusals
  <1>11. CASE flag /\ ActiveClash(s, i)
    <2>1. t = "sets"
      BY <1>2, <1>4, <1>11, Kind
         DEF Saves, SavedRow, SavedRole, SavedName, SavedMatch, Kinds
    <2>2. row.active = (q.kind = "updateRuleSet" /\ tx[s].seen.active)
      BY <2>1 DEF SavedRow, SavedRuleSet, CarriedFlag
    <2>3. q.kind = "updateRuleSet" /\ tx[s].seen.active
      BY <1>11, <2>2
    <2>4. PICK j \in Ids \ {i} : db["sets"][j] # None /\ db["sets"][j].active
      BY <1>5, <1>11 DEF ActiveClash
    <2>5. j \in ActiveIds /\ (i \in ActiveIds => i = j)
      BY <2>4 DEF ActiveIds, Stored, IInv, FlagInv
    <2> QED
      BY <1>2, <2>3, <2>5 DEF Carried
  <1>12. CASE /\ "list" \in DOMAIN row
              /\ Repeats(row.list) \/ ~(ToSet(row.list) \subseteq WellFormed)
    <2>1. t \in {"sets", "roles"}
      BY <1>2, <1>4, <1>12, Kind DEF Saves, SavedRow, SavedName, SavedMatch, Kinds
    <2>2. row.list = ToCoefficients(q.list)
      BY <2>1 DEF SavedRow, SavedRuleSet, SavedRole
    <2>3. ~MalformedMetric(q.list) /\ ~Repeats(ToCoefficients(q.list))
      BY <1>1, <1>2, <1>3, <2>1 DEF InFlight
    <2> QED
      BY <1>12, <2>2, <2>3 DEF MalformedMetric
  <1> QED
    BY <1>8, <1>9, <1>10, <1>11, <1>12

LEMMA SetRolesFails ==
  ASSUME IInv, NEW s \in Sessions, SetRoles(s), Fail(s, "generic")
  PROVE  Refused(tx[s].q)
  <1>1. /\ tx[s] # None /\ tx[s].todo # <<>> /\ tx[s].q.kind = "setRoles"
    BY DEF SetRoles, Due
  <1>2. db["roles"][tx[s].id] = None
    BY <1>1, FailedOrNot DEF SetRoles
  <1>3. tx[s].id = tx[s].q.id
    BY <1>1, Running DEF InFlight, Creates
  <1> QED
    BY <1>1, <1>2, <1>3 DEF Refused, SetRolesRefused, Stored

LEMMA DeleteFails ==
  ASSUME IInv, NEW s \in Sessions, Delete(s), Fail(s, "generic")
  PROVE  Refused(tx[s].q)
  <1> DEFINE q == tx[s].q
  <1>1. /\ tx[s] # None /\ tx[s].todo # <<>>
        /\ q.kind \in {"deleteRole", "removeMap", "delete"}
    BY DEF Delete, Due, Deletes
  <1>2. /\ q.kind \in Kinds /\ tx[s].id = q.id /\ tx[s].id \in Ids
        /\ answer \in [Sessions -> [kind : Kinds, how : {"ok", "generic", "named", "dropped"}]
                                     \cup {None}]
    BY <1>1, Running DEF InFlight, Creates, TypeOK
  <1>3. ~Fail(s, "named")
    BY <1>2 DEF Fail, End
  <1>4. /\ TableOf(q.kind) = "roles" /\ db["given"][tx[s].id] # None
    BY <1>1, <1>3, FailedOrNot DEF Delete
  <1>5. q.kind = "deleteRole"
    BY <1>1, <1>2, <1>4, Kind
  <1> QED
    BY <1>2, <1>4, <1>5 DEF Refused, DeleteRoleRefused, Stored

LEMMA RaiseFails ==
  ASSUME IInv, NEW s \in Sessions, Raise(s), Fail(s, "generic")
  PROVE  tx[s].raced
  <1> SUFFICES ASSUME ~tx[s].raced PROVE FALSE
    OBVIOUS
  <1> DEFINE i == tx[s].id
  <1>1. tx[s] # None /\ tx[s].todo # <<>> /\ Head(tx[s].todo) = "raise"
    BY DEF Raise, Due
  <1>2. InFlight(s) /\ Carried(s)
    BY <1>1, Running
  <1>3. tx[s].todo = <<"raise">>
    BY <1>1, <1>2, Step
  <1>4. /\ tx[s].others = ActiveIds \ {i}
        /\ \A j \in tx[s].others : <<"sets", j>> \in DOMAIN mine[s]
        /\ \A j \in Ids : ~Raised(s, j)
    BY <1>1, <1>2, <1>3 DEF Carried
  <1>5. ActiveClash(s, i)
    BY <1>1, FailedOrNot DEF Raise
  <1>6. PICK j \in Ids \ {i} : RowFor(s, "sets", j) # None /\ RowFor(s, "sets", j).active
    BY <1>5 DEF ActiveClash
  <1>7. CASE <<"sets", j>> \in DOMAIN mine[s]
    BY <1>4, <1>6, <1>7 DEF RowFor, Raised
  <1>8. CASE <<"sets", j>> \notin DOMAIN mine[s]
    <2>1. j \in ActiveIds \ {i}
      BY <1>6, <1>8 DEF RowFor, ActiveIds, Stored
    <2> QED
      BY <1>4, <1>8, <2>1
  <1> QED
    BY <1>7, <1>8

LEMMA CommitRefused ==
  ASSUME IInv, NEW s \in Sessions, Commit(s), Orphans(s) # {}
  PROVE  Refused(tx[s].q)
  <1> DEFINE q == tx[s].q
  <1>1. tx[s] # None /\ q.kind # "removeMap"
    BY CommitFails
  <1>2. InFlight(s) /\ q.kind \in Kinds /\ TypeOK
    BY <1>1, Running
  <1>3. PICK i \in Ids : /\ RowFor(s, "matches", i) # None
                         /\ RowFor(s, "mapPool", RowFor(s, "matches", i).map) = None
    BY DEF Orphans
  <1>4. \A m : RowFor(s, "mapPool", m) = db["mapPool"][m]
    <2>1. TableOf(q.kind) # "mapPool"
      BY <1>1, <1>2, Kind
    <2> QED
      BY <1>2, <2>1 DEF InFlight, RowFor
  <1>5. <<"matches", i>> \in DOMAIN mine[s]
    <2> SUFFICES ASSUME <<"matches", i>> \notin DOMAIN mine[s] PROVE FALSE
      OBVIOUS
    <2>1. RowFor(s, "matches", i) = db["matches"][i]
      BY DEF RowFor
    <2> QED
      BY <1>3, <1>4, <2>1 DEF IInv, BoardInv, Stored
  <1>6. TableOf(q.kind) = "matches"
    <2>1. <<"matches", i>>[1] = TableOf(q.kind)
      BY <1>2, <1>5 DEF InFlight
    <2> QED
      BY <2>1
  <1>7. /\ ~Deletes(q.kind)
        /\ RowFor(s, "matches", i) = SavedMatch(q, tx[s].seen)
    <2>1. mine[s][<<"matches", i>>] = IF Deletes(q.kind) THEN None ELSE SavedMatch(q, tx[s].seen)
      BY <1>2, <1>5, <1>6 DEF InFlight
    <2> QED
      BY <1>3, <1>5, <2>1 DEF RowFor
  <1>8. db["mapPool"][q.map] = None
    BY <1>3, <1>4, <1>7 DEF SavedMatch
  <1>9. OutsidePools(q)
    BY <1>8 DEF OutsidePools, Stored
  <1>10. q.kind \in {"record", "correct"}
    BY <1>2, <1>6, <1>7, Kind DEF Deletes
  <1>11. CASE q.kind = "record"
    BY <1>9, <1>11 DEF Refused, RecordRefused
  <1>12. CASE q.kind = "correct"
    BY <1>9, <1>12 DEF Refused, CorrectRefused
  <1> QED
    BY <1>10, <1>11, <1>12

\* The backstop of error.rs answers races only: a request that ends with the generic 409 is
\* one that its own check would refuse by now, or that an activation overtook.
THEOREM BackstopIsForRaces == Spec => BackstopOnlyAfterRace
  <1> DEFINE Step1 == \A s \in Sessions :
                        Ends(s, "generic") => Refused(tx[s].q) \/ tx[s].raced
  <1>1. IInv /\ [Next]_vars => Step1
    <2> SUFFICES ASSUME IInv, [Next]_vars, NEW s \in Sessions, Ends(s, "generic")
                 PROVE  Refused(tx[s].q) \/ tx[s].raced
      OBVIOUS
    <2>1. /\ tx[s] # None /\ Fail(s, "generic")
          /\ \/ Save(s) \/ SetRoles(s) \/ Delete(s) \/ Raise(s) \/ Recheck(s) \/ Commit(s)
      BY HowItEnds
    <2>2. CASE Save(s)
      BY <2>1, <2>2, SaveFails
    <2>3. CASE SetRoles(s)
      BY <2>1, <2>3, SetRolesFails
    <2>4. CASE Delete(s)
      BY <2>1, <2>4, DeleteFails
    <2>5. CASE Raise(s)
      BY <2>1, <2>5, RaiseFails
    <2>6. CASE Recheck(s)
      <3>1. answer \in [Sessions -> [kind : Kinds, how : {"ok", "generic", "named", "dropped"}]
                                      \cup {None}]
        BY DEF IInv, TypeOK
      <3>2. ~Fail(s, "named")
        BY <2>1, <3>1 DEF Fail, End
      <3>3. tx[s].todo # <<>>
        BY <2>6 DEF Recheck, Due
      <3> QED
        BY <2>1, <2>6, <3>2, <3>3, FailedOrNot DEF Recheck
    <2>7. CASE Commit(s)
      <3>1. CASE Orphans(s) # {}
        BY <2>7, <3>1, CommitRefused
      <3>2. CASE Orphans(s) = {}
        <4>1. End(s, "ok")
          BY <2>7, <3>2 DEF Commit
        <4> QED
          BY <2>1, <4>1, EndsOnlyItself DEF Fail
      <3> QED
        BY <3>1, <3>2
    <2> QED
      BY <2>1, <2>2, <2>3, <2>4, <2>5, <2>6, <2>7
  <1> HIDE DEF Step1
  <1>2. IInv /\ [Next]_vars => [Step1]_vars
    BY <1>1
  <1>3. Spec => [][Step1]_vars
    BY <1>2, Inductive, PTL DEF Spec
  <1> QED
    BY <1>3 DEF BackstopOnlyAfterRace, Step1
=============================================================================
