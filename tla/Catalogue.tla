------------------------------ MODULE Catalogue ------------------------------
(***************************************************************************)
(* What admins keep for a tournament and in the catalogue: rule sets,      *)
(* roles, heroes, boards, the two pools, and the matches that refer to     *)
(* them (backend-rs/crates/umfl-server/src/{scoring,role,hero,map,match}). *)
(*                                                                         *)
(* Every save asks first and writes then, in one transaction of READ       *)
(* COMMITTED statements: what it read may be gone when it writes, and the  *)
(* database's constraints have the last word.  The names a save is refused *)
(* with are its own; a constraint nobody translated answers with the       *)
(* generic 409 of error.rs.                                                *)
(*                                                                         *)
(* A row is a record whose field "key" is its unique text (a name, a       *)
(* link), or None.  A request that is refused by what it reads first       *)
(* leaves nothing behind and is no step here.                              *)
(***************************************************************************)
EXTENDS Integers, SequencesExt

CONSTANTS
  None,
  Sessions,       \* concurrent requests
  Names,          \* of rule sets, roles, heroes and boards
  Links,          \* of matches
  Metrics,        \* metrics and stats as typed
  Normalise,      \* Normalise[x]: trimmed and in capitals
  WellFormed,     \* the normalised ones the schema's format CHECK lets pass
  Submitted,      \* lists of metrics a request may carry
  Rounds,
  CurrentRound,   \* the tournament's
  Start0,         \* the tables at the start
  Areas,          \* sets of kinds of requests that share tables
  MaxId,          \* bound: ids 1 .. MaxId in each table
  MaxRequests     \* bound: requests that get past their checks

Tables == {"sets", "roles", "heroes", "maps", "heroPool", "mapPool", "given", "matches"}
Ids    == 1 .. MaxId

ASSUME CatalogueAssumption ==
  /\ Normalise \in [Metrics -> Metrics]
  /\ \A m \in Metrics : Normalise[Normalise[m]] = Normalise[m]
  /\ Submitted \subseteq Seq(Metrics)
  /\ CurrentRound \in Rounds
  /\ {MaxId, MaxRequests} \subseteq Nat \ {0}

Row(t) ==
  CASE t = "sets"  -> [key : Names, list : Seq(Metrics), active : BOOLEAN]
    [] t = "roles" -> [key : Names, list : Seq(Metrics)]
    [] t \in {"heroes", "maps"} -> [key : Names]
    [] t \in {"heroPool", "mapPool", "given"} -> [key : {None}]
    [] t = "matches" -> [key : Links, map : Ids, hero : Ids, round : Rounds]

\* The tables start with rows 1, 2, .. as the schema has them: texts that are unique, one
\* active rule set at most, no role assigned that is not there, no match on a board
\* outside the pool.
ASSUME StartAssumption ==
  /\ DOMAIN Start0 = Tables
  /\ \A t \in Tables :
       /\ Start0[t] \in Seq(Row(t))
       /\ \A i, j \in DOMAIN Start0[t] :
            Start0[t][i].key = Start0[t][j].key => i = j \/ Start0[t][i].key = None
  /\ DOMAIN Start0["given"] \subseteq DOMAIN Start0["roles"]
  /\ \A i, j \in DOMAIN Start0["sets"] :
       Start0["sets"][i].active /\ Start0["sets"][j].active => i = j
  /\ \A i \in DOMAIN Start0["matches"] :
       Start0["matches"][i].map \in DOMAIN Start0["mapPool"]

VARIABLES
  db,       \* db[t][i]: the committed row i of table t, or None
  next,     \* next[t]: the sequence of ids of table t
  tx,       \* tx[s]: the transaction of the request in flight, or None
  mine,     \* mine[s]: what it has written, <<table, id>> -> row; it locks these rows
  answer,   \* answer[s]: how the last request ended
  area,     \* bound: the kinds of requests of this behaviour
  started   \* requests started

vars == <<db, next, tx, mine, answer, area, started>>

Nothing == [x \in {} |-> None]

Init ==
  /\ db = [t \in Tables |-> [i \in Ids |-> IF i \in DOMAIN Start0[t] THEN Start0[t][i] ELSE None]]
  /\ next = [t \in Tables |-> 1 + Cardinality(DOMAIN Start0[t])]
  /\ tx = [s \in Sessions |-> None]
  /\ mine = [s \in Sessions |-> Nothing]
  /\ answer = [s \in Sessions |-> None]
  /\ area \in Areas
  /\ started = 0

-----------------------------------------------------------------------------
(* What a request asks before it writes.                                   *)

Stored(t) == {i \in Ids : db[t][i] # None}

NameTaken(t, name, self) == \E i \in Stored(t) \ {self} : db[t][i].key = name

Repeats(list) == \E i, j \in DOMAIN list : i # j /\ list[i] = list[j]

ToCoefficients(list) == [i \in DOMAIN list |-> Normalise[list[i]]]

MalformedMetric(list) == \E m \in ToSet(ToCoefficients(list)) : m \notin WellFormed

\* Mistake: what was typed is compared, not what is stored.
DuplicateMetric_AsTyped(list) == Repeats(list)

DuplicateMetric(list) == Repeats(ToCoefficients(list))

RuleSetViolations(list) == MalformedMetric(list) \/ DuplicateMetric(list)

\* A role's stats follow the same two rules.
WeightViolations(list) == MalformedMetric(list) \/ Repeats(ToCoefficients(list))

CreateRuleSetRefused(q) == RuleSetViolations(q.list) \/ NameTaken("sets", q.name, None)

UpdateRuleSetRefused(q) ==
  q.id \notin Stored("sets") \/ RuleSetViolations(q.list) \/ NameTaken("sets", q.name, q.id)

ActivateRefused(q) == q.id \notin Stored("sets")

CreateRoleRefused(q) == WeightViolations(q.list) \/ NameTaken("roles", q.name, None)

UpdateRoleRefused(q) ==
  q.id \notin Stored("roles") \/ WeightViolations(q.list) \/ NameTaken("roles", q.name, q.id)

\* count_entries_assigning
DeleteRoleRefused(q) == q.id \notin Stored("roles") \/ q.id \in Stored("given")

\* A manager's set_roles: a role of the book.
SetRolesRefused(q) == q.id \notin Stored("roles")

CreateHeroRefused(q) == NameTaken("heroes", q.name, None)
UpdateHeroRefused(q) == q.id \notin Stored("heroes") \/ NameTaken("heroes", q.name, q.id)
CreateMapRefused(q)  == NameTaken("maps", q.name, None)
UpdateMapRefused(q)  == q.id \notin Stored("maps") \/ NameTaken("maps", q.name, q.id)

HasRecordedMatch(m) == \E i \in Stored("matches") : db["matches"][i].map = m

RemoveMapRefused(q) == q.id \notin Stored("maps") \/ HasRecordedMatch(q.id)

\* match_policy: both pools.
OutsidePools(q) == q.map \notin Stored("mapPool") \/ q.hero \notin Stored("heroPool")

RecordRefused(q)  == OutsidePools(q) \/ NameTaken("matches", q.link, None)
CorrectRefused(q) ==
  q.id \notin Stored("matches") \/ OutsidePools(q) \/ NameTaken("matches", q.link, q.id)
DeleteRefused(q)  == q.id \notin Stored("matches")

Refused(q) ==
  CASE q.kind = "createRuleSet" -> CreateRuleSetRefused(q)
    [] q.kind = "updateRuleSet" -> UpdateRuleSetRefused(q)
    [] q.kind = "activate"      -> ActivateRefused(q)
    [] q.kind = "createRole"    -> CreateRoleRefused(q)
    [] q.kind = "updateRole"    -> UpdateRoleRefused(q)
    [] q.kind = "deleteRole"    -> DeleteRoleRefused(q)
    [] q.kind = "setRoles"      -> SetRolesRefused(q)
    [] q.kind = "createHero"    -> CreateHeroRefused(q)
    [] q.kind = "updateHero"    -> UpdateHeroRefused(q)
    [] q.kind = "createMap"     -> CreateMapRefused(q)
    [] q.kind = "updateMap"     -> UpdateMapRefused(q)
    [] q.kind = "removeMap"     -> RemoveMapRefused(q)
    [] q.kind = "record"        -> RecordRefused(q)
    [] q.kind = "correct"       -> CorrectRefused(q)
    [] q.kind = "delete"        -> DeleteRefused(q)

-----------------------------------------------------------------------------
(* Requests and the statements of each.                                    *)

RuleSetRequests ==
  [kind : {"createRuleSet"}, name : Names, list : Submitted \ {<<>>}, activate : BOOLEAN]
    \cup [kind : {"updateRuleSet"}, id : Ids, name : Names, list : Submitted \ {<<>>}]
    \cup [kind : {"activate"}, id : Ids]

\* A role may weigh no stat.
RoleRequests ==
  [kind : {"createRole"}, name : Names, list : Submitted]
    \cup [kind : {"updateRole"}, id : Ids, name : Names, list : Submitted]
    \cup [kind : {"deleteRole"}, id : Ids]

HeroRequests ==
  [kind : {"createHero"}, name : Names] \cup [kind : {"updateHero"}, id : Ids, name : Names]

MapRequests ==
  [kind : {"createMap"}, name : Names] \cup [kind : {"updateMap"}, id : Ids, name : Names]
    \cup [kind : {"removeMap"}, id : Ids]

\* Without a round: the current one to record in, the match's own to correct.
MatchRequests ==
  [kind : {"record"}, link : Links, map : Ids, hero : Ids, round : Rounds \cup {None}]
    \cup [kind : {"correct"}, id : Ids, link : Links, map : Ids, hero : Ids,
          round : Rounds \cup {None}]
    \cup [kind : {"delete"}, id : Ids]

AllRequests ==
  UNION {RuleSetRequests, RoleRequests, HeroRequests, MapRequests, MatchRequests,
         [kind : {"setRoles"}, id : Ids]}

TableOf(kind) ==
  CASE kind \in {"createRuleSet", "updateRuleSet", "activate"} -> "sets"
    [] kind \in {"createRole", "updateRole", "deleteRole"}     -> "roles"
    [] kind \in {"createHero", "updateHero"}                   -> "heroes"
    [] kind \in {"createMap", "updateMap"}                     -> "maps"
    [] kind = "removeMap"                                      -> "mapPool"
    [] kind = "setRoles"                                       -> "given"
    [] kind \in {"record", "correct", "delete"}                -> "matches"

Creates(kind) == kind \in {"createRuleSet", "createRole", "createHero", "createMap", "record"}
Deletes(kind) == kind \in {"deleteRole", "removeMap", "delete"}

Activates(q) == q.kind = "activate" \/ (q.kind = "createRuleSet" /\ q.activate)

Flipping == <<"deactivate", "flip", "raise">>

\* Mistake: the deferred foreign key is left to the commit.
Steps_NoRecheck(q) ==
  CASE q.kind = "activate"                     -> Flipping
    [] q.kind = "createRuleSet" /\ q.activate  -> <<"write", "deactivate", "flip", "raise">>
    [] OTHER                                   -> <<"write">>

Steps(q) ==
  CASE q.kind = "activate"                     -> Flipping
    [] q.kind = "createRuleSet" /\ q.activate  -> <<"write", "deactivate", "flip", "raise">>
    [] q.kind = "removeMap"                    -> <<"write", "recheck">>
    [] OTHER                                   -> <<"write">>

\* Mistake: the form's rule set, which is not active.
CarriedFlag_Reset(seen) == FALSE

\* ..existing: the flag as it was read.
CarriedFlag(seen) == seen.active

\* The rows the saves write; seen is the row that was read at the check.
SavedRuleSet(q, seen) ==
  [key |-> q.name, list |-> ToCoefficients(q.list),
   active |-> q.kind = "updateRuleSet" /\ CarriedFlag(seen)]

SavedRole(q) == [key |-> q.name, list |-> ToCoefficients(q.list)]

SavedName(q) == [key |-> q.name]

SavedMatch(q, seen) ==
  [key |-> q.link, map |-> q.map, hero |-> q.hero,
   round |-> IF q.round # None THEN q.round
             ELSE IF q.kind = "record" THEN CurrentRound ELSE seen.round]

SavedRow(q, seen) ==
  CASE TableOf(q.kind) = "sets"              -> SavedRuleSet(q, seen)
    [] TableOf(q.kind) = "roles"             -> SavedRole(q)
    [] TableOf(q.kind) \in {"heroes", "maps"} -> SavedName(q)
    [] TableOf(q.kind) = "given"             -> [key |-> None]
    [] TableOf(q.kind) = "matches"           -> SavedMatch(q, seen)

-----------------------------------------------------------------------------
(* Locks, constraints and the end of a request.                            *)

HeldByOther(s, t, i) == \E o \in Sessions \ {s} : <<t, i>> \in DOMAIN mine[o]

\* The row as s sees it.
RowFor(s, t, i) == IF <<t, i>> \in DOMAIN mine[s] THEN mine[s][<<t, i>>] ELSE db[t][i]

Put(s, t, i, row) ==
  mine' = [mine EXCEPT ![s] =
             [x \in {<<t, i>>} \cup DOMAIN @ |-> IF x = <<t, i>> THEN row ELSE @[x]]]

\* The rule sets ids are deactivated.
Lower(s, ids) ==
  mine' = [mine EXCEPT ![s] =
             [x \in ({"sets"} \X ids) \cup DOMAIN @ |->
                IF x \in {"sets"} \X ids THEN [db["sets"][x[2]] EXCEPT !.active = FALSE] ELSE @[x]]]

\* Rows another transaction writes, before and after: an index waits for these.
Unsettled(s, t) ==
  {j \in Ids : HeldByOther(s, t, j)}

VersionsOf(s, t, j) ==
  ({db[t][j]} \cup {mine[o][<<t, j>>] : o \in {o \in Sessions \ {s} : <<t, j>> \in DOMAIN mine[o]}})
     \ {None}

KeyUnsettled(s, t, i, key) ==
  key # None /\ \E j \in Unsettled(s, t) \ {i} : \E row \in VersionsOf(s, t, j) : row.key = key

\* Mistake: matches have no unique index on their links.
KeyClash_NotLinks(s, t, i, key) ==
  t # "matches" /\ key # None
    /\ \E j \in Ids \ {i} : RowFor(s, t, j) # None /\ RowFor(s, t, j).key = key

KeyClash(s, t, i, key) ==
  key # None /\ \E j \in Ids \ {i} : RowFor(s, t, j) # None /\ RowFor(s, t, j).key = key

\* uq_scoring_rule_set_active
ActiveUnsettled(s, i) ==
  \E j \in Unsettled(s, "sets") \ {i} : \E row \in VersionsOf(s, "sets", j) : row.active

ActiveClash(s, i) ==
  \E j \in Ids \ {i} : RowFor(s, "sets", j) # None /\ RowFor(s, "sets", j).active

ActiveIds == {i \in Stored("sets") : db["sets"][i].active}

End(s, how) ==
  /\ answer' = [answer EXCEPT ![s] = [kind |-> tx[s].q.kind, how |-> how]]
  /\ mine' = [mine EXCEPT ![s] = Nothing]
  /\ UNCHANGED <<next, area, started>>

\* An error: the transaction rolls back when it is dropped.
Fail(s, how) == End(s, how) /\ tx' = [tx EXCEPT ![s] = None] /\ UNCHANGED db

Proceed(s) ==
  /\ tx' = [tx EXCEPT ![s].todo = Tail(@)]
  /\ UNCHANGED <<db, answer, area, started>>

Due(s, step) == tx[s] # None /\ tx[s].todo # <<>> /\ Head(tx[s].todo) = step

-----------------------------------------------------------------------------
(* The statements.                                                         *)

Start(s, q) ==
  /\ tx[s] = None /\ started < MaxRequests
  /\ Creates(q.kind) => next[TableOf(q.kind)] \in Ids
  /\ ~Refused(q)
  /\ LET t == TableOf(q.kind)
     IN  tx' = [tx EXCEPT ![s] =
                  [q      |-> q,
                   id     |-> IF Creates(q.kind) THEN next[t] ELSE q.id,
                   seen   |-> IF Creates(q.kind) THEN None ELSE db[t][q.id],
                   todo   |-> Steps(q),
                   others |-> {},
                   raced  |-> FALSE]]
         \* a sequence hands out a number once, committed or not
         /\ next' = IF Creates(q.kind) THEN [next EXCEPT ![t] = @ + 1] ELSE next
  /\ answer' = [answer EXCEPT ![s] = None]
  /\ started' = started + 1
  /\ UNCHANGED <<db, mine, area>>

\* insert or update of a root row and, after it, its children
Save(s) ==
  LET q == tx[s].q  t == TableOf(q.kind)  i == tx[s].id
      row == SavedRow(q, tx[s].seen)
      gone == ~Creates(q.kind) /\ RowFor(s, t, i) = None
      children == "list" \notin DOMAIN row \/ row.list # <<>>
      flag == "active" \in DOMAIN row /\ row.active
  IN  /\ Due(s, "write") /\ ~Deletes(q.kind) /\ q.kind # "setRoles"
      /\ ~HeldByOther(s, t, i)
      /\ ~gone => ~KeyUnsettled(s, t, i, row.key) /\ (flag => ~ActiveUnsettled(s, i))
      /\ IF gone
         THEN IF children THEN Fail(s, "generic") ELSE Proceed(s) /\ UNCHANGED <<mine, next>>
         ELSE IF KeyClash(s, t, i, row.key)
         THEN Fail(s, IF t = "matches" THEN "named" ELSE "generic")   \* link_conflict_or
         ELSE IF \/ flag /\ ActiveClash(s, i)
                 \/ "list" \in DOMAIN row
                      /\ (Repeats(row.list) \/ ~(ToSet(row.list) \subseteq WellFormed))
         THEN Fail(s, "generic")
         ELSE Put(s, t, i, row) /\ Proceed(s) /\ UNCHANGED next

\* An assignment names its role: it waits for a delete of it.
SetRoles(s) ==
  LET i == tx[s].id
  IN  /\ Due(s, "write") /\ tx[s].q.kind = "setRoles"
      /\ ~HeldByOther(s, "given", i) /\ ~HeldByOther(s, "roles", i)
      /\ IF db["roles"][i] = None
         THEN Fail(s, "generic")
         ELSE Put(s, "given", i, SavedRow(tx[s].q, None)) /\ Proceed(s) /\ UNCHANGED next

Delete(s) ==
  LET q == tx[s].q  t == TableOf(q.kind)  i == tx[s].id
  IN  /\ Due(s, "write") /\ Deletes(q.kind)
      /\ ~HeldByOther(s, t, i)
      /\ t = "roles" => ~HeldByOther(s, "given", i)
      /\ IF t = "roles" /\ db[t][i] # None /\ db["given"][i] # None
         THEN Fail(s, "generic")
         ELSE IF t = "mapPool" /\ db[t][i] = None
         THEN Fail(s, "named")   \* no row removed: 404
         ELSE IF db[t][i] = None
         THEN Proceed(s) /\ UNCHANGED <<mine, next>>
         ELSE Put(s, t, i, None) /\ Proceed(s) /\ UNCHANGED next

\* deactivate_others: the statement's snapshot ...
Deactivate(s) ==
  /\ Due(s, "deactivate")
  /\ tx' = [tx EXCEPT ![s].todo = Tail(@), ![s].others = ActiveIds \ {tx[s].id}]
  /\ UNCHANGED <<db, next, mine, answer, area, started>>

\* ... and its writes, each row read again once its lock is free.
Flip(s) ==
  LET lowered == tx[s].others \cap ActiveIds
  IN  /\ Due(s, "flip")
      /\ \A i \in tx[s].others : ~HeldByOther(s, "sets", i)
      /\ Lower(s, lowered)
      /\ Proceed(s) /\ UNCHANGED next

Raise(s) ==
  LET i == tx[s].id
  IN  /\ Due(s, "raise")
      /\ ~HeldByOther(s, "sets", i) /\ ~ActiveUnsettled(s, i)
      /\ IF ActiveClash(s, i)
         THEN Fail(s, "generic")
         ELSE /\ Put(s, "sets", i, [RowFor(s, "sets", i) EXCEPT !.active = TRUE])
              /\ Proceed(s) /\ UNCHANGED next

\* match_game_map_in_pool: the games s can see that would be left without their board.
Orphans(s) ==
  {i \in Ids : RowFor(s, "matches", i) # None
                 /\ RowFor(s, "mapPool", RowFor(s, "matches", i).map) = None}

\* check_map_in_pool_now, whose failure remove_from_pool translates
Recheck(s) ==
  /\ Due(s, "recheck")
  /\ IF Orphans(s) # {} THEN Fail(s, "named") ELSE Proceed(s) /\ UNCHANGED <<mine, next>>

\* The boards whose pool row the deferred check of s's games reads and locks.
BoardsOf(s) ==
  {mine[s][x].map : x \in {x \in DOMAIN mine[s] : x[1] = "matches" /\ mine[s][x] # None}}

Commit(s) ==
  LET after == [t \in Tables |-> [i \in Ids |-> RowFor(s, t, i)]]
      nowActive == {i \in Ids : after["sets"][i] # None /\ after["sets"][i].active}
      raced == nowActive # ActiveIds
  IN  /\ tx[s] # None /\ tx[s].todo = <<>>
      /\ \A m \in BoardsOf(s) : ~HeldByOther(s, "mapPool", m)
      /\ IF Orphans(s) # {}
         THEN Fail(s, "generic")
         ELSE /\ End(s, "ok")
              /\ db' = after
              /\ tx' = [o \in Sessions |->
                          IF o = s THEN None
                          ELSE IF tx[o] = None THEN None
                          ELSE [tx[o] EXCEPT !.raced = @ \/ raced]]

\* The client goes away, or the database breaks a deadlock.
Abort(s) == tx[s] # None /\ Fail(s, "dropped")

-----------------------------------------------------------------------------
(* The pools' saves are one statement after checks of rows nobody deletes. *)

AddMaps(ms) ==
  /\ ms # {} /\ ms \subseteq Stored("maps")
  /\ \A s \in Sessions, m \in ms : <<"mapPool", m>> \notin DOMAIN mine[s]
  /\ db' = [db EXCEPT !["mapPool"] =
              [m \in Ids |-> IF m \in ms THEN [key |-> None] ELSE @[m]]]

AddHeroes(hs) ==
  /\ hs # {} /\ hs \subseteq Stored("heroes")
  /\ db' = [db EXCEPT !["heroPool"] =
              [h \in Ids |-> IF h \in hs THEN [key |-> None] ELSE @[h]]]

RemoveHero(h) ==
  /\ h \in Stored("heroPool")
  /\ db' = [db EXCEPT !["heroPool"][h] = None]

Pools ==
  /\ "record" \in area /\ started < MaxRequests
  /\ \/ \E ms \in SUBSET Ids : AddMaps(ms)
     \/ \E hs \in SUBSET Ids : AddHeroes(hs)
     \/ \E h \in Ids : RemoveHero(h)
  /\ started' = started + 1
  /\ UNCHANGED <<next, tx, mine, answer, area>>

Next ==
  \/ \E s \in Sessions :
       \/ \E q \in AllRequests : q.kind \in area /\ Start(s, q)
       \/ Save(s)
       \/ SetRoles(s)
       \/ Delete(s)
       \/ Deactivate(s)
       \/ Flip(s)
       \/ Raise(s)
       \/ Recheck(s)
       \/ Commit(s)
       \/ Abort(s)
  \/ Pools

Spec == Init /\ [][Next]_vars

-----------------------------------------------------------------------------

Ends(s, how) == answer'[s] # answer[s] /\ answer'[s] # None /\ answer'[s].how = how

\* The generic 409, which error.rs says reaches the API layer unvalidated, answers only a
\* save that its own check would by now refuse by name, or one that an activation overtook:
\* no shape, key or parent slips past what the policies look for.
BackstopOnlyAfterRace ==
  [][\A s \in Sessions : Ends(s, "generic") => Refused(tx[s].q) \/ tx[s].raced]_vars

\* Removing a board from the pool is refused by name, whatever is recorded on it between
\* the check and the delete, or between the delete and the commit.
RemovalNamesItsBoard ==
  \A s \in Sessions :
    ~(answer[s] # None /\ answer[s].kind = "removeMap" /\ answer[s].how = "generic")

\* What a save does not mention stays: a rename keeps the tournament's active rule set
\* unless another was activated meanwhile, only an activation moves the flag, and to its
\* target alone, and a correction without a round leaves the match in the round it was
\* read in.
CarriedOver ==
  [][\A s \in Sessions : Ends(s, "ok") =>
       LET q == tx[s].q  i == tx[s].id
       IN  /\ Activates(q) => ActiveIds' = {i}
           /\ (~Activates(q) /\ ~tx[s].raced) => ActiveIds' = ActiveIds
           /\ (q.kind = "correct" /\ q.round = None)
                => db'["matches"][i].round = tx[s].seen.round]_vars

\* What two requests that both passed their checks leave behind: one match per link and
\* one row per name, one active rule set at most, every assigned role there, and every
\* recorded board in its pool.
TablesHold ==
  /\ \A t \in Tables : \A i, j \in Stored(t) :
       db[t][i].key = db[t][j].key => i = j \/ db[t][i].key = None
  /\ \A i, j \in ActiveIds : i = j
  /\ Stored("given") \subseteq Stored("roles")
  /\ \A i \in Stored("matches") : db["matches"][i].map \in Stored("mapPool")

-----------------------------------------------------------------------------
(* Why: the types, and what holds of the requests in flight.               *)

Kinds == {"createRuleSet", "updateRuleSet", "activate", "createRole", "updateRole",
          "deleteRole", "setRoles", "createHero", "updateHero", "createMap", "updateMap",
          "removeMap", "record", "correct", "delete"}

AnyRow == Row("sets") \cup Row("roles") \cup Row("heroes") \cup Row("mapPool") \cup Row("matches")

Transaction ==
  [q : AllRequests, id : Ids, seen : AnyRow \cup {None},
   todo : Seq({"write", "recheck", "deactivate", "flip", "raise"}),
   others : SUBSET Ids, raced : BOOLEAN]

\* None is no row, no id of one and no transaction.
ASSUME NoneAssumption ==
  /\ None \notin Ids /\ None \notin Transaction
  /\ \A t \in Tables : None \notin Row(t)

TypeOK ==
  /\ db \in [Tables -> [Ids -> AnyRow \cup {None}]]
  /\ \A t \in Tables, i \in Ids : db[t][i] \in Row(t) \cup {None}
  /\ next \in [Tables -> Nat]
  /\ tx \in [Sessions -> Transaction \cup {None}]
  /\ mine = [s \in Sessions |-> [x \in DOMAIN mine[s] |-> mine[s][x]]]
  /\ \A s \in Sessions :
       /\ DOMAIN mine[s] \subseteq Tables \X Ids
       /\ \A t \in Tables, i \in Ids :
            <<t, i>> \in DOMAIN mine[s] => mine[s][<<t, i>>] \in Row(t) \cup {None}
  /\ answer \in [Sessions -> [kind : Kinds, how : {"ok", "generic", "named", "dropped"}]
                               \cup {None}]
  /\ area \in Areas /\ started \in Nat

\* A row is written by one transaction at a time.
RowsHeldOnce ==
  \A s, o \in Sessions : (DOMAIN mine[s]) \cap (DOMAIN mine[o]) # {} => s = o

\* A request does its statements in turn, and writes rows of its own table: one, but for
\* an activation.  What it asked for has the shape that was checked.
InFlight(s) ==
  LET q == tx[s].q  todo == tx[s].todo
  IN  /\ todo \in {Steps(q), <<>>} \cup
           IF Activates(q) THEN {Flipping, <<"flip", "raise">>, <<"raise">>}
           ELSE IF q.kind = "removeMap" THEN {<<"recheck">>} ELSE {}
      /\ todo = Steps(q) => DOMAIN mine[s] = {}
      /\ \A x \in DOMAIN mine[s] :
           x[1] = TableOf(q.kind) /\ (Activates(q) \/ x[2] = tx[s].id)
      /\ ~Creates(q.kind) => tx[s].id = q.id
      /\ TableOf(q.kind) \in {"sets", "roles"} /\ ~Deletes(q.kind) /\ q.kind # "activate" =>
           ~MalformedMetric(q.list) /\ ~Repeats(ToCoefficients(q.list))
      /\ q.kind \in {"updateRuleSet", "correct"} => tx[s].seen \in Row(TableOf(q.kind))
      /\ TableOf(q.kind) = "matches" =>
           \A x \in DOMAIN mine[s] :
             mine[s][x] = IF Deletes(q.kind) THEN None ELSE SavedMatch(q, tx[s].seen)

\* No game is left without its board, and none would be by a removal that was rechecked.
BoardInv ==
  /\ \A i \in Stored("matches") : db["matches"][i].map \in Stored("mapPool")
  /\ \A s \in Sessions :
       tx[s] # None /\ tx[s].q.kind = "removeMap" /\ tx[s].todo = <<>> => Orphans(s) = {}

\* A rule set is never deleted, and the one a request creates is its own.
SetsInv ==
  /\ \A i \in Ids : next["sets"] <= i => db["sets"][i] = None
  /\ \A s \in Sessions : tx[s] # None =>
       /\ tx[s].q.kind = "createRuleSet" =>
            /\ tx[s].id < next["sets"] /\ db["sets"][tx[s].id] = None
            /\ tx[s].todo # Steps(tx[s].q) => <<"sets", tx[s].id>> \in DOMAIN mine[s]
            /\ \A o \in Sessions \ {s} :
                 tx[o] # None /\ tx[o].q.kind = "createRuleSet" => tx[o].id # tx[s].id
       /\ tx[s].q.kind \in {"updateRuleSet", "activate"} => db["sets"][tx[s].id] # None
  /\ \A s \in Sessions, i \in Ids : <<"sets", i>> \in DOMAIN mine[s] =>
       /\ mine[s][<<"sets", i>>] # None
       /\ \/ db["sets"][i] # None
          \/ tx[s].q.kind = "createRuleSet" /\ i = tx[s].id

\* s is about to commit rule set i as the active one.
Raised(s, i) == <<"sets", i>> \in DOMAIN mine[s] /\ mine[s][<<"sets", i>>].active

\* One rule set is active, and one at most is about to be, seen with its own writes.
FlagInv ==
  /\ \A i, j \in ActiveIds : i = j
  /\ \A s, o \in Sessions, i, j \in Ids : Raised(s, i) /\ Raised(o, j) => s = o
  /\ \A s \in Sessions, i \in Ids : Raised(s, i) => ~ActiveClash(s, i)

\* What a request will leave behind, unless an activation overtakes it.
Carried(s) ==
  LET q == tx[s].q  i == tx[s].id  todo == tx[s].todo
  IN  /\ ~tx[s].raced =>
           /\ q.kind = "updateRuleSet" => (tx[s].seen.active <=> i \in ActiveIds)
           /\ todo \in {<<"flip", "raise">>, <<"raise">>} => tx[s].others = ActiveIds \ {i}
           /\ todo = <<"raise">> => \A j \in tx[s].others : <<"sets", j>> \in DOMAIN mine[s]
      /\ todo # <<>> => \A j \in Ids : ~Raised(s, j)
      /\ todo = <<>> =>
           /\ Activates(q) => Raised(s, i)
           /\ ~Activates(q) /\ <<"sets", i>> \in DOMAIN mine[s] =>
                (Raised(s, i) <=> q.kind = "updateRuleSet" /\ tx[s].seen.active)
           /\ q.kind = "correct" => <<"matches", i>> \in DOMAIN mine[s]

\* What row i of t is or may become.
Versions(t, i) ==
  ({db[t][i]} \cup {mine[s][<<t, i>>] : s \in {s \in Sessions : <<t, i>> \in DOMAIN mine[s]}})
     \ {None}

\* Whoever commits first: no text is in two rows, and no role in use goes.
KeysInv ==
  \A t \in Tables, i, j \in Ids : i # j =>
    \A x \in Versions(t, i), y \in Versions(t, j) : x.key = y.key => x.key = None

Stands(i) ==
  /\ db["roles"][i] # None
  /\ \A s \in Sessions : <<"roles", i>> \in DOMAIN mine[s] => mine[s][<<"roles", i>>] # None

Assigned(i) == Versions("given", i) # {}

GivenInv == \A i \in Ids : Assigned(i) => Stands(i)

\* Together: inductive.
IInv ==
  /\ TypeOK /\ RowsHeldOnce /\ BoardInv /\ SetsInv /\ FlagInv /\ RemovalNamesItsBoard
  /\ \A s \in Sessions :
       IF tx[s] = None THEN DOMAIN mine[s] = {} ELSE InFlight(s) /\ Carried(s)
=============================================================================
