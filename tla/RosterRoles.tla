----------------------------- MODULE RosterRoles -----------------------------
(***************************************************************************)
(* Hero roles: which role a hero plays in which round, what its stats are  *)
(* worth under it, and which assignments are legal                         *)
(* (backend-rs/crates/umfl-domain/src/roster_roles.rs and the helpers of   *)
(* backend-rs/crates/umfl-server/src/tournament/service.rs and writer.rs). *)
(*                                                                         *)
(* A role book is a function from role ids to [cap, weights], cap a number *)
(* or None, weights a function from stats to coefficients; it is None      *)
(* where the tournament does not use roles.  A log is the set of an        *)
(* entry's rows [hero, from, role] of entry_hero_roles.  A list of roles   *)
(* is a family of pairs <<hero, role>>, whatever it is indexed by: a       *)
(* sequence as it is submitted, by slot as it is read.  Nothing depends on *)
(* its order.                                                              *)
(***************************************************************************)
EXTENDS MatchScoring

CONSTANT None

\* The broken rules of a record of conditions.
Broken(rules) == {r \in DOMAIN rules : rules[r]}

\* The row with the greatest from-round not past r; (hero, from) is a key.
RoleAt(log, h, r) ==
  LET rows == {a \in log : a.hero = h /\ a.from <= r}
  IN  IF rows = {} THEN None ELSE (CHOOSE a \in rows : \A b \in rows : b.from <= a.from).role

\* The role each hero has from the last row on.
CurrentRoles(log) ==
  LET Latest(h) == CHOOSE a \in log : a.hero = h /\ \A b \in log : b.hero = h => b.from <= a.from
  IN  [h \in {a.hero : a \in log} |-> Latest(h).role]

\* Each stat is rounded by itself; a game never costs anything.
RoleBonus(role, stats) ==
  LET total == SumFunction([n \in DOMAIN role.weights \cap DOMAIN stats |->
                              Round2(stats[n] * role.weights[n])])
  IN  IF total > 0 THEN total ELSE 0

-----------------------------------------------------------------------------
(* The rules.                                                              *)

UnknownRole(roles, book) == \E p \in ToSet(roles) : p[2] \notin DOMAIN book

\* Off the roster, or there twice.
RoleHeroNotOnRoster(ids, roles) ==
  \/ \E p \in ToSet(roles) : ~Contains(ids, p[1])
  \/ \E i, j \in DOMAIN roles : i # j /\ roles[i][1] = roles[j][1]

RoleUnassigned(roles, required) ==
  \E h \in ToSet(required) : \A p \in ToSet(roles) : p[1] # h

RoleCapExceeded(roles, book) ==
  \E r \in DOMAIN book :
    /\ book[r].cap # None
    /\ Cardinality({i \in DOMAIN roles : roles[i][2] = r}) > book[r].cap

ValidateAssignments(ids, roles, book, required, enforceCaps) ==
  IF book = None
    THEN Broken([ROLES_DISABLED |-> roles # <<>>])
    ELSE Broken([UNKNOWN_ROLE            |-> UnknownRole(roles, book),
                 ROLE_HERO_NOT_ON_ROSTER |-> RoleHeroNotOnRoster(ids, roles),
                 ROLE_UNASSIGNED         |-> RoleUnassigned(roles, required),
                 ROLE_CAP_EXCEEDED       |-> enforceCaps /\ RoleCapExceeded(roles, book)])

-----------------------------------------------------------------------------
(* From a submission to the rows.                                          *)

\* The role in force for each hero of the roster, by slot.
CurrentRolePairs(slots, log) ==
  LET current == CurrentRoles(log)
  IN  [i \in {k \in DOMAIN slots : slots[k] \in DOMAIN current} |->
         <<slots[i], current[slots[i]]>>]

LockRoleViolations(slots, current, book) ==
  IF book = None THEN {} ELSE ValidateAssignments(slots, current, book, slots, TRUE)

\* What a kept hero has, unless the submission says otherwise; whoever leaves
\* takes its role along.
MergeRoles(proposed, current, submitted) ==
  LET Kept(p) == Contains(proposed, p[1]) /\ \A q \in ToSet(submitted) : q[1] # p[1]
      kept    == {k \in DOMAIN current : Kept(current[k])}
  IN  [k \in ({"kept"} \X kept) \cup ({"submitted"} \X DOMAIN submitted) |->
         IF k[1] = "kept" THEN current[k[2]] ELSE submitted[k[2]]]

ChangedRoles(current, wanted) == RestrictValues(wanted, LAMBDA p : p \notin ToSet(current))

\* One row per hero and round: the last choice of the round stays.
UpsertEntryRoles(log, r, pairs) ==
  {a \in log : \A p \in ToSet(pairs) : a.hero # p[1] \/ a.from # r}
    \cup {[hero |-> p[1], from |-> r, role |-> p[2]] : p \in ToSet(pairs)}

\* A draft has no history: all rows from round one.
ReplaceDraftRoles(pairs) == UpsertEntryRoles({}, 1, pairs)

DeleteDraftRolesExcept(log, kept) == {a \in log : Contains(kept, a.hero)}
=============================================================================
