------------------------------- MODULE Season -------------------------------
(***************************************************************************)
(* A season of one tournament: rosters are drafted, locked and swapped,    *)
(* roles are given and changed, rounds go by, results are recorded early,  *)
(* late and wrongly, and every board is folded from what is stored         *)
(* (backend-rs/crates/umfl-server/src/tournament/service.rs and writer.rs, *)
(* standings/query.rs and service.rs, role/query.rs).                      *)
(*                                                                         *)
(* swap_roster and set_roles are three steps: the tournament is read, then *)
(* the entry's row is locked and everything validated, then written.  The  *)
(* interleavings of set_slots and lock_roster are RosterEntries' subject;  *)
(* here each is one step.                                                  *)
(***************************************************************************)
EXTENDS RosterPolicy, LeagueTable

CONSTANTS
  Managers,
  Handle,       \* Handle[m]: the place of m's handle in byte order
  Sessions,     \* concurrent requests of managers
  Owner, May,   \* whose they are; "swap" or "roles"
  Prices,       \* the pool when the season starts
  Droppable,    \* heroes an admin may take out of it
  Books,        \* role books; None: the tournament uses no roles
  Wishes,       \* rosters a manager may ask for
  RoleForms,    \* submissions of roles
  Settled,      \* Settled[m]: slots and roles, as locking admits them, of a locked entry
  Fixtures,     \* results that may be recorded, in any round
  Rules,        \* the active rule set
  Past,         \* the tournaments completed before
  Statuses,     \* values an admin may give tournaments.status
  MaxRound,     \* bound: the last round
  MaxMatches,   \* bound: results recorded
  MaxRequests   \* bound: requests of managers that commit after the lock

IsList(items) == items \in Seq(ToSet(items))

\* A family of finitely many whole numbers.
IsCount(f) == IsFiniteSet(DOMAIN f) /\ \A x \in DOMAIN f : f[x] \in Int

\* What the policy admits and the tables can hold (match_policy.rs, V1 and V6): a
\* game number once, a hero once in each game.
Recordable(f) ==
  /\ DOMAIN f = {"round", "participants", "games", "bans"}
  /\ IsList(f.participants) /\ IsList(f.games) /\ IsList(f.bans)
  /\ \A p \in ToSet(f.participants) : IsList(p.drafted)
  /\ \A g \in ToSet(f.games) :
       /\ g.number \in Int /\ IsList(g.seats)
       /\ \A s \in ToSet(g.seats) : s.health \in Int /\ s.winner \in BOOLEAN /\ IsCount(s.stats)
       /\ \A i, j \in DOMAIN g.seats : g.seats[i].hero = g.seats[j].hero => i = j
  /\ \A g, k \in DOMAIN f.games : f.games[g].number = f.games[k].number => g = k

\* A board as it was when its tournament ended.
Finished(board) ==
  /\ IsList(board)
  /\ \A row \in ToSet(board) : row.rank \in Nat \ {0} /\ row.name \in Nat
  /\ \A i, j \in DOMAIN board : board[i].name = board[j].name => i = j

ASSUME SeasonAssumption ==
  /\ IsFiniteSet(Managers) /\ Handle \in [Managers -> Nat] /\ IsInjective(Handle)
  /\ Owner \in [Sessions -> Managers]
  /\ May \in [Sessions -> SUBSET {"swap", "roles"}]
  /\ DOMAIN Settled \subseteq Managers
  /\ {MaxRound, MaxMatches, MaxRequests, RosterSize} \subseteq Nat \ {0}
  /\ None \notin Sessions /\ None \notin Int
  /\ \A ids \in Wishes : IsList(ids)
  /\ \A form \in RoleForms : IsList(form) /\ \A p \in ToSet(form) : p = <<p[1], p[2]>>
  /\ \A b \in Books \ {None} :
       /\ None \notin DOMAIN b
       /\ \A r \in DOMAIN b : b[r].cap \in Nat \cup {None} /\ IsCount(b[r].weights)
  /\ \A m \in DOMAIN Settled :
       /\ IsList(Settled[m].slots) /\ IsList(Settled[m].roles)
       /\ Len(Settled[m].slots) = RosterSize /\ ~DuplicateHero(Settled[m].slots)
       /\ ToSet(Settled[m].slots) \subseteq DOMAIN Prices
       /\ \A b \in Books : LockRoleViolations(Settled[m].slots, Settled[m].roles, b) = {}

\* What the boards are folded from.
ASSUME StoredAssumption ==
  /\ IsFiniteSet(DOMAIN Prices) /\ DOMAIN Prices \subseteq Nat
  /\ \A f \in Fixtures : Recordable(f)
  /\ IsList(Rules) /\ \A p \in ToSet(Rules) : p[2] \in Int
  /\ IsFiniteSet(Past) /\ \A t \in Past : Finished(t.board)

VARIABLES
  status, round, window,  \* the tournaments row
  pool,                   \* tournament_heroes
  book,                   \* roster_roles and tournaments.roles_enabled
  entry, slots,           \* tournament_entries, entry_slots
  swaps,                  \* roster_swaps, by id
  roles,                  \* entry_hero_roles
  lock,                   \* lock[m]: the session that holds m's entry row
  req,                    \* req[s]: the request in flight, or None
  matches,                \* the recorded matches, by id
  done,                   \* requests committed
  \* ---- history -----------------------------------------------------------
  held,                   \* held[m][r]: m's heroes in round r
  cast,                   \* cast[m][r]: their roles in round r
  overtaken               \* who had a request write behind rows of a later round

tournament == <<status, round, window, pool, book>>
entries    == <<entry, slots, swaps, roles, held, cast, overtaken>>
vars       == <<tournament, entries, lock, req, matches, done>>

Rounds == 1 .. MaxRound

EntryOf(m) == [status |-> entry[m], slots |-> slots[m]]

Init ==
  /\ status = "REGISTRATION_OPEN" /\ round = 1 /\ window = FALSE
  /\ pool = Prices /\ book \in Books
  /\ entry = [m \in Managers |-> IF m \in DOMAIN Settled THEN "LOCKED" ELSE "DRAFT"]
  /\ slots = [m \in Managers |-> IF m \in DOMAIN Settled THEN Settled[m].slots ELSE <<>>]
  /\ swaps = [m \in Managers |-> <<>>]
  /\ roles = [m \in Managers |-> IF m \in DOMAIN Settled /\ book # None
                                   THEN ReplaceDraftRoles(Settled[m].roles) ELSE {}]
  /\ lock = [m \in Managers |-> None]
  /\ req = [s \in Sessions |-> None]
  /\ matches = <<>> /\ done = 0
  /\ held = [m \in Managers |-> [r \in Rounds |-> ToSet(slots[m])]]
  /\ cast = [m \in Managers |-> [r \in Rounds |-> ToSet(CurrentRolePairs(slots[m], roles[m]))]]
  /\ overtaken = {}

-----------------------------------------------------------------------------
(* The draft.                                                              *)

\* resolve_picks: a hero outside the pool is refused before any other rule.
Unknown(ids) == \E h \in ToSet(ids) : h \notin DOMAIN pool

T == [status |-> status, round |-> round, window |-> window]

\* set_slots: a hero that is taken off takes its role along.
SetSlots(m, ids) ==
  /\ entry[m] = "DRAFT" /\ lock[m] = None
  /\ ~Unknown(ids) /\ ValidateDraft(ids, T, EntryOf(m)) = {}
  /\ slots' = [slots EXCEPT ![m] = ids]
  /\ roles' = [roles EXCEPT ![m] = DeleteDraftRolesExcept(@, ids)]
  /\ UNCHANGED <<tournament, entry, swaps, held, cast, overtaken, lock, req, matches, done>>

LockViolations(m) ==
  IF Unknown(slots[m]) THEN {"UNKNOWN_HERO"}
  ELSE ValidateLock(slots[m], pool, T, EntryOf(m))
         \cup LockRoleViolations(slots[m], CurrentRolePairs(slots[m], roles[m]), book)

\* lock_roster.
LockRoster(m) ==
  /\ entry[m] = "DRAFT" /\ lock[m] = None
  /\ LockViolations(m) = {}
  /\ entry' = [entry EXCEPT ![m] = "LOCKED"]
  /\ held' = [held EXCEPT ![m] = [r \in Rounds |-> ToSet(slots[m])]]
  /\ cast' = [cast EXCEPT ![m] = [r \in Rounds |-> ToSet(CurrentRolePairs(slots[m], roles[m]))]]
  /\ UNCHANGED <<tournament, slots, swaps, roles, overtaken, lock, req, matches, done>>

-----------------------------------------------------------------------------
(* Swaps and roles.                                                        *)

\* BEGIN and require_tournament: the round and the window are those of now, however
\* long the request then waits for the row.
Begin(s, kind) ==
  /\ kind \in May[s] /\ req[s] = None /\ done < MaxRequests
  /\ req' = [req EXCEPT ![s] = [kind |-> kind, t |-> T, writes |-> None]]
  /\ UNCHANGED <<tournament, entries, lock, matches, done>>

Waiting(s, kind) == req[s] # None /\ req[s].kind = kind /\ req[s].writes = None

\* Mistake: the row is read, not locked.
TakeRow_OnlyRead(s) == UNCHANGED lock

\* lock_entry_by_manager: wait for the entry's row and keep it.
TakeRow(s) == lock[Owner[s]] = None /\ lock' = [lock EXCEPT ![Owner[s]] = s]

Decide(s, writes) == req' = [req EXCEPT ![s].writes = writes]

SwapViolations(m, t, ids, submitted) ==
  LET merged   == MergeRoles(ids, CurrentRolePairs(slots[m], roles[m]), submitted)
      arrivals == RestrictValues(ids, LAMBDA h : ~Contains(slots[m], h))
      already  == \E i \in DOMAIN swaps[m] : swaps[m][i].round = t.round
  IN  ValidateSwap(ids, pool, t, EntryOf(m), Len(swaps[m]), already)
        \cup IF book = None THEN ValidateAssignments(ids, submitted, None, <<>>, TRUE)
                            ELSE ValidateAssignments(ids, merged, book, arrivals, TRUE)

\* The heroes of one roster the other lacks, by slot.
Lacking(from, to) ==
  LET Less(i, j) == i < j
      order == Sorted({i \in DOMAIN from : ~Contains(to, from[i])}, Less)
  IN  [k \in DOMAIN order |-> from[order[k]]]

\* Who leaves is paired with who arrives by position.
Exchanges(r, from, to) ==
  LET out == Lacking(from, to)
      in  == Lacking(to, from)
  IN  [i \in DOMAIN out |-> [round |-> r, out |-> out[i], in |-> in[i]]]

\* swap_roster up to its writes.
LoadForSwap(s) ==
  LET m == Owner[s]
      t == req[s].t
      current == CurrentRolePairs(slots[m], roles[m])
  IN  /\ Waiting(s, "swap") /\ entry[m] # "none"
      /\ TakeRow(s)
      /\ \E ids \in Wishes, submitted \in RoleForms :
           LET merged == IF book = None THEN <<>> ELSE MergeRoles(ids, current, submitted)
           IN  /\ ~Unknown(ids) /\ SwapViolations(m, t, ids, submitted) = {}
               /\ Decide(s, [slots |-> ids, swaps |-> Exchanges(t.round, slots[m], ids),
                             roles |-> ChangedRoles(current, merged), cast |-> merged])
      /\ UNCHANGED <<tournament, entries, matches, done>>

RoleViolations(m, t, submitted) ==
  LET locked == entry[m] = "LOCKED"
  IN  Broken([ROLE_CHANGE_CLOSED |-> book # None /\ locked /\ ~AcceptsSwaps(t),
              TOURNAMENT_CLOSED  |-> book # None /\ ~locked /\ ~AcceptsRosterChanges(t)])
        \cup ValidateAssignments(slots[m], submitted, book,
                                 IF locked THEN slots[m] ELSE <<>>, locked)

\* set_roles up to its writes: what a locked roster changes is appended to the
\* log, a draft's roles are replaced.
LoadForRoles(s) ==
  LET m == Owner[s]
      current == CurrentRolePairs(slots[m], roles[m])
  IN  /\ Waiting(s, "roles") /\ entry[m] # "none"
      /\ TakeRow(s)
      /\ \E submitted \in RoleForms :
           /\ RoleViolations(m, req[s].t, submitted) = {}
           /\ Decide(s, [slots |-> slots[m], swaps |-> <<>>, cast |-> submitted,
                         roles |-> IF entry[m] = "LOCKED" THEN ChangedRoles(current, submitted)
                                                          ELSE submitted])
      /\ UNCHANGED <<tournament, entries, matches, done>>

\* The request is over and its row free.
End(s) ==
  /\ req' = [req EXCEPT ![s] = None]
  /\ lock' = [m \in Managers |-> IF lock[m] = s THEN None ELSE lock[m]]

From(r, old, new) == [x \in Rounds |-> IF x >= r THEN new ELSE old[x]]

\* The entry has rows of rounds after r.
Behind(m, r) ==
  \/ \E i \in DOMAIN swaps[m] : swaps[m][i].round > r
  \/ \E a \in roles[m] : a.from > r

\* The writes and the COMMIT.
Commit(s) ==
  LET m == Owner[s]
      r == req[s].t.round
      w == req[s].writes
  IN  /\ req[s] # None /\ w # None /\ done < MaxRequests
      /\ swaps' = [swaps EXCEPT ![m] = @ \o w.swaps]
      /\ IF entry[m] = "LOCKED"
           THEN /\ slots' = [slots EXCEPT ![m] = w.slots]
                /\ roles' = [roles EXCEPT ![m] = UpsertEntryRoles(@, r, w.roles)]
                /\ held' = [held EXCEPT ![m] = From(r, @, ToSet(w.slots))]
                /\ cast' = [cast EXCEPT ![m] = From(r, @, ToSet(w.cast))]
                /\ overtaken' = IF Behind(m, r) THEN overtaken \cup {m} ELSE overtaken
                /\ done' = done + 1
           ELSE /\ roles' = [roles EXCEPT ![m] = ReplaceDraftRoles(w.roles)]
                /\ UNCHANGED <<slots, held, cast, overtaken, done>>
      /\ End(s)
      /\ UNCHANGED <<tournament, entry, matches>>

\* Refused, failed or dropped: rolled back.
Abort(s) ==
  /\ req[s] # None
  /\ End(s)
  /\ UNCHANGED <<tournament, entries, matches, done>>

-----------------------------------------------------------------------------
(* The admin.                                                              *)

AdvanceRound ==
  /\ round < MaxRound
  /\ round' = round + 1
  /\ UNCHANGED <<status, window, pool, book, entries, lock, req, matches, done>>

SetSwapWindow(open) ==
  /\ window' = open
  /\ UNCHANGED <<status, round, pool, book, entries, lock, req, matches, done>>

\* update: a tournament saved as LIVE loses the entries that are not locked,
\* each once its row is free.
SaveStatus(st) ==
  LET gone == {m \in Managers : st = "LIVE" /\ entry[m] = "DRAFT"}
      Without(f, v) == [m \in Managers |-> IF m \in gone THEN v ELSE f[m]]
  IN  /\ \A m \in gone : lock[m] = None
      /\ status' = st
      /\ entry' = Without(entry, "none")
      /\ slots' = Without(slots, <<>>)
      /\ roles' = Without(roles, {})
      /\ UNCHANGED <<round, window, pool, book, swaps, held, cast, overtaken, lock, req, matches, done>>

\* Nothing stands in the way, a roster that holds the hero included.
DropFromPool(h) ==
  /\ h \in DOMAIN pool
  /\ pool' = RestrictDomain(pool, LAMBDA x : x # h)
  /\ UNCHANGED <<status, round, window, book, entries, lock, req, matches, done>>

In(f, r) == [f EXCEPT !.round = r]

RecordMatch(f, r) ==
  /\ Len(matches) < MaxMatches
  /\ matches' = Append(matches, In(f, r))
  /\ UNCHANGED <<tournament, entries, lock, req, done>>

\* The result or the round was wrong.
CorrectMatch(i, f, r) ==
  /\ matches' = [matches EXCEPT ![i] = In(f, r)]
  /\ UNCHANGED <<tournament, entries, lock, req, done>>

DeleteMatch(i) ==
  /\ matches' = RemoveAt(matches, i)
  /\ UNCHANGED <<tournament, entries, lock, req, done>>

-----------------------------------------------------------------------------
Manager(m) == LockRoster(m) \/ \E ids \in Wishes : SetSlots(m, ids)

Session(s) ==
  \/ \E kind \in {"swap", "roles"} : Begin(s, kind)
  \/ LoadForSwap(s) \/ LoadForRoles(s) \/ Commit(s) \/ Abort(s)

Admin ==
  \/ AdvanceRound
  \/ \E open \in BOOLEAN : SetSwapWindow(open)
  \/ \E st \in Statuses \ {"COMPLETED"} : SaveStatus(st)

Late ==
  \/ \E st \in Statuses \cap {"COMPLETED"} : SaveStatus(st)
  \/ \E h \in Droppable : DropFromPool(h)
  \/ \E f \in Fixtures, r \in Rounds :
       RecordMatch(f, r) \/ \E i \in DOMAIN matches : CorrectMatch(i, f, r)
  \/ \E i \in DOMAIN matches : DeleteMatch(i)

\* Bound: results are recorded, heroes dropped and the tournament completed when the
\* rest of the season is over.  No step of a manager reads a result, recording reads
\* no roster, and a smaller pool or a completed tournament only refuses requests:
\* whatever rosters, results and pool can meet on a board meet in this order too.
Over ==
  /\ status \in {"LIVE", "COMPLETED"} /\ round = MaxRound /\ ~window
  /\ \A s \in Sessions : req[s] = None

Ongoing ==
  /\ matches = <<>> /\ pool = Prices /\ status # "COMPLETED"
  /\ (\E m \in Managers : Manager(m)) \/ (\E s \in Sessions : Session(s)) \/ Admin

Next == Ongoing \/ (Over /\ Late)

Spec == Init /\ [][Next]_vars

-----------------------------------------------------------------------------
(* What the services read.                                                 *)

\* swaps_by_entry_for_tournament: by round, then by id.
SwapLog(m) ==
  LET Earlier(i, j) == \/ swaps[m][i].round < swaps[m][j].round
                       \/ swaps[m][i].round = swaps[m][j].round /\ i < j
      order == Sorted(DOMAIN swaps[m], Earlier)
  IN  [k \in DOMAIN order |-> swaps[m][order[k]]]

\* rosters: the locked entries.
Rosters ==
  {[handle |-> Handle[m], heroes |-> slots[m], swaps |-> SwapLog(m), roles |-> roles[m]] :
     m \in {x \in Managers : entry[x] = "LOCKED"}}

StandingsBoard == Board(matches, Rules, Rosters, book)

HeroStats == Tallies(matches, Rules, pool)

Completed ==
  Past \cup IF status # "COMPLETED" THEN {}
            ELSE {[id |-> Cardinality(Past) + 1, board |-> StandingsBoard]}

-----------------------------------------------------------------------------
(* Properties.                                                             *)

Locked == {m \in Managers : entry[m] = "LOCKED"}

\* What a match earns the manager: its heroes of that round, each game priced
\* under the role of that round.
Earned(m, match) ==
  LET mine(c) == c.hero \in held[m][match.round]
      given   == {p \in cast[m][match.round] : book # None}
      stats(c) == Participant(match, c).stats
      paired  == {pc \in given \X PlayedContexts(match) : pc[1][1] = pc[2].hero /\ mine(pc[2])}
  IN  SumFunction([c \in {x \in HeroContexts(match) : mine(x)} |-> Score(match, c, Rules)])
      + SumFunction([pc \in paired |-> RoleBonus(book[pc[1][2]], stats(pc[2]))])

EarnedIn(m, which) == SumFunction([j \in which |-> Earned(m, matches[j])])

\* The board, folded from today's roster and two logs, gives every match to the
\* heroes held in its round under the roles they had in it: whatever was swapped,
\* swapped back or given another role since, in whichever order the rounds are
\* recorded, and whatever is corrected afterwards.  Not for a manager one of whose
\* requests stalled until it wrote behind rows of a later round.
BoardIsWhatWasHeld ==
  LET board == StandingsBoard
  IN  \A m \in Locked \ overtaken :
        LET row == RowOf(board, Handle[m])
        IN  /\ row.points = EarnedIn(m, DOMAIN matches)
            /\ row.roundPoints =
                 EarnedIn(m, {j \in DOMAIN matches : matches[j].round = LatestRound(matches)})

LockedViolations(m) == LockRoleViolations(slots[m], CurrentRolePairs(slots[m], roles[m]), book)

\* What a request that stalls into a later round can break.
Tolerated(late) == IF late THEN {"ROLE_CAP_EXCEEDED"} ELSE {}

\* Where roles are used, every hero of a locked roster has one of the tournament's,
\* and no role is over its cap: also while one request of a manager swaps heroes and
\* another gives roles to those it saw (lock_entry_by_manager).  The cap alone can go,
\* and only for a manager one of whose requests wrote behind rows of a later round.
LockedRolesComplete ==
  book # None => \A m \in Locked : LockedViolations(m) \subseteq Tolerated(m \in overtaken)

\* What set_roles says of its row lock, "a concurrent swap and role change cannot each
\* validate against the other's stale view": a locked roster stays complete, caps
\* included, whichever requests of the manager are in flight.
RolesStayComplete == book # None => \A m \in Locked : LockedViolations(m) = {}

\* The rows of a log up to round r: one per hero and round, and each hero that has
\* one has a last one.
SoundLog(log, r) ==
  /\ \A a \in log : a.from \in 1 .. r
  /\ \A a, b \in log : a.hero = b.hero /\ a.from = b.from => a = b
  /\ \A a \in log : \E b \in log :
       b.hero = a.hero /\ \A c \in log : c.hero = a.hero => c.from <= b.from

\* Every row gives a role of the book.
KnownRoles(pairs) == \A p \in ToSet(pairs) : p[2] \in DOMAIN book

OncePerHero(pairs) == \A i, j \in DOMAIN pairs : pairs[i][1] = pairs[j][1] => i = j

Complete(ids, log, late) ==
  LockRoleViolations(ids, CurrentRolePairs(ids, log), book) \subseteq Tolerated(late)

\* The writes of a request leave the entry it has locked complete, as long as the
\* entry is what the request loaded.
SoundWrites(m, r, w) ==
  /\ OncePerHero(w.roles) /\ KnownRoles(w.roles)
  /\ entry[m] = "LOCKED" =>
       Complete(w.slots, UpsertEntryRoles(roles[m], r, w.roles), m \in overtaken \/ Behind(m, r))

InFlight == {s \in Sessions : req[s] # None}

Shapes ==
  /\ DOMAIN entry = Managers /\ DOMAIN slots = Managers /\ DOMAIN roles = Managers
  /\ DOMAIN swaps = Managers /\ DOMAIN lock = Managers /\ DOMAIN req = Sessions
  /\ round \in Nat \ {0} /\ book \in Books
  /\ \A m \in Managers : IsList(slots[m])
  /\ \A s \in InFlight :
       /\ req[s] = [kind |-> req[s].kind, t |-> req[s].t, writes |-> req[s].writes]
       /\ req[s].t.round \in 1 .. round

\* The inductive invariant behind LockedRolesComplete: whoever is about to write
\* holds the row, so what it found still stands; and what it writes comes into force
\* at once, unless there are rows of a later round already.
IInv ==
  /\ Shapes
  /\ \A s \in InFlight :
       req[s].writes # None => lock[Owner[s]] = s /\ IsList(req[s].writes.slots)
  /\ book # None =>
       /\ \A m \in Managers :
            SoundLog(roles[m], round) /\ \A a \in roles[m] : a.role \in DOMAIN book
       /\ \A m \in Locked : Complete(slots[m], roles[m], m \in overtaken)
       /\ \A s \in InFlight :
            req[s].writes # None => SoundWrites(Owner[s], req[s].t.round, req[s].writes)

\* The rows every board is folded from: lists, of swaps and of recordable results.
Stored ==
  /\ DOMAIN swaps = Managers /\ \A m \in Managers : IsList(swaps[m])
  /\ \A s \in InFlight : req[s].writes # None => IsList(req[s].writes.swaps)
  /\ IsList(matches)
  /\ \A j \in DOMAIN matches : Recordable(matches[j]) /\ matches[j].round \in Rounds
  /\ DOMAIN pool \subseteq DOMAIN Prices

\* A roster as locking and swapping admit it, of heroes that have a price.
FullRoster(ids) ==
  Len(ids) = RosterSize /\ ~DuplicateHero(ids) /\ ToSet(ids) \subseteq DOMAIN Prices

\* Written in the order of the rounds, up to round r.
InOrder(log, r) ==
  /\ \A i \in DOMAIN log : log[i].round \in 1 .. r
  /\ \A i, j \in DOMAIN log : i < j => log[i].round <= log[j].round

\* c[0] are the heroes before the first swap of a log, c[k] those after the k-th.
Leads(c, log, heroes) ==
  /\ c[Len(log)] = heroes
  /\ \A k \in 1 .. Len(log) :
       /\ log[k].out \in c[k - 1] /\ log[k].in \notin c[k - 1]
       /\ c[k] = (c[k - 1] \ {log[k].out}) \cup {log[k].in}

\* The swaps up to the j-th are those of the rounds up to r.
InRounds(log, j, r) == \A k \in 1 .. Len(log) : log[k].round <= r <=> k <= j

\* Each of these heroes with its role in round r.
CastOf(log, heroes, r) == {<<h, RoleAt(log, h, r)>> : h \in heroes}

\* The log of swaps leads to today's roster by way of the heroes held in every round,
HeldAlong(log, ids, history) ==
  \E c \in [0 .. Len(log) -> SUBSET DOMAIN Prices] :
    /\ Leads(c, log, ToSet(ids))
    /\ \A r \in Rounds : \A j \in 0 .. Len(log) : InRounds(log, j, r) => history[r] = c[j]

\* and the log of roles has the role, one of the book's, that each of them had in it.
CastAlong(b, log, history, roleHistory) ==
  \A r \in Rounds :
    /\ roleHistory[r] = CastOf(log, history[r], r)
    /\ \A h \in history[r] : RoleAt(log, h, r) \in DOMAIN b

EntryTold(m) ==
  /\ DOMAIN held[m] = Rounds /\ DOMAIN cast[m] = Rounds
  /\ entry[m] # "LOCKED" => swaps[m] = <<>> /\ \A a \in roles[m] : a.from = 1
  /\ entry[m] = "LOCKED" => FullRoster(slots[m])
  /\ m \notin overtaken =>
       /\ InOrder(swaps[m], round)
       /\ entry[m] = "LOCKED" => /\ HeldAlong(swaps[m], slots[m], held[m])
                                 /\ book # None => CastAlong(book, roles[m], held[m], cast[m])

\* What a request writes leads on from the log, unless that is ahead of it.
RequestTold(m, r, w) ==
  w # None =>
    /\ entry[m] # "LOCKED" => w.swaps = <<>>
    /\ entry[m] = "LOCKED" =>
         /\ FullRoster(w.slots) /\ w.swaps = Exchanges(r, slots[m], w.slots)
         /\ book # None /\ ~Behind(m, r) =>
              ToSet(w.cast) = ToSet(CurrentRolePairs(w.slots, UpsertEntryRoles(roles[m], r, w.roles)))

\* The inductive invariant behind BoardIsWhatWasHeld: the logs tell the history.
HistoryInv ==
  /\ DOMAIN held = Managers /\ DOMAIN cast = Managers
  /\ \A m \in Managers : EntryTold(m)
  /\ \A s \in InFlight : RequestTold(Owner[s], req[s].t.round, req[s].writes)

\* What ticker entry t of a match shows of a hero: its seats, and what is named
\* below them, drafted but not played, or banned.
OnTicker(t, match, h) ==
  LET seats == UNION {{<<g, i>> : i \in DOMAIN t.games[g]} : g \in DOMAIN t.games}
      below == {c \in HeroContexts(match) : /\ c.hero = h
                                            /\ \/ c.role = "DRAFTED" /\ h \in t.unplayed
                                               \/ c.role = "BANNED" /\ Contains(t.banned, h)}
      taken == {p \in seats : t.games[p[1]][p[2]].hero = h}
  IN  SumFunction([p \in taken |-> t.games[p[1]][p[2]].points])
      + SumFunction([c \in below |-> Score(match, c, Rules)])

\* One price per hero and match on all three pages: a manager who held one hero
\* from the first round has that hero's total of the hero table, which is the sum
\* of what the ticker shows; and its columns are the categories.
OnePriceEverywhere ==
  LET tallies == HeroStats
      overall == Overall(tallies)
      columns == Categories(tallies, Rules)
      tickers == [j \in DOMAIN matches |-> TickerEntry(matches[j], Rules)]
      Only(h) == [handle |-> h, heroes |-> <<h>>, swaps |-> <<>>, roles |-> {}]
      board   == Board(matches, Rules, {Only(h) : h \in DOMAIN pool}, None)
  IN  \A h \in DOMAIN pool :
        LET row == RowOf(board, h)
        IN  /\ row.points = RowOf(overall, h).points
            /\ row.points =
                 SumFunction([j \in DOMAIN matches |-> OnTicker(tickers[j], matches[j], h)])
            /\ \A metric \in DOMAIN columns :
                 RowOf(columns[metric], h).points = row.breakdown[metric]

\* A place is one more than the number of better rows, so ties share it.
Fair(rows, Better(_, _)) ==
  \A i \in DOMAIN rows :
    rows[i].rank = 1 + Cardinality({j \in DOMAIN rows : Better(rows[j], rows[i])})

\* Every table is ranked that way; and the Hall of Fame hands out one podium per
\* podium row and one title per first place, shared or not.
PlacesAreFair ==
  LET More(a, b)   == a.points > b.points
      Above(a, b)  == \/ a.titles > b.titles
                      \/ a.titles = b.titles /\ a.podiums > b.podiums
      completed    == Completed
      titles       == Titles(completed)
      Given(column) == SumFunction([i \in DOMAIN titles |-> titles[i][column]])
      Places(depth) ==
        SumFunction([t \in completed |->
                       Cardinality({i \in DOMAIN t.board : t.board[i].rank <= depth})])
  IN  /\ Fair(StandingsBoard, More)
      /\ Fair(Overall(HeroStats), More)
      /\ \A metric \in ScoredMetrics(Rules) : Fair(Categories(HeroStats, Rules)[metric], More)
      /\ Fair(titles, Above)
      /\ Given("podiums") = Places(PodiumDepth)
      /\ Given("titles") = Places(1)
=============================================================================
