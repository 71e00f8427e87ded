---------------------------- MODULE RosterEntries ----------------------------
(***************************************************************************)
(* One tournament, its entries and the transactions that move them:        *)
(* registration, drafting, locking and swapping                            *)
(* (backend-rs/crates/umfl-server/src/tournament/service.rs) and the admin *)
(* operations they race with (tournament/admin_service.rs).                *)
(*                                                                         *)
(* Every transaction runs at READ COMMITTED: a statement sees what had     *)
(* committed when it began, a row lock is held to the end, and what a      *)
(* transaction writes is seen by others when it commits.  A step is one    *)
(* statement, or several between which no other transaction can tell the   *)
(* difference.  A transaction whose statements all wait for one row is one *)
(* step.                                                                   *)
(***************************************************************************)
EXTENDS Naturals, Sequences, FiniteSets, FiniteSetsExt, SequencesExt

CONSTANTS
  Managers,
  Registered,     \* managers with a draft when the run starts
  Sessions,       \* concurrent requests of managers
  Owner,          \* Owner[s]: the manager session s belongs to
  May,            \* May[s]: what s asks for
  Admins,         \* concurrent requests of admins
  AdminMay,       \* what they ask for
  Heroes,
  RosterSize,     \* tournaments.roster_size
  SwapsPerRound,  \* tournaments.swaps_per_round
  Capacities,     \* values an admin may give tournaments.capacity
  Statuses,       \* values an admin may give tournaments.status
  MaxRound,       \* bound: the last round
  Nobody          \* holder of a free row

ASSUME ConstantsAssumption ==
  /\ IsFiniteSet(Managers) /\ IsFiniteSet(Heroes)
  /\ Registered \subseteq Managers
  /\ Owner \in [Sessions -> Managers]
  /\ May \in [Sessions -> SUBSET {"register", "draft", "lock", "swap"}]
  /\ AdminMay \subseteq {"update", "advance", "window"}
  /\ Sessions \cap Admins = {}
  /\ Nobody \notin Sessions \cup Admins
  /\ RosterSize \in Nat \ {0}
  /\ SwapsPerRound \in Nat
  /\ Capacities # {} /\ Capacities \subseteq Nat \ {0}
  /\ Statuses \subseteq {"SCHEDULED", "REGISTRATION_OPEN", "LIVE", "COMPLETED"}
  /\ MaxRound \in Nat \ {0}

VARIABLES
  \* ---- the tournaments row ------------------------------------------------
  status, round, window, capacity,
  tlock,     \* who holds the row
  \* ---- tournament_entries, entry_slots, roster_swaps --------------------------
  entry,     \* entry[m]: "none", "DRAFT" or "LOCKED"
  slots,     \* slots[m]: the heroes on the roster
  log,       \* log[m]: the submitted swaps in the order they were written
  elock,     \* elock[m]: who holds m's entry row
  \* ---- one request per session ----------------------------------------------------
  pc, op,
  seen,      \* the tournament as the request read it
  loaded,    \* the entry as the request read it
  want,      \* the roster the request asks for
  seats,     \* capacity, read under the lock
  \* ---- one request per admin ----------------------------------------------------
  apc,
  kept,      \* the round and the window that update carries over
  form,      \* the status and the capacity the form sets
  \* ---- history ---------------------------------------------------------------------
  opening    \* opening[m]: the roster m locked

tournament == <<status, round, window, capacity>>
entries    == <<entry, slots, log, opening>>
requests   == <<pc, op, seen, loaded, want, seats>>
admins     == <<apc, kept, form>>
vars       == <<tournament, tlock, entries, elock, requests, admins>>

Rosters == SUBSET Heroes
Status == {"SCHEDULED", "REGISTRATION_OPEN", "LIVE", "COMPLETED"}
TournamentCopy == [status : Status, round : 1 .. MaxRound, window : BOOLEAN]
\* A copy whose row has been deleted since names no row any more.
EntryCopy == [status : {"none", "DRAFT", "LOCKED", "gone"}, slots : Rosters]
Submission == [round : 1 .. MaxRound, out : Rosters, in : Rosters]

NoTournament == [status |-> "SCHEDULED", round |-> 1, window |-> FALSE]
NoEntry == [status |-> "none", slots |-> {}]

TypeOK ==
  /\ status \in Status /\ round \in 1 .. MaxRound /\ window \in BOOLEAN
  /\ capacity \in Nat
  /\ tlock \in Sessions \cup Admins \cup {Nobody}
  /\ entry \in [Managers -> {"none", "DRAFT", "LOCKED"}]
  /\ slots \in [Managers -> Rosters]
  /\ log \in [Managers -> Seq(Submission)]
  /\ elock \in [Managers -> Sessions \cup Admins \cup {Nobody}]
  /\ pc \in [Sessions -> {"idle", "find", "seat", "count", "insert", "load",
                          "update", "queue", "swap", "save"}]
  /\ op \in [Sessions -> {"register", "draft", "lock", "swap"}]
  /\ seen \in [Sessions -> TournamentCopy]
  /\ loaded \in [Sessions -> EntryCopy]
  /\ want \in [Sessions -> Rosters]
  /\ seats \in [Sessions -> Nat]
  /\ apc \in [Admins -> {"idle", "read", "written"}]
  /\ kept \in [Admins -> [round : 1 .. MaxRound, window : BOOLEAN]]
  /\ form \in [Admins -> [status : Status, capacity : Nat]]
  /\ opening \in [Managers -> Rosters]

\* A tournament open for registration, with the drafts of a few managers.
Init ==
  /\ status = "REGISTRATION_OPEN" /\ round = 1 /\ window = FALSE
  /\ capacity \in {c \in Capacities : Cardinality(Registered) <= c}
  /\ tlock = Nobody
  /\ entry = [m \in Managers |-> IF m \in Registered THEN "DRAFT" ELSE "none"]
  /\ slots = [m \in Managers |-> {}]
  /\ log = [m \in Managers |-> <<>>]
  /\ elock = [m \in Managers |-> Nobody]
  /\ pc = [s \in Sessions |-> "idle"]
  /\ op = [s \in Sessions |-> "register"]
  /\ seen = [s \in Sessions |-> NoTournament]
  /\ loaded = [s \in Sessions |-> NoEntry]
  /\ want = [s \in Sessions |-> {}]
  /\ seats = [s \in Sessions |-> 0]
  /\ apc = [a \in Admins |-> "idle"]
  /\ kept = [a \in Admins |-> [round |-> 1, window |-> FALSE]]
  /\ form = [a \in Admins |-> [status |-> "SCHEDULED", capacity |-> 0]]
  /\ opening = [m \in Managers |-> {}]

-----------------------------------------------------------------------------
(* The rules, as the domain crate states them on copies.                    *)

AcceptsRegistration(t) == t.status = "REGISTRATION_OPEN"
AcceptsRosterChanges(t) == t.status \in {"SCHEDULED", "REGISTRATION_OPEN"}
AcceptsSwaps(t) == t.window /\ t.status # "COMPLETED"

\* Mutant of ValidateDraft: the status of the entry is not asked.
ValidateDraft_AnyEntry(roster, t, e) ==
  e.status # "none" /\ AcceptsRosterChanges(t) /\ Cardinality(roster) <= RosterSize

ValidateDraft(roster, t, e) ==
  /\ e.status = "DRAFT"
  /\ AcceptsRosterChanges(t)
  /\ Cardinality(roster) <= RosterSize

ValidateLock(t, e) ==
  /\ ValidateDraft(e.slots, t, e)
  /\ Cardinality(e.slots) = RosterSize

\* swap_count_for_entry: one row per hero exchanged.
SwapRows(m) ==
  {row \in (DOMAIN log[m]) \X Heroes : row[2] \in log[m][row[1]].out}

SwapCount(m) == Cardinality(SwapRows(m))

SwappedInRound(m, r) == \E i \in DOMAIN log[m] : log[m][i].round = r

\* Mutant of SwapAllowance: the first round offers swaps too.
SwapAllowance_FromRoundOne(r, used) ==
  IF used < SwapsPerRound * r THEN SwapsPerRound * r - used ELSE 0

\* What is offered up to round r and not yet used; never negative.
SwapAllowance(r, used) ==
  LET offered == SwapsPerRound * (r - 1)
  IN IF used < offered THEN offered - used ELSE 0

ValidateSwap(roster, m, t, e) ==
  /\ AcceptsSwaps(t)
  /\ e.status = "LOCKED"
  /\ ~SwappedInRound(m, t.round)
  /\ Cardinality(roster) = RosterSize
  /\ Cardinality(roster \ e.slots) <= SwapAllowance(t.round, SwapCount(m))

EntryOf(m) == [status |-> entry[m], slots |-> slots[m]]

Entered == {m \in Managers : entry[m] # "none"}

-----------------------------------------------------------------------------
(* Managers' requests.                                                      *)

Goto(s, from, to) ==
  /\ pc[s] = from
  /\ pc' = [pc EXCEPT ![s] = to]

\* BEGIN and require_tournament: the copy every later rule is judged against.
Begin(s, kind, roster) ==
  /\ kind \in May[s]
  /\ Goto(s, "idle", CASE kind = "register" -> "find"
                       [] kind = "swap"     -> "queue"
                       [] OTHER             -> "load")
  /\ op' = [op EXCEPT ![s] = kind]
  /\ seen' = [seen EXCEPT ![s] = [status |-> status, round |-> round,
                                  window |-> window]]
  /\ want' = [want EXCEPT ![s] = roster]
  /\ UNCHANGED <<tournament, tlock, entries, elock, loaded, seats, admins>>

\* register: open for registration, and not registered yet.
FindNoEntry(s) ==
  /\ AcceptsRegistration(seen[s])
  /\ entry[Owner[s]] = "none"
  /\ Goto(s, "find", "seat")
  /\ UNCHANGED <<tournament, tlock, entries, elock, op, seen, loaded, want,
                 seats, admins>>

\* Mutant of LockCapacity: the capacity is read without FOR UPDATE.
LockCapacity_OnlyRead(s) ==
  /\ Goto(s, "seat", "count")
  /\ seats' = [seats EXCEPT ![s] = capacity]
  /\ UNCHANGED <<tournament, tlock, entries, elock, op, seen, loaded, want, admins>>

\* lock_capacity_by_id: queue for the tournaments row, read capacity once it is
\* ours.
LockCapacity(s) ==
  /\ tlock = Nobody
  /\ Goto(s, "seat", "count")
  /\ tlock' = s
  /\ seats' = [seats EXCEPT ![s] = capacity]
  /\ UNCHANGED <<tournament, entries, elock, op, seen, loaded, want, admins>>

\* count_entries.
CountEntries(s) ==
  /\ Cardinality(Entered) < seats[s]
  /\ Goto(s, "count", "insert")
  /\ UNCHANGED <<tournament, tlock, entries, elock, op, seen, loaded, want,
                 seats, admins>>

\* The request is over: its locks are free and nothing of it is left.
End(s) ==
  /\ pc' = [pc EXCEPT ![s] = "idle"]
  /\ op' = [op EXCEPT ![s] = "register"]
  /\ seen' = [seen EXCEPT ![s] = NoTournament]
  /\ loaded' = [loaded EXCEPT ![s] = NoEntry]
  /\ want' = [want EXCEPT ![s] = {}]
  /\ seats' = [seats EXCEPT ![s] = 0]
  /\ tlock' = IF tlock = s THEN Nobody ELSE tlock
  /\ elock' = [m \in Managers |-> IF elock[m] = s THEN Nobody ELSE elock[m]]
  /\ UNCHANGED admins

\* insert_entry, unless the unique index refuses it, and COMMIT.
InsertEntry(s) ==
  LET m == Owner[s]
  IN /\ pc[s] = "insert"
     /\ entry[m] = "none"
     /\ entry' = [entry EXCEPT ![m] = "DRAFT"]
     /\ UNCHANGED <<tournament, slots, log, opening>>
     /\ End(s)

\* set_slots and lock_roster: what is validated on the entry that was loaded.
MayWrite(s, e) ==
  \/ op[s] = "draft" /\ ValidateDraft(want[s], seen[s], e)
  \/ op[s] = "lock"  /\ ValidateLock(seen[s], e)

\* require_my_entry and the validation, with no lock on the row.
LoadEntry(s) ==
  LET e == EntryOf(Owner[s])
  IN /\ Goto(s, "load", "update")
     /\ MayWrite(s, e)
     /\ loaded' = [loaded EXCEPT ![s] = e]
     /\ UNCHANGED <<tournament, tlock, entries, elock, op, seen, want, seats,
                    admins>>

\* update_entry: the UPDATE waits for the row.
UpdateEntry(s) ==
  /\ elock[Owner[s]] = Nobody
  /\ Goto(s, "update", "save")
  /\ elock' = [elock EXCEPT ![Owner[s]] = s]
  /\ UNCHANGED <<tournament, tlock, entries, op, seen, loaded, want, seats,
                 admins>>

\* Mutant of LockEntry: the id is read without FOR UPDATE.
LockEntry_OnlyRead(s) ==
  /\ Goto(s, "queue", "swap")
  /\ UNCHANGED <<tournament, tlock, entries, elock, op, seen, loaded, want,
                 seats, admins>>

\* lock_entry_by_manager.  Where there is no row there is nothing to lock, and
\* the request goes on to the load.
LockEntry(s) ==
  LET m == Owner[s]
  IN /\ elock[m] = Nobody
     /\ Goto(s, "queue", "swap")
     /\ elock' = IF entry[m] = "none" THEN elock ELSE [elock EXCEPT ![m] = s]
     /\ UNCHANGED <<tournament, tlock, entries, op, seen, loaded, want, seats,
                    admins>>

\* require_my_entry, the counts of the log, and validate_swap.
LoadForSwap(s) ==
  LET m == Owner[s]
  IN /\ Goto(s, "swap", IF elock[m] = s THEN "save" ELSE "update")
     /\ ValidateSwap(want[s], m, seen[s], EntryOf(m))
     /\ loaded' = [loaded EXCEPT ![s] = EntryOf(m)]
     /\ UNCHANGED <<tournament, tlock, entries, elock, op, seen, want, seats,
                    admins>>

\* Mutant of Saved: each request writes only the columns it is about.
Saved_OnlyItsColumns(s) ==
  [status |-> IF op[s] = "lock" THEN "LOCKED" ELSE entry[Owner[s]],
   slots  |-> IF op[s] = "lock" THEN slots[Owner[s]] ELSE want[s]]

\* What update_entry writes, from the copy that was loaded: the status together
\* with the slots, whichever of the two the request is about.
Saved(s) ==
  [status |-> IF op[s] = "lock" THEN "LOCKED" ELSE loaded[s].status,
   slots  |-> IF op[s] = "lock" THEN loaded[s].slots ELSE want[s]]

\* Mutant of Logged: the difference is taken after the slots are replaced.
Logged_AfterAssignment(s) == <<>>

\* insert_roster_swaps: nothing for an unchanged roster.
Logged(s) ==
  LET out == loaded[s].slots \ want[s]
      in  == want[s] \ loaded[s].slots
  IN IF op[s] = "swap" /\ in # {}
     THEN <<[round |-> seen[s].round, out |-> out, in |-> in]>>
     ELSE <<>>

\* What update_entry and insert_roster_swaps write, and the COMMIT.
WriteEntry(s) ==
  LET m == Owner[s]
  IN /\ pc[s] = "save"
     /\ entry' = [entry EXCEPT ![m] = Saved(s).status]
     /\ slots' = [slots EXCEPT ![m] = Saved(s).slots]
     /\ log' = [log EXCEPT ![m] = @ \o Logged(s)]
     /\ opening' = IF op[s] = "lock" /\ entry[m] # "LOCKED"
                   THEN [opening EXCEPT ![m] = Saved(s).slots]
                   ELSE opening
     /\ UNCHANGED tournament
     /\ End(s)

\* Mutant of SaveEntry: the tournaments row is locked too, after the entry's.
SaveEntry_LocksTournament(s) == tlock = Nobody /\ loaded[s].status # "gone" /\ WriteEntry(s)

\* update_entry finds the row it loaded; a purged entry's is gone.
SaveEntry(s) == loaded[s].status # "gone" /\ WriteEntry(s)

\* A rule is broken, a row is not there or was there already.
Refused(s) ==
  LET m == Owner[s]
  IN \/ pc[s] = "find" /\ (~AcceptsRegistration(seen[s]) \/ entry[m] # "none")
     \/ pc[s] = "count" /\ Cardinality(Entered) >= seats[s]
     \/ pc[s] = "insert" /\ entry[m] # "none"
     \/ pc[s] = "load" /\ ~MayWrite(s, EntryOf(m))
     \/ pc[s] = "swap" /\ ~ValidateSwap(want[s], m, seen[s], EntryOf(m))
     \/ pc[s] = "save" /\ loaded[s].status = "gone"

\* The error rolls the transaction back.
Refuse(s) ==
  /\ Refused(s)
  /\ UNCHANGED <<tournament, entries>>
  /\ End(s)

\* A statement fails, the budget or the hero pool refuses the roster, or the
\* client hangs up and the handler is dropped: the transaction rolls back.
Abort(s) ==
  /\ pc[s] # "idle"
  /\ UNCHANGED <<tournament, entries>>
  /\ End(s)

-----------------------------------------------------------------------------
(* Admins' requests.  What advance_round and set_swap_window read is only    *)
(* returned; their UPDATE is one statement that waits for the row.           *)

\* The increment is the database's.
AdvanceRound(a) ==
  /\ "advance" \in AdminMay
  /\ apc[a] = "idle" /\ tlock = Nobody
  /\ round < MaxRound
  /\ round' = round + 1
  /\ UNCHANGED <<status, window, capacity, tlock, entries, elock, requests,
                 admins>>

SetSwapWindow(a, open) ==
  /\ "window" \in AdminMay
  /\ apc[a] = "idle" /\ tlock = Nobody
  /\ window' = open
  /\ UNCHANGED <<status, round, capacity, tlock, entries, elock, requests,
                 admins>>

\* update: the row is read, and with it the round and the window to carry over.
ReadForUpdate(a, f) ==
  /\ "update" \in AdminMay
  /\ apc[a] = "idle"
  /\ apc' = [apc EXCEPT ![a] = "read"]
  /\ kept' = [kept EXCEPT ![a] = [round |-> round, window |-> window]]
  /\ form' = [form EXCEPT ![a] = f]
  /\ UNCHANGED <<tournament, tlock, entries, elock, requests>>

\* update_tournament: the UPDATE waits for the row and holds it.
WriteTournament(a) ==
  /\ apc[a] = "read" /\ tlock = Nobody
  /\ apc' = [apc EXCEPT ![a] = "written"]
  /\ tlock' = a
  /\ UNCHANGED <<tournament, entries, elock, requests, kept, form>>

\* The admin's request is over.
AdminEnd(a) ==
  /\ apc' = [apc EXCEPT ![a] = "idle"]
  /\ kept' = [kept EXCEPT ![a] = [round |-> 1, window |-> FALSE]]
  /\ form' = [form EXCEPT ![a] = [status |-> "SCHEDULED", capacity |-> 0]]
  /\ tlock' = IF tlock = a THEN Nobody ELSE tlock
  /\ elock' = [m \in Managers |-> IF elock[m] = a THEN Nobody ELSE elock[m]]

\* purge_unlocked_entries deletes one unlocked entry after another: it waits for
\* a row's writer, judges the row again, and holds what it has deleted.
PurgeEntry(a, m) ==
  /\ apc[a] = "written" /\ form[a].status = "LIVE"
  /\ entry[m] = "DRAFT" /\ elock[m] = Nobody
  /\ elock' = [elock EXCEPT ![m] = a]
  /\ UNCHANGED <<tournament, tlock, entries, requests, admins>>

\* The deleted rows disappear at the COMMIT; copies of them name no row.
Purged(a) ==
  LET gone == {m \in Managers : elock[m] = a}
      Without(f, v) == [m \in Managers |-> IF m \in gone THEN v ELSE f[m]]
  IN /\ entry' = Without(entry, "none")
     /\ slots' = Without(slots, {})
     /\ log' = Without(log, <<>>)
     /\ opening' = Without(opening, {})
     /\ loaded' = [s \in Sessions |->
                     IF Owner[s] \in gone /\ loaded[s].status # "none"
                     THEN [loaded[s] EXCEPT !.status = "gone"]
                     ELSE loaded[s]]
     /\ UNCHANGED <<pc, op, seen, want, seats>>

\* Mutant of SaveTournament: a draft that somebody is writing is left out of the
\* purge.
SaveTournament_SkipsLocked(a) ==
  /\ apc[a] = "written"
  /\ form[a].status = "LIVE" =>
       \A m \in Managers : entry[m] = "DRAFT" => elock[m] # Nobody
  /\ Purged(a)
  /\ status' = form[a].status
  /\ capacity' = form[a].capacity
  /\ round' = kept[a].round
  /\ window' = kept[a].window
  /\ AdminEnd(a)

\* COMMIT of update.  A tournament saved as LIVE loses its unlocked entries.
SaveTournament(a) ==
  /\ apc[a] = "written"
  /\ form[a].status = "LIVE" =>
       \A m \in Managers : entry[m] = "DRAFT" => elock[m] = a
  /\ Purged(a)
  /\ status' = form[a].status
  /\ capacity' = form[a].capacity
  /\ round' = kept[a].round
  /\ window' = kept[a].window
  /\ AdminEnd(a)

\* update fails, or its handler is dropped.
AdminAbort(a) ==
  /\ apc[a] # "idle"
  /\ UNCHANGED <<tournament, entries, requests>>
  /\ AdminEnd(a)

-----------------------------------------------------------------------------
\* What a manager can ask for: a roster with a draft and a swap.
Ask(s) ==
  \/ Begin(s, "register", {})
  \/ Begin(s, "lock", {})
  \/ \E roster \in Rosters : Begin(s, "draft", roster) \/ Begin(s, "swap", roster)

\* Waiting for a row.
Acquire(s) == LockCapacity(s) \/ UpdateEntry(s) \/ LockEntry(s)

Proceed(s) ==
  \/ FindNoEntry(s) \/ CountEntries(s) \/ InsertEntry(s)
  \/ LoadEntry(s) \/ LoadForSwap(s) \/ SaveEntry(s)
  \/ Refuse(s)

Session(s) == Ask(s) \/ Acquire(s) \/ Proceed(s) \/ Abort(s)

Admin(a) ==
  \/ AdvanceRound(a)
  \/ \E open \in BOOLEAN : SetSwapWindow(a, open)
  \/ \E st \in Statuses, c \in Capacities :
        ReadForUpdate(a, [status |-> st, capacity |-> c])
  \/ WriteTournament(a)
  \/ \E m \in Managers : PurgeEntry(a, m)
  \/ SaveTournament(a)
  \/ AdminAbort(a)

Next == (\E s \in Sessions : Session(s)) \/ (\E a \in Admins : Admin(a))

Spec == Init /\ [][Next]_vars

(***************************************************************************)
(* PostgreSQL's row locks are queues, so whoever waits for a row that is   *)
(* released again and again gets it in the end: strong fairness.  A        *)
(* handler that can run does.  Nobody has to ask, and nothing has to fail. *)
(***************************************************************************)
FairSpec ==
  /\ Spec
  /\ \A s \in Sessions : SF_vars(Acquire(s)) /\ WF_vars(Proceed(s))
  /\ \A a \in Admins :
       /\ SF_vars(WriteTournament(a)) /\ WF_vars(SaveTournament(a))
       /\ \A m \in Managers : SF_vars(PurgeEntry(a, m))

-----------------------------------------------------------------------------
(* Properties.                                                              *)

\* A seat is only ever taken where one is free: an entry appears while fewer
\* than `capacity` managers are entered, whoever registers at the same moment
\* and whatever an admin does to the capacity meanwhile (register counts under
\* the lock on the tournaments row).
SeatIsFree ==
  \A m \in Managers :
    (entry[m] = "none" /\ entry'[m] # "none") => Cardinality(Entered) < capacity

CapacityHeld == [][SeatIsFree]_vars

\* A locked roster moves only by a swap that is logged, and stays locked:
\* "Roster is committed and immutable" (EntryStatus::Locked).
LockedMovesOnlyBySwap ==
  [][\A m \in Managers :
       entry[m] = "LOCKED" =>
         /\ entry'[m] = "LOCKED"
         /\ slots'[m] # slots[m] => Len(log'[m]) = Len(log[m]) + 1]_vars

\* The log in the order the standings read it: by round, then as written.
ReadBefore(m, i, j) ==
  \/ log[m][i].round < log[m][j].round
  \/ log[m][i].round = log[m][j].round /\ i < j

Replay(m) ==
  [k \in DOMAIN log[m] |->
     CHOOSE i \in DOMAIN log[m] :
       Cardinality({j \in DOMAIN log[m] : ReadBefore(m, j, i)}) = k - 1]

\* The log in the order it was written in.
Written(m) == [k \in DOMAIN log[m] |-> k]

\* Undoing the log in that order from the current roster, last row first.
Rewound(m, order) ==
  FoldRight(LAMBDA i, roster : (roster \ log[m][i].in) \cup log[m][i].out,
            order, slots[m])

\* No swap was of an earlier round than the one logged before it.
InOrder(rows) ==
  \A i, j \in DOMAIN rows : i < j => rows[i].round <= rows[j].round

\* The log undoes the current roster to the one that was locked, so the standings
\* price every round with the heroes held in it: as it was written, whichever
\* requests of the manager are in flight, and as the standings read it unless one
\* of them stalled until it logged an earlier round behind a later one.
LogReplays ==
  \A m \in Managers : entry[m] = "LOCKED" =>
    /\ Rewound(m, Written(m)) = opening[m]
    /\ InOrder(log[m]) => Rewound(m, Replay(m)) = opening[m]

\* No manager has exchanged more heroes than the rounds so far have offered.
AllowanceKept ==
  \A m \in Managers : SwapCount(m) <= SwapsPerRound * (round - 1)

\* One submission per entry and round, with any number of requests in flight:
\* no index stands behind the rule, only the lock on the entry row.
OneSubmissionPerRound ==
  \A m \in Managers : \A i, j \in DOMAIN log[m] :
    log[m][i].round = log[m][j].round => i = j

\* A locked entry has a full roster, which the standings rely on, although the
\* draft may be written between the validation of the lock and its UPDATE.
LockedRosterIsComplete ==
  \A m \in Managers : entry[m] = "LOCKED" => Cardinality(slots[m]) = RosterSize

\* No two transactions wait for each other's rows: every request of a manager
\* or an admin ends.
RequestsEnd ==
  /\ \A s \in Sessions : pc[s] # "idle" ~> pc[s] = "idle"
  /\ \A a \in Admins : apc[a] # "idle" ~> apc[a] = "idle"

-----------------------------------------------------------------------------
(* Why a seat is free and a locked roster full: the inductive invariant.     *)

\* From the count to the insert the tournaments row is ours, so neither the
\* capacity nor the number of entries moves under the decision.
SeatInv ==
  /\ \A a \in Admins : apc[a] = "written" => tlock = a
  /\ \A s \in Sessions :
       /\ pc[s] \in {"count", "insert"} => tlock = s /\ seats[s] = capacity
       /\ pc[s] = "insert" => Cardinality(Entered) < seats[s]

\* A request that is about to write has loaded a row, which is still there
\* unless it was purged; and what it will write is what it validated.
LoadInv ==
  \A s \in Sessions :
    /\ loaded[s].status \in {"DRAFT", "LOCKED"} => entry[Owner[s]] # "none"
    /\ pc[s] \in {"queue", "swap"} => op[s] = "swap"
    /\ pc[s] \in {"update", "save"} =>
         /\ loaded[s].status # "none" /\ op[s] # "register"
         /\ op[s] = "draft" => loaded[s].status # "LOCKED"
         /\ op[s] = "lock" => Cardinality(loaded[s].slots) = RosterSize
         /\ op[s] = "swap" => Cardinality(want[s]) = RosterSize

\* Together with the types: inductive.
IInv == TypeOK /\ SeatInv /\ LoadInv /\ LockedRosterIsComplete

-----------------------------------------------------------------------------
(* Why a round takes one submission and a locked roster stays put.           *)

\* The entry row is held by a request of its manager that loads or writes it,
\* or by an admin that has deleted it.
LockInv ==
  /\ \A m \in Managers :
       /\ elock[m] \in Admins => entry[m] = "DRAFT"
       /\ elock[m] \in Sessions =>
            Owner[elock[m]] = m /\ pc[elock[m]] \in {"swap", "save"}
  /\ \A s \in Sessions :
       /\ pc[s] # "idle" => op[s] \in May[s]
       /\ pc[s] \in {"find", "seat", "count", "insert"} => op[s] = "register"
       /\ pc[s] = "save" => elock[Owner[s]] = s

\* A swap writes under the lock it loaded under: what it was judged against is
\* still the row and the log.
SwapHeld(s) ==
  /\ pc[s] = "swap" /\ elock[Owner[s]] # s => entry[Owner[s]] = "none"
  /\ pc[s] = "update" => op[s] # "swap"
  /\ pc[s] = "save" /\ op[s] = "swap" =>
       /\ loaded[s].status = "LOCKED" /\ loaded[s] = EntryOf(Owner[s])
       /\ ~SwappedInRound(Owner[s], seen[s].round)

SwapInv == \A s \in Sessions : SwapHeld(s)

\* No registration commits between a swap that found no row to lock and its
\* load; the code does not prevent it.
RegisteredApart ==
  \A s \in Sessions :
    pc[s] = "swap" /\ entry[Owner[s]] = "none" => entry'[Owner[s]] = "none"

\* A draft or a lock writes the row it loaded, or one that is gone.
DraftHeld(s) ==
  pc[s] \in {"update", "save"} /\ op[s] \in {"draft", "lock"} =>
    \/ loaded[s].status = "gone"
    \/ loaded[s].status = "DRAFT" /\ loaded[s] = EntryOf(Owner[s])

DraftInv == \A s \in Sessions : DraftHeld(s)

\* One of a manager's requests at most drafts or locks; any number may swap.
OneDrafts ==
  \A r, s \in Sessions :
    /\ Owner[r] = Owner[s]
    /\ May[r] \cap {"draft", "lock"} # {} /\ May[s] \cap {"draft", "lock"} # {}
    => r = s

\* What a request saw is not ahead of the tournament, and what a swap is about
\* to log is on offer.
SwapOnOffer(s) ==
  /\ pc[s] # "idle" => seen[s].round <= round
  /\ pc[s] = "save" /\ op[s] = "swap" /\ want[s] \ loaded[s].slots # {} =>
       SwapCount(Owner[s]) + Cardinality(loaded[s].slots \ want[s])
         <= SwapsPerRound * (seen[s].round - 1)

AllowanceInv == AllowanceKept /\ \A s \in Sessions : SwapOnOffer(s)

-----------------------------------------------------------------------------
(* Why the log undoes the roster.                                            *)

\* Undone row by row, a log leads from the last roster back to the first.
Connects(rows, first, last) ==
  \E held \in [1 .. Len(rows) + 1 -> Rosters] :
    /\ held[1] = first /\ held[Len(rows) + 1] = last
    /\ \A k \in 1 .. Len(rows) :
         held[k] = (held[k + 1] \ rows[k].in) \cup rows[k].out

\* A log connects the roster that was locked and the current one.
LogSound(m) ==
  /\ entry[m] # "LOCKED" => log[m] = <<>>
  /\ entry[m] = "LOCKED" => Connects(log[m], opening[m], slots[m])

UndoInv == \A m \in Managers : LogSound(m)

-----------------------------------------------------------------------------
(* What the requests come to: each of them moves its entry at once.          *)

Book == INSTANCE RosterBook
BookSpec == Book!Spec

\* What is about to be written was asked for: an admin's form, and a draft that
\* fits.  An admin holds entries it has deleted for a tournament that goes live.
AskedInv ==
  /\ \A m \in Managers : elock[m] \in Admins =>
       apc[elock[m]] = "written" /\ form[elock[m]].status = "LIVE"
  /\ \A a \in Admins : apc[a] # "idle" =>
       form[a].status \in Statuses /\ form[a].capacity \in Capacities
  /\ \A s \in Sessions : pc[s] \in {"update", "save"} /\ op[s] = "draft" =>
       Cardinality(want[s]) <= RosterSize

=============================================================================
