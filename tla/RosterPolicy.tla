---------------------------- MODULE RosterPolicy ----------------------------
(***************************************************************************)
(* The rules of drafting, locking and swapping a roster                    *)
(* (backend-rs/crates/umfl-domain/src/roster_policy.rs, tournament.rs).    *)
(*                                                                         *)
(* A roster is a sequence of heroes in slot order, a pool a function from  *)
(* heroes to prices, a tournament a record [status, round, window], an     *)
(* entry a record [status, slots].  Every rule that is broken is reported. *)
(***************************************************************************)
EXTENDS RosterRoles

CONSTANTS
  RosterSize,     \* tournaments.roster_size
  SwapsPerRound,  \* tournaments.swaps_per_round
  CreditGrant     \* tournament_entries.credit_grant

AcceptsRosterChanges(t) == t.status \in {"SCHEDULED", "REGISTRATION_OPEN"}
AcceptsSwaps(t) == t.window /\ t.status # "COMPLETED"

TooManyPicks(ids)     == Len(ids) > RosterSize
IncompleteRoster(ids) == Len(ids) < RosterSize
DuplicateHero(ids)    == Len(ids) > Cardinality(ToSet(ids))

\* The price is the pool's of this moment.
Spent(ids, pool) == FoldLeft(LAMBDA sum, h : sum + pool[h], 0, ids)
BudgetExceeded(ids, pool) == Spent(ids, pool) > CreditGrant

Mutability(t, e) ==
  Broken([ENTRY_LOCKED      |-> e.status = "LOCKED",
          TOURNAMENT_CLOSED |-> ~AcceptsRosterChanges(t)])

\* Over budget is no violation while drafting.
ValidateDraft(ids, t, e) ==
  Mutability(t, e) \cup Broken([TOO_MANY_PICKS |-> TooManyPicks(ids),
                                DUPLICATE_HERO |-> DuplicateHero(ids)])

ValidateLock(ids, pool, t, e) ==
  ValidateDraft(ids, t, e)
    \cup Broken([INCOMPLETE_ROSTER |-> IncompleteRoster(ids),
                 BUDGET_EXCEEDED   |-> BudgetExceeded(ids, pool)])

\* What the rounds so far have offered and is not used; never a debt.
SwapAllowance(r, used) == Max({0, SwapsPerRound * Max({0, r - 1}) - used})

HeroesChanged(held, ids) == Len(SelectSeq(ids, LAMBDA h : ~Contains(held, h)))

ValidateSwap(ids, pool, t, e, used, already) ==
  Broken([SWAP_WINDOW_CLOSED         |-> ~AcceptsSwaps(t) \/ e.status # "LOCKED",
          ALREADY_SWAPPED_THIS_ROUND |-> already,
          TOO_MANY_PICKS             |-> TooManyPicks(ids),
          INCOMPLETE_ROSTER          |-> IncompleteRoster(ids),
          DUPLICATE_HERO             |-> DuplicateHero(ids),
          SWAP_LIMIT_EXCEEDED        |-> HeroesChanged(e.slots, ids) > SwapAllowance(t.round, used),
          BUDGET_EXCEEDED            |-> BudgetExceeded(ids, pool)])
=============================================================================
