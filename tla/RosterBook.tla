----------------------------- MODULE RosterBook -----------------------------
(***************************************************************************)
(* What the entries of a tournament promise the league, with no request,   *)
(* no copy and no lock in it: every change of a manager's entry happens at *)
(* once and on the entry as it is.  The one thing that may be old is the   *)
(* round a swap is counted in, since a request keeps the tournament it     *)
(* read first.                                                             *)
(***************************************************************************)
EXTENDS Naturals, Sequences, FiniteSets

CONSTANTS Managers, Registered, Heroes, RosterSize, SwapsPerRound, Capacities,
          Statuses, MaxRound

VARIABLES
  status, round, capacity,   \* the tournament
  entry,                     \* entry[m]: "none", "DRAFT" or "LOCKED"
  slots,                     \* slots[m]: the heroes on the roster
  log,                       \* log[m]: the swaps
  opening                    \* opening[m]: the roster that was locked

book == <<entry, slots, log, opening>>
vars == <<status, round, capacity, book>>

Init ==
  /\ status = "REGISTRATION_OPEN" /\ round = 1
  /\ capacity \in {c \in Capacities : Cardinality(Registered) <= c}
  /\ entry = [m \in Managers |-> IF m \in Registered THEN "DRAFT" ELSE "none"]
  /\ slots = [m \in Managers |-> {}]
  /\ log = [m \in Managers |-> <<>>]
  /\ opening = [m \in Managers |-> {}]

Drafts == {m \in Managers : entry[m] = "DRAFT"}
Entered == {m \in Managers : entry[m] # "none"}

\* The heroes m has given away, one per exchange.
Exchanged(m) == {row \in (DOMAIN log[m]) \X Heroes : row[2] \in log[m][row[1]].out}

\* A seat is taken while one is free.
Register(m) ==
  /\ entry[m] = "none"
  /\ Cardinality(Entered) < capacity
  /\ entry' = [entry EXCEPT ![m] = "DRAFT"]
  /\ UNCHANGED <<status, round, capacity, slots, log, opening>>

\* A draft is replaced by another of at most the roster's size.
Draft(m, roster) ==
  /\ entry[m] = "DRAFT"
  /\ Cardinality(roster) <= RosterSize
  /\ slots' = [slots EXCEPT ![m] = roster]
  /\ UNCHANGED <<status, round, capacity, entry, log, opening>>

\* A full draft is locked as it is.
Lock(m) ==
  /\ entry[m] = "DRAFT"
  /\ Cardinality(slots[m]) = RosterSize
  /\ entry' = [entry EXCEPT ![m] = "LOCKED"]
  /\ opening' = [opening EXCEPT ![m] = slots[m]]
  /\ UNCHANGED <<status, round, capacity, slots, log>>

\* A locked roster exchanges heroes: as many as are still on offer in round r,
\* once in that round, and the exchange is logged with the roster.
Swap(m, r, roster) ==
  LET in  == roster \ slots[m]
      out == slots[m] \ roster
  IN /\ entry[m] = "LOCKED"
     /\ \A i \in DOMAIN log[m] : log[m][i].round # r
     /\ in # {} /\ Cardinality(roster) = RosterSize
     /\ Cardinality(Exchanged(m)) + Cardinality(in) <= SwapsPerRound * (r - 1)
     /\ slots' = [slots EXCEPT ![m] = roster]
     /\ log' = [log EXCEPT ![m] = Append(@, [round |-> r, out |-> out, in |-> in])]
     /\ UNCHANGED <<status, round, capacity, entry, opening>>

\* The tournament moves on.  One that goes live loses all of its drafts and
\* nothing else; no locked roster is ever lost.
Move(st, c, r) ==
  LET gone == IF st = "LIVE" THEN Drafts ELSE {}
      Without(f, v) == [m \in Managers |-> IF m \in gone THEN v ELSE f[m]]
  IN /\ status' = st /\ capacity' = c /\ round' = r
     /\ entry' = Without(entry, "none")
     /\ slots' = Without(slots, {})
     /\ log' = Without(log, <<>>)
     /\ opening' = Without(opening, {})

AdvanceRound ==
  /\ round < MaxRound
  /\ round' = round + 1
  /\ UNCHANGED <<status, capacity, book>>

Next ==
  \/ \E m \in Managers :
       \/ Register(m) \/ Lock(m)
       \/ \E roster \in SUBSET Heroes :
            Draft(m, roster) \/ \E r \in 1 .. round : Swap(m, r, roster)
  \/ \E st \in Statuses, c \in Capacities, r \in round .. MaxRound : Move(st, c, r)
  \/ AdvanceRound

Spec == Init /\ [][Next]_vars

=============================================================================
