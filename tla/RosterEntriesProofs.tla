------------------------- MODULE RosterEntriesProofs -------------------------
(***************************************************************************)
(* Proofs about RosterEntries: its types, that no seat is taken beyond the *)
(* capacity, that a locked roster is full, that an entry submits one swap  *)
(* per round, that a locked roster moves only by a logged swap, that the   *)
(* allowance is kept, that the log undoes a roster to the locked one, and  *)
(* that all requests together implement RosterBook.                        *)
(***************************************************************************)
EXTENDS RosterEntries, FoldLemmas, FiniteSetTheorems, TLAPS

\* The empty sequence and those of one element, as SMT is slow to see.
LEMMA OneElement ==
  ASSUME NEW S
  PROVE  << >> \in Seq(S) /\ \A e \in S : <<e>> \in Seq(S)
  OBVIOUS

\* Every variable starts in its range.
LEMMA InitType == Init => TypeOK
  <1> SUFFICES ASSUME Init PROVE TypeOK
    OBVIOUS
  <1>1. NoTournament \in TournamentCopy /\ NoEntry \in EntryCopy
    BY ConstantsAssumption
    DEF NoTournament, TournamentCopy, NoEntry, EntryCopy, Status, Rosters
  <1>2. << >> \in Seq(Submission)
    OBVIOUS
  <1>3. log \in [Managers -> Seq(Submission)]
    BY <1>2 DEF Init
  <1>4. /\ seen \in [Sessions -> TournamentCopy]
        /\ loaded \in [Sessions -> EntryCopy]
    BY <1>1 DEF Init
  <1>5. /\ status \in Status /\ round \in 1 .. MaxRound /\ capacity \in Nat
        /\ kept \in [Admins -> [round : 1 .. MaxRound, window : BOOLEAN]]
        /\ form \in [Admins -> [status : Status, capacity : Nat]]
    BY ConstantsAssumption DEF Init, Status
  <1> QED
    BY <1>3, <1>4, <1>5 DEF Init, TypeOK, Rosters

\* A request that ends leaves its own variables and the locks well typed.
LEMMA EndType ==
  ASSUME TypeOK, NEW s \in Sessions, End(s)
  PROVE  /\ pc' \in [Sessions -> {"idle", "find", "seat", "count", "insert", "load",
                                  "update", "queue", "swap", "save"}]
         /\ op' \in [Sessions -> {"register", "draft", "lock", "swap"}]
         /\ seen' \in [Sessions -> TournamentCopy]
         /\ loaded' \in [Sessions -> EntryCopy]
         /\ want' \in [Sessions -> Rosters]
         /\ seats' \in [Sessions -> Nat]
         /\ tlock' \in Sessions \cup Admins \cup {Nobody}
         /\ elock' \in [Managers -> Sessions \cup Admins \cup {Nobody}]
         /\ UNCHANGED admins
  BY ConstantsAssumption
  DEF TypeOK, End, TournamentCopy, EntryCopy, NoTournament, NoEntry, Status, Rosters

\* So does an admin's request that ends.
LEMMA AdminEndType ==
  ASSUME TypeOK, NEW a \in Admins, AdminEnd(a)
  PROVE  /\ apc' \in [Admins -> {"idle", "read", "written"}]
         /\ kept' \in [Admins -> [round : 1 .. MaxRound, window : BOOLEAN]]
         /\ form' \in [Admins -> [status : Status, capacity : Nat]]
         /\ tlock' \in Sessions \cup Admins \cup {Nobody}
         /\ elock' \in [Managers -> Sessions \cup Admins \cup {Nobody}]
  BY ConstantsAssumption DEF TypeOK, AdminEnd, Status

\* One step per action.
LEMMA NextType == TypeOK /\ [Next]_vars => TypeOK'
  <1> SUFFICES ASSUME TypeOK, [Next]_vars PROVE TypeOK'
    OBVIOUS
  <1> USE ConstantsAssumption
  <1> USE DEF tournament, entries, requests, admins
  <1>1. ASSUME NEW s \in Sessions, Ask(s) PROVE TypeOK'
    <2>1. PICK kind \in {"register", "draft", "lock", "swap"}, roster \in Rosters :
             Begin(s, kind, roster)
      BY <1>1 DEF Ask, Rosters
    <2>2. /\ pc' \in [Sessions -> {"idle", "find", "seat", "count", "insert", "load",
                                   "update", "queue", "swap", "save"}]
          /\ op' \in [Sessions -> {"register", "draft", "lock", "swap"}]
          /\ want' \in [Sessions -> Rosters]
      BY <2>1 DEF Begin, Goto, TypeOK
    <2>3. seen' \in [Sessions -> TournamentCopy]
      BY <2>1 DEF Begin, TypeOK, TournamentCopy
    <2> QED
      BY <2>1, <2>2, <2>3 DEF Begin, TypeOK
  <1>2. ASSUME NEW s \in Sessions, FindNoEntry(s) PROVE TypeOK'
    BY <1>2 DEF FindNoEntry, Goto, TypeOK
  <1>3. ASSUME NEW s \in Sessions, LockCapacity(s) PROVE TypeOK'
    BY <1>3 DEF LockCapacity, Goto, TypeOK
  <1>4. ASSUME NEW s \in Sessions, CountEntries(s) PROVE TypeOK'
    BY <1>4 DEF CountEntries, Goto, TypeOK
  <1>5. ASSUME NEW s \in Sessions, InsertEntry(s) PROVE TypeOK'
    BY <1>5, EndType DEF InsertEntry, TypeOK
  <1>6. ASSUME NEW s \in Sessions, LoadEntry(s) PROVE TypeOK'
    <2>1. EntryOf(Owner[s]) \in EntryCopy
      BY DEF TypeOK, EntryOf, EntryCopy
    <2> QED
      BY <1>6, <2>1 DEF LoadEntry, Goto, TypeOK
  <1>7. ASSUME NEW s \in Sessions, UpdateEntry(s) PROVE TypeOK'
    BY <1>7 DEF UpdateEntry, Goto, TypeOK
  <1>8. ASSUME NEW s \in Sessions, LockEntry(s) PROVE TypeOK'
    BY <1>8 DEF LockEntry, Goto, TypeOK
  <1>9. ASSUME NEW s \in Sessions, LoadForSwap(s) PROVE TypeOK'
    <2>1. EntryOf(Owner[s]) \in EntryCopy
      BY DEF TypeOK, EntryOf, EntryCopy
    <2> QED
      BY <1>9, <2>1 DEF LoadForSwap, Goto, TypeOK
  <1>10. ASSUME NEW s \in Sessions, SaveEntry(s) PROVE TypeOK'
    <2> DEFINE m == Owner[s]
    <2>1. /\ loaded[s].status \in {"none", "DRAFT", "LOCKED"}
          /\ loaded[s].slots \in Rosters /\ want[s] \in Rosters
          /\ seen[s].round \in 1 .. MaxRound
      BY <1>10 DEF SaveEntry, TypeOK, EntryCopy, TournamentCopy
    <2>2. Saved(s).status \in {"none", "DRAFT", "LOCKED"} /\ Saved(s).slots \in Rosters
      BY <2>1 DEF Saved
    <2>3. Logged(s) \in Seq(Submission)
      <3> DEFINE out == loaded[s].slots \ want[s]
                 in  == want[s] \ loaded[s].slots
                 row == [round |-> seen[s].round, out |-> out, in |-> in]
      <3>1. out \in Rosters /\ in \in Rosters
        BY <2>1 DEF Rosters
      <3>2. row \in Submission
        <4> HIDE DEF out, in
        <4> QED
          BY <2>1, <3>1 DEF Submission
      <3>3. Logged(s) = <<row>> \/ Logged(s) = << >>
        BY DEF Logged
      <3> HIDE DEF row
      <3> QED
        <4>1. << >> \in Seq(Submission) /\ \A e \in Submission : <<e>> \in Seq(Submission)
          BY OneElement
        <4> QED
          BY <3>2, <3>3, <4>1
    <2>4. log' \in [Managers -> Seq(Submission)]
      BY <1>10, <2>3 DEF SaveEntry, WriteEntry, TypeOK
    <2>5. /\ entry' \in [Managers -> {"none", "DRAFT", "LOCKED"}]
          /\ slots' \in [Managers -> Rosters]
          /\ opening' \in [Managers -> Rosters]
      <3>1. /\ entry' = [entry EXCEPT ![m] = Saved(s).status]
            /\ slots' = [slots EXCEPT ![m] = Saved(s).slots]
            /\ opening' = [opening EXCEPT ![m] = Saved(s).slots] \/ opening' = opening
        BY <1>10 DEF SaveEntry, WriteEntry
      <3>2. m \in Managers
        OBVIOUS
      <3>3. /\ entry \in [Managers -> {"none", "DRAFT", "LOCKED"}]
            /\ slots \in [Managers -> Rosters] /\ opening \in [Managers -> Rosters]
        BY DEF TypeOK
      <3> HIDE DEF m
      <3> QED
        BY <2>2, <3>1, <3>2, <3>3
    <2> QED
      BY <1>10, <2>4, <2>5, EndType DEF SaveEntry, WriteEntry, TypeOK
  <1>11. ASSUME NEW s \in Sessions, Refuse(s) \/ Abort(s) PROVE TypeOK'
    BY <1>11, EndType DEF Refuse, Abort, TypeOK
  <1>12. ASSUME NEW a \in Admins,
                AdvanceRound(a) \/ \E open \in BOOLEAN : SetSwapWindow(a, open)
         PROVE  TypeOK'
    BY <1>12 DEF AdvanceRound, SetSwapWindow, TypeOK
  <1>13. ASSUME NEW a \in Admins, NEW st \in Statuses, NEW c \in Capacities,
                ReadForUpdate(a, [status |-> st, capacity |-> c])
         PROVE  TypeOK'
    <2>1. [status |-> st, capacity |-> c] \in [status : Status, capacity : Nat]
      BY DEF Status
    <2> QED
      BY <1>13, <2>1 DEF ReadForUpdate, TypeOK
  <1>14. ASSUME NEW a \in Admins, WriteTournament(a) PROVE TypeOK'
    BY <1>14 DEF WriteTournament, TypeOK
  <1>15. ASSUME NEW a \in Admins, NEW m \in Managers, PurgeEntry(a, m) PROVE TypeOK'
    BY <1>15 DEF PurgeEntry, TypeOK
  <1>16. ASSUME NEW a \in Admins, SaveTournament(a) PROVE TypeOK'
    <2>1. /\ entry' \in [Managers -> {"none", "DRAFT", "LOCKED"}]
          /\ slots' \in [Managers -> Rosters]
          /\ opening' \in [Managers -> Rosters]
          /\ log' \in [Managers -> Seq(Submission)]
          /\ UNCHANGED <<pc, op, seen, want, seats>>
      BY <1>16 DEF SaveTournament, Purged, TypeOK, Rosters
    <2>2. loaded' \in [Sessions -> EntryCopy]
      <3>1. \A e \in EntryCopy : [e EXCEPT !.status = "gone"] \in EntryCopy
        BY DEF EntryCopy
      <3>2. \A s \in Sessions : loaded[s] \in EntryCopy
        BY DEF TypeOK
      <3> QED
        BY <1>16, <3>1, <3>2 DEF SaveTournament, Purged
    <2>3. /\ status' \in Status /\ capacity' \in Nat
          /\ round' \in 1 .. MaxRound /\ window' \in BOOLEAN
      BY <1>16 DEF SaveTournament, TypeOK
    <2> QED
      BY <1>16, <2>1, <2>2, <2>3, AdminEndType DEF SaveTournament, TypeOK
  <1>17. ASSUME NEW a \in Admins, AdminAbort(a) PROVE TypeOK'
    BY <1>17, AdminEndType DEF AdminAbort, TypeOK
  <1>18. ASSUME UNCHANGED vars PROVE TypeOK'
    BY <1>18 DEF vars, TypeOK
  <1> QED
    BY <1>1, <1>2, <1>3, <1>4, <1>5, <1>6, <1>7, <1>8, <1>9, <1>10, <1>11, <1>12,
       <1>13, <1>14, <1>15, <1>16, <1>17, <1>18
    DEF Next, Session, Acquire, Proceed, Admin

\* Every variable of the tournament, its entries and its requests stays in its
\* range, whatever the interleaving; in particular no purged entry is written
\* back.
THEOREM TypeCorrect == Spec => []TypeOK
  <1>1. Init => TypeOK
    BY InitType
  <1>2. TypeOK /\ [Next]_vars => TypeOK'
    BY NextType
  <1> QED
    BY <1>1, <1>2, PTL DEF Spec

-----------------------------------------------------------------------------
\* A request that ends is idle and holds no row; the others keep what they have.
LEMMA EndEffect ==
  ASSUME TypeOK, NEW s \in Sessions, End(s)
  PROVE  /\ pc'[s] = "idle" /\ loaded'[s] = NoEntry
         /\ tlock # s => tlock' = tlock
         /\ apc' = apc
         /\ \A r \in Sessions \ {s} :
              /\ pc'[r] = pc[r] /\ op'[r] = op[r] /\ loaded'[r] = loaded[r]
              /\ want'[r] = want[r] /\ seats'[r] = seats[r]
  BY DEF End, TypeOK, admins

\* A request that saves an entry finds it there and leaves it there.
LEMMA SaveKeepsEntered ==
  ASSUME IInv, NEW s \in Sessions, SaveEntry(s)
  PROVE  /\ entry[Owner[s]] # "none" /\ entry'[Owner[s]] = Saved(s).status
         /\ Saved(s).status # "none"
         /\ loaded[s].status \in {"DRAFT", "LOCKED"}
         /\ \A m \in Managers : (entry'[m] = "none") <=> (entry[m] = "none")
  <1>1. pc[s] = "save" /\ loaded[s].status \in {"DRAFT", "LOCKED"}
    BY DEF IInv, TypeOK, LoadInv, SaveEntry, WriteEntry, EntryCopy
  <1>2. Owner[s] \in Managers /\ entry[Owner[s]] # "none"
    BY <1>1, ConstantsAssumption DEF IInv, LoadInv
  <1>3. Saved(s).status # "none"
    BY <1>1 DEF Saved
  <1>4. entry' = [entry EXCEPT ![Owner[s]] = Saved(s).status]
    BY DEF SaveEntry, WriteEntry
  <1>5. entry'[Owner[s]] = Saved(s).status
    BY <1>2, <1>4 DEF IInv, TypeOK
  <1> QED
    BY <1>1, <1>2, <1>3, <1>4, <1>5 DEF IInv, TypeOK

\* A step that moves neither the capacity nor anybody into or out of the count.
LEMMA SeatKept ==
  ASSUME SeatInv, capacity' = capacity, entry' = entry, tlock' = tlock,
         apc' = apc, pc' = pc, seats' = seats
  PROVE  SeatInv'
  BY DEF SeatInv, Entered

\* No step moves the capacity or the count under a registration that holds the
\* tournaments row.
LEMMA NextSeat == IInv /\ [Next]_vars => SeatInv'
  <1> SUFFICES ASSUME IInv, [Next]_vars PROVE SeatInv'
    OBVIOUS
  <1> USE ConstantsAssumption
  <1> USE DEF tournament, entries, requests, admins
  <1>0. TypeOK /\ SeatInv
    BY DEF IInv
  <1>1. ASSUME NEW s \in Sessions, Ask(s) PROVE SeatInv'
    <2>1. PICK kind \in {"register", "draft", "lock", "swap"}, roster \in Rosters :
             Begin(s, kind, roster)
      BY <1>1 DEF Ask, Rosters
    <2>2. pc'[s] \notin {"count", "insert"} /\ \A r \in Sessions \ {s} : pc'[r] = pc[r]
      BY <2>1, <1>0 DEF Begin, Goto, TypeOK
    <2>3. UNCHANGED <<capacity, entry, tlock, apc, seats>>
      BY <2>1 DEF Begin
    <2> QED
      BY <1>0, <2>2, <2>3 DEF SeatInv, Entered
  <1>2. ASSUME NEW s \in Sessions,
               FindNoEntry(s) \/ LoadEntry(s) \/ UpdateEntry(s) \/ LockEntry(s)
                 \/ LoadForSwap(s)
        PROVE  SeatInv'
    <2>1. pc'[s] \notin {"count", "insert"} /\ \A r \in Sessions \ {s} : pc'[r] = pc[r]
      BY <1>0, <1>2 DEF FindNoEntry, LoadEntry, UpdateEntry, LockEntry, LoadForSwap,
                        Goto, TypeOK
    <2>2. UNCHANGED <<capacity, entry, tlock, apc, seats>>
      BY <1>2 DEF FindNoEntry, LoadEntry, UpdateEntry, LockEntry, LoadForSwap
    <2> QED
      BY <1>0, <2>1, <2>2 DEF SeatInv, Entered
  <1>3. ASSUME NEW s \in Sessions, LockCapacity(s) PROVE SeatInv'
    BY <1>0, <1>3 DEF LockCapacity, Goto, SeatInv, Entered, TypeOK
  <1>4. ASSUME NEW s \in Sessions, CountEntries(s) PROVE SeatInv'
    BY <1>0, <1>4 DEF CountEntries, Goto, SeatInv, Entered, TypeOK
  <1>5. ASSUME NEW s \in Sessions, InsertEntry(s) PROVE SeatInv'
    \* Nobody else is between count and insert.
    BY <1>0, <1>5, EndEffect DEF InsertEntry, SeatInv
  <1>6. ASSUME NEW s \in Sessions, SaveEntry(s) PROVE SeatInv'
    <2>1. Entered' = Entered
      BY <1>6, SaveKeepsEntered DEF Entered
    <2>2. End(s) /\ pc[s] = "save" /\ UNCHANGED tournament
      BY <1>6 DEF SaveEntry, WriteEntry
    <2> QED
      BY <1>0, <2>1, <2>2, EndEffect DEF SeatInv
  <1>7. ASSUME NEW s \in Sessions, Refuse(s) \/ Abort(s) PROVE SeatInv'
    <2>1. End(s) /\ UNCHANGED <<tournament, entries>>
      BY <1>7 DEF Refuse, Abort
    <2>2. Entered' = Entered
      BY <2>1 DEF Entered
    <2> QED
      BY <1>0, <2>1, <2>2, EndEffect DEF SeatInv
  <1>8. ASSUME NEW a \in Admins,
               AdvanceRound(a) \/ (\E open \in BOOLEAN : SetSwapWindow(a, open))
        PROVE  SeatInv'
    BY <1>0, <1>8, SeatKept DEF AdvanceRound, SetSwapWindow
  <1>9. ASSUME NEW a \in Admins, NEW f, ReadForUpdate(a, f) PROVE SeatInv'
    BY <1>0, <1>9 DEF ReadForUpdate, SeatInv, Entered, TypeOK
  <1>10. ASSUME NEW a \in Admins, WriteTournament(a) PROVE SeatInv'
    BY <1>0, <1>10 DEF WriteTournament, SeatInv, Entered, TypeOK
  <1>11. ASSUME NEW a \in Admins, NEW m \in Managers, PurgeEntry(a, m) PROVE SeatInv'
    BY <1>0, <1>11, SeatKept DEF PurgeEntry
  <1>12. ASSUME NEW a \in Admins, SaveTournament(a) PROVE SeatInv'
    \* The row is the admin's, so no session counts.
    <2>1. tlock = a /\ \A s \in Sessions : pc[s] \notin {"count", "insert"}
      BY <1>0, <1>12 DEF SaveTournament, SeatInv
    <2>2. pc' = pc
      BY <1>12 DEF SaveTournament, Purged
    <2>3. \A b \in Admins : apc'[b] # "written"
      BY <1>0, <1>12, <2>1 DEF SaveTournament, AdminEnd, SeatInv, TypeOK
    <2> QED
      BY <2>1, <2>2, <2>3 DEF SeatInv
  <1>13. ASSUME NEW a \in Admins, AdminAbort(a) PROVE SeatInv'
    <2>1. UNCHANGED <<pc, seats, capacity, entry>>
      BY <1>13 DEF AdminAbort
    <2>2. Entered' = Entered
      BY <2>1 DEF Entered
    <2>3. /\ tlock # a => tlock' = tlock
          /\ apc'[a] = "idle" /\ \A b \in Admins \ {a} : apc'[b] = apc[b]
      BY <1>0, <1>13 DEF AdminAbort, AdminEnd, TypeOK
    <2> QED
      BY <1>0, <2>1, <2>2, <2>3 DEF SeatInv
  <1>14. ASSUME UNCHANGED vars PROVE SeatInv'
    BY <1>0, <1>14, SeatKept DEF vars
  <1> QED
    BY <1>1, <1>2, <1>3, <1>4, <1>5, <1>6, <1>7, <1>8, <1>9, <1>10, <1>11, <1>12,
       <1>13, <1>14
    DEF Next, Session, Acquire, Proceed, Admin

\* A request that is about to write keeps a copy it has validated, of a row
\* that is there or was purged.
LEMMA NextLoad == IInv /\ [Next]_vars => LoadInv'
  <1> SUFFICES ASSUME IInv, [Next]_vars PROVE LoadInv'
    OBVIOUS
  <1> USE ConstantsAssumption
  <1> USE DEF tournament, entries, requests, admins
  <1>0. TypeOK /\ LoadInv
    BY DEF IInv
  <1>1. ASSUME NEW s \in Sessions, Ask(s) PROVE LoadInv'
    <2>1. PICK kind \in {"register", "draft", "lock", "swap"}, roster \in Rosters :
             Begin(s, kind, roster)
      BY <1>1 DEF Ask, Rosters
    <2>2. /\ pc'[s] \notin {"update", "save"}
          /\ pc'[s] \in {"queue", "swap"} => op'[s] = "swap"
          /\ \A r \in Sessions \ {s} :
               pc'[r] = pc[r] /\ op'[r] = op[r] /\ want'[r] = want[r]
      BY <2>1, <1>0 DEF Begin, Goto, TypeOK
    <2>3. UNCHANGED <<entry, loaded>>
      BY <2>1 DEF Begin
    <2> QED
      BY <1>0, <2>2, <2>3 DEF LoadInv
  <1>2. ASSUME NEW s \in Sessions,
               FindNoEntry(s) \/ LockCapacity(s) \/ CountEntries(s) \/ LockEntry(s)
        PROVE  LoadInv'
    <2>1. /\ pc'[s] \notin {"update", "save"}
          /\ pc'[s] \in {"queue", "swap"} => pc[s] = "queue"
          /\ \A r \in Sessions \ {s} : pc'[r] = pc[r]
      BY <1>0, <1>2 DEF FindNoEntry, LockCapacity, CountEntries, LockEntry, Goto, TypeOK
    <2>2. UNCHANGED <<entry, loaded, op, want>>
      BY <1>2 DEF FindNoEntry, LockCapacity, CountEntries, LockEntry
    <2> QED
      BY <1>0, <2>1, <2>2 DEF LoadInv
  <1>3. ASSUME NEW s \in Sessions, InsertEntry(s) PROVE LoadInv'
    <2>1. \A m \in Managers : entry[m] # "none" => entry'[m] # "none"
      BY <1>0, <1>3 DEF InsertEntry, TypeOK
    <2>2. End(s)
      BY <1>3 DEF InsertEntry
    <2> QED
      BY <1>0, <2>1, <2>2, EndEffect DEF LoadInv, NoEntry
  <1>4. ASSUME NEW s \in Sessions, LoadEntry(s) PROVE LoadInv'
    <2>1. /\ loaded'[s] = EntryOf(Owner[s])
          /\ \A r \in Sessions \ {s} : pc'[r] = pc[r] /\ loaded'[r] = loaded[r]
          /\ UNCHANGED <<entry, op, want>>
      BY <1>0, <1>4 DEF LoadEntry, Goto, TypeOK
    <2>2. /\ EntryOf(Owner[s]).status = entry[Owner[s]]
          /\ EntryOf(Owner[s]).status = "DRAFT"
          /\ op[s] = "lock" => Cardinality(EntryOf(Owner[s]).slots) = RosterSize
          /\ op[s] \notin {"swap", "register"}
      BY <1>4 DEF LoadEntry, MayWrite, ValidateLock, ValidateDraft, EntryOf
    <2>3. pc'[s] = "update"
      BY <1>0, <1>4 DEF LoadEntry, Goto, TypeOK
    <2> QED
      BY <1>0, <2>1, <2>2, <2>3 DEF LoadInv
  <1>5. ASSUME NEW s \in Sessions, UpdateEntry(s) PROVE LoadInv'
    <2>1. /\ pc[s] = "update" /\ pc'[s] = "save" /\ \A r \in Sessions \ {s} : pc'[r] = pc[r]
          /\ UNCHANGED <<entry, loaded, op, want>>
      BY <1>0, <1>5 DEF UpdateEntry, Goto, TypeOK
    <2> QED
      BY <1>0, <2>1 DEF LoadInv
  <1>6. ASSUME NEW s \in Sessions, LoadForSwap(s) PROVE LoadInv'
    <2>1. /\ loaded'[s] = EntryOf(Owner[s])
          /\ \A r \in Sessions \ {s} : pc'[r] = pc[r] /\ loaded'[r] = loaded[r]
          /\ UNCHANGED <<entry, op, want>>
      BY <1>0, <1>6 DEF LoadForSwap, Goto, TypeOK
    <2>2. /\ EntryOf(Owner[s]).status = entry[Owner[s]]
          /\ EntryOf(Owner[s]).status = "LOCKED"
          /\ Cardinality(want[s]) = RosterSize
      BY <1>6 DEF LoadForSwap, ValidateSwap, EntryOf
    <2>3. op[s] = "swap" /\ pc'[s] \in {"update", "save"}
      BY <1>6, <1>0 DEF LoadForSwap, Goto, LoadInv, TypeOK
    <2> QED
      BY <1>0, <2>1, <2>2, <2>3 DEF LoadInv
  <1>7. ASSUME NEW s \in Sessions, SaveEntry(s) PROVE LoadInv'
    <2>1. \A m \in Managers : (entry'[m] = "none") <=> (entry[m] = "none")
      BY <1>7, SaveKeepsEntered
    <2>2. End(s)
      BY <1>7 DEF SaveEntry, WriteEntry
    <2> QED
      BY <1>0, <2>1, <2>2, EndEffect DEF LoadInv, NoEntry
  <1>8. ASSUME NEW s \in Sessions, Refuse(s) \/ Abort(s) PROVE LoadInv'
    <2>1. End(s) /\ entry' = entry
      BY <1>8 DEF Refuse, Abort
    <2> QED
      BY <1>0, <2>1, EndEffect DEF LoadInv, NoEntry
  <1>9. ASSUME UNCHANGED <<entry, loaded, pc, op, want>> PROVE LoadInv'
    BY <1>0, <1>9 DEF LoadInv
  <1>10. ASSUME NEW a \in Admins, SaveTournament(a) PROVE LoadInv'
    <2> DEFINE gone == {m \in Managers : elock[m] = a}
    <2>1. UNCHANGED <<pc, op, want>>
      BY <1>10 DEF SaveTournament, Purged
    <2>2. \A m \in Managers : entry'[m] = IF m \in gone THEN "none" ELSE entry[m]
      BY <1>10 DEF SaveTournament, Purged
    <2>3. \A s \in Sessions :
             loaded'[s] = IF Owner[s] \in gone /\ loaded[s].status # "none"
                          THEN [loaded[s] EXCEPT !.status = "gone"] ELSE loaded[s]
      BY <1>10 DEF SaveTournament, Purged
    <2>4. \A e \in EntryCopy : /\ [e EXCEPT !.status = "gone"].status = "gone"
                               /\ [e EXCEPT !.status = "gone"].slots = e.slots
      BY DEF EntryCopy
    <2>5. ASSUME NEW s \in Sessions
          PROVE  /\ loaded'[s].slots = loaded[s].slots
                 /\ \/ loaded'[s].status = loaded[s].status
                       /\ (Owner[s] \in gone => loaded[s].status = "none")
                    \/ loaded'[s].status = "gone" /\ loaded[s].status # "none"
      <3>1. loaded[s] \in EntryCopy
        BY <1>0 DEF TypeOK
      <3>2. CASE Owner[s] \in gone /\ loaded[s].status # "none"
        <4>1. loaded'[s] = [loaded[s] EXCEPT !.status = "gone"]
          BY <2>3, <3>2
        <4> QED
          BY <2>4, <3>1, <3>2, <4>1
      <3>3. CASE ~(Owner[s] \in gone /\ loaded[s].status # "none")
        <4>1. loaded'[s] = loaded[s]
          BY <2>3, <3>3
        <4> HIDE DEF gone
        <4> QED
          BY <3>3, <4>1
      <3> QED
        BY <3>2, <3>3
    <2>6. \A s \in Sessions : Owner[s] \in Managers
      OBVIOUS
    <2> HIDE DEF gone
    <2> QED
      BY <1>0, <2>1, <2>2, <2>5, <2>6 DEF LoadInv
  <1>11. ASSUME NEW a \in Admins, Admin(a), ~SaveTournament(a)
         PROVE  UNCHANGED <<entry, loaded, pc, op, want>>
    BY <1>11 DEF Admin, AdvanceRound, SetSwapWindow, ReadForUpdate, WriteTournament,
                 PurgeEntry, AdminAbort
  <1>12. UNCHANGED vars => UNCHANGED <<entry, loaded, pc, op, want>>
    BY DEF vars
  <1> QED
    BY <1>1, <1>2, <1>3, <1>4, <1>5, <1>6, <1>7, <1>8, <1>9, <1>10, <1>11, <1>12
    DEF Next, Session, Acquire, Proceed

\* A roster that becomes locked, or changes while locked, is a full one.
LEMMA NextComplete == IInv /\ [Next]_vars => LockedRosterIsComplete'
  <1> SUFFICES ASSUME IInv, [Next]_vars PROVE LockedRosterIsComplete'
    OBVIOUS
  <1> USE ConstantsAssumption
  <1> USE DEF tournament, entries, requests, admins
  <1>0. TypeOK /\ LoadInv /\ LockedRosterIsComplete
    BY DEF IInv
  <1>1. ASSUME NEW s \in Sessions, InsertEntry(s) PROVE LockedRosterIsComplete'
    BY <1>0, <1>1 DEF InsertEntry, LockedRosterIsComplete, TypeOK
  <1>2. ASSUME NEW s \in Sessions, SaveEntry(s) PROVE LockedRosterIsComplete'
    <2> DEFINE m == Owner[s]
    <2>1. pc[s] = "save" /\ loaded[s].status \in {"DRAFT", "LOCKED"}
      BY <1>2, SaveKeepsEntered DEF SaveEntry, WriteEntry
    <2>2. op[s] \in {"register", "draft", "lock", "swap"}
      BY <1>0 DEF TypeOK
    <2>3. op[s] # "register"
      BY <1>0, <2>1 DEF LoadInv
    <2>4. Saved(s).status = "LOCKED" => Cardinality(Saved(s).slots) = RosterSize
      BY <1>0, <2>1, <2>2, <2>3 DEF LoadInv, Saved
    <2>5. /\ entry' = [entry EXCEPT ![m] = Saved(s).status]
          /\ slots' = [slots EXCEPT ![m] = Saved(s).slots]
      BY <1>2 DEF SaveEntry, WriteEntry
    <2>6. \A x \in Managers :
             /\ entry'[x] = IF x = m THEN Saved(s).status ELSE entry[x]
             /\ slots'[x] = IF x = m THEN Saved(s).slots ELSE slots[x]
      BY <1>0, <2>5 DEF TypeOK
    <2> QED
      BY <1>0, <2>4, <2>6 DEF LockedRosterIsComplete
  <1>3. ASSUME NEW a \in Admins, SaveTournament(a) PROVE LockedRosterIsComplete'
    BY <1>0, <1>3 DEF SaveTournament, Purged, LockedRosterIsComplete
  <1>4. ASSUME UNCHANGED <<entry, slots>> PROVE LockedRosterIsComplete'
    BY <1>0, <1>4 DEF LockedRosterIsComplete
  <1>5. ASSUME NEW s \in Sessions, Session(s), ~InsertEntry(s), ~SaveEntry(s)
        PROVE  UNCHANGED <<entry, slots>>
    BY <1>5 DEF Session, Ask, Acquire, Proceed, Begin, FindNoEntry, LockCapacity,
                CountEntries, LoadEntry, UpdateEntry, LockEntry, LoadForSwap,
                Refuse, Abort
  <1>6. ASSUME NEW a \in Admins, Admin(a), ~SaveTournament(a)
        PROVE  UNCHANGED <<entry, slots>>
    BY <1>6 DEF Admin, AdvanceRound, SetSwapWindow, ReadForUpdate, WriteTournament,
                PurgeEntry, AdminAbort
  <1>7. UNCHANGED vars => UNCHANGED <<entry, slots>>
    BY DEF vars
  <1> QED
    BY <1>1, <1>2, <1>3, <1>4, <1>5, <1>6, <1>7 DEF Next

\* No request is in flight and nothing is locked at the start.
LEMMA InitInv == Init => IInv
  <1> SUFFICES ASSUME Init PROVE IInv
    OBVIOUS
  <1>1. SeatInv
    BY DEF Init, SeatInv
  <1>2. LoadInv
    BY DEF Init, LoadInv, NoEntry
  <1>3. LockedRosterIsComplete
    BY DEF Init, LockedRosterIsComplete
  <1> QED
    BY <1>1, <1>2, <1>3, InitType DEF IInv

\* What every reachable state satisfies.
THEOREM InvariantHolds == Spec => []IInv
  <1>1. IInv /\ [Next]_vars => IInv'
    BY NextType, NextSeat, NextLoad, NextComplete DEF IInv
  <1> QED
    BY <1>1, InitInv, PTL DEF Spec

\* A locked entry has a full roster, whatever was written between the
\* validation of a request and its UPDATE.
THEOREM LockedRostersAreComplete == Spec => []LockedRosterIsComplete
  <1>1. IInv => LockedRosterIsComplete
    BY DEF IInv
  <1> QED
    BY <1>1, InvariantHolds, PTL

\* Every step that brings an entry into the tournament finds a free seat.
LEMMA StepTakesFreeSeat == IInv /\ [Next]_vars => SeatIsFree
  <1> SUFFICES ASSUME IInv, [Next]_vars, NEW m \in Managers,
                      entry[m] = "none", entry'[m] # "none"
               PROVE  Cardinality(Entered) < capacity
    BY DEF SeatIsFree
  <1> USE DEF tournament, entries, requests, admins
  <1>1. ASSUME NEW s \in Sessions, InsertEntry(s)
        PROVE  Cardinality(Entered) < capacity
    BY <1>1 DEF InsertEntry, IInv, SeatInv
  <1>2. ASSUME NEW s \in Sessions, SaveEntry(s) PROVE FALSE
    BY <1>2, SaveKeepsEntered
  <1>3. ASSUME NEW a \in Admins, SaveTournament(a) PROVE FALSE
    BY <1>3 DEF SaveTournament, Purged
  <1>4. ASSUME NEW s \in Sessions, Session(s), ~InsertEntry(s), ~SaveEntry(s)
        PROVE  entry' = entry
    BY <1>4 DEF Session, Ask, Acquire, Proceed, Begin, FindNoEntry, LockCapacity,
                CountEntries, LoadEntry, UpdateEntry, LockEntry, LoadForSwap,
                Refuse, Abort
  <1>5. ASSUME NEW a \in Admins, Admin(a), ~SaveTournament(a)
        PROVE  entry' = entry
    BY <1>5 DEF Admin, AdvanceRound, SetSwapWindow, ReadForUpdate, WriteTournament,
                PurgeEntry, AdminAbort
  <1>6. UNCHANGED vars => entry' = entry
    BY DEF vars
  <1> QED
    BY <1>1, <1>2, <1>3, <1>4, <1>5, <1>6 DEF Next

\* No seat is taken beyond the capacity: for any number of managers, requests
\* and admins, an entry appears only while a seat is free.
THEOREM SeatsAreFree == Spec => CapacityHeld
  <1>1. IInv /\ [Next]_vars => [SeatIsFree]_vars
    BY StepTakesFreeSeat
  <1> QED
    BY <1>1, InvariantHolds, PTL DEF Spec, CapacityHeld

-----------------------------------------------------------------------------
(* One submission per round.                                                *)

\* A request that begins goes to its first step with what it asks for.
LEMMA BeginEffect ==
  ASSUME TypeOK, NEW s \in Sessions, Ask(s)
  PROVE  /\ pc[s] = "idle" /\ op'[s] \in May[s]
         /\ \/ pc'[s] = "find" /\ op'[s] = "register"
            \/ pc'[s] = "queue" /\ op'[s] = "swap"
            \/ pc'[s] = "load" /\ op'[s] \in {"draft", "lock"}
         /\ seen'[s].round = round
         /\ \A r \in Sessions \ {s} :
              pc'[r] = pc[r] /\ op'[r] = op[r] /\ seen'[r] = seen[r] /\ want'[r] = want[r]
         /\ UNCHANGED <<tournament, entries, elock, loaded>>
  <1>1. PICK kind \in {"register", "draft", "lock", "swap"}, roster \in Rosters :
           Begin(s, kind, roster)
    BY DEF Ask, Rosters
  <1>2. /\ pc[s] = "idle" /\ op'[s] = kind /\ kind \in May[s]
        /\ seen'[s].round = round
        /\ \A r \in Sessions \ {s} :
             pc'[r] = pc[r] /\ op'[r] = op[r] /\ seen'[r] = seen[r] /\ want'[r] = want[r]
        /\ UNCHANGED <<tournament, entries, elock, loaded>>
    BY <1>1 DEF Begin, Goto, TypeOK
  <1>3. pc'[s] = CASE kind = "register" -> "find"
                   [] kind = "swap"     -> "queue"
                   [] OTHER             -> "load"
    BY <1>1 DEF Begin, Goto, TypeOK
  <1> QED
    BY <1>2, <1>3

\* A request that ends holds no entry; the other requests and locks stay.
LEMMA EndLocks ==
  ASSUME TypeOK, NEW s \in Sessions, End(s)
  PROVE  /\ pc'[s] = "idle"
         /\ \A r \in Sessions \ {s} :
              /\ pc'[r] = pc[r] /\ op'[r] = op[r] /\ seen'[r] = seen[r]
              /\ loaded'[r] = loaded[r] /\ want'[r] = want[r]
         /\ \A m \in Managers : elock'[m] = IF elock[m] = s THEN Nobody ELSE elock[m]
  BY DEF End, TypeOK

\* A request between its beginning and its end touches no entry and keeps what
\* it asked for.
LEMMA MoveEffect ==
  ASSUME TypeOK, NEW s \in Sessions,
         \/ FindNoEntry(s) \/ LockCapacity(s) \/ CountEntries(s) \/ LoadEntry(s)
         \/ UpdateEntry(s) \/ LockEntry(s) \/ LoadForSwap(s)
  PROVE  /\ \A r \in Sessions \ {s} : pc'[r] = pc[r] /\ loaded'[r] = loaded[r]
         /\ UNCHANGED <<tournament, entries, op, seen, want>>
  BY DEF FindNoEntry, LockCapacity, CountEntries, LoadEntry, UpdateEntry, LockEntry,
         LoadForSwap, Goto, TypeOK

\* An admin moves no request, and takes an entry only from nobody.
LEMMA AdminLocks ==
  ASSUME TypeOK, NEW a \in Admins, Admin(a)
  PROVE  /\ UNCHANGED <<pc, op, seen, want>>
         /\ \A m \in Managers :
              \/ elock'[m] = elock[m]
              \/ elock[m] = Nobody /\ elock'[m] = a /\ entry[m] = "DRAFT"
              \/ elock[m] = a /\ elock'[m] = Nobody
         /\ ~SaveTournament(a) => UNCHANGED <<entries, loaded>>
  <1> USE DEF requests, tournament
  <1>1. CASE SaveTournament(a)
    BY <1>1 DEF SaveTournament, Purged, AdminEnd, TypeOK
  <1>2. CASE AdminAbort(a)
    BY <1>2 DEF AdminAbort, AdminEnd, TypeOK
  <1>3. CASE \E m \in Managers : PurgeEntry(a, m)
    BY <1>3 DEF PurgeEntry, TypeOK
  <1>4. CASE \/ AdvanceRound(a) \/ WriteTournament(a)
             \/ \E open \in BOOLEAN : SetSwapWindow(a, open)
             \/ \E st \in Statuses, c \in Capacities :
                   ReadForUpdate(a, [status |-> st, capacity |-> c])
    BY <1>4 DEF AdvanceRound, WriteTournament, SetSwapWindow, ReadForUpdate
  <1> QED
    BY <1>1, <1>2, <1>3, <1>4 DEF Admin

\* An update that saves the tournament takes away the entries it has deleted,
\* and no others.
LEMMA PurgeEffect ==
  ASSUME TypeOK, NEW a \in Admins, SaveTournament(a)
  PROVE  /\ \A m \in Managers :
              IF elock[m] = a
              THEN entry'[m] = "none" /\ slots'[m] = {} /\ log'[m] = << >>
              ELSE UNCHANGED <<entry[m], slots[m], log[m]>>
         /\ \A s \in Sessions :
              IF elock[Owner[s]] = a /\ loaded[s].status # "none"
              THEN loaded'[s].status = "gone" /\ loaded'[s].slots = loaded[s].slots
              ELSE loaded'[s] = loaded[s]
         /\ elock' = [m \in Managers |-> IF elock[m] = a THEN Nobody ELSE elock[m]]
  <1>1. \A m \in Managers :
           IF elock[m] = a
           THEN entry'[m] = "none" /\ slots'[m] = {} /\ log'[m] = << >>
           ELSE UNCHANGED <<entry[m], slots[m], log[m]>>
    BY DEF SaveTournament, Purged
  <1>2. ASSUME NEW s \in Sessions
        PROVE  IF elock[Owner[s]] = a /\ loaded[s].status # "none"
               THEN loaded'[s].status = "gone" /\ loaded'[s].slots = loaded[s].slots
               ELSE loaded'[s] = loaded[s]
    <2>1. loaded'[s] = IF elock[Owner[s]] = a /\ loaded[s].status # "none"
                       THEN [loaded[s] EXCEPT !.status = "gone"] ELSE loaded[s]
      BY ConstantsAssumption DEF SaveTournament, Purged
    <2>2. loaded[s] \in EntryCopy
      BY DEF TypeOK
    <2>3. \A e \in EntryCopy : /\ [e EXCEPT !.status = "gone"].status = "gone"
                               /\ [e EXCEPT !.status = "gone"].slots = e.slots
      BY DEF EntryCopy
    <2> QED
      BY <2>1, <2>2, <2>3
  <1>3. elock' = [m \in Managers |-> IF elock[m] = a THEN Nobody ELSE elock[m]]
    BY DEF SaveTournament, AdminEnd
  <1> QED
    BY <1>1, <1>2, <1>3

\* Nobody writes or deletes an entry it does not hold.
LEMMA NextLock == IInv /\ LockInv /\ [Next]_vars => LockInv'
  <1> SUFFICES ASSUME IInv, LockInv, [Next]_vars PROVE LockInv'
    OBVIOUS
  <1> USE ConstantsAssumption
  <1>0. TypeOK
    BY DEF IInv
  <1>1. ASSUME NEW s \in Sessions, Ask(s) PROVE LockInv'
    BY <1>0, <1>1, BeginEffect DEF LockInv, entries
  <1>2. ASSUME NEW s \in Sessions,
               \/ FindNoEntry(s) \/ LockCapacity(s) \/ CountEntries(s) \/ LoadEntry(s)
        PROVE  LockInv'
    <2>1. /\ pc[s] \notin {"swap", "save", "idle"} /\ pc'[s] \notin {"swap", "save", "idle"}
          /\ pc'[s] \in {"find", "seat", "count", "insert"} =>
               pc[s] \in {"find", "seat", "count", "insert"}
          /\ elock' = elock
      BY <1>0, <1>2 DEF FindNoEntry, LockCapacity, CountEntries, LoadEntry, Goto, TypeOK
    <2> QED
      BY <1>0, <1>2, <2>1, MoveEffect DEF LockInv, entries
  <1>3. ASSUME NEW s \in Sessions, UpdateEntry(s) PROVE LockInv'
    <2>1. /\ pc[s] = "update" /\ pc'[s] = "save"
          /\ elock[Owner[s]] = Nobody
          /\ \A m \in Managers : elock'[m] = IF m = Owner[s] THEN s ELSE elock[m]
      BY <1>0, <1>3 DEF UpdateEntry, Goto, TypeOK
    <2> QED
      BY <1>0, <1>3, <2>1, MoveEffect DEF LockInv, entries
  <1>4. ASSUME NEW s \in Sessions, LockEntry(s) PROVE LockInv'
    <2>1. /\ pc[s] = "queue" /\ pc'[s] = "swap"
          /\ elock[Owner[s]] = Nobody
          /\ \A m \in Managers : elock'[m] = elock[m] \/ (m = Owner[s] /\ elock'[m] = s)
      BY <1>0, <1>4 DEF LockEntry, Goto, TypeOK
    <2> QED
      BY <1>0, <1>4, <2>1, MoveEffect DEF LockInv, entries
  <1>5. ASSUME NEW s \in Sessions, LoadForSwap(s) PROVE LockInv'
    <2>1. /\ pc[s] = "swap" /\ elock' = elock
          /\ pc'[s] = IF elock[Owner[s]] = s THEN "save" ELSE "update"
      BY <1>0, <1>5 DEF LoadForSwap, Goto, TypeOK
    <2> QED
      BY <1>0, <1>5, <2>1, MoveEffect DEF LockInv, entries
  <1>6. ASSUME NEW s \in Sessions, InsertEntry(s) PROVE LockInv'
    <2>1. /\ entry[Owner[s]] = "none" /\ End(s)
          /\ \A m \in Managers : m # Owner[s] => entry'[m] = entry[m]
      BY <1>0, <1>6 DEF InsertEntry, TypeOK
    <2> QED
      BY <1>0, <2>1, EndLocks DEF LockInv
  <1>7. ASSUME NEW s \in Sessions, SaveEntry(s) PROVE LockInv'
    <2>1. /\ pc[s] = "save" /\ End(s)
          /\ \A m \in Managers : m # Owner[s] => entry'[m] = entry[m]
      BY <1>0, <1>7 DEF SaveEntry, WriteEntry, TypeOK
    <2>2. elock[Owner[s]] = s /\ s \notin Admins
      BY <2>1 DEF LockInv
    <2> QED
      BY <1>0, <2>1, <2>2, EndLocks DEF LockInv
  <1>8. ASSUME NEW s \in Sessions, Refuse(s) \/ Abort(s) PROVE LockInv'
    <2>1. End(s) /\ entry' = entry
      BY <1>8 DEF Refuse, Abort, entries
    <2> QED
      BY <1>0, <2>1, EndLocks DEF LockInv
  <1>9. ASSUME NEW a \in Admins, SaveTournament(a) PROVE LockInv'
    <2>1. Admin(a)
      BY <1>9 DEF Admin
    <2>2. /\ UNCHANGED <<pc, op>>
          /\ \A m \in Managers :
               /\ elock'[m] = IF elock[m] = a THEN Nobody ELSE elock[m]
               /\ elock[m] # a => entry'[m] = entry[m]
      BY <1>0, <1>9, <2>1, AdminLocks, PurgeEffect DEF TypeOK
    <2> QED
      BY <2>2 DEF LockInv
  <1>10. ASSUME NEW a \in Admins, Admin(a), ~SaveTournament(a) PROVE LockInv'
    BY <1>0, <1>10, AdminLocks DEF LockInv, entries
  <1>11. ASSUME UNCHANGED vars PROVE LockInv'
    BY <1>11 DEF LockInv, vars, entries, requests
  <1> QED
    BY <1>1, <1>2, <1>3, <1>4, <1>5, <1>6, <1>7, <1>8, <1>9, <1>10, <1>11
    DEF Next, Session, Acquire, Proceed

\* A request keeps what it was judged against while nobody touches its entry.
LEMMA SwapKept ==
  ASSUME NEW s \in Sessions, SwapHeld(s),
         UNCHANGED <<pc[s], op[s], seen[s], loaded[s]>>,
         UNCHANGED <<entry[Owner[s]], slots[Owner[s]], log[Owner[s]]>>,
         elock'[Owner[s]] = s <=> elock[Owner[s]] = s
  PROVE  SwapHeld(s)'
  BY DEF SwapHeld, EntryOf, SwappedInRound

\* A swap that saves holds its row, so between its validation and its save
\* nobody else writes the entry or the log.
LEMMA NextSwap ==
  IInv /\ LockInv /\ SwapInv /\ [Next]_vars /\ RegisteredApart => SwapInv'
  <1> SUFFICES ASSUME IInv, LockInv, SwapInv, [Next]_vars, RegisteredApart,
                      NEW s \in Sessions
               PROVE  SwapHeld(s)'
    BY DEF SwapInv
  <1> USE ConstantsAssumption
  <1> DEFINE m == Owner[s]
  <1>0. TypeOK /\ LoadInv /\ SwapHeld(s) /\ m \in Managers
    BY DEF IInv, SwapInv
  <1>1. CASE Ask(s)
    BY <1>0, <1>1, BeginEffect DEF SwapHeld
  <1>2. CASE FindNoEntry(s) \/ LockCapacity(s) \/ CountEntries(s)
    BY <1>0, <1>2 DEF FindNoEntry, LockCapacity, CountEntries, Goto, TypeOK, SwapHeld
  <1>3. CASE LoadEntry(s)
    BY <1>0, <1>3 DEF LoadEntry, MayWrite, Goto, TypeOK, SwapHeld
  <1>4. CASE UpdateEntry(s)
    BY <1>0, <1>4 DEF UpdateEntry, Goto, TypeOK, SwapHeld
  <1>5. CASE LockEntry(s)
    <2>1. pc'[s] = "swap" /\ entry' = entry
      BY <1>0, <1>5 DEF LockEntry, Goto, TypeOK, entries
    <2>2. entry[m] # "none" => elock'[m] = s
      BY <1>0, <1>5 DEF LockEntry, TypeOK
    <2> QED
      BY <2>1, <2>2 DEF SwapHeld
  <1>6. CASE LoadForSwap(s)
    \* Without a row there is nothing to swap.
    <2>1. /\ pc[s] = "swap" /\ ValidateSwap(want[s], m, seen[s], EntryOf(m))
          /\ pc'[s] = IF elock[m] = s THEN "save" ELSE "update"
          /\ loaded'[s] = EntryOf(m)
          /\ UNCHANGED <<entry, slots, log, seen>>
      BY <1>0, <1>6 DEF LoadForSwap, Goto, TypeOK, entries
    <2>2. entry[m] = "LOCKED" /\ ~SwappedInRound(m, seen[s].round)
      BY <2>1 DEF ValidateSwap, EntryOf
    <2>3. pc'[s] = "save"
      BY <1>0, <2>1, <2>2 DEF SwapHeld
    <2>4. (EntryOf(m))' = EntryOf(m) /\ ~(SwappedInRound(m, seen[s].round))'
      BY <2>1, <2>2 DEF EntryOf, SwappedInRound
    <2>5. EntryOf(m).status = "LOCKED"
      BY <2>2 DEF EntryOf
    <2> QED
      BY <2>1, <2>3, <2>4, <2>5 DEF SwapHeld
  <1>7. CASE InsertEntry(s) \/ SaveEntry(s) \/ Refuse(s) \/ Abort(s)
    <2>1. End(s)
      BY <1>7 DEF InsertEntry, SaveEntry, WriteEntry, Refuse, Abort
    <2> QED
      BY <1>0, <2>1, EndLocks DEF SwapHeld
  <1>8. ASSUME NEW r \in Sessions, r # s, Ask(r)
        PROVE  SwapHeld(s)'
    BY <1>0, <1>8, BeginEffect, SwapKept DEF entries
  <1>9. ASSUME NEW r \in Sessions, r # s,
               \/ FindNoEntry(r) \/ LockCapacity(r) \/ CountEntries(r) \/ LoadEntry(r)
               \/ UpdateEntry(r) \/ LockEntry(r) \/ LoadForSwap(r)
        PROVE  SwapHeld(s)'
    <2>1. elock'[m] = s <=> elock[m] = s
      BY <1>0, <1>9 DEF FindNoEntry, LockCapacity, CountEntries, LoadEntry, UpdateEntry,
                        LockEntry, LoadForSwap, TypeOK
    <2> QED
      BY <1>0, <1>9, <2>1, MoveEffect, SwapKept DEF entries
  <1>10. ASSUME NEW r \in Sessions, r # s, Refuse(r) \/ Abort(r)
         PROVE  SwapHeld(s)'
    <2>1. End(r) /\ UNCHANGED <<entry, slots, log>>
      BY <1>10 DEF Refuse, Abort, entries
    <2> QED
      BY <1>0, <1>10, <2>1, EndLocks, SwapKept
  <1>11. ASSUME NEW r \in Sessions, r # s, InsertEntry(r)
         PROVE  SwapHeld(s)'
    \* The entry of a swap that found none stays away; one that saves has its own.
    <2>1. /\ End(r) /\ entry[Owner[r]] = "none"
          /\ UNCHANGED <<slots, log>>
          /\ m # Owner[r] => entry'[m] = entry[m]
          /\ m = Owner[r] => entry'[m] = "DRAFT"
      BY <1>0, <1>11 DEF InsertEntry, TypeOK
    <2>2. CASE m # Owner[r]
      BY <1>0, <1>11, <2>1, <2>2, EndLocks, SwapKept
    <2>3. CASE m = Owner[r]
      <3>1. pc[s] # "swap"
        BY <1>0, <2>1, <2>3 DEF RegisteredApart
      <3>2. ~(pc[s] = "save" /\ op[s] = "swap")
        BY <1>0, <2>1, <2>3 DEF SwapHeld, EntryOf
      <3> QED
        BY <1>0, <1>11, <2>1, <3>1, <3>2, EndLocks DEF SwapHeld
    <2> QED
      BY <2>2, <2>3
  <1>12. ASSUME NEW r \in Sessions, r # s, SaveEntry(r)
         PROVE  SwapHeld(s)'
    <2>1. /\ End(r) /\ pc[r] = "save"
          /\ m # Owner[r] => UNCHANGED <<entry[m], slots[m], log[m]>>
      BY <1>0, <1>12 DEF SaveEntry, WriteEntry, TypeOK
    <2>2. elock[Owner[r]] = r
      BY <2>1 DEF LockInv
    <2>3. CASE m # Owner[r]
      BY <1>0, <1>12, <2>1, <2>3, EndLocks, SwapKept
    <2>4. CASE m = Owner[r]
      <3>1. pc[s] # "save" /\ (pc[s] = "swap" => entry[m] = "none")
        BY <1>0, <1>12, <2>2, <2>4 DEF LockInv, SwapHeld
      <3>2. pc[s] # "swap"
        BY <1>0, <1>12, <2>4, <3>1, SaveKeepsEntered
      <3> QED
        BY <1>0, <1>12, <2>1, <3>1, <3>2, EndLocks DEF SwapHeld
    <2> QED
      BY <2>3, <2>4
  <1>13. ASSUME NEW a \in Admins, SaveTournament(a) PROVE SwapHeld(s)'
    <2>1. Admin(a)
      BY <1>13 DEF Admin
    <2>2. UNCHANGED <<pc, op, seen>>
      BY <1>0, <2>1, AdminLocks
    <2>3. a # s /\ (elock'[m] = s <=> elock[m] = s)
      BY <1>0, <1>13, PurgeEffect
    <2>4. CASE elock[m] # a
      <3>1. UNCHANGED <<entry[m], slots[m], log[m], loaded[s]>>
        BY <1>0, <1>13, <2>4, PurgeEffect
      <3> QED
        BY <1>0, <2>2, <2>3, <3>1, SwapKept
    <2>5. CASE elock[m] = a
      <3>1. pc[s] # "save" /\ entry'[m] = "none"
        BY <1>0, <1>13, <2>3, <2>5, PurgeEffect DEF LockInv
      <3> QED
        BY <1>0, <2>2, <3>1 DEF SwapHeld
    <2> QED
      BY <2>4, <2>5
  <1>14. ASSUME NEW a \in Admins, Admin(a), ~SaveTournament(a) PROVE SwapHeld(s)'
    <2>1. /\ UNCHANGED <<pc, op, seen, entry, slots, log, loaded>>
          /\ elock'[m] = s <=> elock[m] = s
      BY <1>0, <1>14, AdminLocks DEF entries
    <2> QED
      BY <1>0, <2>1, SwapKept
  <1>15. CASE UNCHANGED vars
    BY <1>0, <1>15, SwapKept DEF vars, entries, requests
  <1> QED
    BY <1>1, <1>2, <1>3, <1>4, <1>5, <1>6, <1>7, <1>8, <1>9, <1>10, <1>11, <1>12,
       <1>13, <1>14, <1>15
    DEF Next, Session, Acquire, Proceed

\* Nobody holds a row or has asked for anything at the start.
LEMMA InitRequests == Init => LockInv /\ SwapInv
  BY ConstantsAssumption DEF Init, LockInv, SwapInv, SwapHeld

\* A row written at the end of a log stands after the rows it had.
LEMMA OneMoreRow ==
  ASSUME NEW S, NEW L \in Seq(S), NEW e \in S
  PROVE  /\ L \o <<e>> \in Seq(S) /\ Len(L \o <<e>>) = Len(L) + 1
         /\ DOMAIN (L \o <<e>>) = (DOMAIN L) \cup {Len(L) + 1}
         /\ Len(L) + 1 \notin DOMAIN L
         /\ \A i \in DOMAIN L : (L \o <<e>>)[i] = L[i]
         /\ (L \o <<e>>)[Len(L) + 1] = e
  OBVIOUS

\* Nothing written at the end of a log leaves it as it is.
LEMMA NoMoreRows == ASSUME NEW S, NEW L \in Seq(S) PROVE L \o << >> = L
  OBVIOUS

\* The row a request logs, when it logs one.
LoggedRow(s) ==
  [round |-> seen[s].round,
   out   |-> loaded[s].slots \ want[s],
   in    |-> want[s] \ loaded[s].slots]

\* A save writes one row for a swap that exchanges anything, and no other row.
LEMMA SaveLogs ==
  ASSUME TypeOK, NEW s \in Sessions, SaveEntry(s)
  PROVE  /\ LoggedRow(s) \in Submission
         /\ \A m \in Managers \ {Owner[s]} : log'[m] = log[m]
         /\ \/ log'[Owner[s]] = log[Owner[s]]
            \/ /\ op[s] = "swap" /\ want[s] \ loaded[s].slots # {}
               /\ log'[Owner[s]] = log[Owner[s]] \o <<LoggedRow(s)>>
         /\ op[s] = "swap" /\ want[s] \ loaded[s].slots # {} =>
              log'[Owner[s]] = log[Owner[s]] \o <<LoggedRow(s)>>
  <1> DEFINE m == Owner[s]
  <1>1. m \in Managers /\ log[m] \in Seq(Submission)
    BY ConstantsAssumption DEF TypeOK
  <1>2. LoggedRow(s) \in Submission
    <2>1. /\ seen[s].round \in 1 .. MaxRound
          /\ loaded[s].slots \in SUBSET Heroes /\ want[s] \in SUBSET Heroes
      BY DEF TypeOK, TournamentCopy, EntryCopy, Rosters
    <2>2. /\ (loaded[s].slots \ want[s]) \in SUBSET Heroes
          /\ (want[s] \ loaded[s].slots) \in SUBSET Heroes
      BY <2>1
    <2> QED
      BY <2>1, <2>2 DEF LoggedRow, Submission, Rosters
  <1>3. log' = [log EXCEPT ![m] = log[m] \o Logged(s)]
    BY DEF SaveEntry, WriteEntry
  <1>4. /\ log'[m] = log[m] \o Logged(s)
        /\ \A x \in Managers \ {m} : log'[x] = log[x]
    BY <1>1, <1>3 DEF TypeOK
  <1>5. Logged(s) = IF op[s] = "swap" /\ want[s] \ loaded[s].slots # {}
                    THEN <<LoggedRow(s)>> ELSE << >>
    BY DEF Logged, LoggedRow
  <1>6. log[m] \o << >> = log[m]
    BY <1>1, NoMoreRows
  <1> QED
    BY <1>2, <1>4, <1>5, <1>6

\* A log grows by a round it does not have yet, or is deleted.
LEMMA NextOnce ==
  IInv /\ SwapInv /\ OneSubmissionPerRound /\ [Next]_vars => OneSubmissionPerRound'
  <1> SUFFICES ASSUME IInv, SwapInv, OneSubmissionPerRound, [Next]_vars,
                      NEW m \in Managers
               PROVE  \A i, j \in DOMAIN log'[m] : log'[m][i].round = log'[m][j].round => i = j
    BY DEF OneSubmissionPerRound
  <1> USE ConstantsAssumption
  <1>0. TypeOK
    BY DEF IInv
  <1>1. CASE log'[m] = log[m]
    BY <1>1 DEF OneSubmissionPerRound
  <1>2. ASSUME NEW s \in Sessions, SaveEntry(s), log'[m] # log[m]
        PROVE  \A i, j \in DOMAIN log'[m] : log'[m][i].round = log'[m][j].round => i = j
    <2>1. /\ m = Owner[s] /\ op[s] = "swap"
          /\ log'[m] = log[m] \o <<LoggedRow(s)>> /\ LoggedRow(s) \in Submission
      BY <1>0, <1>2, SaveLogs
    <2>2. pc[s] = "save"
      BY <1>2 DEF SaveEntry, WriteEntry
    <2>3. \A i \in DOMAIN log[m] : log[m][i].round # LoggedRow(s).round
      BY <2>1, <2>2 DEF SwapInv, SwapHeld, SwappedInRound, LoggedRow
    <2>4. log[m] \in Seq(Submission)
      BY <1>0 DEF TypeOK
    <2>5. /\ DOMAIN log'[m] = (DOMAIN log[m]) \cup {Len(log[m]) + 1}
          /\ \A i \in DOMAIN log[m] : log'[m][i] = log[m][i]
          /\ log'[m][Len(log[m]) + 1] = LoggedRow(s)
      BY <2>1, <2>4, OneMoreRow
    <2>6. \A i, j \in DOMAIN log[m] : log[m][i].round = log[m][j].round => i = j
      BY DEF OneSubmissionPerRound
    <2> QED
      BY <2>3, <2>5, <2>6
  <1>3. ASSUME NEW a \in Admins, SaveTournament(a), log'[m] # log[m]
        PROVE  DOMAIN log'[m] = {}
    BY <1>0, <1>3, PurgeEffect
  <1>4. ASSUME NEW s \in Sessions, Session(s), ~SaveEntry(s)
        PROVE  log' = log
    BY <1>4 DEF Session, Ask, Acquire, Proceed, Begin, FindNoEntry, LockCapacity,
                CountEntries, LoadEntry, UpdateEntry, LockEntry, LoadForSwap,
                InsertEntry, Refuse, Abort, entries
  <1>5. ASSUME NEW a \in Admins, Admin(a), ~SaveTournament(a)
        PROVE  log' = log
    BY <1>0, <1>5, AdminLocks DEF entries
  <1>6. UNCHANGED vars => log' = log
    BY DEF vars, entries
  <1> QED
    BY <1>1, <1>2, <1>3, <1>4, <1>5, <1>6 DEF Next

\* What the swaps of a tournament keep true together, as long as no
\* registration commits inside a swap of the same manager.
LEMMA SwapsHold ==
  Spec /\ [][RegisteredApart]_vars => [](IInv /\ LockInv /\ SwapInv)
  <1>1. Init => IInv /\ LockInv /\ SwapInv
    BY InitInv, InitRequests
  <1>2. IInv /\ LockInv /\ SwapInv /\ [Next]_vars /\ [RegisteredApart]_vars
          => (IInv /\ LockInv /\ SwapInv)'
    <2>1. UNCHANGED vars => RegisteredApart
      BY DEF vars, entries, RegisteredApart
    <2>2. IInv /\ [Next]_vars => IInv'
      BY NextType, NextSeat, NextLoad, NextComplete DEF IInv
    <2> QED
      BY <2>1, <2>2, NextLock, NextSwap
  <1> QED
    BY <1>1, <1>2, PTL DEF Spec

\* An entry submits one swap per round, however many requests its manager has
\* in flight, unless a registration commits between a swap's lock, which found
\* no row, and its load: the lock on the entry row is all there is behind the
\* rule (swap_roster).
THEOREM OneSubmission ==
  Spec /\ [][RegisteredApart]_vars => []OneSubmissionPerRound
  <1>1. Init => OneSubmissionPerRound
    BY DEF Init, OneSubmissionPerRound
  <1>2. (IInv /\ LockInv /\ SwapInv) /\ OneSubmissionPerRound /\ [Next]_vars
          => OneSubmissionPerRound'
    BY NextOnce
  <1> QED
    BY <1>1, <1>2, SwapsHold, PTL DEF Spec

\* Who holds which entry, whatever the requests.
LEMMA LocksHold == Spec => [](IInv /\ LockInv)
  <1>1. Init => IInv /\ LockInv
    BY InitInv, InitRequests
  <1>2. IInv /\ LockInv /\ [Next]_vars => (IInv /\ LockInv)'
    BY NextLock, NextType, NextSeat, NextLoad, NextComplete DEF IInv
  <1> QED
    BY <1>1, <1>2, PTL DEF Spec

-----------------------------------------------------------------------------
(* A locked roster moves only by a swap.                                    *)

\* A draft or a lock keeps what it loaded while nobody touches its entry.
LEMMA DraftKept ==
  ASSUME NEW s \in Sessions, DraftHeld(s),
         UNCHANGED <<op[s], loaded[s]>>,
         pc'[s] = pc[s] \/ (pc[s] = "update" /\ pc'[s] = "save"),
         UNCHANGED <<entry[Owner[s]], slots[Owner[s]]>>
  PROVE  DraftHeld(s)'
  BY DEF DraftHeld, EntryOf

\* Where one request of a manager drafts and locks, the row it loaded is the
\* row it writes: a swap waits for the locked row that it would have written.
LEMMA NextDraft ==
  ASSUME OneDrafts, IInv, LockInv, SwapInv, DraftInv, [Next]_vars
  PROVE  DraftInv'
  <1> SUFFICES ASSUME NEW s \in Sessions PROVE DraftHeld(s)'
    BY DEF DraftInv
  <1> USE ConstantsAssumption
  <1> DEFINE m == Owner[s]
  <1>0. TypeOK /\ LoadInv /\ DraftHeld(s) /\ m \in Managers
    BY DEF IInv, DraftInv
  <1>1. CASE Ask(s)
    BY <1>0, <1>1, BeginEffect DEF DraftHeld
  <1>2. CASE FindNoEntry(s) \/ LockCapacity(s) \/ CountEntries(s) \/ LockEntry(s)
    BY <1>0, <1>2 DEF FindNoEntry, LockCapacity, CountEntries, LockEntry, Goto, TypeOK,
                      DraftHeld
  <1>3. CASE LoadEntry(s)
    <2>1. /\ loaded'[s] = EntryOf(m) /\ EntryOf(m).status = "DRAFT"
          /\ UNCHANGED <<entry, slots>>
      BY <1>0, <1>3 DEF LoadEntry, MayWrite, ValidateLock, ValidateDraft, TypeOK, entries
    <2> QED
      BY <2>1 DEF DraftHeld, EntryOf
  <1>4. CASE UpdateEntry(s)
    <2>1. pc[s] = "update" /\ pc'[s] = "save" /\ UNCHANGED <<op, loaded, entry, slots>>
      BY <1>0, <1>4 DEF UpdateEntry, Goto, TypeOK, entries
    <2> QED
      BY <1>0, <2>1, DraftKept
  <1>5. CASE LoadForSwap(s)
    BY <1>0, <1>5 DEF LoadForSwap, Goto, LoadInv, DraftHeld
  <1>6. CASE InsertEntry(s) \/ SaveEntry(s) \/ Refuse(s) \/ Abort(s)
    <2>1. End(s)
      BY <1>6 DEF InsertEntry, SaveEntry, WriteEntry, Refuse, Abort
    <2> QED
      BY <1>0, <2>1, EndLocks DEF DraftHeld
  <1>7. ASSUME NEW r \in Sessions, r # s,
               \/ Ask(r) \/ FindNoEntry(r) \/ LockCapacity(r) \/ CountEntries(r)
               \/ LoadEntry(r) \/ UpdateEntry(r) \/ LockEntry(r) \/ LoadForSwap(r)
               \/ Refuse(r) \/ Abort(r)
        PROVE  DraftHeld(s)'
    <2>1. UNCHANGED <<pc[s], op[s], loaded[s], entry[m], slots[m]>>
      <3>1. Refuse(r) \/ Abort(r) => End(r) /\ UNCHANGED entries
        BY DEF Refuse, Abort
      <3> QED
        BY <1>0, <1>7, <3>1, BeginEffect, MoveEffect, EndLocks DEF entries
    <2> QED
      BY <1>0, <2>1, DraftKept
  <1>8. ASSUME NEW r \in Sessions, r # s, InsertEntry(r)
        PROVE  DraftHeld(s)'
    <2>1. /\ End(r) /\ entry[Owner[r]] = "none" /\ slots' = slots
          /\ m # Owner[r] => entry'[m] = entry[m]
      BY <1>0, <1>8 DEF InsertEntry, TypeOK
    <2>2. UNCHANGED <<pc[s], op[s], loaded[s]>>
      BY <1>0, <1>8, <2>1, EndLocks
    <2>3. CASE m # Owner[r]
      BY <1>0, <2>1, <2>2, <2>3, DraftKept
    <2>4. CASE m = Owner[r]
      BY <1>0, <2>1, <2>2, <2>4 DEF DraftHeld, EntryOf
    <2> QED
      BY <2>3, <2>4
  <1>9. ASSUME NEW r \in Sessions, r # s, SaveEntry(r)
        PROVE  DraftHeld(s)'
    <2>1. /\ End(r) /\ pc[r] = "save"
          /\ m # Owner[r] => UNCHANGED <<entry[m], slots[m]>>
      BY <1>0, <1>9 DEF SaveEntry, WriteEntry, TypeOK
    <2>2. UNCHANGED <<pc[s], op[s], loaded[s]>>
      BY <1>0, <1>9, <2>1, EndLocks
    <2>3. CASE m # Owner[r]
      BY <1>0, <2>1, <2>2, <2>3, DraftKept
    <2>4. CASE m = Owner[r]
      <3> SUFFICES ASSUME pc[s] \in {"update", "save"}, op[s] \in {"draft", "lock"}
                   PROVE  loaded[s].status = "gone"
        BY <2>2 DEF DraftHeld
      <3>1. op[s] \in May[s] /\ op[r] \in May[r]
        BY <2>1 DEF LockInv
      <3>2. op[r] \notin {"draft", "lock"}
        BY <1>9, <2>4, <3>1 DEF OneDrafts
      <3>3. op[r] = "swap"
        BY <1>0, <2>1, <3>2 DEF LoadInv, TypeOK
      <3>4. entry[m] = "LOCKED"
        <4>1. SwapHeld(r)
          BY DEF SwapInv
        <4>2. loaded[r].status = "LOCKED" /\ loaded[r] = EntryOf(m)
          BY <2>1, <2>4, <3>3, <4>1 DEF SwapHeld
        <4> QED
          BY <4>2 DEF EntryOf
      <3> QED
        BY <1>0, <3>4 DEF DraftHeld, EntryOf
    <2> QED
      BY <2>3, <2>4
  <1>10. ASSUME NEW a \in Admins, SaveTournament(a) PROVE DraftHeld(s)'
    <2>1. UNCHANGED <<pc, op>>
      <3>1. Admin(a)
        BY <1>10 DEF Admin
      <3> QED
        BY <1>0, <3>1, AdminLocks
    <2>2. CASE elock[m] # a
      BY <1>0, <1>10, <2>1, <2>2, PurgeEffect, DraftKept
    <2>3. CASE elock[m] = a
      <3>1. \/ loaded'[s].status = "gone"
            \/ loaded[s].status = "none"
        BY <1>0, <1>10, <2>3, PurgeEffect
      <3> QED
        BY <1>0, <2>1, <3>1 DEF DraftHeld
    <2> QED
      BY <2>2, <2>3
  <1>11. ASSUME NEW a \in Admins, Admin(a), ~SaveTournament(a) PROVE DraftHeld(s)'
    BY <1>0, <1>11, AdminLocks, DraftKept DEF entries
  <1>12. CASE UNCHANGED vars
    BY <1>0, <1>12, DraftKept DEF vars, entries, requests
  <1> QED
    BY <1>1, <1>2, <1>3, <1>4, <1>5, <1>6, <1>7, <1>8, <1>9, <1>10, <1>11, <1>12
    DEF Next, Session, Acquire, Proceed

\* Two rosters of the same size, one within the other, are the same.
LEMMA SameSizeRosters ==
  ASSUME NEW R \in Rosters, NEW Q \in Rosters, Cardinality(R) = Cardinality(Q),
         R \ Q = {}
  PROVE  R = Q
  <1>1. IsFiniteSet(Q)
    BY FS_Subset, ConstantsAssumption DEF Rosters
  <1>2. R \in SUBSET Q
    BY DEF Rosters
  <1> QED
    BY <1>1, <1>2, FS_Subset

\* One step of a tournament, for one entry.
LockedMoves(m) ==
  entry[m] = "LOCKED" =>
    /\ entry'[m] = "LOCKED"
    /\ slots'[m] # slots[m] => Len(log'[m]) = Len(log[m]) + 1

\* Only a swap writes a locked row, and it logs what it exchanges.
LEMMA StepMovesLocked ==
  ASSUME IInv, LockInv, SwapInv, DraftInv, [Next]_vars, NEW m \in Managers
  PROVE  LockedMoves(m)
  <1> USE ConstantsAssumption
  <1>0. TypeOK /\ LoadInv /\ LockedRosterIsComplete
    BY DEF IInv
  <1>1. CASE UNCHANGED <<entry[m], slots[m]>>
    BY <1>1 DEF LockedMoves
  <1>2. ASSUME NEW s \in Sessions, InsertEntry(s) PROVE LockedMoves(m)
    BY <1>0, <1>2 DEF InsertEntry, LockedMoves, TypeOK
  <1>3. ASSUME NEW s \in Sessions, SaveEntry(s), m = Owner[s], entry[m] = "LOCKED"
        PROVE  LockedMoves(m)
    <2>1. pc[s] = "save" /\ slots' = [slots EXCEPT ![m] = Saved(s).slots]
      BY <1>3 DEF SaveEntry, WriteEntry
    <2>2. /\ loaded[s].status \in {"DRAFT", "LOCKED"}
          /\ entry'[m] = Saved(s).status
      BY <1>3, SaveKeepsEntered
    <2>3. op[s] \notin {"draft", "lock"}
      <3>1. DraftHeld(s) /\ EntryOf(m).status = "LOCKED"
        BY <1>3 DEF DraftInv, EntryOf
      <3> QED
        BY <1>3, <2>1, <2>2, <3>1 DEF DraftHeld
    <2>4. op[s] = "swap"
      BY <1>0, <2>1, <2>3 DEF LoadInv, TypeOK
    <2>5. /\ loaded[s] = EntryOf(m) /\ loaded[s].slots = slots[m]
          /\ Cardinality(want[s]) = RosterSize
      BY <1>0, <1>3, <2>1, <2>4 DEF SwapInv, SwapHeld, LoadInv, EntryOf
    <2>6. entry'[m] = "LOCKED" /\ slots'[m] = want[s]
      BY <1>0, <1>3, <2>1, <2>2, <2>4, <2>5 DEF Saved, EntryOf, TypeOK
    <2>7. want[s] # slots[m] => want[s] \ slots[m] # {}
      <3>1. want[s] \in Rosters /\ slots[m] \in Rosters
        BY <1>0 DEF TypeOK
      <3>2. Cardinality(slots[m]) = RosterSize
        BY <1>0, <1>3 DEF LockedRosterIsComplete
      <3> QED
        BY <2>5, <3>1, <3>2, SameSizeRosters
    <2>8. log[m] \in Seq(Submission)
      BY <1>0 DEF TypeOK
    <2>9. want[s] # slots[m] => Len(log'[m]) = Len(log[m]) + 1
      <3> SUFFICES ASSUME want[s] # slots[m] PROVE Len(log'[m]) = Len(log[m]) + 1
        OBVIOUS
      <3>1. LoggedRow(s) \in Submission /\ log'[m] = log[m] \o <<LoggedRow(s)>>
        BY <1>0, <1>3, <2>4, <2>5, <2>7, SaveLogs
      <3> QED
        BY <2>8, <3>1, OneMoreRow
    <2> QED
      BY <2>6, <2>9 DEF LockedMoves
  <1>4. ASSUME NEW s \in Sessions, SaveEntry(s), m # Owner[s]
        PROVE  UNCHANGED <<entry[m], slots[m]>>
    BY <1>0, <1>4 DEF SaveEntry, WriteEntry, TypeOK
  <1>5. ASSUME NEW a \in Admins, SaveTournament(a) PROVE LockedMoves(m)
    BY <1>0, <1>5, PurgeEffect DEF LockInv, LockedMoves
  <1>6. ASSUME NEW s \in Sessions, Session(s), ~SaveEntry(s), ~InsertEntry(s)
        PROVE  UNCHANGED <<entry, slots>>
    BY <1>6 DEF Session, Ask, Acquire, Proceed, Begin, FindNoEntry, LockCapacity,
                CountEntries, LoadEntry, UpdateEntry, LockEntry, LoadForSwap,
                Refuse, Abort, entries
  <1>7. ASSUME NEW a \in Admins, Admin(a), ~SaveTournament(a)
        PROVE  UNCHANGED <<entry, slots>>
    BY <1>0, <1>7, AdminLocks DEF entries
  <1>8. UNCHANGED vars => UNCHANGED <<entry, slots>>
    BY DEF vars, entries
  <1>9. entry[m] # "LOCKED" => LockedMoves(m)
    BY DEF LockedMoves
  <1> QED
    BY <1>1, <1>2, <1>3, <1>4, <1>5, <1>6, <1>7, <1>8, <1>9 DEF Next

\* A draft in flight is what its manager's entry still is.
LEMMA DraftsHold ==
  ASSUME OneDrafts
  PROVE  Spec /\ [][RegisteredApart]_vars => []DraftInv
  <1>1. Init => DraftInv
    BY DEF Init, DraftInv, DraftHeld
  <1>2. (IInv /\ LockInv /\ SwapInv) /\ DraftInv /\ [Next]_vars => DraftInv'
    BY NextDraft
  <1> QED
    BY <1>1, <1>2, SwapsHold, PTL DEF Spec

\* "Roster is committed and immutable" (EntryStatus::Locked): once locked, a
\* roster changes only by a swap that is logged and stays locked, through any
\* number of concurrent swaps, updates and purges, for managers who send one
\* draft or lock at a time (two at a time can unlock it: RosterLostLock).
THEOREM LockedRostersStay ==
  ASSUME OneDrafts
  PROVE  Spec /\ [][RegisteredApart]_vars => LockedMovesOnlyBySwap
  <1>1. (IInv /\ LockInv /\ SwapInv) /\ DraftInv /\ [Next]_vars
          => [\A m \in Managers :
                entry[m] = "LOCKED" =>
                  /\ entry'[m] = "LOCKED"
                  /\ slots'[m] # slots[m] => Len(log'[m]) = Len(log[m]) + 1]_vars
    BY StepMovesLocked DEF LockedMoves
  <1> QED
    BY <1>1, DraftsHold, SwapsHold, PTL DEF Spec, LockedMovesOnlyBySwap

-----------------------------------------------------------------------------
(* The allowance.                                                           *)

\* The positions of a log.
LEMMA Positions ==
  ASSUME NEW S, NEW L \in Seq(S)
  PROVE  DOMAIN L = 1 .. Len(L) /\ Len(L) \in Nat
  OBVIOUS

\* The rows of a log are finitely many.
LEMMA LogRows ==
  ASSUME NEW L \in Seq(Submission)
  PROVE  LET rows == {row \in (DOMAIN L) \X Heroes : row[2] \in L[row[1]].out}
         IN  IsFiniteSet(rows) /\ Cardinality(rows) \in Nat
  <1> DEFINE rows == {row \in (DOMAIN L) \X Heroes : row[2] \in L[row[1]].out}
  <1>1. DOMAIN L = 1 .. Len(L) /\ Len(L) \in Nat
    BY Positions
  <1>2. IsFiniteSet(1 .. Len(L))
    BY <1>1, FS_Interval
  <1>3. IsFiniteSet((DOMAIN L) \X Heroes)
    BY <1>1, <1>2, FS_Product, ConstantsAssumption
  <1>4. rows \in SUBSET ((DOMAIN L) \X Heroes)
    OBVIOUS
  <1>5. IsFiniteSet(rows)
    BY <1>3, <1>4, FS_Subset
  <1> QED
    BY <1>5, FS_CardinalityType

\* So the count of a manager's swaps is a number, before a step and after it.
LEMMA RowsFinite ==
  ASSUME NEW m \in Managers
  PROVE  /\ TypeOK => IsFiniteSet(SwapRows(m)) /\ SwapCount(m) \in Nat
         /\ TypeOK' => SwapCount(m)' \in Nat
  <1>1. /\ TypeOK => log[m] \in Seq(Submission)
        /\ TypeOK' => log'[m] \in Seq(Submission)
    BY DEF TypeOK
  <1> QED
    BY <1>1, LogRows DEF SwapCount, SwapRows

\* The tournament's round and those that requests have seen count from one.
LEMMA Rounds ==
  /\ TypeOK => /\ round \in Nat \ {0}
               /\ \A s \in Sessions : seen[s].round \in Nat \ {0}
  /\ TypeOK' => round' \in Nat \ {0}
  BY ConstantsAssumption DEF TypeOK, TournamentCopy

\* What is offered grows with the rounds.
LEMMA OfferGrows ==
  ASSUME NEW r \in Nat \ {0}, NEW q \in Nat \ {0}, r <= q
  PROVE  /\ SwapsPerRound * (r - 1) \in Nat /\ SwapsPerRound * (q - 1) \in Nat
         /\ SwapsPerRound * (r - 1) <= SwapsPerRound * (q - 1)
  <1>1. /\ SwapsPerRound \in Nat /\ r - 1 \in Nat /\ q - r \in Nat
        /\ q - 1 = (r - 1) + (q - r)
    BY ConstantsAssumption
  <1>2. \A k, a, b \in Nat : k * (a + b) = k * a + k * b /\ k * a \in Nat /\ k * b \in Nat
    OBVIOUS
  <1> QED
    BY <1>1, <1>2

\* As many heroes leave a roster as arrive in one of the same size.
LEMMA AsManyLeave ==
  ASSUME NEW R \in Rosters, NEW Q \in Rosters, Cardinality(R) = Cardinality(Q)
  PROVE  Cardinality(R \ Q) = Cardinality(Q \ R)
  <1>1. IsFiniteSet(R) /\ IsFiniteSet(Q)
    BY FS_Subset, ConstantsAssumption DEF Rosters
  <1>2. Cardinality(R \ Q) = Cardinality(R) - Cardinality(R \cap Q)
    BY <1>1, FS_Difference
  <1>3. Cardinality(Q \ R) = Cardinality(Q) - Cardinality(Q \cap R)
    BY <1>1, FS_Difference
  <1>4. R \cap Q = Q \cap R
    OBVIOUS
  <1> QED
    BY <1>2, <1>3, <1>4

\* A submission adds one row for each hero that leaves.
LEMMA RowsAdded ==
  ASSUME TypeOK, NEW m \in Managers, NEW e \in Submission,
         log'[m] = log[m] \o <<e>>
  PROVE  SwapCount(m)' <= SwapCount(m) + Cardinality(e.out)
  <1> DEFINE n == Len(log[m]) + 1
             added == {n} \X e.out
  <1>1. log[m] \in Seq(Submission)
    BY DEF TypeOK
  <1>2. /\ DOMAIN log'[m] = (DOMAIN log[m]) \cup {n} /\ n \notin DOMAIN log[m]
        /\ \A i \in DOMAIN log[m] : log'[m][i] = log[m][i]
        /\ log'[m][n] = e
    BY <1>1, OneMoreRow
  <1>3. e.out \in SUBSET Heroes
    BY DEF Submission, Rosters
  <1>4. SwapRows(m)' = {row \in (DOMAIN log'[m]) \X Heroes : row[2] \in log'[m][row[1]].out}
    BY DEF SwapRows
  <1>5. SwapRows(m)' = SwapRows(m) \cup added
    <2> HIDE DEF n
    <2>1. ASSUME NEW row \in SwapRows(m)' PROVE row \in SwapRows(m) \cup added
      <3>1. /\ row = <<row[1], row[2]>> /\ row[1] \in DOMAIN log'[m] /\ row[2] \in Heroes
            /\ row[2] \in log'[m][row[1]].out
        BY <1>4, <2>1
      <3>2. CASE row[1] \in DOMAIN log[m]
        BY <1>2, <3>1, <3>2 DEF SwapRows
      <3>3. CASE row[1] = n
        BY <1>2, <3>1, <3>3
      <3> QED
        BY <1>2, <3>1, <3>2, <3>3
    <2>2. ASSUME NEW row \in SwapRows(m) PROVE row \in SwapRows(m)'
      BY <1>2, <1>4, <2>2 DEF SwapRows
    <2>3. ASSUME NEW row \in added PROVE row \in SwapRows(m)'
      BY <1>2, <1>3, <1>4, <2>3
    <2> QED
      BY <2>1, <2>2, <2>3
  <1>6. IsFiniteSet(e.out)
    BY <1>3, FS_Subset, ConstantsAssumption
  <1>7. IsFiniteSet(added) /\ Cardinality(added) = Cardinality(e.out)
    <2>1. IsFiniteSet({n}) /\ Cardinality({n}) = 1
      BY FS_Singleton
    <2>2. IsFiniteSet(added) /\ Cardinality(added) = Cardinality({n}) * Cardinality(e.out)
      BY <1>6, <2>1, FS_Product
    <2>3. Cardinality(e.out) \in Nat
      BY <1>6, FS_CardinalityType
    <2> QED
      BY <2>1, <2>2, <2>3
  <1>8. IsFiniteSet(SwapRows(m))
    BY RowsFinite
  <1>9. Cardinality(SwapRows(m) \cup added)
          = Cardinality(SwapRows(m)) + Cardinality(added) - Cardinality(SwapRows(m) \cap added)
    BY <1>7, <1>8, FS_Union
  <1>10. IsFiniteSet(SwapRows(m) \cap added) /\ Cardinality(SwapRows(m) \cap added) \in Nat
    BY <1>8, FS_Subset, FS_CardinalityType
  <1>11. Cardinality(SwapRows(m)) \in Nat /\ Cardinality(e.out) \in Nat
    BY <1>6, <1>8, FS_CardinalityType
  <1>12. SwapCount(m)' = Cardinality(SwapRows(m) \cup added)
    BY <1>5 DEF SwapCount
  <1> QED
    BY <1>7, <1>9, <1>10, <1>11, <1>12 DEF SwapCount

\* A step that does not take the tournament back to an earlier round.
NoRoundBack == round' >= round

\* What a request has seen, and what its swap has left, stays so while nobody
\* writes the log and the rounds do not go back.
LEMMA OfferKept ==
  ASSUME NEW s \in Sessions, SwapOnOffer(s), TypeOK, TypeOK', NoRoundBack,
         pc[s] # "idle" \/ pc'[s] = "idle",
         pc'[s] = "save" /\ op'[s] = "swap" => pc[s] = "save" /\ loaded'[s] = loaded[s],
         UNCHANGED <<op[s], seen[s], want[s]>>,
         pc'[s] = "save" => log'[Owner[s]] = log[Owner[s]]
  PROVE  SwapOnOffer(s)'
  <1>1. log'[Owner[s]] = log[Owner[s]] => SwapCount(Owner[s])' = SwapCount(Owner[s])
    BY DEF SwapCount, SwapRows
  <1>2. pc'[s] # "idle" => seen'[s].round <= round'
    <2>1. seen[s].round \in Nat /\ round \in Nat /\ round' \in Nat
      BY Rounds
    <2> QED
      BY <2>1 DEF SwapOnOffer, NoRoundBack
  <1> QED
    BY <1>1, <1>2 DEF SwapOnOffer

\* Whoever saves a swap logs no more than is on offer.
LEMMA NextOnOffer ==
  IInv /\ LockInv /\ SwapInv /\ AllowanceInv /\ [Next]_vars /\ TypeOK' /\ NoRoundBack
    => \A s \in Sessions : SwapOnOffer(s)'
  <1> SUFFICES ASSUME IInv, LockInv, SwapInv, AllowanceInv, [Next]_vars, TypeOK',
                      NoRoundBack, NEW s \in Sessions
               PROVE  SwapOnOffer(s)'
    OBVIOUS
  <1> USE ConstantsAssumption
  <1> DEFINE m == Owner[s]
  <1>0. TypeOK /\ LoadInv /\ SwapOnOffer(s) /\ m \in Managers
    BY DEF IInv, AllowanceInv
  <1>1. CASE Ask(s)
    <2>1. pc'[s] # "save" /\ seen'[s].round = round /\ round' = round /\ round \in Nat
      BY <1>0, <1>1, BeginEffect, Rounds DEF tournament
    <2> QED
      BY <2>1 DEF SwapOnOffer
  <1>2. CASE FindNoEntry(s) \/ LockCapacity(s) \/ CountEntries(s) \/ LoadEntry(s)
             \/ LockEntry(s)
    <2>1. pc[s] # "idle" /\ pc'[s] # "save"
      BY <1>0, <1>2 DEF FindNoEntry, LockCapacity, CountEntries, LoadEntry, LockEntry,
                        Goto, TypeOK
    <2> QED
      BY <1>0, <1>2, <2>1, MoveEffect, OfferKept
  <1>3. CASE UpdateEntry(s)
    <2>1. pc[s] = "update" /\ op[s] # "swap"
      BY <1>3 DEF UpdateEntry, Goto, SwapInv, SwapHeld
    <2> QED
      BY <1>0, <1>3, <2>1, MoveEffect, OfferKept DEF entries
  <1>4. CASE LoadForSwap(s)
    <2>1. /\ pc[s] = "swap" /\ ValidateSwap(want[s], m, seen[s], EntryOf(m))
          /\ loaded'[s] = EntryOf(m)
          /\ UNCHANGED <<round, slots, log, seen, want>>
      BY <1>0, <1>4 DEF LoadForSwap, Goto, TypeOK, entries, tournament
    <2> DEFINE in  == want[s] \ slots[m]
               out == slots[m] \ want[s]
               offered == SwapsPerRound * (seen[s].round - 1)
    <2>2. /\ loaded'[s].slots = slots[m] /\ entry[m] = "LOCKED"
          /\ Cardinality(want[s]) = RosterSize
          /\ Cardinality(in) <= SwapAllowance(seen[s].round, SwapCount(m))
      BY <2>1 DEF ValidateSwap, EntryOf
    <2>3. want[s] \in Rosters /\ slots[m] \in Rosters
      BY <1>0 DEF TypeOK
    <2>4. Cardinality(out) = Cardinality(in)
      <3>1. Cardinality(slots[m]) = RosterSize
        BY <1>0, <2>2 DEF IInv, LockedRosterIsComplete
      <3> QED
        BY <2>2, <2>3, <3>1, AsManyLeave
    <2>5. IsFiniteSet(in) /\ Cardinality(in) \in Nat
      <3>1. in \in SUBSET Heroes
        BY <2>3 DEF Rosters
      <3> QED
        BY <3>1, FS_Subset, FS_CardinalityType
    <2>6. in # {} => Cardinality(in) # 0
      BY <2>5, FS_EmptySet
    <2>7. offered \in Nat /\ SwapCount(m) \in Nat
      <3>1. seen[s].round \in Nat \ {0}
        BY <1>0, Rounds
      <3> QED
        BY <1>0, <3>1, OfferGrows, RowsFinite
    <2>8. in # {} => SwapCount(m) + Cardinality(out) <= offered
      <3>1. SwapAllowance(seen[s].round, SwapCount(m))
              = IF SwapCount(m) < offered THEN offered - SwapCount(m) ELSE 0
        BY DEF SwapAllowance
      <3> HIDE DEF in, out, offered
      <3> QED
        BY <2>2, <2>4, <2>5, <2>6, <2>7, <3>1
    <2>9. SwapCount(m)' = SwapCount(m)
      BY <2>1 DEF SwapCount, SwapRows
    <2>10. seen'[s].round <= round'
      BY <1>0, <2>1 DEF SwapOnOffer
    <2> QED
      BY <2>1, <2>2, <2>8, <2>9, <2>10 DEF SwapOnOffer
  <1>5. CASE InsertEntry(s) \/ SaveEntry(s) \/ Refuse(s) \/ Abort(s)
    <2>1. End(s)
      BY <1>5 DEF InsertEntry, SaveEntry, WriteEntry, Refuse, Abort
    <2> QED
      BY <1>0, <2>1, EndLocks DEF SwapOnOffer
  <1>6. ASSUME NEW r \in Sessions, r # s, Ask(r)
        PROVE  SwapOnOffer(s)'
    BY <1>0, <1>6, BeginEffect, OfferKept DEF entries
  <1>7. ASSUME NEW r \in Sessions, r # s,
               \/ FindNoEntry(r) \/ LockCapacity(r) \/ CountEntries(r) \/ LoadEntry(r)
               \/ UpdateEntry(r) \/ LockEntry(r) \/ LoadForSwap(r)
        PROVE  SwapOnOffer(s)'
    BY <1>0, <1>7, MoveEffect, OfferKept DEF entries
  <1>8. ASSUME NEW r \in Sessions, r # s,
               InsertEntry(r) \/ SaveEntry(r) \/ Refuse(r) \/ Abort(r)
        PROVE  SwapOnOffer(s)'
    <2>1. End(r)
      BY <1>8 DEF InsertEntry, SaveEntry, WriteEntry, Refuse, Abort
    <2>2. ASSUME pc[s] = "save" PROVE log'[m] = log[m]
      <3>1. CASE SaveEntry(r)
        <4>1. pc[r] = "save"
          BY <3>1 DEF SaveEntry, WriteEntry
        <4>2. m # Owner[r]
          BY <1>8, <2>2, <4>1 DEF LockInv
        <4> QED
          BY <1>0, <3>1, <4>2, SaveLogs
      <3>2. CASE InsertEntry(r) \/ Refuse(r) \/ Abort(r)
        BY <3>2 DEF InsertEntry, Refuse, Abort, entries
      <3> QED
        BY <1>8, <3>1, <3>2
    <2> QED
      BY <1>0, <1>8, <2>1, <2>2, EndLocks, OfferKept
  <1>9. ASSUME NEW a \in Admins, Admin(a)
        PROVE  SwapOnOffer(s)'
    <2>1. UNCHANGED <<pc, op, seen, want>>
      BY <1>0, <1>9, AdminLocks
    <2>2. ASSUME pc[s] = "save" PROVE log'[m] = log[m] /\ loaded'[s] = loaded[s]
      <3>1. elock[m] = s /\ s # a
        BY <2>2 DEF LockInv
      <3> QED
        BY <1>0, <1>9, <3>1, AdminLocks, PurgeEffect DEF entries
    <2> QED
      BY <1>0, <2>1, <2>2, OfferKept
  <1>10. CASE UNCHANGED vars
    BY <1>0, <1>10, OfferKept DEF vars, entries, requests
  <1> QED
    BY <1>1, <1>2, <1>3, <1>4, <1>5, <1>6, <1>7, <1>8, <1>9, <1>10
    DEF Next, Session, Acquire, Proceed

\* Nor do they together log more than the rounds have offered.
LEMMA NextAllowance ==
  IInv /\ AllowanceInv /\ [Next]_vars /\ TypeOK' /\ NoRoundBack => AllowanceKept'
  <1> SUFFICES ASSUME IInv, AllowanceInv, [Next]_vars, TypeOK', NoRoundBack,
                      NEW m \in Managers
               PROVE  (SwapCount(m) <= SwapsPerRound * (round - 1))'
    BY DEF AllowanceKept
  <1>0. TypeOK /\ SwapCount(m) <= SwapsPerRound * (round - 1)
    BY DEF IInv, AllowanceInv, AllowanceKept
  <1>1. /\ SwapCount(m) \in Nat /\ SwapCount(m)' \in Nat
        /\ SwapsPerRound * (round - 1) \in Nat /\ SwapsPerRound * (round' - 1) \in Nat
        /\ SwapsPerRound * (round - 1) <= SwapsPerRound * (round' - 1)
    <2>1. round \in Nat \ {0} /\ round' \in Nat \ {0} /\ round <= round'
      BY <1>0, Rounds DEF NoRoundBack
    <2> QED
      BY <1>0, <2>1, RowsFinite, OfferGrows
  <1>2. CASE log'[m] = log[m]
    <2>1. SwapCount(m)' = SwapCount(m)
      BY <1>2 DEF SwapCount, SwapRows
    <2> QED
      BY <1>0, <1>1, <2>1
  <1>3. ASSUME NEW s \in Sessions, SaveEntry(s), log'[m] # log[m]
        PROVE  (SwapCount(m) <= SwapsPerRound * (round - 1))'
    <2>1. /\ m = Owner[s] /\ op[s] = "swap" /\ want[s] \ loaded[s].slots # {}
          /\ LoggedRow(s) \in Submission /\ log'[m] = log[m] \o <<LoggedRow(s)>>
      BY <1>0, <1>3, SaveLogs
    <2>2. pc[s] = "save"
      BY <1>3 DEF SaveEntry, WriteEntry
    <2>3. /\ seen[s].round <= round
          /\ SwapCount(m) + Cardinality(loaded[s].slots \ want[s])
               <= SwapsPerRound * (seen[s].round - 1)
      BY <2>1, <2>2 DEF AllowanceInv, SwapOnOffer
    <2>4. SwapCount(m)' <= SwapCount(m) + Cardinality(loaded[s].slots \ want[s])
      <3>1. LoggedRow(s).out = loaded[s].slots \ want[s]
        BY DEF LoggedRow
      <3> QED
        BY <1>0, <2>1, <3>1, RowsAdded
    <2>5. Cardinality(loaded[s].slots \ want[s]) \in Nat
      <3>1. (loaded[s].slots \ want[s]) \in SUBSET Heroes
        BY <1>0 DEF TypeOK, EntryCopy, Rosters
      <3> QED
        BY <3>1, FS_Subset, FS_CardinalityType, ConstantsAssumption
    <2>6. /\ SwapsPerRound * (seen[s].round - 1) \in Nat
          /\ SwapsPerRound * (seen[s].round - 1) <= SwapsPerRound * (round - 1)
      <3>1. seen[s].round \in Nat \ {0} /\ round \in Nat \ {0}
        BY <1>0, Rounds
      <3> QED
        BY <2>3, <3>1, OfferGrows
    <2> QED
      BY <1>1, <2>3, <2>4, <2>5, <2>6
  <1>4. ASSUME NEW a \in Admins, SaveTournament(a), log'[m] # log[m]
        PROVE  (SwapCount(m) <= SwapsPerRound * (round - 1))'
    <2>1. DOMAIN log'[m] = {}
      BY <1>0, <1>4, PurgeEffect
    <2>2. SwapRows(m)' = {}
      BY <2>1 DEF SwapRows
    <2>3. SwapCount(m)' = 0
      BY <2>2, FS_EmptySet DEF SwapCount
    <2> QED
      BY <1>1, <2>3
  <1>5. ASSUME NEW s \in Sessions, Session(s), ~SaveEntry(s)
        PROVE  log' = log
    BY <1>5 DEF Session, Ask, Acquire, Proceed, Begin, FindNoEntry, LockCapacity,
                CountEntries, LoadEntry, UpdateEntry, LockEntry, LoadForSwap,
                InsertEntry, Refuse, Abort, entries
  <1>6. ASSUME NEW a \in Admins, Admin(a), ~SaveTournament(a)
        PROVE  log' = log
    BY <1>0, <1>6, AdminLocks DEF entries
  <1>7. UNCHANGED vars => log' = log
    BY DEF vars, entries
  <1> QED
    BY <1>2, <1>3, <1>4, <1>5, <1>6, <1>7 DEF Next

\* What is on offer stays on offer until it is spent.
LEMMA AllowanceHolds ==
  Spec /\ [][RegisteredApart]_vars /\ [][NoRoundBack]_vars => []AllowanceInv
  <1>1. Init => AllowanceInv
    <2> SUFFICES ASSUME Init PROVE AllowanceInv
      OBVIOUS
    <2>1. \A s \in Sessions : SwapOnOffer(s)
      BY DEF Init, SwapOnOffer
    <2>2. ASSUME NEW m \in Managers PROVE SwapCount(m) <= SwapsPerRound * (round - 1)
      <3>1. SwapRows(m) = {}
        BY DEF Init, SwapRows
      <3>2. SwapCount(m) = 0
        BY <3>1, FS_EmptySet DEF SwapCount
      <3>3. round - 1 = 0 /\ SwapsPerRound * 0 = 0
        BY ConstantsAssumption DEF Init
      <3> QED
        BY <3>2, <3>3
    <2> QED
      BY <2>1, <2>2 DEF AllowanceInv, AllowanceKept
  <1>2. (IInv /\ LockInv /\ SwapInv) /\ AllowanceInv /\ [Next]_vars /\ [NoRoundBack]_vars
          => AllowanceInv'
    <2> SUFFICES ASSUME IInv, LockInv, SwapInv, AllowanceInv, [Next]_vars, [NoRoundBack]_vars
                 PROVE  AllowanceInv'
      OBVIOUS
    <2>1. NoRoundBack
      <3>1. round \in Nat /\ (UNCHANGED vars => round' = round)
        BY DEF IInv, TypeOK, vars, tournament
      <3> QED
        BY <3>1 DEF NoRoundBack
    <2>2. TypeOK'
      BY NextType DEF IInv
    <2> QED
      BY <2>1, <2>2, NextOnOffer, NextAllowance DEF AllowanceInv
  <1> QED
    BY <1>1, <1>2, SwapsHold, PTL DEF Spec

\* No manager exchanges more heroes than the rounds have offered, however many
\* requests are in flight: the allowance is counted and spent under one lock.
\* What it takes is that no update writes back an earlier round, which two
\* admins can make happen, and the swap's lock on its row.
THEOREM AllowancesAreKept ==
  Spec /\ [][RegisteredApart]_vars /\ [][NoRoundBack]_vars => []AllowanceKept
  <1>1. AllowanceInv => AllowanceKept
    BY DEF AllowanceInv
  <1> QED
    BY <1>1, AllowanceHolds, PTL

-----------------------------------------------------------------------------
(* The way back from a roster to the one that was locked.                   *)

\* The rounds of a log are numbers.
LEMMA RoundsLogged ==
  ASSUME NEW L \in Seq(Submission)
  PROVE  /\ DOMAIN L = 1 .. Len(L) /\ Len(L) \in Nat
         /\ \A i \in DOMAIN L : L[i] \in Submission /\ L[i].round \in Nat
  <1>1. \A e \in Submission : e.round \in Nat
    BY ConstantsAssumption DEF Submission
  <1> QED
    BY <1>1

\* A log without rows connects a roster with itself.
LEMMA NoRows ==
  ASSUME NEW R \in Rosters
  PROVE  Connects(<< >>, R, R)
  <1> DEFINE held == [k \in 1 .. 1 |-> R]
  <1>1. held \in [1 .. 1 -> Rosters] /\ held[1] = R
    OBVIOUS
  <1>2. Len(<< >>) = 0 /\ 0 + 1 = 1 /\ 1 .. 0 = {} /\ DOMAIN << >> = {}
    OBVIOUS
  <1> HIDE DEF held
  <1> QED
    BY <1>1, <1>2 DEF Connects

\* A row that leads back from one roster to another lengthens the way.
LEMMA ConnectsOn ==
  ASSUME NEW L \in Seq(Submission), NEW e \in Submission, NEW first, NEW last,
         NEW R \in Rosters, Connects(L, first, last),
         e.in = R \ last, e.out = last \ R
  PROVE  Connects(L \o <<e>>, first, R)
  <1> DEFINE n == Len(L)
             K == L \o <<e>>
  <1>1. /\ n \in Nat /\ Len(K) = n + 1 /\ K[n + 1] = e
        /\ \A k \in 1 .. n : K[k] = L[k]
    OBVIOUS
  <1>2. PICK held \in [1 .. n + 1 -> Rosters] :
          /\ held[1] = first /\ held[n + 1] = last
          /\ \A k \in 1 .. n : held[k] = (held[k + 1] \ L[k].in) \cup L[k].out
    BY DEF Connects
  <1> HIDE DEF n, K
  <1> DEFINE next == [k \in 1 .. (n + 1) + 1 |-> IF k = (n + 1) + 1 THEN R ELSE held[k]]
  <1>3. next \in [1 .. (n + 1) + 1 -> Rosters]
    BY <1>1
  <1>4. next[(n + 1) + 1] = R /\ \A k \in 1 .. n + 1 : next[k] = held[k]
    BY <1>1
  <1> HIDE DEF next
  <1>5. \A k \in 1 .. n : next[k] = (next[k + 1] \ K[k].in) \cup K[k].out
    <2>1. \A k \in 1 .. n : k \in 1 .. n + 1 /\ k + 1 \in 1 .. n + 1
      BY <1>1
    <2> QED
      BY <1>1, <1>2, <1>4, <2>1
  <1>6. next[n + 1] = (next[(n + 1) + 1] \ K[n + 1].in) \cup K[n + 1].out
    <2>1. next[n + 1] = last
      BY <1>1, <1>2, <1>4
    <2> QED
      BY <1>1, <1>4, <2>1
  <1>7. \A k \in 1 .. n + 1 : k \in 1 .. n \/ k = n + 1
    BY <1>1
  <1>8. next[1] = first
    BY <1>1, <1>2, <1>4
  <1>9. \A k \in 1 .. n + 1 : next[k] = (next[k + 1] \ K[k].in) \cup K[k].out
    BY <1>5, <1>6, <1>7
  <1>10. Connects(K, first, R)
    BY <1>1, <1>3, <1>4, <1>8, <1>9 DEF Connects
  <1> QED
    BY <1>10 DEF K

\* An entry that no step writes keeps what its log says.
LEMMA LogKept ==
  ASSUME NEW m \in Managers, LogSound(m),
         UNCHANGED <<entry[m], slots[m], log[m], opening[m]>>
  PROVE  LogSound(m)'
  BY DEF LogSound

\* What a save leaves in the log still leads back to what was locked.
LEMMA SaveSound ==
  ASSUME OneDrafts, IInv, LockInv, SwapInv, DraftInv, UndoInv,
         NEW s \in Sessions, SaveEntry(s)
  PROVE  LogSound(Owner[s])'
  <1> USE ConstantsAssumption
  <1> DEFINE m == Owner[s]
  <1>0. /\ TypeOK /\ LoadInv /\ LockedRosterIsComplete /\ m \in Managers
        /\ LogSound(m)
    BY DEF IInv, UndoInv
  <1>1. /\ pc[s] = "save" /\ op[s] \in {"draft", "lock", "swap"}
        /\ loaded[s].status \in {"DRAFT", "LOCKED"}
        /\ entry'[m] = Saved(s).status
    <2>1. pc[s] = "save"
      BY DEF SaveEntry, WriteEntry
    <2>2. op[s] \in {"draft", "lock", "swap"}
      BY <1>0, <2>1 DEF LoadInv, TypeOK
    <2> QED
      BY <2>1, <2>2, SaveKeepsEntered
  <1>2. slots'[m] = Saved(s).slots
    BY <1>0 DEF SaveEntry, WriteEntry, TypeOK
  <1>3. opening'[m] = IF op[s] = "lock" /\ entry[m] # "LOCKED"
                      THEN Saved(s).slots ELSE opening[m]
    BY <1>0 DEF SaveEntry, WriteEntry, TypeOK
  <1>4. op[s] # "swap" => log'[m] = log[m]
    BY <1>0, SaveLogs
  <1>5. op[s] \in {"draft", "lock"} => entry[m] = "DRAFT" /\ loaded[s] = EntryOf(m)
    BY <1>1 DEF DraftInv, DraftHeld, EntryOf
  <1>6. CASE op[s] = "draft"
    <2>1. log'[m] = << >> /\ entry'[m] = "DRAFT"
      BY <1>0, <1>1, <1>4, <1>5, <1>6 DEF LogSound, Saved, EntryOf
    <2> QED
      BY <2>1 DEF LogSound
  <1>7. CASE op[s] = "lock"
    <2>1. /\ log'[m] = << >> /\ entry'[m] = "LOCKED" /\ opening'[m] = slots'[m]
          /\ slots'[m] \in Rosters
      BY <1>0, <1>1, <1>2, <1>3, <1>4, <1>5, <1>7 DEF LogSound, Saved, EntryOf, TypeOK
    <2>2. Connects(log'[m], opening'[m], slots'[m])
      BY <2>1, NoRows
    <2> QED
      BY <2>1, <2>2 DEF LogSound
  <1>8. CASE op[s] = "swap"
    <2>1. /\ loaded[s].status = "LOCKED" /\ loaded[s] = EntryOf(m)
          /\ loaded[s].slots = slots[m] /\ entry[m] = "LOCKED"
      BY <1>1, <1>8 DEF SwapInv, SwapHeld, EntryOf
    <2>2. entry'[m] = "LOCKED" /\ slots'[m] = want[s] /\ opening'[m] = opening[m]
      BY <1>1, <1>2, <1>3, <1>8, <2>1 DEF Saved
    <2>3. CASE want[s] \ slots[m] = {}
      <3>1. want[s] = slots[m]
        <4>1. want[s] \in Rosters /\ slots[m] \in Rosters
          BY <1>0 DEF TypeOK
        <4>2. Cardinality(want[s]) = RosterSize /\ Cardinality(slots[m]) = RosterSize
          BY <1>0, <1>1, <1>8, <2>1 DEF LoadInv, LockedRosterIsComplete
        <4> QED
          BY <2>3, <4>1, <4>2, SameSizeRosters
      <3>2. log'[m] = log[m]
        <4>1. Logged(s) = << >>
          BY <2>1, <2>3 DEF Logged
        <4>2. log'[m] = log[m] \o << >>
          BY <1>0, <4>1 DEF SaveEntry, WriteEntry, TypeOK
        <4>3. log[m] \in Seq(Submission)
          BY <1>0 DEF TypeOK
        <4> QED
          BY <4>2, <4>3, NoMoreRows
      <3> QED
        BY <1>0, <2>1, <2>2, <3>1, <3>2, LogKept
    <2>4. CASE want[s] \ slots[m] # {}
      <3>1. LoggedRow(s) \in Submission /\ log'[m] = log[m] \o <<LoggedRow(s)>>
        BY <1>0, <1>8, <2>1, <2>4, SaveLogs
      <3>2. LoggedRow(s).in = want[s] \ slots[m] /\ LoggedRow(s).out = slots[m] \ want[s]
        BY <2>1 DEF LoggedRow
      <3>3. log[m] \in Seq(Submission) /\ want[s] \in Rosters
        BY <1>0 DEF TypeOK
      <3>4. Connects(log[m], opening[m], slots[m])
        BY <1>0, <2>1 DEF LogSound
      <3>5. Connects(log'[m], opening'[m], slots'[m])
        <4>1. Connects(log[m] \o <<LoggedRow(s)>>, opening[m], want[s])
          BY <3>1, <3>2, <3>3, <3>4, ConnectsOn
        <4> QED
          BY <2>2, <3>1, <4>1
      <3> QED
        BY <2>2, <3>5 DEF LogSound
    <2> QED
      BY <2>3, <2>4
  <1> QED
    BY <1>1, <1>6, <1>7, <1>8

\* No step breaks the way back from an entry's roster.
LEMMA NextSound ==
  ASSUME OneDrafts, IInv, LockInv, SwapInv, DraftInv, UndoInv, [Next]_vars,
         NEW m \in Managers
  PROVE  LogSound(m)'
  <1> USE ConstantsAssumption
  <1>0. TypeOK /\ LogSound(m)
    BY DEF IInv, UndoInv
  <1>1. ASSUME NEW s \in Sessions, InsertEntry(s) PROVE LogSound(m)'
    <2>1. UNCHANGED <<slots, log, opening>>
      BY <1>1 DEF InsertEntry
    <2>2. CASE m # Owner[s]
      <3>1. entry'[m] = entry[m]
        BY <1>0, <1>1, <2>2 DEF InsertEntry, TypeOK
      <3> QED
        BY <1>0, <2>1, <3>1, LogKept
    <2>3. CASE m = Owner[s]
      <3>1. entry[m] = "none" /\ entry'[m] = "DRAFT"
        BY <1>0, <1>1, <2>3 DEF InsertEntry, TypeOK
      <3>2. log'[m] = << >>
        BY <1>0, <2>1, <3>1 DEF LogSound
      <3> QED
        BY <3>1, <3>2 DEF LogSound
    <2> QED
      BY <2>2, <2>3
  <1>2. ASSUME NEW s \in Sessions, SaveEntry(s) PROVE LogSound(m)'
    <2>1. CASE m = Owner[s]
      BY <1>2, <2>1, SaveSound
    <2>2. CASE m # Owner[s]
      <3>1. UNCHANGED <<entry[m], slots[m], log[m], opening[m]>>
        BY <1>0, <1>2, <2>2 DEF SaveEntry, WriteEntry, TypeOK
      <3> QED
        BY <1>0, <3>1, LogKept
    <2> QED
      BY <2>1, <2>2
  <1>3. ASSUME NEW a \in Admins, SaveTournament(a) PROVE LogSound(m)'
    <2>1. CASE elock[m] = a
      <3>1. entry'[m] = "none" /\ log'[m] = << >>
        BY <1>0, <1>3, <2>1, PurgeEffect
      <3> QED
        BY <3>1 DEF LogSound
    <2>2. CASE elock[m] # a
      <3>1. opening'[m] = opening[m]
        BY <1>3, <2>2 DEF SaveTournament, Purged
      <3>2. UNCHANGED <<entry[m], slots[m], log[m]>>
        BY <1>0, <1>3, <2>2, PurgeEffect
      <3> QED
        BY <1>0, <3>1, <3>2, LogKept
    <2> QED
      BY <2>1, <2>2
  <1>4. CASE UNCHANGED <<entry, slots, log, opening>>
    BY <1>0, <1>4, LogKept
  <1>5. ASSUME NEW s \in Sessions, Session(s), ~SaveEntry(s), ~InsertEntry(s)
        PROVE  UNCHANGED <<entry, slots, log, opening>>
    BY <1>5 DEF Session, Ask, Acquire, Proceed, Begin, FindNoEntry, LockCapacity,
                CountEntries, LoadEntry, UpdateEntry, LockEntry, LoadForSwap,
                Refuse, Abort, entries
  <1>6. ASSUME NEW a \in Admins, Admin(a), ~SaveTournament(a)
        PROVE  UNCHANGED <<entry, slots, log, opening>>
    BY <1>0, <1>6, AdminLocks DEF entries
  <1>7. UNCHANGED vars => UNCHANGED <<entry, slots, log, opening>>
    BY DEF vars, entries
  <1> QED
    BY <1>1, <1>2, <1>3, <1>4, <1>5, <1>6, <1>7 DEF Next

\* A log in order is read as it was written.
LEMMA ReadAsWritten ==
  ASSUME TypeOK, NEW m \in Managers, InOrder(log[m])
  PROVE  Replay(m) = Written(m)
  <1> DEFINE L == log[m]
             n == Len(L)
  <1>1. /\ DOMAIN L = 1 .. n /\ n \in Nat
        /\ \A i \in 1 .. n : L[i].round \in Nat
    <2>1. L \in Seq(Submission)
      BY DEF TypeOK
    <2>2. \A e \in Submission : e.round \in Nat
      BY ConstantsAssumption DEF Submission
    <2> QED
      BY <2>1, <2>2
  <1>2. ASSUME NEW i \in 1 .. n, NEW j \in 1 .. n
        PROVE  ReadBefore(m, j, i) <=> j < i
    <2>1. i < j => L[i].round <= L[j].round
      BY <1>1 DEF InOrder
    <2>2. j < i => L[j].round <= L[i].round
      BY <1>1 DEF InOrder
    <2>3. L[i].round \in Nat /\ L[j].round \in Nat
      BY <1>1
    <2> QED
      BY <2>1, <2>2, <2>3 DEF ReadBefore
  <1>3. ASSUME NEW i \in 1 .. n
        PROVE  Cardinality({j \in DOMAIN L : ReadBefore(m, j, i)}) = i - 1
    <2>1. {j \in DOMAIN L : ReadBefore(m, j, i)} = 1 .. (i - 1)
      BY <1>1, <1>2
    <2>2. Cardinality(1 .. (i - 1)) = i - 1
      BY <1>1, FS_Interval
    <2> QED
      BY <2>1, <2>2
  <1>4. ASSUME NEW k \in 1 .. n
        PROVE  (CHOOSE i \in DOMAIN L :
                  Cardinality({j \in DOMAIN L : ReadBefore(m, j, i)}) = k - 1) = k
    <2>1. \A i \in DOMAIN L :
            (Cardinality({j \in DOMAIN L : ReadBefore(m, j, i)}) = k - 1) <=> i = k
      BY <1>1, <1>3
    <2> QED
      BY <1>1, <2>1
  <1> QED
    BY <1>1, <1>4 DEF Replay, Written

\* The fold that undoes a log passes through the rosters that it connects.
LEMMA RewindsToHeld ==
  ASSUME TypeOK, NEW m \in Managers, Connects(log[m], opening[m], slots[m])
  PROVE  Rewound(m, Written(m)) = opening[m]
  <1> DEFINE L == log[m]
             n == Len(L)
             D == DOMAIN Written(m)
             undo(i, roster) == (roster \ L[Written(m)[i]].in) \cup L[Written(m)[i]].out
             step == [p \in D \X Rosters |-> undo(p[1], p[2])]
             iter == CHOOSE g : g = [s \in SUBSET D |->
                       IF s = {} THEN slots[m] ELSE undo(Min(s), g[s \ {Min(s)}])]
  <1>1. L \in Seq(Submission) /\ slots[m] \in Rosters
    BY DEF TypeOK
  <1>2. D = 1 .. n /\ n \in Nat /\ \A i \in D : L[i] \in Submission /\ Written(m)[i] = i
    <2>1. DOMAIN L = 1 .. n /\ n \in Nat /\ \A i \in 1 .. n : L[i] \in Submission
      BY <1>1
    <2>2. Written(m) = [k \in DOMAIN L |-> k]
      BY DEF Written
    <2> QED
      BY <2>1, <2>2
  <1>3. \A i \in D, v \in Rosters : undo(i, v) \in Rosters /\ step[<<i, v>>] = undo(i, v)
    <2>1. \A e \in Submission : e.out \in Rosters
      BY DEF Submission
    <2> QED
      BY <1>2, <2>1 DEF Rosters
  <1> HIDE DEF step, D
  <1>4. Picks(Smallest(D), D) /\ IsFiniteSet(D)
    <2>1. \A s \in SUBSET D : s # {} => Min(s) \in s
      BY <1>2, SmallestExists
    <2>2. IsFiniteSet(1 .. n)
      BY <1>2, FS_Interval
    <2> QED
      BY <1>2, <2>1, <2>2 DEF Picks, Smallest
  <1>5. PICK g \in [SUBSET D -> Rosters] : Solves(g, D, slots[m], Smallest(D), step)
    <2>1. slots[m] \in Rosters /\ \A i \in D, v \in Rosters : step[<<i, v>>] \in Rosters
      BY <1>1, <1>3
    <2> HIDE DEF undo
    <2> QED
      BY <1>4, <2>1, SolutionExists
  <1>6. \E f : f = [s \in SUBSET D |->
                     IF s = {} THEN slots[m] ELSE undo(Min(s), f[s \ {Min(s)}])]
    <2>1. ASSUME NEW s \in SUBSET D
          PROVE  g[s] = IF s = {} THEN slots[m] ELSE undo(Min(s), g[s \ {Min(s)}])
      <3>1. s # {} => Min(s) \in D /\ g[s \ {Min(s)}] \in Rosters
        BY <1>2, SmallestExists
      <3>2. g[s] = IF s = {} THEN slots[m] ELSE step[<<Min(s), g[s \ {Min(s)}]>>]
        BY <1>5 DEF Solves, Smallest
      <3> QED
        BY <1>3, <3>1, <3>2
    <2> HIDE DEF undo
    <2>2. g = [s \in SUBSET D |->
                 IF s = {} THEN slots[m] ELSE undo(Min(s), g[s \ {Min(s)}])]
      BY <2>1
    <2> QED
      BY <2>2
  <1>7. iter = [s \in SUBSET D |->
                 IF s = {} THEN slots[m] ELSE undo(Min(s), iter[s \ {Min(s)}])]
    <2> HIDE DEF undo
    <2> QED
      BY <1>6
  <1> HIDE DEF iter
  <1>8. PICK held \in [1 .. n + 1 -> Rosters] :
          /\ held[1] = opening[m] /\ held[n + 1] = slots[m]
          /\ \A k \in 1 .. n : held[k] = undo(k, held[k + 1])
    <2>1. PICK held \in [1 .. n + 1 -> Rosters] :
            /\ held[1] = opening[m] /\ held[n + 1] = slots[m]
            /\ \A k \in 1 .. n : held[k] = (held[k + 1] \ L[k].in) \cup L[k].out
      BY DEF Connects
    <2>2. \A k \in 1 .. n : \A v : undo(k, v) = (v \ L[k].in) \cup L[k].out
      BY <1>2
    <2> HIDE DEF undo
    <2> QED
      BY <2>1, <2>2
  <1>9. iter[{}] = held[n + 1]
    BY <1>7, <1>8
  <1>10. ASSUME NEW k \in 1 .. n, iter[k + 1 .. n] = held[k + 1]
         PROVE  iter[k .. n] = held[k]
    <2> DEFINE s == k .. n
    <2>1. s \in SUBSET D /\ s # {} /\ k \in s /\ s \ {k} = k + 1 .. n
          /\ \A y \in s : k <= y
      BY <1>2
    <2>2. Min(s) = k
      <3> HIDE DEF s
      <3>1. Min(s) \in s /\ \A y \in s : Min(s) <= y
        BY <1>2, <2>1, SmallestExists
      <3>2. Min(s) \in Int /\ k \in Int
        BY <1>2, <2>1, <3>1
      <3> QED
        BY <2>1, <3>1, <3>2
    <2>3. iter[s] = undo(k, iter[k + 1 .. n])
      BY <1>7, <2>1, <2>2
    <2> QED
      BY <1>8, <1>10, <2>3
  <1>11. iter[1 .. n] = opening[m]
    <2>1. Follows(iter, held, n) /\ n \in Nat
      BY <1>2, <1>9, <1>10 DEF Follows
    <2> HIDE DEF n
    <2>2. iter[1 .. n] = held[1]
      BY <2>1, TailsAgree
    <2> QED
      BY <1>8, <2>2
  <1>12. Rewound(m, Written(m)) = iter[1 .. n]
    <2>1. Rewound(m, Written(m)) = iter[D]
      BY DEF Rewound, FoldRight, MapThenFoldSet, iter, D
    <2> QED
      BY <1>2, <2>1
  <1> QED
    BY <1>11, <1>12

\* The way back holds in every reachable state.
LEMMA UndoHolds ==
  ASSUME OneDrafts
  PROVE  Spec /\ [][RegisteredApart]_vars => [](IInv /\ UndoInv)
  <1>1. Init => DraftInv /\ UndoInv
    BY DEF Init, DraftInv, DraftHeld, UndoInv, LogSound
  <1>2. (IInv /\ LockInv /\ SwapInv) /\ (DraftInv /\ UndoInv) /\ [Next]_vars
          => (DraftInv /\ UndoInv)'
    <2> SUFFICES ASSUME IInv, LockInv, SwapInv, DraftInv, UndoInv, [Next]_vars
                 PROVE  (DraftInv /\ UndoInv)'
      OBVIOUS
    <2>1. DraftInv'
      BY NextDraft
    <2>2. \A m \in Managers : LogSound(m)'
      BY NextSound
    <2> QED
      BY <2>1, <2>2 DEF UndoInv
  <1> QED
    BY <1>1, <1>2, SwapsHold, PTL DEF Spec

\* The log undoes every locked roster to the one that was locked: for logs of any
\* length and any number of managers, swaps in flight, admins and rounds.  It takes
\* one draft or lock of a manager at a time and no registration inside a swap.
THEOREM LogsReplay ==
  ASSUME OneDrafts
  PROVE  Spec /\ [][RegisteredApart]_vars => []LogReplays
  <1>1. IInv /\ UndoInv => LogReplays
    <2> SUFFICES ASSUME IInv, UndoInv, NEW m \in Managers, entry[m] = "LOCKED"
                 PROVE  /\ Rewound(m, Written(m)) = opening[m]
                        /\ InOrder(log[m]) => Rewound(m, Replay(m)) = opening[m]
      BY DEF LogReplays
    <2>1. Rewound(m, Written(m)) = opening[m]
      BY RewindsToHeld DEF IInv, UndoInv, LogSound
    <2>2. InOrder(log[m]) => Replay(m) = Written(m)
      BY ReadAsWritten DEF IInv
    <2> QED
      BY <2>1, <2>2
  <1> QED
    BY <1>1, UndoHolds, PTL

-----------------------------------------------------------------------------
(* The requests implement the book.                                         *)

\* A request that starts to write a draft was allowed to, and keeps what it wants.
LEMMA NextFits ==
  ASSUME IInv, AskedInv, [Next]_vars, NEW s \in Sessions,
         pc'[s] \in {"update", "save"}, op'[s] = "draft"
  PROVE  Cardinality(want'[s]) <= RosterSize
  <1> USE ConstantsAssumption
  <1>9. TypeOK
    BY DEF IInv
  <1>0. pc[s] \in {"update", "save"} /\ op[s] = "draft" => Cardinality(want[s]) <= RosterSize
    BY DEF AskedInv
  <1>1. CASE UNCHANGED <<pc, op, want>>
    BY <1>0, <1>1
  <1>2. ASSUME NEW r \in Sessions, Ask(r) PROVE Cardinality(want'[s]) <= RosterSize
    BY <1>0, <1>2, <1>9, BeginEffect
  <1>3. ASSUME NEW r \in Sessions, End(r) PROVE Cardinality(want'[s]) <= RosterSize
    BY <1>0, <1>3, <1>9, EndLocks
  <1>4. ASSUME NEW r \in Sessions, LoadEntry(r) PROVE Cardinality(want'[s]) <= RosterSize
    <2>1. CASE r = s
      BY <1>4, <2>1 DEF LoadEntry, MayWrite, ValidateDraft
    <2>2. CASE r # s
      BY <1>0, <1>4, <1>9, <2>2, MoveEffect
    <2> QED
      BY <2>1, <2>2
  <1>5. ASSUME NEW r \in Sessions,
               \/ FindNoEntry(r) \/ LockCapacity(r) \/ CountEntries(r) \/ UpdateEntry(r)
               \/ LockEntry(r) \/ LoadForSwap(r)
        PROVE  Cardinality(want'[s]) <= RosterSize
    <2>1. pc'[r] \in {"update", "save"} => pc[r] = "update" \/ op[r] = "swap"
      BY <1>5 DEF FindNoEntry, LockCapacity, CountEntries, UpdateEntry, LockEntry,
                  LoadForSwap, Goto, IInv, TypeOK, LoadInv
    <2> QED
      BY <1>0, <1>5, <1>9, <2>1, MoveEffect
  <1>6. ASSUME NEW a \in Admins, Admin(a) PROVE UNCHANGED <<pc, op, want>>
    BY <1>6, <1>9, AdminLocks
  <1>7. ASSUME NEW r \in Sessions, InsertEntry(r) \/ SaveEntry(r) \/ Refuse(r) \/ Abort(r)
        PROVE  End(r)
    BY <1>7 DEF InsertEntry, SaveEntry, WriteEntry, Refuse, Abort
  <1>8. UNCHANGED vars => UNCHANGED <<pc, op, want>>
    BY DEF vars, requests
  <1> QED
    BY <1>1, <1>2, <1>3, <1>4, <1>5, <1>6, <1>7, <1>8
    DEF Next, Session, Acquire, Proceed

\* An admin saves the form it came with, and purges only for a tournament that
\* goes live.
LEMMA NextAsked == IInv /\ LockInv /\ AskedInv /\ [Next]_vars => AskedInv'
  <1> SUFFICES ASSUME IInv, LockInv, AskedInv, [Next]_vars PROVE AskedInv'
    OBVIOUS
  <1> USE ConstantsAssumption
  <1> DEFINE
       Held == \A m \in Managers : elock[m] \in Admins =>
                 apc[elock[m]] = "written" /\ form[elock[m]].status = "LIVE"
       Given == \A a \in Admins : apc[a] # "idle" =>
                  form[a].status \in Statuses /\ form[a].capacity \in Capacities
  <1>0. TypeOK /\ Held /\ Given
    BY DEF IInv, AskedInv
  <1>1. CASE UNCHANGED <<elock, apc, form>>
    <2>1. Held' /\ Given'
      BY <1>0, <1>1
    <2> QED
      BY <1>0, <2>1, NextFits DEF AskedInv
  <1>2. ASSUME NEW s \in Sessions, Session(s) PROVE Held' /\ Given'
    <2>1. UNCHANGED <<apc, form>>
      BY <1>2 DEF Session, Ask, Acquire, Proceed, Begin, FindNoEntry, LockCapacity,
                  CountEntries, LoadEntry, UpdateEntry, LockEntry, LoadForSwap,
                  InsertEntry, SaveEntry, WriteEntry, Refuse, Abort, End, admins
    <2>2. \A m \in Managers : elock'[m] \in {elock[m], s, Nobody}
      BY <1>0, <1>2 DEF Session, Ask, Acquire, Proceed, Begin, FindNoEntry, LockCapacity,
                  CountEntries, LoadEntry, UpdateEntry, LockEntry, LoadForSwap,
                  InsertEntry, SaveEntry, WriteEntry, Refuse, Abort, End, TypeOK
    <2> QED
      BY <1>0, <2>1, <2>2
  <1>3. ASSUME NEW a \in Admins, NEW n \in Managers, PurgeEntry(a, n) PROVE Held' /\ Given'
    <2>1. /\ UNCHANGED <<apc, form>> /\ apc[a] = "written" /\ form[a].status = "LIVE"
          /\ \A m \in Managers : elock'[m] = IF m = n THEN a ELSE elock[m]
      BY <1>0, <1>3 DEF PurgeEntry, admins, TypeOK
    <2> QED
      BY <1>0, <2>1
  <1>4. ASSUME NEW a \in Admins, SaveTournament(a) \/ AdminAbort(a) PROVE Held' /\ Given'
    <2>1. /\ apc'[a] = "idle"
          /\ \A m \in Managers : elock'[m] = IF elock[m] = a THEN Nobody ELSE elock[m]
          /\ \A b \in Admins \ {a} : apc'[b] = apc[b] /\ form'[b] = form[b]
      BY <1>0, <1>4 DEF SaveTournament, AdminAbort, AdminEnd, TypeOK
    <2> QED
      BY <1>0, <2>1
  <1>5. ASSUME NEW a \in Admins, NEW st \in Statuses, NEW c \in Capacities,
               ReadForUpdate(a, [status |-> st, capacity |-> c])
        PROVE  Held' /\ Given'
    <2>1. /\ apc[a] = "idle" /\ elock' = elock
          /\ form'[a] = [status |-> st, capacity |-> c]
          /\ \A b \in Admins \ {a} : apc'[b] = apc[b] /\ form'[b] = form[b]
      BY <1>0, <1>5 DEF ReadForUpdate, TypeOK
    <2> QED
      BY <1>0, <2>1
  <1>6. ASSUME NEW a \in Admins, WriteTournament(a) PROVE Held' /\ Given'
    <2>1. /\ apc[a] = "read" /\ elock' = elock /\ form' = form
          /\ \A b \in Admins \ {a} : apc'[b] = apc[b]
      BY <1>0, <1>6 DEF WriteTournament, TypeOK
    <2> QED
      BY <1>0, <2>1
  <1>7. ASSUME NEW a \in Admins, AdvanceRound(a) \/ \E open \in BOOLEAN : SetSwapWindow(a, open)
        PROVE  UNCHANGED <<elock, apc, form>>
    BY <1>7 DEF AdvanceRound, SetSwapWindow, admins
  <1>8. UNCHANGED vars => UNCHANGED <<elock, apc, form>>
    BY DEF vars, admins
  <1>9. Held' /\ Given' => AskedInv'
    BY <1>0, NextFits DEF AskedInv
  <1> HIDE DEF Held, Given
  <1> QED
    BY <1>1, <1>2, <1>3, <1>4, <1>5, <1>6, <1>7, <1>8, <1>9 DEF Next, Admin

\* The book counts as the requests do.
LEMMA SameCount == \A S : Book!Cardinality(S) = Cardinality(S)
  BY DEF Book!Cardinality, Cardinality

\* The book begins with the tournament.
LEMMA BookBegins == Init => Book!Init
  BY SameCount DEF Init, Book!Init

\* Registration takes a free seat.
LEMMA BookRegisters ==
  ASSUME IInv, NEW s \in Sessions, InsertEntry(s)
  PROVE  Book!Register(Owner[s])
  <1>1. Cardinality(Entered) < seats[s] /\ seats[s] = capacity
    BY DEF IInv, SeatInv, InsertEntry
  <1>2. Entered = Book!Entered
    BY DEF Entered, Book!Entered
  <1> QED
    BY <1>1, <1>2, SameCount DEF InsertEntry, Book!Register, tournament

\* A row is appended by concatenation.
LEMMA OneAppended ==
  ASSUME NEW S, NEW L \in Seq(S), NEW e \in S
  PROVE  Append(L, e) = L \o <<e>>
  OBVIOUS

\* A save is what its request is called, done on the entry as it is.
LEMMA BookSaves ==
  ASSUME IInv, LockInv, SwapInv, DraftInv, AllowanceInv, AskedInv,
         NEW s \in Sessions, SaveEntry(s)
  PROVE  \/ Book!Draft(Owner[s], want[s]) \/ Book!Lock(Owner[s])
         \/ seen[s].round \in 1 .. round /\ Book!Swap(Owner[s], seen[s].round, want[s])
         \/ UNCHANGED Book!vars
  <1> USE ConstantsAssumption
  <1> DEFINE m == Owner[s]
  <1>0. TypeOK /\ LoadInv /\ m \in Managers
    BY DEF IInv
  <1>1. /\ pc[s] = "save" /\ loaded[s].status \in {"DRAFT", "LOCKED"}
        /\ entry' = [entry EXCEPT ![m] = Saved(s).status]
        /\ slots' = [slots EXCEPT ![m] = Saved(s).slots]
        /\ log' = [log EXCEPT ![m] = @ \o Logged(s)]
        /\ opening' = IF op[s] = "lock" /\ entry[m] # "LOCKED"
                      THEN [opening EXCEPT ![m] = Saved(s).slots] ELSE opening
        /\ UNCHANGED <<status, round, capacity>>
    BY SaveKeepsEntered DEF SaveEntry, WriteEntry, tournament
  <1>2. /\ op[s] \in {"draft", "lock", "swap"}
        /\ log[m] \in Seq(Submission) /\ slots[m] \in Rosters /\ want[s] \in Rosters
    BY <1>0, <1>1 DEF TypeOK, LoadInv
  <1>3. op[s] # "swap" => log' = log
    <2>1. op[s] # "swap" => log' = [log EXCEPT ![m] = log[m] \o << >>]
      BY <1>1 DEF Logged
    <2>2. log[m] \o << >> = log[m]
      BY <1>2, NoMoreRows
    <2> QED
      BY <1>0, <2>1, <2>2 DEF TypeOK
  <1>4. op[s] \in {"draft", "lock"} =>
          loaded[s].status = "DRAFT" /\ entry[m] = "DRAFT" /\ loaded[s].slots = slots[m]
    <2>1. DraftHeld(s)
      BY DEF DraftInv
    <2>2. EntryOf(m).status = entry[m] /\ EntryOf(m).slots = slots[m]
      BY DEF EntryOf
    <2> QED
      BY <1>1, <2>1, <2>2 DEF DraftHeld
  <1>5. CASE op[s] = "draft"
    <2>1. Cardinality(want[s]) <= RosterSize
      BY <1>1, <1>5 DEF AskedInv
    <2>2. entry' = entry /\ slots' = [slots EXCEPT ![m] = want[s]] /\ opening' = opening
      BY <1>0, <1>1, <1>4, <1>5 DEF Saved, TypeOK
    <2> QED
      BY <1>1, <1>3, <1>4, <1>5, <2>1, <2>2, SameCount DEF Book!Draft
  <1>6. CASE op[s] = "lock"
    <2>1. Cardinality(slots[m]) = RosterSize
      BY <1>0, <1>1, <1>4, <1>6 DEF LoadInv
    <2>2. /\ entry' = [entry EXCEPT ![m] = "LOCKED"] /\ slots' = slots
          /\ opening' = [opening EXCEPT ![m] = slots[m]]
      BY <1>0, <1>1, <1>4, <1>6 DEF Saved, TypeOK
    <2> QED
      BY <1>1, <1>3, <1>4, <1>6, <2>1, <2>2, SameCount DEF Book!Lock
  <1>7. CASE op[s] = "swap"
    <2>1. /\ entry[m] = "LOCKED" /\ loaded[s].slots = slots[m] /\ loaded[s].status = "LOCKED"
          /\ \A i \in DOMAIN log[m] : log[m][i].round # seen[s].round
          /\ Cardinality(want[s]) = RosterSize
      <3>1. SwapHeld(s)
        BY DEF SwapInv
      <3>2. EntryOf(m).status = entry[m] /\ EntryOf(m).slots = slots[m]
        BY DEF EntryOf
      <3> QED
        BY <1>0, <1>1, <1>7, <3>1, <3>2 DEF SwapHeld, SwappedInRound, LoadInv
    <2>2. entry' = entry /\ slots' = [slots EXCEPT ![m] = want[s]] /\ opening' = opening
      BY <1>0, <1>1, <1>7, <2>1 DEF Saved, TypeOK
    <2>3. CASE want[s] \ slots[m] = {}
      <3>1. Cardinality(slots[m]) = RosterSize
        BY <1>0, <2>1 DEF IInv, LockedRosterIsComplete
      <3>2. want[s] = slots[m]
        BY <1>2, <2>1, <2>3, <3>1, SameSizeRosters
      <3>3. log' = [log EXCEPT ![m] = log[m] \o << >>]
        BY <1>1, <2>1, <2>3 DEF Logged
      <3>4. log[m] \o << >> = log[m]
        BY <1>2, NoMoreRows
      <3> QED
        BY <1>0, <1>1, <2>2, <3>2, <3>3, <3>4 DEF TypeOK, Book!vars, Book!book
    <2>4. CASE want[s] \ slots[m] # {}
      <3>1. log' = [log EXCEPT ![m] = Append(log[m], [round |-> seen[s].round,
                      out |-> slots[m] \ want[s], in |-> want[s] \ slots[m]])]
        <4>1. LoggedRow(s) \in Submission
          BY <1>0, SaveLogs
        <4>2. Append(log[m], LoggedRow(s)) = log[m] \o <<LoggedRow(s)>>
          BY <1>2, <4>1, OneAppended
        <4>3. Logged(s) = <<LoggedRow(s)>>
          BY <1>7, <2>1, <2>4 DEF Logged, LoggedRow
        <4> QED
          BY <1>1, <2>1, <4>2, <4>3 DEF LoggedRow
      <3>2. /\ seen[s].round <= round
            /\ SwapCount(m) + Cardinality(want[s] \ slots[m])
                 <= SwapsPerRound * (seen[s].round - 1)
        <4>1. SwapOnOffer(s)
          BY DEF AllowanceInv
        <4>2. Cardinality(loaded[s].slots \ want[s]) = Cardinality(want[s] \ slots[m])
          <5>1. Cardinality(slots[m]) = Cardinality(want[s])
            BY <1>0, <2>1 DEF IInv, LockedRosterIsComplete
          <5> QED
            BY <1>2, <2>1, <5>1, AsManyLeave
        <4> QED
          BY <1>1, <1>7, <2>1, <2>4, <4>1, <4>2 DEF SwapOnOffer
      <3>3. Book!Exchanged(m) = SwapRows(m)
        BY DEF Book!Exchanged, SwapRows
      <3>4. seen[s].round \in 1 .. round
        BY <1>0, <3>2 DEF TypeOK, TournamentCopy
      <3> QED
        BY <1>1, <2>1, <2>2, <2>4, <3>1, <3>2, <3>3, <3>4, SameCount DEF Book!Swap, SwapCount
    <2> QED
      BY <2>3, <2>4
  <1> QED
    BY <1>2, <1>5, <1>6, <1>7

\* An update takes away every draft of a tournament that goes live, and nothing
\* else.
LEMMA BookMoves ==
  ASSUME IInv, LockInv, AskedInv, NoRoundBack, NEW a \in Admins, SaveTournament(a)
  PROVE  /\ form[a].status \in Statuses /\ form[a].capacity \in Capacities
         /\ kept[a].round \in round .. MaxRound
         /\ Book!Move(form[a].status, form[a].capacity, kept[a].round)
  <1> USE ConstantsAssumption
  <1>0. TypeOK
    BY DEF IInv
  <1> DEFINE held == {m \in Managers : elock[m] = a}
             gone == IF form[a].status = "LIVE" THEN Book!Drafts ELSE {}
  <1>1. held = gone
    <2>1. \A m \in Managers : elock[m] = a => entry[m] = "DRAFT" /\ form[a].status = "LIVE"
      BY DEF LockInv, AskedInv
    <2>2. form[a].status = "LIVE" => \A m \in Managers : entry[m] = "DRAFT" => elock[m] = a
      BY DEF SaveTournament
    <2> QED
      BY <2>1, <2>2 DEF Book!Drafts
  <1>2. /\ status' = form[a].status /\ capacity' = form[a].capacity /\ round' = kept[a].round
        /\ entry' = [m \in Managers |-> IF m \in held THEN "none" ELSE entry[m]]
        /\ slots' = [m \in Managers |-> IF m \in held THEN {} ELSE slots[m]]
        /\ log' = [m \in Managers |-> IF m \in held THEN << >> ELSE log[m]]
        /\ opening' = [m \in Managers |-> IF m \in held THEN {} ELSE opening[m]]
    BY DEF SaveTournament, Purged
  <1>3. Book!Move(form[a].status, form[a].capacity, kept[a].round)
    BY <1>1, <1>2 DEF Book!Move
  <1>4. form[a].status \in Statuses /\ form[a].capacity \in Capacities
    BY DEF AskedInv, SaveTournament
  <1>5. kept[a].round \in round .. MaxRound
    BY <1>0, <1>2 DEF TypeOK, NoRoundBack
  <1> QED
    BY <1>3, <1>4, <1>5

\* Every step moves at most one entry, the way the book has it, or the
\* tournament.
LEMMA BookMovesOn ==
  ASSUME IInv, LockInv, SwapInv, DraftInv, AllowanceInv, AskedInv, [Next]_vars,
         NoRoundBack
  PROVE  [Book!Next]_(Book!vars)
  <1> USE ConstantsAssumption
  <1>0. TypeOK
    BY DEF IInv
  <1>1. CASE UNCHANGED Book!vars
    BY <1>1
  <1>2. ASSUME NEW s \in Sessions, InsertEntry(s) PROVE Book!Next
    <2>1. Owner[s] \in Managers /\ Book!Register(Owner[s])
      BY <1>2, BookRegisters
    <2> QED
      BY <2>1 DEF Book!Next
  <1>3. ASSUME NEW s \in Sessions, SaveEntry(s) PROVE [Book!Next]_(Book!vars)
    <2>1. Owner[s] \in Managers /\ want[s] \in SUBSET Heroes
      BY <1>0 DEF TypeOK, Rosters
    <2>2. \/ Book!Draft(Owner[s], want[s]) \/ Book!Lock(Owner[s])
          \/ seen[s].round \in 1 .. round /\ Book!Swap(Owner[s], seen[s].round, want[s])
          \/ UNCHANGED Book!vars
      BY <1>3, BookSaves
    <2> QED
      BY <2>1, <2>2 DEF Book!Next
  <1>4. ASSUME NEW a \in Admins, SaveTournament(a) PROVE Book!Next
    BY <1>4, BookMoves DEF Book!Next
  <1>5. ASSUME NEW a \in Admins, AdvanceRound(a) PROVE Book!Next
    BY <1>5 DEF AdvanceRound, entries, Book!AdvanceRound, Book!Next, Book!book
  <1>6. ASSUME NEW s \in Sessions, Session(s), ~InsertEntry(s), ~SaveEntry(s)
        PROVE  UNCHANGED Book!vars
    BY <1>6 DEF Session, Ask, Acquire, Proceed, Begin, FindNoEntry, LockCapacity,
                CountEntries, LoadEntry, UpdateEntry, LockEntry, LoadForSwap,
                Refuse, Abort, entries, tournament, Book!vars, Book!book
  <1>7. ASSUME NEW a \in Admins, Admin(a), ~SaveTournament(a), ~AdvanceRound(a)
        PROVE  UNCHANGED Book!vars
    <2>1. UNCHANGED <<status, round, capacity, entries>>
      BY <1>7 DEF Admin, SetSwapWindow, ReadForUpdate, WriteTournament, PurgeEntry,
                  AdminAbort, tournament
    <2> QED
      BY <2>1 DEF entries, Book!vars, Book!book
  <1>8. UNCHANGED vars => UNCHANGED Book!vars
    BY DEF vars, tournament, entries, Book!vars, Book!book
  <1> QED
    BY <1>1, <1>2, <1>3, <1>4, <1>5, <1>6, <1>7, <1>8 DEF Next

\* What the requests of managers and admins come to is the book: each of them
\* takes its effect at once, on the entry as it then is, although drafts and
\* locks judge a copy that was read without a lock, seats are counted from
\* elsewhere and a purge deletes row by row.  It takes one draft or lock of a
\* manager at a time, no registration inside a swap, and no update that takes a
\* round back; each of the three can fail in the code.
THEOREM RostersImplementBook ==
  ASSUME OneDrafts
  PROVE  Spec /\ [][RegisteredApart]_vars /\ [][NoRoundBack]_vars => BookSpec
  <1> DEFINE Inv == (IInv /\ LockInv /\ SwapInv) /\ DraftInv /\ AllowanceInv
  <1>1. Init => AskedInv
    <2> SUFFICES ASSUME Init PROVE AskedInv
      OBVIOUS
    <2>1. \A m \in Managers : elock[m] \notin Admins
      BY ConstantsAssumption DEF Init
    <2>2. /\ \A a \in Admins : apc[a] = "idle"
          /\ \A s \in Sessions : pc[s] = "idle"
      BY DEF Init
    <2> QED
      BY <2>1, <2>2 DEF AskedInv
  <1>2. Inv /\ AskedInv /\ [Next]_vars => AskedInv'
    BY NextAsked
  <1>3. Inv /\ AskedInv /\ [Next]_vars /\ [NoRoundBack]_vars => [Book!Next]_(Book!vars)
    <2> SUFFICES ASSUME Inv, AskedInv, [Next]_vars, [NoRoundBack]_vars
                 PROVE  [Book!Next]_(Book!vars)
      OBVIOUS
    <2>1. NoRoundBack
      <3>1. round \in Nat /\ (UNCHANGED vars => round' = round)
        BY DEF IInv, TypeOK, vars, tournament
      <3> QED
        BY <3>1 DEF NoRoundBack
    <2> QED
      BY <2>1, BookMovesOn
  <1> HIDE DEF Inv
  <1>4. Spec /\ [][RegisteredApart]_vars /\ [][NoRoundBack]_vars => []Inv
    BY SwapsHold, DraftsHold, AllowanceHolds, PTL DEF Inv
  <1> QED
    BY <1>1, <1>2, <1>3, <1>4, BookBegins, PTL DEF Spec, BookSpec, Book!Spec

=============================================================================
