-------------------------- MODULE MatchCacheProofs --------------------------
(***************************************************************************)
(* MatchCache's type correctness, its inductive invariant IInv, and what   *)
(* follows from it: a read sees every settled write, a browser is told of  *)
(* a write only once it is settled, a reader removes no servable entry,    *)
(* and, where handlers are not dropped and one request at a time edits the *)
(* catalogue, an accepted entry is the database's list.  At the end: it    *)
(* implements MatchFeed.                                                   *)
(***************************************************************************)
EXTENDS MatchCacheInvariant, TLAPS

\* Every variable starts in its range.
LEMMA InitType == Init => TypeOK
  BY ConstantsAssumption DEF Init, TypeOK, Addresses, Stamped, WriterPhase, WriteKind, ReaderPhase

\* A request that ends leaves well-typed writers behind.
LEMMA RetireType ==
  ASSUME TypeOK, NEW w \in Writers, Retire(w)
  PROVE  /\ wpc' \in [Writers -> WriterPhase]
         /\ wkind' \in [Writers -> WriteKind]
         /\ wscope' \in [Writers -> SUBSET Tournaments]
         /\ wtodo' \in [Writers -> SUBSET Tournaments]
         /\ wread' \in [Writers -> Names \cup {NoName}]
         /\ wname' \in [Writers -> Names \cup {NoName}]
         /\ wrev' \in [Writers -> Nat]
  BY DEF TypeOK, Retire, WriterPhase, WriteKind

\* So does a transaction that takes effect leave a well-typed database.
LEMMA EffectType ==
  ASSUME TypeOK, NEW w \in Writers, wpc[w] = "announce", Effect(w)
  PROVE  /\ db' \in [Tournaments -> Nat]
         /\ exists' \in [Tournaments -> BOOLEAN]
         /\ name' \in Names
  BY DEF TypeOK, Effect

\* One step per action; the conjuncts that relate two variables are split off
\* where an action changes both.
LEMMA NextType == TypeOK /\ [Next]_vars => TypeOK'
  <1> SUFFICES ASSUME TypeOK, [Next]_vars PROVE TypeOK'
    OBVIOUS
  <1> USE ConstantsAssumption DEF TypeOK, WriterPhase, WriteKind, ReaderPhase
  <1> USE DEF database, store, writers, readers, Outside
  <1>1. ASSUME NEW w \in Writers, NEW t \in Tournaments, WriteMatch(w, t) PROVE TypeOK'
    <2>1. \A v \in Writers : wpc'[v] = "announce" =>
             IF wkind'[v] = "rename" THEN wname'[v] \in Names
                                    ELSE \E u \in Tournaments : wscope'[v] = {u}
      BY <1>1 DEF WriteMatch, Start
    <2>2. /\ wpc' \in [Writers -> WriterPhase]
          /\ wkind' \in [Writers -> WriteKind]
          /\ wscope' \in [Writers -> SUBSET Tournaments]
          /\ wtodo' \in [Writers -> SUBSET Tournaments]
          /\ wread' \in [Writers -> Names \cup {NoName}]
          /\ wname' \in [Writers -> Names \cup {NoName}]
          /\ writes' \in 0 .. MaxWrites
      BY <1>1 DEF WriteMatch, Start
    <2> QED
      BY <1>1, <2>1, <2>2 DEF WriteMatch
  <1>2. ASSUME NEW w \in Writers, NEW t \in Tournaments, DropTournament(w, t) PROVE TypeOK'
    <2>1. \A v \in Writers : wpc'[v] = "announce" =>
             IF wkind'[v] = "rename" THEN wname'[v] \in Names
                                    ELSE \E u \in Tournaments : wscope'[v] = {u}
      BY <1>2 DEF DropTournament, Start
    <2>2. /\ wpc' \in [Writers -> WriterPhase]
          /\ wkind' \in [Writers -> WriteKind]
          /\ wscope' \in [Writers -> SUBSET Tournaments]
          /\ wtodo' \in [Writers -> SUBSET Tournaments]
          /\ wread' \in [Writers -> Names \cup {NoName}]
          /\ wname' \in [Writers -> Names \cup {NoName}]
          /\ writes' \in 0 .. MaxWrites
      BY <1>2 DEF DropTournament, Start
    <2> QED
      BY <1>2, <2>1, <2>2 DEF DropTournament
  <1>3. ASSUME NEW w \in Writers, ReadHero(w) PROVE TypeOK'
    BY <1>3 DEF ReadHero, Start
  <1>4. ASSUME NEW w \in Writers, NEW n \in Names, WriteHero(w, n) PROVE TypeOK'
    <2>1. \A v \in Writers : wpc'[v] = "announce" =>
             IF wkind'[v] = "rename" THEN wname'[v] \in Names
                                    ELSE \E u \in Tournaments : wscope'[v] = {u}
      BY <1>4 DEF WriteHero
    <2>2. \E S \in SUBSET Tournaments : wscope' = [wscope EXCEPT ![w] = S]
      BY <1>4 DEF WriteHero
    <2>3. wscope' \in [Writers -> SUBSET Tournaments]
      BY <2>2
    <2>4. \E S \in SUBSET Tournaments : wtodo' = [wtodo EXCEPT ![w] = S]
      BY <1>4 DEF WriteHero
    <2>5. wtodo' \in [Writers -> SUBSET Tournaments]
      BY <2>4
    <2>6. wname' \in [Writers -> Names \cup {NoName}]
      BY <1>4 DEF WriteHero
    <2> QED
      BY <1>4, <2>1, <2>3, <2>5, <2>6 DEF WriteHero
  <1>5. ASSUME NEW w \in Writers, NEW t \in Tournaments, Announce(w, t) PROVE TypeOK'
    <2>1. registered' \subseteq Tournaments /\ version' \in [Tournaments -> Nat]
      BY <1>5 DEF Announce, Invalidate
    <2> QED
      BY <1>5, <2>1 DEF Announce
  <1>6. ASSUME NEW w \in Writers, NEW t \in Tournaments, AnnounceCompleted(w, t) PROVE TypeOK'
    <2>1. registered' \subseteq Tournaments /\ version' \in [Tournaments -> Nat]
      BY <1>6 DEF AnnounceCompleted, Invalidate
    <2> QED
      BY <1>6, <2>1 DEF AnnounceCompleted
  <1>7. ASSUME NEW w \in Writers, Commit(w) PROVE TypeOK'
    <2>1. Owed(w) \in SUBSET Tournaments
      BY DEF Owed
    <2>2. wkind[w] = "match" => (CHOOSE t \in wscope[w] : TRUE) \in Tournaments
      BY <1>7 DEF Commit, AwaitsCommit
    <2>3. /\ wrev' \in [Writers -> Nat]
          /\ wtodo' \in [Writers -> SUBSET Tournaments]
      BY <1>7, <2>1, <2>2, EffectType DEF Commit, AwaitsCommit
    <2> QED
      BY <1>7, <2>3, EffectType DEF Commit, AwaitsCommit
  <1>8. ASSUME NEW w \in Writers, Respond(w) PROVE TypeOK'
    BY <1>8, RetireType DEF Respond, Retire
  <1>9. ASSUME NEW w \in Writers, AnnounceCommitted(w) PROVE TypeOK'
    <2>1. pushed' \in [Tournaments -> Nat]
      BY <1>9 DEF AnnounceCommitted
    <2> QED
      BY <1>9, <2>1, RetireType DEF AnnounceCommitted, Retire
  <1>10. ASSUME NEW w \in Writers, CommitFails(w) PROVE TypeOK'
    <2>1. Owed(w) \in SUBSET Tournaments
      BY DEF Owed
    <2>2. CASE Effect(w)
      BY <1>10, <2>1, <2>2, EffectType DEF CommitFails, AwaitsCommit
    <2>3. CASE UNCHANGED database
      BY <1>10, <2>1, <2>3 DEF CommitFails, AwaitsCommit
    <2> QED
      BY <1>10, <2>2, <2>3 DEF CommitFails
  <1>11. ASSUME NEW w \in Writers, RollBack(w) PROVE TypeOK'
    BY <1>11, RetireType DEF RollBack, Retire
  <1>12. ASSUME NEW w \in Writers, CommitDropped(w) PROVE TypeOK'
    BY <1>12, RetireType, EffectType DEF CommitDropped, AwaitsCommit, Retire
  <1>13. ASSUME NEW r \in Readers, NEW t \in Tournaments, Call(r, t) PROVE TypeOK'
    BY <1>13 DEF Call, RGoto
  <1>14. ASSUME NEW r \in Readers, ReadVersion(r) PROVE TypeOK'
    BY <1>14 DEF ReadVersion, RGoto
  <1>15. ASSUME NEW r \in Readers, Hit(r) PROVE TypeOK'
    BY <1>15 DEF Hit, RGoto
  <1>16. ASSUME NEW r \in Readers, Miss(r) PROVE TypeOK'
    BY <1>16 DEF Miss, RGoto
  <1>17. ASSUME NEW r \in Readers, TakeSnapshot(r) PROVE TypeOK'
    BY <1>17 DEF TakeSnapshot, RGoto
  <1>18. ASSUME NEW r \in Readers, Publish(r) PROVE TypeOK'
    <2>1. /\ cache' \in [Tournaments -> Stamped \cup {NoEntry}]
          /\ held' \in [Readers -> Stamped \cup {NoEntry}]
      BY <1>18 DEF Publish, Stamped, FreeAddresses
    <2>2. rpc' \in [Readers -> ReaderPhase]
      BY <1>18 DEF Publish
    <2>3. \A q \in Readers : rpc'[q] \in {"check", "remove"} <=> held'[q] # NoEntry
      BY <1>18 DEF Publish, FreeAddresses, Addresses, Waiting
    <2> QED
      BY <1>18, <2>1, <2>2, <2>3 DEF Publish
  <1>19. ASSUME NEW r \in Readers, Accept(r) PROVE TypeOK'
    BY <1>19 DEF Accept, Finish, Stamped
  <1>20. ASSUME NEW r \in Readers, Reject(r) PROVE TypeOK'
    BY <1>20 DEF Reject, RGoto
  <1>21. ASSUME NEW r \in Readers, Remove(r) PROVE TypeOK'
    BY <1>21 DEF Remove, RGoto
  <1>22. ASSUME NEW r \in Readers, ReadThrough(r) PROVE TypeOK'
    BY <1>22 DEF ReadThrough, Finish
  <1>23. ASSUME NEW r \in Readers, Return(r) PROVE TypeOK'
    BY <1>23 DEF Return, Forget
  <1>24. ASSUME NEW r \in Readers, LoadFails(r) PROVE TypeOK'
    BY <1>24 DEF LoadFails, Forget
  <1>25. ASSUME NEW r \in Readers, LoaderDropped(r) PROVE TypeOK'
    <2>1. rpc' \in [Readers -> ReaderPhase]
      BY <1>25 DEF LoaderDropped
    <2>2. \A q \in Readers : rpc'[q] \in {"check", "remove"} <=> held'[q] # NoEntry
      BY <1>25 DEF LoaderDropped, Waiting
    <2> QED
      BY <1>25, <2>1, <2>2 DEF LoaderDropped
  <1>26. ASSUME NEW r \in Readers, ReaderLost(r) PROVE TypeOK'
    BY <1>26 DEF ReaderLost, Forget
  <1>27. ASSUME NEW t \in Tournaments, Evict(t) PROVE TypeOK'
    BY <1>27 DEF Evict
  <1>28. CASE UNCHANGED vars
    BY <1>28 DEF vars
  <1> QED
    BY <1>1, <1>2, <1>3, <1>4, <1>5, <1>6, <1>7, <1>8, <1>9, <1>10, <1>11, <1>12, <1>13, <1>14, <1>15, <1>16, <1>17, <1>18, <1>19, <1>20, <1>21, <1>22, <1>23, <1>24, <1>25, <1>26, <1>27, <1>28 DEF Next, Request, WriterStep, WriterFault, ReaderStep, ReaderFault

\* Every variable of the cache, its readers and its writers stays in its range:
\* in particular no reader makes more than MAX_LOAD_ATTEMPTS attempts, and it
\* holds an entry exactly while it checks or removes it.
THEOREM TypeCorrect == Spec => []TypeOK
  BY InitType, NextType, PTL DEF Spec

-----------------------------------------------------------------------------
(* Freshness.  A list stays fresh over a step unless t's version moves, and  *)
(* a moved version leaves every older stamp unmatched.                       *)
LEMMA StaysFresh ==
  ASSUME TypeOK, TypeOK', NEW t \in Tournaments, NEW v \in Nat, NEW l \in Nat,
         Fresh(t, v, l),
         db[t] <= db'[t],
         version[t] <= version'[t],
         version'[t] = version[t] => settled'[t] = settled[t]
  PROVE  Fresh(t, v, l)'
  <1>1. /\ db[t] \in Nat /\ db'[t] \in Nat
        /\ version[t] \in Nat /\ version'[t] \in Nat
        /\ settled[t] \in Nat /\ settled'[t] \in Nat
    BY DEF TypeOK
  <1>2. Fresh(t, v, l)' <=> /\ l <= db'[t]
                            /\ v <= version'[t]
                            /\ v = version'[t] => settled'[t] <= l
    BY DEF Fresh
  <1> QED
    BY <1>1, <1>2 DEF Fresh

\* Every entry has a natural stamp and a natural list.
LEMMA EntryFields ==
  ASSUME NEW e \in Stamped
  PROVE  e.version \in Nat /\ e.matches \in Nat /\ e.addr \in Addresses
  BY DEF Stamped

\* A writer's step that leaves the cache, the readers and the history alone
\* disturbs nothing but the writers' own part of the invariant.
LEMMA QuietStep ==
  ASSUME IInv, TypeOK',
         UNCHANGED <<store, readers, settled, pushed>>,
         \A t \in Tournaments : db[t] <= db'[t]
  PROVE  /\ HistoryInDatabase'
         /\ \A t \in Tournaments : CacheInv(t)'
         /\ \A r \in Readers : ReaderInv(r)'
         /\ IdentityInv'
  <1> USE DEF IInv, store, readers
  <1>1. HistoryInDatabase'
    BY DEF HistoryInDatabase, TypeOK
  <1>2. ASSUME NEW t \in Tournaments PROVE CacheInv(t)'
    BY DEF CacheInv, Fresh, TypeOK, Stamped
  <1>3. ASSUME NEW r \in Readers PROVE ReaderInv(r)'
    BY DEF ReaderInv, Fresh, TypeOK, Stamped
  <1>4. IdentityInv'
    BY DEF IdentityInv
  <1> QED
    BY <1>1, <1>2, <1>3, <1>4

\* An announcement: versions only grow, and where a completion settles a
\* registered tournament its version has just moved.
LEMMA BumpStep ==
  ASSUME IInv, TypeOK', NEW w \in Writers, NEW t \in Tournaments,
         Announce(w, t) \/ AnnounceCompleted(w, t)
  PROVE  IInv'
  <1> USE DEF IInv, readers, database
  <1>1. /\ db' = db /\ cache' = cache /\ pushed' = pushed /\ wrev' = wrev
        /\ wpc' = wpc /\ wkind' = wkind /\ wscope' = wscope
        /\ UNCHANGED readers
        /\ registered \subseteq registered'
        /\ wtodo' = [wtodo EXCEPT ![w] = @ \ {t}]
    BY DEF Announce, AnnounceCompleted, Invalidate
  <1>2. ASSUME NEW u \in Tournaments
        PROVE  /\ version[u] <= version'[u]
               /\ settled[u] <= settled'[u]
               /\ settled'[u] <= db[u]
               /\ u \in registered /\ version'[u] = version[u]
                    => settled'[u] = settled[u]
    <2>1. version[u] \in Nat /\ settled[u] \in Nat /\ db[u] \in Nat
      BY DEF TypeOK
    <2>2. settled[u] <= db[u]
      BY DEF HistoryInDatabase
    <2>3. CASE Announce(w, t)
      BY <2>1, <2>2, <2>3 DEF Announce, Invalidate, TypeOK
    <2>4. CASE AnnounceCompleted(w, t)
      BY <2>1, <2>2, <2>4 DEF AnnounceCompleted, Invalidate, TypeOK
    <2> QED
      BY <2>3, <2>4
  <1>3. HistoryInDatabase'
    BY <1>1, <1>2 DEF HistoryInDatabase, TypeOK
  <1>4. ASSUME NEW v \in Writers PROVE WriterInv(v)'
    <2> SUFFICES ASSUME wrev[v] # 0, NEW u \in wscope[v], u \notin wtodo'[v]
                 PROVE  wrev[v] <= settled'[u]
      BY <1>1 DEF WriterInv
    <2>1. u \in Tournaments /\ wrev[v] \in Nat
      BY DEF TypeOK
    <2>2. wrev[v] <= db[u] /\ (u \notin wtodo[v] => wrev[v] <= settled[u])
      BY DEF WriterInv
    <2>3. CASE u \notin wtodo[v]
      BY <1>2, <2>1, <2>2, <2>3 DEF TypeOK
    <2>4. CASE u \in wtodo[v]
      <3>1. v = w /\ u = t
        BY <1>1, <2>4 DEF TypeOK
      <3>2. AnnounceCompleted(w, t)
        BY <3>1 DEF WriterInv, Announce
      <3> QED
        BY <2>1, <2>2, <3>1, <3>2 DEF AnnounceCompleted, TypeOK
    <2> QED
      BY <2>3, <2>4
  <1>5. ASSUME NEW u \in Tournaments PROVE CacheInv(u)'
    <2> SUFFICES ASSUME cache[u] # NoEntry
                 PROVE  /\ u \in registered'
                        /\ Fresh(u, cache[u].version, cache[u].matches)'
      BY <1>1 DEF CacheInv
    <2>1. cache[u].version \in Nat /\ cache[u].matches \in Nat
      BY EntryFields DEF TypeOK
    <2>2. u \in registered /\ Fresh(u, cache[u].version, cache[u].matches)
      BY DEF CacheInv
    <2>3. db[u] <= db'[u]
      BY <1>1 DEF TypeOK
    <2>4. PICK v \in Nat, l \in Nat : v = cache[u].version /\ l = cache[u].matches
      BY <2>1
    <2>5. Fresh(u, v, l)'
      BY <1>2, <2>2, <2>3, <2>4, StaysFresh
    <2> QED
      BY <1>1, <2>2, <2>4, <2>5
  <1>6. ASSUME NEW r \in Readers PROVE ReaderInv(r)'
    <2> DEFINE u == topic[r]
    <2>1. u \in Tournaments /\ topic'[r] = u /\ db[u] <= db'[u]
      BY <1>1 DEF TypeOK
    <2>2. /\ rpc' = rpc /\ before' = before /\ list' = list /\ held' = held
          /\ since' = since
      BY <1>1
    <2>3. rpc[r] # "idle" =>
            /\ u \in registered'
            /\ since[r] <= settled'[u]
      BY <1>1, <1>2, <2>1 DEF ReaderInv, TypeOK
    <2>4. rpc[r] \in {"lookup", "load", "loaded", "wait"} => before[r] <= version'[u]
      BY <1>2, <2>1 DEF ReaderInv, TypeOK
    <2>5. rpc[r] = "loaded" => Fresh(u, before[r], list[r])'
      <3> SUFFICES ASSUME rpc[r] = "loaded" PROVE Fresh(u, before[r], list[r])'
        OBVIOUS
      <3>1. u \in registered /\ Fresh(u, before[r], list[r])
        BY DEF ReaderInv
      <3>2. PICK v \in Nat, l \in Nat : v = before[r] /\ l = list[r]
        BY DEF TypeOK
      <3>3. Fresh(u, v, l)'
        BY <1>2, <2>1, <3>1, <3>2, StaysFresh
      <3> QED
        BY <2>1, <2>2, <3>2, <3>3
    <2>6. rpc[r] \in {"check", "remove"} => Fresh(u, held[r].version, held[r].matches)'
      <3> SUFFICES ASSUME rpc[r] \in {"check", "remove"}
                   PROVE  Fresh(u, held[r].version, held[r].matches)'
        OBVIOUS
      <3>1. u \in registered /\ Fresh(u, held[r].version, held[r].matches)
        BY DEF ReaderInv
      <3>2. held[r] \in Stamped
        BY DEF TypeOK
      <3>3. PICK v \in Nat, l \in Nat : v = held[r].version /\ l = held[r].matches
        BY <3>2, EntryFields
      <3>4. Fresh(u, v, l)'
        BY <1>2, <2>1, <3>1, <3>3, StaysFresh
      <3> QED
        BY <2>1, <2>2, <3>3, <3>4
    <2>7. rpc[r] = "remove" => held[r].version < version'[u]
      <3> SUFFICES ASSUME rpc[r] = "remove" PROVE held[r].version < version'[u]
        OBVIOUS
      <3>1. held[r].version \in Nat
        BY EntryFields DEF TypeOK
      <3> QED
        BY <1>2, <2>1, <3>1 DEF ReaderInv, TypeOK
    <2>8. rpc[r] = "done" => since[r] <= list[r] /\ list[r] <= db'[u]
      BY <1>1 DEF ReaderInv
    <2> QED
      BY <2>1, <2>2, <2>3, <2>4, <2>5, <2>6, <2>7, <2>8 DEF ReaderInv
  <1>7. IdentityInv'
    BY <1>1 DEF IdentityInv
  <1> QED
    BY <1>3, <1>4, <1>5, <1>6, <1>7

\* What w leaves behind when its request ends disturbs no writer's invariant.
LEMMA RetireInv ==
  ASSUME IInv, NEW w \in Writers, Retire(w), settled' = settled,
         \A t \in Tournaments : db[t] <= db'[t], TypeOK'
  PROVE  \A v \in Writers : WriterInv(v)'
  BY DEF IInv, TypeOK, WriterInv, Retire

\* The admin requests, one by one.
LEMMA WriterSteps ==
  ASSUME IInv, TypeOK', NEW w \in Writers,
         Request(w) \/ WriterStep(w) \/ WriterFault(w)
  PROVE  IInv'
  <1> USE DEF IInv
  <1>0. SUFFICES ASSUME UNCHANGED <<store, readers, settled>>,
                        UNCHANGED pushed \/ AnnounceCommitted(w)
                 PROVE  IInv'
    <2>1. \/ \E t \in Tournaments : Announce(w, t) \/ AnnounceCompleted(w, t)
          \/ /\ UNCHANGED <<store, readers, settled>>
             /\ UNCHANGED pushed \/ AnnounceCommitted(w)
      BY DEF Request, WriterStep, WriterFault, WriteMatch, DropTournament, ReadHero,
             WriteHero, Commit, Respond, AnnounceCommitted, CommitFails, RollBack,
             CommitDropped
    <2> QED
      BY <2>1, BumpStep
  <1>1. \A t \in Tournaments : db[t] <= db'[t]
    <2>1. \/ UNCHANGED db
          \/ db' = [t \in Tournaments |-> IF t \in wscope[w] THEN db[t] + 1 ELSE db[t]]
          \/ \E t \in Tournaments : Announce(w, t) \/ AnnounceCompleted(w, t)
      BY DEF Request, WriterStep, WriterFault, WriteMatch, DropTournament, ReadHero,
             WriteHero, Commit, Respond, AnnounceCommitted, CommitFails, RollBack,
             CommitDropped, Effect, database
    <2>2. ASSUME NEW t \in Tournaments, Announce(w, t) \/ AnnounceCompleted(w, t)
          PROVE  UNCHANGED db
      BY <2>2 DEF Announce, AnnounceCompleted, database
    <2>3. \A t \in Tournaments : db[t] \in Nat
      BY DEF TypeOK
    <2>4. CASE UNCHANGED db
      BY <2>3, <2>4
    <2>5. CASE db' = [t \in Tournaments |-> IF t \in wscope[w] THEN db[t] + 1 ELSE db[t]]
      BY <2>3, <2>5
    <2> QED
      BY <2>1, <2>2, <2>4, <2>5
  <1>2. CASE UNCHANGED pushed
    <2>1. ASSUME NEW v \in Writers PROVE WriterInv(v)'
      <3>1. ASSUME NEW t \in Tournaments, WriteMatch(w, t) \/ DropTournament(w, t)
            PROVE  WriterInv(v)'
        <4>1. /\ wpc[w] = "idle" /\ db' = db /\ wrev' = wrev 
              /\ v # w => wpc'[v] = wpc[v] /\ wkind'[v] = wkind[v]
                         /\ wscope'[v] = wscope[v] /\ wtodo'[v] = wtodo[v]
          BY <3>1 DEF WriteMatch, DropTournament, Start, TypeOK, database
        <4> QED
          BY <1>0, <4>1 DEF WriterInv
      <3>2. ASSUME ReadHero(w) \/ \E n \in Names : WriteHero(w, n)
            PROVE  WriterInv(v)'
        <4>1. /\ wpc[w] \in {"idle", "read"} /\ db' = db /\ wrev' = wrev
              /\ v # w => wpc'[v] = wpc[v] /\ wkind'[v] = wkind[v]
                         /\ wscope'[v] = wscope[v] /\ wtodo'[v] = wtodo[v]
          BY <3>2 DEF ReadHero, WriteHero, Start, TypeOK, database
        <4> QED
          BY <1>0, <4>1 DEF WriterInv
      <3>3. CASE Respond(w) \/ RollBack(w) \/ CommitDropped(w) \/ AnnounceCommitted(w)
        BY <1>1, <3>3, RetireInv DEF Respond, RollBack, CommitDropped, AnnounceCommitted
      <3>4. ASSUME Commit(w) PROVE WriterInv(v)'
        <4>1. CASE v = w
          <5> SUFFICES ASSUME wrev'[w] # 0
                       PROVE  /\ wpc'[w] = "complete" /\ wkind'[w] = "match"
                              /\ \A t \in wscope'[w] : t \in wtodo'[w] /\ wrev'[w] <= db'[t]
            BY <4>1 DEF WriterInv
          <5>1. /\ wkind[w] = "match" /\ wpc[w] = "announce"
                /\ wpc'[w] = "complete" /\ wkind' = wkind /\ wscope' = wscope
                /\ wtodo'[w] = wscope[w]
                /\ wrev'[w] = db'[CHOOSE t \in wscope[w] : TRUE]
            BY <3>4 DEF Commit, AwaitsCommit, Owed, TypeOK
          <5>2. PICK t \in Tournaments : wscope[w] = {t}
            BY <5>1 DEF TypeOK
          <5>3. db'[t] \in Nat
            BY DEF TypeOK
          <5> QED
            BY <5>1, <5>2, <5>3
        <4>2. CASE v # w
          <5>1. /\ wpc'[v] = wpc[v] /\ wkind'[v] = wkind[v] /\ wscope'[v] = wscope[v]
                /\ wtodo'[v] = wtodo[v] /\ wrev'[v] = wrev[v]
            BY <3>4, <4>2 DEF Commit, TypeOK
          <5> QED
            BY <1>0, <1>1, <5>1 DEF WriterInv, TypeOK
        <4> QED
          BY <4>1, <4>2
      <3>5. ASSUME CommitFails(w) PROVE WriterInv(v)'
        <4>1. /\ wrev' = wrev /\ wpc[w] = "announce"
              /\ v # w => wpc'[v] = wpc[v] /\ wkind'[v] = wkind[v]
                         /\ wscope'[v] = wscope[v] /\ wtodo'[v] = wtodo[v]
          BY <3>5 DEF CommitFails, AwaitsCommit, TypeOK
        <4> QED
          BY <1>0, <1>1, <4>1 DEF WriterInv, TypeOK
      <3>6. CASE \E t \in Tournaments : Announce(w, t) \/ AnnounceCompleted(w, t)
        BY <3>6, BumpStep
      <3> QED
        BY <3>1, <3>2, <3>3, <3>4, <3>5, <3>6 DEF Request, WriterStep, WriterFault
    <2> QED
      BY <1>0, <1>1, <1>2, <2>1, QuietStep
  <1>3. CASE AnnounceCommitted(w)
    <2>1. /\ UNCHANGED <<store, readers, settled>> /\ db' = db /\ Completed(w)
          /\ Retire(w)
      BY <1>3 DEF AnnounceCommitted, database
    <2>2. \A v \in Writers : WriterInv(v)'
      BY <1>1, <2>1, RetireInv
    <2>3. HistoryInDatabase'
      <3> SUFFICES ASSUME NEW t \in Tournaments PROVE pushed'[t] <= settled[t]
        BY <2>1 DEF HistoryInDatabase
      <3>1. CASE t \in wscope[w] /\ wrev[w] > pushed[t]
        <4>1. pushed'[t] = wrev[w]
          BY <1>3, <3>1 DEF AnnounceCommitted
        <4> QED
          BY <1>3, <3>1, <4>1 DEF AnnounceCommitted, Completed, WriterInv
      <3>2. CASE ~(t \in wscope[w] /\ wrev[w] > pushed[t])
        BY <1>3, <3>2 DEF AnnounceCommitted, HistoryInDatabase
      <3> QED
        BY <3>1, <3>2
    <2>4. \A t \in Tournaments : CacheInv(t)'
      BY <2>1 DEF CacheInv, Fresh, store
    <2>5. \A r \in Readers : ReaderInv(r)'
      BY <2>1 DEF ReaderInv, Fresh, store, readers
    <2>6. IdentityInv'
      BY <2>1 DEF IdentityInv, store, readers
    <2> QED
      BY <2>2, <2>3, <2>4, <2>5, <2>6
  <1> QED
    BY <1>0, <1>2, <1>3

\* A reader whose own fields are as they were, while versions, lists and
\* history stand still, keeps its invariant.
LEMMA OtherReader ==
  ASSUME IInv, NEW q \in Readers,
         db' = db, version' = version, settled' = settled,
         registered \subseteq registered',
         rpc'[q] = rpc[q], topic'[q] = topic[q], before'[q] = before[q],
         held'[q] = held[q], list'[q] = list[q], since'[q] = since[q]
  PROVE  ReaderInv(q)'
  BY DEF IInv, ReaderInv, Fresh

\* A reader that has gone back to idle owes nothing.
LEMMA IdleReader ==
  ASSUME NEW q \in Readers, rpc'[q] = "idle"
  PROVE  ReaderInv(q)'
  BY DEF ReaderInv

\* No reader's step touches what the writers rely on.
LEMMA OutsideStep ==
  ASSUME IInv, NEW r \in Readers, Outside(r)
  PROVE  /\ db' = db /\ settled' = settled
         /\ HistoryInDatabase'
         /\ \A w \in Writers : WriterInv(w)'
  BY DEF IInv, HistoryInDatabase, WriterInv, Outside, database, writers

\* The steps that touch one reader and leave the cache itself alone.
LEMMA SoloSteps ==
  ASSUME IInv, TypeOK', NEW r \in Readers,
         \/ \E t \in Tournaments : Call(r, t)
         \/ ReadVersion(r) \/ Hit(r) \/ Miss(r) \/ TakeSnapshot(r)
         \/ Accept(r) \/ Reject(r) \/ ReadThrough(r)
  PROVE  IInv'
  <1> USE DEF IInv
  <1>1. /\ Outside(r) /\ version' = version /\ cache' = cache
        /\ registered \subseteq registered'
    BY DEF Call, ReadVersion, Hit, Miss, TakeSnapshot, Accept, Reject, ReadThrough,
           Finish, store
  <1>2. /\ db' = db /\ settled' = settled /\ HistoryInDatabase'
        /\ \A w \in Writers : WriterInv(w)'
    BY <1>1, OutsideStep
  <1>3. \A t \in Tournaments : CacheInv(t)'
    BY <1>1, <1>2 DEF CacheInv, Fresh
  <1>4. ASSUME NEW q \in Readers, q # r PROVE ReaderInv(q)'
    <2>1. /\ rpc'[q] = rpc[q] /\ topic'[q] = topic[q] /\ before'[q] = before[q]
          /\ held'[q] = held[q] /\ list'[q] = list[q] /\ since'[q] = since[q]
      BY <1>4 DEF Call, ReadVersion, Hit, Miss, TakeSnapshot, Accept, Reject,
                  ReadThrough, Finish, RGoto, TypeOK
    <2> QED
      BY <1>1, <1>2, <2>1, OtherReader
  <1>5. topic[r] \in Tournaments
    BY DEF TypeOK
  <1>6. ReaderInv(r)'
    <2>1. ASSUME NEW t \in Tournaments, Call(r, t) PROVE ReaderInv(r)'
      <3>1. /\ rpc'[r] = "version" /\ topic'[r] = t /\ since'[r] = settled[t]
            /\ t \in registered' /\ settled[t] \in Nat
        BY <2>1 DEF Call, RGoto, TypeOK
      <3> QED
        BY <1>2, <3>1 DEF ReaderInv
    <2>2. ASSUME ReadVersion(r) PROVE ReaderInv(r)'
      <3>1. /\ rpc[r] = "version" /\ rpc'[r] = "lookup" /\ topic' = topic
            /\ before'[r] = version[topic[r]] /\ since' = since
            /\ version[topic[r]] \in Nat
        BY <2>2 DEF ReadVersion, RGoto, TypeOK
      <3> QED
        BY <1>1, <1>2, <3>1 DEF ReaderInv
    <2>3. ASSUME Hit(r) PROVE ReaderInv(r)'
      <3>1. /\ rpc[r] = "lookup" /\ rpc'[r] = "check" /\ topic' = topic
            /\ held'[r] = cache[topic[r]] /\ since' = since
            /\ cache[topic[r]] # NoEntry
        BY <2>3 DEF Hit, RGoto, TypeOK
      <3>2. Fresh(topic[r], cache[topic[r]].version, cache[topic[r]].matches)
        BY <1>5, <3>1 DEF CacheInv
      <3> QED
        BY <1>1, <1>2, <3>1, <3>2 DEF ReaderInv, Fresh
    <2>4. ASSUME Miss(r) PROVE ReaderInv(r)'
      <3>1. /\ rpc[r] = "lookup" /\ rpc'[r] \in {"wait", "load"} /\ topic' = topic
            /\ before' = before /\ since' = since
        BY <2>4 DEF Miss, RGoto, TypeOK
      <3> QED
        BY <1>1, <1>2, <3>1 DEF ReaderInv
    <2>5. ASSUME TakeSnapshot(r) PROVE ReaderInv(r)'
      <3>1. /\ rpc[r] = "load" /\ rpc'[r] = "loaded" /\ topic' = topic
            /\ before' = before /\ since' = since /\ list'[r] = db[topic[r]]
            /\ db[topic[r]] \in Nat
        BY <2>5 DEF TakeSnapshot, RGoto, TypeOK
      <3>2. settled[topic[r]] <= db[topic[r]]
        BY <1>5 DEF HistoryInDatabase
      <3> QED
        BY <1>1, <1>2, <3>1, <3>2 DEF ReaderInv, Fresh
    <2>6. ASSUME Accept(r) PROVE ReaderInv(r)'
      <3>1. /\ rpc[r] = "check" /\ rpc'[r] = "done" /\ topic' = topic
            /\ held[r].version = version[topic[r]]
            /\ since' = since /\ list'[r] = held[r].matches
        BY <2>6 DEF Accept, Finish, TypeOK
      <3>2. held[r].matches \in Nat /\ since[r] \in Nat /\ settled[topic[r]] \in Nat
        BY <3>1, EntryFields DEF TypeOK
      <3>3. /\ Fresh(topic[r], held[r].version, held[r].matches)
            /\ topic[r] \in registered /\ since[r] <= settled[topic[r]]
        BY <3>1 DEF ReaderInv
      <3> QED
        BY <1>1, <1>2, <3>1, <3>2, <3>3 DEF ReaderInv, Fresh
    <2>7. ASSUME Reject(r) PROVE ReaderInv(r)'
      <3>1. /\ rpc[r] = "check" /\ rpc'[r] = "remove" /\ topic' = topic
            /\ held[r].version # version[topic[r]] /\ held' = held /\ since' = since
        BY <2>7 DEF Reject, RGoto, TypeOK
      <3>2. held[r].version \in Nat /\ version[topic[r]] \in Nat
        BY <3>1, EntryFields DEF TypeOK
      <3>3. /\ Fresh(topic[r], held[r].version, held[r].matches)
            /\ topic[r] \in registered /\ since[r] <= settled[topic[r]]
        BY <3>1 DEF ReaderInv
      <3> QED
        BY <1>1, <1>2, <3>1, <3>2, <3>3 DEF ReaderInv, Fresh
    <2>8. ASSUME ReadThrough(r) PROVE ReaderInv(r)'
      <3>1. /\ rpc[r] = "through" /\ rpc'[r] = "done" /\ topic' = topic
            /\ since' = since /\ list'[r] = db[topic[r]]
        BY <2>8 DEF ReadThrough, Finish, TypeOK
      <3>2. /\ since[r] \in Nat /\ settled[topic[r]] \in Nat /\ db[topic[r]] \in Nat
            /\ since[r] <= settled[topic[r]] /\ settled[topic[r]] <= db[topic[r]]
            /\ topic[r] \in registered
        BY <1>5, <3>1 DEF ReaderInv, HistoryInDatabase, TypeOK
      <3> QED
        BY <1>1, <1>2, <3>1, <3>2 DEF ReaderInv
    <2> QED
      BY <2>1, <2>2, <2>3, <2>4, <2>5, <2>6, <2>7, <2>8
  <1>7. IdentityInv'
    <2>1. CASE Hit(r)
      BY <1>1, <1>5, <2>1 DEF IdentityInv, Hit, TypeOK
    <2>2. CASE ~Hit(r)
      <3>1. \A q \in Readers : held'[q] # NoEntry => held'[q] = held[q] /\ topic'[q] = topic[q]
        BY <2>2 DEF Call, ReadVersion, Miss, TakeSnapshot, Accept, Reject, ReadThrough,
                    Finish, RGoto, TypeOK
      <3> QED
        BY <1>1, <3>1 DEF IdentityInv
    <2> QED
      BY <2>1, <2>2
  <1> QED
    BY <1>2, <1>3, <1>4, <1>6, <1>7

\* Reads that end, in success or error, alone or with those who waited.
LEMMA ForgetSteps ==
  ASSUME IInv, TypeOK', NEW r \in Readers,
         Return(r) \/ LoadFails(r) \/ ReaderLost(r) \/ LoaderDropped(r)
  PROVE  IInv'
  <1> USE DEF IInv
  <1>1. /\ Outside(r) /\ UNCHANGED store /\ topic' = topic
        /\ version' = version /\ cache' = cache /\ registered' = registered
    BY DEF Return, LoadFails, ReaderLost, LoaderDropped, Forget, store
  <1>2. /\ db' = db /\ settled' = settled /\ HistoryInDatabase'
        /\ \A w \in Writers : WriterInv(w)'
    BY <1>1, OutsideStep
  <1>3. \A t \in Tournaments : CacheInv(t)'
    BY <1>1, <1>2 DEF CacheInv, Fresh
  <1>4. ASSUME NEW q \in Readers
        PROVE  \/ rpc'[q] = "idle" /\ held'[q] = NoEntry
               \/ /\ rpc'[q] = rpc[q] /\ before'[q] = before[q] /\ held'[q] = held[q]
                  /\ list'[q] = list[q] /\ since'[q] = since[q]
               \/ /\ rpc[q] = "wait" /\ rpc'[q] = "lookup" /\ before'[q] = before[q]
                  /\ held'[q] = held[q] /\ since'[q] = since[q]
    <2>1. CASE \E R \in SUBSET Readers : Forget(R)
      BY <2>1 DEF Forget
    <2>2. CASE LoaderDropped(r)
      BY <2>2 DEF LoaderDropped, Waiting, TypeOK
    <2>3. Return(r) \/ ReaderLost(r) => Forget({r})
      BY DEF Return, ReaderLost
    <2>4. LoadFails(r) => Forget({r} \cup Waiting(topic[r]))
      BY DEF LoadFails
    <2>5. {r} \in SUBSET Readers /\ {r} \cup Waiting(topic[r]) \in SUBSET Readers
      BY DEF Waiting
    <2> QED
      BY <2>1, <2>2, <2>3, <2>4, <2>5
  <1>5. ASSUME NEW q \in Readers PROVE ReaderInv(q)'
    <2>1. CASE rpc'[q] = "idle"
      BY <2>1, IdleReader
    <2>2. CASE /\ rpc'[q] = rpc[q] /\ before'[q] = before[q] /\ held'[q] = held[q]
               /\ list'[q] = list[q] /\ since'[q] = since[q]
      BY <1>1, <1>2, <2>2, OtherReader
    <2>3. CASE /\ rpc[q] = "wait" /\ rpc'[q] = "lookup" /\ before'[q] = before[q]
               /\ held'[q] = held[q] /\ since'[q] = since[q]
      BY <1>1, <1>2, <2>3 DEF ReaderInv
    <2> QED
      BY <1>4, <2>1, <2>2, <2>3
  <1>6. IdentityInv'
    BY <1>1, <1>4 DEF IdentityInv
  <1> QED
    BY <1>2, <1>3, <1>5, <1>6

\* An entry leaves the cache: evicted, or removed by a reader that gave it up.
LEMMA LeavingEntry ==
  ASSUME IInv, NEW t \in Tournaments, db' = db, settled' = settled,
         version' = version, registered' = registered,
         cache' = [cache EXCEPT ![t] = NoEntry] \/ cache' = cache
  PROVE  \A u \in Tournaments :
           /\ CacheInv(u)'
           /\ cache'[u] # NoEntry => cache'[u] = cache[u]
  BY DEF IInv, CacheInv, Fresh, TypeOK

\* moka forgets an entry.
LEMMA EvictStep ==
  ASSUME IInv, TypeOK', NEW t \in Tournaments, Evict(t)
  PROVE  IInv'
  <1> USE DEF IInv, Evict, database, writers, readers
  <1>1. HistoryInDatabase' /\ \A w \in Writers : WriterInv(w)'
    BY DEF HistoryInDatabase, WriterInv
  <1>2. \A r \in Readers : ReaderInv(r)'
    BY OtherReader
  <1>3. \A u \in Tournaments : CacheInv(u)' /\ (cache'[u] # NoEntry => cache'[u] = cache[u])
    BY LeavingEntry
  <1>4. IdentityInv'
    BY <1>3 DEF IdentityInv
  <1> QED
    BY <1>1, <1>2, <1>3, <1>4

\* A reader removes the entry it gave up, or finds another in its place.
LEMMA RemoveStep ==
  ASSUME IInv, TypeOK', NEW r \in Readers, Remove(r)
  PROVE  IInv'
  <1> USE DEF IInv
  <1>1. /\ Outside(r) /\ version' = version /\ registered' = registered
        /\ topic' = topic /\ before' = before /\ list' = list /\ since' = since
        /\ rpc[r] = "remove" /\ rpc'[r] \in {"version", "through"}
        /\ \A q \in Readers : q # r => rpc'[q] = rpc[q] /\ held'[q] = held[q]
        /\ held'[r] = NoEntry
        /\ topic[r] \in Tournaments
    BY DEF Remove, RGoto, TypeOK
  <1>2. cache' = [cache EXCEPT ![topic[r]] = NoEntry] \/ cache' = cache
    BY <1>1 DEF Remove, TypeOK
  <1>3. /\ db' = db /\ settled' = settled /\ HistoryInDatabase'
        /\ \A w \in Writers : WriterInv(w)'
    BY <1>1, OutsideStep
  <1>4. \A u \in Tournaments : CacheInv(u)' /\ (cache'[u] # NoEntry => cache'[u] = cache[u])
    BY <1>1, <1>2, <1>3, LeavingEntry
  <1>5. ASSUME NEW q \in Readers PROVE ReaderInv(q)'
    <2>1. CASE q = r
      BY <1>1, <1>3, <2>1 DEF ReaderInv
    <2>2. CASE q # r
      BY <1>1, <1>3, <2>2, OtherReader
    <2> QED
      BY <2>1, <2>2
  <1>6. IdentityInv'
    BY <1>1, <1>4 DEF IdentityInv
  <1> QED
    BY <1>3, <1>4, <1>5, <1>6

\* The new entry is as fresh as the list the loader took, and its address is
\* no one else's.
LEMMA PublishStep ==
  ASSUME IInv, TypeOK', NEW r \in Readers, Publish(r)
  PROVE  IInv'
  <1> USE DEF IInv
  <1> DEFINE t == topic[r]
             given == {r} \cup Waiting(t)
  <1>1. PICK a \in FreeAddresses :
          LET entry == [addr |-> a, version |-> before[r], matches |-> list[r]]
          IN /\ cache' = [cache EXCEPT ![t] = entry]
             /\ held' = [q \in Readers |-> IF q \in given THEN entry ELSE held[q]]
    BY DEF Publish
  <1> DEFINE entry == [addr |-> a, version |-> before[r], matches |-> list[r]]
  <1>2. /\ Outside(r) /\ version' = version /\ registered' = registered
        /\ topic' = topic /\ before' = before /\ since' = since
        /\ rpc[r] = "loaded"
        /\ rpc' = [q \in Readers |-> IF q \in given THEN "check" ELSE rpc[q]]
        /\ \A q \in Readers : q # r => list'[q] = list[q]
        /\ t \in Tournaments
    BY DEF Publish, TypeOK
  <1>3. /\ db' = db /\ settled' = settled /\ HistoryInDatabase'
        /\ \A w \in Writers : WriterInv(w)'
    BY <1>2, OutsideStep
  <1>4. Fresh(t, before[r], list[r]) /\ t \in registered
    BY <1>2 DEF ReaderInv
  <1>5. /\ entry.matches <= db'[t]
        /\ entry.version <= version'[t]
        /\ entry.version = version'[t] => settled'[t] <= entry.matches
    BY <1>2, <1>3, <1>4 DEF Fresh
  <1>6. entry # NoEntry /\ entry.addr = a
    BY <1>1, ConstantsAssumption DEF FreeAddresses, Addresses, TypeOK
  <1>7. ASSUME NEW u \in Tournaments PROVE CacheInv(u)'
    <2>1. CASE u = t
      <3>1. cache'[u] = entry
        BY <1>1, <1>2, <2>1 DEF TypeOK
      <3> HIDE DEF entry
      <3> QED
        BY <1>2, <1>4, <1>5, <2>1, <3>1 DEF CacheInv, Fresh
    <2>2. CASE u # t
      <3>1. cache'[u] = cache[u]
        BY <1>1, <2>2 DEF TypeOK
      <3> QED
        BY <1>2, <1>3, <3>1 DEF CacheInv, Fresh
    <2> QED
      BY <2>1, <2>2
  <1>8. ASSUME NEW q \in Readers PROVE ReaderInv(q)'
    <2>1. CASE q \in given
      <3>1. topic[q] = t /\ rpc[q] # "idle" /\ rpc'[q] = "check" /\ held'[q] = entry
        BY <1>1, <1>2, <2>1 DEF Waiting
      <3>2. topic[q] \in registered /\ since[q] <= settled[topic[q]]
        BY <3>1 DEF ReaderInv
      <3> HIDE DEF entry
      <3> QED
        BY <1>2, <1>3, <1>5, <3>1, <3>2 DEF ReaderInv, Fresh
    <2>2. CASE q \notin given
      BY <1>1, <1>2, <1>3, <2>2, OtherReader
    <2> QED
      BY <2>1, <2>2
  <1>9. IdentityInv'
    <2>1. \A u \in Tournaments : cache[u] # NoEntry => cache[u].addr # a
      BY DEF FreeAddresses, LiveAddresses
    <2>2. \A q \in Readers : held[q] # NoEntry => held[q].addr # a
      BY DEF FreeAddresses, LiveAddresses
    <2>3. \A u \in Tournaments : cache'[u] = IF u = t THEN entry ELSE cache[u]
      BY <1>1, <1>2 DEF TypeOK
    <2>4. \A q \in Readers : /\ held'[q] = IF q \in given THEN entry ELSE held[q]
                             /\ q \in given => topic'[q] = t
      BY <1>1, <1>2 DEF Waiting
    <2> HIDE DEF entry, given
    <2>5. \A u, v \in Tournaments :
            /\ cache'[u] # NoEntry /\ cache'[v] # NoEntry
            /\ cache'[u].addr = cache'[v].addr
            => u = v
      BY <1>6, <2>1, <2>3 DEF IdentityInv
    <2>6. \A u \in Tournaments, q \in Readers :
            /\ cache'[u] # NoEntry /\ held'[q] # NoEntry
            /\ cache'[u].addr = held'[q].addr
            => cache'[u] = held'[q] /\ u = topic'[q]
      BY <1>2, <1>6, <2>1, <2>2, <2>3, <2>4 DEF IdentityInv
    <2> QED
      BY <2>5, <2>6 DEF IdentityInv
  <1> QED
    BY <1>3, <1>7, <1>8, <1>9

-----------------------------------------------------------------------------
(* The inductive invariant, and what follows from it.                        *)

\* With nothing cached, no reader inside and no request, all parts are empty.
LEMMA InitInv == Init => IInv
  <1> SUFFICES ASSUME Init PROVE IInv
    OBVIOUS
  <1>1. TypeOK
    BY InitType
  <1>2. HistoryInDatabase /\ \A w \in Writers : WriterInv(w)
    BY DEF Init, HistoryInDatabase, WriterInv
  <1>3. \A t \in Tournaments : CacheInv(t)
    BY DEF Init, CacheInv
  <1>4. \A r \in Readers : ReaderInv(r)
    BY DEF Init, ReaderInv
  <1>5. IdentityInv
    BY DEF Init, IdentityInv
  <1> QED
    BY <1>1, <1>2, <1>3, <1>4, <1>5 DEF IInv

\* A step in which nothing happens.
LEMMA StutterStep ==
  ASSUME IInv, UNCHANGED vars
  PROVE  IInv'
  <1> USE DEF IInv, vars, database, store, writers, readers
  <1>1. TypeOK'
    BY NextType
  <1>2. HistoryInDatabase' /\ (\A w \in Writers : WriterInv(w)')
    BY DEF HistoryInDatabase, WriterInv
  <1>3. \A t \in Tournaments : CacheInv(t)'
    BY DEF CacheInv, Fresh
  <1>4. \A r \in Readers : ReaderInv(r)'
    BY OtherReader
  <1>5. IdentityInv'
    BY DEF IdentityInv
  <1> QED
    BY <1>1, <1>2, <1>3, <1>4, <1>5

\* Every step of the specification keeps the invariant.
LEMMA NextInv == IInv /\ [Next]_vars => IInv'
  <1> SUFFICES ASSUME IInv, [Next]_vars PROVE IInv'
    OBVIOUS
  <1>1. TypeOK'
    BY NextType DEF IInv
  <1>2. ASSUME NEW w \in Writers, Request(w) \/ WriterStep(w) \/ WriterFault(w)
        PROVE  IInv'
    BY <1>1, <1>2, WriterSteps
  <1>3. ASSUME NEW r \in Readers, NEW t \in Tournaments, Call(r, t)
        PROVE  IInv'
    BY <1>1, <1>3, SoloSteps
  <1>4. ASSUME NEW r \in Readers, ReaderStep(r) \/ ReaderFault(r)
        PROVE  IInv'
    BY <1>1, <1>4, SoloSteps, ForgetSteps, RemoveStep, PublishStep
       DEF ReaderStep, ReaderFault
  <1>5. ASSUME NEW t \in Tournaments, Evict(t) PROVE IInv'
    BY <1>1, <1>5, EvictStep
  <1>6. CASE UNCHANGED vars
    BY <1>6, StutterStep
  <1> QED
    BY <1>2, <1>3, <1>4, <1>5, <1>6 DEF Next

\* The strengthening the runs check is invariant for every set of tournaments,
\* readers and writers, any number of load attempts and of writes, and whether
\* or not handlers may be dropped.
THEOREM InvariantHolds == Spec => []IInv
  BY InitInv, NextInv, PTL DEF Spec

\* A read started after a write's completion was announced returns a list that
\* contains the write: get_or_load's hit, shared load, retry and read-through
\* all keep that promise.
THEOREM ReadsAreCurrent == Spec => []ReadsSeeSettledWrites
  <1>1. IInv => ReadsSeeSettledWrites
    BY DEF IInv, ReaderInv, ReadsSeeSettledWrites, TypeOK
  <1> QED
    BY <1>1, InvariantHolds, PTL

\* A browser told to refetch by announce_committed is never told of a write
\* the cache could still hide from it.
THEOREM PushIsLate == Spec => []PushFollowsInvalidation
  <1>1. IInv => PushFollowsInvalidation
    BY DEF IInv, HistoryInDatabase, PushFollowsInvalidation
  <1> QED
    BY <1>1, InvariantHolds, PTL

\* The only step that takes a reader out of `remove' and on to another attempt
\* is its own Remove, and that is the only step that can empty a slot then.
LEMMA RemovalIsOwn ==
  ASSUME TypeOK, Next, NEW r \in Readers,
         rpc[r] = "remove", rpc'[r] \in {"version", "through"}
  PROVE  Remove(r)
  <1> USE DEF TypeOK
  <1>1. ASSUME NEW w \in Writers, Request(w) \/ WriterStep(w) \/ WriterFault(w)
        PROVE  rpc' = rpc
    BY <1>1 DEF Request, WriterStep, WriterFault, WriteMatch, DropTournament, ReadHero,
                WriteHero, Announce, AnnounceCompleted, Commit, Respond,
                AnnounceCommitted, CommitFails, RollBack, CommitDropped, readers
  <1>2. ASSUME NEW q \in Readers, NEW t \in Tournaments, Call(q, t) PROVE rpc'[r] = rpc[r]
    BY <1>2 DEF Call, RGoto
  <1>3. ASSUME NEW t \in Tournaments, Evict(t) PROVE rpc' = rpc
    BY <1>3 DEF Evict, readers
  <1>4. ASSUME NEW q \in Readers,
               \/ ReadVersion(q) \/ Hit(q) \/ Miss(q) \/ TakeSnapshot(q)
               \/ Accept(q) \/ Reject(q) \/ ReadThrough(q)
        PROVE  q # r /\ rpc'[r] = rpc[r]
    BY <1>4 DEF ReadVersion, Hit, Miss, TakeSnapshot, Accept, Reject, ReadThrough,
                Finish, RGoto
  <1>5. ASSUME NEW q \in Readers, Publish(q) \/ LoaderDropped(q)
        PROVE  rpc'[r] \notin {"version", "through"}
    BY <1>5 DEF Publish, LoaderDropped, Waiting
  <1>6. ASSUME NEW R \in SUBSET Readers, Forget(R)
        PROVE  rpc'[r] \notin {"version", "through"}
    BY <1>6 DEF Forget
  <1>7. ASSUME NEW q \in Readers, Return(q) \/ LoadFails(q) \/ ReaderLost(q)
        PROVE  rpc'[r] \notin {"version", "through"}
    <2>1. {q} \in SUBSET Readers /\ {q} \cup Waiting(topic[q]) \in SUBSET Readers
      BY DEF Waiting
    <2> QED
      BY <1>6, <1>7, <2>1 DEF Return, LoadFails, ReaderLost
  <1>8. ASSUME NEW q \in Readers, q # r, Remove(q) PROVE rpc'[r] = rpc[r]
    BY <1>8 DEF Remove, RGoto
  <1> QED
    BY <1>1, <1>2, <1>3, <1>4, <1>5, <1>7, <1>8 DEF Next, ReaderStep, ReaderFault

\* and_compute_with compares identities, and the entry a reader gives up is one
\* whose stamp lies behind its tournament's version: the victim is never an
\* entry the next reader could have been served.
THEOREM RemovalsAreSafe == Spec => NoValidEntryRemoved
  <1> DEFINE Safe == \A r \in Readers, t \in Tournaments :
                       /\ rpc[r] = "remove" /\ rpc'[r] \in {"version", "through"}
                       /\ cache[t] # NoEntry /\ cache'[t] = NoEntry
                       => cache[t].version # version[t]
  <1>1. ASSUME IInv, [Next]_vars PROVE [Safe]_vars
    <2> SUFFICES ASSUME Next, NEW r \in Readers, NEW t \in Tournaments,
                        rpc[r] = "remove", rpc'[r] \in {"version", "through"},
                        cache[t] # NoEntry, cache'[t] = NoEntry
                 PROVE  cache[t].version # version[t]
      BY <1>1
    <2>1. Remove(r)
      BY <1>1, RemovalIsOwn DEF IInv
    <2>2. held[r] # NoEntry /\ held[r].version < version[topic[r]]
      BY <1>1 DEF IInv, TypeOK, ReaderInv
    <2>3. t = topic[r] /\ cache[t].addr = held[r].addr
      BY <1>1, <2>1 DEF Remove, IInv, TypeOK
    <2>4. cache[t] = held[r]
      BY <1>1, <2>2, <2>3 DEF IInv, IdentityInv
    <2>5. version[t] \in Nat /\ held[r].version \in Nat
      BY <1>1, <2>2, EntryFields DEF IInv, TypeOK
    <2> QED
      BY <2>2, <2>3, <2>4, <2>5
  <1>2. IInv /\ [Next]_vars => [Safe]_vars
    BY <1>1
  <1> QED
    BY <1>2, InvariantHolds, PTL DEF Spec, NoValidEntryRemoved

-----------------------------------------------------------------------------
(* An accepted entry is the database's list, as long as no handler is        *)
(* dropped and one request at a time edits the catalogue.                    *)

\* The editor's read is still the committed name when it writes: nobody else
\* may rename, and a match or a tournament deleted leaves the name alone.
LEMMA EditorStep ==
  ASSUME IInv, TypeOK', OneEditor, \A w \in Writers : EditorInv(w),
         NEW w \in Writers, Request(w) \/ WriterStep(w) \/ WriterFault(w)
  PROVE  \A v \in Writers : EditorInv(v)'
  <1> USE DEF IInv
  <1>1. \/ name' = name
        \/ /\ wkind[w] = "rename" /\ wkind[w] \in May[w] /\ wpc[w] = "announce"
           /\ wpc'[w] \notin {"read", "announce"}
    BY DEF Request, WriterStep, WriterFault, WriteMatch, DropTournament, ReadHero,
           WriteHero, Announce, AnnounceCompleted, Commit, Respond, AnnounceCommitted,
           CommitFails, RollBack, CommitDropped, Effect, AwaitsCommit, EditorInv, TypeOK,
           Retire, database
  <1>2. ASSUME NEW v \in Writers, v # w PROVE EditorInv(v)'
    <2>1. /\ wpc'[v] = wpc[v] /\ wkind'[v] = wkind[v] /\ wscope'[v] = wscope[v]
          /\ wread'[v] = wread[v] /\ wname'[v] = wname[v]
      BY <1>2 DEF Request, WriterStep, WriterFault, WriteMatch, DropTournament, ReadHero,
           WriteHero, Announce, AnnounceCompleted, Commit, Respond, AnnounceCommitted,
           CommitFails, RollBack, CommitDropped, Start, Retire, TypeOK
    <2>2. wpc[v] = "read" => wkind[v] = "rename"
      BY DEF TypeOK
    <2>3. name' = name \/ wkind[v] # "rename" \/ wpc[v] = "idle"
      BY <1>1, <1>2 DEF OneEditor, EditorInv
    <2> QED
      BY <2>1, <2>2, <2>3 DEF EditorInv
  <1>3. EditorInv(w)'
    <2>1. ASSUME NEW t \in Tournaments, WriteMatch(w, t) \/ DropTournament(w, t)
          PROVE  EditorInv(w)'
      BY <2>1 DEF WriteMatch, DropTournament, Start, EditorInv, TypeOK
    <2>2. ASSUME ReadHero(w) PROVE EditorInv(w)'
      BY <2>2 DEF ReadHero, Start, EditorInv, TypeOK, database
    <2>3. ASSUME NEW n \in Names, WriteHero(w, n) PROVE EditorInv(w)'
      <3>1. /\ wpc[w] = "read" /\ wpc'[w] = "announce" /\ wkind' = wkind /\ wread' = wread
            /\ name' = name /\ wname'[w] = n
            /\ wscope'[w] = IF n # name THEN Tournaments ELSE {}
        BY <2>3 DEF WriteHero, TypeOK, database
      <3> QED
        BY <3>1 DEF EditorInv
    <2>4. ASSUME NEW t \in Tournaments, Announce(w, t) \/ AnnounceCompleted(w, t)
          PROVE  EditorInv(w)'
      BY <2>4 DEF Announce, AnnounceCompleted, EditorInv, database
    <2>5. ASSUME Commit(w) \/ CommitFails(w) PROVE EditorInv(w)'
      BY <2>5 DEF Commit, CommitFails, AwaitsCommit, EditorInv, TypeOK
    <2>6. ASSUME Respond(w) \/ AnnounceCommitted(w) \/ RollBack(w) \/ CommitDropped(w)
          PROVE  EditorInv(w)'
      BY <2>6 DEF Respond, AnnounceCommitted, RollBack, CommitDropped, Retire, EditorInv,
                  TypeOK
    <2> QED
      BY <2>1, <2>2, <2>3, <2>4, <2>5, <2>6 DEF Request, WriterStep, WriterFault
  <1> QED
    BY <1>2, <1>3

\* A commit owes its announcement to every list it changed.
LEMMA ScopeIsOwed ==
  ASSUME TypeOK, NEW w \in Writers, EditorInv(w), wpc[w] = "announce"
  PROVE  wscope[w] \subseteq Owed(w)
  BY DEF TypeOK, EditorInv, Owed, Renamed

\* What a commit changed is owed until its completion is announced: settled and
\* committed lists agree on every tournament nobody owes.
LEMMA OwedStep ==
  ASSUME IInv, TypeOK', ~Cancellable, \A w \in Writers : EditorInv(w), OwedInv,
         NEW w \in Writers, Request(w) \/ WriterStep(w) \/ WriterFault(w)
  PROVE  OwedInv'
  <1> USE DEF IInv
  <1> SUFFICES ASSUME NEW t \in Tournaments, exists'[t], ~Unsettled(t)'
               PROVE  settled'[t] = db'[t]
    BY DEF OwedInv
  <1>1. ASSUME NEW v \in Writers, v # w PROVE wpc'[v] = wpc[v] /\ wtodo'[v] = wtodo[v]
    BY <1>1 DEF Request, WriterStep, WriterFault, WriteMatch, DropTournament, ReadHero,
           WriteHero, Announce, AnnounceCompleted, Commit, Respond, AnnounceCommitted,
           CommitFails, RollBack, CommitDropped, Start, Retire, TypeOK
  <1>2. ASSUME wpc[w] = "complete" /\ t \in wtodo[w] => wpc'[w] = "complete" /\ t \in wtodo'[w]
        PROVE  ~Unsettled(t)
    BY <1>1, <1>2 DEF Unsettled
  <1>3. CASE AnnounceCompleted(w, t)
    BY <1>3 DEF AnnounceCompleted, TypeOK, database
  <1>4. ASSUME NEW u \in Tournaments, Announce(w, u) \/ (u # t /\ AnnounceCompleted(w, u))
        PROVE  settled'[t] = db'[t]
    <2>1. /\ db' = db /\ exists' = exists /\ settled'[t] = settled[t] /\ wpc' = wpc
          /\ t \in wtodo[w] => t \in wtodo'[w] \/ wpc[w] = "announce"
      BY <1>4 DEF Announce, AnnounceCompleted, TypeOK, database
    <2> QED
      BY <1>2, <2>1 DEF OwedInv
  <1>5. CASE Commit(w) \/ CommitFails(w)
    <2>1. /\ wpc[w] = "announce" /\ wpc'[w] = "complete" /\ settled' = settled
          /\ wtodo'[w] = Owed(w) \/ (wkind[w] = "drop" /\ wtodo'[w] = {})
          /\ Effect(w) \/ UNCHANGED database
          /\ Commit(w) => wtodo'[w] = Owed(w)
      BY <1>5 DEF Commit, CommitFails, AwaitsCommit, TypeOK
    <2>2. settled[t] = db[t] \/ ~exists[t]
      BY <1>2, <2>1 DEF OwedInv
    <2>3. exists[t]
      BY <2>1 DEF Effect, database
    <2>4. t \notin wtodo'[w]
      BY <2>1 DEF Unsettled
    <2>5. CASE UNCHANGED database
      BY <2>1, <2>2, <2>3, <2>5 DEF database
    <2>6. CASE Effect(w)
      <3>1. t \notin wscope[w]
        <4>1. CASE wtodo'[w] = Owed(w)
          BY <2>1, <2>4, <4>1, ScopeIsOwed
        <4>2. CASE wkind[w] = "drop"
          BY <2>6, <4>2 DEF Effect
        <4> QED
          BY <2>1, <4>1, <4>2
      <3> QED
        BY <2>1, <2>2, <2>3, <2>6, <3>1 DEF Effect
    <2> QED
      BY <2>1, <2>5, <2>6
  <1>6. ASSUME \/ \E u \in Tournaments : WriteMatch(w, u) \/ DropTournament(w, u)
               \/ ReadHero(w) \/ \E n \in Names : WriteHero(w, n)
               \/ Respond(w) \/ AnnounceCommitted(w) \/ RollBack(w)
        PROVE  settled'[t] = db'[t]
    <2>1. /\ db' = db /\ exists' = exists /\ settled' = settled
          /\ ~(wpc[w] = "complete" /\ t \in wtodo[w])
      BY <1>6 DEF WriteMatch, DropTournament, ReadHero, WriteHero, Respond, RollBack,
                  AnnounceCommitted, Start, Completed, AwaitsCommit, database
    <2> QED
      BY <1>2, <2>1 DEF OwedInv
  <1> QED
    BY <1>3, <1>4, <1>5, <1>6 DEF Request, WriterStep, WriterFault, CommitDropped

\* Readers and evictions touch neither a name nor what is owed.
LEMMA CurrencyElsewhere ==
  ASSUME CurrencyInv, UNCHANGED <<database, writers, settled>>
  PROVE  CurrencyInv'
  BY DEF CurrencyInv, EditorInv, OwedInv, Unsettled, database, writers

\* What a list and the settled state differ by is owed: with one catalogue editor
\* and no dropped handlers there is always a writer on its way to announce it, so no
\* change is forgotten.  (admin_service.rs: announce, COMMIT, announce)
THEOREM CurrencyHolds ==
  ASSUME OneEditor, ~Cancellable
  PROVE  Spec => []CurrencyInv
  <1>1. Init => CurrencyInv
    BY DEF Init, CurrencyInv, EditorInv, OwedInv
  <1>2. IInv /\ CurrencyInv /\ [Next]_vars => CurrencyInv'
    <2> SUFFICES ASSUME IInv, CurrencyInv, [Next]_vars PROVE CurrencyInv'
      OBVIOUS
    <2>1. TypeOK'
      BY NextType DEF IInv
    <2>2. ASSUME NEW w \in Writers, Request(w) \/ WriterStep(w) \/ WriterFault(w)
          PROVE  CurrencyInv'
      BY <2>1, <2>2, EditorStep, OwedStep DEF CurrencyInv
    <2>3. ASSUME NEW r \in Readers, \/ \E t \in Tournaments : Call(r, t)
                                    \/ ReaderStep(r) \/ ReaderFault(r)
          PROVE  CurrencyInv'
      <3>1. Outside(r)
        BY <2>3 DEF Call, ReaderStep, ReaderFault, ReadVersion, Hit, Miss, TakeSnapshot,
                    Publish, Accept, Reject, Remove, ReadThrough, Return, LoadFails,
                    LoaderDropped, ReaderLost, Finish
      <3> QED
        BY <3>1, CurrencyElsewhere DEF Outside
    <2>4. ASSUME NEW t \in Tournaments, Evict(t) PROVE CurrencyInv'
      BY <2>4, CurrencyElsewhere DEF Evict
    <2>5. CASE UNCHANGED vars
      BY <2>5, CurrencyElsewhere DEF vars
    <2> QED
      BY <2>2, <2>3, <2>4, <2>5 DEF Next
  <1> QED
    BY <1>1, <1>2, InvariantHolds, PTL DEF Spec

\* If the server runs every handler to its end and one admin request at a time
\* edits the catalogue, the invalidation signal is complete: an entry a reader
\* would accept is the list the database holds, except between a commit and the
\* announcement of its completion.  Both conditions are needed: see the end of
\* the README's section on the runs.
THEOREM SignalIsComplete ==
  ASSUME OneEditor, ~Cancellable
  PROVE  Spec => []AcceptedEntryIsCurrent
  <1>1. IInv /\ CurrencyInv => AcceptedEntryIsCurrent
    <2> SUFFICES ASSUME IInv, CurrencyInv, NEW t \in Tournaments, exists[t],
                        cache[t] # NoEntry, cache[t].version = version[t],
                        ~Unsettled(t)
                 PROVE  cache[t].matches = db[t]
      BY DEF AcceptedEntryIsCurrent
    <2>1. settled[t] = db[t]
      BY DEF CurrencyInv, OwedInv
    <2>2. Fresh(t, cache[t].version, cache[t].matches)
      BY DEF IInv, CacheInv
    <2>3. cache[t].matches \in Nat /\ db[t] \in Nat
      BY EntryFields DEF IInv, TypeOK
    <2> QED
      BY <2>1, <2>2, <2>3 DEF Fresh
  <1> QED
    BY <1>1, CurrencyHolds, InvariantHolds, PTL

-----------------------------------------------------------------------------
(***************************************************************************)
(* MatchCache implements MatchFeed: every step of the cache, its readers   *)
(* and its writers is one step of the feed or none.  A commit, whether its *)
(* answer arrives, fails or is never heard, is the feed's Change; an       *)
(* announcement after the transaction is its Settle; get_or_load asks when *)
(* it is called, answers when an entry is accepted or the read-through is  *)
(* done, and fails with the load it waited for.                            *)
(***************************************************************************)

\* Nothing is cached, asked or settled on either side at the start.
LEMMA InitRefines == Init => Feed!Init
  BY ConstantsAssumption DEF Init, Feed!Init

\* A step that leaves the lists, the settled revisions and each reader's place
\* in the feed alone is no step of the feed.
LEMMA Stutters ==
  ASSUME TypeOK, db' = db, settled' = settled, topic' = topic, since' = since,
         \A r \in Readers :
           \/ rpc'[r] = rpc[r] /\ (rpc[r] = "done" => list'[r] = list[r])
           \/ rpc[r] \notin {"idle", "done"} /\ rpc'[r] \notin {"idle", "done"}
  PROVE  UNCHANGED Feed!vars
  BY DEF Feed!vars, TypeOK

\* What an admin request does, as the feed sees it.
LEMMA WriterRefines ==
  ASSUME IInv, NEW w \in Writers, Request(w) \/ WriterStep(w) \/ WriterFault(w)
  PROVE  Feed!Next \/ UNCHANGED Feed!vars
  <1> USE DEF IInv, readers, database
  <1>1. UNCHANGED readers
    BY DEF Request, WriterStep, WriterFault, WriteMatch, DropTournament, ReadHero,
           WriteHero, Announce, AnnounceCompleted, Commit, Respond, AnnounceCommitted,
           CommitFails, RollBack, CommitDropped
  <1>2. CASE db' = db /\ settled' = settled
    BY <1>1, <1>2, Stutters
  <1>3. ASSUME Effect(w), settled' = settled PROVE Feed!Next
    <2>1. wscope[w] \in SUBSET Tournaments
      BY DEF TypeOK
    <2>2. Feed!Change(wscope[w])
      BY <1>1, <1>3 DEF Feed!Change, Effect
    <2> QED
      BY <2>1, <2>2 DEF Feed!Next
  <1>4. ASSUME NEW t \in Tournaments, AnnounceCompleted(w, t) PROVE Feed!Next
    <2>1. Feed!Settle(t)
      BY <1>1, <1>4 DEF Feed!Settle, AnnounceCompleted
    <2> QED
      BY <2>1 DEF Feed!Next
  <1> QED
    BY <1>2, <1>3, <1>4 DEF Request, WriterStep, WriterFault, WriteMatch,
       DropTournament, ReadHero, WriteHero, Announce, Commit, Respond,
       AnnounceCommitted, CommitFails, RollBack, CommitDropped

\* An accepted entry and a read-through are both answers the feed allows: not
\* older than what was settled when the reader asked, not newer than the lists.
LEMMA AnswerRefines ==
  ASSUME IInv, NEW r \in Readers, Accept(r) \/ ReadThrough(r)
  PROVE  Feed!Next
  <1> USE DEF IInv
  <1> DEFINE t == topic[r]
  <1>1. PICK l : /\ Finish(r, l)
                 /\ \/ Accept(r) /\ l = held[r].matches
                    \/ ReadThrough(r) /\ l = db[t]
    BY DEF Accept, ReadThrough
  <1>2. t \in Tournaments /\ db[t] \in Nat /\ settled[t] \in Nat /\ since[r] \in Nat
    BY DEF TypeOK
  <1>3. rpc[r] \notin {"idle", "done"} /\ since[r] <= settled[t] /\ settled[t] <= db[t]
    BY <1>2 DEF Accept, ReadThrough, ReaderInv, HistoryInDatabase
  <1>4. l \in since[r] .. db[t]
    <2>1. CASE Accept(r) /\ l = held[r].matches
      <3>1. held[r] \in Stamped
        BY <2>1 DEF Accept, TypeOK
      <3>2. l \in Nat
        BY <2>1, <3>1, EntryFields
      <3>3. Fresh(t, held[r].version, held[r].matches) /\ held[r].version = version[t]
        BY <2>1 DEF Accept, ReaderInv
      <3> QED
        BY <1>2, <1>3, <2>1, <3>2, <3>3 DEF Fresh
    <2>2. CASE l = db[t]
      BY <1>2, <1>3, <2>2
    <2> QED
      BY <1>1, <2>1, <2>2
  <1>5. /\ rpc' = [rpc EXCEPT ![r] = "done"] /\ list' = [list EXCEPT ![r] = l]
        /\ UNCHANGED <<db, settled, topic, since>>
    BY <1>1 DEF Finish, Outside, database
  <1>6. Feed!Answer(r)
    BY <1>3, <1>4, <1>5 DEF Feed!Answer, TypeOK
  <1> QED
    BY <1>6 DEF Feed!Next

\* Readers that leave with an error take the feed's Fail together.
LEMMA FailRefines ==
  ASSUME IInv, NEW r \in Readers, LoadFails(r) \/ ReaderLost(r) \/ LoaderDropped(r)
  PROVE  Feed!Next
  <1> USE DEF IInv
  <1>1. PICK R \in SUBSET Readers :
          /\ \A q \in R : rpc[q] \notin {"idle", "done"}
          /\ Forget(R) \/ (R = {r} /\ LoaderDropped(r))
    <2>1. {r} \in SUBSET Readers /\ {r} \cup Waiting(topic[r]) \in SUBSET Readers
      BY DEF Waiting
    <2> QED
      BY <2>1 DEF LoadFails, ReaderLost, LoaderDropped, Waiting
  <1>2. UNCHANGED <<db, settled, topic>>
    BY DEF LoadFails, ReaderLost, LoaderDropped, Forget, Outside, database
  <1>3. \A q \in Readers :
          /\ q \in R => rpc'[q] = "idle" /\ since'[q] = 0
          /\ q \notin R => /\ since'[q] = since[q]
                           /\ \/ rpc'[q] = rpc[q] /\ list'[q] = list[q]
                              \/ rpc[q] = "wait" /\ rpc'[q] = "lookup"
    BY <1>1 DEF Forget, LoaderDropped, Waiting, TypeOK
  <1>4. since' = [q \in Readers |-> IF q \in R THEN 0 ELSE since[q]]
    BY <1>1 DEF Forget, LoaderDropped, TypeOK
  <1>5. Feed!Fail(R)
    BY <1>1, <1>2, <1>3, <1>4 DEF Feed!Fail, TypeOK
  <1> QED
    BY <1>5 DEF Feed!Next

\* A reader's other steps: it asks, moves on inside get_or_load, or delivers.
LEMMA ReaderRefines ==
  ASSUME IInv, NEW r \in Readers,
         \/ \E t \in Tournaments : Call(r, t)
         \/ ReaderStep(r) \/ ReaderFault(r)
  PROVE  Feed!Next \/ UNCHANGED Feed!vars
  <1> USE DEF IInv
  <1>1. ASSUME NEW t \in Tournaments, Call(r, t) PROVE Feed!Next
    <2>1. Feed!Ask(r, t)
      BY <1>1 DEF Call, RGoto, Outside, database, Feed!Ask, TypeOK
    <2> QED
      BY <2>1 DEF Feed!Next
  <1>2. CASE \/ ReadVersion(r) \/ Hit(r) \/ Miss(r) \/ TakeSnapshot(r) \/ Publish(r)
             \/ Reject(r) \/ Remove(r)
    <2>1. UNCHANGED <<db, settled, topic, since>>
      BY <1>2 DEF ReadVersion, Hit, Miss, TakeSnapshot, Publish, Reject, Remove,
                  Outside, database
    <2>2. ASSUME NEW q \in Readers
          PROVE  \/ rpc'[q] = rpc[q] /\ (rpc[q] = "done" => list'[q] = list[q])
                 \/ rpc[q] \notin {"idle", "done"} /\ rpc'[q] \notin {"idle", "done"}
      <3>1. CASE Publish(r)
        BY <3>1 DEF Publish, Waiting, TypeOK
      <3>2. CASE ~Publish(r)
        BY <1>2, <3>2 DEF ReadVersion, Hit, Miss, TakeSnapshot, Reject, Remove,
                          RGoto, TypeOK
      <3> QED
        BY <3>1, <3>2
    <2> QED
      BY <2>1, <2>2, Stutters
  <1>3. ASSUME Return(r) PROVE Feed!Next
    <2>1. Feed!Deliver(r)
      BY <1>3 DEF Return, Forget, Outside, database, Feed!Deliver, TypeOK
    <2> QED
      BY <2>1 DEF Feed!Next
  <1> QED
    BY <1>1, <1>2, <1>3, AnswerRefines, FailRefines DEF ReaderStep, ReaderFault

\* get_or_load with its single-flight load, its retries and its races with the
\* transactions that invalidate it answers exactly as a database read that is
\* at most one unannounced write old: the cache implements the feed.
THEOREM CacheImplementsFeed == Spec => FeedSpec
  <1>1. ASSUME IInv, [Next]_vars PROVE [Feed!Next]_(Feed!vars)
    <2>1. ASSUME NEW t \in Tournaments, Evict(t) PROVE UNCHANGED Feed!vars
      BY <1>1, <2>1, Stutters DEF IInv, Evict, database, readers
    <2>2. CASE UNCHANGED vars
      BY <1>1, <2>2, Stutters DEF IInv, vars, database, readers
    <2> QED
      BY <1>1, <2>1, <2>2, WriterRefines, ReaderRefines DEF Next
  <1>2. IInv /\ [Next]_vars => [Feed!Next]_(Feed!vars)
    BY <1>1
  <1> QED
    BY <1>2, InitRefines, InvariantHolds, PTL DEF Spec, FeedSpec, Feed!Spec

=============================================================================
