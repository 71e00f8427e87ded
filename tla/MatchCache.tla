----------------------------- MODULE MatchCache -----------------------------
(***************************************************************************)
(* The in-memory cache of assembled match lists                            *)
(* (backend-rs/crates/umfl-server/src/match/cache.rs) together with every  *)
(* transaction that invalidates it: a match recorded, corrected or deleted *)
(* (match/admin_service.rs), a hero or a map renamed                       *)
(* (hero/admin_service.rs, map/admin_service.rs), a tournament deleted     *)
(* (tournament/admin_service.rs).                                          *)
(*                                                                         *)
(* A tournament's match list is represented by its revision, raised by     *)
(* every commit that changes it.  A step of this module is the code        *)
(* between two points where another task may run: an await, or an access   *)
(* to one of the shared atomics.                                           *)
(***************************************************************************)
EXTENDS Naturals, FiniteSets

CONSTANTS
  Tournaments,
  Readers,            \* concurrent calls of get_or_load
  Writers,            \* concurrent admin requests
  May,                \* May[w]: the kinds of request w makes
  Names,              \* names the one modelled hero may be given
  MAX_LOAD_ATTEMPTS,  \* 3 in the code
  MaxWrites,          \* bound: how many transactions are started
  Cancellable,        \* may the server drop a handler at an await?
  NoEntry,            \* no cached entry
  NoName              \* no name read or written yet

ASSUME ConstantsAssumption ==
  /\ Tournaments # {} /\ IsFiniteSet(Tournaments)
  /\ Readers # {} /\ IsFiniteSet(Readers)
  /\ May \in [Writers -> SUBSET {"match", "rename", "drop"}]
  /\ Names # {} /\ NoName \notin Names
  /\ NoEntry \notin [addr : Nat, version : Nat, matches : Nat]
  /\ MAX_LOAD_ATTEMPTS \in Nat \ {0}
  /\ MaxWrites \in Nat
  /\ Cancellable \in BOOLEAN

VARIABLES
  \* ---- the database -----------------------------------------------------
  db,          \* db[t]: revision of t's committed match list
  exists,      \* exists[t]: the tournaments row is there
  name,        \* the committed name of the modelled hero
  \* ---- the cache ----------------------------------------------------------
  registered,  \* the keys of `versions'
  version,     \* version[t]: t's AtomicU64
  cache,       \* cache[t]: moka's entry for t, or NoEntry
  \* ---- one admin request per writer ----------------------------------------
  wpc,         \* "idle", "read", "announce", "complete"
  wkind,       \* "match", "rename" or "drop"
  wscope,      \* tournaments whose lists the transaction changes
  wtodo,       \* tournaments the current announcement still has to bump
  wread,       \* the hero name a catalogue edit read (`existing.name')
  wname,       \* the hero name it writes
  wrev,        \* the revision a match write committed
  \* ---- one get_or_load call per reader ---------------------------------------
  rpc, topic, attempt,
  before,      \* version_before_load
  held,        \* the entry try_get_with returned
  list,        \* the list the reader loaded or is about to return
  \* ---- history and bounds ------------------------------------------------------
  settled,     \* settled[t]: db[t] at the last completed announcement for t
  pushed,      \* pushed[t]: newest revision the browsers were told of
  since,       \* since[r]: settled[topic[r]] when r's call began
  writes       \* transactions started

database == <<db, exists, name>>
store    == <<registered, version, cache>>
writers  == <<wpc, wkind, wscope, wtodo, wread, wname, wrev>>
readers  == <<rpc, topic, attempt, before, held, list, since>>
vars     == <<database, store, writers, readers, settled, pushed, writes>>

-----------------------------------------------------------------------------
(* Entries.  An Arc<Stamped> is compared by identity: its address is one no *)
(* live entry has.                                                          *)

Addresses == 1 .. (Cardinality(Tournaments) + Cardinality(Readers) + 1)

Stamped == [addr : Addresses, version : Nat, matches : Nat]

LiveAddresses ==
  {cache[t].addr : t \in {u \in Tournaments : cache[u] # NoEntry}}
    \cup {held[r].addr : r \in {q \in Readers : held[q] # NoEntry}}

\* What the allocator may hand out next; the model takes the least.
FreeAddresses == Addresses \ LiveAddresses

WriterPhase == {"idle", "read", "announce", "complete"}
WriteKind == {"match", "rename", "drop"}
ReaderPhase ==
  {"idle", "version", "lookup", "load", "loaded", "wait", "check", "remove",
   "through", "done"}

\* The state invariant every variable's range is read from.
TypeOK ==
  /\ db \in [Tournaments -> Nat]
  /\ exists \in [Tournaments -> BOOLEAN]
  /\ name \in Names
  /\ registered \subseteq Tournaments
  /\ version \in [Tournaments -> Nat]
  /\ cache \in [Tournaments -> Stamped \cup {NoEntry}]
  /\ wpc \in [Writers -> WriterPhase]
  /\ wkind \in [Writers -> WriteKind]
  /\ wscope \in [Writers -> SUBSET Tournaments]
  /\ wtodo \in [Writers -> SUBSET Tournaments]
  /\ wread \in [Writers -> Names \cup {NoName}]
  /\ wname \in [Writers -> Names \cup {NoName}]
  /\ wrev \in [Writers -> Nat]
  /\ \A w \in Writers : wpc[w] = "read" => wkind[w] = "rename"
  /\ \A w \in Writers : wpc[w] = "announce" =>
       IF wkind[w] = "rename" THEN wname[w] \in Names
                              ELSE \E t \in Tournaments : wscope[w] = {t}
  /\ rpc \in [Readers -> ReaderPhase]
  /\ topic \in [Readers -> Tournaments]
  /\ attempt \in [Readers -> 0 .. MAX_LOAD_ATTEMPTS]
  /\ before \in [Readers -> Nat]
  /\ held \in [Readers -> Stamped \cup {NoEntry}]
  /\ \A r \in Readers : rpc[r] \in {"check", "remove"} <=> held[r] # NoEntry
  /\ list \in [Readers -> Nat]
  /\ settled \in [Tournaments -> Nat]
  /\ pushed \in [Tournaments -> Nat]
  /\ since \in [Readers -> Nat]
  /\ writes \in 0 .. MaxWrites

Init ==
  /\ db = [t \in Tournaments |-> 0]
  /\ exists = [t \in Tournaments |-> TRUE]
  /\ name \in Names
  /\ registered = {}
  /\ version = [t \in Tournaments |-> 0]
  /\ cache = [t \in Tournaments |-> NoEntry]
  /\ wpc = [w \in Writers |-> "idle"]
  /\ wkind = [w \in Writers |-> "match"]
  /\ wscope = [w \in Writers |-> {}]
  /\ wtodo = [w \in Writers |-> {}]
  /\ wread = [w \in Writers |-> NoName]
  /\ wname = [w \in Writers |-> NoName]
  /\ wrev = [w \in Writers |-> 0]
  /\ rpc = [r \in Readers |-> "idle"]
  /\ topic \in [Readers -> Tournaments]
  /\ attempt = [r \in Readers |-> 0]
  /\ before = [r \in Readers |-> 0]
  /\ held = [r \in Readers |-> NoEntry]
  /\ list = [r \in Readers |-> 0]
  /\ settled = [t \in Tournaments |-> 0]
  /\ pushed = [t \in Tournaments |-> 0]
  /\ since = [r \in Readers |-> 0]
  /\ writes = 0

-----------------------------------------------------------------------------
(* Admin requests.                                                          *)

Start(w, kind) ==
  /\ wpc[w] = "idle"
  /\ kind \in May[w]
  /\ writes < MaxWrites
  /\ writes' = writes + 1

\* Another transaction holds t's rows: an uncommitted write of kind k.
InFlight(k, t) ==
  \E w \in Writers : wpc[w] = "announce" /\ wkind[w] = k /\ t \in wscope[w]

\* Back to the pool of requests, whatever the transaction did.
Retire(w) ==
  /\ wpc' = [wpc EXCEPT ![w] = "idle"]
  /\ wscope' = [wscope EXCEPT ![w] = {}]
  /\ wtodo' = [wtodo EXCEPT ![w] = {}]
  /\ wrev' = [wrev EXCEPT ![w] = 0]
  /\ wread' = [wread EXCEPT ![w] = NoName]
  /\ wname' = [wname EXCEPT ![w] = NoName]
  /\ wkind' = [wkind EXCEPT ![w] = "match"]

\* record, correct, delete: validated and written, not yet announced.
WriteMatch(w, t) ==
  /\ Start(w, "match")
  /\ exists[t]
  /\ ~InFlight("drop", t)
  /\ wpc' = [wpc EXCEPT ![w] = "announce"]
  /\ wkind' = [wkind EXCEPT ![w] = "match"]
  /\ wscope' = [wscope EXCEPT ![w] = {t}]
  /\ wtodo' = [wtodo EXCEPT ![w] = {t}]
  /\ UNCHANGED <<database, store, wread, wname, wrev, readers, settled, pushed>>

\* hero::update up to `require_hero': no lock is taken on the row.
ReadHero(w) ==
  /\ Start(w, "rename")
  /\ wpc' = [wpc EXCEPT ![w] = "read"]
  /\ wkind' = [wkind EXCEPT ![w] = "rename"]
  /\ wread' = [wread EXCEPT ![w] = name]
  /\ UNCHANGED <<database, store, wscope, wtodo, wname, wrev, readers, settled,
                 pushed>>

\* `renamed', computed from the name read before the row was locked.
Renamed(w) == wkind[w] = "rename" /\ wread[w] # wname[w]

\* writer::update locks the row, so it waits for another edit to end; what it
\* changes is judged against the name committed by then.
WriteHero(w, n) ==
  /\ wpc[w] = "read"
  /\ ~ \E v \in Writers : wpc[v] = "announce" /\ wkind[v] = "rename"
  /\ wpc' = [wpc EXCEPT ![w] = "announce"]
  /\ wname' = [wname EXCEPT ![w] = n]
  /\ wscope' = [wscope EXCEPT ![w] = IF n # name THEN Tournaments ELSE {}]
  /\ wtodo' = [wtodo EXCEPT ![w] = IF n # wread[w] THEN Tournaments ELSE {}]
  /\ UNCHANGED <<database, store, wkind, wread, wrev, readers, settled, pushed,
                 writes>>

\* tournament::admin_service::delete: nothing is announced before the commit.
DropTournament(w, t) ==
  /\ Start(w, "drop")
  /\ exists[t]
  /\ ~InFlight("match", t)
  /\ ~InFlight("drop", t)
  /\ wpc' = [wpc EXCEPT ![w] = "announce"]
  /\ wkind' = [wkind EXCEPT ![w] = "drop"]
  /\ wscope' = [wscope EXCEPT ![w] = {t}]
  /\ UNCHANGED <<database, store, wtodo, wread, wname, wrev, readers, settled,
                 pushed>>

\* Mistake: bump only what is cached, and miss the load that is in flight.
Invalidate_OnlyCached(w, t) ==
  IF cache[t] = NoEntry
  THEN UNCHANGED <<registered, version>>
  ELSE /\ registered' = registered \cup {t}
       /\ version' = [version EXCEPT ![t] = @ + 1]

\* invalidate(t) registers the key if need be and bumps it; invalidate_all
\* visits the keys one at a time and bumps only those it finds.
Invalidate(w, t) ==
  IF wkind[w] = "rename" /\ t \notin registered
  THEN UNCHANGED <<registered, version>>
  ELSE /\ registered' = registered \cup {t}
       /\ version' = [version EXCEPT ![t] = @ + 1]

\* The announcement inside the transaction.
Announce(w, t) ==
  /\ wpc[w] = "announce"
  /\ t \in wtodo[w]
  /\ Invalidate(w, t)
  /\ wtodo' = [wtodo EXCEPT ![w] = @ \ {t}]
  /\ UNCHANGED <<database, cache, wpc, wkind, wscope, wread, wname, wrev,
                 readers, settled, pushed, writes>>

\* What the database does when it executes w's COMMIT.
Effect(w) ==
  /\ db' = [t \in Tournaments |-> IF t \in wscope[w] THEN db[t] + 1 ELSE db[t]]
  /\ name' = IF wkind[w] = "rename" THEN wname[w] ELSE name
  /\ exists' = [t \in Tournaments |->
                  exists[t] /\ ~(wkind[w] = "drop" /\ t \in wscope[w])]

AwaitsCommit(w) == wpc[w] = "announce" /\ wtodo[w] = {}

\* Mistake: a rename is taken for a catalogue change no match list shows.
Owed_NotRenames(w) == IF wkind[w] = "rename" THEN {} ELSE wscope[w]

\* Whose versions the announcement of w's completion bumps.
Owed(w) ==
  CASE wkind[w] = "rename" -> IF Renamed(w) THEN Tournaments ELSE {}
    [] OTHER               -> wscope[w]

\* tx.commit() answers Ok.
Commit(w) ==
  /\ AwaitsCommit(w)
  /\ Effect(w)
  /\ wpc' = [wpc EXCEPT ![w] = "complete"]
  /\ wtodo' = [wtodo EXCEPT ![w] = Owed(w)]
  /\ wrev' = [wrev EXCEPT ![w] =
                IF wkind[w] = "match" THEN db'[CHOOSE t \in wscope[w] : TRUE]
                                      ELSE 0]
  /\ UNCHANGED <<store, wkind, wscope, wread, wname, readers, settled, pushed,
                 writes>>

\* Mistake: an error from COMMIT is taken to mean that nothing changed.
CommitFails_Silent(w) ==
  /\ AwaitsCommit(w)
  /\ Effect(w) \/ UNCHANGED database
  /\ wpc' = [wpc EXCEPT ![w] = "complete"]
  /\ UNCHANGED <<store, wkind, wscope, wtodo, wread, wname, wrev, readers,
                 settled, pushed, writes>>

\* tx.commit() answers Err: the transaction rolled back, or it took effect and
\* only the reply was lost.  Deleting a tournament then returns at once (`?').
CommitFails(w) ==
  /\ AwaitsCommit(w)
  /\ Effect(w) \/ UNCHANGED database
  /\ wpc' = [wpc EXCEPT ![w] = "complete"]
  /\ wtodo' = [wtodo EXCEPT ![w] = IF wkind[w] = "drop" THEN {} ELSE Owed(w)]
  /\ UNCHANGED <<store, wkind, wscope, wread, wname, wrev, readers, settled,
                 pushed, writes>>

\* An early return that rolls the transaction back on drop: the name is taken,
\* the read-back of the saved match fails, or the handler is dropped.
RollBack(w) ==
  /\ \/ wpc[w] = "read"
     \/ AwaitsCommit(w) /\ (wkind[w] = "match" \/ Cancellable)
  /\ Retire(w)
  /\ UNCHANGED <<database, store, readers, settled, pushed, writes>>

\* The client hangs up while COMMIT is on its way: the server drops the handler
\* at the await, and nothing after it runs.
CommitDropped(w) ==
  /\ Cancellable
  /\ AwaitsCommit(w)
  /\ Effect(w)
  /\ Retire(w)
  /\ UNCHANGED <<store, readers, settled, pushed, writes>>

\* Mistake: the announcement inside the transaction is thought to suffice.
AnnounceCompleted_NoBump(w, t) ==
  /\ wpc[w] = "complete"
  /\ t \in wtodo[w]
  /\ wtodo' = [wtodo EXCEPT ![w] = @ \ {t}]
  /\ settled' = [settled EXCEPT ![t] = db[t]]
  /\ UNCHANGED <<database, store, wpc, wkind, wscope, wread, wname, wrev,
                 readers, pushed, writes>>

\* The announcement after the transaction has ended, either way.
AnnounceCompleted(w, t) ==
  /\ wpc[w] = "complete"
  /\ t \in wtodo[w]
  /\ Invalidate(w, t)
  /\ wtodo' = [wtodo EXCEPT ![w] = @ \ {t}]
  /\ settled' = [settled EXCEPT ![t] = db[t]]
  /\ UNCHANGED <<database, cache, wpc, wkind, wscope, wread, wname, wrev,
                 readers, pushed, writes>>

\* Mistake: the push goes out before the announcement is through.
Completed_Early(w) == wpc[w] = "complete"

Completed(w) == wpc[w] = "complete" /\ wtodo[w] = {}

\* The response goes out with no push: not a match write, or not committed.
Respond(w) ==
  /\ Completed(w)
  /\ wrev[w] = 0
  /\ Retire(w)
  /\ UNCHANGED <<database, store, readers, settled, pushed, writes>>

\* announce_committed: the browsers are told to refetch.
AnnounceCommitted(w) ==
  /\ Completed(w)
  /\ wrev[w] # 0
  /\ pushed' = [t \in Tournaments |->
                  IF t \in wscope[w] /\ wrev[w] > pushed[t] THEN wrev[w]
                                                            ELSE pushed[t]]
  /\ Retire(w)
  /\ UNCHANGED <<database, store, readers, settled, writes>>

-----------------------------------------------------------------------------
(* get_or_load.                                                             *)

RGoto(r, from, to) ==
  /\ rpc[r] = from
  /\ rpc' = [rpc EXCEPT ![r] = to]

Outside(r) == UNCHANGED <<database, writers, settled, pushed, writes>>

\* Mistake: the version is read with a default and its key not registered.
Call_Unregistered(r, t) ==
  /\ RGoto(r, "idle", "version")
  /\ exists[t]
  /\ topic' = [topic EXCEPT ![r] = t]
  /\ attempt' = [attempt EXCEPT ![r] = 1]
  /\ since' = [since EXCEPT ![r] = settled[t]]
  /\ UNCHANGED <<store, before, held, list>>
  /\ Outside(r)

\* The route has found the tournament; version_of registers its key.
Call(r, t) ==
  /\ RGoto(r, "idle", "version")
  /\ exists[t]
  /\ topic' = [topic EXCEPT ![r] = t]
  /\ attempt' = [attempt EXCEPT ![r] = 1]
  /\ since' = [since EXCEPT ![r] = settled[t]]
  /\ registered' = registered \cup {t}
  /\ UNCHANGED <<version, cache, before, held, list>>
  /\ Outside(r)

ReadVersion(r) ==
  /\ RGoto(r, "version", "lookup")
  /\ before' = [before EXCEPT ![r] = version[topic[r]]]
  /\ UNCHANGED <<store, topic, attempt, held, list, since>>
  /\ Outside(r)

Loading(t) ==
  \E r \in Readers : rpc[r] \in {"load", "loaded"} /\ topic[r] = t

Waiting(t) == {r \in Readers : rpc[r] = "wait" /\ topic[r] = t}

\* try_get_with finds an entry.
Hit(r) ==
  /\ cache[topic[r]] # NoEntry
  /\ RGoto(r, "lookup", "check")
  /\ held' = [held EXCEPT ![r] = cache[topic[r]]]
  /\ UNCHANGED <<store, topic, attempt, before, list, since>>
  /\ Outside(r)

\* try_get_with finds none: one caller per key runs the load, the others wait
\* for what it makes of it.
Miss(r) ==
  /\ cache[topic[r]] = NoEntry
  /\ RGoto(r, "lookup", IF Loading(topic[r]) THEN "wait" ELSE "load")
  /\ UNCHANGED <<store, topic, attempt, before, held, list, since>>
  /\ Outside(r)

\* load: its snapshot is the one its first statement takes.
TakeSnapshot(r) ==
  /\ RGoto(r, "load", "loaded")
  /\ list' = [list EXCEPT ![r] = db[topic[r]]]
  /\ UNCHANGED <<store, topic, attempt, before, held, since>>
  /\ Outside(r)

\* Mistake: the entry is stamped with the version found after the load.
Publish_StampedLate(r) ==
  LET given == {r} \cup Waiting(topic[r])
      entry == [addr |-> CHOOSE a \in FreeAddresses : TRUE,
                version |-> version[topic[r]], matches |-> list[r]]
  IN /\ rpc[r] = "loaded"
     /\ cache' = [cache EXCEPT ![topic[r]] = entry]
     /\ held' = [q \in Readers |-> IF q \in given THEN entry ELSE held[q]]
     /\ rpc' = [q \in Readers |-> IF q \in given THEN "check" ELSE rpc[q]]
     /\ list' = [list EXCEPT ![r] = 0]
     /\ UNCHANGED <<registered, version, topic, attempt, before, since>>
     /\ Outside(r)

\* moka stores the entry and hands it to everyone who waited.
Publish(r) ==
  LET given == {r} \cup Waiting(topic[r])
  IN /\ rpc[r] = "loaded"
     /\ \E a \in FreeAddresses :
          LET entry == [addr |-> a, version |-> before[r], matches |-> list[r]]
          IN /\ \A b \in FreeAddresses : a <= b
             /\ cache' = [cache EXCEPT ![topic[r]] = entry]
             /\ held' = [q \in Readers |-> IF q \in given THEN entry ELSE held[q]]
     /\ rpc' = [q \in Readers |-> IF q \in given THEN "check" ELSE rpc[q]]
     /\ list' = [list EXCEPT ![r] = 0]
     /\ UNCHANGED <<registered, version, topic, attempt, before, since>>
     /\ Outside(r)

\* The readers in R return an error, or are dropped: nothing of theirs is left.
Forget(R) ==
  /\ rpc' = [r \in Readers |-> IF r \in R THEN "idle" ELSE rpc[r]]
  /\ attempt' = [r \in Readers |-> IF r \in R THEN 0 ELSE attempt[r]]
  /\ before' = [r \in Readers |-> IF r \in R THEN 0 ELSE before[r]]
  /\ held' = [r \in Readers |-> IF r \in R THEN NoEntry ELSE held[r]]
  /\ list' = [r \in Readers |-> IF r \in R THEN 0 ELSE list[r]]
  /\ since' = [r \in Readers |-> IF r \in R THEN 0 ELSE since[r]]
  /\ UNCHANGED topic

\* Mistake: those who waited never hear of the failure.
LoadFails_Alone(r) ==
  /\ rpc[r] \in {"load", "loaded"}
  /\ Forget({r})
  /\ UNCHANGED store
  /\ Outside(r)

\* A failed load is one shared error for all who waited for it.
LoadFails(r) ==
  /\ rpc[r] \in {"load", "loaded"}
  /\ Forget({r} \cup Waiting(topic[r]))
  /\ UNCHANGED store
  /\ Outside(r)

\* The handler running the load is dropped: those who waited look again, and
\* one of them loads under the version it read itself.
LoaderDropped(r) ==
  /\ Cancellable
  /\ rpc[r] \in {"load", "loaded"}
  /\ rpc' = [q \in Readers |-> IF q = r THEN "idle"
                               ELSE IF q \in Waiting(topic[r]) THEN "lookup"
                               ELSE rpc[q]]
  /\ attempt' = [attempt EXCEPT ![r] = 0]
  /\ before' = [before EXCEPT ![r] = 0]
  /\ list' = [list EXCEPT ![r] = 0]
  /\ since' = [since EXCEPT ![r] = 0]
  /\ UNCHANGED <<store, topic, held>>
  /\ Outside(r)

\* The handler is dropped at another await, or its own read-through fails.
ReaderLost(r) ==
  /\ rpc[r] = "through" \/ (Cancellable /\ rpc[r] \in {"wait", "remove"})
  /\ Forget({r})
  /\ UNCHANGED store
  /\ Outside(r)

Finish(r, l) ==
  /\ rpc' = [rpc EXCEPT ![r] = "done"]
  /\ list' = [list EXCEPT ![r] = l]
  /\ attempt' = [attempt EXCEPT ![r] = 0]
  /\ before' = [before EXCEPT ![r] = 0]
  /\ held' = [held EXCEPT ![r] = NoEntry]
  /\ UNCHANGED <<store, topic, since>>
  /\ Outside(r)

\* Mistake: what the cache returns is served as it is.
Accept_Unchecked(r) ==
  /\ rpc[r] = "check"
  /\ Finish(r, held[r].matches)

\* The entry's version is still the tournament's.
Accept(r) ==
  /\ rpc[r] = "check"
  /\ held[r].version = version[topic[r]]
  /\ Finish(r, held[r].matches)

\* It is not: the entry was loaded across an invalidation.
Reject(r) ==
  /\ held[r] # NoEntry
  /\ held[r].version # version[topic[r]]
  /\ RGoto(r, "check", "remove")
  /\ UNCHANGED <<store, topic, attempt, before, held, list, since>>
  /\ Outside(r)

\* Shared by the mistakes below: drop whatever is cached and try again.
TryAgain(r) ==
  /\ RGoto(r, "remove", "version")
  /\ cache' = [cache EXCEPT ![topic[r]] = NoEntry]
  /\ attempt' = [attempt EXCEPT ![r] = @ + 1]
  /\ held' = [held EXCEPT ![r] = NoEntry]
  /\ UNCHANGED <<registered, version, topic, before, list, since>>
  /\ Outside(r)

\* Mistake: one attempt too many.
Remove_OffByOne(r) ==
  /\ attempt[r] <= MAX_LOAD_ATTEMPTS
  /\ TryAgain(r)

\* Mistake: whatever entry is there is dropped.
Remove_Unconditional(r) ==
  \/ attempt[r] < MAX_LOAD_ATTEMPTS /\ TryAgain(r)
  \/ /\ attempt[r] = MAX_LOAD_ATTEMPTS
     /\ RGoto(r, "remove", "through")
     /\ cache' = [cache EXCEPT ![topic[r]] = NoEntry]
     /\ held' = [held EXCEPT ![r] = NoEntry]
     /\ UNCHANGED <<registered, version, topic, attempt, before, list, since>>
     /\ Outside(r)

\* and_compute_with: drop the entry only if it is the one this reader saw, then
\* try again or, after the last attempt, read through.
Remove(r) ==
  LET t == topic[r]
      again == attempt[r] < MAX_LOAD_ATTEMPTS
      mine == cache[t] # NoEntry /\ cache[t].addr = held[r].addr
  IN /\ RGoto(r, "remove", IF again THEN "version" ELSE "through")
     /\ cache' = [cache EXCEPT ![t] = IF mine THEN NoEntry ELSE @]
     /\ attempt' = [attempt EXCEPT ![r] = IF again THEN @ + 1 ELSE @]
     /\ held' = [held EXCEPT ![r] = NoEntry]
     /\ UNCHANGED <<registered, version, topic, before, list, since>>
     /\ Outside(r)

ReadThrough(r) ==
  /\ rpc[r] = "through"
  /\ Finish(r, db[topic[r]])

Return(r) ==
  /\ rpc[r] = "done"
  /\ Forget({r})
  /\ UNCHANGED store
  /\ Outside(r)

\* Idle or capacity eviction.
Evict(t) ==
  /\ cache[t] # NoEntry
  /\ cache' = [cache EXCEPT ![t] = NoEntry]
  /\ UNCHANGED <<database, registered, version, writers, readers, settled,
                 pushed, writes>>

-----------------------------------------------------------------------------

\* The steps an admitted request takes by itself, and those a database or a
\* client may impose on it.
WriterStep(w) ==
  \/ \E n \in Names : WriteHero(w, n)
  \/ \E t \in Tournaments : Announce(w, t) \/ AnnounceCompleted(w, t)
  \/ Commit(w)
  \/ Respond(w)
  \/ AnnounceCommitted(w)

WriterFault(w) == CommitFails(w) \/ RollBack(w) \/ CommitDropped(w)

Request(w) ==
  \/ \E t \in Tournaments : WriteMatch(w, t) \/ DropTournament(w, t)
  \/ ReadHero(w)

ReaderStep(r) ==
  \/ ReadVersion(r) \/ Hit(r) \/ Miss(r) \/ TakeSnapshot(r) \/ Publish(r)
  \/ Accept(r) \/ Reject(r) \/ Remove(r) \/ ReadThrough(r) \/ Return(r)

ReaderFault(r) == LoadFails(r) \/ LoaderDropped(r) \/ ReaderLost(r)

Next ==
  \/ \E w \in Writers : Request(w) \/ WriterStep(w) \/ WriterFault(w)
  \/ \E r \in Readers, t \in Tournaments : Call(r, t)
  \/ \E r \in Readers : ReaderStep(r) \/ ReaderFault(r)
  \/ \E t \in Tournaments : Evict(t)

Spec == Init /\ [][Next]_vars

\* Tokio polls every ready task: a handler that can go on does.  Requests,
\* faults and evictions need never happen.
Fairness ==
  /\ \A w \in Writers : WF_vars(WriterStep(w))
  /\ \A r \in Readers : WF_vars(ReaderStep(r))

FairSpec == Spec /\ Fairness

-----------------------------------------------------------------------------
(* Properties.                                                              *)

\* A commit on t whose completion has not been announced to t's version yet.
Unsettled(t) == \E w \in Writers : wpc[w] = "complete" /\ t \in wtodo[w]

\* The promise of cache.rs, "an invalidation signal that is complete by
\* construction": outside the short window between a commit and its completion
\* announcement, an entry a reader would accept is the list the database holds.
AcceptedEntryIsCurrent ==
  \A t \in Tournaments :
    /\ exists[t]
    /\ cache[t] # NoEntry
    /\ cache[t].version = version[t]
    /\ ~Unsettled(t)
    => cache[t].matches = db[t]

\* A read sees every write whose request had announced its completion before
\* the read began, whichever of hit, shared load, retry or read-through
\* answered it.
ReadsSeeSettledWrites ==
  \A r \in Readers : rpc[r] = "done" => list[r] >= since[r]

\* "Value-conditional, so an entry another task has already replaced this one
\* with is never the casualty": what a reader removes is never an entry the
\* next reader could have been served.
NoValidEntryRemoved ==
  [][\A r \in Readers, t \in Tournaments :
       /\ rpc[r] = "remove" /\ rpc'[r] \in {"version", "through"}
       /\ cache[t] # NoEntry /\ cache'[t] = NoEntry
       => cache[t].version # version[t]]_vars

\* The browsers are told of a revision only once no reader can be served an
\* older one: the push comes after the invalidation it relies on.
PushFollowsInvalidation == \A t \in Tournaments : pushed[t] <= settled[t]

\* Every call of get_or_load returns, however often it is invalidated and
\* whoever runs the load it waits for.
ReadsReturn == \A r \in Readers : rpc[r] # "idle" ~> rpc[r] = "idle"

\* Every change of a tournament's list is eventually announced complete, so
\* that from then on it is served.
ChangesSettle ==
  \A t \in Tournaments :
    \A n \in 1 .. MaxWrites :
      (exists[t] /\ db[t] = n) ~> (settled[t] >= n \/ ~exists[t])

\* The detailed cache implements the abstract feed.
Feed == INSTANCE MatchFeed WITH
  phase <- [r \in Readers |-> IF rpc[r] \in {"idle", "done"} THEN rpc[r]
                                                             ELSE "reading"],
  answer <- [r \in Readers |-> IF rpc[r] = "done" THEN list[r] ELSE 0]

FeedSpec == Feed!Spec

=============================================================================
