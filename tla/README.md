# Verification of the Unmatched fantasy league

TLA+ models of the league server (`src/backend-rs`) and of the parts of the
browser client that interleave with it (`src/frontend`). Modules are model
checked with TLC on small instances and proved with TLAPS for all values of
their constants. `PROJECT.json` lists the runs, the map from definitions to
source lines, the findings and the hazards.

Paths below are relative to `src/`; `server/` stands for
`backend-rs/crates/umfl-server/src/`, `domain/` for
`backend-rs/crates/umfl-domain/src/`.

## 1. Inventory

The system is a stateless HTTP server (Rust, axum on Tokio, sqlx) over one
PostgreSQL database, with three pieces of state of its own in memory: the match
result cache, the registry of standings streams, and the rate limiter's buckets
(a fourth, the identity provider's signing keys, is a read-through copy).
Requests run concurrently on a multi-threaded runtime; a handler can be
interrupted at every `.await`, and is dropped there if the client hangs up.
There are no background workers. A browser tab keeps stores of its own and one
stream of "something changed" signals.

| Part | State | Operations | Interacts with |
|---|---|---|---|
| Match result cache, `server/match/cache.rs` | per tournament: a version counter and a cached list stamped with the version read before its load | `find_by_tournament`, `invalidate`, `invalidate_all`, eviction | read by standings and hero statistics; invalidated by every writer of match lists |
| Match administration, `server/match/admin_service.rs` | `matches`, games, bans | record, correct, delete: write, announce, COMMIT, announce, push | cache, stream hub |
| Hero and map administration, tournament deletion | `heroes`, `maps`, `tournaments` | rename, delete | cache (a name is part of every list) |
| Tournament entries, `server/tournament/service.rs` | `tournament_entries`, `entry_slots`, `roster_swaps`, role logs | register, set slots, lock, swap, set roles | tournament administration through row locks |
| Tournament administration, `server/tournament/admin_service.rs` | `tournaments` | create, update (with the purge of unlocked entries), advance round, swap window, delete | entries |
| Standings service and stream hub, `server/standings/` | subscriber registry: per tournament a broadcast channel and a count, a total | subscribe, notify, drop; board, ticker, hero statistics | cache, connection pool, browsers |
| Standings fold, `domain/standings.rs` | none | replay of swap and role logs, pricing, ranking | fed by the entries' logs |
| Scoring rule sets, `server/scoring/`, `domain/scoring_engine.rs` | `scoring_rule_sets`, one active per index | create, update, activate, delete; pricing | standings |
| Roles, `server/role/`, `domain/roster_roles.rs` | `roles`, `hero_role_groups`, assignment log | create, delete, assign | entries |
| Hero and map pools | join tables | add, remove, list | drafts |
| Authentication, `server/auth/` | cached signing keys; `managers` created on first sight | verify, refetch keys, provision | every request |
| Rate limiter, `server/ratelimit.rs` | token bucket per client in a bounded store | check | every request |
| Match import, `server/matchimport/` | none | scrape, resolve names, preview | tools/tabletopleague-scraper |
| Match policy and statistics, `domain/` | none | pure functions | match administration, standings |
| Browser stores and stream client, `frontend/src/stores`, `api/sseClient.ts` | selected tournament, board, open stream, requests in flight | load, refresh, stop, reconnect | stream hub, standings routes |
| HTTP plumbing, configuration, schema, deployment | none of their own | | |

What is hard here, by part, and what makes the part correct:

* **Cache.** A list loaded before an invalidation may be stored after it; the
  announcement inside a transaction comes before COMMIT and the one after it
  after; readers share loads, reject entries and remove them concurrently; a
  reply to COMMIT may be lost; a handler may be dropped. Correct: a reader never
  misses a write that was acknowledged before it asked; outside the window of a
  commit an acceptable entry is the database's list; every read returns.
* **Entries.** Everything runs at READ COMMITTED, some requests lock the row they
  judge and some judge a copy they read without a lock. Correct: no seat is taken
  beyond the capacity; a locked roster is full and moves only by logged swaps;
  the log undoes the roster to the one that was locked; the swap allowance is
  kept, one submission per round; nobody waits for ever.
* **Tournament administration.** A full-row update writes back columns it read
  without a lock; the purge collects entry rows while holding the tournament's.
* **Standings and hub.** A cache load inside a snapshot would need two pooled
  connections; caps are taken and released by concurrent requests and drops; a
  slow subscriber lags. Correct: counts equal the open streams, a signal leads to
  a refetch that sees the write it stands for.
* **Browser.** Fetch and subscription are separate, so a write between them is
  announced to nobody; refreshes overlap; a tournament is reselected while its
  first load is in flight. Correct: the board is the selected tournament's, and
  one stream is open per tab.
* **Scoring, roles, provisioning, keys, limiter.** Check-then-act against unique
  indexes and foreign keys, bounded retries, a refetch interval, a bounded store.
* **From a form to the board.** Two copies of the rules of a match, edits that
  cascade, a correction that deletes and rewrites six tables, a board folded on
  every read from today's roster and two logs. Correct: what the form passes the
  server accepts, what is read back is what was sent, and every point belongs to
  whoever held the hero, under its role, in the round of the match.
* **Pure functions.** Boundaries of allowances, ranks, rounding, policies.

The hazards, each at its line and with the properties that cover it, are in
`PROJECT.json`.

## 2. Modules

| Module | What it is |
|---|---|
| `MatchFeed` | what the cache promises its callers, with no cache in it |
| `MatchCache` | the cache and all its invalidators, step by step |
| `MatchCacheInvariant` | the inductive invariant |
| `MatchCacheProofs` | types, invariant, safety properties; `MatchCache` implements `MatchFeed` |
| `RosterBook` | what the entries promise the league, with no request, copy or lock in it |
| `RosterEntries` | one tournament's entries and the admin requests they race with |
| `FoldLemmas` | what folds, sums and sorted lists compute, for data of any size |
| `RosterEntriesProofs` | types, seats, full rosters, one submission per round, locked rosters, the allowance, the replay of the log; `RosterEntries` implements `RosterBook` |
| `StandingsStream` | the hub, the stream client and the standings store of a tab, over reads that `MatchFeed` answers |
| `StandingsStreamProofs` | types, the hub's accounts, boards, signals |
| `MatchPolicy` | the rules of a submitted match |
| `MatchRows` | a match's rows, the constraints on them, and the way back |
| `MatchImport` | the preview of a scraped page |
| `MatchScoring`, `MatchScoringProofs` | what a recorded match is worth to each hero; rounding, sums, the contexts of a hero, the zero-sum metric |
| `MatchForms` | the wizard's form, its edits and other clients, over the four above |
| `MatchFormsProofs` | the policy against the constraints, the way back, and what the recorded match pays |
| `RosterRoles`, `RosterPolicy` | the rules of roles and rosters |
| `Ordering` | a set in an order, as `sort_by` and `order by` put it |
| `LeagueTable` | what is folded from matches and logs: leaderboard, ticker, hero tables, Hall of Fame |
| `Season` | one tournament from draft to final board, over the three above |
| `SeasonProofs` | the roles of a locked roster; places and prices on every table; the board against the history |
| `Catalogue` | concurrent admin requests on rule sets, roles, heroes, boards, pools and matches |
| `CatalogueProofs` | types, the tables' consistency, and the four properties of the run |
| `MC...` | instances for TLC |

### MatchCache

A match list is its revision number `db[t]`, raised by each commit that changes
it; what is in a list does not matter to the cache. `version`, `registered` and
`cache` are the fields of `MatchResultCache`: the `AtomicU64` per key, the keys
of `versions`, and moka's entries (`Stamped`, with the address that stands for
the identity of the `Arc`). A step is the code between two points where another
task may run: an await or an access to a shared atomic.

* Readers: `Call` (`version_of` registers the key), `ReadVersion`, `Hit` or
  `Miss` (`try_get_with`: one caller loads, the others wait), `TakeSnapshot`,
  `Publish`, `Accept` or `Reject`, `Remove` (`and_compute_with`, conditional on
  the entry being the one rejected), and after `MAX_LOAD_ATTEMPTS` `ReadThrough`.
  `LoadFails` is one error shared by all who waited; `LoaderDropped` hands the
  load to one of them; `Evict` is moka's.
* Writers: a match request (`WriteMatch`), a catalogue edit (`ReadHero` without a
  lock, `WriteHero` behind the row lock), and the deletion of a tournament
  (`DropTournament`, which announces nothing before COMMIT). `Announce` bumps one
  key; a rename sweeps the registered keys one at a time, as `invalidate_all`
  does. `Commit` answers Ok, `CommitFails` answers Err with or without effect,
  `RollBack` is an early return. `AnnounceCompleted` bumps again,
  `AnnounceCommitted` pushes; a lost reply skips the push (`outcome?`).
* One hero stands for the whole catalogue; heroes and maps are edited alike.
* `since`, `settled`, `pushed` are history: what had been announced complete
  when a read began, what has been by now, what browsers were told.
* The snapshot transaction of `load` sees one state of the database, so it is
  one step; the read-through is one step for the same reason.
* External: PostgreSQL (COMMIT, row locks) and moka (shared loads, eviction), as
  the code relies on them.

### RosterEntries

The state is the `tournaments` row (`status`, `round`, `window`, `capacity`), per
manager the `tournament_entries` row with its `entry_slots` and `roster_swaps`,
the row locks `tlock` and `elock[m]`, and per request what it has read: `seen`
(the tournament at its first statement), `loaded` (the entry), `seats` (the
capacity under the lock). Each request walks through the statements of its
function:

* `register`: `Begin`, `FindNoEntry`, `LockCapacity` (SELECT .. FOR UPDATE on the
  tournament), `CountEntries`, `InsertEntry` (the unique index refuses a second).
* `set_slots`, `lock_roster`: `Begin`, `LoadEntry` with no lock and the rules on
  that copy, `UpdateEntry` (the UPDATE waits for the row), `SaveEntry`, which
  writes status *and* slots from the copy, as `update_entry` does.
* `swap_roster`: `Begin`, `LockEntry` (FOR UPDATE; with no row there is nothing to
  lock and the request goes on), `LoadForSwap` with `validate_swap`, `SaveEntry`
  with the log rows.
* `Refuse` is the error of a broken rule, `Abort` everything else that rolls the
  transaction back: a failed statement, a refused budget, a dropped handler.
* Admins: `AdvanceRound` and `SetSwapWindow` are one UPDATE each; `update` is
  `ReadForUpdate` (no lock; the round and the window it carries over),
  `WriteTournament` (holds the row), `PurgeEntry` row by row when the status
  becomes LIVE, `SaveTournament` (COMMIT). A purged row's copies are `"gone"`:
  the UPDATE by id finds nothing.

`RosterBook` says what all of this is for: every change of an entry takes place at
once, on the entry as it then is, and the tournament goes from one status to the next
losing drafts and never a locked roster. Its variables are variables of `RosterEntries`,
which hold committed rows: what a request has read or deleted and not yet committed is
not in the book.

Abstracted: heroes' costs and the budget (its refusal is `Abort`); the entry row
and its slots, read by two statements, as one read; the columns of `tournaments`
that no property tells apart (`RosterSize` and `SwapsPerRound` are constants,
though `update` may change them). The budget, the roles and what the log is for
are in `Season`.

### StandingsStream

Composes the hub with a browser tab. Match lists and the reads of them are
`MatchFeed` (`Feed!Change`, `Feed!Settle`, `Feed!Ask`, `Feed!Answer`), which
`MatchCache` is proved to implement: what is relied on here is what is proved
there. The board and the ticker are fetched by one `Promise.all` and shown
together, so they are one board, known by its revision.

* Server: `Record`, `Complete`, `Notify` are a match write from its COMMIT to its
  push, `SkipNotify` a write whose COMMIT reply was lost. `Subscribe` is `register`,
  under the registry's lock, with both caps; `Drop` is `Subscription::drop`, which
  may come long after the client has gone. `conn[c].backlog` counts the signals a
  receiver has not read; past `CHANNEL_CAPACITY` the next `recv` is `Lagged`.
* Stream client: `link[x]` is the loop of one `openStandingsStream`:
  `ConnectionLost` (a network failure, a 503, the end of the stream) backs off,
  `Reconnect` tries again, `GiveUp` is a permanent 4xx, `Update` delivers one event,
  which starts a refresh of whatever is selected by then.
* Store: `Load` (mount or selection), `Stop` (unmount), `LoadEnds` and
  `RefreshEnds` (a promise settles, with or without a response). A step is the
  code between two awaits. `token` is `useAsyncRequest`'s counter, `close` is
  `closeStream`.
* `asked` and `told` are history: what was settled when the tab last asked for its
  selection, and the newest write a subscription was told of.

`Fetches`, `Streams` and `Connections` are pools that bound what may be in flight.
Back-off delays and the hour after which a stream ends are left open: they may
pass at any time.

### MatchForms

The way of a match from an admin's screen to the table. `form` is the wizard's
(`frontend/src/domain/matchForm.ts`): blank, half-filled, seeded by an import
(`FormFromPreview` of `MatchImport!Preview`) or by the recorded match
(`FormFromMatch`). Each edit is an action (`AddDraftPick`, `RemoveDraftPick` with
its cascade, `AddSideBan`, `AssignBanToSide`, `Field`, `SetWinner`, `RemoveGame`
with its renumbering, `ApplyStats`, ..) and offers what the dropdown offers
(`Fieldable`, `Bannable`, `PreBannable`, `Draftable`). `Complete` is the form's
`validate`, `ToPayload` what it sends. `SaveMatch` is `record` or `correct`:
`MatchPolicy!Validate`, then `MatchRows!Inserts` after `DeleteChildren`, refused
as a whole if a constraint refuses a row. `SubmitOther` is a client that is not
the wizard: it changes one thing of what the wizard would send.

* `MatchPolicy` has one operator per rule, and reports every broken one.
* `MatchRows` has the tables of a match as sets of rows, the primary, unique, check and
  foreign keys they meet (`Storable`), and `Assemble`, which reads a match back.
  The rows of an insert are a family keyed by their place in the submission, so a
  repeated row is still a second row for a unique key; `OrderBy` is a query's
  `order by`, defined by rank.
* `WellShaped` is what deserialisation and the rules of the request's fields leave:
  nothing of another shape reaches the policy.
* `MatchImport` resolves names exactly or by alias, drops repeated picks, numbers
  games, keeps one ban per hero.
* `MatchScoring` has the contexts of a hero in a match, every metric of the
  registry, the pricing and its rounding.

Abstracted: round, time, link and player labels; spellings (a name is a pair of
its normal form and a tag); points are integers in 1/100 and coefficients in
1/10000, so a product is exact where the code multiplies `f64`.

### Season

One tournament with roles. `swap_roster` and `set_roles` are `Begin` (the
tournament is read, at any time and whatever else is in flight), `LoadForSwap` or
`LoadForRoles` (the entry's row is locked, everything validated by `RosterPolicy` and
`RosterRoles`) and `Commit`, which writes under the round that was read;
`set_slots` and `lock_roster`, whose interleavings are `RosterEntries`' subject,
are one step each. Admins advance rounds, open and close the window, change the
status (with the purge), take heroes out of the pool, record, correct and delete
results. The boards are operators of the state, as every GET computes them:
`StandingsBoard` (`LeagueTable!Board` over the locked entries, their swaps by round
and id and their role log), the ticker's entries, `HeroStats`, `Titles`.

A submitted list of roles, a merged one and the current one are families of
(hero, role) pairs: a list may name a hero twice, and what is then counted or
refused depends on it.

`held[m][r]` and `cast[m][r]` are history: the heroes and roles manager `m` really
had in round `r`. The board knows neither; it undoes the swap log from today's
roster and replays it. `overtaken` is history too: the managers one of whose requests
wrote behind rows of a later round, because it read the tournament, waited for the row,
and another request of theirs committed in the round that came.

### Catalogue

Every save of an admin is: check, then write, in one READ COMMITTED transaction,
with unique indexes, foreign keys and triggers behind it. `Start` is the check,
on committed rows; the statements that follow (`Save`, `SetRoles`, `Delete`,
`Deactivate`, `Flip`, `Raise`, `Recheck`) write rows into `mine[s]`, which locks
them, and wait where PostgreSQL waits: for a row another transaction holds, and for
a key another transaction is about to take or give up. `Commit` runs the deferred
check of a match's board, `Abort` is a client that hangs up or a deadlock the
database breaks. A request ends with `"ok"`, with an error of its own (`"named"`),
with the generic 409 of an untranslated constraint (`"generic"`) or not at all
(`"dropped"`). Rows have a unique text and what the properties tell apart.

## 3. Runs

All runs end in at most a few minutes on two workers.

| Run | Instance | Shows |
|---|---|---|
| `MatchCacheReads` | 1 tournament, 2 readers, 1 match writer, 2 attempts, 2 writes, handlers dropped at any await | the inductive invariant; reads see settled writes; a removal never hits a valid entry; the push follows the invalidation; `MatchFeed` is implemented |
| `MatchCacheRename` | 2 tournaments, 1 reader, an editor and a match writer, 2 writes | an accepted list is current also while a sweep runs over keys that are being registered; `CurrencyInv`, which carries it |
| `MatchCacheLive` | 1 tournament, 2 readers, 1 writer of every kind of request, with failures | an accepted list is current outside a commit's window; reads return, changes settle |
| `RosterSeats` | 2 managers, capacity 1 or 2, one admin updating | seats, full rosters, and that every request ends; `RosterBook` is implemented, purges included |
| `RosterSwaps` | 1 manager with 2 requests in flight, both swaps or one of them a draft or lock, 3 heroes, rosters of 1, 4 rounds, one admin advancing and opening windows | the log undoes the roster, the allowance is kept, a locked roster moves only by swaps; `RosterBook` is implemented |
| `RosterTabs` | 1 manager with 2 requests in flight, one admin | one submission per round; locked rosters are full |
| `RosterLostLock` | 1 manager with 2 requests | violated: see 6 |
| `StandingsStream` | 1 tab, 2 tournaments, 2 selections, 2 requests and 2 streams in flight, 3 subscriptions, caps 1 and 2, buffer 1, 2 writes | the hub's counts and caps; the board is the selection's; no push is missed by a subscribed tab; the inductive invariant |
| `MatchForms` | 3 priced heroes and one outside the pool, 1 of 2 boards in the pool, 4 scraped pages, 2 drafts, 2 edits or foreign submissions | the form's rules and the server's agree but for what crosses sides; no accepted match meets a constraint; what is read back is what was sent; reopening and saving changes nothing; drafts are priced once and games balance |
| `Season` | 2 managers, one locked before the season and one with two tabs (swap, roles), 4 heroes, rosters of 2, a grant of 5, 1 swap per round, 2 roles (one for a single hero), 3 rounds, 2 results in any round, 2 committed requests after the lock | the board is what was held and cast in each round; locked rosters keep legal roles, caps excepted for the overtaken; all pages price alike; places and titles are fair |
| `SeasonStalled` | the same | violated: see 6 |
| `Catalogue` | 2 concurrent requests out of 3, tables of 2 rows, by area: rule sets, roles, heroes, boards, pool and matches | what two that passed their checks leave behind: unique texts, one active set, no dangling role or board; who meets a raw constraint; a pool removal is refused by name; what a save does not mention stays |

Why the bounds are enough to be interesting. For the cache the races need one
load across one invalidation, a second reader that meets the first one's entry,
and a second write that lands on the retry; 2 readers, 2 attempts and 2 writes
contain all of them, and 2 tournaments are needed only for a sweep that is
halfway. Attempts are 3 in the code; with `MAX_LOAD_ATTEMPTS = 2` both the retry
and the read-through occur. For the rosters a rule is broken by two requests, or
a request and an admin, that read before and write after each other; three
rounds let a swap in the third use what the second left over, and a fourth lets it be
read before the second's and written after it. `RosterSwaps` and `RosterTabs` start
with the manager registered: a swap that finds no row goes on without a lock, which
can cost the round its rule (see 6, A second submission), and the proofs show that
it is the only way. In
`StandingsStream` a cap is met by a subscription the server has not yet dropped,
a buffer of one lags at the second write, and two selections contain a switch as
well as a view that is left and reopened; one tournament more or a third stream
repeats them. `MaxWrites`, `MaxLoads` and `MaxRound` bound counters only. The proofs
remove every bound from the safety properties they cover.

In `MatchForms` a disagreement between two copies of a rule shows in one submission,
which one page or draft and two edits build: the pages and drafts already hold two
games, a hero on both arsenals, bans of either side, names that do not resolve, and
games that are numbered, unnumbered and both. A ban without a side arises from
another client and is then assigned in the wizard. In `Season` three rounds let a
hero leave, return and be given another role in between; two results let one be
recorded late, and be moved to another round, beside one that stays. Its results,
dropped heroes and completion come after the rest of the season: no step of a manager
reads a result, recording one reads no roster, and a smaller pool or a completed
tournament only refuses requests, so every combination of rosters, results and pool
that a board can meet is met in this order too. In `Catalogue` a race needs two
requests, and the third is one that finds what they left.

Readers, names and tournaments (cache), heroes (rosters), and requests, streams and
subscriptions (streams) are interchangeable in the models and are declared
symmetric, except in the runs that check liveness.

Deadlock is checked in the roster runs, where somebody can always ask. The cache
runs stop when `MaxWrites` requests are done and no tournament is left to read,
so they say `CHECK_DEADLOCK FALSE`; so does the stream run, which
ends when the bounded selections and writes are used up, and so do `MatchForms`,
`Season` and `Catalogue`, where the bounded edits and requests run out and nobody
has to go on.

Some properties hold only under a restriction the runs state, and the code does
not impose:

* `AcceptedEntryIsCurrent` needs handlers that run to completion and one catalogue
  editor at a time, as in `MatchCacheLive` and `MatchCacheRename`. In `MatchCacheReads`,
  which does not state it, a client that hangs up while COMMIT is under way ends the
  handler before it announces the completion, and an entry loaded after the first
  announcement stays acceptable. With `May <- AnyRequest` in `MatchCacheRename`, two
  edits of one hero overlap: `renamed` is decided against a name read before the row was
  locked, so the second may change the name and invalidate nothing.
* `LogReplays`, `LockedMovesOnlyBySwap` and the refinement of `RosterBook` are checked
  with one draft or lock of a manager at a time, and any swap beside it. With two drafts
  or locks (`RosterLostLock`), the second writes its copy back over what has been locked,
  and over logged swaps. `LogReplays` says of the log as the standings read it, by rounds,
  that it undoes to the locked roster only where no round was logged behind a later one:
  a swap that read the tournament before the round advanced may log the old round after a
  swap of the new one, and the standings then replay the two in the wrong order. As it
  was written, the log undoes to the locked roster always.
* A registration or a swap is judged on the tournament as its first statement read
  it: it may commit just after an admin has closed the registration or the window.
* Overlapping refreshes of one tournament are not ordered: the response that
  arrives last is shown, until the next update.
* `FormsAreAccepted` excepts three rules, and one more for imported pages. The form
  judges one side at a time, so a hero banned by one side and drafted or fielded by
  the other, or fielded by both, passes it and is refused by the server
  (`BANNED_HERO_DRAFTED`, `BANNED_HERO_PLAYED`, `DUPLICATE_HERO`). A page that numbers
  some games and not others gives repeated or gapped numbers, which the form
  neither checks nor corrects until a game is removed.
* `BoardIsWhatWasHeld` excepts the overtaken managers of `Season`, and
  `LockedRolesComplete` excepts their caps. A request that stalls between reading the
  tournament and taking the row writes under the round it read, however far the season
  has moved. Behind rows of a later round, its swaps are replayed in the wrong order and
  its roles come into force in rounds that have been played, or not at all (see 6,
  `SeasonStalled`). That each hero keeps a role of the book, and that places and prices
  are right, is claimed for the overtaken too.
* `BackstopOnlyAfterRace` and the part of `CarriedOver` about the active rule set except
  saves that an activation overtook: an update writes the flag it read, so it can
  undo the activation or meet the unique index.
* The checks of one `Catalogue` request are one step, though they are several
  statements; the prices of heroes and the tournament's current round do not change.
  A hero that leaves the pool between a match's validation and its rows stays in the
  match: no constraint knows the pool of heroes.

Worth knowing, though no property forbids them: after a hero of a roster has left
the pool the snapshot still calls the roster lockable and the swap possible, at price
0, and the request is then refused (`UNKNOWN_HERO`); an entry that locks late holds
its roster from round 1; a shutout is an opponent on exactly zero.

### Fairness

Cache: weak fairness of every reader's and every writer's own next step. Tokio
polls every task that is ready, and these steps wait for nothing but a database
reply. Requests, faults, evictions and dropped handlers are never forced.
Rosters: PostgreSQL's row locks are queues, so whoever waits for a row that is
released again and again gets it: strong fairness of the steps that acquire a
row; weak fairness of the others. `RequestsEnd` is then the absence of deadlock
and of starvation: the purge takes entry rows while holding the tournament's row,
and no request of a manager takes the tournament's row while holding an entry's.

## 4. Proofs

All leaves are checked by tlapm (SMT, Zenon, LS4).

**MatchCacheProofs**, for any finite sets of tournaments and readers, any
writers, any `MAX_LOAD_ATTEMPTS`, with or without dropped handlers
(`ConstantsAssumption`):

* `TypeCorrect`: `TypeOK`.
* `InvariantHolds`: `IInv`. The idea is `Fresh(t, v, l)`: a list assembled under
  stamp `v` is no newer than the database and, if `v` is still `t`'s version, no
  older than what is settled. A version moves with every announcement and every
  announcement of a completion settles the database as it is then; so a stamp
  that still matches was read after the last of them, and the load came after
  the stamp. The invariant carries `Fresh` along from the snapshot to the entry
  and to each reader that holds it. `IdentityInv` says that addresses are
  identities, which the conditional removal needs.
* `ReadsAreCurrent`, `PushIsLate`, `RemovalsAreSafe`: the properties of
  `MatchCacheReads`.
* `CurrencyHolds`, `SignalIsComplete`: with one catalogue editor and no dropped
  handlers (section 3 says how each fails without), an accepted entry is the
  database's list outside the window of a commit. It needs `CurrencyInv` on top of
  `IInv`: whatever differs between a list and what is settled is owed by some writer
  that will announce it.
* `CacheImplementsFeed`: `Spec => FeedSpec`, step by step
  under the mapping at the end of `MatchCache`.

**RosterEntriesProofs**, for any managers, sessions, admins, heroes and
capacities:

* `TypeCorrect`: `TypeOK`; in particular nobody writes back a purged entry.
* `InvariantHolds`: `IInv`, that is `SeatInv` (from the count to the insert the
  request holds the tournament's row, so neither capacity nor count moves),
  `LoadInv` (a copy about to be written was validated, and its row is there or was
  purged) and `LockedRosterIsComplete`.
* `SeatsAreFree`: `CapacityHeld`, an action property, from the same invariant.
* `LockedRostersAreComplete`.
* `OneSubmission`: `OneSubmissionPerRound`, with any number of requests of a manager
  in flight. Two more invariants carry it: `LockInv` (the row is held by a request of
  its manager, between load and write, or by a purge that has deleted it) and
  `SwapInv` (a swap that holds the row is about to write onto what it was judged
  against, and its round is not yet in the log). The premise `RegisteredApart`,
  stated of the steps, is that no registration commits between a swap's lock that
  found no row and its load. The code does not enforce it (6, A second submission).
* `LockedRostersStay`: `LockedMovesOnlyBySwap` under `OneDrafts`, at most one draft or
  lock of a manager at a time, with any number of swaps, updates and purges, and
  `RegisteredApart`; two drafts at a time are the finding `RosterLostLock`. `DraftInv` says
  that a draft writes the row it loaded or a purged one.
* `AllowancesAreKept`: `AllowanceKept`, as long as no update writes an earlier round
  back (`NoRoundBack`; 6, A lost round). `AllowanceInv` says that what a swap is about
  to log still fits into what its round offers; rows are counted as a finite set, so
  no induction over the log is needed.
* `LogsReplay`: `LogReplays`, for logs of any length, any number of swaps in flight and
  any admins, under `OneDrafts` and `RegisteredApart`. `UndoInv` says that the rows of a
  log, undone one by one, lead from today's roster to the one that was locked
  (`Connects`): each swap is judged and written under one lock, so its row leads on from
  the log it finds. Undoing the log as written is then an induction over its tails that
  ends at the opening; and where its rounds never fall, reading it by round is reading it
  by place (`ReadAsWritten`).
* `RostersImplementBook`: `BookSpec`, step by step. A draft or a lock is judged on a
  copy, but writes the entry that is there or none (`DraftInv`); a seat is counted under
  the tournament's row (`SeatInv`); a swap spends what is on offer (`AllowanceInv`); a
  purge is the step in which the tournament is saved as LIVE. `AskedInv` adds what was
  asked for: a draft that fits, and a purge only for a status that goes live. The round a swap counts in may be older than the tournament's, so `Swap` of
  the book takes any round up to the current one: that is what the code promises.
  The premises are those of `LogsReplay` and `NoRoundBack`.

**FoldLemmas.** The induction theorems of the library cannot be used, for they take an
operator as a parameter. Strict inclusion on the subsets of a finite set is well-founded,
and that fact is about sets: every non-empty family of subsets has a minimal member
(`MinimalSubset`). From it follow induction over finite sets and over the natural numbers,
that a fold's recursion has exactly one solution (`SolutionExists`, `SolutionsAgree`), and
that a fold over a sequence can be followed tail by tail (`TailsAgree`). Then what the
tables are made of: a sum does not depend on the order of its terms nor on how they are
grouped or renamed (`SumOverParts`, `SumRenamed`, `SumsCommute`), `Sorted` lists a set
in any order that tells its elements apart, each element once, and a list sorted by a
score that opens a place wherever the score changes gives each element one place more than
there are better ones (`RankedFairly`).

**StandingsStreamProofs**, for any tabs, requests, streams and writers, any finite
set of subscriptions, any caps and buffer size from 1 on:

* `TypeCorrect`, `HubAccountsHold`, `BoardsAreOfSelections`, `NothingHeardIsLost`:
  types, and the properties of the run `StandingsStream`, all from
* `InvariantHolds`: `IInv`. None of them is inductive alone. `LinkInv` (a stream
  that is not ended belongs to a tab with a selection) gives an event something to
  refresh; `PeerInv` (an open stream has at most one subscription) keeps `Drop` of
  one subscription from cutting off another; `ToldInv` (no subscription is told of
  more than is settled, because a write is announced complete before it is pushed)
  makes a request sent after hearing a signal new enough for all that was lost
  with it. The accounts then follow from adding and removing one element of a
  finite set.

**CatalogueProofs**, for any sessions, names, metrics, links and requests, and any
starting tables that keep the schema's rules (`CatalogueAssumption`,
`StartAssumption`, `NoneAssumption`):

* `TypeCorrect`: `TypeOK`, with the shape of every row of every table.
* `TablesAreSound`: `TablesHold`. In every committed state no link or name is in two rows,
  at most one rule set is active, every assigned role is there and each match's board is
  in the pool. It takes two more invariants, of which `TextsStayUnique` is the theorem:
  `KeysInv` (no text is in two rows, whichever of the versions in flight are committed,
  because a write waits for whoever is about to take or give up its text) and `GivenInv`
  (while an assignment is there or being written, its role is neither gone nor going).
* `RemovalsNameTheirBoard`: `RemovalNamesItsBoard`. A removal holds the pool row from
  its delete to its end, and a match of that board needs the row, so what the recheck
  finds is final: the deferred foreign key has nothing left to refuse.
* `SavesCarryOver`, `BackstopIsForRaces`: the two action properties of the run, from
  the same invariant.

`Inductive` proves `IInv`: types; no row held by two transactions (`RowsHeldOnce`);
for boards (`BoardInv`) and rule sets (`SetsInv`, `FlagInv`), what each transaction
has written and which rows it holds by then; and for each request that the row it is
about to save carries over what it was given (`Carried`). None of the properties is
inductive without the first two: a property of committed rows has to know what is
written and not yet committed.

**MatchFormsProofs**, for every pool of boards and heroes and every submission, of
any length, from the wizard or not:

* `PolicyImpliesConstraints`: whatever `MatchPolicy` accepts, no unique, check or
  foreign key constraint refuses a row of. Each constraint follows from the rule of
  the policy that stands for it, so a rule taken out shows as a lemma that no longer
  holds.
* `WrittenReadsBack`: the rows of an accepted submission read back as the submission.
  `OrderBy` is a bijection onto the rows, by counting those below each; hence no fold
  over a list is reasoned about.
* `NoRawConstraint`, `MatchReadsBack`: the invariants `AcceptedIsStorable` and
  `ReadsBackAsSaved`, over any sequence of edits, records and corrections. `Inductive`
  proves the `IInv` they need: the tables are exactly those of the last accepted
  submission, with nothing of an earlier one.
* `RecordedGamesBalance`, `DraftPaysOnce`: the invariants `GamesBalance` and
  `DraftIsPricedOnce`, of the match as it is read back. By `IInv` and `WrittenReadsBack` it
  is an accepted submission, so a game has two seats with different heroes, and a hero
  that is banned is neither drafted by that side nor fielded. The contexts of a game are
  then exactly two, whose gaps cancel to the cent (`TwoWayIsZeroSum`), and those of a
  drafted hero contain one that is not a game, whatever else it did in the match. Both
  hold for every pool, every integer coefficient in `Weights` and any sequence of edits.

**SeasonProofs**, for any managers, sessions, heroes, books of roles and numbers of
requests, any rule set and any results that may be recorded (`SeasonAssumption`: the
managers who are locked at the start have full, legal rosters of heroes that have a
price, lists are lists, caps are counts, and what stands for an absent value is no role
and no number; `StoredAssumption`: prices, coefficients and numbers of a result are whole
numbers, a result has a hero once per game and a number once, a completed board names a
manager once):

* `RolesComplete`: `LockedRolesComplete`. After a swap and a role change of one manager
  that both began on the old roster, every hero still has a role; and no cap is
  passed, unless a request of the manager wrote behind rows of a later round. `Inductive`
  proves `IInv`: a role log is sound (`SoundLog`: one row per hero and round, and a last row
  per hero, so that its current role is defined); whoever is about to write holds the
  row; and what it is about to write leaves the entry complete (`SoundWrites`). Rows
  that go to the end of the log come into force at once, and the cast is the one that was
  validated. Rows that go behind others leave some heroes with the role they had: one of
  the book's, but not the one that was counted against the caps.
* `StoredIsReadable`: `Stored`, what the tables are folded from: swaps are lists,
  results are lists of results that may be recorded, whatever is swapped, recorded,
  corrected or deleted. It makes every price, sum and holding below well defined.
* `PlacesFair`: `PlacesAreFair`. A leaderboard, a hero table, each of its columns and the
  Hall of Fame rank finite sets of rows with different names, in an order that goes
  by the score first (`RankedFairly`). A board therefore numbers from one and names nobody
  twice (`BoardFinished`), so counting podium rows tournament by tournament and name by
  name comes to the same (`CountedTwice`).
* `OnePrice`: `OnePriceEverywhere`. A hero's total is one sum over the appearances and
  the metrics, added up column by column in the hero table (`TotalByAppearance`), match by
  match on the ticker (`TotalByMatch`), and on the leaderboard by a roster that holds the
  hero throughout (`OnlyRow`). On the ticker each context of a hero is at exactly one
  place: a seat at its game, a draft at the first game the hero played or below, a ban
  below (`TickerAddsUp`). That needs the first game to be one game, hence that a number
  is used once.
* `HistoryTold`: `HistoryInv`, what the two logs of an entry say of the season, for every
  manager who has not been overtaken. The log of
  swaps is in the order of the rounds; each of its prefixes leads to the next
  roster by one exchange (`Leads`), from the first roster to today's; and the roster
  after the swaps of rounds up to `r` is the one that was held in `r`. The log
  of roles has in force in `r` what was played in `r`. A request in flight carries swaps
  that lead on from the log and roles that add up to the cast it decided on; that the
  row is held until the commit (`IInv`) makes this true of the log they are written to,
  unless that log already has rows of a later round.
* `BoardHeld`: `BoardIsWhatWasHeld`, of the managers who have not been overtaken. Undone swap by swap from today's roster and replayed
  from round 1, the log yields holdings that cover in each round the heroes held in
  it, each once (`HoldingsTell`, `HoldingsCover`). So an appearance is banked by at most one
  holding (`BankedOnce`), and the row of the board, added up by columns, and the
  history, added up by matches, are both one sum over the appearances of held heroes, at
  the weight of the role they had (`RowAddsUp`, `EarnedAddsUp`).

**MatchScoringProofs**, for every health value, coefficient and amount:
`RoundingIsSymmetric`, `RoundingIsNearest`, and from the first, `TwoWayIsZeroSum`: in a
game of two different heroes the two-way differential pays one side what it takes
from the other, to the cent. Its lemmas say what a sum of prices is, whichever is added
first, and which contexts a hero has in a match.

Only model-checked:

* Liveness (`ReadsReturn`, `ChangesSettle`, `RequestsEnd`), which needs ENABLED.
* `FormsAreAccepted` and `CorrectionIsFaithful`: the way through the form selects,
  renumbers and drops entries of lists with `SelectSeq`, whose recursion the provers do
  not see. `FormsAreAccepted` also depends on the bounds of the instance: a form of
  more edits could hold more games or bans than a request may. `TypeOK` of `MatchForms`
  speaks of the form, likewise.

The inductive invariants of `RosterEntries`, `MatchCache` and `StandingsStream` are
invariants of runs; those of `Catalogue`, `MatchForms` and `Season`, and `Stored`, were checked by TLC
on the instances of their runs before they were proved. So were `UndoInv`, `AskedInv` and `HistoryInv`.

## 5. Mutants

Definitions named `X_Something` in the models are mistakes a change of `X` could
plausibly make: an entry stamped after its load, an unconditional removal, a
sweep that misses what is loading, a capacity read without a lock, a swap's id
read without a lock, a save that locks rows in the wrong order, a signal that
counts on a request already in flight. Every property of
every passing run is violated by the one listed with it in `PROJECT.json`.

## 6. Findings

* `RosterLostLock`: saving a draft writes back the status it read without a lock;
  a lock committed in between is undone.
* `SeasonStalled`, a stalled request: `set_roles` takes the row lock so that "a concurrent
  swap and role change cannot each validate against the other's stale view"
  (`server/tournament/service.rs:369`), but reads the tournament before it waits for the
  row (379-380), as `swap_roster` does (266-271). A request for roles that read round 1 and
  waits while round 2 begins and a swap of round 2 commits is validated against the swapped
  roster and then writes its roles from round 1: for the hero that came in, the row of
  round 2 still counts. A role can so end up over its cap.

Met while modelling, described here and held off the runs by the restrictions of
section 3:

* **A lost round.** `server/tournament/admin_service.rs:112`: a tournament update
  writes back the round and the window it read without a lock, though the comment at
  line 110 calls them carried over; an advance committed in between is undone.
* **A second submission.** `server/tournament/service.rs:271`: `swap_roster` takes its lock
  with `lock_entry_by_manager` and ignores that it may have found no row. If the
  manager's registration and lock commit before the entry is loaded, the swap goes on
  without the lock that the comment above it (lines 265-270) calls the only thing
  behind one submission per round; a second swap then passes the same check. Nobody
  would meet it in practice; the theorems of section 4 show that there is no other way.
* **A second stream.** `frontend/src/stores/standings.ts:44`: a view that is left and
  reopened while its first load is in flight opens two streams, for both loads find
  their tournament selected. The first is never closed and keeps reconnecting and
  refreshing, though `server/standings/sse.rs:1` speaks of one per tab.
* **A missed update.** `frontend/src/stores/standings.ts:44`: the board is fetched before
  the stream is opened, and not again afterwards or after a reconnect; a match
  recorded in between is not shown until the next one.
* **A skipped push.** `server/match/admin_service.rs:121`: when the reply to COMMIT is
  lost, `outcome?` returns before the push. The cache has been invalidated, so whoever
  asks sees the write; browsers are not told to ask.
* **An activation undone.** `server/scoring/admin_service.rs:113`: an update of a rule
  set writes the `is_active` it read; an activation of another set that began and
  committed in between leaves no active set, or two claims of which the unique index
  refuses one. The comment at 110-111 has the flag carried over untouched.
* **Bans the form lets pass.** `frontend/src/domain/matchForm.ts:474` says that
  `BANNED_HERO_PLAYED` cannot be built in the form; it can, when the hero was banned
  out of the other side's draft (section 3).

## 7. Plan

Done so far: the cache and its refinement, rosters and their seats, the stream, the
form, policy, rows and prices of a match, seasons with roles, the admin tables; proofs
about each of them, the board among them.

Next, in order of what matters most to the league's results:

1. **StandingsStream, live**: delivery of signals under fairness, and the streams of
   several tabs that compete for one cap.
2. **Changing terms**: roster size, swaps per round and grant altered by `update` during
   a season.

Not modelled: the connection pool (a cache load precedes the snapshot, so no handler
waits for a second connection while it holds one), provisioning, signing keys and the
rate limiter (no share in the league's results), routing, serialisation,
configuration, the scraper's own process, styling, deployment.
