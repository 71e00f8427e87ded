--------------------------- MODULE StandingsStream ---------------------------
(***************************************************************************)
(* From a recorded match to the board in a browser: the hub of standings   *)
(* streams (backend-rs/crates/umfl-server/src/standings/sse.rs), the       *)
(* stream client (frontend/src/api/sseClient.ts) and the standings store   *)
(* (frontend/src/stores/standings.ts), over a server that answers reads as *)
(* MatchFeed promises.                                                     *)
(*                                                                         *)
(* A step of the server is one critical section of the hub; a step of a    *)
(* tab is the code between two awaits, which JavaScript runs to the end.   *)
(* The board and the ticker, fetched together and shown together, are one  *)
(* board, known by the revision of the match list it was made from.        *)
(***************************************************************************)
EXTENDS Naturals, FiniteSets

CONSTANTS
  Tournaments,
  Tabs,
  Fetches,     \* requests a tab may have in flight; Owner says whose
  Streams,     \* calls of openStandingsStream; Owner says whose
  Owner,
  Connections, \* subscriptions the server may hold
  Writers,     \* concurrent match writes
  MAX_SUBSCRIBERS_PER_TOURNAMENT, MAX_TOTAL_SUBSCRIBERS, CHANNEL_CAPACITY,
  MaxWrites,   \* bound: matches written
  MaxLoads,    \* bound: tournaments selected
  Nothing      \* no selection, no board, no stream, no connection, no peer

ASSUME ConstantsAssumption ==
  /\ IsFiniteSet(Connections)
  /\ Tournaments # {}
  /\ Owner \in [Fetches \cup Streams -> Tabs]
  /\ MAX_SUBSCRIBERS_PER_TOURNAMENT \in Nat \ {0}
  /\ MAX_TOTAL_SUBSCRIBERS \in Nat \ {0}
  /\ CHANNEL_CAPACITY \in Nat \ {0}
  /\ MaxWrites \in Nat /\ MaxLoads \in Nat
  /\ Nothing \notin Tournaments \cup Streams
  /\ Nothing \notin [of : Tournaments, rev : Nat]
  /\ Nothing \notin [of : Tournaments, backlog : Nat, told : Nat,
                     peer : Streams \cup {Nothing}]

VARIABLES
  \* ---- the match lists and the reads of them, as MatchFeed has them -----------
  db, settled, phase, topic, since, answer,
  \* ---- match writes ------------------------------------------------------------
  wpc, wtopic, wrev,
  \* ---- the hub -------------------------------------------------------------------
  subscribers,  \* subscribers[t]: Channel::subscribers, 0 where there is no channel
  total,        \* Registry::total
  conn,         \* conn[c]: a subscription with its receiver, or Nothing
  \* ---- the standings store of a tab -----------------------------------------------
  mounted,      \* the standings view is shown
  selected,     \* tournamentId
  board,        \* what is shown, or Nothing
  token,        \* useAsyncRequest's counter
  close,        \* closeStream: the stream it would close
  job,          \* job[f]: what the response of f is for
  \* ---- the stream client --------------------------------------------------------
  link,         \* link[x]: "ended", "connecting", "open" or "waiting"
  watched,      \* watched[x]: the tournament of the stream
  \* ---- history and bounds ------------------------------------------------------
  asked,        \* asked[b]: what was settled when b last asked for its selection
  loads, writes

feed    == <<db, settled, phase, topic, since, answer>>
writers == <<wpc, wtopic, wrev>>
hub     == <<subscribers, total, conn>>
store   == <<mounted, selected, board, token, close, asked>>
streams == <<link, watched>>
vars    == <<feed, writers, hub, store, job, streams, loads, writes>>

Feed == INSTANCE MatchFeed WITH Readers <- Fetches

Board == [of : Tournaments, rev : Nat]
Connection == [of : Tournaments, backlog : Nat, told : Nat,
               peer : Streams \cup {Nothing}]

TypeOK ==
  /\ db \in [Tournaments -> Nat] /\ settled \in [Tournaments -> Nat]
  /\ phase \in [Fetches -> {"idle", "reading", "done"}]
  /\ topic \in [Fetches -> Tournaments]
  /\ since \in [Fetches -> Nat] /\ answer \in [Fetches -> Nat]
  /\ wpc \in [Writers -> {"idle", "committed", "completed"}]
  /\ wtopic \in [Writers -> Tournaments]
  /\ wrev \in [Writers -> Nat]
  /\ subscribers \in [Tournaments -> Nat] /\ total \in Nat
  /\ conn \in [Connections -> Connection \cup {Nothing}]
  /\ mounted \in [Tabs -> BOOLEAN]
  /\ selected \in [Tabs -> Tournaments \cup {Nothing}]
  /\ board \in [Tabs -> Board \cup {Nothing}]
  /\ token \in [Tabs -> Nat]
  /\ close \in [Tabs -> Streams \cup {Nothing}]
  /\ job \in [Fetches -> [kind : {"load", "refresh"}, token : Nat]]
  /\ link \in [Streams -> {"ended", "connecting", "open", "waiting"}]
  /\ watched \in [Streams -> Tournaments]
  /\ asked \in [Tabs -> Nat]
  /\ loads \in Nat /\ writes \in Nat

Init ==
  /\ Feed!Init
  /\ topic = [f \in Fetches |-> CHOOSE t \in Tournaments : TRUE]
  /\ wpc = [w \in Writers |-> "idle"]
  /\ wtopic = [w \in Writers |-> CHOOSE t \in Tournaments : TRUE]
  /\ wrev = [w \in Writers |-> 0]
  /\ subscribers = [t \in Tournaments |-> 0]
  /\ total = 0
  /\ conn = [c \in Connections |-> Nothing]
  /\ mounted = [b \in Tabs |-> FALSE]
  /\ selected = [b \in Tabs |-> Nothing]
  /\ board = [b \in Tabs |-> Nothing]
  /\ token = [b \in Tabs |-> 0]
  /\ close = [b \in Tabs |-> Nothing]
  /\ job = [f \in Fetches |-> [kind |-> "load", token |-> 0]]
  /\ link = [x \in Streams |-> "ended"]
  /\ watched = [x \in Streams |-> CHOOSE t \in Tournaments : TRUE]
  /\ asked = [b \in Tabs |-> 0]
  /\ loads = 0 /\ writes = 0

-----------------------------------------------------------------------------
(* A match write, from its COMMIT on.                                       *)

\* record, correct, delete: COMMIT takes effect.
Record(w, t) ==
  /\ wpc[w] = "idle" /\ writes < MaxWrites
  /\ Feed!Change({t})
  /\ wpc' = [wpc EXCEPT ![w] = "committed"]
  /\ wtopic' = [wtopic EXCEPT ![w] = t]
  /\ wrev' = [wrev EXCEPT ![w] = db[t] + 1]
  /\ writes' = writes + 1
  /\ UNCHANGED <<hub, store, job, streams, loads>>

\* announce_completed.
Complete(w) ==
  /\ wpc[w] = "committed"
  /\ Feed!Settle(wtopic[w])
  /\ wpc' = [wpc EXCEPT ![w] = "completed"]
  /\ UNCHANGED <<wtopic, wrev, hub, store, job, streams, loads, writes>>

Retire(w) ==
  /\ wpc' = [wpc EXCEPT ![w] = "idle"]
  /\ wrev' = [wrev EXCEPT ![w] = 0]
  /\ UNCHANGED wtopic

\* announce_committed: one more signal for every receiver of the channel.
Notify(w) ==
  /\ wpc[w] = "completed"
  /\ conn' = [c \in Connections |->
                IF conn[c] # Nothing /\ conn[c].of = wtopic[w]
                THEN [conn[c] EXCEPT !.backlog = @ + 1,
                                     !.told = IF @ < wrev[w] THEN wrev[w] ELSE @]
                ELSE conn[c]]
  /\ Retire(w)
  /\ UNCHANGED <<feed, subscribers, total, store, job, streams, loads, writes>>

\* The reply to COMMIT was lost: `outcome?' returns before the push.
SkipNotify(w) ==
  /\ wpc[w] = "completed"
  /\ Retire(w)
  /\ UNCHANGED <<feed, hub, store, job, streams, loads, writes>>

-----------------------------------------------------------------------------
(* The hub.                                                                 *)

\* Mutant of HasRoom: a count equal to the cap is let through.
HasRoom_OffByOne(t) ==
  /\ total <= MAX_TOTAL_SUBSCRIBERS
  /\ subscribers[t] <= MAX_SUBSCRIBERS_PER_TOURNAMENT

HasRoom(t) ==
  /\ total < MAX_TOTAL_SUBSCRIBERS
  /\ subscribers[t] < MAX_SUBSCRIBERS_PER_TOURNAMENT

\* register, and the response that opens the stream.
Subscribe(x, c) ==
  /\ link[x] = "connecting" /\ conn[c] = Nothing
  /\ HasRoom(watched[x])
  /\ subscribers' = [subscribers EXCEPT ![watched[x]] = @ + 1]
  /\ total' = total + 1
  /\ conn' = [conn EXCEPT ![c] = [of |-> watched[x], backlog |-> 0, told |-> 0,
                                  peer |-> x]]
  /\ link' = [link EXCEPT ![x] = "open"]
  /\ UNCHANGED <<feed, writers, store, job, watched, loads, writes>>

\* Subscription::drop, when the body is dropped: the hour is over, a send fails,
\* or the client is gone.  A client that was still there sees the end.
Drop(c) ==
  /\ conn[c] # Nothing
  /\ subscribers' = [subscribers EXCEPT ![conn[c].of] = @ - 1]
  /\ total' = total - 1
  /\ conn' = [conn EXCEPT ![c] = Nothing]
  /\ link' = [x \in Streams |-> IF x = conn[c].peer THEN "waiting" ELSE link[x]]
  /\ UNCHANGED <<feed, writers, store, job, watched, loads, writes>>

-----------------------------------------------------------------------------
(* The stream client.                                                       *)

\* The server is still to find out that x no longer reads.
Detached(x) ==
  [c \in Connections |-> IF conn[c] # Nothing /\ conn[c].peer = x
                         THEN [conn[c] EXCEPT !.peer = Nothing] ELSE conn[c]]

\* The network fails, or the hub is full: back off and retry.
ConnectionLost(x) ==
  /\ link[x] \in {"connecting", "open"}
  /\ link' = [link EXCEPT ![x] = "waiting"]
  /\ conn' = Detached(x)
  /\ UNCHANGED <<feed, writers, subscribers, total, store, job, watched, loads,
                 writes>>

Reconnect(x) ==
  /\ link[x] = "waiting"
  /\ link' = [link EXCEPT ![x] = "connecting"]
  /\ UNCHANGED <<feed, writers, hub, store, job, watched, loads, writes>>

\* A permanent 4xx: the tournament is gone, or the stream is not ours.
GiveUp(x) ==
  /\ link[x] = "connecting"
  /\ link' = [link EXCEPT ![x] = "ended"]
  /\ UNCHANGED <<feed, writers, hub, store, job, watched, loads, writes>>

\* The store asks for tournament t: a request goes out.
AskFor(b, f, t, what) ==
  /\ Owner[f] = b
  /\ Feed!Ask(f, t)
  /\ job' = [job EXCEPT ![f] = what]
  /\ asked' = [asked EXCEPT ![b] = settled[t]]

\* recv: the next signal; or, past the buffer's capacity, Lagged, which counts as
\* one signal and moves the receiver to the oldest that is still there.
Remaining(n) == IF n > CHANNEL_CAPACITY THEN CHANNEL_CAPACITY ELSE n - 1

\* Mutant of Update: a signal that finds a request in flight counts on it.
Update_Coalesced(c, f) ==
  /\ conn[c] # Nothing /\ conn[c].peer # Nothing /\ conn[c].backlog > 0
  /\ LET b == Owner[conn[c].peer]
     IN IF \E g \in Fetches : Owner[g] = b /\ phase[g] # "idle"
        THEN UNCHANGED <<feed, job, asked>>
        ELSE AskFor(b, f, selected[b], [kind |-> "refresh", token |-> 0])
  /\ conn' = [conn EXCEPT ![c].backlog = Remaining(@)]
  /\ UNCHANGED <<writers, subscribers, total, mounted, selected, board, token,
                 close, streams, loads, writes>>

\* One "update" event, and onUpdate: a refresh of whatever is selected by now,
\* whatever is in flight.
Update(c, f) ==
  /\ conn[c] # Nothing /\ conn[c].peer # Nothing /\ conn[c].backlog > 0
  /\ LET b == Owner[conn[c].peer]
     IN AskFor(b, f, selected[b], [kind |-> "refresh", token |-> 0])
  /\ conn' = [conn EXCEPT ![c].backlog = Remaining(@)]
  /\ UNCHANGED <<writers, subscribers, total, mounted, selected, board, token,
                 close, streams, loads, writes>>

-----------------------------------------------------------------------------
(* The standings store.                                                     *)

\* Mutant of Closed: the retries stop, the request under way is not aborted.
Closed_KeepsReading(b) ==
  /\ link' = [x \in Streams |-> IF x = close[b] THEN "ended" ELSE link[x]]
  /\ UNCHANGED <<hub, watched>>

\* closeStream?.(): the stream stops retrying and its connection is aborted.
Closed(b) ==
  /\ link' = [x \in Streams |-> IF x = close[b] THEN "ended" ELSE link[x]]
  /\ conn' = IF close[b] = Nothing THEN conn ELSE Detached(close[b])
  /\ UNCHANGED <<subscribers, total, watched>>

\* load(t): the view is opened on the tournament selected last, or on a default,
\* or another tournament is picked.
Load(b, t, f) ==
  /\ IF mounted[b] THEN t # selected[b] ELSE selected[b] \in {t, Nothing}
  /\ loads < MaxLoads
  /\ loads' = loads + 1
  /\ Closed(b)
  /\ mounted' = [mounted EXCEPT ![b] = TRUE]
  /\ selected' = [selected EXCEPT ![b] = t]
  /\ board' = [board EXCEPT ![b] = Nothing]
  /\ close' = [close EXCEPT ![b] = Nothing]
  /\ token' = [token EXCEPT ![b] = @ + 1]
  /\ AskFor(b, f, t, [kind |-> "load", token |-> token[b] + 1])
  /\ UNCHANGED <<writers, writes>>

\* stop(), on unmount.
Stop(b) ==
  /\ mounted[b]
  /\ mounted' = [mounted EXCEPT ![b] = FALSE]
  /\ Closed(b)
  /\ close' = [close EXCEPT ![b] = Nothing]
  /\ UNCHANGED <<feed, writers, selected, board, token, asked, job, loads, writes>>

\* The server answers; the response is on its way.
Answer(f) ==
  /\ Feed!Answer(f)
  /\ UNCHANGED <<writers, hub, store, job, streams, loads, writes>>

\* f's promise settles: with the response, or with an error.
Settles(f, ok) == IF ok THEN Feed!Deliver(f) ELSE Feed!Fail({f})

\* Mutant of Current: the response is not compared with the selection.
Current_Unchecked(f) == TRUE

\* tournamentId.value === id
Current(f) == selected[Owner[f]] = topic[f]

\* openStandingsStream, whose run() connects at once.
Open(x, t) ==
  /\ link[x] = "ended" /\ close[Owner[x]] # x
  /\ link' = [link EXCEPT ![x] = "connecting"]
  /\ watched' = [watched EXCEPT ![x] = t]
  /\ close' = [close EXCEPT ![Owner[x]] = x]

\* The board of f replaces what is shown if its promise settled with one.
Shows(f, ok) ==
  board' = IF ok THEN [board EXCEPT ![Owner[f]] = [of  |-> topic[f],
                                                   rev |-> answer[f]]]
                 ELSE board

\* load goes on.  A superseded call has no result, and opens the stream anyway
\* if its tournament is selected again.
LoadEnds(f, ok, x) ==
  /\ job[f].kind = "load"
  /\ Settles(f, ok)
  /\ IF Current(f)
     THEN /\ Shows(f, ok /\ job[f].token = token[Owner[f]])
          /\ Owner[x] = Owner[f]
          /\ Open(x, topic[f])
     ELSE UNCHANGED <<board, close, streams>>
  /\ UNCHANGED <<writers, hub, mounted, selected, token, asked, job, loads, writes>>

\* refresh goes on; an error leaves the board as it is.
RefreshEnds(f, ok) ==
  /\ job[f].kind = "refresh"
  /\ Settles(f, ok)
  /\ Shows(f, ok /\ Current(f))
  /\ UNCHANGED <<writers, hub, mounted, selected, token, close, asked, job,
                 streams, loads, writes>>

-----------------------------------------------------------------------------
Server ==
  \/ \E w \in Writers :
       \/ \E t \in Tournaments : Record(w, t)
       \/ Complete(w) \/ Notify(w) \/ SkipNotify(w)
  \/ \E f \in Fetches : Answer(f)
  \/ \E c \in Connections : Drop(c) \/ \E x \in Streams : Subscribe(x, c)

Client(x) == ConnectionLost(x) \/ Reconnect(x) \/ GiveUp(x)

Ends(f) ==
  \E ok \in BOOLEAN : RefreshEnds(f, ok) \/ \E x \in Streams : LoadEnds(f, ok, x)

Tab(b) ==
  \/ \E f \in Fetches : \E t \in Tournaments : Load(b, t, f)
  \/ Stop(b)

Next ==
  \/ Server
  \/ \E x \in Streams : Client(x)
  \/ \E c \in Connections, f \in Fetches : Update(c, f)
  \/ \E f \in Fetches : Ends(f)
  \/ \E b \in Tabs : Tab(b)

Spec == Init /\ [][Next]_vars

-----------------------------------------------------------------------------
(* Properties.                                                              *)

Held(t) == {c \in Connections : conn[c] # Nothing /\ conn[c].of = t}

\* However subscribers come, are cut off and come back before the server has
\* noticed, the registry counts its open streams and keeps to both caps.
HubAccounts ==
  /\ \A t \in Tournaments :
       /\ subscribers[t] = Cardinality(Held(t))
       /\ subscribers[t] <= MAX_SUBSCRIBERS_PER_TOURNAMENT
  /\ total = Cardinality({c \in Connections : conn[c] # Nothing})
  /\ total <= MAX_TOTAL_SUBSCRIBERS

\* "An out-of-order response must not clobber the newer selection's board":
\* what is shown is the selected tournament's, whichever responses are late.
BoardIsOfSelection ==
  \A b \in Tabs : board[b] # Nothing => board[b].of = selected[b]

\* "One update now says everything the missed ones would have": a tab that has
\* no signal left to hear asked for its board after the newest write its stream
\* was told of, and when that write was there to be read.
HeardIsAsked ==
  \A c \in Connections :
    conn[c] # Nothing /\ conn[c].peer # Nothing /\ conn[c].backlog = 0 =>
      LET b == Owner[conn[c].peer]
      IN conn[c].of = selected[b] => asked[b] >= conn[c].told

-----------------------------------------------------------------------------
(* An inductive invariant that contains these properties.                   *)

\* Only a tab that has selected a tournament has a stream that is not ended.
LinkInv == \A x \in Streams : link[x] # "ended" => selected[Owner[x]] # Nothing

Heard(c) == conn[c] # Nothing /\ conn[c].peer # Nothing

\* A stream reads from at most one subscription, and only while it is open.
PeerInv ==
  \A c \in Connections : Heard(c) =>
    /\ link[conn[c].peer] = "open"
    /\ \A d \in Connections : Heard(d) /\ conn[d].peer = conn[c].peer => d = c

\* A signal is sent after the completion of the write it stands for.
ToldInv ==
  /\ \A t \in Tournaments : settled[t] <= db[t]
  /\ \A w \in Writers :
       /\ wpc[w] = "committed" => wrev[w] <= db[wtopic[w]]
       /\ wpc[w] = "completed" => wrev[w] <= settled[wtopic[w]]
  /\ \A c \in Connections :
       conn[c] # Nothing => conn[c].told <= settled[conn[c].of]

\* Whatever step comes next, the properties above still hold after it: streams
\* outlive neither their selection nor their one subscription, and nobody is
\* told of a write that cannot be read yet.
IInv ==
  /\ TypeOK
  /\ LinkInv /\ PeerInv /\ ToldInv
  /\ HubAccounts /\ BoardIsOfSelection /\ HeardIsAsked

=============================================================================
