------------------------ MODULE StandingsStreamProofs ------------------------
(***************************************************************************)
(* Proofs about StandingsStream: its types, the accounts of the hub, that  *)
(* a board is the selected tournament's, and that a tab with nothing left  *)
(* to hear has asked for what it was told of.                              *)
(***************************************************************************)
EXTENDS StandingsStream, FiniteSetTheorems, TLAPS

\* The fields of a subscription.
LEMMA ConnectionFields ==
  ASSUME NEW e \in Connection
  PROVE  /\ e # Nothing
         /\ e.of \in Tournaments /\ e.backlog \in Nat /\ e.told \in Nat
         /\ e.peer \in Streams \cup {Nothing}
  BY ConstantsAssumption DEF Connection

\* A subscription with a field replaced.
LEMMA ConnectionUpdates ==
  ASSUME NEW e \in Connection
  PROVE  /\ [e EXCEPT !.peer = Nothing] \in Connection
         /\ \A n \in Nat : [e EXCEPT !.backlog = n] \in Connection
         /\ \A n, r \in Nat : [e EXCEPT !.backlog = n, !.told = r] \in Connection
  BY DEF Connection

\* One signal is read, or lost ones are skipped: fewer remain.
LEMMA RemainingType ==
  ASSUME NEW n \in Nat, n > 0
  PROVE  Remaining(n) \in Nat
  BY ConstantsAssumption DEF Remaining

-----------------------------------------------------------------------------
(* Types.                                                                   *)

LEMMA InitType == Init => TypeOK
  BY ConstantsAssumption DEF Init, Feed!Init, TypeOK

\* A stream that is cut off leaves its subscription to the server.
LEMMA DetachedType ==
  ASSUME TypeOK, NEW x \in Streams
  PROVE  Detached(x) \in [Connections -> Connection \cup {Nothing}]
  BY ConnectionUpdates DEF TypeOK, Detached

LEMMA ClosedType ==
  ASSUME TypeOK, NEW b \in Tabs, Closed(b)
  PROVE  /\ link' \in [Streams -> {"ended", "connecting", "open", "waiting"}]
         /\ conn' \in [Connections -> Connection \cup {Nothing}]
         /\ UNCHANGED <<subscribers, total, watched>>
  <1>1. close[b] \in Streams \cup {Nothing}
    BY DEF TypeOK
  <1>2. conn' \in [Connections -> Connection \cup {Nothing}]
    BY <1>1, DetachedType DEF Closed, TypeOK
  <1> QED
    BY <1>2 DEF Closed, TypeOK

LEMMA AskForType ==
  ASSUME TypeOK, NEW b \in Tabs, NEW f \in Fetches, NEW t \in Tournaments,
         NEW k \in {"load", "refresh"}, NEW n \in Nat,
         AskFor(b, f, t, [kind |-> k, token |-> n])
  PROVE  /\ phase' \in [Fetches -> {"idle", "reading", "done"}]
         /\ topic' \in [Fetches -> Tournaments]
         /\ since' \in [Fetches -> Nat]
         /\ job' \in [Fetches -> [kind : {"load", "refresh"}, token : Nat]]
         /\ asked' \in [Tabs -> Nat]
         /\ UNCHANGED <<db, settled, answer>>
  BY DEF TypeOK, AskFor, Feed!Ask

\* The signal an open stream hears is for a tab that has selected a tournament.
LEMMA HeardIsSelected ==
  ASSUME TypeOK, LinkInv, PeerInv, NEW c \in Connections, Heard(c)
  PROVE  /\ conn[c] \in Connection
         /\ conn[c].peer \in Streams
         /\ Owner[conn[c].peer] \in Tabs
         /\ selected[Owner[conn[c].peer]] \in Tournaments
  <1>1. conn[c] \in Connection
    BY DEF TypeOK, Heard
  <1>2. conn[c].peer \in Streams
    BY <1>1, ConnectionFields DEF Heard
  <1>3. Owner[conn[c].peer] \in Tabs
    BY <1>2, ConstantsAssumption
  <1>4. selected[Owner[conn[c].peer]] # Nothing
    BY <1>2 DEF LinkInv, PeerInv
  <1> QED
    BY <1>1, <1>2, <1>3, <1>4 DEF TypeOK

\* A promise settles, either way.
LEMMA SettlesType ==
  ASSUME TypeOK, NEW f \in Fetches, NEW ok \in BOOLEAN, Settles(f, ok)
  PROVE  /\ phase' \in [Fetches -> {"idle", "reading", "done"}]
         /\ since' \in [Fetches -> Nat] /\ answer' \in [Fetches -> Nat]
         /\ UNCHANGED <<db, settled, topic>>
  <1>1. CASE ok
    <2>1. Feed!Deliver(f)
      BY <1>1 DEF Settles
    <2> QED
      BY <2>1 DEF TypeOK, Feed!Deliver
  <1>2. CASE ~ok
    BY <1>2 DEF TypeOK, Settles, Feed!Fail
  <1> QED
    BY <1>1, <1>2

LEMMA ShowsType ==
  ASSUME TypeOK, NEW f \in Fetches, NEW ok \in BOOLEAN, Shows(f, ok)
  PROVE  board' \in [Tabs -> Board \cup {Nothing}]
  <1>1. [of |-> topic[f], rev |-> answer[f]] \in Board
    BY DEF TypeOK, Board
  <1>2. board \in [Tabs -> Board \cup {Nothing}]
    BY DEF TypeOK
  <1>3. CASE ok
    BY <1>1, <1>2, <1>3 DEF Shows
  <1>4. CASE ~ok
    BY <1>2, <1>4 DEF Shows
  <1> QED
    BY <1>3, <1>4

\* What a notification does to a subscription: nothing, or one more signal.
LEMMA NotifiedConnection ==
  ASSUME TypeOK, NEW w \in Writers, Notify(w), NEW c \in Connections
  PROVE  /\ conn[c] = Nothing => conn'[c] = Nothing
         /\ conn[c] # Nothing =>
              /\ conn'[c] \in Connection
              /\ conn'[c].of = conn[c].of /\ conn'[c].peer = conn[c].peer
              /\ \/ conn'[c] = conn[c]
                 \/ /\ conn[c].of = wtopic[w] /\ conn'[c].backlog > 0
                    /\ conn'[c].told \in {conn[c].told, wrev[w]}
  <1>1. CASE conn[c] # Nothing /\ conn[c].of = wtopic[w]
    <2> DEFINE n == conn[c].backlog + 1
               r == IF conn[c].told < wrev[w] THEN wrev[w] ELSE conn[c].told
    <2>1. conn[c] \in Connection
      BY <1>1 DEF TypeOK
    <2>2. conn'[c] = [conn[c] EXCEPT !.backlog = n, !.told = r]
      BY <1>1 DEF Notify
    <2>3. n \in Nat /\ n > 0 /\ r \in Nat /\ r \in {conn[c].told, wrev[w]}
      BY <2>1, ConnectionFields DEF TypeOK
    <2> HIDE DEF n, r
    <2>4. /\ conn'[c] \in Connection
          /\ conn'[c].of = conn[c].of /\ conn'[c].peer = conn[c].peer
          /\ conn'[c].backlog = n /\ conn'[c].told = r
      BY <2>1, <2>2, <2>3 DEF Connection
    <2> QED
      BY <1>1, <2>3, <2>4
  <1>2. CASE ~ (conn[c] # Nothing /\ conn[c].of = wtopic[w])
    BY <1>2 DEF TypeOK, Notify
  <1> QED
    BY <1>1, <1>2

\* One step per action.
LEMMA NextType == IInv /\ [Next]_vars => TypeOK'
  <1> SUFFICES ASSUME IInv, [Next]_vars PROVE TypeOK'
    OBVIOUS
  <1>0. TypeOK /\ LinkInv /\ PeerInv
    BY DEF IInv
  <1> USE DEF feed, writers, hub, store, streams
  <1>1. ASSUME NEW w \in Writers, NEW t \in Tournaments, Record(w, t) PROVE TypeOK'
    BY <1>0, <1>1 DEF TypeOK, Record, Feed!Change
  <1>2. ASSUME NEW w \in Writers, Complete(w) PROVE TypeOK'
    BY <1>0, <1>2 DEF TypeOK, Complete, Feed!Settle
  <1>3. ASSUME NEW w \in Writers, Notify(w) PROVE TypeOK'
    <2>1. \A c \in Connections : conn'[c] \in Connection \cup {Nothing}
      BY <1>0, <1>3, NotifiedConnection
    <2>2. conn' \in [Connections -> Connection \cup {Nothing}]
      BY <1>3, <2>1 DEF Notify
    <2> QED
      BY <1>0, <1>3, <2>2 DEF TypeOK, Notify, Retire
  <1>4. ASSUME NEW w \in Writers, SkipNotify(w) PROVE TypeOK'
    BY <1>0, <1>4 DEF TypeOK, SkipNotify, Retire
  <1>5. ASSUME NEW f \in Fetches, Answer(f) PROVE TypeOK'
    BY <1>0, <1>5 DEF TypeOK, Answer, Feed!Answer
  <1>6. ASSUME NEW c \in Connections, Drop(c) PROVE TypeOK'
    <2>1. conn[c] \in Connection /\ conn[c].of \in Tournaments
      BY <1>0, <1>6, ConnectionFields DEF TypeOK, Drop
    <2> DEFINE Of == Held(conn[c].of)
               All == {d \in Connections : conn[d] # Nothing}
    <2>2. c \in Of /\ c \in All /\ IsFiniteSet(Of) /\ IsFiniteSet(All)
      BY <1>6, <2>1, ConstantsAssumption, FS_Subset DEF Held, Drop
    <2>3. Cardinality(Of) # 0 /\ Cardinality(All) # 0
      BY <2>2, FS_EmptySet
    <2>4. subscribers[conn[c].of] # 0 /\ total # 0
      BY <2>1, <2>3 DEF IInv, HubAccounts
    <2>5. subscribers[conn[c].of] - 1 \in Nat /\ total - 1 \in Nat
      BY <1>0, <2>1, <2>4 DEF TypeOK
    <2>6. /\ subscribers' \in [Tournaments -> Nat] /\ total' \in Nat
          /\ conn' \in [Connections -> Connection \cup {Nothing}]
          /\ link' \in [Streams -> {"ended", "connecting", "open", "waiting"}]
      BY <1>0, <1>6, <2>1, <2>5 DEF TypeOK, Drop
    <2> QED
      BY <1>0, <1>6, <2>6 DEF TypeOK, Drop
  <1>7. ASSUME NEW x \in Streams, NEW c \in Connections, Subscribe(x, c)
        PROVE  TypeOK'
    BY <1>0, <1>7 DEF TypeOK, Subscribe, Connection
  <1>8. ASSUME NEW x \in Streams, ConnectionLost(x) PROVE TypeOK'
    BY <1>0, <1>8, DetachedType DEF TypeOK, ConnectionLost
  <1>9. ASSUME NEW x \in Streams, Reconnect(x) \/ GiveUp(x) PROVE TypeOK'
    BY <1>0, <1>9 DEF TypeOK, Reconnect, GiveUp
  <1>10. ASSUME NEW c \in Connections, NEW f \in Fetches, Update(c, f) PROVE TypeOK'
    <2> DEFINE b == Owner[conn[c].peer]
    <2>1. /\ conn[c] \in Connection /\ b \in Tabs /\ selected[b] \in Tournaments
      BY <1>0, <1>10, HeardIsSelected DEF Heard, Update
    <2>2. AskFor(b, f, selected[b], [kind |-> "refresh", token |-> 0])
      BY <1>10 DEF Update
    <2>3. /\ phase' \in [Fetches -> {"idle", "reading", "done"}]
          /\ topic' \in [Fetches -> Tournaments]
          /\ since' \in [Fetches -> Nat]
          /\ job' \in [Fetches -> [kind : {"load", "refresh"}, token : Nat]]
          /\ asked' \in [Tabs -> Nat]
          /\ UNCHANGED <<db, settled, answer>>
      BY <1>0, <2>1, <2>2, AskForType
    <2>4. [conn[c] EXCEPT !.backlog = Remaining(@)] \in Connection
      BY <1>10, <2>1, ConnectionFields, ConnectionUpdates, RemainingType DEF Update
    <2>5. conn' \in [Connections -> Connection \cup {Nothing}]
      BY <1>0, <1>10, <2>4 DEF TypeOK, Update
    <2> QED
      BY <1>0, <1>10, <2>3, <2>5 DEF TypeOK, Update
  <1>11. ASSUME NEW b \in Tabs, NEW t \in Tournaments, NEW f \in Fetches, Load(b, t, f)
         PROVE  TypeOK'
    <2>1. token[b] + 1 \in Nat
      BY <1>0 DEF TypeOK
    <2>2. /\ phase' \in [Fetches -> {"idle", "reading", "done"}]
          /\ topic' \in [Fetches -> Tournaments]
          /\ since' \in [Fetches -> Nat]
          /\ job' \in [Fetches -> [kind : {"load", "refresh"}, token : Nat]]
          /\ asked' \in [Tabs -> Nat]
          /\ UNCHANGED <<db, settled, answer>>
      BY <1>0, <1>11, <2>1, AskForType DEF Load
    <2>3. /\ link' \in [Streams -> {"ended", "connecting", "open", "waiting"}]
          /\ conn' \in [Connections -> Connection \cup {Nothing}]
          /\ UNCHANGED <<subscribers, total, watched>>
      BY <1>0, <1>11, ClosedType DEF Load
    <2>4. /\ mounted' \in [Tabs -> BOOLEAN]
          /\ selected' \in [Tabs -> Tournaments \cup {Nothing}]
          /\ board' \in [Tabs -> Board \cup {Nothing}]
          /\ close' \in [Tabs -> Streams \cup {Nothing}]
          /\ token' \in [Tabs -> Nat]
          /\ loads' \in Nat
      BY <1>0, <1>11, <2>1 DEF TypeOK, Load
    <2> QED
      BY <1>0, <1>11, <2>2, <2>3, <2>4 DEF TypeOK, Load
  <1>12. ASSUME NEW b \in Tabs, Stop(b) PROVE TypeOK'
    <2>1. /\ link' \in [Streams -> {"ended", "connecting", "open", "waiting"}]
          /\ conn' \in [Connections -> Connection \cup {Nothing}]
          /\ UNCHANGED <<subscribers, total, watched>>
      BY <1>0, <1>12, ClosedType DEF Stop
    <2> QED
      BY <1>0, <1>12, <2>1 DEF TypeOK, Stop
  <1>13. ASSUME NEW f \in Fetches, NEW ok \in BOOLEAN, NEW x \in Streams,
                LoadEnds(f, ok, x)
         PROVE  TypeOK'
    <2>1. /\ phase' \in [Fetches -> {"idle", "reading", "done"}]
          /\ since' \in [Fetches -> Nat] /\ answer' \in [Fetches -> Nat]
          /\ UNCHANGED <<db, settled, topic>>
      BY <1>0, <1>13, SettlesType DEF LoadEnds
    <2>2. CASE Current(f)
      <3>1. board' \in [Tabs -> Board \cup {Nothing}]
        BY <1>0, <1>13, <2>2, ShowsType DEF LoadEnds
      <3>2. Open(x, topic[f]) /\ topic[f] \in Tournaments /\ Owner[x] \in Tabs
        BY <1>0, <1>13, <2>2, ConstantsAssumption DEF LoadEnds, TypeOK
      <3>3. /\ link' \in [Streams -> {"ended", "connecting", "open", "waiting"}]
            /\ watched' \in [Streams -> Tournaments]
            /\ close' \in [Tabs -> Streams \cup {Nothing}]
        BY <1>0, <3>2 DEF TypeOK, Open
      <3> QED
        BY <1>0, <1>13, <2>1, <3>1, <3>3 DEF TypeOK, LoadEnds
    <2>3. CASE ~Current(f)
      BY <1>0, <1>13, <2>1, <2>3 DEF TypeOK, LoadEnds
    <2> QED
      BY <2>2, <2>3
  <1>14. ASSUME NEW f \in Fetches, NEW ok \in BOOLEAN, RefreshEnds(f, ok)
         PROVE  TypeOK'
    <2>1. /\ phase' \in [Fetches -> {"idle", "reading", "done"}]
          /\ since' \in [Fetches -> Nat] /\ answer' \in [Fetches -> Nat]
          /\ UNCHANGED <<db, settled, topic>>
      BY <1>0, <1>14, SettlesType DEF RefreshEnds
    <2>2. board' \in [Tabs -> Board \cup {Nothing}]
      BY <1>0, <1>14, ShowsType DEF RefreshEnds, Current
    <2> QED
      BY <1>0, <1>14, <2>1, <2>2 DEF TypeOK, RefreshEnds
  <1>15. CASE UNCHANGED vars
    BY <1>0, <1>15 DEF TypeOK, vars
  <1> QED
    BY <1>1, <1>2, <1>3, <1>4, <1>5, <1>6, <1>7, <1>8, <1>9, <1>10, <1>11, <1>12,
       <1>13, <1>14, <1>15 DEF Next, Server, Client, Ends, Tab

-----------------------------------------------------------------------------
(* Streams and their subscriptions.                                         *)

\* Cutting x off leaves every other stream its subscription.
LEMMA DetachedHeard ==
  ASSUME TypeOK, NEW x \in Streams, conn' = Detached(x), NEW c \in Connections,
         Heard(c)'
  PROVE  Heard(c) /\ conn'[c] = conn[c] /\ conn[c].peer # x
  <1>1. CASE conn[c] # Nothing /\ conn[c].peer = x
    <2>1. conn[c] \in Connection
      BY <1>1 DEF TypeOK
    <2>2. conn'[c] = [conn[c] EXCEPT !.peer = Nothing]
      BY <1>1 DEF Detached
    <2>3. conn'[c].peer = Nothing
      BY <2>1, <2>2 DEF Connection
    <2> QED
      BY <2>3 DEF Heard
  <1>2. CASE ~ (conn[c] # Nothing /\ conn[c].peer = x)
    BY <1>2 DEF Detached, Heard
  <1> QED
    BY <1>1, <1>2

\* closeStream?.() ends one stream, if any, and touches no other.
LEMMA ClosedHeard ==
  ASSUME TypeOK, PeerInv, NEW b \in Tabs, Closed(b)
  PROVE  /\ PeerInv'
         /\ \A c \in Connections : Heard(c)' => Heard(c) /\ conn'[c] = conn[c]
  <1>1. close[b] \in Streams \cup {Nothing}
    BY DEF TypeOK
  <1>2. ASSUME NEW c \in Connections, Heard(c)'
        PROVE  Heard(c) /\ conn'[c] = conn[c] /\ conn[c].peer # close[b]
    <2>1. CASE close[b] = Nothing
      BY <1>2, <2>1 DEF Closed, Heard
    <2>2. CASE close[b] # Nothing
      BY <1>1, <1>2, <2>2, DetachedHeard DEF Closed
    <2> QED
      BY <2>1, <2>2
  <1>3. ASSUME NEW c \in Connections, Heard(c)' PROVE conn[c].peer \in Streams
    <2>1. Heard(c) /\ conn[c] \in Connection
      BY <1>2, <1>3 DEF TypeOK, Heard
    <2> QED
      BY <2>1, ConnectionFields DEF Heard
  <1> QED
    BY <1>2, <1>3 DEF PeerInv, Closed

\* What each step does to LinkInv and PeerInv.
LEMMA NextStreams == IInv /\ [Next]_vars => LinkInv' /\ PeerInv'
  <1> SUFFICES ASSUME IInv, [Next]_vars PROVE LinkInv' /\ PeerInv'
    OBVIOUS
  <1>0. TypeOK /\ LinkInv /\ PeerInv /\ TypeOK'
    BY NextType DEF IInv
  <1> USE DEF feed, writers, hub, store, streams
  <1>1. ASSUME UNCHANGED <<conn, link, selected>> PROVE LinkInv' /\ PeerInv'
    BY <1>0, <1>1 DEF LinkInv, PeerInv, Heard
  <1>2. ASSUME NEW w \in Writers, Notify(w) PROVE LinkInv' /\ PeerInv'
    <2>1. \A c \in Connections :
            Heard(c)' => Heard(c) /\ conn'[c].peer = conn[c].peer
      BY <1>0, <1>2, NotifiedConnection DEF Heard
    <2>2. LinkInv' /\ UNCHANGED link
      BY <1>0, <1>2 DEF Notify, LinkInv
    <2> QED
      BY <1>0, <2>1, <2>2 DEF PeerInv
  <1>3. ASSUME NEW c \in Connections, Drop(c) PROVE LinkInv' /\ PeerInv'
    <2>1. conn[c] \in Connection /\ conn'[c] = Nothing
      BY <1>0, <1>3 DEF TypeOK, Drop
    <2>2. ASSUME NEW d \in Connections, Heard(d)'
          PROVE  /\ d # c /\ Heard(d) /\ conn'[d] = conn[d]
                 /\ conn[d].peer \in Streams /\ conn[d].peer # conn[c].peer
      <3>1. d # c /\ Heard(d) /\ conn'[d] = conn[d]
        BY <1>0, <1>3, <2>1, <2>2 DEF Drop, Heard, TypeOK
      <3>2. conn[d] \in Connection /\ conn[d].peer \in Streams
        BY <1>0, <3>1, ConnectionFields DEF TypeOK, Heard
      <3>3. conn[d].peer # conn[c].peer
        BY <1>0, <1>3, <3>1 DEF PeerInv, Heard, Drop
      <3> QED
        BY <3>1, <3>2, <3>3
    <2>3. LinkInv'
      <3> SUFFICES ASSUME NEW x \in Streams, link'[x] # "ended"
                   PROVE  selected[Owner[x]] # Nothing
        BY <1>3 DEF LinkInv, Drop
      <3>1. CASE x = conn[c].peer
        <4>1. Heard(c)
          BY <1>3, <3>1, ConstantsAssumption DEF Heard, Drop
        <4> QED
          BY <1>0, <3>1, <4>1, HeardIsSelected, ConstantsAssumption
      <3>2. CASE x # conn[c].peer
        BY <1>0, <1>3, <3>2 DEF LinkInv, Drop
      <3> QED
        BY <3>1, <3>2
    <2>4. PeerInv'
      BY <1>0, <1>3, <2>2 DEF PeerInv, Drop
    <2> QED
      BY <2>3, <2>4
  <1>4. ASSUME NEW x \in Streams, NEW c \in Connections, Subscribe(x, c)
        PROVE  LinkInv' /\ PeerInv'
    <2>1. conn'[c].peer = x /\ \A d \in Connections : d # c => conn'[d] = conn[d]
      BY <1>0, <1>4 DEF Subscribe, TypeOK
    <2>2. \A d \in Connections : d # c /\ Heard(d)' =>
            Heard(d) /\ conn[d].peer # x /\ conn[d].peer \in Streams
      <3> SUFFICES ASSUME NEW d \in Connections, d # c, Heard(d)'
                   PROVE  Heard(d) /\ conn[d].peer # x /\ conn[d].peer \in Streams
        OBVIOUS
      <3>1. Heard(d)
        BY <2>1 DEF Heard
      <3> QED
        BY <1>0, <1>4, <3>1, HeardIsSelected DEF PeerInv, Subscribe
    <2>3. /\ link'[x] = "open"
          /\ \A y \in Streams : y # x => link'[y] = link[y]
      BY <1>0, <1>4 DEF Subscribe, TypeOK
    <2>4. PeerInv'
      BY <1>0, <2>1, <2>2, <2>3 DEF PeerInv
    <2>5. LinkInv'
      BY <1>0, <1>4, <2>3 DEF LinkInv, Subscribe
    <2> QED
      BY <2>4, <2>5
  <1>5. ASSUME NEW x \in Streams, ConnectionLost(x) PROVE LinkInv' /\ PeerInv'
    <2>1. \A c \in Connections : Heard(c)' =>
            /\ Heard(c) /\ conn'[c] = conn[c]
            /\ conn[c].peer # x /\ conn[c].peer \in Streams
      BY <1>0, <1>5, DetachedHeard, HeardIsSelected DEF ConnectionLost
    <2>2. PeerInv'
      BY <1>0, <1>5, <2>1 DEF PeerInv, ConnectionLost, TypeOK
    <2>3. LinkInv'
      BY <1>0, <1>5 DEF LinkInv, ConnectionLost, TypeOK
    <2> QED
      BY <2>2, <2>3
  <1>6. ASSUME NEW x \in Streams, Reconnect(x) \/ GiveUp(x)
        PROVE  LinkInv' /\ PeerInv'
    <2>1. \A c \in Connections : Heard(c) =>
            conn[c].peer \in Streams /\ link[conn[c].peer] = "open"
      BY <1>0, HeardIsSelected DEF PeerInv
    <2> QED
      BY <1>0, <1>6, <2>1 DEF Reconnect, GiveUp, LinkInv, PeerInv, Heard, TypeOK
  <1>7. ASSUME NEW c \in Connections, NEW f \in Fetches, Update(c, f)
        PROVE  LinkInv' /\ PeerInv'
    <2>1. conn[c] \in Connection /\ Heard(c)
      BY <1>0, <1>7 DEF TypeOK, Update, Heard
    <2>2. conn'[c] = [conn[c] EXCEPT !.backlog = Remaining(@)]
      BY <1>0, <1>7 DEF TypeOK, Update
    <2>3. conn'[c].peer = conn[c].peer /\ \A d \in Connections : d # c => conn'[d] = conn[d]
      BY <1>0, <1>7, <2>1, <2>2 DEF TypeOK, Update, Connection
    <2>4. \A d \in Connections : Heard(d)' => Heard(d) /\ conn'[d].peer = conn[d].peer
      BY <2>1, <2>3 DEF Heard
    <2>5. PeerInv'
      BY <1>0, <1>7, <2>4 DEF PeerInv, Update
    <2>6. LinkInv'
      BY <1>0, <1>7 DEF LinkInv, Update
    <2> QED
      BY <2>5, <2>6
  <1>8. ASSUME NEW b \in Tabs, NEW t \in Tournaments, NEW f \in Fetches, Load(b, t, f)
        PROVE  LinkInv' /\ PeerInv'
    <2>1. PeerInv'
      BY <1>0, <1>8, ClosedHeard DEF Load
    <2>2. \A a \in Tabs : selected[a] # Nothing => selected'[a] # Nothing
      BY <1>0, <1>8, ConstantsAssumption DEF Load, TypeOK
    <2>3. \A x \in Streams : link'[x] # "ended" => link[x] # "ended"
      BY <1>8 DEF Load, Closed
    <2>4. LinkInv'
      BY <1>0, <2>2, <2>3, ConstantsAssumption DEF LinkInv
    <2> QED
      BY <2>1, <2>4
  <1>9. ASSUME NEW b \in Tabs, Stop(b) PROVE LinkInv' /\ PeerInv'
    BY <1>0, <1>9, ClosedHeard DEF Stop, Closed, LinkInv
  <1>10. ASSUME NEW f \in Fetches, NEW ok \in BOOLEAN, NEW x \in Streams,
                LoadEnds(f, ok, x), Current(f)
         PROVE  LinkInv' /\ PeerInv'
    <2>1. Open(x, topic[f]) /\ Owner[x] = Owner[f] /\ UNCHANGED <<conn, selected>>
      BY <1>10 DEF LoadEnds
    <2>2. selected[Owner[x]] # Nothing
      BY <1>0, <1>10, <2>1, ConstantsAssumption DEF Current, TypeOK
    <2>3. \A y \in Streams : y # x => link'[y] = link[y]
      BY <1>0, <2>1 DEF Open, TypeOK
    <2>4. LinkInv'
      BY <1>0, <2>1, <2>2, <2>3 DEF LinkInv
    <2>5. \A c \in Connections : Heard(c) => conn[c].peer \in Streams /\ conn[c].peer # x
      BY <1>0, <2>1, HeardIsSelected DEF PeerInv, Open
    <2>6. PeerInv'
      BY <1>0, <2>1, <2>3, <2>5 DEF PeerInv, Heard
    <2> QED
      BY <2>4, <2>6
  <1> QED
    <2>1. ASSUME NEW f \in Fetches, NEW ok \in BOOLEAN, NEW x \in Streams,
                 LoadEnds(f, ok, x)
          PROVE  LinkInv' /\ PeerInv'
      <3>1. CASE Current(f)
        BY <1>10, <2>1, <3>1
      <3>2. CASE ~Current(f)
        BY <1>1, <2>1, <3>2 DEF LoadEnds
      <3> QED
        BY <3>1, <3>2
    <2>2. ASSUME NEW f \in Fetches, NEW ok \in BOOLEAN,
                 Answer(f) \/ RefreshEnds(f, ok)
          PROVE  LinkInv' /\ PeerInv'
      BY <1>1, <2>2 DEF Answer, RefreshEnds
    <2>3. ASSUME NEW w \in Writers,
                 (\E t \in Tournaments : Record(w, t)) \/ Complete(w) \/ SkipNotify(w)
          PROVE  LinkInv' /\ PeerInv'
      BY <1>1, <2>3 DEF Record, Complete, SkipNotify
    <2>4. CASE UNCHANGED vars
      BY <1>1, <2>4 DEF vars
    <2> QED
      BY <1>2, <1>3, <1>4, <1>5, <1>6, <1>7, <1>8, <1>9, <2>1, <2>2, <2>3, <2>4
      DEF Next, Server, Client, Ends, Tab

-----------------------------------------------------------------------------
(* What the server knows of a subscription while its stream comes and goes. *)

\* The parts of a subscription that only the server touches.
Kept(c) ==
  /\ conn'[c] = Nothing <=> conn[c] = Nothing
  /\ conn[c] # Nothing => conn'[c].of = conn[c].of /\ conn'[c].told = conn[c].told

\* Cutting a stream off keeps the server's part.
LEMMA DetachedKeeps ==
  ASSUME TypeOK, NEW x \in Streams, conn' = Detached(x), NEW c \in Connections
  PROVE  Kept(c)
  <1>1. CASE conn[c] # Nothing /\ conn[c].peer = x
    <2>1. conn[c] \in Connection
      BY <1>1 DEF TypeOK
    <2>2. conn'[c] = [conn[c] EXCEPT !.peer = Nothing]
      BY <1>1 DEF Detached
    <2>3. conn'[c] # Nothing
      BY <2>1, <2>2, ConnectionUpdates, ConnectionFields
    <2> QED
      BY <1>1, <2>1, <2>2, <2>3 DEF Connection, Kept
  <1>2. CASE ~ (conn[c] # Nothing /\ conn[c].peer = x)
    BY <1>2 DEF Detached, Kept
  <1> QED
    BY <1>1, <1>2

LEMMA ClosedKeeps ==
  ASSUME TypeOK, NEW b \in Tabs, Closed(b), NEW c \in Connections
  PROVE  Kept(c)
  <1>1. CASE close[b] = Nothing
    BY <1>1 DEF Closed, Kept
  <1>2. CASE close[b] # Nothing
    BY <1>2, DetachedKeeps DEF Closed, TypeOK
  <1> QED
    BY <1>1, <1>2

\* So does hearing a signal.
LEMMA UpdateKeeps ==
  ASSUME TypeOK, NEW d \in Connections, NEW f \in Fetches, Update(d, f),
         NEW c \in Connections
  PROVE  Kept(c) /\ conn'[c].peer = conn[c].peer /\ (c # d => conn'[c] = conn[c])
  <1>1. CASE c = d
    <2>1. conn[c] \in Connection
      BY <1>1 DEF TypeOK, Update
    <2>2. conn[c].backlog \in Nat /\ conn[c].backlog > 0
      BY <1>1, <2>1, ConnectionFields DEF Update
    <2>3. conn'[c] = [conn[c] EXCEPT !.backlog = Remaining(@)]
      BY <1>1 DEF TypeOK, Update
    <2>4. conn'[c] \in Connection
      BY <2>1, <2>2, <2>3, ConnectionUpdates, RemainingType
    <2>5. conn'[c] # Nothing /\ conn[c] # Nothing
      BY <2>1, <2>4, ConnectionFields
    <2> QED
      BY <1>1, <2>1, <2>3, <2>5 DEF Connection, Kept
  <1>2. CASE c # d
    BY <1>2 DEF TypeOK, Update, Kept
  <1> QED
    BY <1>1, <1>2

\* Outside Notify, Drop and Subscribe every subscription keeps the server's part.
LEMMA OthersKeep ==
  ASSUME TypeOK, [Next]_vars,
         \A w \in Writers : ~Notify(w),
         \A c \in Connections : ~Drop(c),
         \A x \in Streams, c \in Connections : ~Subscribe(x, c)
  PROVE  UNCHANGED <<subscribers, total>> /\ \A c \in Connections : Kept(c)
  <1> USE DEF hub
  <1>1. ASSUME UNCHANGED hub
        PROVE  UNCHANGED <<subscribers, total>> /\ \A c \in Connections : Kept(c)
    BY <1>1 DEF Kept
  <1>2. ASSUME NEW x \in Streams, ConnectionLost(x)
        PROVE  UNCHANGED <<subscribers, total>> /\ \A c \in Connections : Kept(c)
    BY <1>2, DetachedKeeps DEF ConnectionLost
  <1>3. ASSUME NEW c \in Connections, NEW f \in Fetches, Update(c, f)
        PROVE  UNCHANGED <<subscribers, total>> /\ \A d \in Connections : Kept(d)
    BY <1>3, UpdateKeeps DEF Update
  <1>4. ASSUME NEW b \in Tabs, Closed(b)
        PROVE  UNCHANGED <<subscribers, total>> /\ \A c \in Connections : Kept(c)
    BY <1>4, ClosedKeeps DEF Closed
  <1>5. ASSUME NEW b \in Tabs, Tab(b)
        PROVE  Closed(b)
    BY <1>5 DEF Tab, Load, Stop
  <1>6. ASSUME NEW f \in Fetches, Ends(f) PROVE UNCHANGED hub
    BY <1>6 DEF Ends, RefreshEnds, LoadEnds
  <1>7. ASSUME Server PROVE UNCHANGED hub
    BY <1>7 DEF Server, Record, Complete, SkipNotify, Answer
  <1>8. ASSUME NEW x \in Streams, Reconnect(x) \/ GiveUp(x) PROVE UNCHANGED hub
    BY <1>8 DEF Reconnect, GiveUp
  <1>9. CASE UNCHANGED vars
    BY <1>1, <1>9 DEF vars
  <1> QED
    BY <1>1, <1>2, <1>3, <1>4, <1>5, <1>6, <1>7, <1>8, <1>9 DEF Next, Client

-----------------------------------------------------------------------------
(* The accounts of the hub.                                                 *)

\* A subscription more, or one less, is one more or one less in each account.
LEMMA NextAccounts == IInv /\ [Next]_vars => HubAccounts'
  <1> SUFFICES ASSUME IInv, [Next]_vars PROVE HubAccounts'
    OBVIOUS
  <1> DEFINE All == {c \in Connections : conn[c] # Nothing}
  <1>0. TypeOK /\ TypeOK' /\ HubAccounts
    BY NextType DEF IInv
  <1>1. IsFiniteSet(All) /\ \A t \in Tournaments : IsFiniteSet(Held(t))
    BY ConstantsAssumption, FS_Subset DEF Held
  <1>2. ASSUME UNCHANGED <<subscribers, total>>, \A c \in Connections : Kept(c)
        PROVE  HubAccounts'
    <2>1. All' = All
      BY <1>2 DEF Kept
    <2>2. \A t \in Tournaments : Held(t)' = Held(t)
      BY <1>2 DEF Held, Kept
    <2> QED
      BY <1>0, <1>2, <2>1, <2>2 DEF HubAccounts
  <1>3. ASSUME NEW w \in Writers, Notify(w) PROVE HubAccounts'
    <2>1. \A c \in Connections :
            /\ conn[c] = Nothing <=> conn'[c] = Nothing
            /\ conn[c] # Nothing => conn'[c].of = conn[c].of
      BY <1>0, <1>3, NotifiedConnection, ConnectionFields
    <2>2. All' = All /\ \A t \in Tournaments : Held(t)' = Held(t)
      BY <2>1 DEF Held
    <2> QED
      BY <1>0, <1>3, <2>2 DEF HubAccounts, Notify
  <1>4. ASSUME NEW c \in Connections, Drop(c) PROVE HubAccounts'
    <2>1. PICK o \in Tournaments : o = conn[c].of
      BY <1>0, <1>4, ConnectionFields DEF TypeOK, Drop
    <2>2. conn'[c] = Nothing /\ \A d \in Connections : d # c => conn'[d] = conn[d]
      BY <1>0, <1>4 DEF TypeOK, Drop
    <2>3. /\ c \in All /\ All' = All \ {c}
          /\ c \in Held(o) /\ Held(o)' = Held(o) \ {c}
          /\ \A t \in Tournaments : t # o => Held(t)' = Held(t)
      BY <1>4, <2>1, <2>2 DEF Drop, Held
    <2>4. /\ Cardinality(All') = Cardinality(All) - 1
          /\ Cardinality(Held(o)') = Cardinality(Held(o)) - 1
      BY <1>1, <2>3, FS_RemoveElement
    <2>5. /\ total' = total - 1 /\ subscribers'[o] = subscribers[o] - 1
          /\ \A t \in Tournaments : t # o => subscribers'[t] = subscribers[t]
      BY <1>0, <1>4, <2>1 DEF TypeOK, Drop
    <2>6. total' = Cardinality(All') /\ total' <= MAX_TOTAL_SUBSCRIBERS
      BY <1>0, <2>4, <2>5, ConstantsAssumption DEF HubAccounts, TypeOK
    <2>7. ASSUME NEW t \in Tournaments
          PROVE  /\ subscribers'[t] = Cardinality(Held(t)')
                 /\ subscribers'[t] <= MAX_SUBSCRIBERS_PER_TOURNAMENT
      <3>1. CASE t = o
        <4>1. subscribers[o] = Cardinality(Held(o))
          BY <1>0 DEF HubAccounts
        <4>2. subscribers'[o] = Cardinality(Held(o)')
          BY <2>4, <2>5, <4>1
        <4>3. subscribers'[o] <= MAX_SUBSCRIBERS_PER_TOURNAMENT
          BY <1>0, <2>5, ConstantsAssumption DEF HubAccounts, TypeOK
        <4> QED
          BY <3>1, <4>2, <4>3
      <3>2. CASE t # o
        BY <1>0, <2>3, <2>5, <3>2 DEF HubAccounts
      <3> QED
        BY <3>1, <3>2
    <2> QED
      BY <2>6, <2>7 DEF HubAccounts
  <1>5. ASSUME NEW x \in Streams, NEW c \in Connections, Subscribe(x, c)
        PROVE  HubAccounts'
    <2>1. PICK o \in Tournaments : o = watched[x]
      BY <1>0 DEF TypeOK
    <2>2. /\ conn'[c] \in Connection /\ conn'[c].of = o
          /\ \A d \in Connections : d # c => conn'[d] = conn[d]
      BY <1>0, <1>5, <2>1 DEF TypeOK, Subscribe, Connection
    <2>3. /\ c \notin All /\ All' = All \cup {c}
          /\ c \notin Held(o) /\ Held(o)' = Held(o) \cup {c}
          /\ \A t \in Tournaments : t # o => Held(t)' = Held(t)
      BY <1>5, <2>2, ConnectionFields DEF Subscribe, Held
    <2>4. /\ Cardinality(All') = Cardinality(All) + 1
          /\ Cardinality(Held(o)') = Cardinality(Held(o)) + 1
      BY <1>1, <2>3, FS_AddElement
    <2>5. /\ total' = total + 1 /\ subscribers'[o] = subscribers[o] + 1
          /\ \A t \in Tournaments : t # o => subscribers'[t] = subscribers[t]
          /\ total < MAX_TOTAL_SUBSCRIBERS
          /\ subscribers[o] < MAX_SUBSCRIBERS_PER_TOURNAMENT
      BY <1>0, <1>5, <2>1 DEF TypeOK, Subscribe, HasRoom
    <2>6. total' = Cardinality(All') /\ total' <= MAX_TOTAL_SUBSCRIBERS
      BY <1>0, <2>4, <2>5, ConstantsAssumption DEF HubAccounts, TypeOK
    <2>7. ASSUME NEW t \in Tournaments
          PROVE  /\ subscribers'[t] = Cardinality(Held(t)')
                 /\ subscribers'[t] <= MAX_SUBSCRIBERS_PER_TOURNAMENT
      <3>1. CASE t = o
        <4>1. subscribers[o] = Cardinality(Held(o))
          BY <1>0 DEF HubAccounts
        <4>2. subscribers'[o] = Cardinality(Held(o)')
          BY <2>4, <2>5, <4>1
        <4>3. subscribers'[o] <= MAX_SUBSCRIBERS_PER_TOURNAMENT
          BY <1>0, <2>5, ConstantsAssumption DEF HubAccounts, TypeOK
        <4> QED
          BY <3>1, <4>2, <4>3
      <3>2. CASE t # o
        BY <1>0, <2>3, <2>5, <3>2 DEF HubAccounts
      <3> QED
        BY <3>1, <3>2
    <2> QED
      BY <2>6, <2>7 DEF HubAccounts
  <1> QED
    BY <1>0, <1>2, <1>3, <1>4, <1>5, OthersKeep

-----------------------------------------------------------------------------
(* What is shown, and what was told.                                        *)

\* A board is shown only for the selection, and taken away with it.
LEMMA NextBoard == IInv /\ [Next]_vars => BoardIsOfSelection'
  <1> SUFFICES ASSUME IInv, [Next]_vars PROVE BoardIsOfSelection'
    OBVIOUS
  <1>0. TypeOK /\ BoardIsOfSelection
    BY DEF IInv
  <1> USE DEF store
  <1>1. ASSUME UNCHANGED <<board, selected>> PROVE BoardIsOfSelection'
    BY <1>0, <1>1 DEF BoardIsOfSelection
  <1>2. ASSUME NEW b \in Tabs, NEW t \in Tournaments, NEW f \in Fetches, Load(b, t, f)
        PROVE  BoardIsOfSelection'
    BY <1>0, <1>2 DEF BoardIsOfSelection, Load, TypeOK
  <1>3. ASSUME NEW f \in Fetches, NEW ok, Shows(f, ok), Current(f) \/ ~ok,
               UNCHANGED <<topic, selected>>
        PROVE  BoardIsOfSelection'
    BY <1>0, <1>3 DEF BoardIsOfSelection, Shows, Current, TypeOK
  <1>4. ASSUME NEW f \in Fetches, Ends(f) PROVE BoardIsOfSelection'
    <2>1. PICK ok \in BOOLEAN :
             RefreshEnds(f, ok) \/ \E x \in Streams : LoadEnds(f, ok, x)
      BY <1>4 DEF Ends
    <2>2. CASE RefreshEnds(f, ok)
      BY <1>3, <2>2 DEF RefreshEnds, Settles, Feed!Deliver, Feed!Fail
    <2>3. ASSUME NEW x \in Streams, LoadEnds(f, ok, x) PROVE BoardIsOfSelection'
      <3>1. CASE Current(f)
        BY <1>3, <2>3, <3>1 DEF LoadEnds, Settles, Feed!Deliver, Feed!Fail
      <3>2. CASE ~Current(f)
        BY <1>1, <2>3, <3>2 DEF LoadEnds
      <3> QED
        BY <3>1, <3>2
    <2> QED
      BY <2>1, <2>2, <2>3
  <1>5. ASSUME Server PROVE BoardIsOfSelection'
    BY <1>1, <1>5 DEF Server, Record, Complete, Notify, SkipNotify, Answer, Drop,
                      Subscribe
  <1>6. ASSUME NEW x \in Streams, Client(x) PROVE BoardIsOfSelection'
    BY <1>1, <1>6 DEF Client, ConnectionLost, Reconnect, GiveUp
  <1>7. ASSUME NEW c \in Connections, NEW f \in Fetches, Update(c, f)
        PROVE  BoardIsOfSelection'
    BY <1>1, <1>7 DEF Update
  <1>8. ASSUME NEW b \in Tabs, Stop(b) PROVE BoardIsOfSelection'
    BY <1>1, <1>8 DEF Stop
  <1>9. CASE UNCHANGED vars
    BY <1>1, <1>9 DEF vars
  <1> QED
    BY <1>2, <1>4, <1>5, <1>6, <1>7, <1>8, <1>9 DEF Next, Tab

\* What a writer is about to announce is settled, and stays so.
LEMMA NextTold == IInv /\ [Next]_vars => ToldInv'
  <1> SUFFICES ASSUME IInv, [Next]_vars PROVE ToldInv'
    OBVIOUS
  <1>0. TypeOK /\ TypeOK' /\ ToldInv
    BY NextType DEF IInv
  <1> USE DEF feed, writers, hub
  <1>1. \A c \in Connections :
          conn[c] # Nothing => conn[c].of \in Tournaments /\ conn[c].told \in Nat
    BY <1>0, ConnectionFields DEF TypeOK
  <1>2. ASSUME UNCHANGED <<db, settled, writers>>, \A c \in Connections : Kept(c)
        PROVE  ToldInv'
    BY <1>0, <1>2 DEF ToldInv, Kept
  <1>3. ASSUME NEW w \in Writers, NEW t \in Tournaments, Record(w, t) PROVE ToldInv'
    BY <1>0, <1>1, <1>3 DEF ToldInv, TypeOK, Record, Feed!Change
  <1>4. ASSUME NEW w \in Writers, Complete(w) PROVE ToldInv'
    <2>1. \A t \in Tournaments : settled[t] <= settled'[t] /\ settled'[t] <= db[t]
      BY <1>0, <1>4 DEF ToldInv, TypeOK, Complete, Feed!Settle
    <2>2. wrev[w] <= settled'[wtopic[w]] /\ UNCHANGED <<db, wtopic, wrev, conn>>
      BY <1>0, <1>4 DEF ToldInv, TypeOK, Complete, Feed!Settle
    <2>3. \A v \in Writers : v # w => wpc'[v] = wpc[v]
      BY <1>0, <1>4 DEF TypeOK, Complete
    <2>4. \A v \in Writers : wpc'[v] = "completed" => wrev[v] <= settled'[wtopic[v]]
      BY <1>0, <2>1, <2>2, <2>3 DEF ToldInv, TypeOK
    <2>5. \A v \in Writers : wpc'[v] = "committed" => wrev[v] <= db[wtopic[v]]
      BY <1>0, <1>4 DEF ToldInv, TypeOK, Complete
    <2>6. \A c \in Connections : conn[c] # Nothing => conn[c].told <= settled'[conn[c].of]
      BY <1>0, <1>1, <2>1 DEF ToldInv, TypeOK
    <2> QED
      BY <2>1, <2>2, <2>4, <2>5, <2>6 DEF ToldInv
  <1>5. ASSUME NEW w \in Writers, Notify(w) PROVE ToldInv'
    <2>1. wrev[w] <= settled[wtopic[w]]
      BY <1>0, <1>5 DEF ToldInv, Notify
    <2>2. ASSUME NEW c \in Connections, conn'[c] # Nothing
          PROVE  conn'[c].told <= settled[conn'[c].of]
      <3>1. conn[c] # Nothing
        BY <1>0, <1>5, <2>2, NotifiedConnection
      <3>2. conn[c].told <= settled[conn[c].of]
        BY <1>0, <3>1 DEF ToldInv
      <3>3. /\ conn'[c].of = conn[c].of
            /\ \/ conn'[c] = conn[c]
               \/ /\ conn[c].of = wtopic[w]
                  /\ conn'[c].told \in {conn[c].told, wrev[w]}
        BY <1>0, <1>5, <3>1, NotifiedConnection
      <3> QED
        BY <2>1, <3>2, <3>3
    <2>3. UNCHANGED <<db, settled, wtopic>>
      BY <1>5 DEF Notify, Retire
    <2>4. \A v \in Writers : wpc'[v] # "idle" => wpc'[v] = wpc[v] /\ wrev'[v] = wrev[v]
      BY <1>0, <1>5 DEF Notify, Retire, TypeOK
    <2> QED
      BY <1>0, <2>2, <2>3, <2>4 DEF ToldInv
  <1>6. ASSUME NEW w \in Writers, SkipNotify(w) PROVE ToldInv'
    BY <1>0, <1>6 DEF ToldInv, SkipNotify, Retire, TypeOK
  <1>7. ASSUME NEW c \in Connections, Drop(c) PROVE ToldInv'
    BY <1>0, <1>7 DEF ToldInv, Drop, TypeOK
  <1>8. ASSUME NEW x \in Streams, NEW c \in Connections, Subscribe(x, c)
        PROVE  ToldInv'
    <2>1. \A d \in Connections :
            conn'[d] # Nothing => conn'[d].told <= settled[conn'[d].of]
      BY <1>0, <1>8 DEF ToldInv, Subscribe, TypeOK
    <2> QED
      BY <1>0, <1>8, <2>1 DEF ToldInv, Subscribe
  <1>9. ASSUME ~ \E w \in Writers : \/ \E t \in Tournaments : Record(w, t)
                                    \/ Complete(w) \/ Notify(w) \/ SkipNotify(w)
        PROVE  UNCHANGED <<db, settled, writers>>
    <2>1. ASSUME NEW f \in Fetches, Ends(f) PROVE UNCHANGED <<db, settled, writers>>
      BY <2>1 DEF Ends, RefreshEnds, LoadEnds, Settles, Feed!Deliver, Feed!Fail
    <2>2. ASSUME NEW f \in Fetches, Answer(f) PROVE UNCHANGED <<db, settled, writers>>
      BY <2>2 DEF Answer, Feed!Answer
    <2>3. ASSUME NEW c \in Connections, Drop(c) \/ \E x \in Streams : Subscribe(x, c)
          PROVE  UNCHANGED <<db, settled, writers>>
      BY <2>3 DEF Drop, Subscribe
    <2>4. ASSUME NEW x \in Streams, Client(x) PROVE UNCHANGED <<db, settled, writers>>
      BY <2>4 DEF Client, ConnectionLost, Reconnect, GiveUp
    <2>5. ASSUME NEW c \in Connections, NEW f \in Fetches, Update(c, f)
          PROVE  UNCHANGED <<db, settled, writers>>
      BY <2>5 DEF Update, AskFor, Feed!Ask
    <2>6. ASSUME NEW b \in Tabs, Tab(b) PROVE UNCHANGED <<db, settled, writers>>
      BY <2>6 DEF Tab, Load, Stop, AskFor, Feed!Ask
    <2>7. CASE UNCHANGED vars
      BY <2>7 DEF vars
    <2> QED
      BY <1>9, <2>1, <2>2, <2>3, <2>4, <2>5, <2>6, <2>7 DEF Next, Server
  <1> QED
    BY <1>0, <1>2, <1>3, <1>4, <1>5, <1>6, <1>7, <1>8, <1>9, OthersKeep

\* No step lets a tab run out of signals with a board it asked for too early.
LEMMA NextHeard == IInv /\ [Next]_vars => HeardIsAsked'
  <1> SUFFICES ASSUME IInv, [Next]_vars PROVE HeardIsAsked'
    OBVIOUS
  <1>0. TypeOK /\ LinkInv /\ PeerInv /\ ToldInv /\ HeardIsAsked /\ TypeOK'
    BY NextType DEF IInv
  <1> USE DEF hub, store
  <1>1. ASSUME UNCHANGED <<selected, asked>>,
               \A c \in Connections :
                 Heard(c)' /\ conn'[c].backlog = 0 => conn'[c] = conn[c]
        PROVE  HeardIsAsked'
    BY <1>0, <1>1 DEF HeardIsAsked, Heard
  <1>2. ASSUME NEW w \in Writers, Notify(w) PROVE HeardIsAsked'
    <2>1. \A c \in Connections :
            Heard(c)' /\ conn'[c].backlog = 0 => conn'[c] = conn[c]
      BY <1>0, <1>2, NotifiedConnection DEF Heard
    <2> QED
      BY <1>1, <1>2, <2>1 DEF Notify
  <1>3. ASSUME NEW c \in Connections, Drop(c) PROVE HeardIsAsked'
    <2>1. \A d \in Connections : conn'[d] # Nothing => conn'[d] = conn[d]
      BY <1>0, <1>3 DEF Drop, TypeOK
    <2> QED
      BY <1>1, <1>3, <2>1 DEF Drop, Heard
  <1>4. ASSUME NEW x \in Streams, NEW c \in Connections, Subscribe(x, c)
        PROVE  HeardIsAsked'
    <2>1. /\ conn'[c].told = 0 /\ conn'[c].peer = x
          /\ \A d \in Connections : d # c => conn'[d] = conn[d]
      BY <1>0, <1>4 DEF Subscribe, TypeOK
    <2>2. Owner[x] \in Tabs /\ asked[Owner[x]] >= 0
      BY <1>0, ConstantsAssumption DEF TypeOK
    <2>3. UNCHANGED <<selected, asked>>
      BY <1>4 DEF Subscribe
    <2> QED
      BY <1>0, <2>1, <2>2, <2>3 DEF HeardIsAsked
  <1>5. ASSUME NEW x \in Streams, ConnectionLost(x) PROVE HeardIsAsked'
    BY <1>0, <1>1, <1>5, DetachedHeard DEF ConnectionLost
  <1>6. ASSUME NEW c \in Connections, NEW f \in Fetches, Update(c, f)
        PROVE  HeardIsAsked'
    <2>1. /\ Heard(c) /\ Owner[conn[c].peer] \in Tabs
          /\ selected[Owner[conn[c].peer]] \in Tournaments
      BY <1>0, <1>6, HeardIsSelected DEF Heard, Update
    <2>2. PICK b \in Tabs : b = Owner[conn[c].peer]
      BY <2>1
    <2>3. /\ selected' = selected /\ asked'[b] = settled[selected[b]]
          /\ \A a \in Tabs : a # b => asked'[a] = asked[a]
      BY <1>0, <1>6, <2>1, <2>2 DEF Update, AskFor, TypeOK
    <2>4. ASSUME NEW d \in Connections, Heard(d)', conn'[d].backlog = 0,
                 conn'[d].of = selected[Owner[conn'[d].peer]]
          PROVE  asked'[Owner[conn'[d].peer]] >= conn'[d].told
      <3>1. /\ Heard(d) /\ conn'[d].of = conn[d].of /\ conn'[d].told = conn[d].told
            /\ conn'[d].peer = conn[d].peer /\ (d # c => conn'[d] = conn[d])
        BY <1>0, <1>6, <2>4, UpdateKeeps DEF Heard, Kept
      <3>2. Owner[conn[d].peer] \in Tabs
        BY <1>0, <3>1, HeardIsSelected
      <3>3. CASE Owner[conn[d].peer] = b
        <4>1. conn[d].told <= settled[conn[d].of]
          BY <1>0, <3>1 DEF ToldInv, Heard
        <4>2. settled[selected[b]] \in Nat /\ conn[d].told \in Nat
          BY <1>0, <2>1, <2>2, <3>1, HeardIsSelected, ConnectionFields DEF TypeOK
        <4> QED
          BY <2>3, <2>4, <3>1, <3>3, <4>1, <4>2
      <3>4. CASE Owner[conn[d].peer] # b
        <4>1. d # c
          BY <2>2, <3>4
        <4> QED
          BY <1>0, <2>3, <2>4, <3>1, <3>2, <3>4, <4>1 DEF HeardIsAsked, Heard
      <3> QED
        BY <3>3, <3>4
    <2> QED
      BY <2>3, <2>4 DEF HeardIsAsked, Heard
  <1>7. ASSUME NEW b \in Tabs, NEW t \in Tournaments, NEW f \in Fetches, Load(b, t, f)
        PROVE  HeardIsAsked'
    <2>1. \A c \in Connections : Heard(c)' => Heard(c) /\ conn'[c] = conn[c]
      BY <1>0, <1>7, ClosedHeard DEF Load
    <2>2. /\ selected'[b] = t /\ asked'[b] = settled[t]
          /\ \A a \in Tabs : a # b => selected'[a] = selected[a] /\ asked'[a] = asked[a]
      BY <1>0, <1>7 DEF Load, AskFor, TypeOK
    <2>3. ASSUME NEW d \in Connections, Heard(d)', conn'[d].backlog = 0,
                 conn'[d].of = selected'[Owner[conn'[d].peer]]
          PROVE  asked'[Owner[conn'[d].peer]] >= conn'[d].told
      <3>1. Heard(d) /\ conn'[d] = conn[d] /\ Owner[conn[d].peer] \in Tabs
        BY <1>0, <2>1, <2>3, HeardIsSelected
      <3>2. CASE Owner[conn[d].peer] = b
        <4>1. conn[d].told <= settled[conn[d].of]
          BY <1>0, <3>1 DEF ToldInv, Heard
        <4>2. settled[t] \in Nat /\ conn[d].told \in Nat
          BY <1>0, <3>1, HeardIsSelected, ConnectionFields DEF TypeOK
        <4> QED
          BY <2>2, <2>3, <3>1, <3>2, <4>1, <4>2
      <3>3. CASE Owner[conn[d].peer] # b
        BY <1>0, <2>2, <2>3, <3>1, <3>3 DEF HeardIsAsked, Heard
      <3> QED
        BY <3>2, <3>3
    <2> QED
      BY <2>3 DEF HeardIsAsked, Heard
  <1>8. ASSUME NEW b \in Tabs, Stop(b) PROVE HeardIsAsked'
    BY <1>0, <1>1, <1>8, ClosedHeard DEF Stop
  <1>9. ASSUME UNCHANGED <<conn, selected, asked>> PROVE HeardIsAsked'
    BY <1>1, <1>9
  <1>10. ASSUME NEW w \in Writers,
                (\E t \in Tournaments : Record(w, t)) \/ Complete(w) \/ SkipNotify(w)
         PROVE  HeardIsAsked'
    BY <1>9, <1>10 DEF Record, Complete, SkipNotify
  <1>11. ASSUME NEW f \in Fetches, Answer(f) \/ Ends(f) PROVE HeardIsAsked'
    BY <1>9, <1>11 DEF Answer, Ends, RefreshEnds, LoadEnds
  <1>12. ASSUME NEW x \in Streams, Reconnect(x) \/ GiveUp(x) PROVE HeardIsAsked'
    BY <1>9, <1>12 DEF Reconnect, GiveUp
  <1>13. CASE UNCHANGED vars
    BY <1>9, <1>13 DEF vars
  <1> QED
    BY <1>2, <1>3, <1>4, <1>5, <1>6, <1>7, <1>8, <1>10, <1>11, <1>12, <1>13
    DEF Next, Server, Client, Tab

-----------------------------------------------------------------------------
(* The theorems.                                                            *)

LEMMA InitInv == Init => IInv
  <1> SUFFICES ASSUME Init PROVE IInv
    OBVIOUS
  <1>1. TypeOK
    BY InitType
  <1>2. LinkInv /\ PeerInv /\ ToldInv /\ BoardIsOfSelection /\ HeardIsAsked
    BY DEF Init, Feed!Init, LinkInv, PeerInv, Heard, ToldInv, BoardIsOfSelection,
           HeardIsAsked
  <1>3. \A t \in Tournaments : Held(t) = {}
    BY DEF Init, Held
  <1>4. {c \in Connections : conn[c] # Nothing} = {}
    BY DEF Init
  <1>5. HubAccounts
    <2>1. Cardinality({}) = 0
      BY FS_EmptySet
    <2>2. total = 0 /\ \A t \in Tournaments : subscribers[t] = 0
      BY DEF Init
    <2>3. \A t \in Tournaments :
            /\ subscribers[t] = Cardinality(Held(t))
            /\ subscribers[t] <= MAX_SUBSCRIBERS_PER_TOURNAMENT
      BY <1>3, <2>1, <2>2, ConstantsAssumption
    <2>4. /\ total = Cardinality({c \in Connections : conn[c] # Nothing})
          /\ total <= MAX_TOTAL_SUBSCRIBERS
      BY <1>4, <2>1, <2>2, ConstantsAssumption
    <2> QED
      BY <2>3, <2>4 DEF HubAccounts
  <1> QED
    BY <1>1, <1>2, <1>5 DEF IInv

LEMMA NextInv == IInv /\ [Next]_vars => IInv'
  BY NextType, NextStreams, NextTold, NextAccounts, NextBoard, NextHeard DEF IInv

\* The inductive invariant: streams (sseClient.ts) hold at most the subscription
\* of their one open connection, and the hub (sse.rs) tells nobody of a write
\* that announce_completed has not made readable.
THEOREM InvariantHolds == Spec => []IInv
  BY InitInv, NextInv, PTL DEF Spec

\* Every variable stays in its range; no count of the hub goes below zero.
THEOREM TypeCorrect == Spec => []TypeOK
  <1>1. IInv => TypeOK
    BY DEF IInv
  <1> QED
    BY <1>1, InvariantHolds, PTL

\* register and Subscription::drop account for every open stream, and neither
\* cap is passed, with any number of tabs, streams and subscriptions.
THEOREM HubAccountsHold == Spec => []HubAccounts
  <1>1. IInv => HubAccounts
    BY DEF IInv
  <1> QED
    BY <1>1, InvariantHolds, PTL

\* The standings store never shows another tournament's board than the selected
\* one's, however late the responses of load and refresh are.
THEOREM BoardsAreOfSelections == Spec => []BoardIsOfSelection
  <1>1. IInv => BoardIsOfSelection
    BY DEF IInv
  <1> QED
    BY <1>1, InvariantHolds, PTL

\* Lagged signals lose nothing: a tab that has read all its stream holds has asked
\* for a board at least as new as the last write it was told of.
THEOREM NothingHeardIsLost == Spec => []HeardIsAsked
  <1>1. IInv => HeardIsAsked
    BY DEF IInv
  <1> QED
    BY <1>1, InvariantHolds, PTL

=============================================================================
