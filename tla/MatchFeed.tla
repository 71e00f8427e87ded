----------------------------- MODULE MatchFeed -----------------------------
(***************************************************************************)
(* What the match result cache promises to its callers, with no cache in   *)
(* it.  A tournament's match list is an opaque revision number that every  *)
(* change raises.  A change is `settled' once the request that made it has *)
(* announced its completion.  A read may be answered from any revision     *)
(* between the last one settled when the read began and the one the        *)
(* database holds when the answer is taken: never an older one (a reader   *)
(* sees every write acknowledged before it asked), never an invented one.  *)
(***************************************************************************)
EXTENDS Naturals

CONSTANTS Tournaments, Readers

VARIABLES
  db,        \* db[t]: revision of t's committed match list
  settled,   \* settled[t]: revision at the last announced completion
  phase,     \* phase[r]: "idle", "reading" or "done"
  topic,     \* topic[r]: the tournament reader r asked about
  since,     \* since[r]: what was settled when r asked
  answer     \* answer[r]: the revision r is about to return

vars == <<db, settled, phase, topic, since, answer>>

Init ==
  /\ db = [t \in Tournaments |-> 0]
  /\ settled = [t \in Tournaments |-> 0]
  /\ phase = [r \in Readers |-> "idle"]
  /\ topic \in [Readers -> Tournaments]
  /\ since = [r \in Readers |-> 0]
  /\ answer = [r \in Readers |-> 0]

\* A transaction commits and changes the lists of the tournaments in S.
Change(S) ==
  /\ db' = [t \in Tournaments |-> IF t \in S THEN db[t] + 1 ELSE db[t]]
  /\ UNCHANGED <<settled, phase, topic, since, answer>>

\* Some change of t is announced complete.
Settle(t) ==
  /\ settled' = [settled EXCEPT ![t] = db[t]]
  /\ UNCHANGED <<db, phase, topic, since, answer>>

Ask(r, t) ==
  /\ phase[r] = "idle"
  /\ phase' = [phase EXCEPT ![r] = "reading"]
  /\ topic' = [topic EXCEPT ![r] = t]
  /\ since' = [since EXCEPT ![r] = settled[t]]
  /\ UNCHANGED <<db, settled, answer>>

Answer(r) ==
  /\ phase[r] = "reading"
  /\ \E list \in since[r] .. db[topic[r]] :
       answer' = [answer EXCEPT ![r] = list]
  /\ phase' = [phase EXCEPT ![r] = "done"]
  /\ UNCHANGED <<db, settled, topic, since>>

\* One failed load is the failure of every read that was waiting for it.
Fail(R) ==
  /\ \A r \in R : phase[r] = "reading"
  /\ phase' = [r \in Readers |-> IF r \in R THEN "idle" ELSE phase[r]]
  /\ since' = [r \in Readers |-> IF r \in R THEN 0 ELSE since[r]]
  /\ UNCHANGED <<db, settled, topic, answer>>

Deliver(r) ==
  /\ phase[r] = "done"
  /\ phase' = [phase EXCEPT ![r] = "idle"]
  /\ answer' = [answer EXCEPT ![r] = 0]
  /\ since' = [since EXCEPT ![r] = 0]
  /\ UNCHANGED <<db, settled, topic>>

Next ==
  \/ \E S \in SUBSET Tournaments : Change(S)
  \/ \E t \in Tournaments : Settle(t)
  \/ \E r \in Readers, t \in Tournaments : Ask(r, t)
  \/ \E r \in Readers : Answer(r) \/ Deliver(r)
  \/ \E R \in SUBSET Readers : Fail(R)

Spec == Init /\ [][Next]_vars

=============================================================================
