------------------------ MODULE MatchCacheInvariant ------------------------
(***************************************************************************)
(* The inductive strengthening behind the safety properties of MatchCache. *)
(* TLC checks it on the small instances (MCMatchCache), MatchCacheProofs   *)
(* proves it for every value of the constants.                             *)
(***************************************************************************)
EXTENDS MatchCache

\* Nothing is ever settled, or pushed, ahead of the database.
HistoryInDatabase ==
  \A t \in Tournaments : settled[t] <= db[t] /\ pushed[t] <= settled[t]

\* A committed match write knows its revision; once its own announcement is
\* through, that revision is settled.
WriterInv(w) ==
  wrev[w] # 0 =>
    /\ wpc[w] = "complete" /\ wkind[w] = "match"
    /\ \A t \in wscope[w] :
         /\ wrev[w] <= db[t]
         /\ t \notin wtodo[w] => wrev[w] <= settled[t]

\* A list assembled under stamp v for t: not newer than the database, and, if
\* v is still t's version, no older than what is settled.  The version only
\* changes with a bump, and every bump of a completion settles the database as
\* it is then, so a stamp that still matches was read after the last of them.
Fresh(t, v, l) ==
  /\ l <= db[t]
  /\ v <= version[t]
  /\ v = version[t] => settled[t] <= l

\* Every entry is fresh in that sense, and its key is one a sweep visits.
CacheInv(t) ==
  cache[t] # NoEntry =>
    /\ t \in registered
    /\ Fresh(t, cache[t].version, cache[t].matches)

ReaderInv(r) ==
  /\ rpc[r] # "idle" =>
       /\ topic[r] \in registered
       /\ since[r] <= settled[topic[r]]
  /\ rpc[r] \in {"lookup", "load", "loaded", "wait"} =>
       before[r] <= version[topic[r]]
  /\ rpc[r] = "loaded" => Fresh(topic[r], before[r], list[r])
  /\ rpc[r] \in {"check", "remove"} =>
       Fresh(topic[r], held[r].version, held[r].matches)
  /\ rpc[r] = "remove" => held[r].version < version[topic[r]]
  /\ rpc[r] = "done" => since[r] <= list[r] /\ list[r] <= db[topic[r]]

\* An address is an identity: entries that share one are one entry, of one key.
IdentityInv ==
  /\ \A t, u \in Tournaments :
       cache[t] # NoEntry /\ cache[u] # NoEntry /\ cache[t].addr = cache[u].addr
         => t = u
  /\ \A t \in Tournaments, r \in Readers :
       cache[t] # NoEntry /\ held[r] # NoEntry /\ cache[t].addr = held[r].addr
         => cache[t] = held[r] /\ t = topic[r]

IInv ==
  /\ TypeOK
  /\ HistoryInDatabase
  /\ \A w \in Writers : WriterInv(w)
  /\ \A t \in Tournaments : CacheInv(t)
  /\ \A r \in Readers : ReaderInv(r)
  /\ IdentityInv

-----------------------------------------------------------------------------
(* What AcceptedEntryIsCurrent needs on top, and only holds while handlers  *)
(* run to completion and one request at a time edits the catalogue.         *)

OneEditor ==
  \A v, w \in Writers : "rename" \in May[v] /\ "rename" \in May[w] => v = w

\* The name the only editor has read is still the committed one.
EditorInv(w) ==
  /\ wpc[w] # "idle" => wkind[w] \in May[w]
  /\ wpc[w] = "read" => wread[w] = name
  /\ wpc[w] = "announce" /\ wkind[w] = "rename" =>
       /\ wread[w] = name
       /\ wscope[w] = IF wname[w] # name THEN Tournaments ELSE {}

\* Every difference between the lists and what is settled is still owed.
OwedInv == \A t \in Tournaments : exists[t] /\ ~Unsettled(t) => settled[t] = db[t]

CurrencyInv ==
  /\ \A w \in Writers : EditorInv(w)
  /\ OwedInv

=============================================================================
