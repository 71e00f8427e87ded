----------------------------- MODULE MatchForms -----------------------------
(***************************************************************************)
(* A match from an admin's form to the standings: the wizard's form        *)
(* (frontend/src/domain/matchForm.ts), seeded blank, from an import or     *)
(* from the recorded match; the submission it becomes; the server's        *)
(* policy; the rows; and the match that is read back.  Clients other than  *)
(* the wizard submit what they like.                                       *)
(*                                                                         *)
(* A form is a record                                                      *)
(*   sides (a pair of [drafted, bans]: the drafted heroes include the      *)
(*          banned ones), games (as submitted), preBans (heroes),          *)
(*   unassigned (typed bans without a side).                               *)
(* Left out: round, time, link and player labels.                          *)
(***************************************************************************)
EXTENDS MatchRows, MatchScoring

CONSTANTS
  Blank, HeroCatalogue, MapCatalogue, Aliases,   \* of MatchImport
  HeroIds,     \* heroes that exist
  HeroPool,    \* heroes the tournament prices
  MapPool,     \* maps of the tournament
  Pages,       \* what the scraper may return
  Drafts,      \* half-filled forms
  Healths,     \* health values an admin enters
  Sheets,      \* stats sheets of one seat
  OddSheets,   \* stats only other clients submit
  Strays,      \* hero ids only other clients submit
  Weights,     \* coefficients of the two-way differential
  MaxEdits     \* bound: edits, and submissions of other clients

Import == INSTANCE MatchImport

ASSUME MatchFormsAssumption ==
  /\ HeroPool \subseteq HeroIds
  /\ HeroIds \subseteq Nat \ {0}
  /\ Weights \subseteq Int
  /\ MaxEdits \in Nat

VARIABLES
  form,     \* what the wizard shows
  partial,  \* history: it was seeded from a page that leaves games unnumbered
  rows,     \* the match's rows, or None
  saved,    \* the submission they were written from, or None
  refused,  \* some accepted submission met a constraint
  edits     \* how many there have been

vars == <<form, partial, rows, saved, refused, edits>>

Unset == 0

BlankSeat         == [hero |-> Unset, health |-> 0, winner |-> FALSE, stats |-> <<>>]
BlankGame(number) == [number |-> number, map |-> Unset, seats |-> <<BlankSeat, BlankSeat>>]
BlankForm ==
  [sides |-> [i \in 1..2 |-> [drafted |-> <<>>, bans |-> <<>>]],
   games |-> <<BlankGame(1)>>, preBans |-> <<>>, unassigned |-> <<>>]

-----------------------------------------------------------------------------
(* Seeding and saving.                                                     *)

OrUnset(id) == IF id = None THEN Unset ELSE id

\* Mistake: a side is seeded with the typed bans of both.
Typed_AnySide(bans, side) ==
  SeqMap(LAMBDA b : [hero |-> OrUnset(b.hero), type |-> b.type],
         SelectSeq(bans, LAMBDA b : b.type # "PRE_BAN" /\ (b.side = None) = (side = None)))

Typed(bans, side) ==
  SeqMap(LAMBDA b : [hero |-> OrUnset(b.hero), type |-> b.type],
         SelectSeq(bans, LAMBDA b : b.type # "PRE_BAN" /\ b.side = side))

PreBansOf(bans) ==
  SeqMap(LAMBDA b : OrUnset(b.hero), SelectSeq(bans, LAMBDA b : b.type = "PRE_BAN"))

\* The arsenal of a side is its draft with the heroes banned out of it.
Seed(participants, games, bans) ==
  [sides |-> [i \in 1..2 |->
     LET struck == Typed(bans, i - 1)
     IN  [drafted |-> participants[i].drafted
                        \o SelectSeq(SeqMap(LAMBDA b : b.hero, struck), LAMBDA h : h # Unset),
          bans |-> struck]],
   games |-> games, preBans |-> PreBansOf(bans), unassigned |-> Typed(bans, None)]

FormFromPreview(preview) ==
  Seed(preview.participants,
       SeqMap(LAMBDA g : [number |-> g.number, map |-> OrUnset(g.map),
                          seats |-> SeqMap(LAMBDA p : [hero |-> OrUnset(p.hero), health |-> p.health,
                                                       winner |-> p.winner, stats |-> <<>>], g.seats)],
              preview.games),
       preview.bans)

\* A stat is submitted again under the name it was stored with.
FormStats(stats) == [k \in {<<n, n>> : n \in DOMAIN stats} |-> stats[k[1]]]

FormFromMatch(m) ==
  Seed(m.participants,
       SeqMap(LAMBDA g : [number |-> g.number, map |-> g.map,
                          seats |-> SeqMap(LAMBDA p : [hero |-> p.hero, health |-> p.health,
                                     winner |-> p.winner, stats |-> FormStats(p.stats)], g.seats)],
              m.games),
       m.bans)

StruckFrom(f, i) == {b.hero : b \in ToSet(f.sides[i].bans)}

SideBans(f, i) ==
  SeqMap(LAMBDA b : [hero |-> b.hero, type |-> b.type, side |-> i - 1], f.sides[i].bans)

\* The draft goes out without the heroes banned out of it.
ToPayload(f) ==
  [participants |-> [i \in 1..2 |->
     [drafted |-> SelectSeq(f.sides[i].drafted, LAMBDA h : h \notin StruckFrom(f, i))]],
   games |-> f.games,
   bans |-> SideBans(f, 1) \o SideBans(f, 2)
            \o SeqMap(LAMBDA h : [hero |-> h, type |-> "PRE_BAN", side |-> None], f.preBans)]

-----------------------------------------------------------------------------
(* What the dropdowns offer, and what the form rules out on its own.       *)

Arsenal(f, i) == ToSet(f.sides[i].drafted)

Fieldable(f, i)   == (HeroPool \cap Arsenal(f, i)) \ (StruckFrom(f, i) \cup ToSet(f.preBans))
Bannable(f, i)    == (HeroPool \cap Arsenal(f, i)) \ StruckFrom(f, i)
PreBannable(f)    == HeroPool \ (Arsenal(f, 1) \cup Arsenal(f, 2) \cup ToSet(f.preBans))
Draftable(f, i)   == HeroPool \ Arsenal(f, i)

AllBans(f) ==
  SeqMap(LAMBDA b : b.hero, f.sides[1].bans) \o SeqMap(LAMBDA b : b.hero, f.sides[2].bans)
    \o f.preBans

\* validate() finds nothing to complain of.
Complete(f) ==
  /\ f.unassigned = <<>>
  /\ \A i \in 1..2 : Unset \notin Arsenal(f, i) /\ Repeated(f.sides[i].drafted) = {}
  /\ Unset \notin ToSet(AllBans(f))
  /\ Repeated(AllBans(f)) = {}
  /\ ToSet(f.preBans) \cap (Arsenal(f, 1) \cup Arsenal(f, 2)) = {}
  /\ f.games # <<>>
  /\ \A g \in ToSet(f.games) :
       /\ g.map # Unset
       /\ \A i \in 1..2 : g.seats[i].hero # Unset /\ g.seats[i].hero \in Fieldable(f, i)
       /\ Cardinality({i \in 1..2 : g.seats[i].winner}) = 1
       /\ \A i \in 1..2 : g.seats[i].winner \/ g.seats[i].health <= 0

-----------------------------------------------------------------------------
(* Edits.                                                                  *)

Edit(f) == /\ edits < MaxEdits
           /\ form' = f
           /\ edits' = edits + 1
           /\ UNCHANGED <<partial, rows, saved, refused>>

AddDraftPick(i) ==
  \E h \in Draftable(form, i) : Edit([form EXCEPT !.sides[i].drafted = Append(@, h)])

\* The select of a row is rewritten in place: nothing cascades.
ChangeDraftPick(i) ==
  \E k \in DOMAIN form.sides[i].drafted, h \in Draftable(form, i) :
    Edit([form EXCEPT !.sides[i].drafted[k] = h])

\* A removed pick is dropped from the side's bans and vacates its seats.
RemoveDraftPick(i) ==
  \E k \in DOMAIN form.sides[i].drafted :
    LET h == form.sides[i].drafted[k]
    IN  Edit([form EXCEPT
          !.sides[i].drafted = RemoveAt(@, k),
          !.sides[i].bans = SelectSeq(@, LAMBDA b : h = Unset \/ b.hero # h),
          !.games = SeqMap(LAMBDA g : [g EXCEPT !.seats[i].hero = IF @ = h THEN Unset ELSE @], @)])

AddSideBan(i) ==
  \E h \in Bannable(form, i), type \in {"OPPONENT_BAN", "SELF_BAN"} :
    Edit([form EXCEPT !.sides[i].bans = Append(@, [hero |-> h, type |-> type])])

RemoveSideBan(i) ==
  \E k \in DOMAIN form.sides[i].bans : Edit([form EXCEPT !.sides[i].bans = RemoveAt(@, k)])

AddPreBan == \E h \in PreBannable(form) : Edit([form EXCEPT !.preBans = Append(@, h)])

RemovePreBan == \E k \in DOMAIN form.preBans : Edit([form EXCEPT !.preBans = RemoveAt(@, k)])

\* The hero joins the arsenal it was struck from, if it is not on it.
AssignBanToSide(i) ==
  \E k \in DOMAIN form.unassigned :
    LET b == form.unassigned[k]
    IN  Edit([form EXCEPT
          !.unassigned = RemoveAt(@, k),
          !.sides[i].bans = Append(@, b),
          !.sides[i].drafted = IF b.hero = Unset \/ Contains(@, b.hero) THEN @ ELSE Append(@, b.hero)])

Field(i) ==
  \E g \in DOMAIN form.games, h \in Fieldable(form, i) :
    /\ form.games[g].seats[i].hero # h
    /\ Edit([form EXCEPT !.games[g].seats[i].hero = h])

SetHealth(i) ==
  \E g \in DOMAIN form.games, v \in Healths :
    /\ form.games[g].seats[i].health # v
    /\ Edit([form EXCEPT !.games[g].seats[i].health = v])

SetMap ==
  \E g \in DOMAIN form.games, m \in MapPool :
    /\ form.games[g].map # m
    /\ Edit([form EXCEPT !.games[g].map = m])

\* Picking a winner clears the other side.
SetWinner(i) ==
  \E g \in DOMAIN form.games :
    Edit([form EXCEPT !.games[g].seats =
           [j \in 1..2 |-> [form.games[g].seats[j] EXCEPT !.winner = (j = i)]]])

AddGame == Edit([form EXCEPT !.games = Append(@, BlankGame(Len(@) + 1))])

\* Mistake: the games that stay keep their numbers.
RemoveGame_KeepNumbers ==
  \E k \in DOMAIN form.games : Edit([form EXCEPT !.games = RemoveAt(@, k)])

\* The games that stay are renumbered from 1.
RemoveGame ==
  \E k \in DOMAIN form.games :
    LET left == RemoveAt(form.games, k)
    IN  Edit([form EXCEPT !.games = [g \in DOMAIN left |-> [left[g] EXCEPT !.number = g]]])

\* A sheet replaces whatever stats the games held.
ApplyStats ==
  \E g \in DOMAIN form.games, i \in 1..2, sheet \in Sheets :
    Edit([form EXCEPT !.games =
           [k \in DOMAIN @ |-> [@[k] EXCEPT !.seats =
              [j \in 1..2 |-> [form.games[k].seats[j] EXCEPT
                                 !.stats = IF k = g /\ j = i THEN sheet ELSE <<>>]]]]])

-----------------------------------------------------------------------------
(* The server.                                                             *)

IsList(items) == items \in Seq(ToSet(items))

\* An absent list is read as empty.
ExactlyTwo(items) == IsList(items) /\ Len(items) \in {0, 2}

WellShapedParticipant(p) ==
  /\ p = [drafted |-> p.drafted]
  /\ IsList(p.drafted) /\ ToSet(p.drafted) \subseteq Int /\ Len(p.drafted) <= 128

WellShapedSeat(p) ==
  /\ p = [hero |-> p.hero, health |-> p.health, winner |-> p.winner, stats |-> p.stats]
  /\ p.hero \in Int /\ p.health \in Int /\ p.winner \in BOOLEAN
  /\ \A k \in DOMAIN p.stats : p.stats[k] \in Int

WellShapedGame(g) ==
  /\ g = [number |-> g.number, map |-> g.map, seats |-> g.seats]
  /\ g.number \in Int /\ g.number > 0
  /\ ExactlyTwo(g.seats) /\ \A p \in ToSet(g.seats) : WellShapedSeat(p)

WellShapedBan(b) ==
  /\ b = [hero |-> b.hero, type |-> b.type, side |-> b.side]
  /\ b.hero \in Int /\ b.type \in BanTypes /\ b.side \in Int \cup {None}

\* The request is read into its types and passes the rules of its fields.
WellShaped(s) ==
  /\ ExactlyTwo(s.participants) /\ \A p \in ToSet(s.participants) : WellShapedParticipant(p)
  /\ IsList(s.games) /\ Len(s.games) <= 20 /\ \A g \in ToSet(s.games) : WellShapedGame(g)
  /\ IsList(s.bans) /\ Len(s.bans) <= 64 /\ \A b \in ToSet(s.bans) : WellShapedBan(b)

Violations(s) == Validate(MapPool, HeroIds, HeroPool, s)

Stored == IF rows = None THEN NoRows ELSE rows

\* record and correct: the policy, then the rows; a constraint that refuses one
\* rolls everything back.
Submit(s) ==
  /\ WellShaped(s)
  /\ Violations(s) = {}
  /\ LET kept == DeleteChildren(Stored)
         new  == Inserts(s)
     IN  IF Storable(kept, new, MapPool, HeroIds)
           THEN /\ rows' = Insert(kept, new)
                /\ saved' = s
                /\ UNCHANGED refused
           ELSE /\ refused' = TRUE
                /\ UNCHANGED <<rows, saved>>
  /\ UNCHANGED <<form, partial>>

SaveMatch == /\ Complete(form)
             /\ Submit(ToPayload(form))
             /\ UNCHANGED edits

\* Changes another client may make to what the wizard would send.
OtherBans(s) ==
  {[s EXCEPT !.bans = Append(@, [hero |-> h, type |-> type, side |-> side])] :
     h \in HeroIds \cup Strays, type \in BanTypes, side \in {None, 0, 1, 2}}
    \cup {[s EXCEPT !.bans[b].side = side] : b \in DOMAIN s.bans, side \in {None, 0, 1, 2}}

OtherPicks(s) ==
  {[s EXCEPT !.participants[i].drafted = Append(@, h)] :
     i \in DOMAIN s.participants, h \in HeroIds \cup Strays}

OtherGames(s) ==
  {[s EXCEPT !.games[g].number = n] : g \in DOMAIN s.games, n \in 0..3}
    \cup {[s EXCEPT !.games[g].map = m] : g \in DOMAIN s.games, m \in MapPool \cup {Unset}}
    \cup {[s EXCEPT !.games[g].seats = <<>>] : g \in DOMAIN s.games}

OtherSeats(s) ==
  UNION {{[s EXCEPT !.games[g].seats[i].hero = h] : h \in HeroIds \cup Strays}
           \cup {[s EXCEPT !.games[g].seats[i].health = v] : v \in Healths}
           \cup {[s EXCEPT !.games[g].seats[i].winner = ~@]}
           \cup {[s EXCEPT !.games[g].seats[i].stats = sheet] : sheet \in OddSheets}
         : g \in DOMAIN s.games, i \in 1..2}

OtherSubmissions(s) ==
  {[s EXCEPT !.participants = <<>>], [s EXCEPT !.games = <<>>]}
    \cup OtherBans(s) \cup OtherPicks(s) \cup OtherGames(s) \cup OtherSeats(s)

SubmitOther ==
  /\ saved = None
  /\ edits < MaxEdits
  /\ edits' = edits + 1
  /\ \E s \in OtherSubmissions(ToPayload(form)) : Submit(s)

Recorded == Assemble(rows)

\* The wizard is opened on the recorded match.
Reopen ==
  /\ rows # None
  /\ form # FormFromMatch(Recorded)
  /\ form' = FormFromMatch(Recorded)
  /\ partial' = FALSE
  /\ UNCHANGED <<rows, saved, refused, edits>>

-----------------------------------------------------------------------------

Imported(page) == FormFromPreview(Import!Preview(HeroPool, MapPool, page))

\* The numbers of an import are the source's own where it has them.
Unnumbered(page) == \E g \in ToSet(page.games) : g.index = None

Init ==
  /\ \/ form \in {BlankForm} \cup Drafts /\ partial = FALSE
     \/ \E page \in Pages : /\ Import!Readable(page)
                            /\ form = Imported(page)
                            /\ partial = Unnumbered(page)
  /\ rows = None /\ saved = None /\ refused = FALSE /\ edits = 0

EditSide(i) ==
  \/ AddDraftPick(i) \/ ChangeDraftPick(i) \/ RemoveDraftPick(i)
  \/ AddSideBan(i) \/ RemoveSideBan(i) \/ AssignBanToSide(i)
  \/ Field(i) \/ SetHealth(i) \/ SetWinner(i)

Next ==
  \/ \E i \in 1..2 : EditSide(i)
  \/ AddPreBan \/ RemovePreBan
  \/ SetMap \/ AddGame \/ RemoveGame \/ ApplyStats
  \/ SaveMatch \/ SubmitOther \/ Reopen

Spec == Init /\ [][Next]_vars

-----------------------------------------------------------------------------

\* Types.  (form, rows: match_result.rs, matchForm.ts)
TypeOK ==
  /\ DOMAIN form = {"sides", "games", "preBans", "unassigned"}
  /\ \A i \in 1..2 : Arsenal(form, i) \subseteq HeroPool \cup {Unset}
  /\ rows # None => DOMAIN rows = DOMAIN NoRows
  /\ (saved = None) = (rows = None)
  /\ partial \in BOOLEAN /\ refused \in BOOLEAN
  /\ edits \in 0..MaxEdits

\* What the form cannot see when it judges one side at a time: a hero that one
\* side banned and the other drafted or fields, and one that both field.
CrossSide == {"BANNED_HERO_DRAFTED", "BANNED_HERO_PLAYED", "DUPLICATE_HERO"}

\* A form that its own checks pass is refused by the server for a cross-side
\* reason only, or because an imported page numbered some games and not others:
\* the two copies of the rules (matchForm.ts validate, match_policy.rs) agree on
\* everything else, whatever the form was seeded from and however it was edited.
FormsAreAccepted ==
  Complete(form) =>
    /\ WellShaped(ToPayload(form))
    /\ Violations(ToPayload(form)) \subseteq
         CrossSide \cup (IF partial THEN {"GAME_NUMBERS_NOT_SEQUENTIAL"} ELSE {})

\* What the policy accepts no constraint refuses: an admin never meets a raw
\* constraint violation, whatever client submitted the match.
AcceptedIsStorable == ~refused

\* A submission up to the order of its lists and the spelling of its stats.
Canonical(s) ==
  [drafted |-> [i \in DOMAIN s.participants |-> ToSet(s.participants[i].drafted)],
   games |-> {[g EXCEPT !.seats = SeqMap(LAMBDA p : [p EXCEPT !.stats = ToStats(@)], @)] :
                g \in ToSet(s.games)},
   bans |-> ToSet(s.bans)]

\* The submission a recorded match would be sent as.
AsSubmission(m) ==
  [participants |-> m.participants, bans |-> m.bans,
   games |-> SeqMap(LAMBDA g : [g EXCEPT !.seats = SeqMap(LAMBDA p :
               [hero |-> p.hero, health |-> p.health, winner |-> p.winner,
                stats |-> FormStats(p.stats)], @)], m.games)]

\* The match read back is the last submission accepted, whatever was recorded
\* before it: a correction leaves nothing of the old one behind.
ReadsBackAsSaved == rows # None => Canonical(AsSubmission(Recorded)) = Canonical(saved)

\* A submission the server writes.
Accepted(s) == WellShaped(s) /\ Violations(s) = {}

\* The tables hold what the last submission accepted put there, and nothing else:
\* the inductive invariant behind AcceptedIsStorable and ReadsBackAsSaved.
IInv ==
  /\ refused = FALSE
  /\ rows # None =>
       /\ Accepted(saved)
       /\ rows = Insert(DeleteChildren(NoRows), Inserts(saved))

\* Opening a recorded match and saving it unchanged is accepted and changes
\* nothing, unless it has a typed ban no side is known for.
CorrectionIsFaithful ==
  rows # None =>
    LET reopened == FormFromMatch(Recorded)
    IN  reopened.unassigned = <<>> =>
          /\ Violations(ToPayload(reopened)) = {}
          /\ Canonical(ToPayload(reopened)) = Canonical(AsSubmission(Recorded))

\* In a recorded match a drafted hero is priced once for the draft, however many
\* sides took it and games it played, and a banned hero once for its ban (never
\* for a pre-ban): the precedence among the contexts never has to decide.
DraftIsPricedOnce ==
  rows # None =>
    LET Times(h, Measured(_)) ==
          SumFunction([c \in {x \in HeroContexts(Recorded) : x.hero = h} |-> Measured(c)])
    IN  /\ \A h \in DraftedHeroes(Recorded) :
             /\ Times(h, Appearance) = 1
             /\ Times(h, LAMBDA c : Flag(c.role = "BANNED")) = 0
        /\ \A b \in ToSet(Recorded.bans) :
             /\ Times(b.hero, Appearance) = 0
             /\ \A type \in {"SELF_BAN", "OPPONENT_BAN"} :
                  Times(b.hero, LAMBDA c : BanOfType(Recorded, c, type)) = Flag(b.type = type)

\* Every recorded game has one winner and one loser, and the two-way
\* differential is a zero-sum payment between them at every weight, rounding
\* included.
GamesBalance ==
  rows # None =>
    \A g \in DOMAIN Recorded.games :
      LET contexts == {c \in HeroContexts(Recorded) : c.game = g}
          Paid(w)  == [c \in contexts |->
                         Score(Recorded, c, <<<<"HEALTH_DIFFERENTIAL_TWO_WAY", w>>>>)]
      IN  /\ SumFunction([c \in contexts |-> Win(Recorded, c)]) = 1
          /\ SumFunction([c \in contexts |-> Loss(Recorded, c)]) = 1
          /\ \A w \in Weights : SumFunction(Paid(w)) = 0
=============================================================================
