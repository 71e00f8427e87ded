-------------------------- MODULE MCRosterEntries --------------------------
(***************************************************************************)
(* Instances of RosterEntries for TLC.                                     *)
(***************************************************************************)
EXTENDS RosterEntries, TLC

CONSTANTS m1, m2, s1, s2, a1, a2

Everything == {"register", "draft", "lock", "swap"}

\* Two managers with a session each, and one manager with two.
OwnerTwo  == (s1 :> m1) @@ (s2 :> m2)
OwnerTabs == (s1 :> m1) @@ (s2 :> m1)

MayOwn  == [s \in Sessions |-> {"draft", "lock", "swap"}]
MayJoin == (s1 :> Everything) @@ (s2 :> {"register"})

\* The second tab asks for one thing only.
MaySwaps    == (s1 :> {"draft", "lock", "swap"}) @@ (s2 :> {"swap"})
OtherDrafts == (s1 :> {"draft", "lock"}) @@ (s2 :> {"draft"})

HeroSymmetry == Permutations(Heroes)
=============================================================================
