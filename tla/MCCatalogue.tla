----------------------------- MODULE MCCatalogue -----------------------------
(* Two rule sets, roles, heroes and boards; a save may take a third name.   *)
EXTENDS Catalogue

CONSTANTS a, b, c, l1, l2, win, WIN, typo

MCNormalise == [m \in {win, WIN, typo} |-> IF m = WIN THEN win ELSE m]

\* One metric, two spellings of it, one that the schema refuses, and none.
MCSubmitted == {<<>>, <<WIN>>, <<win, WIN>>, <<typo>>}

Named(x) == [key |-> x]

MCStart0 ==
  [sets     |-> <<[key |-> a, list |-> <<win>>, active |-> TRUE],
                  [key |-> b, list |-> <<>>, active |-> FALSE]>>,
   roles    |-> <<[key |-> a, list |-> <<win>>], [key |-> b, list |-> <<>>]>>,
   heroes   |-> <<Named(a), Named(b)>>,
   maps     |-> <<Named(a), Named(b)>>,
   heroPool |-> <<Named(None)>>,
   mapPool  |-> <<Named(None), Named(None)>>,
   given    |-> <<>>,
   matches  |-> <<[key |-> l1, map |-> 1, hero |-> 1, round |-> 1]>>]

MCAreas ==
  {{"createRuleSet", "updateRuleSet", "activate"},
   {"createRole", "updateRole", "deleteRole", "setRoles"},
   {"createHero", "updateHero"},
   {"createMap", "updateMap"},
   {"removeMap", "record", "correct", "delete"}}
=============================================================================
