--------------------------- MODULE MCMconfigChain ---------------------------
EXTENDS MconfigChain, TLC

CONSTANTS root, a, b

MCHears  == root :> {} @@ a :> {root} @@ b :> {root, a}
MCListed == <<{a, b}, {a}, {}>>

Sound == [on |-> {a, b}, lost |-> 0, early |-> 0, expire |-> 0, again |-> 0,
          blufi |-> 0, gens |-> {},
          whitelist |-> TRUE]
MCBudgets ==
  {[Sound EXCEPT !.lost = 1, !.early = 1],
   [Sound EXCEPT !.again = 1, !.gens = {2}],
   [Sound EXCEPT !.on = {b}, !.again = 1, !.gens = {3}],
   [Sound EXCEPT !.on = {a}, !.lost = 1, !.expire = 1, !.again = 1, !.gens = {2}],
   [Sound EXCEPT !.on = {a}, !.lost = 2, !.blufi = 1, !.gens = {2}],
   [Sound EXCEPT !.whitelist = FALSE, !.lost = 1, !.early = 1]}
=============================================================================
