--------------------------- MODULE MCChatSession ---------------------------
(* Three worlds: plans that meet each other's cards; a plan that meets a card   *)
(* whose request was lost; and a run that talks while a stranger's run and the  *)
(* cards of a plan are there too. The providers are not symmetric: the cards of *)
(* a plan come in an order that CHOOSE picks.                                   *)
EXTENDS ChatSession, TLC

CONSTANTS c1, c2, c3, r1, r2, r3, gmail, drive

MCCommands == {c1, c2, c3}
MCRuns == {r1, r2, r3}
MCProviders == {gmail, drive}

MCPlans == [cmds |-> {c1, c2}, needs |-> {gmail, drive}, runs |-> {r3},
            tools |-> FALSE, clears |-> TRUE, messages |-> 5, events |-> 5, duplicates |-> 1]
MCMarks == [cmds |-> {c1, c2}, needs |-> {gmail, drive}, runs |-> {},
            tools |-> FALSE, clears |-> FALSE, messages |-> 9, events |-> 4, duplicates |-> 0]
MCTalk == [cmds |-> {c3}, needs |-> {gmail}, runs |-> {r1, r2},
            tools |-> TRUE, clears |-> FALSE, messages |-> 6, events |-> 7, duplicates |-> 0]
MCWorlds == {MCPlans, MCMarks, MCTalk}

MCSymmetry ==
  Permutations({c1, c2}) \cup Permutations({r1, r2})
=============================================================================
