--------------------------- MODULE MCConnections ---------------------------
(* Two keys, one the prefix of the other, and two requests at a time. One end  *)
(* user has an old connection and may make a second for the same key, or one   *)
(* that the provider lists by its own id. The second account may offer         *)
(* nothing, or what the first does not have.                                   *)
EXTENDS Connections, TLC

CONSTANTS gmail, gmail2, slack, r1, r2, user, first, second, old, new, bareId

MCKeys == {gmail, gmail2}
MCPrefix == {<<gmail, gmail>>, <<gmail2, gmail2>>, <<gmail, gmail2>>}
MCAccounts == {first, second}
MCConns == {old, new, bareId}
MCKeyOf == old :> gmail @@ new :> gmail @@ bareId :> gmail2
MCUserOf == [c \in MCConns |-> user]
MCAccountOf == [c \in MCConns |-> first]
MCRuns == {r1, r2}
MCNeed == r1 :> gmail @@ r2 :> gmail2
MCOffers == first :> {{gmail, gmail2}, {gmail, slack}} @@ second :> {{slack}, {}}
MCRequests == {1, 2}
=============================================================================
