----------------------------- MODULE MCWsFanout -----------------------------
(* Two browsers, one with a key of both workspaces, and one event for each. *)
EXTENDS WsFanout, TLC

CONSTANTS s1, s2, w1, w2, e1, e2

MCSockets == {s1, s2}
MCWorkspaces == {w1, w2}
MCEvents == {e1, e2}
MCKeysOf == (s1 :> {w1}) @@ (s2 :> {w1, w2})
MCWorkspaceOf == (e1 :> w1) @@ (e2 :> w2)
=============================================================================
