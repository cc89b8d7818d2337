----------------------------- MODULE MCConsole ------------------------------
(* Two users and three workspaces: two of the first user and one of the     *)
(* second, or one of the first user so far; two actions of one name in the  *)
(* first workspace and one of that name in another.                         *)
EXTENDS Console, TLC

CONSTANTS u1, u2

MCActions == {1, 2, 3}
MCHomeOf == <<1, 1, 2>>
MCNameOf == <<"list_files", "list_files", "list_files">>
MCWorlds ==
    LET row(default) == [on |-> TRUE, text |-> 0, default |-> default] IN
    {[accounts |-> {u1, u2}, owner |-> <<u1, u1, u2>>, registry |-> {2, 3},
      rows |-> <<row(TRUE), row(FALSE), row(TRUE)>>],
     [accounts |-> {u1}, owner |-> <<u1, NoOne, NoOne>>, registry |-> {},
      rows |-> <<row(FALSE), NoOne, NoOne>>]}
=============================================================================
