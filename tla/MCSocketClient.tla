--------------------------- MODULE MCSocketClient ---------------------------
(* One client of each kind, by itself: two sockets are enough for an overlap, *)
(* the third lets an overlap meet a reconnection.                             *)
EXTENDS SocketClient, TLC

CONSTANTS s1, s2, s3

MCPlaces == {s1, s2, s3}
=============================================================================
