------------------------------ MODULE MCRadarRoom ------------------------------
(***************************************************************************)
(* Small instances of RadarRoom: a user with two connections, which may    *)
(* overlap, and one or two peers.                                          *)
(***************************************************************************)
EXTENDS RadarRoom, TLC

CONSTANTS ann, bob, a1, a2, b1

\* ann reconnects, bob connects once.
Reconnect == a1 :> ann @@ a2 :> ann @@ b1 :> bob

\* ann reconnects, alone.
Twinned == a1 :> ann @@ a2 :> ann

\* ann and bob connect once each.
Apart == a1 :> ann @@ b1 :> bob

\* ann's two connections are interchangeable (safety only).
Twins == Permutations({a1, a2})
================================================================================
