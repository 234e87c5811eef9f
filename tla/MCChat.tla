--------------------------------- MODULE MCChat --------------------------------
(***************************************************************************)
(* A small instance of Chat: bob writes twice, to the group or to ann, who *)
(* may have two sockets up, lose one and dial again.                       *)
(***************************************************************************)
EXTENDS Chat

CONSTANTS ann, bob, a1, a2, b1

AnnTwice == a1 :> ann @@ a2 :> ann @@ b1 :> bob
BobSends == ann :> 0 @@ bob :> 2
================================================================================
