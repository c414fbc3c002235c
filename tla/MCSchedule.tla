---------------------------- MODULE MCSchedule ----------------------------
(* Four witnesses for three places, two of them by votes.                  *)
EXTENDS WitnessSchedule, TLC

FourVotes == 1 :> 2 @@ 2 :> 2 @@ 3 :> 1 @@ 4 :> 1
Penalties == 1 :> 50 @@ 2 :> 50 @@ 3 :> 100 @@ 4 :> 50
Listed == <<1, 4, 2>>
Times == <<8>>
===========================================================================
