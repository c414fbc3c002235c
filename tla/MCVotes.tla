------------------------------ MODULE MCVotes ------------------------------
(***************************************************************************)
(* WitnessVotes with accounts and witnesses that can be exchanged.         *)
(***************************************************************************)
EXTENDS WitnessVotes, TLC

Exchange == Permutations(Account) \cup Permutations(Witness)
=============================================================================
