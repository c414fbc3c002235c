------------------------------ MODULE Finality ------------------------------
(***************************************************************************)
(* What the chain database promises its users about irreversible blocks:   *)
(* there is a final block, every later final block is built on it, and the *)
(* head is always built on the final block.  Heads may otherwise come and  *)
(* go.                                                                     *)
(***************************************************************************)
EXTENDS BlockTree

VARIABLES final, head

Init == final = ZeroId /\ head = ZeroId

\* The head moves, below or above where it was, but on top of the final block;
\* the final block moves up its own branch, at most to the head.
Step ==
    /\ head' \in BlockId /\ final' \in BlockId
    /\ final \in ancestors[final']
    /\ final' \in ancestors[head']

Spec == Init /\ [][Step]_<<final, head>>
============================================================================
