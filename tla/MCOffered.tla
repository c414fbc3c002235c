----------------------------- MODULE MCOffered -----------------------------
(***************************************************************************)
(* A node whose peers offer it the best chain over and over, and which may *)
(* die and start again.  last is the block of the last call of push_block  *)
(* since the process started, orderly that no call so far brought a block  *)
(* the node would not have asked for: history variables, which let the     *)
(* fairness of the peers be stated about the calls they make.              *)
(***************************************************************************)
EXTENDS MCChain

VARIABLES last, orderly

\* The best chain: the highest of the blocks all of whose ancestors are good.
Sound == {b \in Block : ancestors[b] \cap (EarlyBad \cup LateBad) = {}}

Best == CHOOSE b \in Sound : \A c \in Sound : block_num[c] <= block_num[b]

\* A node asks for no block that its block log has (has_item, is_known_block).
Asked(b) == \A n \in DOMAIN log : log[n] # b

\* A new node is given block 1 first: the sync protocol serves in order.
FirstBlockFirst(b) == fdb.head = ZeroId => previous[b] = ZeroId

Offer(b) ==
    /\ FirstBlockFirst(b)
    /\ \E stray \in StrayValues : PushBlock(b, stray)
    /\ last' = b
    /\ orderly' = (orderly /\ Asked(b))

Proceed == (\E stray \in StrayValues : SwitchStep(stray)) /\ UNCHANGED <<last, orderly>>

OfferedInit == Init /\ last = ZeroId /\ orderly = TRUE

DieAndStart == Restart /\ last' = ZeroId /\ UNCHANGED orderly

OfferedNext == (\E b \in Block : Offer(b)) \/ Proceed \/ DieAndStart

\* Every block of the best chain is offered again and again as long as it is
\* asked for, whatever else is; the thread in push_block goes on, and so does one
\* that starts up.
OfferedSpec ==
    /\ OfferedInit /\ [][OfferedNext]_<<vars, last, orderly>>
    /\ Fairness
    /\ \A b \in ancestors[Best] \ {ZeroId} :
            SF_last(mode = "idle" /\ Asked(b) /\ last' = b)

(***************************************************************************)
(* A node that is offered the best chain comes up again and again and ends *)
(* up on a chain of that height, whatever blocks that its log does not     *)
(* have it is offered besides, and although a switch may fail half-way and *)
(* leave the fork database's head behind (_push_block, pop_block) and the  *)
(* process may die once, in any step of it, with the block log behind the  *)
(* state (open, reindex).                                                  *)
(***************************************************************************)
AdoptsBest ==
    []orderly =>
        /\ []<>(mode = "idle")
        /\ <>[](mode = "idle" => /\ chain.st.head \in Sound
                                 /\ block_num[chain.st.head] = block_num[Best])
============================================================================
