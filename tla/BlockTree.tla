----------------------------- MODULE BlockTree -----------------------------
(***************************************************************************)
(* The blocks a node can ever be shown.  A block id is a hash of the whole *)
(* header (libraries/protocol/block.cpp), so everything a block says is a  *)
(* function of its id: its parent, its height, its producer, the witnesses *)
(* whose slots were skipped just before it, and the witness schedule that  *)
(* is in force once it is applied.  These are constants of the model.      *)
(***************************************************************************)
EXTENDS Integers, FiniteSets

CONSTANTS
    Block,      \* the ids of the blocks that exist
    ZeroId,     \* block_id_type(): the id "before" block 1, and the null item
    Witness,    \* the account names that produce and validate blocks
    previous,   \* previous[b]: the id in the header of b
    block_num,  \* block_num[b]: height; the first word of the id
    ancestors,  \* ancestors[b]: b, its parent, ... down to ZeroId
    producer,   \* producer[b]: the witness in the header of b
    skipped,    \* skipped[b]: the witnesses of the slots missed before b
    schedule,   \* schedule[b]: current_shuffled_witnesses once b is applied
    EarlyBad,   \* blocks that fail before update_last_irreversible_block
    LateBad     \* blocks that fail after it

BlockId == Block \cup {ZeroId}

(***************************************************************************)
(* block_header::block_num() is num_from_id(previous) + 1, and the id of a *)
(* block carries its height, so heights are determined by the parents.     *)
(***************************************************************************)
ASSUME HeaderAssumption ==
    /\ ZeroId \notin Block
    /\ previous \in [Block -> BlockId]
    /\ block_num \in [BlockId -> Nat]
    /\ block_num[ZeroId] = 0
    /\ \A b \in Block : block_num[b] = block_num[previous[b]] + 1

(***************************************************************************)
(* ancestors is the reflexive and transitive closure of previous.          *)
(***************************************************************************)
ASSUME AncestorAssumption ==
    /\ ancestors \in [BlockId -> SUBSET BlockId]
    /\ ancestors[ZeroId] = {ZeroId}
    /\ \A b \in Block : ancestors[b] = {b} \cup ancestors[previous[b]]

ASSUME ScheduleAssumption ==
    /\ producer \in [Block -> Witness]
    /\ skipped \in [Block -> SUBSET Witness]
    /\ schedule \in [BlockId -> SUBSET Witness]
    /\ \A b \in BlockId : schedule[b] # {} /\ IsFiniteSet(schedule[b])
    /\ EarlyBad \subseteq Block /\ LateBad \subseteq Block

\* The ancestor of b at height n (b itself when n is its own height).
At(b, n) == CHOOSE x \in ancestors[b] : block_num[x] = n

Larger(m, n) == IF m > n THEN m ELSE n

Smaller(m, n) == IF m < n THEN m ELSE n
============================================================================
