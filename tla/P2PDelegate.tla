---------------------------- MODULE P2PDelegate ----------------------------
(***************************************************************************)
(* What the p2p plugin (plugins/p2p/p2p_plugin.cpp) answers for a node     *)
(* whose chain database is c:                                              *)
(*   c.known  blocks in the fork database or the log (is_known_block)      *)
(*   c.head   head_block_id()                                              *)
(*   c.lib    last_non_undoable_block_num()                                *)
(* ChainDatabase models the chain itself; here a block is known or         *)
(* rejected, the head is the highest block, and the last UndoDepth blocks  *)
(* can be undone.                                                          *)
(***************************************************************************)
EXTENDS BlockTree, Sequences

CONSTANTS
    UndoDepth,  \* how many blocks below the head can be undone
    IdsLimit    \* the most ids one answer of get_block_ids holds

ASSUME DelegateAssumption == UndoDepth \in Nat /\ IdsLimit \in Nat \ {0}

Chains == [known : SUBSET BlockId, head : BlockId, lib : Nat]

\* A chain whose head is b, of which nothing else is known.
ChainUpTo(b) == [known |-> ancestors[b], head |-> b,
                 lib |-> Larger(0, block_num[b] - UndoDepth)]

has_item(c, b) == b \in c.known

is_included_block(c, b) == b \in ancestors[c.head]

(***************************************************************************)
(* handle_block: the block is linked and becomes the head when it is       *)
(* higher, or it throws.  An unlinkable block is dropped: the fork         *)
(* database throws before it would keep it.  A branch that leaves the      *)
(* chain below the last block that cannot be undone is refused.            *)
(***************************************************************************)
Invalid(b) == b \in EarlyBad \cup LateBad

Links(c, b) == previous[b] \in c.known /\ block_num[b] >= c.lib

Top(c, b) == IF block_num[b] > block_num[c.head] THEN b ELSE c.head

Rejects(c, b) == \/ Invalid(b) \/ ~Links(c, b)
                 \/ At(c.head, c.lib) \notin ancestors[Top(c, b)]

handle_block(c, b) ==
    IF Rejects(c, b) THEN c
    ELSE [known |-> c.known \cup {b}, head |-> Top(c, b),
          lib |-> Larger(c.lib, block_num[Top(c, b)] - UndoDepth)]

(***************************************************************************)
(* get_block_ids: the ids from the last block of the synopsis that is on   *)
(* the preferred chain (the highest: a synopsis goes upwards), at most     *)
(* IdsLimit of them, and how many are left.  With no such block the caller *)
(* is answered an empty list.                                              *)
(***************************************************************************)
get_block_ids(c, synopsis) ==
    LET common == {b \in ancestors[c.head] : \E i \in DOMAIN synopsis : synopsis[i] = b}
        heights == {block_num[b] : b \in common}
        from == IF synopsis = <<>> THEN 1
                ELSE Larger(1, CHOOSE n \in heights : \A m \in heights : m <= n)
        to == Smaller(block_num[c.head], from + IdsLimit - 1)
    IN  IF c.head = ZeroId \/ (synopsis # <<>> /\ common = {})
        THEN [ids |-> <<>>, remaining |-> 0]
        ELSE [ids |-> [i \in 1..(to - from + 1) |-> At(c.head, from + i - 1)],
              remaining |-> block_num[c.head] - to]

\* A known block above the head has no id on the preferred chain to compare
\* it with: is_included_block throws, out of the handler of the message.
SynopsisThrows(c, synopsis) ==
    \E i \in DOMAIN synopsis :
        /\ has_item(c, synopsis[i]) /\ block_num[synopsis[i]] > block_num[c.head]
        /\ \A j \in DOMAIN synopsis : j > i => ~is_included_block(c, synopsis[j])

\* Heights low, ..., up to high, each time half of the way on to the true high.
Halving(low, high, true_high) ==
    LET onward[l \in low..Larger(low, high)] ==
            LET next == l + (true_high - l + 2) \div 2
            IN  <<l>> \o (IF next <= high THEN onward[next] ELSE <<>>)
    IN  onward[low]

(***************************************************************************)
(* get_blockchain_synopsis: the chain up to reference_point, which may be  *)
(* on a fork, or the whole preferred chain.  TooOld is the answer          *)
(* block_older_than_undo_history, Unknown any other exception.             *)
(***************************************************************************)
TooOld == [thrown |-> "block_older_than_undo_history"]
Unknown == [thrown |-> "exception"]

get_blockchain_synopsis(c, reference_point, after) ==
    LET tip == IF reference_point = ZeroId THEN c.head ELSE reference_point
        high == block_num[tip]
        fork == CHOOSE x \in ancestors[tip] \cap ancestors[c.head] :
                    \A y \in ancestors[tip] \cap ancestors[c.head] :
                        block_num[y] <= block_num[x]
        low == IF is_included_block(c, tip) THEN Smaller(c.lib, high) ELSE c.lib
        heights == Halving(Larger(1, low), high, high + after)
    IN  CASE tip = ZeroId -> [thrown |-> "", ids |-> <<>>]
          [] tip \notin c.known -> Unknown
          [] tip \in c.known \ {ZeroId} /\ block_num[fork] < low -> TooOld
          [] OTHER -> [thrown |-> "", ids |-> [i \in DOMAIN heights |-> At(tip, heights[i])]]
============================================================================
