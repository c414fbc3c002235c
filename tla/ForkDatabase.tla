--------------------------- MODULE ForkDatabase ---------------------------
(***************************************************************************)
(* graphene::chain::fork_database: the tree of recent blocks a node has    *)
(* been shown, and the item it believes to be the tip of the longest fork. *)
(*                                                                         *)
(* A fork database is a record                                             *)
(*   index  the ids of the items in _index                                 *)
(*   link   the items of _index whose weak pointer `prev' was set and      *)
(*          still refers to the item now in _index                         *)
(*   head   the id of *_head, ZeroId when _head is null.  The shared       *)
(*          pointer _head keeps an item alive that _index has dropped.     *)
(*   hlink  whether _head->prev was set and is still valid                 *)
(*   max    _max_size                                                      *)
(* _unlinked_index is never filled (the insertion follows a throw) and     *)
(* `invalid' is never set, so neither is part of the state.                *)
(***************************************************************************)
EXTENDS BlockTree

CONSTANT DefaultMaxSize   \* the initial value of _max_size

ASSUME DefaultMaxSizeAssumption == DefaultMaxSize \in Nat

ForkDb == [index : SUBSET Block, link : SUBSET Block, head : BlockId,
           hlink : BOOLEAN, max : Nat]

\* A new fork_database, and what reset() leaves of one that is starting up.
EmptyForkDb == [index |-> {}, link |-> {}, head |-> ZeroId, hlink |-> FALSE,
                max |-> DefaultMaxSize]

start_block(f, b) ==
    [f EXCEPT !.index = @ \cup {b}, !.head = b, !.hlink = FALSE]

(***************************************************************************)
(* _push_block.  The two exceptions, and what a push that throws neither   *)
(* does.  Pushing a known block inserts nothing, but the new item can      *)
(* still become _head.                                                     *)
(***************************************************************************)
TooOld(f, b) ==
    /\ f.head # ZeroId
    /\ block_num[b] <= Larger(0, block_num[f.head] - f.max)

Unlinkable(f, b) ==
    f.head # ZeroId /\ previous[b] # ZeroId /\ previous[b] \notin f.index

PushThrows(f, b) == TooOld(f, b) \/ Unlinkable(f, b)

\* Mutant: off by one in the comparison with _head.
PushBlockTwoTaller(f, b) ==
    LET linked == f.head # ZeroId /\ previous[b] # ZeroId
        taller == f.head = ZeroId \/ block_num[b] > block_num[f.head] + 1
    IN  [f EXCEPT !.index = @ \cup {b},
                  !.link  = IF linked /\ b \notin f.index THEN @ \cup {b} ELSE @,
                  !.head  = IF taller THEN b ELSE @,
                  !.hlink = IF taller THEN linked ELSE @]

push_block(f, b) ==
    LET linked == f.head # ZeroId /\ previous[b] # ZeroId
        taller == f.head = ZeroId \/ block_num[b] > block_num[f.head]
    IN  [f EXCEPT !.index = @ \cup {b},
                  !.link  = IF linked /\ b \notin f.index THEN @ \cup {b} ELSE @,
                  !.head  = IF taller THEN b ELSE @,
                  !.hlink = IF taller THEN linked ELSE @]

(***************************************************************************)
(* pop_block moves _head to its parent, if that item is still alive: it is *)
(* when _index has it, or when the caller holds it (the two branches a     *)
(* fork switch keeps in local vectors).                                    *)
(***************************************************************************)
Alive(f, held, b) == b \in f.index \/ b \in held

CanPop(f, held) ==
    f.head # ZeroId /\ f.hlink /\ Alive(f, held, previous[f.head])

PopNothing(f) == f   \* Mutant: _head is not moved.

pop_block(f) == [f EXCEPT !.head = previous[f.head],
                          !.hlink = previous[f.head] \in f.link]

set_head(f, b) == [f EXCEPT !.head = b, !.hlink = b \in f.link]

remove(f, S) == [f EXCEPT !.index = @ \ S]

\* Forks whose height falls out of the window below _head are lopped off.
set_max_size(f, s) ==
    [f EXCEPT !.max = s,
              !.index = IF f.head = ZeroId THEN @
                        ELSE {b \in @ : block_num[b] >= Larger(0, block_num[f.head] - s)}]

\* Weak pointers to items nobody owns any more expire.
Expire(f) ==
    [f EXCEPT !.link  = {b \in @ \cap f.index : previous[b] \in f.index},
              !.hlink = @ /\ previous[f.head] \in f.index]

(***************************************************************************)
(* fetch_branch_from walks both items down to the same height and then in  *)
(* step until they have the same parent.  BranchNum is the height at which *)
(* it stops (at height 1 every block has the parent ZeroId); the branches  *)
(* are the ancestors of each item from that height up.  It throws when an  *)
(* item is not in _index or a weak pointer on the way has expired.         *)
(***************************************************************************)
SameParent(x, y, n) == previous[At(x, n)] = previous[At(y, n)]

BranchNum(x, y) ==
    LET top == Smaller(block_num[x], block_num[y])
    IN  CHOOSE n \in 1..top :
            /\ SameParent(x, y, n)
            /\ \A m \in (n + 1)..top : ~SameParent(x, y, m)

Branch(x, n) == {z \in ancestors[x] : block_num[z] >= n}

fetch_branch_from_ok(f, x, y) ==
    /\ x \in f.index /\ y \in f.index
    /\ LET q == BranchNum(x, y)
       IN  Branch(x, q + 1) \cup Branch(y, q + 1) \subseteq f.link

(***************************************************************************)
(* walk_main_branch_to_num and fetch_block_on_main_branch_by_number; the   *)
(* null pointer is ZeroId.                                                 *)
(***************************************************************************)
walk_main_branch_to_num(f, held, n) ==
    IF \/ n > block_num[f.head]
       \/ n < block_num[f.head] /\ ~CanPop(f, held)
       \/ \E z \in ancestors[f.head] :
            /\ n < block_num[z] /\ z # f.head
            /\ ~(z \in f.link /\ Alive(f, held, previous[z]))
    THEN ZeroId ELSE At(f.head, n)

\* Mutant: any block of that height will do, also one of another branch.
FetchAnyByNumber(f, held, n) ==
    LET blocks == {b \in f.index : block_num[b] = n}
        others == blocks \ ancestors[f.head]
    IN  IF blocks = {} THEN ZeroId
        ELSE IF others # {} THEN CHOOSE b \in others : TRUE
        ELSE CHOOSE b \in blocks : TRUE

fetch_block_on_main_branch_by_number(f, held, n) ==
    LET blocks == {b \in f.index : block_num[b] = n}
    IN  IF blocks = {} THEN ZeroId
        ELSE IF \E b \in blocks : blocks = {b} THEN CHOOSE b \in blocks : TRUE
        ELSE walk_main_branch_to_num(f, held, n)
============================================================================
