------------------------ MODULE PendingTransactions ------------------------
(***************************************************************************)
(* The transactions a node has accepted and not yet seen in a block:       *)
(* push_transaction, the pending_transactions_restorer around every        *)
(* push_block, and _generate_block, which builds a block under the lock,   *)
(* gives the lock up, and pushes the block like anyone else's.             *)
(*                                                                         *)
(* A block is its time and a set of transactions; the chain is a sequence  *)
(* of blocks.  What a transaction does is reduced to which others it       *)
(* excludes (two transfers of one balance); all have the same size.        *)
(* References to recent blocks (TaPoS) are left out.                       *)
(***************************************************************************)
EXTENDS Integers, Sequences, FiniteSets, SequencesExt

CONSTANTS
    Tx,
    Expiration,   \* signed_transaction::expiration
    Excludes,     \* pairs of transactions of which only one can be applied
    MaxUntil,     \* CHAIN_MAX_TIME_UNTIL_EXPIRATION
    Room,         \* how many transactions fit into a block
    None,         \* the witness plugin is not producing a block
    MaxTime,      \* bound: the time of the last block
    MaxPop,       \* bound: how many blocks a fork switch pops
    MaxPending    \* bound: the length of _pending_tx

ASSUME PendingAssumption ==
    /\ IsFiniteSet(Tx) /\ Expiration \in [Tx -> Nat]
    /\ \A p \in Excludes : p \in SUBSET Tx /\ Cardinality(p) = 2
    /\ {MaxUntil, Room, MaxTime, MaxPop, MaxPending} \subseteq Nat

VARIABLES
    chain,      \* the blocks applied, oldest first
    pending,    \* _pending_tx
    open,       \* _pending_tx_session.valid()
    session,    \* the transactions applied in _pending_tx_session
    building,   \* the block being generated, and whether the head has moved
    accepted    \* history: transactions the node owes an answer

vars == <<chain, pending, open, session, building, accepted>>

Block == [time : 1..MaxTime, txs : SUBSET Tx]

Txs(ch) == UNION {ch[i].txs : i \in 1..Len(ch)}

\* head_block_time.
Now(ch) == IF ch = <<>> THEN 0 ELSE Last(ch).time

\* The transaction_index after clear_expired_transactions.
Known(ch) == {t \in Txs(ch) : Now(ch) <= Expiration[t]}

\* _validate_transaction; nothing expires before block 1.
Timely(t, ch) ==
    ch # <<>> =>
        Now(ch) < Expiration[t] /\ Expiration[t] <= Now(ch) + MaxUntil

\* Mutant: the transaction_index is not asked.
AppliesAgain(t, ch, S) ==
    Timely(t, ch) /\ \A u \in Txs(ch) \cup S : {t, u} \notin Excludes

\* _apply_transaction on the chain, after the transactions of S.
Applies(t, ch, S) ==
    /\ t \notin Known(ch) \cup S
    /\ Timely(t, ch)
    /\ \A u \in Txs(ch) \cup S : {t, u} \notin Excludes

BlockApplies(b, ch) ==
    /\ b.time > Now(ch)
    /\ \A t \in b.txs : Applies(t, ch, b.txs \ {t})

-----------------------------------------------------------------------------
(***************************************************************************)
(* The queue.  _push_transaction opens the session whether or not the      *)
(* transaction then applies.                                               *)
(***************************************************************************)
Cleared == [pending |-> <<>>, open |-> FALSE, session |-> {}]

_push_transaction(q, t, ch) ==
    IF Applies(t, ch, q.session)
    THEN [pending |-> Append(q.pending, t), open |-> TRUE,
          session |-> q.session \cup {t}]
    ELSE [q EXCEPT !.open = TRUE]

(***************************************************************************)
(* The restorer: popped transactions, then those that were pending.  The   *)
(* first c are pushed, unless known; then CHAIN_PENDING_TRANSACTION_       *)
(* EXECUTION_LIMIT has passed and the others are only queued.              *)
(***************************************************************************)
\* Mutant: once a transaction was popped, the pending ones are not restored.
RestoredPopped(ch, popped, pend, c) ==
    LET all == IF popped = <<>> THEN pend ELSE popped
        cut == IF c > Len(all) THEN Len(all) ELSE c
        push(q, t) ==
            IF t \in Known(ch) \cup q.session THEN q ELSE _push_transaction(q, t, ch)
        q == FoldLeft(push, Cleared, SubSeq(all, 1, cut))
    IN  [q EXCEPT !.pending = @ \o SubSeq(all, cut + 1, Len(all))]

Restored(ch, popped, pend, c) ==
    LET all == popped \o pend
        push(q, t) ==
            IF t \in Known(ch) \cup q.session THEN q ELSE _push_transaction(q, t, ch)
        q == FoldLeft(push, Cleared, SubSeq(all, 1, c))
    IN  [q EXCEPT !.pending = @ \o SubSeq(all, c + 1, Len(all))]

\* The transactions the node still owes: in time, and excluded by no other.
Owed(T, ch, pend) ==
    {t \in T : Timely(t, ch) /\
               \A u \in Txs(ch) \cup Range(pend) : {t, u} \notin Excludes}

SetQueue(q, ch, acc) ==
    /\ Len(q.pending) <= MaxPending
    /\ pending' = q.pending /\ open' = q.open /\ session' = q.session
    /\ accepted' = Owed(acc, ch, q.pending)

\* push_block has left the chain at ch and popped transactions on the way.
Restore(ch, popped) ==
    \E c \in 0..Len(popped \o pending) :
        SetQueue(Restored(ch, popped, pending, c), ch, accepted)

\* The transactions of blocks, as pop_block leaves them in _popped_tx.
InOrder(bs) == FlattenSeq([i \in 1..Len(bs) |-> SetToSeq(bs[i].txs)])

-----------------------------------------------------------------------------
(***************************************************************************)
(* accept_transaction.                                                     *)
(***************************************************************************)
PushTransaction(t) ==
    LET q == [pending |-> pending, open |-> open, session |-> session]
        acc == IF Applies(t, chain, session) THEN accepted \cup {t} ELSE accepted
    IN  /\ SetQueue(_push_transaction(q, t, chain), chain, acc)
        /\ UNCHANGED <<chain, building>>

(***************************************************************************)
(* push_block: of a block on the head; of a block that is refused or only  *)
(* kept; of one that makes the node switch; and of one for which it tries  *)
(* to, fails, and restores the old branch.                                 *)
(***************************************************************************)
\* The ways in which n valid blocks, of any witness, continue the chain.
Extensions(ch, n) ==
    LET next(bs) == {b \in Block : Cardinality(b.txs) <= Room /\ BlockApplies(b, ch \o bs)}
        ext[k \in 0..n] ==
            IF k = 0 THEN {<<>>}
            ELSE UNION {{Append(bs, b) : b \in next(bs)} : bs \in ext[k - 1]}
    IN  ext[n]

\* The block being generated is not on the head any more.
HeadMoves ==
    building' = IF building = None THEN None ELSE [building EXCEPT !.moved = TRUE]

PushBlock ==
    \E bs \in Extensions(chain, 1) :
        /\ chain' = chain \o bs
        /\ Restore(chain', <<>>)
        /\ HeadMoves

PushKept ==
    /\ pending # <<>>
    /\ Restore(chain, <<>>)
    /\ UNCHANGED <<chain, building>>

Switch ==
    \E n \in 1..MaxPop : n <= Len(chain) /\
        LET base == SubSeq(chain, 1, Len(chain) - n)
            old == SubSeq(chain, Len(chain) - n + 1, Len(chain))
        IN  \E bs \in Extensions(base, n + 1) :
                /\ chain' = base \o bs
                /\ Restore(chain', InOrder(old))
                /\ HeadMoves

SwitchFails ==
    \E n \in 1..MaxPop : n <= Len(chain) /\
        LET base == SubSeq(chain, 1, Len(chain) - n)
            old == SubSeq(chain, Len(chain) - n + 1, Len(chain))
        IN  \E m \in 0..n : \E bs \in Extensions(base, m) :
                /\ Restore(chain, InOrder(bs) \o InOrder(old))
                /\ UNCHANGED <<chain, building>>

-----------------------------------------------------------------------------
(***************************************************************************)
(* The witness plugin.  _generate_block drops the pending session, tries   *)
(* every pending transaction on the head, and drops what it has built      *)
(* before it gives up the lock; _pending_tx is not changed.                *)
(***************************************************************************)
\* Mutant: what is pending is taken to apply.
TakenUnchecked(when) ==
    LET take(T, t) ==
            IF Expiration[t] >= when /\ Cardinality(T) < Room THEN T \cup {t} ELSE T
    IN  FoldLeft(take, {}, pending)

Taken(when) ==
    LET take(T, t) ==
            IF Expiration[t] >= when /\ Cardinality(T) < Room /\ Applies(t, chain, T)
            THEN T \cup {t} ELSE T
    IN  FoldLeft(take, {}, pending)

Build ==
    /\ building = None
    /\ \E when \in 1..MaxTime :
        /\ when > Now(chain)
        /\ building' = [step |-> "built", moved |-> FALSE,
                        block |-> [time |-> when, txs |-> Taken(when)]]
    /\ open' = FALSE /\ session' = {}
    /\ UNCHANGED <<chain, pending, accepted>>

Building(step) == building # None /\ building.step = step

\* previous = head_block_id(), without the lock.
Seal ==
    /\ Building("built")
    /\ building' = [building EXCEPT !.step = "sealed", !.moved = FALSE]
    /\ UNCHANGED <<chain, pending, open, session, accepted>>

\* push_block applies the block, keeps it beside a head that has moved on,
\* or throws.
PushBuilt ==
    /\ Building("sealed") /\ ~building.moved
    /\ BlockApplies(building.block, chain)
    /\ chain' = Append(chain, building.block)
    /\ building' = None
    /\ Restore(chain', <<>>)

PushSibling ==
    /\ Building("sealed") /\ building.moved
    /\ building' = None
    /\ Restore(chain, <<>>)
    /\ UNCHANGED chain

PushBuiltFails ==
    /\ Building("sealed") /\ ~building.moved
    /\ ~BlockApplies(building.block, chain)
    /\ building' = [building EXCEPT !.step = "failed"]
    /\ Restore(chain, <<>>)
    /\ UNCHANGED chain

\* "Clearing pending transactions and attempting again".
ClearPending ==
    /\ Building("failed")
    /\ SetQueue(Cleared, chain, {})
    /\ building' = None
    /\ UNCHANGED chain

Init ==
    /\ chain = <<>> /\ pending = <<>> /\ open = FALSE /\ session = {}
    /\ building = None /\ accepted = {}

Next ==
    \/ \E t \in Tx : PushTransaction(t)
    \/ PushBlock \/ PushKept \/ Switch \/ SwitchFails
    \/ Build \/ Seal \/ PushBuilt \/ PushSibling \/ PushBuiltFails
    \/ ClearPending

Spec == Init /\ [][Next]_vars

-----------------------------------------------------------------------------
(***************************************************************************)
(* Properties.                                                             *)
(***************************************************************************)

\* A session that is not open has no transactions, and what is applied in
\* the session can be applied on the head.
TypeOK ==
    /\ chain \in Seq(Block)
    /\ pending \in Seq(Tx)
    /\ open \in BOOLEAN /\ session \in SUBSET Tx /\ accepted \in SUBSET Tx
    /\ ~open => session = {}
    /\ building # None => building.block \in Block /\ building.moved \in BOOLEAN

(***************************************************************************)
(* "Duplicate transaction check failed": no transaction is applied twice   *)
(* on a chain, although the transaction_index forgets it once it expired,  *)
(* whoever produced the blocks and however they were switched between.     *)
(***************************************************************************)
OncePerChain ==
    \A i, j \in 1..Len(chain) : i # j => chain[i].txs \cap chain[j].txs = {}

(***************************************************************************)
(* db_with.hpp: "Pending transactions which no longer validate will be     *)
(* culled", and no others: a transaction for which accept_transaction has  *)
(* returned is in the chain or still pending, through blocks, switches,    *)
(* failed switches and the time limit, until it expires, another one       *)
(* excludes it, or the witness plugin clears all pending transactions.     *)
(***************************************************************************)
NothingForgotten == accepted \subseteq Txs(chain) \cup Range(pending)

(***************************************************************************)
(* _generate_block rebuilds the pending state because "validity and        *)
(* semantics may have changed": what it has built applies to the head it   *)
(* was built on, even where _pending_tx holds transactions that exclude    *)
(* each other, are in the chain already, or are queued twice.              *)
(***************************************************************************)
BuiltBlockApplies ==
    Building("built") /\ ~building.moved => BlockApplies(building.block, chain)

=============================================================================
