------------------------------ MODULE P2PNode ------------------------------
(***************************************************************************)
(* The peer-to-peer node of libraries/network/node.cpp: synchronizing with *)
(* several peers at once, and fetching and advertising items in normal     *)
(* operation.  Its fibers share one thread and the delegate has another:   *)
(* a handler or one turn of a loop runs until it calls the delegate, and   *)
(* while it waits for the answer any other fiber may run.  The rest of the *)
(* handler is a step of its own (Resume).  The delegate's thread takes the *)
(* calls in order, so an answer is worked out when the caller goes on.     *)
(* Waits with nothing after them, those for connection_count_changed and   *)
(* error_encountered, which do nothing, and those before a handler has     *)
(* read or changed anything are left out.                                  *)
(*                                                                         *)
(* The handlers call each other, so they are operators from one state of   *)
(* the node to the next.  A state w has                                    *)
(*   w.chain   the delegate's chain (P2PDelegate)                          *)
(*   w.peers   one peer_connection per peer                                *)
(*   w.wire    what we sent to each peer and it has not answered yet       *)
(*   w.mail    what each peer sent us and we have not read yet             *)
(*   w.calls   the fibers that wait for the delegate, in the order of      *)
(*             their calls                                                 *)
(*   w.blamed  the peers we disconnected because of an error               *)
(* and the members of node_impl named below.                               *)
(***************************************************************************)
EXTENDS P2PDelegate, SequencesExt

CONSTANTS
    Peer,       \* the other nodes
    Trx,        \* transactions
    BadTrx,     \* transactions that the chain rejects
    MaxBlocksPerPeer,     \* _maximum_blocks_per_peer_during_syncing
    MaxHandled,           \* _maximum_number_of_blocks_to_handle_at_one_time
    MaxPrefetch,          \* _maximum_number_of_sync_blocks_to_prefetch
    MinIdsToPrefetch,     \* GRAPHENE_NET_MIN_BLOCK_IDS_TO_PREFETCH
    PlausibleHeight,      \* blocks there can be by get_blockchain_now(), with the grace period
    MaxRecent,            \* _maximum_number_of_connections, the size of _most_recent_blocks_accepted
    MaxTrxOffered,        \* offers kept of a peer before its transactions are left out
    MaxOffered            \* offers kept of a peer before all others are left out

ASSUME NodeAssumption ==
    /\ IsFiniteSet(Peer) /\ BadTrx \subseteq Trx /\ Trx \cap BlockId = {}
    /\ {MaxBlocksPerPeer, MaxHandled, MaxPrefetch, MinIdsToPrefetch, PlausibleHeight,
        MaxRecent} \subseteq Nat \ {0}
    /\ {MaxTrxOffered, MaxOffered} \subseteq Nat

Item == Block \cup Trx

(***************************************************************************)
(* peer_connection.  asked holds the synopsis of the request for ids that  *)
(* has not been answered, if there is one.                                 *)
(***************************************************************************)
NewPeer == [list |-> "none",        \* _active_, _closing_, _terminating_connections
            ids |-> <<>>,           \* ids_of_items_to_get
            unfetched |-> 0,        \* number_of_unfetched_item_ids
            asked |-> {},           \* item_ids_requested_from_peer
            sync |-> {},            \* sync_items_requested_from_peer
            processing |-> {},      \* ids_of_items_being_processed
            seen |-> ZeroId,        \* last_block_delegate_has_seen
            we_need |-> TRUE,       \* we_need_sync_items_from_peer
            they_need |-> TRUE,     \* peer_needs_sync_items_from_us
            inhibit |-> FALSE,      \* inhibit_fetching_sync_blocks
            requested |-> {},       \* items_requested_from_peer
            offered |-> {},         \* inventory_peer_advertised_to_us
            told |-> {}]            \* inventory_advertised_to_peer

FirstWorld(head) ==
    [chain |-> ChainUpTo(head),
     peers |-> [p \in Peer |-> NewPeer],
     wire |-> [p \in Peer |-> <<>>],
     mail |-> [p \in Peer |-> <<>>],
     calls |-> <<>>,
     blamed |-> {},
     active |-> {},          \* _active_sync_requests
     fresh |-> <<>>,         \* _new_received_sync_items
     received |-> <<>>,      \* _received_sync_items
     handling |-> <<>>,      \* _handle_message_calls_in_progress
     recent |-> <<head>>,    \* _most_recent_blocks_accepted
     suspended |-> FALSE,    \* _suspend_fetching_sync_blocks
     backlog |-> FALSE,      \* process_backlog_of_sync_blocks is scheduled
     fetch_sync |-> FALSE,   \* _sync_items_to_fetch_updated
     to_fetch |-> <<>>,      \* _items_to_fetch
     fetch_items |-> FALSE,  \* _items_to_fetch_updated
     busy |-> {},            \* _message_ids_currently_being_processed
     inventory |-> {},       \* _new_inventory
     cache |-> {},           \* _message_cache
     failed |-> {}]          \* _recently_failed_items

Active(w) == {p \in Peer : w.peers[p].list = "active"}

idle(r) == r.requested = {} /\ r.sync = {} /\ r.asked = {}

Send(w, p, messages) == [w EXCEPT !.wire[p] = @ \o messages]

\* Mutant: no block is ever dropped from the buffer.
RecentlyForever(w, b) == [w EXCEPT !.recent = Append(@, b)]

\* _most_recent_blocks_accepted.push_back: the oldest one goes when it is full.
Recently(w, b) ==
    [w EXCEPT !.recent = Append(IF Len(@) < MaxRecent THEN @ ELSE Tail(@), b)]

(***************************************************************************)
(* A fiber waits for the delegate: kind says where it goes on, by whether  *)
(* it is the peer's read loop or send_sync_block_to_node_delegate, and     *)
(* then what is left to do for it after that.                              *)
(***************************************************************************)
Wait(w, kind, by, p, item, ids, n, then) ==
    [w EXCEPT !.calls = Append(@, [kind |-> kind, by |-> by, p |-> p, item |-> item,
                                   ids |-> ids, n |-> n, then |-> then])]

\* The read loop of this peer waits: it neither reads nor notices that the connection closed.
Reading(w, p) == \A i \in DOMAIN w.calls : ~(w.calls[i].by = "reader" /\ w.calls[i].p = p)

-----------------------------------------------------------------------------
(* Connections. *)

disconnect_from_peer(w, p, caused_by_error) ==
    [w EXCEPT !.peers[p].list = "closing",
              !.blamed = IF caused_by_error THEN @ \cup {p} ELSE @]

trigger_fetch_sync_items_loop(w) == [w EXCEPT !.fetch_sync = TRUE]

trigger_fetch_items_loop(w) == [w EXCEPT !.fetch_items = TRUE]

is_item_in_any_peers_inventory(w, x) == \E q \in Active(w) : x \in w.peers[q].offered

\* _items_to_fetch holds an item once.
ToFetch(w, x) == IF x \in ToSet(w.to_fetch) THEN w
                 ELSE [w EXCEPT !.to_fetch = Append(@, x)]

\* A fiber that waits on behalf of p, when p's connection is gone.
NotFor(then, p) ==
    FoldLeft(LAMBDA s, a : IF a.p = p THEN s ELSE Append(s, a), <<>>, then)

Orphan(c, p) == [c EXCEPT !.kind = IF c.p = p THEN "gone" ELSE c.kind,
                          !.then = NotFor(@, p)]

Gone(w, p) ==
    [w EXCEPT !.peers[p] = NewPeer, !.wire[p] = <<>>, !.mail[p] = <<>>,
              !.calls = [i \in DOMAIN w.calls |-> Orphan(w.calls[i], p)]]

\* Mutant: the sync items requested from the peer stay active.
closed_keeps_active(w, p) ==
    IF w.peers[p].sync = {} THEN Gone(w, p) ELSE trigger_fetch_sync_items_loop(Gone(w, p))


(***************************************************************************)
(* on_connection_closed: what had been requested from this peer is to be   *)
(* requested from another one.                                             *)
(***************************************************************************)
on_connection_closed(w, p) ==
    LET was == w.peers[p]
        sync == IF was.sync = {} THEN Gone(w, p)
                ELSE trigger_fetch_sync_items_loop(
                        [Gone(w, p) EXCEPT !.active = @ \ was.sync])
        again == {x \in was.requested : is_item_in_any_peers_inventory(sync, x)}
    IN  IF was.requested = {} THEN sync
        ELSE trigger_fetch_items_loop(
                FoldSet(LAMBDA x, v : ToFetch(v, x), sync, again))

-----------------------------------------------------------------------------
(* Asking a peer for the ids of the blocks it has. *)

(***************************************************************************)
(* create_blockchain_synopsis_for_peer: the delegate's synopsis up to the  *)
(* last block seen from this peer, continued with the ids it has told us.  *)
(* Both are those of before the wait for the delegate.                     *)
(***************************************************************************)
create_blockchain_synopsis_for_peer(w, seen, ids) ==
    LET own == get_blockchain_synopsis(w.chain, seen, Len(ids))
        first == block_num[ids[1]]
        high == first + Len(ids) - 1
        low == IF own.ids = <<>> THEN 1 ELSE block_num[own.ids[1]]
        heights == SelectSeq(Halving(low, high, high), LAMBDA h : h >= first)
    IN  IF own.thrown # "" \/ ids = <<>> THEN own
        ELSE [own EXCEPT !.ids = @ \o [i \in DOMAIN heights |->
                                          ids[heights[i] - first + 1]]]

fetch_next_batch_of_item_ids_from_peer(w, by, p, then) ==
    Wait(w, "get_blockchain_synopsis", by, p, w.peers[p].seen, w.peers[p].ids, 0, then)

start_synchronizing_with_peer(w, by, p, then) ==
    Wait([w EXCEPT !.peers[p].ids = <<>>, !.peers[p].unfetched = 0,
                   !.peers[p].we_need = TRUE, !.peers[p].seen = ZeroId],
         "start_synchronizing", by, p, ZeroId, <<>>, 0, then)

trigger_process_backlog_of_sync_blocks(w) == [w EXCEPT !.backlog = TRUE]

(***************************************************************************)
(* What is left to do: further peers to ask for ids, or to disconnect the  *)
(* peer whose request we answered; a block that was handed over ends with  *)
(* a look at the backlog.                                                  *)
(***************************************************************************)
Continue(w, by, then) ==
    LET a == Head(then)
    IN  CASE then = <<>> /\ by = "reader" -> w
          [] then = <<>> /\ by # "reader" -> trigger_process_backlog_of_sync_blocks(w)
          [] then # <<>> /\ a.do = "ask" ->
               fetch_next_batch_of_item_ids_from_peer(w, by, a.p, Tail(then))
          [] then # <<>> /\ a.do = "sync" ->
               start_synchronizing_with_peer(w, by, a.p, Tail(then))
          [] OTHER -> disconnect_from_peer(w, a.p, FALSE)

\* fetch_next_batch_of_item_ids_from_peer, from the synopsis on.  An exception other
\* than TooOld leaves the read loop, or the task that handed over the block.
SynopsisMade(w, c) ==
    LET s == create_blockchain_synopsis_for_peer(w, c.item, c.ids)
    IN  CASE s.thrown = "" ->
               Continue(Send([w EXCEPT !.peers[c.p].asked = {s.ids}], c.p,
                             <<[type |-> "fetch_blockchain_item_ids", synopsis |-> s.ids]>>),
                        c.by, c.then)
          [] s = TooOld -> Continue(disconnect_from_peer(w, c.p, FALSE), c.by, c.then)
          [] OTHER -> IF c.by = "reader" THEN on_connection_closed(w, c.p) ELSE w

new_peer_just_added(w, p) ==
    start_synchronizing_with_peer(
        [w EXCEPT !.peers[p] = [NewPeer EXCEPT !.list = "active"]], "reader", p, <<>>)

-----------------------------------------------------------------------------
(* A peer's answer: the ids of its blocks. *)

\* Mutant: only the last block of the synopsis is accepted to build off.
ValidAnswerOffTip(synopsis, ids) ==
    ids # <<>> =>
        /\ \A i \in DOMAIN ids : block_num[ids[i]] = block_num[ids[1]] + i - 1
        /\ IF synopsis = <<>> THEN block_num[ids[1]] = 1
                              ELSE ids[1] = synopsis[Len(synopsis)]

\* A list in sequence that builds off a block of the synopsis, or off nothing.
ValidAnswer(synopsis, ids) ==
    ids # <<>> =>
        /\ \A i \in DOMAIN ids : block_num[ids[i]] = block_num[ids[1]] + i - 1
        /\ IF synopsis = <<>> THEN block_num[ids[1]] = 1
                              ELSE ids[1] \in ToSet(synopsis)

IsFirstForOther(w, p, id) ==
    \E q \in Active(w) \ {p} : w.peers[q].ids # <<>> /\ w.peers[q].ids[1] = id

\* We know all ids the peer has, or enough of them to fetch their blocks; or we ask on.
Listed(w, p, remaining) ==
    IF Len(w.peers[p].ids) > (IF remaining = 0 THEN 0 ELSE MinIdsToPrefetch)
    THEN trigger_fetch_sync_items_loop(w)
    ELSE fetch_next_batch_of_item_ids_from_peer(w, "reader", p, <<>>)

(***************************************************************************)
(* The new ids follow those we have from this peer.  The delegate is told  *)
(* when the number of blocks to fetch changed.                             *)
(***************************************************************************)
Appended(w, p, ids, remaining, changed) ==
    LET longer == [w EXCEPT !.peers[p].ids = @ \o ids, !.peers[p].unfetched = remaining]
    IN  CASE block_num[w.peers[p].seen] + remaining > PlausibleHeight ->
               disconnect_from_peer(longer, p, TRUE)
          [] block_num[w.peers[p].seen] + remaining <= PlausibleHeight /\ changed ->
               Wait(longer, "sync_status", "reader", p, ZeroId, <<>>, remaining, <<>>)
          [] OTHER -> Listed(longer, p, remaining)

\* Mutant: the first id of the new list, which is the last of ours, is kept twice.
MergeKeepsDuplicate(w, p, ids, remaining, changed) ==
    LET r == w.peers[p]
        noted == [w EXCEPT !.peers[p].unfetched = remaining]
    IN  IF ids # <<>> /\ r.ids = <<>> /\ ~IsFirstForOther(w, p, ids[1])
        THEN Wait(noted, "has_item", "reader", p, ZeroId, ids, remaining, <<>>)
        ELSE Appended(noted, p, ids, remaining, changed)

(***************************************************************************)
(* With no ids left from this peer, those at the front of the new list     *)
(* that the delegate has are to be dropped, unless another peer waits for  *)
(* the first of them; when the peer has switched forks, ours after the new *)
(* list's first one are dropped.                                           *)
(***************************************************************************)
Merge(w, p, ids, remaining, changed) ==
    LET r == w.peers[p]
        noted == [w EXCEPT !.peers[p].unfetched = remaining]
        same == {i \in DOMAIN r.ids : r.ids[i] = ids[1]}
        last == CHOOSE i \in same : \A j \in same : j <= i
    IN  CASE ids # <<>> /\ r.ids = <<>> /\ ~IsFirstForOther(w, p, ids[1]) ->
               Wait(noted, "has_item", "reader", p, ZeroId, ids, remaining, <<>>)
          [] ids # <<>> /\ r.ids # <<>> /\ same = {} ->
               Wait([noted EXCEPT !.peers[p].ids = <<>>, !.peers[p].seen = ids[1]],
                    "get_block_time", "reader", p, ZeroId, Tail(ids), remaining, <<>>)
          [] ids # <<>> /\ r.ids # <<>> /\ same # {} ->
               Appended([noted EXCEPT !.peers[p].ids = SubSeq(@, 1, last - 1)],
                        p, ids, remaining, changed)
          [] OTHER -> Appended(noted, p, ids, remaining, changed)

\* The delegate was asked for the first id that is left: drop it if it has it, and go on.
Flush(w, c, changed) ==
    IF c.ids # <<>> /\ has_item(w.chain, c.ids[1])
    THEN Wait([w EXCEPT !.peers[c.p].seen = c.ids[1]],
              "has_item", "reader", c.p, ZeroId, Tail(c.ids), c.n, <<>>)
    ELSE Appended(w, c.p, c.ids, c.n, changed)

\* The peer has nothing that we have not.
UpToDate(w, p, ids) ==
    /\ w.peers[p].ids = <<>> /\ w.peers[p].unfetched = 0
    /\ ids = <<>> \/ has_item(w.chain, ids[1])

\* The last id the peer has, or none: leave sync mode if we have it too.
Latest(w, p, ids, changed) ==
    IF UpToDate(w, p, ids) THEN [w EXCEPT !.peers[p].we_need = FALSE]
    ELSE Merge(w, p, ids, 0, changed)

\* Mutant: a last list whose first block we have is taken for the end of the sync.
answer_of_any_length(w, p, ids, remaining, changed) ==
    LET r == w.peers[p]
        valid == ValidAnswer(CHOOSE s \in r.asked : TRUE, ids)
        answered == [w EXCEPT !.peers[p].asked = {}]
    IN  CASE r.asked = {} -> w
          [] r.asked # {} /\ ~valid -> disconnect_from_peer(w, p, TRUE)
          [] r.asked # {} /\ valid /\ remaining = 0 ->
               Wait(answered, "latest", "reader", p, ZeroId, ids, 0, <<>>)
          [] OTHER -> Merge(answered, p, ids, remaining, changed)

(***************************************************************************)
(* on_blockchain_item_ids_inventory_message: leave sync mode, ask for more *)
(* ids or start to fetch the blocks.                                       *)
(***************************************************************************)
on_blockchain_item_ids_inventory_message(w, p, ids, remaining, changed) ==
    LET r == w.peers[p]
        valid == ValidAnswer(CHOOSE s \in r.asked : TRUE, ids)
        answered == [w EXCEPT !.peers[p].asked = {}]
    IN  CASE r.asked = {} -> w
          [] r.asked # {} /\ ~valid -> disconnect_from_peer(w, p, TRUE)
          [] r.asked # {} /\ valid /\ remaining = 0 /\ ids = <<>> ->
               Latest(answered, p, ids, changed)
          [] r.asked # {} /\ valid /\ remaining = 0 /\ Len(ids) = 1 ->
               Wait(answered, "latest", "reader", p, ZeroId, ids, 0, <<>>)
          [] OTHER -> Merge(answered, p, ids, remaining, changed)

-----------------------------------------------------------------------------
(* Fetching the blocks. *)

have_already_received_sync_item(w, id) == id \in ToSet(w.received) \cup ToSet(w.fresh)

(***************************************************************************)
(* fetch_sync_items_loop, one turn: each idle peer is asked for the first  *)
(* blocks on its list that we neither have nor wait for.  order is the     *)
(* order in which the hash table yields the peers.                         *)
(***************************************************************************)
Wanted(w, ids, id) ==
    /\ ~have_already_received_sync_item(w, id)
    /\ id \notin w.active /\ id \notin ToSet(ids)
    /\ Len(ids) < MaxBlocksPerPeer

Requestable(w, r) ==
    FoldLeft(LAMBDA ids, id : IF Wanted(w, ids, id) THEN Append(ids, id) ELSE ids, <<>>, r.ids)

request_sync_items_from_peer(w, p, ids) ==
    Send([w EXCEPT !.active = @ \cup ToSet(ids), !.peers[p].sync = @ \cup ToSet(ids)],
         p, [i \in DOMAIN ids |-> [type |-> "fetch_items", id |-> ids[i]]])

RequestFrom(w, p) ==
    LET r == w.peers[p]
        ids == Requestable(w, r)
    IN  IF r.we_need /\ idle(r) /\ ~r.inhibit /\ ids # <<>>
        THEN request_sync_items_from_peer(w, p, ids) ELSE w

fetch_sync_items_loop(w, order) ==
    LET turn == [w EXCEPT !.fetch_sync = FALSE]
    IN  IF w.suspended THEN turn ELSE FoldLeft(RequestFrom, turn, order)

(***************************************************************************)
(* process_backlog_of_sync_blocks: the blocks at the front of some peer's  *)
(* list are handed over, as many as may be handled at one time.            *)
(***************************************************************************)
InProgress(w) == Len(w.handling) + Len(SelectSeq(w.calls, LAMBDA c : c.by # "reader"))

Fronting(w, id) == {p \in Active(w) : w.peers[p].ids # <<>> /\ w.peers[p].ids[1] = id}

Popped(w, b) ==
    [w EXCEPT !.peers = [p \in Peer |->
        IF p \notin Fronting(w, b) THEN w.peers[p]
        ELSE [w.peers[p] EXCEPT !.ids = Tail(@), !.processing = @ \cup {b}]]]

\* One turn of the loop: v.again says whether it is to go on.
BacklogTurn(v) ==
    LET w == [v.w EXCEPT !.received = Reverse(v.w.fresh) \o @, !.fresh = <<>>]
        firsts == {i \in DOMAIN w.received : Fronting(w, w.received[i]) # {}}
        i == CHOOSE j \in firsts : \A k \in firsts : j <= k
        b == w.received[i]
        next == CASE firsts = {} -> [w |-> w, again |-> FALSE]
                  [] firsts # {} /\ b \in ToSet(w.recent) -> [w |-> Popped(w, b), again |-> FALSE]
                  [] OTHER -> [w |-> [Popped(w, b) EXCEPT !.received = RemoveAt(@, i),
                                                          !.handling = Append(@, b)],
                               again |-> TRUE]
    IN  CASE ~v.again -> v
          [] v.again /\ InProgress(next.w) < MaxHandled -> next
          [] OTHER -> [w |-> [next.w EXCEPT !.suspended =
                                 @ \/ Len(next.w.received) >= MaxPrefetch],
                       again |-> FALSE]

process_backlog_of_sync_blocks(w) ==
    LET begun == [w EXCEPT !.backlog = FALSE]
        left == FoldLeft(LAMBDA v, i : BacklogTurn(v),
                         [w |-> [begun EXCEPT !.suspended = FALSE], again |-> TRUE],
                         w.fresh \o w.received \o <<ZeroId>>).w
    IN  CASE InProgress(w) >= MaxHandled -> begun
          [] InProgress(w) < MaxHandled /\ left.suspended -> left
          [] OTHER -> trigger_fetch_sync_items_loop(left)

(***************************************************************************)
(* send_sync_block_to_node_delegate, for the block that was handed over    *)
(* first: the delegate takes the blocks in order.  Peers that offered a    *)
(* rejected block are disconnected; peers whose list is now empty are      *)
(* asked for more; peers with which we thought to be in sync, and that did *)
(* not offer the block, are asked again, one after the other in the order  *)
(* given.                                                                  *)
(***************************************************************************)
Accepted(w, b) ==
    LET noted(r) == IF b \notin r.processing THEN r
                    ELSE [r EXCEPT !.seen = b, !.processing = @ \ {b}]
    IN  [Recently(w, b) EXCEPT !.peers = [p \in Peer |->
            IF p \in Active(w) THEN noted(w.peers[p]) ELSE w.peers[p]]]

\* Mutant: looks whether nothing is being processed before the block is taken off.
EmptiedBefore(w, b) == {p \in Active(w) :
    LET r == w.peers[p] IN r.ids = <<>> /\ r.unfetched = 0 /\ r.processing = {} /\ r.seen = b}

Emptied(w, b) == {p \in Active(w) :
    LET r == w.peers[p] IN r.ids = <<>> /\ r.unfetched = 0 /\ r.processing = {b}}

InSync(w) == {p \in Active(w) :
    LET r == w.peers[p] IN /\ r.ids = <<>> /\ r.processing = {}
                           /\ ~r.they_need /\ ~r.we_need}

Asks(peers, what, order) ==
    LET ask == [p \in Peer |-> IF p \in peers THEN <<[do |-> what, p |-> p]>> ELSE <<>>]
    IN  FoldLeft(LAMBDA s, p : s \o ask[p], <<>>, order)

send_sync_block_to_node_delegate(w, order) ==
    LET b == Head(w.handling)
        handed == [w EXCEPT !.handling = Tail(@), !.chain = handle_block(@, b)]
        guilty == {p \in Active(w) : b \in w.peers[p].processing}
    IN  IF Rejects(w.chain, b)
        THEN trigger_process_backlog_of_sync_blocks(
                FoldSet(LAMBDA p, v : disconnect_from_peer(v, p, TRUE), handed, guilty))
        ELSE Continue(Accepted(handed, b), "handover",
                      Asks(Emptied(w, b), "ask", order) \o Asks(InSync(w), "sync", order))

-----------------------------------------------------------------------------
(* Normal operation: items are advertised, requested and passed on. *)

broadcast(w, x) ==
    LET new == [w EXCEPT !.inventory = @ \cup {x}, !.cache = @ \cup {x}]
    IN  IF x \in Block THEN Recently(new, x) ELSE new

\* process_block_message goes on: the peer may be free for other items.
Processed(w, p) == IF idle(w.peers[p]) THEN trigger_fetch_items_loop(w) ELSE w

\* The peers that offered the block have it, and all others are to hear of it.
PassOn(w, b) ==
    broadcast([w EXCEPT !.peers = [q \in Peer |->
                  IF q \in Active(w) /\ b \in w.peers[q].offered
                  THEN [w.peers[q] EXCEPT !.seen = b] ELSE w.peers[q]]], b)

\* A block that we accepted lately is not handed to the delegate again.
process_block_during_normal_operation(w, p, b) ==
    IF b \in ToSet(w.recent) THEN Processed(PassOn(w, b), p)
    ELSE Wait([w EXCEPT !.busy = @ \cup {b}], "handle_block", "reader", p, b, <<>>, 0, <<>>)

(***************************************************************************)
(* The delegate's answer.  An unlinkable block is treated as any other the *)
(* delegate throws for: the delegate translates only network's             *)
(* unlinkable_block_exception, and the chain throws its own.  A block that *)
(* is rejected stays in _message_ids_currently_being_processed.            *)
(***************************************************************************)
BlockHandled(w, p, b) ==
    LET handed == [w EXCEPT !.chain = handle_block(@, b)]
    IN  IF Rejects(w.chain, b)
        THEN Processed(FoldSet(LAMBDA q, v : disconnect_from_peer(v, q, TRUE), handed,
                               {p} \cup Fronting(w, b)), p)
        ELSE Processed(PassOn(Recently([handed EXCEPT !.busy = @ \ {b}], b), b), p)

\* process_block_during_sync
process_block_during_sync(w, b) ==
    trigger_process_backlog_of_sync_blocks([w EXCEPT !.fresh = <<b>> \o @])

process_block_message(w, p, b) ==
    LET r == w.peers[p]
        sync == process_block_during_sync(
                    [w EXCEPT !.peers[p].sync = @ \ {b}, !.active = @ \ {b}], b)
    IN  CASE b \in r.requested ->
               process_block_during_normal_operation(
                   [w EXCEPT !.peers[p].requested = @ \ {b}], p, b)
          [] b \notin r.requested /\ b \in r.sync ->
               (CASE ~idle(sync.peers[p]) -> sync
                  [] idle(sync.peers[p]) /\ r.unfetched > 0 /\ Len(r.ids) < MinIdsToPrefetch ->
                       fetch_next_batch_of_item_ids_from_peer(sync, "reader", p, <<>>)
                  [] OTHER -> trigger_fetch_sync_items_loop(sync))
          [] OTHER -> disconnect_from_peer(w, p, TRUE)

\* process_ordinary_message, for a transaction.
process_ordinary_message(w, p, t) ==
    LET got == Processed([w EXCEPT !.peers[p].requested = @ \ {t}], p)
    IN  IF t \notin w.peers[p].requested THEN disconnect_from_peer(w, p, TRUE)
        ELSE Wait(got, "handle_transaction", "reader", p, t, <<>>, 0, <<>>)

TransactionHandled(w, t) ==
    IF t \in BadTrx THEN [w EXCEPT !.failed = @ \cup {t}] ELSE broadcast(w, t)

(***************************************************************************)
(* on_item_ids_inventory_message, for one item: whatever we do not have,   *)
(* have not asked for and have not seen fail is to be fetched, unless the  *)
(* peer has offered too much already.                                      *)
(***************************************************************************)
ListFull(r, x) ==
    Cardinality(r.offered) > (IF x \in Trx THEN Smaller(MaxTrxOffered, MaxOffered) ELSE MaxOffered)

on_item_ids_inventory_message(w, p, x) ==
    LET told == \E q \in Active(w) : x \in w.peers[q].told
        passed == x \in w.busy \cup w.inventory \/ told \/ ListFull(w.peers[p], x)
        requested == \E q \in Active(w) : x \in w.peers[q].requested
        offered == [w EXCEPT !.peers[p].offered = @ \cup {x}]
    IN  CASE passed -> w
          [] ~passed /\ (requested \/ x \in w.failed \/ x \in ToSet(w.to_fetch)) -> offered
          [] OTHER -> trigger_fetch_items_loop(ToFetch(offered, x))

(***************************************************************************)
(* fetch_items_loop, one turn: each item is asked of an idle peer that     *)
(* offered it and that is not asked for another item already.              *)
(***************************************************************************)
Without(items, x) ==
    FoldLeft(LAMBDA s, y : IF y = x THEN s ELSE Append(s, y), <<>>, items)

RequestItem(w, order, x) ==
    LET from == SelectSeq(order, LAMBDA p : idle(w.peers[p]) /\ x \in w.peers[p].offered)
    IN  IF from = <<>> THEN w
        ELSE Send([w EXCEPT !.peers[from[1]].requested = @ \cup {x},
                            !.to_fetch = Without(@, x)],
                  from[1], <<[type |-> "fetch_items", id |-> x]>>)

fetch_items_loop(w, order) ==
    FoldLeft(LAMBDA v, x : RequestItem(v, order, x),
             [w EXCEPT !.fetch_items = FALSE], w.to_fetch)

\* advertise_inventory_loop: new items go to the peers in sync with us that
\* neither offered them nor were told of them.
advertise_inventory_loop(w) ==
    LET told(r) == [r EXCEPT !.told = @ \cup (w.inventory \ r.offered)]
    IN  [w EXCEPT !.inventory = {},
                  !.peers = [p \in Peer |-> IF p \in Active(w) /\ ~w.peers[p].they_need
                                            THEN told(w.peers[p]) ELSE w.peers[p]]]

(***************************************************************************)
(* on_item_not_available_message.  A sync item is taken off the peer's     *)
(* requests, and stays in _active_sync_requests.                           *)
(***************************************************************************)
on_item_not_available_message(w, p, x) ==
    LET r == w.peers[p]
        without == [w EXCEPT !.peers[p].requested = @ \ {x}, !.peers[p].offered = @ \ {x}]
        missing == [w EXCEPT !.peers[p].sync = @ \ {x}]
    IN  CASE x \in r.requested ->
               trigger_fetch_items_loop(IF is_item_in_any_peers_inventory(without, x)
                                        THEN ToFetch(without, x) ELSE without)
          [] x \notin r.requested /\ x \in r.sync ->
               trigger_fetch_sync_items_loop(
                   IF r.they_need THEN [missing EXCEPT !.peers[p].inhibit = TRUE]
                   ELSE disconnect_from_peer(missing, p, TRUE))
          [] OTHER -> w

-----------------------------------------------------------------------------
(* What a peer asks of us. *)

(***************************************************************************)
(* on_fetch_blockchain_item_ids_message: find out whether the peer is in   *)
(* sync with us, and whether it has a block that we have not.  (The reply  *)
(* changes nothing here.)                                                  *)
(***************************************************************************)
on_fetch_blockchain_item_ids_message(w, p, synopsis) ==
    LET ids == get_block_ids(w.chain, synopsis).ids
        matches == synopsis # <<>> /\ Len(ids) = 1 /\ ids[1] \in ToSet(synopsis)
        r == w.peers[p]
        noted == [w EXCEPT !.peers[p].they_need = ids # <<>> /\ ~matches]
        then == IF matches /\ r.inhibit THEN <<[do |-> "disconnect", p |-> p]>> ELSE <<>>
    IN  CASE SynopsisThrows(w.chain, synopsis) -> on_connection_closed(w, p)
          [] ~SynopsisThrows(w.chain, synopsis) /\ ~r.we_need /\ synopsis # <<>> ->
               Wait(noted, "last_seen", "reader", p, synopsis[Len(synopsis)], <<>>, 0, then)
          [] OTHER -> Continue(noted, "reader", then)

\* The peer's last block is one that we have not: synchronize with it again.
LastSeen(w, c) ==
    IF has_item(w.chain, c.item) THEN Continue(w, "reader", c.then)
    ELSE start_synchronizing_with_peer(w, "reader", c.p, c.then)

\* on_fetch_items_message: we note the block we sent as seen by the peer's
\* side.  A block we do not have throws, which closes the connection.
on_fetch_items_message(w, p, b) ==
    IF b \in w.cache \/ has_item(w.chain, b) THEN [w EXCEPT !.peers[p].seen = b]
    ELSE on_connection_closed(w, p)

-----------------------------------------------------------------------------
(***************************************************************************)
(* on_message.  changed says whether the number of blocks to fetch that    *)
(* the delegate was told last differs from the one there is now.           *)
(***************************************************************************)
on_message(w, p, m, changed) ==
    CASE m.type = "blockchain_item_ids_inventory" ->
           on_blockchain_item_ids_inventory_message(w, p, m.ids, m.remaining, changed)
      [] m.type = "fetch_blockchain_item_ids" ->
           on_fetch_blockchain_item_ids_message(w, p, m.ids)
      [] m.type = "fetch_items" -> on_fetch_items_message(w, p, m.id)
      [] m.type = "item_not_available" -> on_item_not_available_message(w, p, m.id)
      [] m.type = "item_ids_inventory" -> on_item_ids_inventory_message(w, p, m.id)
      [] m.type = "block" -> process_block_message(w, p, m.id)
      [] m.type = "trx" -> process_ordinary_message(w, p, m.id)

\* The delegate has answered the call made first, and the fiber goes on.
Resume(w, changed) ==
    LET c == Head(w.calls)
        v == [w EXCEPT !.calls = Tail(@)]
    IN  CASE c.kind = "latest" -> Latest(v, c.p, c.ids, changed)
          [] c.kind = "has_item" -> Flush(v, c, changed)
          [] c.kind = "get_block_time" -> Appended(v, c.p, c.ids, c.n, changed)
          [] c.kind = "sync_status" -> Listed(v, c.p, c.n)
          [] c.kind = "get_blockchain_synopsis" -> SynopsisMade(v, c)
          [] c.kind = "start_synchronizing" ->
               fetch_next_batch_of_item_ids_from_peer(
                   [v EXCEPT !.peers[c.p].inhibit = FALSE], c.by, c.p, c.then)
          [] c.kind = "handle_block" -> BlockHandled(v, c.p, c.item)
          [] c.kind = "handle_transaction" -> TransactionHandled(v, c.item)
          [] c.kind = "last_seen" -> LastSeen(v, c)
          [] OTHER -> Continue(v, c.by, c.then)

-----------------------------------------------------------------------------
(***************************************************************************)
(* terminate_inactive_connections_loop, for the active peers in the order  *)
(* of the hash table.  quiet are those that sent nothing for long, late    *)
(* those that did not answer a request in time.  A peer that is late with  *)
(* sync items ends the loop.                                               *)
(***************************************************************************)
LateSync(w, p, quiet, late) == p \in late \ quiet /\ w.peers[p].sync # {}

Reached(w, order, quiet, late) ==
    {order[i] : i \in {j \in DOMAIN order :
        \A k \in 1..j : ~LateSync(w, order[k], quiet, late)}}

terminate_inactive_connections_loop(w, order, quiet, late) ==
    LET reached == Reached(w, order, quiet, late)
        forcibly == {p \in reached \ quiet : p \in late}
        terminated == [w EXCEPT !.peers = [p \in Peer |->
            IF p \in forcibly THEN [w.peers[p] EXCEPT !.list = "terminating"] ELSE w.peers[p]]]
    IN  FoldSet(LAMBDA p, v : disconnect_from_peer(v, p, FALSE),
                terminated, reached \cap quiet)
============================================================================
