-------------------------------- MODULE P2P --------------------------------
(***************************************************************************)
(* One node (P2PNode) and its peers.  A peer has a chain that may grow or  *)
(* change, answers what it is asked in order, advertises new items and     *)
(* asks for ours.  What may happen is bounded: env says how often the      *)
(* peers may still do what they do of their own accord, and which faults   *)
(* occur.                                                                  *)
(***************************************************************************)
EXTENDS P2PNode

CONSTANTS
    Mixes,      \* the first values of env, with the first heads
    Offers,     \* the items that peers may advertise
    MaxLag,     \* the most blocks that arrive before process_backlog_of_sync_blocks runs
    MaxInFlight, \* the most messages of a peer that are on the way to us
    MaxGrowth   \* the most blocks a peer's chain gets longer by in one step

(***************************************************************************)
(* GRAPHENE_NET_MIN_BLOCK_IDS_TO_PREFETCH is 10000, an answer has 2000     *)
(* ids, a peer is asked for 200 blocks at a time, and at most 2000 wait: a *)
(* peer's list does not run out while we ask for the ids that come after   *)
(* it, although a batch of blocks may be asked for before the request for  *)
(* ids goes out.                                                           *)
(***************************************************************************)
ASSUME LagAssumption ==
    /\ {MaxLag, MaxInFlight, MaxGrowth} \subseteq Nat \ {0}
    /\ MaxLag + 2 * MaxBlocksPerPeer + MaxPrefetch < MinIdsToPrefetch
    /\ MaxBlocksPerPeer < IdsLimit - 1

Faults == {"lost", "missing", "slow", "wrong", "inventory"}

Budgets == [moves : Nat, asks : Nat, news : Nat, drops : Nat, joins : Nat,
            faults : SUBSET Faults]

ASSUME MixAssumption ==
    Mixes \subseteq [ours : BlockId, theirs : [Peer -> BlockId], env : Budgets]

VARIABLES
    w,          \* the node
    theirs,     \* theirs[p]: the head of the peer's chain
    held,       \* held[p]: the items the peer has
    said,       \* said[p]: the head the peer had when it sent the ids we read last
    env         \* what may still happen

vars == <<w, theirs, held, said, env>>

Init ==
    \E m \in Mixes :
        /\ w = FirstWorld(m.ours)
        /\ theirs = m.theirs
        /\ held = [p \in Peer |-> ancestors[m.theirs[p]]]
        /\ said = [p \in Peer |-> ZeroId]
        /\ env = m.env

Spend(what) == env[what] > 0 /\ env' = [env EXCEPT ![what] = @ - 1]

Orders == {o \in [1..Cardinality(Active(w)) -> Active(w)] :
               \A i, j \in DOMAIN o : i # j => o[i] # o[j]}

Talking(p) == w.peers[p].list \in {"active", "closing"}

CanSend(p) == Talking(p) /\ Len(w.mail[p]) < MaxInFlight

-----------------------------------------------------------------------------
(* The peers' side. *)

\* A connection is made and passes the handshake.
Connect(p) ==
    /\ w.peers[p].list = "none" /\ Spend("joins")
    /\ w' = new_peer_just_added(w, p)
    /\ UNCHANGED <<theirs, held, said>>

\* The peer's chain grows, or it switches to another branch.
Move(p, b) ==
    /\ block_num[b] - block_num[theirs[p]] \in 1..MaxGrowth /\ Spend("moves")
    /\ theirs' = [theirs EXCEPT ![p] = b]
    /\ held' = [held EXCEPT ![p] = @ \cup ancestors[b]]
    /\ UNCHANGED <<w, said>>

\* What the peer sends: an answer takes our question off the wire.
Sends(p, m) == w' = [w EXCEPT !.mail[p] = Append(@, m)]

Answers(p, m) == w' = [w EXCEPT !.wire[p] = Tail(@), !.mail[p] = Append(@, m)]

IdsAre(p, ids, remaining) ==
    [type |-> "blockchain_item_ids_inventory", ids |-> ids, remaining |-> remaining,
     head |-> theirs[p]]

TheItem(x) == [type |-> IF x \in Block THEN "block" ELSE "trx", id |-> x]

Asked(p, type) == CanSend(p) /\ w.wire[p] # <<>> /\ Head(w.wire[p]).type = type

\* The peer answers our request for ids with those of its chain as it is
\* now; or with something that is no answer to it.
AnswerIds(p) ==
    /\ Asked(p, "fetch_blockchain_item_ids")
    /\ LET a == get_block_ids(ChainUpTo(theirs[p]), Head(w.wire[p]).synopsis)
       IN  Answers(p, IdsAre(p, a.ids, a.remaining))
    /\ UNCHANGED <<theirs, held, said, env>>

WrongIds(p) ==
    /\ Asked(p, "fetch_blockchain_item_ids") /\ "wrong" \in env.faults
    /\ \E a \in {<<theirs[p]>>, <<theirs[p], theirs[p]>>}, n \in {0, PlausibleHeight + 1} :
          Answers(p, IdsAre(p, a, n))
    /\ UNCHANGED <<theirs, held, said, env>>

\* The peer sends the item we asked it for.
AnswerItem(p) ==
    /\ Asked(p, "fetch_items") /\ Head(w.wire[p]).id \in held[p]
    /\ Answers(p, TheItem(Head(w.wire[p]).id))
    /\ UNCHANGED <<theirs, held, said, env>>

\* It may have forgotten the item.
NoItem(p) ==
    /\ Asked(p, "fetch_items") /\ "missing" \in env.faults
    /\ Answers(p, [type |-> "item_not_available", id |-> Head(w.wire[p]).id])
    /\ UNCHANGED <<theirs, held, said, env>>

\* An item comes that was not asked for.
Unasked(p, x) ==
    /\ CanSend(p) /\ "wrong" \in env.faults /\ x \in held[p] \ {ZeroId}
    /\ x \notin w.peers[p].requested \cup w.peers[p].sync
    /\ Sends(p, TheItem(x))
    /\ UNCHANGED <<theirs, held, said, env>>

Advertise(p, x) ==
    /\ CanSend(p) /\ "inventory" \in env.faults /\ Spend("news")
    /\ x = theirs[p] \/ x \in Trx
    /\ Sends(p, [type |-> "item_ids_inventory", id |-> x])
    /\ held' = [held EXCEPT ![p] = @ \cup {x}]
    /\ UNCHANGED <<theirs, said>>

\* The peer asks for our ids, with a synopsis of its chain.
AskIds(p) ==
    /\ CanSend(p) /\ Spend("asks")
    /\ Sends(p, [type |-> "fetch_blockchain_item_ids",
                  ids |-> get_blockchain_synopsis(ChainUpTo(theirs[p]), ZeroId, 0).ids])
    /\ UNCHANGED <<theirs, held, said>>

\* The peer asks for a block it knows that we have.
AskItem(p, b) ==
    /\ CanSend(p) /\ Spend("asks") /\ w.peers[p].they_need
    /\ b \in ancestors[w.chain.head]
    /\ Sends(p, [type |-> "fetch_items", id |-> b])
    /\ UNCHANGED <<theirs, held, said>>

\* The peer's read loop takes the next message.
Receive(p) ==
    /\ Talking(p) /\ Reading(w, p) /\ w.mail[p] # <<>> /\ Len(w.fresh) < MaxLag
    /\ LET m == Head(w.mail[p])
       IN  /\ \E changed \in BOOLEAN :
                 w' = on_message([w EXCEPT !.mail[p] = Tail(@)], p, m, changed)
           /\ said' = IF m.type = "blockchain_item_ids_inventory"
                      THEN [said EXCEPT ![p] = m.head] ELSE said
    /\ UNCHANGED <<theirs, held, env>>

\* The connection breaks, or the peer closes it.
Drop(p) ==
    /\ w.peers[p].list = "active" /\ Reading(w, p) /\ "lost" \in env.faults /\ Spend("drops")
    /\ w' = on_connection_closed(w, p)
    /\ UNCHANGED <<theirs, held, said>>

Close(p) ==
    /\ w.peers[p].list \in {"closing", "terminating"} /\ Reading(w, p)
    /\ w' = on_connection_closed(w, p)
    /\ UNCHANGED <<theirs, held, said, env>>

-----------------------------------------------------------------------------
(* The node's own tasks. *)

FetchSyncItems ==
    /\ w.fetch_sync
    /\ \E order \in Orders : w' = fetch_sync_items_loop(w, order)
    /\ UNCHANGED <<theirs, held, said, env>>

FetchItems ==
    /\ w.fetch_items
    /\ \E order \in Orders : w' = fetch_items_loop(w, order)
    /\ UNCHANGED <<theirs, held, said, env>>

AdvertiseInventory ==
    /\ w.inventory # {}
    /\ w' = advertise_inventory_loop(w)
    /\ UNCHANGED <<theirs, held, said, env>>

ProcessBacklog ==
    /\ w.backlog
    /\ w' = process_backlog_of_sync_blocks(w)
    /\ UNCHANGED <<theirs, held, said, env>>

SendSyncBlock ==
    /\ w.handling # <<>>
    /\ \E order \in Orders : w' = send_sync_block_to_node_delegate(w, order)
    /\ UNCHANGED <<theirs, held, said, env>>

GoOn ==
    /\ w.calls # <<>>
    /\ \E changed \in BOOLEAN : w' = Resume(w, changed)
    /\ UNCHANGED <<theirs, held, said, env>>

\* Only a peer that was asked something can be late.
Terminate ==
    /\ "slow" \in env.faults
    /\ \E order \in Orders, quiet, late \in SUBSET Active(w) :
          /\ \A p \in late : ~idle(w.peers[p])
          /\ w' = terminate_inactive_connections_loop(w, order, quiet, late)
    /\ UNCHANGED <<theirs, held, said, env>>

Next ==
    \/ \E p \in Peer : \/ Connect(p) \/ AnswerIds(p) \/ WrongIds(p) \/ AnswerItem(p)
                       \/ NoItem(p) \/ AskIds(p) \/ Receive(p) \/ Drop(p) \/ Close(p)
    \/ \E p \in Peer, b \in Block : Move(p, b) \/ AskItem(p, b)
    \/ \E p \in Peer, x \in Offers : Unasked(p, x) \/ Advertise(p, x)
    \/ FetchSyncItems \/ FetchItems \/ AdvertiseInventory \/ ProcessBacklog
    \/ SendSyncBlock \/ GoOn \/ Terminate

Spec == Init /\ [][Next]_vars

(***************************************************************************)
(* The scheduler of fc::thread runs some task that is ready, the delegate  *)
(* answers, a peer that was asked answers and a connection that is closing *)
(* closes; nothing is assumed about which of them comes first.  This is    *)
(* weak fairness of those steps, which are the ones that leave env alone,  *)
(* written out: Ready says when one of them is enabled.                    *)
(***************************************************************************)
Ready ==
    \/ \E p \in Peer :
          \/ w.peers[p].list \in {"closing", "terminating"} /\ Reading(w, p)
          \/ CanSend(p) /\ w.wire[p] # <<>>
          \/ Talking(p) /\ Reading(w, p) /\ w.mail[p] # <<>> /\ Len(w.fresh) < MaxLag
    \/ w.fetch_sync \/ w.fetch_items \/ w.inventory # {} \/ w.backlog
    \/ w.handling # <<>> \/ w.calls # <<>>

FairSpec == Spec /\ ([]<>~Ready \/ []<><<env' = env>>_w)

-----------------------------------------------------------------------------
TypeOK ==
    /\ w.chain \in Chains
    /\ w.blamed \subseteq Peer /\ w.active \subseteq Block
    /\ ToSet(w.fresh) \cup ToSet(w.received) \cup ToSet(w.handling) \subseteq Block
    /\ ToSet(w.to_fetch) \cup w.busy \cup w.inventory \cup w.cache \cup w.failed
          \subseteq Item
    /\ ToSet(w.recent) \subseteq BlockId /\ Len(w.recent) <= MaxRecent
    /\ {w.suspended, w.backlog, w.fetch_sync, w.fetch_items} \subseteq BOOLEAN
    /\ \A p \in Peer :
          LET r == w.peers[p]
          IN  /\ r.list \in {"none", "active", "closing", "terminating"}
              /\ ToSet(r.ids) \cup r.sync \cup r.processing \subseteq Block
              /\ r.unfetched \in Nat /\ Cardinality(r.asked) <= 1 /\ r.seen \in BlockId
              /\ r.requested \cup r.offered \cup r.told \subseteq Item
              /\ Len(w.mail[p]) <= MaxInFlight
    /\ {theirs, said} \subseteq [Peer -> BlockId] /\ env \in Budgets

Connected == {p \in Peer : w.peers[p].list # "none"}

(***************************************************************************)
(* No sync block waits for nobody: every block in _active_sync_requests is *)
(* still expected from a peer that is connected, however requests, answers *)
(* and lost connections interleave (request_sync_items_from_peer,          *)
(* process_block_message, on_connection_closed), unless a peer said that   *)
(* it does not have a block.                                               *)
(***************************************************************************)
RequestsAreOwned ==
    "missing" \notin env.faults =>
        w.active = UNION {w.peers[p].sync : p \in Connected}

(***************************************************************************)
(* Two peers are never asked for the same sync block at the same time,     *)
(* also when one of them is being disconnected (fetch_sync_items_loop,     *)
(* on_connection_closed).                                                  *)
(***************************************************************************)
AskedOfOne ==
    \A p, q \in Peer : p # q => w.peers[p].sync \cap w.peers[q].sync = {}

\* A sync block that is asked for is asked of exactly one peer: none waits for nobody, none is
\* asked for twice.
RequestsSound == RequestsAreOwned /\ AskedOfOne

(***************************************************************************)
(* The list of blocks to get from a peer is a path, and its first block    *)
(* follows on one we have or one that is on its way to the delegate: so    *)
(* blocks are handed over in an order in which they link, although they    *)
(* arrive from several peers in any order and the peers switch forks       *)
(* between two answers (on_blockchain_item_ids_inventory_message,          *)
(* process_backlog_of_sync_blocks).                                        *)
(***************************************************************************)
ListsLink ==
    "wrong" \notin env.faults =>
        \A p \in Active(w) :
            LET ids == w.peers[p].ids
            IN  /\ \A i \in 1..(Len(ids) - 1) : previous[ids[i + 1]] = ids[i]
                /\ ids # <<>> => previous[ids[1]] \in w.chain.known \cup ToSet(w.handling)

(***************************************************************************)
(* The block a synopsis starts from is one the chain knows, which is what  *)
(* the assertion in on_blockchain_item_ids_inventory_message says and what *)
(* get_blockchain_synopsis needs in order not to throw.                    *)
(***************************************************************************)
SeenIsKnown == \A p \in Active(w) : w.peers[p].seen \in w.chain.known

\* What we know of a peer's chain is a path that begins where ours can take it up.
ListsSound == ListsLink /\ SeenIsKnown

(***************************************************************************)
(* Nothing a peer offered is forgotten: it is to be fetched, asked of a    *)
(* peer, with the delegate, accepted or rejected, whichever connections    *)
(* close or lack the item on the way (on_item_ids_inventory_message,       *)
(* fetch_items_loop, on_item_not_available_message, on_connection_closed). *)
(***************************************************************************)
WithDelegate == {w.calls[i].item : i \in {j \in DOMAIN w.calls : w.calls[j].kind = "handle_transaction"}}


\* A chain with that head leaves ours below the last block that can be undone.
ForkTooOld(head) == At(w'.chain.head, w'.chain.lib) \notin ancestors[head]

(***************************************************************************)
(* A peer that tells the truth is disconnected as faulty for four reasons  *)
(* only: its fork became too old for us; it was asked for ids twice, and   *)
(* the answer to the first request is held against the second; it sent a   *)
(* block in normal operation whose parent we do not have; or it was asked  *)
(* for a block that we got from another peer meanwhile, and that is too    *)
(* old by the time it comes.                                               *)
(***************************************************************************)
AskedTwice(p) ==
    \/ \E i \in DOMAIN w.wire[p] : w.wire[p][i].type = "fetch_blockchain_item_ids"
    \/ \E i \in DOMAIN w.mail[p] : i > 1 /\ w.mail[p][i].type = "blockchain_item_ids_inventory"

\* The block that the delegate gives its answer to, by the way it was handed over.
JudgedInSync == {w.handling[i] : i \in DOMAIN w.handling \cap {1}}
JudgedAlone == {w.calls[i].item : i \in {j \in DOMAIN w.calls \cap {1} : w.calls[j].kind = "handle_block"}}

DoesNotLink == \E b \in JudgedAlone : previous[b] \notin w.chain.known
FetchedTwice == \E b \in JudgedInSync \cup JudgedAlone : b \in w.chain.known

HonestNotBlamed ==
    [][\A p \in w'.blamed \ w.blamed :
          env.faults \subseteq {"lost", "slow", "inventory"} =>
              ForkTooOld(theirs[p]) \/ AskedTwice(p) \/ DoesNotLink \/ FetchedTwice]_vars

(***************************************************************************)
(* When sync mode with a peer ends, we have the head it had when it sent   *)
(* the answer that ended it, or its fork is too old for us.                *)
(***************************************************************************)
SyncedMeansCaughtUp ==
    [][\A p \in Active(w) :
          ("wrong" \notin env.faults /\ w.peers[p].we_need /\ ~w'.peers[p].we_need) =>
              said'[p] \in w'.chain.known \/ ForkTooOld(said'[p])]_vars

(***************************************************************************)
(* Sync mode with our only peer ends: every block it told us of is         *)
(* requested, handed over and accounted for, and we ask once more until    *)
(* there is nothing left, although the lists come in several answers,      *)
(* fetching is suspended while the backlog is long and each of the loops   *)
(* runs only when another step wakes it.                                   *)
(***************************************************************************)
Alone(p) == env.joins = 0 /\ \A q \in Peer \ {p} : w.peers[q].list = "none"

SyncEnds ==
    \A p \in Peer :
        (env.faults = {} /\ Alone(p) /\ w.peers[p].list = "active" /\ w.peers[p].we_need)
            ~> (w.peers[p].list # "active" \/ ~w.peers[p].we_need)
============================================================================
