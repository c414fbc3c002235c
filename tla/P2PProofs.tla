----------------------------- MODULE P2PProofs -----------------------------
(***************************************************************************)
(* Proofs about P2P, for every set of peers, every tree of blocks, every   *)
(* set of offers and every bound.                                          *)
(***************************************************************************)
EXTENDS P2P, InductionLemmas, SequenceTheorems, TLAPS

WorldFields == {"chain", "peers", "wire", "mail", "calls", "blamed", "active", "fresh",
                "received", "handling", "recent", "suspended", "backlog", "fetch_sync",
                "to_fetch", "fetch_items", "busy", "inventory", "cache", "failed"}

PeerFields == {"list", "ids", "unfetched", "asked", "sync", "processing", "seen", "we_need",
               "they_need", "inhibit", "requested", "offered", "told"}

CallFields == {"kind", "by", "p", "item", "ids", "n", "then"}

IsSeq(s) == s \in Seq(Range(s))

\* The members that a node and its connections have.
Shape(v) ==
    /\ DOMAIN v = WorldFields /\ DOMAIN v.peers = Peer /\ DOMAIN v.mail = Peer
    /\ \A p \in Peer : DOMAIN v.peers[p] = PeerFields

\* What the loops go through.
Loops(v) ==
    /\ IsSeq(v.fresh) /\ IsSeq(v.received) /\ IsSeq(v.to_fetch)
    /\ \A p \in Peer : IsSeq(v.peers[p].ids) /\ IsFiniteSet(v.peers[p].requested)

\* The fibers that wait.
Todo == [do : {"ask", "sync", "disconnect"}, p : Peer]

Fits(c) == DOMAIN c = CallFields /\ c.p \in Peer /\ IsSeq(c.ids) /\ c.then \in Seq(Todo)

Waiting(calls) == IsSeq(calls) /\ \A i \in DOMAIN calls : Fits(calls[i])

\* The messages that have not been read.
Letter(m) ==
    /\ m.type \in {"blockchain_item_ids_inventory", "fetch_blockchain_item_ids", "fetch_items",
                   "item_not_available", "item_ids_inventory", "block", "trx"}
    /\ m.type = "blockchain_item_ids_inventory" => IsSeq(m.ids)

Posted(mail) ==
    \A p \in Peer : IsSeq(mail[p]) /\ \A i \in DOMAIN mail[p] : Letter(mail[p][i])

\* A sync block that is asked of a peer is active and is asked of no other one.
Shared(v) ==
    /\ \A p \in Peer : /\ v.peers[p].sync \subseteq v.active
                       /\ v.peers[p].list = "none" => v.peers[p].sync = {}
    /\ \A p, q \in Peer : p # q => v.peers[p].sync \cap v.peers[q].sync = {}

\* Every active sync block is asked of some peer.
Owned(v) == \A x \in v.active : \E p \in Peer : x \in v.peers[p].sync

NodeInv(v) ==
    Shape(v) /\ Loops(v) /\ Waiting(v.calls) /\ Posted(v.mail) /\ Shared(v)

\* The node reads no message but the one it handles; those of a closed connection are lost.
Unread(v, u) == \A p \in Peer : u.mail[p] = v.mail[p] \/ u.mail[p] = <<>>

\* What a handler makes of v.
Keeps(v, u) == NodeInv(u) /\ (Owned(v) => Owned(u)) /\ Unread(v, u)

\* What does not concern the requests for sync blocks.
Calm(v, u) ==
    /\ Shape(u) /\ Loops(u) /\ Waiting(u.calls) /\ u.mail = v.mail /\ u.active = v.active
    /\ \A p \in Peer : /\ u.peers[p].list \in {v.peers[p].list, "closing", "terminating"}
                       /\ u.peers[p].sync = v.peers[p].sync

\* Such a step keeps the invariant.
LEMMA CalmKeeps ==
    ASSUME NEW v, NEW u, NodeInv(v), Calm(v, u)
    PROVE  Keeps(v, u)
BY DEF NodeInv, Calm, Keeps, Shared, Owned, Unread

\* Steps that keep the invariant do so one after the other.
LEMMA KeepsChain ==
    ASSUME NEW v, NEW u, NEW t, Keeps(v, u), Keeps(u, t)
    PROVE  Keeps(v, t)
BY DEF Keeps, Unread

\* A step that changes nothing keeps it.
LEMMA KeepsSelf == ASSUME NEW v, NodeInv(v) PROVE Keeps(v, v)
BY DEF Keeps, Unread

----------------------------------------------------------------------------
(* Sequences.                                                              *)

\* A sequence of anything.
LEMMA IsSeqOf == ASSUME NEW A, NEW s \in Seq(A) PROVE IsSeq(s)
BY DEF IsSeq, Range

\* The rest of a list of messages, blocks or ids is one.
LEMMA SeqTail == ASSUME NEW s, IsSeq(s), s # <<>> PROVE IsSeq(Tail(s))
<1>1. Tail(s) \in Seq(Range(s))
  BY DEF IsSeq
<1> QED BY <1>1, IsSeqOf

\* With one more at the end.
LEMMA SeqAppend == ASSUME NEW s, IsSeq(s), NEW e PROVE IsSeq(Append(s, e))
<1>1. s \in Seq(Range(s) \cup {e})
  BY DEF IsSeq
<1>2. Append(s, e) \in Seq(Range(s) \cup {e})
  BY <1>1
<1> QED BY <1>2, IsSeqOf

\* Two lists after each other.
LEMMA SeqConcat == ASSUME NEW s, NEW t, IsSeq(s), IsSeq(t) PROVE IsSeq(s \o t)
<1>1. s \in Seq(Range(s) \cup Range(t)) /\ t \in Seq(Range(s) \cup Range(t))
  BY DEF IsSeq
<1>2. s \o t \in Seq(Range(s) \cup Range(t))
  BY <1>1
<1> QED BY <1>2, IsSeqOf

\* A part of a list.
LEMMA SeqSub == ASSUME NEW s, IsSeq(s), NEW m, NEW n, m \in 1..(Len(s) + 1), n \in 0..Len(s)
                PROVE  IsSeq(SubSeq(s, m, n))
<1>1. SubSeq(s, m, n) \in Seq(Range(s))
  BY DEF IsSeq
<1> QED BY <1>1, IsSeqOf

\* A function over the numbers up to n.
LEMMA SeqOfFunction ==
    ASSUME NEW n \in Int, NEW s, s = [i \in 1..n |-> s[i]]
    PROVE  IsSeq(s)
<1>1. n \in Nat => s \in Seq({s[i] : i \in 1..n})
  OBVIOUS
<1>2. n \notin Nat => s = <<>>
  OBVIOUS
<1>3. <<>> \in Seq({})
  OBVIOUS
<1> QED BY <1>1, <1>2, <1>3, IsSeqOf

\* No ancestor is above a block.
LEMMA AncestorsBelow ==
    \A b \in BlockId : \A x \in ancestors[b] : block_num[x] \in Nat /\ block_num[x] <= block_num[b]
<1> DEFINE T == {n \in Nat : \A b \in BlockId : block_num[b] = n =>
                    \A x \in ancestors[b] : block_num[x] <= n}
<1>0. \A b \in BlockId : /\ block_num[b] \in Nat
                         /\ \A x \in ancestors[b] : x \in BlockId
  BY HeaderAssumption, AncestorAssumption
<1>1. 0 \in T
  <2> SUFFICES ASSUME NEW b \in BlockId, block_num[b] = 0 PROVE \A x \in ancestors[b] : block_num[x] <= 0
    OBVIOUS
  <2>1. b = ZeroId
    <3>1. ASSUME b \in Block PROVE FALSE
      <4>1. previous[b] \in BlockId /\ block_num[b] = block_num[previous[b]] + 1
        BY <3>1, HeaderAssumption
      <4> QED BY <1>0, <4>1
    <3> QED BY <3>1 DEF BlockId
  <2> QED BY <2>1, AncestorAssumption, HeaderAssumption
<1>2. ASSUME NEW n \in Nat, n \in T PROVE n + 1 \in T
  <2> SUFFICES ASSUME NEW b \in BlockId, block_num[b] = n + 1, NEW x \in ancestors[b]
               PROVE  block_num[x] <= n + 1
    OBVIOUS
  <2>1. b \in Block
    BY HeaderAssumption DEF BlockId
  <2>2. previous[b] \in BlockId /\ block_num[previous[b]] = n
    BY <1>0, <2>1, HeaderAssumption
  <2>3. x = b \/ x \in ancestors[previous[b]]
    BY <2>1, AncestorAssumption
  <2> QED BY <1>0, <1>2, <2>2, <2>3
<1>3. \A n \in Nat : n \in T
  <2> HIDE DEF T
  <2> QED BY <1>1, <1>2, NatInduct
<1> QED
  BY <1>0, <1>3

\* The ids that a peer answers are a sequence.
LEMMA AnswerIsSeq ==
    ASSUME NEW b \in BlockId, NEW synopsis
    PROVE  IsSeq(get_block_ids(ChainUpTo(b), synopsis).ids)
<1> DEFINE c == ChainUpTo(b)
           common == {x \in ancestors[c.head] : \E i \in DOMAIN synopsis : synopsis[i] = x}
           heights == {block_num[x] : x \in common}
           from == IF synopsis = <<>> THEN 1
                   ELSE Larger(1, CHOOSE n \in heights : \A m \in heights : m <= n)
           to == Smaller(block_num[c.head], from + IdsLimit - 1)
           s == [i \in 1..(to - from + 1) |-> At(c.head, from + i - 1)]
           ids == get_block_ids(c, synopsis).ids
<1>1. c.head = b
  BY DEF ChainUpTo
<1>2. ids = IF c.head = ZeroId \/ (synopsis # <<>> /\ common = {}) THEN <<>> ELSE s
  BY DEF get_block_ids
<1>3. <<>> \in Seq({})
  OBVIOUS
<1>4. ASSUME synopsis # <<>> => common # {} PROVE IsSeq(s)
  <2>1. heights \in SUBSET Nat /\ block_num[b] \in Nat /\ \A k \in heights : k <= block_num[b]
    BY <1>1, AncestorsBelow, HeaderAssumption
  <2>2. synopsis # <<>> => (CHOOSE n \in heights : \A m \in heights : m <= n) \in heights
    <3> SUFFICES ASSUME synopsis # <<>> PROVE \E n \in heights : \A m \in heights : m <= n
      OBVIOUS
    <3>1. heights # {}
      BY <1>4
    <3> HIDE DEF heights
    <3> QED BY <2>1, <3>1, GreatestExists
  <2>3. from \in Int
    <3> HIDE DEF heights
    <3>1. PICK m : m = CHOOSE n \in heights : \A k \in heights : k <= n
      OBVIOUS
    <3>2. synopsis # <<>> => m \in Nat
      BY <2>1, <2>2, <3>1
    <3>3. from = IF synopsis = <<>> THEN 1 ELSE Larger(1, m)
      BY <3>1
    <3> HIDE DEF from
    <3> QED BY <3>2, <3>3 DEF Larger
  <2>4. to \in Int
    BY <1>1, <2>1, <2>3, DelegateAssumption DEF Smaller, DelegateAssumption
  <2>5. s = [i \in 1..(to - from + 1) |-> s[i]]
    OBVIOUS
  <2> HIDE DEF s, from, to
  <2> QED BY <2>3, <2>4, <2>5, SeqOfFunction
<1> HIDE DEF s, common, ids
<1>5. IsSeq(ids)
  BY <1>2, <1>3, <1>4, IsSeqOf
<1> QED BY <1>5 DEF ids

----------------------------------------------------------------------------
(* Connections.                                                            *)

\* Calm steps: the ones that only note something, and disconnect_from_peer.
LEMMA Disconnected ==
    ASSUME NEW v, NodeInv(v), NEW p \in Peer, NEW fault
    PROVE  Keeps(v, disconnect_from_peer(v, p, fault))
<1> DEFINE u == disconnect_from_peer(v, p, fault)
<1>1. Calm(v, u)
  BY DEF disconnect_from_peer, NodeInv, Calm, Shape, Loops, WorldFields, PeerFields
<1> HIDE DEF u
<1> QED BY <1>1, CalmKeeps DEF u

\* The loops that are to run again.
LEMMA Triggered ==
    ASSUME NEW v, NodeInv(v)
    PROVE  /\ Keeps(v, trigger_fetch_sync_items_loop(v))
           /\ Keeps(v, trigger_fetch_items_loop(v))
           /\ Keeps(v, trigger_process_backlog_of_sync_blocks(v))
<1> DEFINE a == trigger_fetch_sync_items_loop(v)
           b == trigger_fetch_items_loop(v)
           c == trigger_process_backlog_of_sync_blocks(v)
<1>1. Calm(v, a)
  BY DEF trigger_fetch_sync_items_loop, NodeInv, Calm, Shape, Loops, WorldFields
<1>2. Calm(v, b)
  BY DEF trigger_fetch_items_loop, NodeInv, Calm, Shape, Loops, WorldFields
<1>3. Calm(v, c)
  BY DEF trigger_process_backlog_of_sync_blocks, NodeInv, Calm, Shape, Loops, WorldFields
<1> HIDE DEF a, b, c
<1> QED BY <1>1, <1>2, <1>3, CalmKeeps DEF a, b, c

\* An item that is to be fetched.
LEMMA ToFetchKeeps ==
    ASSUME NEW v, NodeInv(v), NEW x
    PROVE  Keeps(v, ToFetch(v, x))
<1> DEFINE u == [v EXCEPT !.to_fetch = Append(@, x)]
<1>1. IsSeq(Append(v.to_fetch, x))
  BY SeqAppend DEF NodeInv, Loops
<1>2. Calm(v, u)
  BY <1>1 DEF NodeInv, Calm, Shape, Loops, WorldFields
<1> HIDE DEF u
<1>3. Keeps(v, u) /\ Keeps(v, v)
  BY <1>2, CalmKeeps, KeepsSelf
<1> QED BY <1>3 DEF ToFetch, u

\* The bodies of the loops over sets of peers and of items.
ToFetchStep(c, v, x) == ToFetch(v, x)
DisconnectStep(fault, v, p) == disconnect_from_peer(v, p, fault)

FetchingAgain == INSTANCE FoldLemmas WITH Step <- ToFetchStep
Disconnecting == INSTANCE FoldLemmas WITH Step <- DisconnectStep

\* The items of a lost peer are to be fetched from others.
LEMMA FetchingAgainKeeps ==
    ASSUME NEW v, NodeInv(v), NEW S, IsFiniteSet(S)
    PROVE  Keeps(v, FoldSet(LAMBDA x, u : ToFetch(u, x), v, S))
<1> DEFINE F == {U \in SUBSET S : Keeps(v, FetchingAgain!FoldedSet(0, v, U))}
<1>0. \A U \in SUBSET S : FetchingAgain!IsFiniteSet(U)
  <2>1. \A U \in SUBSET S : IsFiniteSet(U)
    BY FS_Subset
  <2> QED BY <2>1, Zenon DEF IsFiniteSet, FetchingAgain!IsFiniteSet
<1>1. {} \in F
  BY <1>0, FetchingAgain!FoldedSetUnfold, KeepsSelf
<1>2. ASSUME NEW U \in SUBSET S, U # {}, \A x \in U : U \ {x} \in F PROVE U \in F
  <2>2. PICK x \in U : FetchingAgain!FoldedSet(0, v, U)
                         = ToFetchStep(0, FetchingAgain!FoldedSet(0, v, U \ {x}), x)
    BY <1>0, <1>2, FetchingAgain!FoldedSetUnfold
  <2>3. PICK u : u = FetchingAgain!FoldedSet(0, v, U \ {x})
    OBVIOUS
  <2>4. Keeps(v, u)
    BY <1>2, <2>3
  <2>5. Keeps(u, ToFetch(u, x))
    BY <2>4, ToFetchKeeps DEF Keeps
  <2>6. Keeps(v, ToFetch(u, x))
    BY <2>4, <2>5, KeepsChain
  <2> QED BY <2>2, <2>3, <2>6 DEF ToFetchStep
<1>3. S \in F
  <2> HIDE DEF F
  <2>1. \A U \in SUBSET S : U # {} /\ (\A x \in U : U \ {x} \in F) => U \in F
    BY <1>2
  <2>2. \A U \in SUBSET S : U \in F
    BY <1>1, <2>1, SubsetInduct
  <2> QED BY <2>2
<1>4. FoldSet(LAMBDA x, u : ToFetch(u, x), v, S) = FetchingAgain!FoldedSet(0, v, S)
  BY FetchingAgain!FoldedSetDef
     DEF ToFetchStep, FoldSet, MapThenFoldSet, FetchingAgain!SetRecursion, FetchingAgain!Some
<1> QED BY <1>3, <1>4

\* The bodies of the loops over what is left to do.
NotForStep(p, s, a) == IF a.p = p THEN s ELSE Append(s, a)

Leaving == INSTANCE FoldLemmas WITH Step <- NotForStep

\* What is left to do for other peers.
LEMMA NotForIsSeq ==
    ASSUME NEW then \in Seq(Todo), NEW p
    PROVE  NotFor(then, p) \in Seq(Todo)
<1> DEFINE f(s) == Leaving!Folded(p, <<>>, s)
           T == {s \in Seq(Todo) : f(s) \in Seq(Todo)}
<1>1. <<>> \in T
  <2>1. f(<<>>) = <<>> /\ <<>> \in Seq(Todo)
    BY Leaving!FoldedEmpty
  <2> HIDE DEF f
  <2> QED BY <2>1
<1>2. ASSUME NEW s \in Seq(Todo), NEW a \in Todo, s \in T PROVE Append(s, a) \in T
  <2>1. f(Append(s, a)) = NotForStep(p, f(s), a)
    BY Leaving!FoldedAppend
  <2> HIDE DEF f
  <2>2. f(s) \in Seq(Todo) /\ Append(f(s), a) \in Seq(Todo) /\ Append(s, a) \in Seq(Todo)
    BY <1>2
  <2> QED BY <2>1, <2>2 DEF NotForStep
<1>3. then \in T
  <2> HIDE DEF T
  <2> QED BY <1>1, <1>2, SeqInduct
<1>4. NotFor(then, p) = f(then)
  BY Leaving!FoldedDef
     DEF NotFor, NotForStep, FoldLeft, MapThenFoldSet, Max, Leaving!Max, Leaving!FoldRecursion
<1> HIDE DEF f
<1> QED BY <1>3, <1>4

\* The fibers go on waiting when a connection is gone.
LEMMA OrphansFit ==
    ASSUME NEW calls, Waiting(calls), NEW p
    PROVE  Waiting([i \in DOMAIN calls |-> Orphan(calls[i], p)])
<1> DEFINE s == [i \in DOMAIN calls |-> Orphan(calls[i], p)]
<1>1. DOMAIN calls = 1..Len(calls) /\ Len(calls) \in Int
  BY DEF Waiting, IsSeq
<1>2. IsSeq(s)
  <2>1. s = [i \in 1..Len(calls) |-> s[i]]
    BY <1>1
  <2> HIDE DEF s
  <2> QED BY <1>1, <2>1, SeqOfFunction
<1>3. ASSUME NEW i \in DOMAIN calls PROVE Fits(Orphan(calls[i], p))
  <2>1. PICK c : c = calls[i]
    OBVIOUS
  <2>2. Fits(c) /\ NotFor(c.then, p) \in Seq(Todo)
    BY <2>1, NotForIsSeq DEF Waiting, Fits
  <2>3. PICK k : k = IF c.p = p THEN "gone" ELSE c.kind
    OBVIOUS
  <2>4. PICK t : t = NotFor(c.then, p)
    OBVIOUS
  <2>5. Orphan(c, p) = [c EXCEPT !.kind = k, !.then = t]
    BY <2>3, <2>4 DEF Orphan
  <2>6. Fits(Orphan(c, p))
    BY <2>2, <2>4, <2>5 DEF Fits, CallFields
  <2> QED BY <2>1, <2>6
<1>4. DOMAIN s = DOMAIN calls /\ \A i \in DOMAIN calls : s[i] = Orphan(calls[i], p)
  OBVIOUS
<1> HIDE DEF s
<1>5. Waiting(s)
  BY <1>2, <1>3, <1>4 DEF Waiting
<1> QED BY <1>5 DEF s

\* Nothing is left of a connection.
LEMMA GoneIs ==
    ASSUME NEW v, NodeInv(v), NEW p \in Peer
    PROVE  /\ Shape(Gone(v, p)) /\ Loops(Gone(v, p)) /\ Waiting(Gone(v, p).calls)
           /\ Posted(Gone(v, p).mail) /\ Unread(v, Gone(v, p)) /\ Gone(v, p).active = v.active
           /\ \A q \in Peer : Gone(v, p).peers[q] = IF q = p THEN NewPeer ELSE v.peers[q]
<1> DEFINE calls == [i \in DOMAIN v.calls |-> Orphan(v.calls[i], p)]
           u == [v EXCEPT !.peers[p] = NewPeer, !.wire[p] = <<>>, !.mail[p] = <<>>, !.calls = calls]
<1>0. IsSeq(NewPeer.ids) /\ IsFiniteSet(NewPeer.requested) /\ DOMAIN NewPeer = PeerFields
  <2>1. <<>> \in Seq({})
    OBVIOUS
  <2> QED BY <2>1, IsSeqOf, FS_EmptySet DEF NewPeer, PeerFields
<1>1. Gone(v, p) = u
  BY DEF Gone
<1>2. Waiting(calls)
  BY OrphansFit DEF NodeInv
<1> HIDE DEF calls
<1>3. /\ DOMAIN u = WorldFields /\ u.calls = calls /\ u.active = v.active
      /\ u.fresh = v.fresh /\ u.received = v.received /\ u.to_fetch = v.to_fetch
      /\ u.peers = [v.peers EXCEPT ![p] = NewPeer] /\ u.mail = [v.mail EXCEPT ![p] = <<>>]
  BY DEF NodeInv, Shape, WorldFields
<1> HIDE DEF u
<1>4. /\ \A q \in Peer : u.peers[q] = IF q = p THEN NewPeer ELSE v.peers[q]
      /\ \A q \in Peer : u.mail[q] = IF q = p THEN <<>> ELSE v.mail[q]
      /\ DOMAIN u.peers = Peer /\ DOMAIN u.mail = Peer
  BY <1>3 DEF NodeInv, Shape
<1>5. Shape(u)
  BY <1>0, <1>3, <1>4 DEF NodeInv, Shape
<1>6. Loops(u)
  BY <1>0, <1>3, <1>4 DEF NodeInv, Loops
<1>7. Posted(u.mail)
  <2>1. <<>> \in Seq({}) /\ \A i \in DOMAIN <<>> : FALSE
    OBVIOUS
  <2>2. IsSeq(<<>>)
    BY <2>1, IsSeqOf
  <2> QED BY <1>4, <2>1, <2>2 DEF NodeInv, Posted
<1>8. Unread(v, u)
  BY <1>4 DEF Unread
<1> QED BY <1>1, <1>2, <1>3, <1>4, <1>5, <1>6, <1>7, <1>8

(***************************************************************************)
(* on_connection_closed: the sync blocks of the peer are no longer active, *)
(* and no other peer was asked for them.                                   *)
(***************************************************************************)
LEMMA ConnectionClosed ==
    ASSUME NEW v, NodeInv(v), NEW p \in Peer
    PROVE  Keeps(v, on_connection_closed(v, p))
<1> DEFINE was == v.peers[p]
           gone == Gone(v, p)
           freed == [gone EXCEPT !.active = @ \ was.sync]
           sync == IF was.sync = {} THEN gone ELSE trigger_fetch_sync_items_loop(freed)
           again == {x \in was.requested : is_item_in_any_peers_inventory(sync, x)}
           refetched == FoldSet(LAMBDA x, u : ToFetch(u, x), sync, again)
<1>1. /\ Shape(gone) /\ Loops(gone) /\ Waiting(gone.calls) /\ Posted(gone.mail)
      /\ Unread(v, gone) /\ gone.active = v.active
      /\ \A q \in Peer : gone.peers[q] = IF q = p THEN NewPeer ELSE v.peers[q]
  BY GoneIs
<1> HIDE DEF gone
<1>2. /\ Shape(freed) /\ Loops(freed) /\ freed.calls = gone.calls /\ freed.mail = gone.mail
      /\ freed.active = v.active \ was.sync /\ freed.peers = gone.peers
  BY <1>1 DEF Shape, Loops, WorldFields
<1>3. IsFiniteSet(was.requested)
  BY DEF NodeInv, Loops
<1>4. NewPeer.sync = {} /\ NewPeer.list = "none"
  BY DEF NewPeer
<1> HIDE DEF freed, was
<1>5. Keeps(v, freed)
  <2>1. Shared(freed) /\ (Owned(v) => Owned(freed))
    BY <1>1, <1>2, <1>4 DEF NodeInv, Shared, Owned, was
  <2>2. Unread(v, freed)
    BY <1>1, <1>2 DEF Unread
  <2> QED BY <1>1, <1>2, <2>1, <2>2 DEF Keeps, NodeInv
<1>6. was.sync = {} => Keeps(v, gone)
  <2>1. was.sync = {} => Shared(gone) /\ (Owned(v) => Owned(gone))
    BY <1>1, <1>4 DEF NodeInv, Shared, Owned, was
  <2> QED BY <1>1, <2>1 DEF Keeps, NodeInv
<1>7. Keeps(v, sync)
  <2>1. Keeps(freed, trigger_fetch_sync_items_loop(freed))
    BY <1>5, Triggered DEF Keeps
  <2>2. Keeps(v, trigger_fetch_sync_items_loop(freed))
    BY <1>5, <2>1, KeepsChain
  <2> QED BY <1>6, <2>2
<1> HIDE DEF sync
<1>8. Keeps(sync, refetched)
  <2>1. IsFiniteSet(again)
    BY <1>3, FS_Subset
  <2> HIDE DEF again
  <2> QED BY <1>7, <2>1, FetchingAgainKeeps DEF Keeps
<1> HIDE DEF refetched
<1>9. Keeps(refetched, trigger_fetch_items_loop(refetched))
  BY <1>8, Triggered DEF Keeps
<1>10. Keeps(v, trigger_fetch_items_loop(refetched))
  BY <1>7, <1>8, <1>9, KeepsChain
<1>11. on_connection_closed(v, p) = IF was.requested = {} THEN sync
                                    ELSE trigger_fetch_items_loop(refetched)
  BY DEF on_connection_closed, refetched, again, sync, freed, gone, was
<1> QED BY <1>7, <1>10, <1>11

----------------------------------------------------------------------------
(* Waiting for the delegate, and asking for ids.                           *)

\* One more fiber waits.
LEMMA WaitKeeps ==
    ASSUME NEW v, NodeInv(v), NEW kind, NEW by, NEW p \in Peer, NEW item, NEW ids, IsSeq(ids),
           NEW n, NEW then \in Seq(Todo)
    PROVE  Keeps(v, Wait(v, kind, by, p, item, ids, n, then))
<1> DEFINE c == [kind |-> kind, by |-> by, p |-> p, item |-> item, ids |-> ids, n |-> n,
                 then |-> then]
           u == [v EXCEPT !.calls = Append(@, c)]
<1>1. Fits(c)
  BY DEF Fits, CallFields
<1>2. Wait(v, kind, by, p, item, ids, n, then) = u
  BY DEF Wait
<1> HIDE DEF c
<1>3. Waiting(Append(v.calls, c))
  <2>1. IsSeq(v.calls) /\ \A i \in DOMAIN v.calls : Fits(v.calls[i])
    BY DEF NodeInv, Waiting
  <2>2. IsSeq(Append(v.calls, c))
    BY <2>1, SeqAppend
  <2>3. \A i \in DOMAIN Append(v.calls, c) : Append(v.calls, c)[i] = c \/
                 (i \in DOMAIN v.calls /\ Append(v.calls, c)[i] = v.calls[i])
    BY <2>1 DEF IsSeq
  <2> QED BY <1>1, <2>1, <2>2, <2>3 DEF Waiting
<1>4. Calm(v, u)
  <2>1. /\ DOMAIN u = WorldFields /\ u.calls = Append(v.calls, c) /\ u.mail = v.mail
        /\ u.peers = v.peers /\ u.active = v.active
        /\ u.fresh = v.fresh /\ u.received = v.received /\ u.to_fetch = v.to_fetch
    BY DEF NodeInv, Shape, WorldFields
  <2> HIDE DEF u
  <2> QED BY <1>3, <2>1 DEF NodeInv, Calm, Shape, Loops
<1> HIDE DEF u
<1> QED BY <1>2, <1>4, CalmKeeps

\* A read loop has nothing left to do, or is to disconnect its peer.
LEMMA ShortTodo ==
    /\ IsSeq(<<>>) /\ <<>> \in Seq(Todo)
    /\ \A p \in Peer : <<[do |-> "disconnect", p |-> p]>> \in Seq(Todo)
<1>1. <<>> \in Seq({}) /\ <<>> \in Seq(Todo)
  OBVIOUS
<1>2. ASSUME NEW p \in Peer PROVE <<[do |-> "disconnect", p |-> p]>> \in Seq(Todo)
  <2>1. [do |-> "disconnect", p |-> p] \in Todo
    BY DEF Todo
  <2> QED BY <2>1
<1> QED BY <1>1, <1>2, IsSeqOf

\* fetch_next_batch_of_item_ids_from_peer, up to the synopsis.
LEMMA NextBatch ==
    ASSUME NEW v, NodeInv(v), NEW by, NEW p \in Peer, NEW then \in Seq(Todo)
    PROVE  Keeps(v, fetch_next_batch_of_item_ids_from_peer(v, by, p, then))
<1>1. IsSeq(v.peers[p].ids)
  BY DEF NodeInv, Loops
<1> QED BY <1>1, WaitKeeps DEF fetch_next_batch_of_item_ids_from_peer

\* start_synchronizing_with_peer forgets what was to be got from the peer.
LEMMA Synchronizing ==
    ASSUME NEW v, NodeInv(v), NEW by, NEW p \in Peer, NEW then \in Seq(Todo)
    PROVE  Keeps(v, start_synchronizing_with_peer(v, by, p, then))
<1> DEFINE u == [v EXCEPT !.peers[p].ids = <<>>, !.peers[p].unfetched = 0,
                          !.peers[p].we_need = TRUE, !.peers[p].seen = ZeroId]
<1>1. Calm(v, u)
  <2>1. /\ DOMAIN u = WorldFields /\ DOMAIN u.peers = Peer /\ u.active = v.active
        /\ u.fresh = v.fresh /\ u.received = v.received /\ u.to_fetch = v.to_fetch
        /\ u.calls = v.calls /\ u.mail = v.mail
        /\ \A q \in Peer : q # p => u.peers[q] = v.peers[q]
    BY DEF NodeInv, Shape, WorldFields
  <2>2. /\ DOMAIN u.peers[p] = PeerFields /\ u.peers[p].ids = <<>>
        /\ u.peers[p].list = v.peers[p].list /\ u.peers[p].sync = v.peers[p].sync
        /\ u.peers[p].requested = v.peers[p].requested
    BY DEF NodeInv, Shape, WorldFields, PeerFields
  <2> HIDE DEF u
  <2>3. Shape(u)
    BY <2>1, <2>2 DEF NodeInv, Shape
  <2>4. Loops(u)
    BY <2>1, <2>2, ShortTodo DEF NodeInv, Loops
  <2> QED BY <2>1, <2>2, <2>3, <2>4 DEF Calm, NodeInv
<1> HIDE DEF u
<1>2. Keeps(v, u)
  BY <1>1, CalmKeeps
<1>3. PICK t : t = Wait(u, "start_synchronizing", by, p, ZeroId, <<>>, 0, then)
  OBVIOUS
<1>4. Keeps(u, t)
  BY <1>2, <1>3, ShortTodo, WaitKeeps DEF Keeps
<1>5. Keeps(v, t)
  BY <1>2, <1>4, KeepsChain
<1> QED BY <1>3, <1>5 DEF start_synchronizing_with_peer, u

\* What is left to do is done.
LEMMA Continues ==
    ASSUME NEW v, NodeInv(v), NEW by, NEW then \in Seq(Todo)
    PROVE  Keeps(v, Continue(v, by, then))
<1> DEFINE a == Head(then)
           u == Continue(v, by, then)
<1>1. CASE then = <<>>
  <2>1. u = v \/ u = trigger_process_backlog_of_sync_blocks(v)
    BY <1>1 DEF Continue
  <2> HIDE DEF u
  <2>2. Keeps(v, u)
    BY <2>1, KeepsSelf, Triggered
  <2> QED BY <2>2 DEF u
<1>2. CASE then # <<>>
  <2>1. a \in Todo /\ Tail(then) \in Seq(Todo)
    BY <1>2
  <2>2. a.p \in Peer
    BY <2>1 DEF Todo
  <2>3. u \in {fetch_next_batch_of_item_ids_from_peer(v, by, a.p, Tail(then)),
               start_synchronizing_with_peer(v, by, a.p, Tail(then)),
               disconnect_from_peer(v, a.p, FALSE)}
    BY <1>2 DEF Continue
  <2> HIDE DEF u, a
  <2>4. Keeps(v, u)
    BY <2>1, <2>2, <2>3, NextBatch, Synchronizing, Disconnected
  <2> QED BY <2>4 DEF u
<1> QED BY <1>1, <1>2

\* fetch_next_batch_of_item_ids_from_peer asks, disconnects or closes.
LEMMA SynopsisKeeps ==
    ASSUME NEW v, NodeInv(v), NEW c, Fits(c)
    PROVE  Keeps(v, SynopsisMade(v, c))
<1> DEFINE s == create_blockchain_synopsis_for_peer(v, c.item, c.ids)
           asking == Send([v EXCEPT !.peers[c.p].asked = {s.ids}], c.p,
                          <<[type |-> "fetch_blockchain_item_ids", synopsis |-> s.ids]>>)
           off == disconnect_from_peer(v, c.p, FALSE)
           u == SynopsisMade(v, c)
<1>0. c.p \in Peer /\ c.then \in Seq(Todo)
  BY DEF Fits
<1>1. u = CASE s.thrown = "" -> Continue(asking, c.by, c.then)
            [] s = TooOld -> Continue(off, c.by, c.then)
            [] OTHER -> IF c.by = "reader" THEN on_connection_closed(v, c.p) ELSE v
  BY Zenon DEF SynopsisMade
<1> HIDE DEF s
<1>2. Calm(v, asking)
  BY <1>0 DEF Send, NodeInv, Calm, Shape, Loops, WorldFields, PeerFields
<1> HIDE DEF asking, u, off
<1>3. u \in {Continue(asking, c.by, c.then), Continue(off, c.by, c.then),
             on_connection_closed(v, c.p), v}
  <2>1. ASSUME s = TooOld PROVE s.thrown # ""
    BY <2>1 DEF TooOld
  <2>2. CASE s.thrown = "" /\ s # TooOld
    BY <1>1, <2>2
  <2>3. CASE s.thrown # "" /\ s = TooOld
    BY <1>1, <2>3
  <2>4. CASE s.thrown # "" /\ s # TooOld
    BY <1>1, <2>4
  <2> QED BY <2>1, <2>2, <2>3, <2>4
<1>4. Keeps(v, asking) /\ Keeps(v, off)
  BY <1>0, <1>2, CalmKeeps, Disconnected DEF off
<1>5. Keeps(asking, Continue(asking, c.by, c.then)) /\ Keeps(off, Continue(off, c.by, c.then))
  BY <1>0, <1>4, Continues DEF Keeps
<1>6. Keeps(v, u)
  BY <1>0, <1>3, <1>4, <1>5, KeepsChain, KeepsSelf, ConnectionClosed
<1> QED BY <1>6 DEF u

\* new_peer_just_added
LEMMA PeerAdded ==
    ASSUME NEW v, NodeInv(v), NEW p \in Peer, v.peers[p].list = "none"
    PROVE  Keeps(v, new_peer_just_added(v, p))
<1> DEFINE r == [NewPeer EXCEPT !.list = "active"]
           u == [v EXCEPT !.peers[p] = r]
<1>0. IsSeq(r.ids) /\ IsFiniteSet(r.requested)
  <2>1. <<>> \in Seq({})
    OBVIOUS
  <2> QED BY <2>1, IsSeqOf, FS_EmptySet DEF NewPeer
<1>1. r.sync = {} /\ DOMAIN r = PeerFields
  BY DEF NewPeer, PeerFields
<1>2. v.peers[p].sync = {}
  BY DEF NodeInv, Shared
<1> HIDE DEF r
<1>3. /\ Shape(u) /\ u.active = v.active
      /\ u.fresh = v.fresh /\ u.received = v.received /\ u.to_fetch = v.to_fetch
      /\ u.calls = v.calls /\ u.mail = v.mail
      /\ \A q \in Peer : u.peers[q] = IF q = p THEN r ELSE v.peers[q]
  BY <1>1 DEF NodeInv, Shape, WorldFields
<1> HIDE DEF u
<1>4. Keeps(v, u)
  <2>1. Loops(u)
    BY <1>0, <1>1, <1>3 DEF NodeInv, Loops
  <2>2. Shared(u) /\ (Owned(v) => Owned(u))
    BY <1>1, <1>2, <1>3 DEF NodeInv, Shared, Owned
  <2> QED BY <1>3, <2>1, <2>2 DEF Keeps, NodeInv, Unread
<1>5. Keeps(u, start_synchronizing_with_peer(u, "reader", p, <<>>))
  BY <1>4, ShortTodo, Synchronizing DEF Keeps
<1>6. Keeps(v, start_synchronizing_with_peer(u, "reader", p, <<>>))
  BY <1>4, <1>5, KeepsChain
<1> QED BY <1>6 DEF new_peer_just_added, u, r

\* Several peers are disconnected.
LEMMA DisconnectingKeeps ==
    ASSUME NEW v, NodeInv(v), NEW S \in SUBSET Peer, NEW fault
    PROVE  Keeps(v, Disconnecting!FoldedSet(fault, v, S))
<1> DEFINE F == {U \in SUBSET S : Keeps(v, Disconnecting!FoldedSet(fault, v, U))}
<1>0. IsFiniteSet(S) /\ \A U \in SUBSET S : Disconnecting!IsFiniteSet(U)
  <2>1. IsFiniteSet(S) /\ \A U \in SUBSET S : IsFiniteSet(U)
    BY NodeAssumption, FS_Subset
  <2> QED BY <2>1, Zenon DEF IsFiniteSet, Disconnecting!IsFiniteSet
<1>1. {} \in F
  BY <1>0, Disconnecting!FoldedSetUnfold, KeepsSelf
<1>2. ASSUME NEW U \in SUBSET S, U # {}, \A x \in U : U \ {x} \in F PROVE U \in F
  <2>1. PICK p \in U : Disconnecting!FoldedSet(fault, v, U)
                         = DisconnectStep(fault, Disconnecting!FoldedSet(fault, v, U \ {p}), p)
    BY <1>0, <1>2, Disconnecting!FoldedSetUnfold
  <2>2. PICK u : u = Disconnecting!FoldedSet(fault, v, U \ {p})
    OBVIOUS
  <2>3. Keeps(v, u)
    BY <1>2, <2>2
  <2>4. Keeps(u, disconnect_from_peer(u, p, fault))
    BY <2>3, Disconnected DEF Keeps
  <2>5. Keeps(v, disconnect_from_peer(u, p, fault))
    BY <2>3, <2>4, KeepsChain
  <2> QED BY <2>1, <2>2, <2>5 DEF DisconnectStep
<1>3. S \in F
  <2> HIDE DEF F
  <2> QED BY <1>0, <1>1, <1>2, SubsetInduct
<1> QED BY <1>3

\* The same, as the handlers write it.
LEMMA AllDisconnected ==
    ASSUME NEW v, NodeInv(v), NEW S \in SUBSET Peer
    PROVE  /\ Keeps(v, FoldSet(LAMBDA p, u : disconnect_from_peer(u, p, TRUE), v, S))
           /\ Keeps(v, FoldSet(LAMBDA p, u : disconnect_from_peer(u, p, FALSE), v, S))
<1>1. FoldSet(LAMBDA p, u : disconnect_from_peer(u, p, TRUE), v, S)
        = Disconnecting!FoldedSet(TRUE, v, S)
  BY Disconnecting!FoldedSetDef
     DEF DisconnectStep, FoldSet, MapThenFoldSet, Disconnecting!SetRecursion, Disconnecting!Some
<1>2. FoldSet(LAMBDA p, u : disconnect_from_peer(u, p, FALSE), v, S)
        = Disconnecting!FoldedSet(FALSE, v, S)
  BY Disconnecting!FoldedSetDef
     DEF DisconnectStep, FoldSet, MapThenFoldSet, Disconnecting!SetRecursion, Disconnecting!Some
<1> QED BY <1>1, <1>2, DisconnectingKeeps

----------------------------------------------------------------------------
(* The ids a peer answers.                                                 *)

\* Only the list of a connection, and what was seen of the peer, change.
Relisted(r, m) ==
    /\ DOMAIN m = PeerFields /\ IsSeq(m.ids) /\ m.list = r.list /\ m.sync = r.sync
    /\ m.requested = r.requested

\* We know enough ids to fetch blocks, or ask on.
LEMMA ListedKeeps ==
    ASSUME NEW v, NodeInv(v), NEW p \in Peer, NEW remaining
    PROVE  Keeps(v, Listed(v, p, remaining))
BY Triggered, NextBatch, ShortTodo DEF Listed

\* The new ids follow those we have.
LEMMA AppendedKeeps ==
    ASSUME NEW v, NodeInv(v), NEW p \in Peer, NEW ids, IsSeq(ids), NEW remaining, NEW changed
    PROVE  Keeps(v, Appended(v, p, ids, remaining, changed))
<1> DEFINE longer == [v EXCEPT !.peers[p].ids = @ \o ids, !.peers[p].unfetched = remaining]
           u == Appended(v, p, ids, remaining, changed)
<1>1. u \in {disconnect_from_peer(longer, p, TRUE), Listed(longer, p, remaining),
             Wait(longer, "sync_status", "reader", p, ZeroId, <<>>, remaining, <<>>)}
  BY DEF Appended
<1>2. IsSeq(v.peers[p].ids \o ids)
  BY SeqConcat DEF NodeInv, Loops
<1>3. PICK joined : joined = v.peers[p].ids \o ids
  OBVIOUS
<1>4. longer = [v EXCEPT !.peers[p].ids = joined, !.peers[p].unfetched = remaining]
  BY <1>3
<1> HIDE DEF longer, u
<1>5. Calm(v, longer)
  BY <1>2, <1>3, <1>4 DEF NodeInv, Calm, Shape, Loops, WorldFields, PeerFields
<1>6. Keeps(v, longer) /\ NodeInv(longer)
  BY <1>5, CalmKeeps DEF Keeps
<1>7. Keeps(longer, u)
  BY <1>1, <1>6, Disconnected, ListedKeeps, WaitKeeps, ShortTodo
<1>8. Keeps(v, u)
  BY <1>6, <1>7, KeepsChain
<1> QED BY <1>8 DEF u

\* The lists are merged, after a wait or at once.
LEMMA MergeKeeps ==
    ASSUME NEW v, NodeInv(v), NEW p \in Peer, NEW ids, IsSeq(ids), NEW remaining, NEW changed
    PROVE  Keeps(v, Merge(v, p, ids, remaining, changed))
<1> DEFINE r == v.peers[p]
           noted == [v EXCEPT !.peers[p].unfetched = remaining]
           same == {i \in DOMAIN r.ids : r.ids[i] = ids[1]}
           last == CHOOSE i \in same : \A j \in same : j <= i
           flushing == Wait(noted, "has_item", "reader", p, ZeroId, ids, remaining, <<>>)
           forked == [noted EXCEPT !.peers[p].ids = <<>>, !.peers[p].seen = ids[1]]
           timing == Wait(forked, "get_block_time", "reader", p, ZeroId, Tail(ids), remaining, <<>>)
           cut == [noted EXCEPT !.peers[p].ids = SubSeq(@, 1, last - 1)]
           u == Merge(v, p, ids, remaining, changed)
<1>1. \/ u = flushing \/ u = Appended(noted, p, ids, remaining, changed)
      \/ ids # <<>> /\ u = timing
      \/ same # {} /\ u = Appended(cut, p, ids, remaining, changed)
  BY DEF Merge
<1>2. Calm(v, noted) /\ noted.peers[p].ids = r.ids
  BY DEF NodeInv, Calm, Shape, Loops, WorldFields, PeerFields
<1>3. cut = [noted EXCEPT !.peers[p].ids = SubSeq(noted.peers[p].ids, 1, last - 1)]
  OBVIOUS
<1> HIDE DEF noted
<1>4. Keeps(v, noted) /\ NodeInv(noted)
  BY <1>2, CalmKeeps DEF Keeps
<1>5. Keeps(noted, flushing) /\ Keeps(noted, Appended(noted, p, ids, remaining, changed))
  BY <1>4, WaitKeeps, ShortTodo, AppendedKeeps
<1>6. Calm(noted, forked)
  BY <1>4, ShortTodo DEF NodeInv, Calm, Shape, Loops, WorldFields, PeerFields
<1> HIDE DEF forked, flushing
<1>7. Keeps(noted, forked) /\ NodeInv(forked)
  BY <1>4, <1>6, CalmKeeps DEF Keeps
<1>8. ids # <<>> => Keeps(noted, timing)
  <2>1. ids # <<>> => Keeps(forked, timing)
    BY <1>7, WaitKeeps, ShortTodo, SeqTail
  <2> HIDE DEF timing
  <2> QED BY <1>7, <2>1, KeepsChain
<1>9. ASSUME same # {} PROVE Keeps(noted, Appended(cut, p, ids, remaining, changed))
  <2>0. IsSeq(r.ids) /\ Len(r.ids) \in Nat
    BY DEF NodeInv, Loops, IsSeq
  <2>1. same \in SUBSET Nat /\ \A k \in same : k <= Len(r.ids) /\ k >= 1
    BY <2>0 DEF IsSeq
  <2>2. last \in same
    <3> HIDE DEF same
    <3>1. \E i \in same : \A j \in same : j <= i
      BY <1>9, <2>0, <2>1, GreatestExists
    <3> QED BY <3>1
  <2> HIDE DEF last, same
  <2>3. 1 \in 1..(Len(r.ids) + 1) /\ last - 1 \in 0..Len(r.ids)
    BY <2>0, <2>1, <2>2
  <2>4. IsSeq(SubSeq(r.ids, 1, last - 1))
    BY <2>0, <2>3, SeqSub
  <2>5. PICK s : s = SubSeq(r.ids, 1, last - 1)
    OBVIOUS
  <2>6. cut = [noted EXCEPT !.peers[p].ids = s] /\ IsSeq(s)
    BY <1>2, <1>3, <2>4, <2>5
  <2> HIDE DEF cut
  <2>7. Calm(noted, cut)
    BY <1>4, <2>6 DEF NodeInv, Calm, Shape, Loops, WorldFields, PeerFields
  <2>8. Keeps(noted, cut) /\ NodeInv(cut)
    BY <1>4, <2>7, CalmKeeps DEF Keeps
  <2>9. PICK t : t = Appended(cut, p, ids, remaining, changed)
    OBVIOUS
  <2>10. Keeps(cut, t)
    BY <2>8, <2>9, AppendedKeeps
  <2> QED BY <2>8, <2>9, <2>10, KeepsChain
<1> HIDE DEF u, timing, cut, same
<1>10. Keeps(noted, u)
  BY <1>1, <1>5, <1>8, <1>9
<1>11. Keeps(v, u)
  BY <1>4, <1>10, KeepsChain
<1> QED BY <1>11 DEF u

\* The ids that the delegate has are dropped one by one.
LEMMA FlushKeeps ==
    ASSUME NEW v, NodeInv(v), NEW c, Fits(c), NEW changed
    PROVE  Keeps(v, Flush(v, c, changed))
<1> DEFINE seen == [v EXCEPT !.peers[c.p].seen = c.ids[1]]
           u == Wait(seen, "has_item", "reader", c.p, ZeroId, Tail(c.ids), c.n, <<>>)
           t == Appended(v, c.p, c.ids, c.n, changed)
<1>0. c.p \in Peer /\ IsSeq(c.ids)
  BY DEF Fits
<1>1. (c.ids # <<>> /\ Flush(v, c, changed) = u) \/ Flush(v, c, changed) = t
  BY DEF Flush
<1>2. Calm(v, seen)
  BY <1>0 DEF NodeInv, Calm, Shape, Loops, WorldFields, PeerFields
<1> HIDE DEF seen
<1>3. Keeps(v, seen) /\ NodeInv(seen)
  BY <1>2, CalmKeeps DEF Keeps
<1>4. c.ids # <<>> => Keeps(seen, u)
  BY <1>0, <1>3, WaitKeeps, ShortTodo, SeqTail
<1>5. Keeps(v, t)
  BY <1>0, AppendedKeeps
<1> HIDE DEF u, t
<1> QED BY <1>1, <1>3, <1>4, <1>5, KeepsChain

\* Sync mode ends, or goes on.
LEMMA LatestKeeps ==
    ASSUME NEW v, NodeInv(v), NEW p \in Peer, NEW ids, IsSeq(ids), NEW changed
    PROVE  Keeps(v, Latest(v, p, ids, changed))
<1> DEFINE u == [v EXCEPT !.peers[p].we_need = FALSE]
           t == Merge(v, p, ids, 0, changed)
<1>1. Latest(v, p, ids, changed) = u \/ Latest(v, p, ids, changed) = t
  BY DEF Latest
<1>2. Calm(v, u)
  BY DEF NodeInv, Calm, Shape, Loops, WorldFields, PeerFields
<1>3. Keeps(v, t)
  BY MergeKeeps
<1> HIDE DEF u, t
<1> QED BY <1>1, <1>2, <1>3, CalmKeeps

\* on_blockchain_item_ids_inventory_message
LEMMA IdsReceived ==
    ASSUME NEW v, NodeInv(v), NEW p \in Peer, NEW ids, IsSeq(ids), NEW remaining, NEW changed
    PROVE  Keeps(v, on_blockchain_item_ids_inventory_message(v, p, ids, remaining, changed))
<1> DEFINE answered == [v EXCEPT !.peers[p].asked = {}]
           latest == Latest(answered, p, ids, changed)
           waiting == Wait(answered, "latest", "reader", p, ZeroId, ids, 0, <<>>)
           merged == Merge(answered, p, ids, remaining, changed)
           u == on_blockchain_item_ids_inventory_message(v, p, ids, remaining, changed)
<1>1. u \in {v, disconnect_from_peer(v, p, TRUE), latest, waiting, merged}
  BY DEF on_blockchain_item_ids_inventory_message
<1>2. Calm(v, answered)
  BY DEF NodeInv, Calm, Shape, Loops, WorldFields, PeerFields
<1> HIDE DEF answered, u
<1>3. Keeps(v, answered) /\ NodeInv(answered)
  BY <1>2, CalmKeeps DEF Keeps
<1>4. Keeps(answered, latest) /\ Keeps(answered, merged)
  BY <1>3, LatestKeeps, MergeKeeps
<1>5. Keeps(answered, waiting)
  BY <1>3, WaitKeeps, ShortTodo
<1> HIDE DEF latest, waiting, merged
<1>6. Keeps(v, latest) /\ Keeps(v, merged) /\ Keeps(v, waiting)
  BY <1>3, <1>4, <1>5, KeepsChain
<1>7. Keeps(v, u)
  BY <1>1, <1>6, KeepsSelf, Disconnected
<1> QED BY <1>7 DEF u

----------------------------------------------------------------------------
(* Fetching the blocks.                                                    *)

\* The bodies of the loops.
WantedStep(v, ids, id) == IF Wanted(v, ids, id) THEN Append(ids, id) ELSE ids
RequestStep(c, v, p) == RequestFrom(v, p)

Wanting == INSTANCE FoldLemmas WITH Step <- WantedStep
Requesting == INSTANCE FoldLemmas WITH Step <- RequestStep

\* None of the blocks that can be requested from a peer is active.
LEMMA RequestableIs ==
    ASSUME NEW v, NodeInv(v), NEW p \in Peer
    PROVE  /\ IsSeq(Requestable(v, v.peers[p]))
           /\ ToSet(Requestable(v, v.peers[p])) \cap v.active = {}
<1> DEFINE f(s) == Wanting!Folded(v, <<>>, s)
           A == Range(v.peers[p].ids)
           T == {s \in Seq(A) : IsSeq(f(s)) /\ ToSet(f(s)) \cap v.active = {}}
<1>0. v.peers[p].ids \in Seq(A)
  BY DEF NodeInv, Loops, IsSeq
<1>1. <<>> \in T
  <2>1. f(<<>>) = <<>> /\ <<>> \in Seq({}) /\ <<>> \in Seq(A)
    BY Wanting!FoldedEmpty
  <2>2. ToSet(<<>>) = {}
    BY DEF ToSet
  <2> HIDE DEF f
  <2> QED BY <2>1, <2>2, IsSeqOf
<1>2. ASSUME NEW s \in Seq(A), NEW e \in A, s \in T PROVE Append(s, e) \in T
  <2>1. f(Append(s, e)) = WantedStep(v, f(s), e)
    BY Wanting!FoldedAppend
  <2>2. PICK t : t = f(s)
    OBVIOUS
  <2>3. IsSeq(t) /\ ToSet(t) \cap v.active = {}
    BY <1>2, <2>2
  <2>4. IsSeq(Append(t, e))
    BY <2>3, SeqAppend
  <2>5. ToSet(Append(t, e)) = ToSet(t) \cup {e}
    BY <2>3 DEF ToSet, IsSeq
  <2>6. Append(s, e) \in Seq(A)
    OBVIOUS
  <2>7. Wanted(v, t, e) => e \notin v.active
    BY DEF Wanted
  <2> HIDE DEF f
  <2>8. IsSeq(f(Append(s, e))) /\ ToSet(f(Append(s, e))) \cap v.active = {}
    BY <2>1, <2>2, <2>3, <2>4, <2>5, <2>7 DEF WantedStep
  <2> QED BY <2>6, <2>8
<1>3. v.peers[p].ids \in T
  <2> HIDE DEF T
  <2> QED BY <1>0, <1>1, <1>2, SeqInduct
<1>4. Requestable(v, v.peers[p]) = f(v.peers[p].ids)
  BY Wanting!FoldedDef
     DEF Requestable, WantedStep, FoldLeft, MapThenFoldSet, Max, Wanting!Max, Wanting!FoldRecursion
<1> HIDE DEF f
<1> QED BY <1>3, <1>4

\* A peer that is connected is asked for blocks that no peer is asked for.
LEMMA RequestFromKeeps ==
    ASSUME NEW v, NodeInv(v), NEW p \in Peer, v.peers[p].list = "active"
    PROVE  /\ Keeps(v, RequestFrom(v, p))
           /\ \A q \in Peer : RequestFrom(v, p).peers[q].list = v.peers[q].list
<1> DEFINE ids == Requestable(v, v.peers[p])
           X == ToSet(ids)
           messages == [i \in DOMAIN ids |-> [type |-> "fetch_items", id |-> ids[i]]]
           u == request_sync_items_from_peer(v, p, ids)
<1>1. X \cap v.active = {}
  BY RequestableIs
<1>2. u = Send([v EXCEPT !.active = @ \cup X, !.peers[p].sync = @ \cup X], p, messages)
  BY DEF request_sync_items_from_peer
<1> HIDE DEF ids, X, messages, u
<1>3. /\ Shape(u) /\ u.active = v.active \cup X
      /\ u.fresh = v.fresh /\ u.received = v.received /\ u.to_fetch = v.to_fetch
      /\ u.calls = v.calls /\ u.mail = v.mail
      /\ \A q \in Peer : /\ u.peers[q].sync = IF q = p THEN v.peers[q].sync \cup X
                                              ELSE v.peers[q].sync
                         /\ u.peers[q].list = v.peers[q].list
                         /\ u.peers[q].requested = v.peers[q].requested
                         /\ u.peers[q].ids = v.peers[q].ids
  BY <1>2 DEF Send, NodeInv, Shape, WorldFields, PeerFields
<1>4. Keeps(v, u)
  <2>1. Loops(u)
    BY <1>3 DEF NodeInv, Loops
  <2>2. \A q \in Peer : u.peers[q].sync \subseteq u.active
    BY <1>3 DEF NodeInv, Shared
  <2>3. \A q \in Peer : u.peers[q].list = "none" => u.peers[q].sync = {}
    BY <1>3 DEF NodeInv, Shared
  <2>4. ASSUME NEW q \in Peer, NEW r \in Peer, q # r, NEW x, x \in u.peers[q].sync, x \in u.peers[r].sync
        PROVE  FALSE
    <3>1. \A o \in Peer : v.peers[o].sync \cap X = {}
      BY <1>1 DEF NodeInv, Shared
    <3>2. v.peers[q].sync \cap v.peers[r].sync = {}
      BY <2>4 DEF NodeInv, Shared
    <3> QED BY <1>3, <2>4, <3>1, <3>2
  <2>5. Shared(u)
    BY <2>2, <2>3, <2>4 DEF Shared
  <2>6. Owned(v) => Owned(u)
    BY <1>3 DEF Owned
  <2> QED BY <1>3, <2>1, <2>5, <2>6 DEF Keeps, NodeInv, Unread
<1>5. RequestFrom(v, p) = u \/ RequestFrom(v, p) = v
  BY DEF RequestFrom, u, ids
<1> QED BY <1>3, <1>4, <1>5, KeepsSelf

\* fetch_sync_items_loop, whatever the order of the peers.
LEMMA SyncItemsFetched ==
    ASSUME NEW v, NodeInv(v), NEW order \in Seq(Active(v))
    PROVE  Keeps(v, fetch_sync_items_loop(v, order))
<1> DEFINE turn == [v EXCEPT !.fetch_sync = FALSE]
           f(s) == Requesting!Folded(0, turn, s)
           A == Active(v)
           T == {s \in Seq(A) : /\ Keeps(turn, f(s))
                                /\ \A q \in Peer : f(s).peers[q].list = v.peers[q].list}
<1>1. Calm(v, turn) /\ turn.peers = v.peers
  BY DEF NodeInv, Calm, Shape, Loops, WorldFields
<1> HIDE DEF turn
<1>2. Keeps(v, turn) /\ Keeps(turn, turn)
  BY <1>1, CalmKeeps, KeepsSelf DEF Keeps
<1>3. <<>> \in T
  <2>1. f(<<>>) = turn /\ <<>> \in Seq(A)
    BY Requesting!FoldedEmpty
  <2> HIDE DEF f
  <2> QED BY <1>1, <1>2, <2>1
<1>4. ASSUME NEW s \in Seq(A), NEW p \in A, s \in T PROVE Append(s, p) \in T
  <2>1. f(Append(s, p)) = RequestStep(0, f(s), p)
    BY Requesting!FoldedAppend
  <2>2. PICK u : u = f(s)
    OBVIOUS
  <2> HIDE DEF f
  <2>3. Keeps(turn, u) /\ \A q \in Peer : u.peers[q].list = v.peers[q].list
    BY <1>4, <2>2
  <2>4. p \in Peer /\ u.peers[p].list = "active"
    BY <2>3 DEF Active
  <2>5. Keeps(u, RequestFrom(u, p)) /\ \A q \in Peer : RequestFrom(u, p).peers[q].list = u.peers[q].list
    BY <2>3, <2>4, RequestFromKeeps DEF Keeps
  <2>6. Keeps(turn, RequestFrom(u, p))
    BY <2>3, <2>5, KeepsChain
  <2>7. Append(s, p) \in Seq(A)
    OBVIOUS
  <2> QED BY <2>1, <2>2, <2>3, <2>5, <2>6, <2>7 DEF RequestStep
<1>5. order \in T
  <2> HIDE DEF T, A
  <2>1. order \in Seq(A)
    BY DEF A
  <2> QED BY <1>3, <1>4, <2>1, SeqInduct
<1>6. FoldLeft(RequestFrom, turn, order) = f(order)
  BY Requesting!FoldedDef
     DEF RequestStep, FoldLeft, MapThenFoldSet, Max, Requesting!Max, Requesting!FoldRecursion
<1> HIDE DEF f
<1>7. Keeps(v, f(order))
  BY <1>2, <1>5, KeepsChain
<1>8. fetch_sync_items_loop(v, order) = IF v.suspended THEN turn ELSE f(order)
  BY <1>6 DEF fetch_sync_items_loop, turn
<1> QED BY <1>2, <1>7, <1>8

----------------------------------------------------------------------------
(* Handing the blocks over.                                                *)

\* The blocks at the front of the peers' lists are taken off.
LEMMA PoppedCalm ==
    ASSUME NEW v, NodeInv(v), NEW b
    PROVE  Calm(v, Popped(v, b))
<1> DEFINE u == Popped(v, b)
<1>1. /\ DOMAIN u = WorldFields /\ DOMAIN u.peers = Peer /\ u.active = v.active
      /\ u.fresh = v.fresh /\ u.received = v.received /\ u.to_fetch = v.to_fetch
      /\ u.calls = v.calls /\ u.mail = v.mail
  BY DEF Popped, NodeInv, Shape, WorldFields
<1>2. ASSUME NEW p \in Peer
      PROVE  /\ DOMAIN u.peers[p] = PeerFields
             /\ u.peers[p].list = v.peers[p].list /\ u.peers[p].sync = v.peers[p].sync
             /\ u.peers[p].requested = v.peers[p].requested
             /\ u.peers[p].ids = IF p \in Fronting(v, b) THEN Tail(v.peers[p].ids)
                                 ELSE v.peers[p].ids
  <2>1. DOMAIN v.peers[p] = PeerFields
    BY DEF NodeInv, Shape
  <2>2. u.peers[p] = IF p \notin Fronting(v, b) THEN v.peers[p]
                     ELSE [v.peers[p] EXCEPT !.ids = Tail(@), !.processing = @ \cup {b}]
    <3> DEFINE r(q) == IF q \notin Fronting(v, b) THEN v.peers[q]
                       ELSE [v.peers[q] EXCEPT !.ids = Tail(@), !.processing = @ \cup {b}]
    <3>1. u = [v EXCEPT !.peers = [q \in Peer |-> r(q)]]
      BY DEF Popped
    <3> HIDE DEF r, u
    <3>2. u.peers[p] = r(p)
      BY <3>1 DEF NodeInv, Shape, WorldFields
    <3> QED BY <3>2 DEF r
  <2> HIDE DEF u
  <2>3. CASE p \in Fronting(v, b)
    BY <2>1, <2>2, <2>3 DEF PeerFields
  <2>4. CASE p \notin Fronting(v, b)
    BY <2>1, <2>2, <2>4
  <2> QED BY <2>3, <2>4
<1> HIDE DEF u
<1>3. ASSUME NEW p \in Peer PROVE IsSeq(u.peers[p].ids)
  <2>1. IsSeq(v.peers[p].ids)
    BY DEF NodeInv, Loops
  <2>2. CASE p \in Fronting(v, b)
    BY <1>2, <2>1, <2>2, SeqTail DEF Fronting
  <2>3. CASE p \notin Fronting(v, b)
    BY <1>2, <2>1, <2>3
  <2> QED BY <2>2, <2>3
<1>4. Calm(v, u)
  BY <1>1, <1>2, <1>3 DEF Calm, NodeInv, Shape, Loops
<1> QED BY <1>4 DEF u

\* One turn of process_backlog_of_sync_blocks.
LEMMA TurnKeeps ==
    ASSUME NEW v, NodeInv(v.w)
    PROVE  Keeps(v.w, BacklogTurn(v).w)
<1> DEFINE a == [v.w EXCEPT !.received = Reverse(v.w.fresh) \o @, !.fresh = <<>>]
           firsts == {i \in DOMAIN a.received : Fronting(a, a.received[i]) # {}}
           i == CHOOSE j \in firsts : \A k \in firsts : j <= k
           b == a.received[i]
           o == Popped(a, b)
           given == [o EXCEPT !.received = RemoveAt(@, i), !.handling = Append(@, b)]
           next == CASE firsts = {} -> [w |-> a, again |-> FALSE]
                     [] firsts # {} /\ b \in ToSet(a.recent) -> [w |-> o, again |-> FALSE]
                     [] OTHER -> [w |-> given, again |-> TRUE]
           held_back == [next.w EXCEPT !.suspended = @ \/ Len(next.w.received) >= MaxPrefetch]
<1>0. IsSeq(<<>>)
  <2>1. <<>> \in Seq({})
    OBVIOUS
  <2> QED BY <2>1, IsSeqOf
<1>1. IsSeq(Reverse(v.w.fresh) \o v.w.received)
  <2>1. IsSeq(v.w.fresh) /\ IsSeq(v.w.received)
    BY DEF NodeInv, Loops
  <2>2. IsSeq(Reverse(v.w.fresh))
    <3> DEFINE s == Reverse(v.w.fresh)
    <3>1. s = [k \in 1..Len(v.w.fresh) |-> s[k]] /\ Len(v.w.fresh) \in Int
      BY <2>1 DEF Reverse, IsSeq
    <3> HIDE DEF s
    <3>2. IsSeq(s)
      BY <3>1, SeqOfFunction
    <3> QED BY <3>2 DEF s
  <2> QED BY <2>1, <2>2, SeqConcat
<1>2. Calm(v.w, a)
  BY <1>0, <1>1 DEF NodeInv, Calm, Shape, Loops, WorldFields
<1> HIDE DEF a
<1>3. Keeps(v.w, a) /\ NodeInv(a)
  BY <1>2, CalmKeeps DEF Keeps
<1>4. Keeps(a, o) /\ NodeInv(o) /\ o.received = a.received
  <2>1. o.received = a.received
    BY <1>3 DEF Popped, NodeInv, Shape, WorldFields
  <2> HIDE DEF o
  <2>2. Calm(a, o)
    BY <1>3, PoppedCalm DEF o
  <2> QED BY <1>3, <2>1, <2>2, CalmKeeps DEF Keeps
<1> HIDE DEF o
<1>5. ASSUME firsts # {} PROVE Keeps(o, given)
  <2>1. firsts \in SUBSET Nat /\ firsts \in SUBSET (1..Len(a.received)) /\ Len(a.received) \in Nat
    BY <1>3 DEF NodeInv, Loops, IsSeq
  <2>2. i \in firsts
    <3> HIDE DEF firsts
    <3>1. \E j \in firsts : \A k \in firsts : j <= k
      BY <1>5, <2>1, LeastExists
    <3> QED BY <3>1
  <2> HIDE DEF i, firsts
  <2>3. /\ 1 \in 1..(Len(a.received) + 1) /\ i - 1 \in 0..Len(a.received)
        /\ i + 1 \in 1..(Len(a.received) + 1) /\ Len(a.received) \in 0..Len(a.received)
    BY <2>1, <2>2
  <2>4. IsSeq(RemoveAt(o.received, i))
    <3>1. IsSeq(a.received)
      BY <1>3 DEF NodeInv, Loops
    <3>2. IsSeq(SubSeq(a.received, 1, i - 1)) /\ IsSeq(SubSeq(a.received, i + 1, Len(a.received)))
      BY <2>3, <3>1, SeqSub
    <3> QED BY <1>4, <3>2, SeqConcat DEF RemoveAt
  <2>5. Calm(o, given)
    BY <1>4, <2>4 DEF NodeInv, Calm, Shape, Loops, WorldFields
  <2> HIDE DEF given
  <2> QED BY <1>4, <2>5, CalmKeeps
<1> HIDE DEF given, i, b, firsts
<1>6. Keeps(v.w, next.w)
  <2>1. CASE firsts = {}
    BY <1>3, <2>1
  <2>2. CASE firsts # {} /\ b \in ToSet(a.recent)
    BY <1>3, <1>4, <2>2, KeepsChain
  <2>3. CASE firsts # {} /\ b \notin ToSet(a.recent)
    <3>1. Keeps(v.w, o)
      BY <1>3, <1>4, KeepsChain
    <3>2. Keeps(v.w, given)
      BY <1>5, <2>3, <3>1, KeepsChain
    <3> QED BY <2>3, <3>2
  <2> QED BY <2>1, <2>2, <2>3
<1> HIDE DEF next
<1>7. Keeps(v.w, held_back)
  <2>1. Calm(next.w, held_back)
    BY <1>6 DEF Keeps, NodeInv, Calm, Shape, Loops, WorldFields
  <2> HIDE DEF held_back
  <2>2. Keeps(next.w, held_back)
    BY <1>6, <2>1, CalmKeeps DEF Keeps
  <2> QED BY <1>6, <2>2, KeepsChain
<1> HIDE DEF held_back
<1>8. BacklogTurn(v) = CASE ~v.again -> v
                         [] v.again /\ InProgress(next.w) < MaxHandled -> next
                         [] OTHER -> [w |-> held_back, again |-> FALSE]
  BY Zenon DEF BacklogTurn, next, held_back, given, o, b, i, firsts, a
<1>9. BacklogTurn(v).w \in {v.w, next.w, held_back}
  BY <1>8
<1> QED BY <1>6, <1>7, <1>9, KeepsSelf

BacklogStep(c, v, i) == BacklogTurn(v)

Turning == INSTANCE FoldLemmas WITH Step <- BacklogStep

\* process_backlog_of_sync_blocks
LEMMA BacklogProcessed ==
    ASSUME NEW v, NodeInv(v)
    PROVE  Keeps(v, process_backlog_of_sync_blocks(v))
<1> DEFINE begun == [v EXCEPT !.backlog = FALSE]
           resumed == [begun EXCEPT !.suspended = FALSE]
           first == [w |-> resumed, again |-> TRUE]
           all == v.fresh \o v.received \o <<ZeroId>>
           f(s) == Turning!Folded(0, first, s)
           A == Range(all)
           T == {s \in Seq(A) : Keeps(v, f(s).w)}
           left == f(all).w
<1>1. Calm(v, begun) /\ Calm(v, resumed)
  BY DEF NodeInv, Calm, Shape, Loops, WorldFields
<1>2. first.w = resumed
  OBVIOUS
<1> HIDE DEF begun, resumed, first
<1>3. Keeps(v, begun) /\ Keeps(v, resumed)
  BY <1>1, CalmKeeps
<1>4. all \in Seq(A)
  <2>1. IsSeq(v.fresh) /\ IsSeq(v.received) /\ <<ZeroId>> \in Seq({ZeroId})
    BY DEF NodeInv, Loops
  <2>2. IsSeq(v.fresh \o v.received) /\ IsSeq(<<ZeroId>>)
    BY <2>1, SeqConcat, IsSeqOf
  <2>3. IsSeq(all)
    BY <2>2, SeqConcat
  <2> QED BY <2>3 DEF IsSeq
<1> HIDE DEF A, all
<1>5. <<>> \in T
  <2>1. f(<<>>) = first /\ <<>> \in Seq(A)
    BY Turning!FoldedEmpty
  <2> HIDE DEF f
  <2> QED BY <1>2, <1>3, <2>1
<1>6. ASSUME NEW s \in Seq(A), NEW e \in A, s \in T PROVE Append(s, e) \in T
  <2>1. f(Append(s, e)) = BacklogStep(0, f(s), e)
    BY Turning!FoldedAppend
  <2>2. PICK u : u = f(s)
    OBVIOUS
  <2> HIDE DEF f
  <2>3. Keeps(v, u.w)
    BY <1>6, <2>2
  <2>4. Keeps(u.w, BacklogTurn(u).w)
    BY <2>3, TurnKeeps DEF Keeps
  <2>5. Keeps(v, BacklogTurn(u).w)
    BY <2>3, <2>4, KeepsChain
  <2>6. Append(s, e) \in Seq(A)
    OBVIOUS
  <2> QED BY <2>1, <2>2, <2>5, <2>6 DEF BacklogStep
<1>7. Keeps(v, left)
  <2>1. all \in T
    <3> HIDE DEF T
    <3> QED BY <1>4, <1>5, <1>6, SeqInduct
  <2> HIDE DEF f
  <2> QED BY <2>1
<1>8. FoldLeft(LAMBDA u, i : BacklogTurn(u), first, all) = f(all)
  BY Turning!FoldedDef
     DEF BacklogStep, FoldLeft, MapThenFoldSet, Max, Turning!Max, Turning!FoldRecursion
<1>9. FoldLeft(LAMBDA u, i : BacklogTurn(u), first, all).w = left
  BY <1>8
<1> HIDE DEF left
<1>10. process_backlog_of_sync_blocks(v) =
         CASE InProgress(v) >= MaxHandled -> begun
           [] InProgress(v) < MaxHandled /\ left.suspended -> left
           [] OTHER -> trigger_fetch_sync_items_loop(left)
  BY <1>9, Zenon DEF process_backlog_of_sync_blocks, begun, resumed, first, all
<1>11. Keeps(left, trigger_fetch_sync_items_loop(left))
  BY <1>7, Triggered DEF Keeps
<1>12. Keeps(v, trigger_fetch_sync_items_loop(left))
  BY <1>7, <1>11, KeepsChain
<1>13. process_backlog_of_sync_blocks(v) \in {begun, left, trigger_fetch_sync_items_loop(left)}
  BY <1>10
<1> QED BY <1>3, <1>7, <1>12, <1>13

\* A block that the chain has taken is noted for the peers that offered it.
LEMMA AcceptedCalm ==
    ASSUME NEW v, NodeInv(v), NEW b
    PROVE  Calm(v, Accepted(v, b))
<1> DEFINE u == Accepted(v, b)
           noted(r) == IF b \notin r.processing THEN r
                       ELSE [r EXCEPT !.seen = b, !.processing = @ \ {b}]
           new(p) == IF p \in Active(v) THEN noted(v.peers[p]) ELSE v.peers[p]
           older == Append(IF Len(v.recent) < MaxRecent THEN v.recent ELSE Tail(v.recent), b)
<1>1. u = [[v EXCEPT !.recent = older] EXCEPT !.peers = [p \in Peer |-> new(p)]]
  BY DEF Accepted, Recently
<1>2. ASSUME NEW p \in Peer PROVE Relisted(v.peers[p], new(p))
  <2>1. IsSeq(v.peers[p].ids) /\ DOMAIN v.peers[p] = PeerFields
    BY DEF NodeInv, Loops, Shape
  <2>2. CASE new(p) = v.peers[p]
    <3> HIDE DEF new
    <3> QED BY <2>1, <2>2 DEF Relisted
  <2>3. CASE new(p) = [v.peers[p] EXCEPT !.seen = b, !.processing = @ \ {b}]
    <3> HIDE DEF new
    <3> QED BY <2>1, <2>3 DEF Relisted, PeerFields
  <2> QED BY <2>2, <2>3
<1> HIDE DEF u, new, older
<1>3. /\ DOMAIN u = WorldFields /\ DOMAIN u.peers = Peer /\ u.active = v.active
      /\ u.fresh = v.fresh /\ u.received = v.received /\ u.to_fetch = v.to_fetch
      /\ u.calls = v.calls /\ u.mail = v.mail
      /\ \A p \in Peer : u.peers[p] = new(p)
  BY <1>1 DEF NodeInv, Shape, WorldFields
<1>4. Calm(v, u)
  BY <1>2, <1>3 DEF Calm, NodeInv, Shape, Loops, Relisted
<1> QED BY <1>4 DEF u

\* The peers that are to be asked, one after the other.
AsksStep(ask, s, p) == s \o ask[p]

Asking == INSTANCE FoldLemmas WITH Step <- AsksStep

\* What is left to do after a block was handed over.
LEMMA AsksIsSeq ==
    ASSUME NEW order \in Seq(Peer), NEW peers, NEW what \in {"ask", "sync"}
    PROVE  Asks(peers, what, order) \in Seq(Todo)
<1> DEFINE ask == [p \in Peer |-> IF p \in peers THEN <<[do |-> what, p |-> p]>> ELSE <<>>]
           f(s) == Asking!Folded(ask, <<>>, s)
           T == {s \in Seq(Peer) : f(s) \in Seq(Todo)}
<1>1. ASSUME NEW p \in Peer PROVE ask[p] \in Seq(Todo)
  <2>1. [do |-> what, p |-> p] \in Todo
    BY DEF Todo
  <2>2. <<[do |-> what, p |-> p]>> \in Seq(Todo) /\ <<>> \in Seq(Todo)
    BY <2>1
  <2> QED BY <2>2
<1>2. Asks(peers, what, order) = FoldLeft(LAMBDA s, p : s \o ask[p], <<>>, order)
  BY DEF Asks
<1> HIDE DEF ask
<1>3. Asks(peers, what, order) = f(order)
  BY <1>2, Asking!FoldedDef
     DEF AsksStep, FoldLeft, MapThenFoldSet, Max, Asking!Max, Asking!FoldRecursion
<1>4. <<>> \in T
  <2>1. f(<<>>) = <<>> /\ <<>> \in Seq(Todo) /\ <<>> \in Seq(Peer)
    BY Asking!FoldedEmpty
  <2> HIDE DEF f
  <2> QED BY <2>1
<1>5. ASSUME NEW s \in Seq(Peer), NEW p \in Peer, s \in T PROVE Append(s, p) \in T
  <2>1. f(Append(s, p)) = AsksStep(ask, f(s), p)
    BY Asking!FoldedAppend
  <2> HIDE DEF f
  <2>2. f(s) \in Seq(Todo) /\ f(s) \o ask[p] \in Seq(Todo)
    BY <1>1, <1>5
  <2>3. Append(s, p) \in Seq(Peer)
    OBVIOUS
  <2> QED BY <2>1, <2>2, <2>3 DEF AsksStep
<1>6. order \in T
  <2> HIDE DEF T
  <2> QED BY <1>4, <1>5, SeqInduct
<1> HIDE DEF f
<1> QED BY <1>3, <1>6

\* send_sync_block_to_node_delegate
LEMMA SyncBlockSent ==
    ASSUME NEW v, NodeInv(v), NEW order \in Seq(Peer)
    PROVE  Keeps(v, send_sync_block_to_node_delegate(v, order))
<1> DEFINE b == Head(v.handling)
           handed == [v EXCEPT !.handling = Tail(@), !.chain = handle_block(@, b)]
           guilty == {p \in Active(v) : b \in v.peers[p].processing}
           punished == FoldSet(LAMBDA p, u : disconnect_from_peer(u, p, TRUE), handed, guilty)
           noted == Accepted(handed, b)
           first == Asks(Emptied(v, b), "ask", order)
           second == Asks(InSync(v), "sync", order)
           u == send_sync_block_to_node_delegate(v, order)
<1>0. guilty \in SUBSET Peer
  BY DEF Active
<1>1. u = IF Rejects(v.chain, b) THEN trigger_process_backlog_of_sync_blocks(punished)
          ELSE Continue(noted, "handover", first \o second)
  BY DEF send_sync_block_to_node_delegate
<1>2. first \in Seq(Todo) /\ second \in Seq(Todo)
  BY AsksIsSeq
<1> HIDE DEF b, guilty, first, second, u
<1>3. first \o second \in Seq(Todo)
  BY <1>2
<1>4. Calm(v, handed)
  BY DEF NodeInv, Calm, Shape, Loops, WorldFields
<1> HIDE DEF handed
<1>5. Keeps(v, handed) /\ NodeInv(handed)
  BY <1>4, CalmKeeps DEF Keeps
<1>6. Keeps(handed, punished)
  BY <1>0, <1>5, AllDisconnected
<1>7. Keeps(handed, noted)
  BY <1>5, AcceptedCalm, CalmKeeps
<1> HIDE DEF noted, punished
<1>8. Keeps(v, noted) /\ Keeps(v, punished)
  BY <1>5, <1>6, <1>7, KeepsChain
<1>9. /\ Keeps(noted, Continue(noted, "handover", first \o second))
      /\ Keeps(punished, trigger_process_backlog_of_sync_blocks(punished))
  BY <1>3, <1>8, Continues, Triggered DEF Keeps
<1>10. Keeps(v, u)
  BY <1>1, <1>8, <1>9, KeepsChain
<1> QED BY <1>10 DEF u

----------------------------------------------------------------------------
(* Normal operation.                                                       *)

\* A block is accepted.
LEMMA RecentlyKeeps ==
    ASSUME NEW v, NodeInv(v), NEW b
    PROVE  Keeps(v, Recently(v, b))
<1> DEFINE u == Recently(v, b)
<1>1. Calm(v, u)
  BY DEF Recently, NodeInv, Calm, Shape, Loops, WorldFields
<1> HIDE DEF u
<1> QED BY <1>1, CalmKeeps DEF u

\* A new item is to be advertised.
LEMMA BroadcastKeeps ==
    ASSUME NEW v, NodeInv(v), NEW x
    PROVE  Keeps(v, broadcast(v, x))
<1> DEFINE new == [v EXCEPT !.inventory = @ \cup {x}, !.cache = @ \cup {x}]
<1>1. Calm(v, new)
  BY DEF NodeInv, Calm, Shape, Loops, WorldFields
<1>2. broadcast(v, x) = IF x \in Block THEN Recently(new, x) ELSE new
  BY DEF broadcast
<1> HIDE DEF new
<1>3. Keeps(v, new)
  BY <1>1, CalmKeeps
<1>4. Keeps(new, Recently(new, x))
  BY <1>3, RecentlyKeeps DEF Keeps
<1> QED BY <1>2, <1>3, <1>4, KeepsChain

\* The peer may be free for other items.
LEMMA ProcessedKeeps ==
    ASSUME NEW v, NodeInv(v), NEW p
    PROVE  Keeps(v, Processed(v, p))
BY Triggered, KeepsSelf DEF Processed

\* The peers that offered a block have it, and the others hear of it.
LEMMA PassOnKeeps ==
    ASSUME NEW v, NodeInv(v), NEW b
    PROVE  Keeps(v, PassOn(v, b))
<1> DEFINE new(q) == IF q \in Active(v) /\ b \in v.peers[q].offered
                     THEN [v.peers[q] EXCEPT !.seen = b] ELSE v.peers[q]
           t == [v EXCEPT !.peers = [q \in Peer |-> new(q)]]
<1>1. PassOn(v, b) = broadcast(t, b)
  BY DEF PassOn
<1>2. ASSUME NEW q \in Peer PROVE Relisted(v.peers[q], new(q))
  <2>1. IsSeq(v.peers[q].ids) /\ DOMAIN v.peers[q] = PeerFields
    BY DEF NodeInv, Loops, Shape
  <2>2. CASE new(q) = v.peers[q]
    <3> HIDE DEF new
    <3> QED BY <2>1, <2>2 DEF Relisted
  <2>3. CASE new(q) = [v.peers[q] EXCEPT !.seen = b]
    <3> HIDE DEF new
    <3> QED BY <2>1, <2>3 DEF Relisted, PeerFields
  <2> QED BY <2>2, <2>3
<1> HIDE DEF new
<1>3. /\ DOMAIN t = WorldFields /\ DOMAIN t.peers = Peer /\ t.active = v.active
      /\ t.fresh = v.fresh /\ t.received = v.received /\ t.to_fetch = v.to_fetch
      /\ t.calls = v.calls /\ t.mail = v.mail
      /\ \A q \in Peer : t.peers[q] = new(q)
  BY DEF NodeInv, Shape, WorldFields
<1> HIDE DEF t
<1>4. Calm(v, t)
  BY <1>2, <1>3 DEF Calm, NodeInv, Shape, Loops, Relisted
<1>5. Keeps(v, t)
  BY <1>4, CalmKeeps
<1>6. PICK u : u = broadcast(t, b)
  OBVIOUS
<1>7. Keeps(t, u)
  BY <1>5, <1>6, BroadcastKeeps DEF Keeps
<1> QED BY <1>1, <1>5, <1>6, <1>7, KeepsChain

\* A request is answered.
LEMMA AnsweredCalm ==
    ASSUME NEW v, NodeInv(v), NEW p \in Peer, NEW x
    PROVE  Calm(v, [v EXCEPT !.peers[p].requested = @ \ {x}])
<1>1. IsFiniteSet(v.peers[p].requested \ {x})
  BY FS_Subset DEF NodeInv, Loops
<1> QED BY <1>1 DEF NodeInv, Calm, Shape, Loops, WorldFields, PeerFields

\* process_block_during_normal_operation
LEMMA BlockProcessed ==
    ASSUME NEW v, NodeInv(v), NEW p \in Peer, NEW b
    PROVE  Keeps(v, process_block_during_normal_operation(v, p, b))
<1> DEFINE passed == PassOn(v, b)
           busy == [v EXCEPT !.busy = @ \cup {b}]
           waiting == Wait(busy, "handle_block", "reader", p, b, <<>>, 0, <<>>)
           u == process_block_during_normal_operation(v, p, b)
<1>1. u = Processed(passed, p) \/ u = waiting
  BY DEF process_block_during_normal_operation
<1>2. Calm(v, busy)
  BY DEF NodeInv, Calm, Shape, Loops, WorldFields
<1> HIDE DEF busy, u
<1>3. Keeps(v, busy) /\ NodeInv(busy)
  BY <1>2, CalmKeeps DEF Keeps
<1>4. Keeps(busy, waiting)
  BY <1>3, WaitKeeps, ShortTodo
<1>5. Keeps(v, passed)
  BY PassOnKeeps
<1> HIDE DEF waiting, passed
<1>6. Keeps(passed, Processed(passed, p))
  BY <1>5, ProcessedKeeps DEF Keeps
<1>7. Keeps(v, u)
  BY <1>1, <1>3, <1>4, <1>5, <1>6, KeepsChain
<1> QED BY <1>7 DEF u

\* The delegate has taken or refused the block.
LEMMA BlockHandledKeeps ==
    ASSUME NEW v, NodeInv(v), NEW p \in Peer, NEW b
    PROVE  Keeps(v, BlockHandled(v, p, b))
<1> DEFINE handed == [v EXCEPT !.chain = handle_block(@, b)]
           guilty == {p} \cup Fronting(v, b)
           punished == FoldSet(LAMBDA q, u : disconnect_from_peer(u, q, TRUE), handed, guilty)
           freed == [handed EXCEPT !.busy = @ \ {b}]
           noted == Recently(freed, b)
           passed == PassOn(noted, b)
           u == BlockHandled(v, p, b)
<1>1. u = Processed(punished, p) \/ u = Processed(passed, p)
  BY DEF BlockHandled
<1>2. Calm(v, handed) /\ Calm(v, freed)
  BY DEF NodeInv, Calm, Shape, Loops, WorldFields
<1>3. guilty \in SUBSET Peer
  BY DEF Fronting, Active
<1> HIDE DEF handed, freed, guilty, u
<1>4. Keeps(v, handed) /\ Keeps(v, freed)
  BY <1>2, CalmKeeps
<1>5. Keeps(handed, punished) /\ Keeps(freed, noted)
  BY <1>3, <1>4, AllDisconnected, RecentlyKeeps DEF Keeps
<1> HIDE DEF punished, noted
<1>6. Keeps(v, punished) /\ Keeps(v, noted)
  BY <1>4, <1>5, KeepsChain
<1>7. Keeps(noted, passed)
  BY <1>6, PassOnKeeps DEF Keeps
<1> HIDE DEF passed
<1>8. Keeps(v, passed)
  BY <1>6, <1>7, KeepsChain
<1>9. Keeps(passed, Processed(passed, p)) /\ Keeps(punished, Processed(punished, p))
  BY <1>6, <1>8, ProcessedKeeps DEF Keeps
<1>10. Keeps(v, u)
  BY <1>1, <1>6, <1>8, <1>9, KeepsChain
<1> QED BY <1>10 DEF u

\* A sync block arrives, of which no other peer was asked.
LEMMA SyncBlockReceived ==
    ASSUME NEW v, NodeInv(v), NEW p \in Peer, NEW b, b \in v.peers[p].sync
    PROVE  Keeps(v, process_block_during_sync(
                        [v EXCEPT !.peers[p].sync = @ \ {b}, !.active = @ \ {b}], b))
<1> DEFINE got == [v EXCEPT !.peers[p].sync = @ \ {b}, !.active = @ \ {b}]
           u == process_block_during_sync(got, b)
<1>1. IsSeq(<<b>> \o v.fresh)
  <2>1. <<b>> \in Seq({b})
    OBVIOUS
  <2> QED BY <2>1, IsSeqOf, SeqConcat DEF NodeInv, Loops
<1>2. /\ Shape(u) /\ u.active = v.active \ {b}
      /\ u.fresh = <<b>> \o v.fresh /\ u.received = v.received /\ u.to_fetch = v.to_fetch
      /\ u.calls = v.calls /\ u.mail = v.mail
      /\ \A q \in Peer : /\ u.peers[q].sync = IF q = p THEN v.peers[q].sync \ {b}
                                              ELSE v.peers[q].sync
                         /\ u.peers[q].list = v.peers[q].list
                         /\ u.peers[q].requested = v.peers[q].requested
                         /\ u.peers[q].ids = v.peers[q].ids
  <2>1. /\ Shape(got) /\ got.active = v.active \ {b}
        /\ got.fresh = v.fresh /\ got.received = v.received /\ got.to_fetch = v.to_fetch
        /\ got.calls = v.calls /\ got.mail = v.mail
        /\ got.peers = [v.peers EXCEPT ![p].sync = @ \ {b}]
    BY DEF NodeInv, Shape, WorldFields, PeerFields
  <2>2. u = [[got EXCEPT !.fresh = <<b>> \o @] EXCEPT !.backlog = TRUE]
    BY DEF process_block_during_sync, trigger_process_backlog_of_sync_blocks
  <2> HIDE DEF got, u
  <2>3. /\ Shape(u) /\ u.active = got.active /\ u.peers = got.peers
        /\ u.fresh = <<b>> \o got.fresh /\ u.received = got.received /\ u.to_fetch = got.to_fetch
        /\ u.calls = got.calls /\ u.mail = got.mail
    BY <2>1, <2>2 DEF Shape, WorldFields
  <2>4. /\ u.active = v.active \ {b} /\ u.fresh = <<b>> \o v.fresh
        /\ u.received = v.received /\ u.to_fetch = v.to_fetch
        /\ u.calls = v.calls /\ u.mail = v.mail
        /\ u.peers = [v.peers EXCEPT ![p].sync = @ \ {b}]
    BY <2>1, <2>3
  <2>5. DOMAIN v.peers = Peer /\ DOMAIN v.peers[p] = PeerFields
    BY DEF NodeInv, Shape
  <2>6. /\ \A q \in Peer : q # p => u.peers[q] = v.peers[q]
        /\ u.peers[p] = [v.peers[p] EXCEPT !.sync = @ \ {b}]
    BY <2>4, <2>5
  <2>7. /\ u.peers[p].sync = v.peers[p].sync \ {b} /\ u.peers[p].list = v.peers[p].list
        /\ u.peers[p].requested = v.peers[p].requested /\ u.peers[p].ids = v.peers[p].ids
    BY <2>5, <2>6 DEF PeerFields
  <2> QED BY <2>3, <2>4, <2>6, <2>7
<1> HIDE DEF u
<1>3. Loops(u)
  BY <1>1, <1>2 DEF NodeInv, Loops
<1>4. \A q \in Peer : q # p => b \notin v.peers[q].sync
  BY DEF NodeInv, Shared
<1>5. Shared(u)
  <2>1. \A q \in Peer : u.peers[q].sync \subseteq u.active
    BY <1>2, <1>4 DEF NodeInv, Shared
  <2>2. \A q \in Peer : u.peers[q].list = "none" => u.peers[q].sync = {}
    BY <1>2 DEF NodeInv, Shared
  <2>3. \A q \in Peer : u.peers[q].sync \subseteq v.peers[q].sync
    BY <1>2
  <2>4. \A q, r \in Peer : q # r => u.peers[q].sync \cap u.peers[r].sync = {}
    BY <2>3 DEF NodeInv, Shared
  <2> QED BY <2>1, <2>2, <2>4 DEF Shared
<1>6. Owned(v) => Owned(u)
  BY <1>2 DEF Owned
<1>7. Keeps(v, u)
  BY <1>2, <1>3, <1>5, <1>6 DEF Keeps, NodeInv, Unread
<1> QED BY <1>7 DEF u

\* process_block_message
LEMMA BlockReceived ==
    ASSUME NEW v, NodeInv(v), NEW p \in Peer, NEW b
    PROVE  Keeps(v, process_block_message(v, p, b))
<1> DEFINE taken == [v EXCEPT !.peers[p].requested = @ \ {b}]
           normal == process_block_during_normal_operation(taken, p, b)
           sync == process_block_during_sync(
                       [v EXCEPT !.peers[p].sync = @ \ {b}, !.active = @ \ {b}], b)
           u == process_block_message(v, p, b)
<1>1. Calm(v, taken)
  BY AnsweredCalm
<1> HIDE DEF taken
<1>2. Keeps(v, taken) /\ Keeps(taken, normal)
  BY <1>1, CalmKeeps, BlockProcessed DEF Keeps
<1>3. b \in v.peers[p].sync => Keeps(v, sync)
  BY SyncBlockReceived
<1> HIDE DEF normal, sync
<1>4. Keeps(v, normal)
  BY <1>2, KeepsChain
<1>6. ASSUME b \in v.peers[p].sync
      PROVE  /\ Keeps(v, fetch_next_batch_of_item_ids_from_peer(sync, "reader", p, <<>>))
             /\ Keeps(v, trigger_fetch_sync_items_loop(sync))
  BY <1>3, <1>6, NextBatch, ShortTodo, Triggered, KeepsChain DEF Keeps
<1>7. Keeps(v, disconnect_from_peer(v, p, TRUE))
  BY Disconnected
<1>8. \/ u \in {normal, disconnect_from_peer(v, p, TRUE)}
      \/ /\ b \in v.peers[p].sync
         /\ u \in {sync, fetch_next_batch_of_item_ids_from_peer(sync, "reader", p, <<>>),
                   trigger_fetch_sync_items_loop(sync)}
  BY DEF process_block_message, normal, sync, taken
<1> HIDE DEF u
<1>9. Keeps(v, u)
  BY <1>3, <1>4, <1>6, <1>7, <1>8
<1> QED BY <1>9 DEF u

\* process_ordinary_message
LEMMA TrxReceived ==
    ASSUME NEW v, NodeInv(v), NEW p \in Peer, NEW t
    PROVE  Keeps(v, process_ordinary_message(v, p, t))
<1> DEFINE taken == [v EXCEPT !.peers[p].requested = @ \ {t}]
           got == Processed(taken, p)
           waiting == Wait(got, "handle_transaction", "reader", p, t, <<>>, 0, <<>>)
           u == process_ordinary_message(v, p, t)
<1>1. u \in {disconnect_from_peer(v, p, TRUE), waiting}
  BY DEF process_ordinary_message
<1>2. Calm(v, taken)
  BY AnsweredCalm
<1> HIDE DEF taken, u
<1>3. Keeps(v, taken)
  BY <1>2, CalmKeeps
<1>4. Keeps(taken, got)
  BY <1>3, ProcessedKeeps DEF Keeps
<1> HIDE DEF got
<1>5. Keeps(got, waiting)
  BY <1>4, WaitKeeps, ShortTodo DEF Keeps
<1> HIDE DEF waiting
<1>6. Keeps(v, waiting)
  BY <1>3, <1>4, <1>5, KeepsChain
<1>7. Keeps(v, u)
  BY <1>1, <1>6, Disconnected
<1> QED BY <1>7 DEF u

\* The delegate has taken or refused the transaction.
LEMMA TrxHandledKeeps ==
    ASSUME NEW v, NodeInv(v), NEW t
    PROVE  Keeps(v, TransactionHandled(v, t))
<1> DEFINE noted == [v EXCEPT !.failed = @ \cup {t}]
<1>1. Calm(v, noted)
  BY DEF NodeInv, Calm, Shape, Loops, WorldFields
<1>2. TransactionHandled(v, t) = IF t \in BadTrx THEN noted ELSE broadcast(v, t)
  BY DEF TransactionHandled
<1> HIDE DEF noted
<1> QED BY <1>1, <1>2, CalmKeeps, BroadcastKeeps

\* on_item_ids_inventory_message
LEMMA ItemOffered ==
    ASSUME NEW v, NodeInv(v), NEW p \in Peer, NEW x
    PROVE  Keeps(v, on_item_ids_inventory_message(v, p, x))
<1> DEFINE offered == [v EXCEPT !.peers[p].offered = @ \cup {x}]
           listed == ToFetch(offered, x)
           u == on_item_ids_inventory_message(v, p, x)
<1>1. u \in {v, offered, trigger_fetch_items_loop(listed)}
  BY DEF on_item_ids_inventory_message
<1>2. Calm(v, offered)
  BY DEF NodeInv, Calm, Shape, Loops, WorldFields, PeerFields
<1> HIDE DEF offered, u
<1>3. Keeps(v, offered)
  BY <1>2, CalmKeeps
<1>4. Keeps(offered, listed)
  BY <1>3, ToFetchKeeps DEF Keeps
<1> HIDE DEF listed
<1>5. Keeps(v, listed)
  BY <1>3, <1>4, KeepsChain
<1>6. Keeps(listed, trigger_fetch_items_loop(listed))
  BY <1>5, Triggered DEF Keeps
<1>7. Keeps(v, u)
  BY <1>1, <1>3, <1>5, <1>6, KeepsChain, KeepsSelf
<1> QED BY <1>7 DEF u

\* The bodies of the loops over _items_to_fetch.
WithoutStep(x, s, y) == IF y = x THEN s ELSE Append(s, y)
ItemStep(order, v, x) == RequestItem(v, order, x)

Erasing == INSTANCE FoldLemmas WITH Step <- WithoutStep
FetchingItems == INSTANCE FoldLemmas WITH Step <- ItemStep

\* The list without an item is a list.
LEMMA WithoutIsSeq ==
    ASSUME NEW items, IsSeq(items), NEW x
    PROVE  IsSeq(Without(items, x))
<1> DEFINE f(s) == Erasing!Folded(x, <<>>, s)
           A == Range(items)
           T == {s \in Seq(A) : IsSeq(f(s))}
<1>0. items \in Seq(A)
  BY DEF IsSeq
<1> HIDE DEF A
<1>1. <<>> \in T
  <2>1. f(<<>>) = <<>> /\ <<>> \in Seq({}) /\ <<>> \in Seq(A)
    BY Erasing!FoldedEmpty
  <2> HIDE DEF f
  <2> QED BY <2>1, IsSeqOf
<1>2. ASSUME NEW s \in Seq(A), NEW e \in A, s \in T PROVE Append(s, e) \in T
  <2>1. f(Append(s, e)) = WithoutStep(x, f(s), e)
    BY Erasing!FoldedAppend
  <2> HIDE DEF f
  <2>2. IsSeq(f(s)) /\ IsSeq(Append(f(s), e)) /\ Append(s, e) \in Seq(A)
    BY <1>2, SeqAppend
  <2> QED BY <2>1, <2>2 DEF WithoutStep
<1>3. items \in T
  <2> HIDE DEF T
  <2> QED BY <1>0, <1>1, <1>2, SeqInduct
<1>4. Without(items, x) = f(items)
  BY Erasing!FoldedDef
     DEF Without, WithoutStep, FoldLeft, MapThenFoldSet, Max, Erasing!Max, Erasing!FoldRecursion
<1> HIDE DEF f
<1> QED BY <1>3, <1>4

\* An item is asked of a peer.
LEMMA RequestItemKeeps ==
    ASSUME NEW v, NodeInv(v), NEW order, NEW x
    PROVE  Keeps(v, RequestItem(v, order, x))
<1> DEFINE from == SelectSeq(order, LAMBDA p : idle(v.peers[p]) /\ x \in v.peers[p].offered)
           z == from[1]
           asked == [v EXCEPT !.peers[z].requested = @ \cup {x}, !.to_fetch = Without(@, x)]
           u == Send(asked, z, <<[type |-> "fetch_items", id |-> x]>>)
<1>1. RequestItem(v, order, x) = IF from = <<>> THEN v ELSE u
  BY DEF RequestItem
<1> HIDE DEF z, from
<1>2. IsSeq(Without(v.to_fetch, x))
  BY WithoutIsSeq DEF NodeInv, Loops
<1>3. \A q \in Peer : IsFiniteSet(v.peers[q].requested \cup {x})
  BY FS_AddElement DEF NodeInv, Loops
<1>4. Calm(v, u)
  <2>1. z \in Peer \/ z \notin Peer
    OBVIOUS
  <2>2. CASE z \in Peer
    BY <1>2, <1>3, <2>2 DEF Send, NodeInv, Calm, Shape, Loops, WorldFields, PeerFields
  <2>3. CASE z \notin Peer
    BY <1>2, <2>3 DEF Send, NodeInv, Calm, Shape, Loops, WorldFields, PeerFields
  <2> QED BY <2>1, <2>2, <2>3
<1> HIDE DEF u
<1> QED BY <1>1, <1>4, CalmKeeps, KeepsSelf

\* fetch_items_loop
LEMMA ItemsFetched ==
    ASSUME NEW v, NodeInv(v), NEW order
    PROVE  Keeps(v, fetch_items_loop(v, order))
<1> DEFINE turn == [v EXCEPT !.fetch_items = FALSE]
           f(s) == FetchingItems!Folded(order, turn, s)
           A == Range(v.to_fetch)
           T == {s \in Seq(A) : Keeps(v, f(s))}
<1>0. v.to_fetch \in Seq(A)
  BY DEF NodeInv, Loops, IsSeq
<1>1. Calm(v, turn)
  BY DEF NodeInv, Calm, Shape, Loops, WorldFields
<1> HIDE DEF turn, A
<1>2. Keeps(v, turn)
  BY <1>1, CalmKeeps
<1>3. <<>> \in T
  <2>1. f(<<>>) = turn /\ <<>> \in Seq(A)
    BY FetchingItems!FoldedEmpty
  <2> HIDE DEF f
  <2> QED BY <1>2, <2>1
<1>4. ASSUME NEW s \in Seq(A), NEW x \in A, s \in T PROVE Append(s, x) \in T
  <2>1. f(Append(s, x)) = ItemStep(order, f(s), x)
    BY FetchingItems!FoldedAppend
  <2>2. PICK u : u = f(s)
    OBVIOUS
  <2> HIDE DEF f
  <2>3. Keeps(v, u)
    BY <1>4, <2>2
  <2>4. Keeps(u, RequestItem(u, order, x))
    BY <2>3, RequestItemKeeps DEF Keeps
  <2>5. Keeps(v, RequestItem(u, order, x))
    BY <2>3, <2>4, KeepsChain
  <2>6. Append(s, x) \in Seq(A)
    OBVIOUS
  <2> QED BY <2>1, <2>2, <2>5, <2>6 DEF ItemStep
<1>5. v.to_fetch \in T
  <2> HIDE DEF T
  <2> QED BY <1>0, <1>3, <1>4, SeqInduct
<1>6. fetch_items_loop(v, order) = f(v.to_fetch)
  BY FetchingItems!FoldedDef
     DEF fetch_items_loop, turn, ItemStep, FoldLeft, MapThenFoldSet, Max, FetchingItems!Max,
         FetchingItems!FoldRecursion
<1> HIDE DEF f
<1> QED BY <1>5, <1>6

\* advertise_inventory_loop
LEMMA InventoryAdvertised ==
    ASSUME NEW v, NodeInv(v)
    PROVE  Keeps(v, advertise_inventory_loop(v))
<1> DEFINE u == advertise_inventory_loop(v)
           new(p) == IF p \in Active(v) /\ ~v.peers[p].they_need
                     THEN [v.peers[p] EXCEPT !.told = @ \cup (v.inventory \ v.peers[p].offered)]
                     ELSE v.peers[p]
<1>1. u = [v EXCEPT !.inventory = {}, !.peers = [p \in Peer |-> new(p)]]
  BY DEF advertise_inventory_loop
<1>2. ASSUME NEW p \in Peer
      PROVE  /\ DOMAIN new(p) = PeerFields /\ new(p).ids = v.peers[p].ids
             /\ new(p).list = v.peers[p].list /\ new(p).sync = v.peers[p].sync
             /\ new(p).requested = v.peers[p].requested
  <2>1. DOMAIN v.peers[p] = PeerFields
    BY DEF NodeInv, Shape
  <2>2. CASE new(p) = v.peers[p]
    <3> HIDE DEF new
    <3> QED BY <2>1, <2>2
  <2>3. CASE new(p) = [v.peers[p] EXCEPT !.told = @ \cup (v.inventory \ v.peers[p].offered)]
    <3> HIDE DEF new
    <3> QED BY <2>1, <2>3 DEF PeerFields
  <2> QED BY <2>2, <2>3
<1> HIDE DEF u, new
<1>3. /\ DOMAIN u = WorldFields /\ DOMAIN u.peers = Peer /\ u.active = v.active
      /\ u.fresh = v.fresh /\ u.received = v.received /\ u.to_fetch = v.to_fetch
      /\ u.calls = v.calls /\ u.mail = v.mail
      /\ \A p \in Peer : u.peers[p] = new(p)
  BY <1>1 DEF NodeInv, Shape, WorldFields
<1>4. Calm(v, u)
  BY <1>2, <1>3 DEF Calm, NodeInv, Shape, Loops
<1> QED BY <1>4, CalmKeeps DEF u

\* on_item_not_available_message: the block stays active, and nobody may be left to send it.
LEMMA NotAvailable ==
    ASSUME NEW v, NodeInv(v), NEW p \in Peer, NEW x
    PROVE  /\ NodeInv(on_item_not_available_message(v, p, x))
           /\ Unread(v, on_item_not_available_message(v, p, x))
<1> DEFINE without == [v EXCEPT !.peers[p].requested = @ \ {x}, !.peers[p].offered = @ \ {x}]
           missing == [v EXCEPT !.peers[p].sync = @ \ {x}]
           again == IF is_item_in_any_peers_inventory(without, x) THEN ToFetch(without, x) ELSE without
           inhibited == [missing EXCEPT !.peers[p].inhibit = TRUE]
           ended == IF v.peers[p].they_need THEN inhibited ELSE disconnect_from_peer(missing, p, TRUE)
           u == on_item_not_available_message(v, p, x)
<1>1. IsFiniteSet(v.peers[p].requested \ {x})
  BY FS_Subset DEF NodeInv, Loops
<1>2. Calm(v, without)
  <2>1. /\ DOMAIN without = WorldFields /\ DOMAIN without.peers = Peer
        /\ without.active = v.active /\ without.fresh = v.fresh
        /\ without.received = v.received /\ without.to_fetch = v.to_fetch
        /\ without.calls = v.calls /\ without.mail = v.mail
        /\ \A q \in Peer : q # p => without.peers[q] = v.peers[q]
    BY DEF NodeInv, Shape, WorldFields
  <2>2. /\ DOMAIN without.peers[p] = PeerFields /\ without.peers[p].ids = v.peers[p].ids
        /\ without.peers[p].list = v.peers[p].list /\ without.peers[p].sync = v.peers[p].sync
        /\ without.peers[p].requested = v.peers[p].requested \ {x}
    BY DEF NodeInv, Shape, WorldFields, PeerFields
  <2> HIDE DEF without
  <2>3. Shape(without)
    BY <2>1, <2>2 DEF NodeInv, Shape
  <2>4. Loops(without)
    BY <1>1, <2>1, <2>2 DEF NodeInv, Loops
  <2> QED BY <2>1, <2>2, <2>3, <2>4 DEF Calm, NodeInv
<1>3. u \in {trigger_fetch_items_loop(again), trigger_fetch_sync_items_loop(ended), v}
  BY DEF on_item_not_available_message
<1> HIDE DEF without, u
<1>4. Keeps(v, without) /\ Keeps(without, ToFetch(without, x))
  BY <1>2, CalmKeeps, ToFetchKeeps DEF Keeps
<1>5. NodeInv(missing) /\ missing.mail = v.mail
  <2>1. /\ Shape(missing) /\ missing.active = v.active
        /\ missing.fresh = v.fresh /\ missing.received = v.received /\ missing.to_fetch = v.to_fetch
        /\ missing.calls = v.calls /\ missing.mail = v.mail
        /\ \A q \in Peer : /\ missing.peers[q].sync \subseteq v.peers[q].sync
                           /\ missing.peers[q].list = v.peers[q].list
                           /\ missing.peers[q].requested = v.peers[q].requested
                           /\ missing.peers[q].ids = v.peers[q].ids
    BY DEF NodeInv, Shape, WorldFields, PeerFields
  <2> HIDE DEF missing
  <2> QED BY <2>1 DEF NodeInv, Loops, Shared
<1> HIDE DEF missing
<1>6. Calm(missing, inhibited)
  BY <1>5 DEF NodeInv, Calm, Shape, Loops, WorldFields, PeerFields
<1> HIDE DEF inhibited
<1>7. Keeps(missing, inhibited) /\ Keeps(missing, disconnect_from_peer(missing, p, TRUE))
  BY <1>5, <1>6, CalmKeeps, Disconnected
<1>8. NodeInv(again) /\ NodeInv(ended) /\ Unread(v, again) /\ Unread(v, ended)
  BY <1>4, <1>5, <1>7, KeepsChain DEF Keeps, Unread
<1> HIDE DEF again, ended
<1>9. NodeInv(u) /\ Unread(v, u)
  <2>1. Keeps(again, trigger_fetch_items_loop(again)) /\ Keeps(ended, trigger_fetch_sync_items_loop(ended))
    BY <1>8, Triggered
  <2> QED BY <1>3, <1>8, <2>1, KeepsSelf DEF Keeps, Unread
<1> QED BY <1>9 DEF u

----------------------------------------------------------------------------
(* What a peer asks of us, and the peers that are lost.                    *)

\* on_fetch_blockchain_item_ids_message
LEMMA IdsAsked ==
    ASSUME NEW v, NodeInv(v), NEW p \in Peer, NEW synopsis
    PROVE  Keeps(v, on_fetch_blockchain_item_ids_message(v, p, synopsis))
<1> DEFINE ids == get_block_ids(v.chain, synopsis).ids
           matches == synopsis # <<>> /\ Len(ids) = 1 /\ ids[1] \in ToSet(synopsis)
           need == ids # <<>> /\ ~matches
           noted == [v EXCEPT !.peers[p].they_need = need]
           then == IF matches /\ v.peers[p].inhibit THEN <<[do |-> "disconnect", p |-> p]>> ELSE <<>>
           waiting == Wait(noted, "last_seen", "reader", p, synopsis[Len(synopsis)], <<>>, 0, then)
           u == on_fetch_blockchain_item_ids_message(v, p, synopsis)
<1>1. u \in {on_connection_closed(v, p), waiting, Continue(noted, "reader", then)}
  BY DEF on_fetch_blockchain_item_ids_message
<1>2. then \in Seq(Todo)
  BY ShortTodo
<1> HIDE DEF need, then, u
<1>3. Calm(v, noted)
  BY DEF NodeInv, Calm, Shape, Loops, WorldFields, PeerFields
<1> HIDE DEF noted
<1>4. Keeps(v, noted) /\ NodeInv(noted)
  BY <1>3, CalmKeeps DEF Keeps
<1>5. Keeps(noted, waiting) /\ Keeps(noted, Continue(noted, "reader", then))
  BY <1>2, <1>4, WaitKeeps, Continues, ShortTodo
<1> HIDE DEF waiting
<1>6. Keeps(v, u)
  BY <1>1, <1>4, <1>5, KeepsChain, ConnectionClosed
<1> QED BY <1>6 DEF u

\* Whether the delegate has the peer's last block.
LEMMA LastSeenKeeps ==
    ASSUME NEW v, NodeInv(v), NEW c, Fits(c)
    PROVE  Keeps(v, LastSeen(v, c))
BY Continues, Synchronizing DEF LastSeen, Fits

\* on_fetch_items_message
LEMMA ItemAsked ==
    ASSUME NEW v, NodeInv(v), NEW p \in Peer, NEW b
    PROVE  Keeps(v, on_fetch_items_message(v, p, b))
<1> DEFINE u == [v EXCEPT !.peers[p].seen = b]
<1>1. Calm(v, u)
  BY DEF NodeInv, Calm, Shape, Loops, WorldFields, PeerFields
<1> HIDE DEF u
<1>2. Keeps(v, u) /\ Keeps(v, on_connection_closed(v, p))
  BY <1>1, CalmKeeps, ConnectionClosed
<1> QED BY <1>2 DEF on_fetch_items_message, u

\* terminate_inactive_connections_loop
LEMMA InactiveTerminated ==
    ASSUME NEW v, NodeInv(v), NEW order, NEW quiet \in SUBSET Peer, NEW late
    PROVE  Keeps(v, terminate_inactive_connections_loop(v, order, quiet, late))
<1> DEFINE reached == Reached(v, order, quiet, late)
           forcibly == {p \in reached \ quiet : p \in late}
           new(p) == IF p \in forcibly THEN [v.peers[p] EXCEPT !.list = "terminating"] ELSE v.peers[p]
           terminated == [v EXCEPT !.peers = [p \in Peer |-> new(p)]]
           u == FoldSet(LAMBDA p, t : disconnect_from_peer(t, p, FALSE),
                        terminated, reached \cap quiet)
<1>0. reached \cap quiet \in SUBSET Peer
  OBVIOUS
<1>1. terminate_inactive_connections_loop(v, order, quiet, late) = u
  BY Zenon DEF terminate_inactive_connections_loop
<1> HIDE DEF forcibly, reached
<1>2. ASSUME NEW p \in Peer
      PROVE  /\ DOMAIN new(p) = PeerFields /\ new(p).ids = v.peers[p].ids
             /\ new(p).list \in {v.peers[p].list, "terminating"} /\ new(p).sync = v.peers[p].sync
             /\ new(p).requested = v.peers[p].requested
  <2>1. DOMAIN v.peers[p] = PeerFields
    BY DEF NodeInv, Shape
  <2>2. CASE new(p) = v.peers[p]
    <3> HIDE DEF new
    <3> QED BY <2>1, <2>2
  <2>3. CASE new(p) = [v.peers[p] EXCEPT !.list = "terminating"]
    <3> HIDE DEF new
    <3> QED BY <2>1, <2>3 DEF PeerFields
  <2> QED BY <2>2, <2>3
<1> HIDE DEF new
<1>3. /\ DOMAIN terminated = WorldFields /\ DOMAIN terminated.peers = Peer
      /\ terminated.active = v.active /\ terminated.fresh = v.fresh
      /\ terminated.received = v.received /\ terminated.to_fetch = v.to_fetch
      /\ terminated.calls = v.calls /\ terminated.mail = v.mail
      /\ \A p \in Peer : terminated.peers[p] = new(p)
  BY DEF NodeInv, Shape, WorldFields
<1> HIDE DEF terminated
<1>4. Calm(v, terminated)
  BY <1>2, <1>3 DEF Calm, NodeInv, Shape, Loops
<1>5. Keeps(v, terminated)
  BY <1>4, CalmKeeps
<1>6. Keeps(terminated, u)
  <2>1. PICK S : S = reached \cap quiet
    OBVIOUS
  <2>2. Keeps(terminated, FoldSet(LAMBDA p, t : disconnect_from_peer(t, p, FALSE), terminated, S))
    BY <1>0, <1>5, <2>1, AllDisconnected DEF Keeps
  <2> QED BY <2>1, <2>2
<1> QED BY <1>1, <1>5, <1>6, KeepsChain

----------------------------------------------------------------------------
(* Messages, and answers of the delegate.                                  *)

\* on_message, of what a peer has not said to be missing and of anything else.
LEMMA MessageKeeps ==
    ASSUME NEW v, NodeInv(v), NEW p \in Peer, NEW m, Letter(m), NEW changed
    PROVE  /\ NodeInv(on_message(v, p, m, changed)) /\ Unread(v, on_message(v, p, m, changed))
           /\ m.type # "item_not_available" => Keeps(v, on_message(v, p, m, changed))
<1> DEFINE u == on_message(v, p, m, changed)
<1>1. CASE m.type = "blockchain_item_ids_inventory"
  <2>1. u = on_blockchain_item_ids_inventory_message(v, p, m.ids, m.remaining, changed)
    BY <1>1 DEF on_message
  <2> HIDE DEF u
  <2>2. Keeps(v, u)
    BY <1>1, <2>1, IdsReceived DEF Letter
  <2> QED BY <2>2 DEF Keeps, u
<1>2. CASE m.type = "fetch_blockchain_item_ids"
  <2>1. u = on_fetch_blockchain_item_ids_message(v, p, m.ids)
    BY <1>2 DEF on_message
  <2> HIDE DEF u
  <2>2. Keeps(v, u)
    BY <2>1, IdsAsked
  <2> QED BY <2>2 DEF Keeps, u
<1>3. CASE m.type = "fetch_items"
  <2>1. u = on_fetch_items_message(v, p, m.id)
    BY <1>3 DEF on_message
  <2> HIDE DEF u
  <2>2. Keeps(v, u)
    BY <2>1, ItemAsked
  <2> QED BY <2>2 DEF Keeps, u
<1>4. CASE m.type = "item_not_available"
  <2>1. u = on_item_not_available_message(v, p, m.id)
    BY <1>4 DEF on_message
  <2> HIDE DEF u
  <2>2. NodeInv(u) /\ Unread(v, u)
    BY <2>1, NotAvailable
  <2> QED BY <1>4, <2>2 DEF u
<1>5. CASE m.type = "item_ids_inventory"
  <2>1. u = on_item_ids_inventory_message(v, p, m.id)
    BY <1>5 DEF on_message
  <2> HIDE DEF u
  <2>2. Keeps(v, u)
    BY <2>1, ItemOffered
  <2> QED BY <2>2 DEF Keeps, u
<1>6. CASE m.type = "block"
  <2>1. u = process_block_message(v, p, m.id)
    BY <1>6 DEF on_message
  <2> HIDE DEF u
  <2>2. Keeps(v, u)
    BY <2>1, BlockReceived
  <2> QED BY <2>2 DEF Keeps, u
<1>7. CASE m.type = "trx"
  <2>1. u = process_ordinary_message(v, p, m.id)
    BY <1>7 DEF on_message
  <2> HIDE DEF u
  <2>2. Keeps(v, u)
    BY <2>1, TrxReceived
  <2> QED BY <2>2 DEF Keeps, u
<1> QED BY <1>1, <1>2, <1>3, <1>4, <1>5, <1>6, <1>7 DEF Letter

\* The fiber that has waited longest goes on.
LEMMA ResumeKeeps ==
    ASSUME NEW v, NodeInv(v), v.calls # <<>>, NEW changed
    PROVE  Keeps(v, Resume(v, changed))
<1> DEFINE c == Head(v.calls)
           t == [v EXCEPT !.calls = Tail(@)]
           eager == [t EXCEPT !.peers[c.p].inhibit = FALSE]
           batch == fetch_next_batch_of_item_ids_from_peer(eager, c.by, c.p, c.then)
           u == Resume(v, changed)
<1>1. u \in {Latest(t, c.p, c.ids, changed), Flush(t, c, changed),
             Appended(t, c.p, c.ids, c.n, changed), Listed(t, c.p, c.n), SynopsisMade(t, c),
             batch, BlockHandled(t, c.p, c.item), TransactionHandled(t, c.item),
             LastSeen(t, c), Continue(t, c.by, c.then)}
  BY DEF Resume
<1>2. Fits(c) /\ Waiting(Tail(v.calls))
  <2>1. IsSeq(v.calls) /\ \A i \in DOMAIN v.calls : Fits(v.calls[i])
    BY DEF NodeInv, Waiting
  <2>2. PICK s : s = v.calls
    OBVIOUS
  <2>3. s \in Seq(Range(s)) /\ s # <<>>
    BY <2>1, <2>2 DEF IsSeq
  <2>4. 1 \in DOMAIN s /\ Head(s) = s[1]
    BY <2>3
  <2>5. IsSeq(Tail(s))
    BY <2>3, SeqTail DEF IsSeq
  <2>6. \A i \in DOMAIN Tail(s) : i + 1 \in DOMAIN s /\ Tail(s)[i] = s[i + 1]
    BY <2>3
  <2> QED BY <2>1, <2>2, <2>4, <2>5, <2>6 DEF Waiting
<1>3. c.p \in Peer /\ IsSeq(c.ids) /\ c.then \in Seq(Todo)
  BY <1>2 DEF Fits
<1> HIDE DEF c, u
<1>4. Calm(v, t)
  BY <1>2 DEF NodeInv, Calm, Shape, Loops, WorldFields
<1> HIDE DEF t
<1>5. Keeps(v, t) /\ NodeInv(t)
  BY <1>4, CalmKeeps DEF Keeps
<1>6. Calm(t, eager)
  BY <1>3, <1>5 DEF NodeInv, Calm, Shape, Loops, WorldFields, PeerFields
<1> HIDE DEF eager
<1>7. Keeps(t, eager) /\ NodeInv(eager)
  BY <1>5, <1>6, CalmKeeps DEF Keeps
<1>8. Keeps(eager, batch)
  BY <1>3, <1>7, NextBatch
<1> HIDE DEF batch
<1>9. Keeps(t, batch)
  BY <1>7, <1>8, KeepsChain
<1>10. /\ Keeps(t, Latest(t, c.p, c.ids, changed)) /\ Keeps(t, Flush(t, c, changed))
       /\ Keeps(t, Appended(t, c.p, c.ids, c.n, changed)) /\ Keeps(t, Listed(t, c.p, c.n))
  BY <1>2, <1>3, <1>5, LatestKeeps, FlushKeeps, AppendedKeeps, ListedKeeps
<1>11. /\ Keeps(t, SynopsisMade(t, c)) /\ Keeps(t, BlockHandled(t, c.p, c.item))
       /\ Keeps(t, TransactionHandled(t, c.item)) /\ Keeps(t, LastSeen(t, c))
       /\ Keeps(t, Continue(t, c.by, c.then))
  BY <1>2, <1>3, <1>5, SynopsisKeeps, BlockHandledKeeps, TrxHandledKeeps, LastSeenKeeps, Continues
<1>12. Keeps(t, u)
  BY <1>1, <1>9, <1>10, <1>11
<1>13. Keeps(v, u)
  BY <1>5, <1>12, KeepsChain
<1> QED BY <1>13 DEF u

----------------------------------------------------------------------------
\* No peer has said that it lacks a block.
NoneMissing(mail) ==
    \A p \in Peer : \A i \in DOMAIN mail[p] : mail[p][i].type # "item_not_available"

(***************************************************************************)
(* The inductive invariant.  Only a peer that says that it does not have a *)
(* sync block leaves one that is asked of nobody.                          *)
(***************************************************************************)
P2PInv ==
    /\ NodeInv(w)
    /\ "missing" \notin env.faults => Owned(w) /\ NoneMissing(w.mail)
    /\ theirs \in [Peer -> BlockId] /\ env \in Budgets

\* It holds at first, with no connection.
LEMMA P2PInit == Init => P2PInv
<1> SUFFICES ASSUME Init PROVE P2PInv
  OBVIOUS
<1>1. PICK m \in Mixes : w = FirstWorld(m.ours) /\ theirs = m.theirs /\ env = m.env
  BY DEF Init
<1>2. theirs \in [Peer -> BlockId] /\ env \in Budgets
  BY <1>1, MixAssumption
<1>3. IsSeq(<<>>) /\ IsFiniteSet({}) /\ \A i \in DOMAIN <<>> : FALSE
  <2>1. <<>> \in Seq({}) /\ \A i \in DOMAIN <<>> : FALSE
    OBVIOUS
  <2> QED BY <2>1, IsSeqOf, FS_EmptySet
<1>4. Shape(w)
  BY <1>1 DEF FirstWorld, Shape, NewPeer, WorldFields, PeerFields
<1>5. /\ w.active = {} /\ w.fresh = <<>> /\ w.received = <<>> /\ w.to_fetch = <<>>
      /\ w.calls = <<>>
      /\ \A p \in Peer : /\ w.peers[p].sync = {} /\ w.peers[p].ids = <<>>
                         /\ w.peers[p].requested = {} /\ w.mail[p] = <<>>
  BY <1>1 DEF FirstWorld, NewPeer
<1>6. Waiting(w.calls) /\ Posted(w.mail) /\ NoneMissing(w.mail)
  BY <1>3, <1>5 DEF Waiting, Posted, NoneMissing
<1> QED BY <1>2, <1>3, <1>4, <1>5, <1>6 DEF P2PInv, NodeInv, Loops, Shared, Owned

\* What is not read says nothing new.
LEMMA UnreadKeeps ==
    ASSUME NEW v, NEW u, Unread(v, u), NoneMissing(v.mail)
    PROVE  NoneMissing(u.mail)
<1>1. \A i \in DOMAIN <<>> : FALSE
  OBVIOUS
<1> QED BY <1>1 DEF Unread, NoneMissing

\* What a step does to it follows from what the handler does.
LEMMA StepKeeps ==
    ASSUME P2PInv, Keeps(w, w'), theirs' \in [Peer -> BlockId], env' \in Budgets,
           env'.faults = env.faults
    PROVE  P2PInv'
<1>1. NoneMissing(w.mail) => NoneMissing(w'.mail)
  BY UnreadKeeps DEF Keeps
<1> QED BY <1>1 DEF P2PInv, Keeps

\* What may happen is used up.
LEMMA Spent ==
    ASSUME env \in Budgets, NEW what \in {"moves", "asks", "news", "drops", "joins"}, Spend(what)
    PROVE  env' \in Budgets /\ env'.faults = env.faults
<1>1. env[what] \in Nat /\ env[what] > 0 /\ env' = [env EXCEPT ![what] = env[what] - 1]
  BY DEF Spend, Budgets
<1>2. env[what] - 1 \in Nat
  BY <1>1
<1>3. PICK n \in Nat : env' = [env EXCEPT ![what] = n]
  BY <1>1, <1>2
<1>4. CASE what = "moves"
  BY <1>3, <1>4 DEF Budgets
<1>5. CASE what = "asks"
  BY <1>3, <1>5 DEF Budgets
<1>6. CASE what = "news"
  BY <1>3, <1>6 DEF Budgets
<1>7. CASE what = "drops"
  BY <1>3, <1>7 DEF Budgets
<1>8. CASE what = "joins"
  BY <1>3, <1>8 DEF Budgets
<1> QED BY <1>4, <1>5, <1>6, <1>7, <1>8

\* A message joins those that are on the way to us.
LEMMA MailKeeps ==
    ASSUME P2PInv, NEW p \in Peer, NEW m, Letter(m), Sends(p, m) \/ Answers(p, m),
           m.type = "item_not_available" => "missing" \in env.faults,
           theirs' = theirs, env' \in Budgets, env'.faults = env.faults
    PROVE  P2PInv'
<1>0. NodeInv(w)
  BY DEF P2PInv
<1>1. /\ DOMAIN w' = WorldFields /\ w'.peers = w.peers /\ w'.calls = w.calls
      /\ w'.active = w.active /\ w'.fresh = w.fresh /\ w'.received = w.received
      /\ w'.to_fetch = w.to_fetch /\ w'.mail = [w.mail EXCEPT ![p] = Append(w.mail[p], m)]
  BY <1>0 DEF Sends, Answers, NodeInv, Shape, WorldFields
<1>2. \A q \in Peer : w'.mail[q] = IF q = p THEN Append(w.mail[p], m) ELSE w.mail[q]
  BY <1>0, <1>1 DEF NodeInv, Shape
<1>3. \A i \in DOMAIN Append(w.mail[p], m) :
          \/ Append(w.mail[p], m)[i] = m
          \/ i \in DOMAIN w.mail[p] /\ Append(w.mail[p], m)[i] = w.mail[p][i]
  <2>1. IsSeq(w.mail[p])
    BY <1>0 DEF NodeInv, Posted
  <2> QED BY <2>1 DEF IsSeq
<1>4. IsSeq(Append(w.mail[p], m))
  BY <1>0, SeqAppend DEF NodeInv, Posted
<1>5. Posted(w'.mail)
  BY <1>0, <1>2, <1>3, <1>4 DEF NodeInv, Posted
<1>6. Shape(w') /\ Loops(w') /\ Shared(w') /\ Waiting(w'.calls)
  BY <1>0, <1>1 DEF NodeInv, Shape, Loops, Shared
<1>7. ASSUME "missing" \notin env.faults PROVE Owned(w') /\ NoneMissing(w'.mail)
  BY <1>1, <1>2, <1>3, <1>7 DEF P2PInv, Owned, NoneMissing
<1> QED BY <1>5, <1>6, <1>7 DEF P2PInv, NodeInv

\* The peers' side: what a peer sends.
LEMMA PeerSends ==
    ASSUME P2PInv, NEW p \in Peer, NEW x,
           AnswerIds(p) \/ WrongIds(p) \/ AnswerItem(p) \/ NoItem(p) \/ AskIds(p)
           \/ AskItem(p, x) \/ Unasked(p, x) \/ Advertise(p, x)
    PROVE  P2PInv'
<1>0. theirs \in [Peer -> BlockId] /\ env \in Budgets
  BY DEF P2PInv
<1>1. \A y : Letter(TheItem(y)) /\ TheItem(y).type # "item_not_available"
  BY DEF Letter, TheItem
<1>2. CASE AnswerIds(p)
  <2>1. PICK a : /\ a = get_block_ids(ChainUpTo(theirs[p]), Head(w.wire[p]).synopsis)
                 /\ Answers(p, IdsAre(p, a.ids, a.remaining))
    BY <1>2 DEF AnswerIds
  <2>2. IsSeq(a.ids)
    BY <1>0, <2>1, AnswerIsSeq
  <2>3. Letter(IdsAre(p, a.ids, a.remaining)) /\ IdsAre(p, a.ids, a.remaining).type # "item_not_available"
    BY <2>2 DEF Letter, IdsAre
  <2> QED BY <1>0, <1>2, <2>1, <2>3, MailKeeps DEF AnswerIds
<1>3. CASE WrongIds(p)
  <2>1. PICK a \in {<<theirs[p]>>, <<theirs[p], theirs[p]>>}, n \in {0, PlausibleHeight + 1} :
                 Answers(p, IdsAre(p, a, n))
    BY <1>3 DEF WrongIds
  <2>2. IsSeq(a)
    <3>1. PICK t : t = theirs[p]
      OBVIOUS
    <3>2. <<t>> \in Seq({t}) /\ <<t, t>> \in Seq({t})
      OBVIOUS
    <3> QED BY <3>1, <3>2, IsSeqOf
  <2>3. Letter(IdsAre(p, a, n)) /\ IdsAre(p, a, n).type # "item_not_available"
    BY <2>2 DEF Letter, IdsAre
  <2> QED BY <1>0, <1>3, <2>1, <2>3, MailKeeps DEF WrongIds
<1>4. CASE AnswerItem(p)
  <2>1. Answers(p, TheItem(Head(w.wire[p]).id)) /\ theirs' = theirs /\ env' = env
    BY <1>4 DEF AnswerItem
  <2> QED BY <1>0, <1>1, <2>1, MailKeeps
<1>5. CASE NoItem(p)
  <2> DEFINE m == [type |-> "item_not_available", id |-> Head(w.wire[p]).id]
  <2>1. Answers(p, m) /\ "missing" \in env.faults /\ theirs' = theirs /\ env' = env
    BY <1>5 DEF NoItem
  <2>2. Letter(m)
    BY DEF Letter
  <2> HIDE DEF m
  <2> QED BY <1>0, <2>1, <2>2, MailKeeps
<1>6. CASE AskIds(p)
  <2> DEFINE m == [type |-> "fetch_blockchain_item_ids",
                   ids |-> get_blockchain_synopsis(ChainUpTo(theirs[p]), ZeroId, 0).ids]
  <2>1. Sends(p, m) /\ Spend("asks") /\ theirs' = theirs
    BY <1>6 DEF AskIds
  <2>2. Letter(m) /\ m.type # "item_not_available"
    BY DEF Letter
  <2> HIDE DEF m
  <2> QED BY <1>0, <2>1, <2>2, Spent, MailKeeps
<1>7. CASE AskItem(p, x)
  <2> DEFINE m == [type |-> "fetch_items", id |-> x]
  <2>1. Sends(p, m) /\ Spend("asks") /\ theirs' = theirs
    BY <1>7 DEF AskItem
  <2>2. Letter(m) /\ m.type # "item_not_available"
    BY DEF Letter
  <2> HIDE DEF m
  <2> QED BY <1>0, <2>1, <2>2, Spent, MailKeeps
<1>8. CASE Unasked(p, x)
  <2>1. Sends(p, TheItem(x)) /\ theirs' = theirs /\ env' = env
    BY <1>8 DEF Unasked
  <2> QED BY <1>0, <1>1, <2>1, MailKeeps
<1>9. CASE Advertise(p, x)
  <2> DEFINE m == [type |-> "item_ids_inventory", id |-> x]
  <2>1. Sends(p, m) /\ Spend("news") /\ theirs' = theirs
    BY <1>9 DEF Advertise
  <2>2. Letter(m) /\ m.type # "item_not_available"
    BY DEF Letter
  <2> HIDE DEF m
  <2> QED BY <1>0, <2>1, <2>2, Spent, MailKeeps
<1> QED BY <1>2, <1>3, <1>4, <1>5, <1>6, <1>7, <1>8, <1>9

\* A message is read.
LEMMA PeerReceives ==
    ASSUME P2PInv, NEW p \in Peer, Receive(p)
    PROVE  P2PInv'
<1> DEFINE m == Head(w.mail[p])
           u == [w EXCEPT !.mail[p] = Tail(@)]
<1>0. NodeInv(w) /\ theirs' = theirs /\ env' = env /\ w.mail[p] # <<>>
  BY DEF P2PInv, Receive
<1>1. PICK changed \in BOOLEAN : w' = on_message(u, p, m, changed)
  BY DEF Receive
<1>2. PICK s : s = w.mail[p]
  OBVIOUS
<1>3. IsSeq(s) /\ s # <<>> /\ \A i \in DOMAIN s : Letter(s[i])
  BY <1>0, <1>2 DEF NodeInv, Posted
<1>4. /\ 1 \in DOMAIN s /\ Head(s) = s[1]
      /\ \A i \in DOMAIN Tail(s) : i + 1 \in DOMAIN s /\ Tail(s)[i] = s[i + 1]
  BY <1>3 DEF IsSeq
<1>5. IsSeq(Tail(s))
  BY <1>3, SeqTail
<1>6. Letter(m) /\ m = s[1]
  BY <1>2, <1>3, <1>4
<1>7. /\ DOMAIN u = WorldFields /\ u.peers = w.peers /\ u.calls = w.calls
      /\ u.active = w.active /\ u.fresh = w.fresh /\ u.received = w.received
      /\ u.to_fetch = w.to_fetch /\ u.mail = [w.mail EXCEPT ![p] = Tail(s)]
  BY <1>0, <1>2 DEF NodeInv, Shape, WorldFields
<1> HIDE DEF u, m
<1>8. \A q \in Peer : u.mail[q] = IF q = p THEN Tail(s) ELSE w.mail[q]
  BY <1>0, <1>7 DEF NodeInv, Shape
<1>9. NodeInv(u) /\ (Owned(w) => Owned(u))
  <2>1. Posted(u.mail)
    BY <1>0, <1>3, <1>4, <1>5, <1>8 DEF NodeInv, Posted
  <2>2. Shape(u) /\ Loops(u) /\ Shared(u) /\ Waiting(u.calls)
    BY <1>0, <1>7 DEF NodeInv, Shape, Loops, Shared
  <2>3. Owned(w) => Owned(u)
    BY <1>7 DEF Owned
  <2> QED BY <2>1, <2>2, <2>3 DEF NodeInv
<1>10. NoneMissing(w.mail) => m.type # "item_not_available" /\ NoneMissing(u.mail)
  <2> SUFFICES ASSUME NoneMissing(w.mail) PROVE m.type # "item_not_available" /\ NoneMissing(u.mail)
    OBVIOUS
  <2>1. \A i \in DOMAIN s : s[i].type # "item_not_available"
    BY <1>2 DEF NoneMissing
  <2>2. \A i \in DOMAIN Tail(s) : Tail(s)[i].type # "item_not_available"
    BY <1>4, <2>1
  <2>3. m.type # "item_not_available"
    BY <1>4, <1>6, <2>1
  <2>4. ASSUME NEW q \in Peer, NEW i \in DOMAIN u.mail[q]
        PROVE  u.mail[q][i].type # "item_not_available"
    <3>1. CASE q = p
      BY <1>8, <2>2, <2>4, <3>1
    <3>2. CASE q # p
      BY <1>8, <2>4, <3>2 DEF NoneMissing
    <3> QED BY <3>1, <3>2
  <2> QED BY <2>3, <2>4 DEF NoneMissing
<1>11. /\ NodeInv(w') /\ Unread(u, w')
       /\ m.type # "item_not_available" => Keeps(u, w')
  BY <1>1, <1>6, <1>9, MessageKeeps
<1>12. NoneMissing(u.mail) => NoneMissing(w'.mail)
  BY <1>11, UnreadKeeps
<1> QED BY <1>0, <1>9, <1>10, <1>11, <1>12 DEF P2PInv, Keeps

\* Connections are made and closed, and a peer's chain changes.
LEMMA PeerSteps ==
    ASSUME P2PInv, NEW p \in Peer, NEW b,
           Connect(p) \/ Drop(p) \/ Close(p) \/ (b \in Block /\ Move(p, b))
    PROVE  P2PInv'
<1>0. NodeInv(w) /\ theirs \in [Peer -> BlockId] /\ env \in Budgets
  BY DEF P2PInv
<1>1. CASE Connect(p)
  <2>1. Keeps(w, w')
    BY <1>0, <1>1, PeerAdded DEF Connect
  <2> QED BY <1>0, <1>1, <2>1, Spent, StepKeeps DEF Connect
<1>2. CASE Drop(p)
  <2>1. Keeps(w, w')
    BY <1>0, <1>2, ConnectionClosed DEF Drop
  <2> QED BY <1>0, <1>2, <2>1, Spent, StepKeeps DEF Drop
<1>3. CASE Close(p)
  <2>1. Keeps(w, w')
    BY <1>0, <1>3, ConnectionClosed DEF Close
  <2> QED BY <1>0, <1>3, <2>1, StepKeeps DEF Close
<1>4. CASE b \in Block /\ Move(p, b)
  <2>1. w' = w /\ theirs' = [theirs EXCEPT ![p] = b] /\ Spend("moves")
    BY <1>4 DEF Move
  <2>2. theirs' \in [Peer -> BlockId] /\ Keeps(w, w')
    BY <1>0, <1>4, <2>1, KeepsSelf DEF BlockId
  <2> QED BY <1>0, <2>1, <2>2, Spent, StepKeeps
<1> QED BY <1>1, <1>2, <1>3, <1>4

\* The order of a loop over the active peers is a sequence of them.
LEMMA OrderIsSeq == ASSUME NEW order \in Orders PROVE order \in Seq(Active(w)) /\ order \in Seq(Peer)
<1>1. Active(w) \in SUBSET Peer
  BY DEF Active
<1>2. Cardinality(Active(w)) \in Nat
  BY <1>1, NodeAssumption, FS_Subset, FS_CardinalityType
<1>3. order \in [1..Cardinality(Active(w)) -> Active(w)]
  BY DEF Orders
<1> QED BY <1>1, <1>2, <1>3

\* The node's own tasks.
LEMMA NodeSteps ==
    ASSUME P2PInv, FetchSyncItems \/ FetchItems \/ AdvertiseInventory \/ ProcessBacklog
                   \/ SendSyncBlock \/ GoOn \/ Terminate
    PROVE  P2PInv'
<1>0. NodeInv(w) /\ theirs \in [Peer -> BlockId] /\ env \in Budgets
  BY DEF P2PInv
<1>1. CASE FetchSyncItems
  <2>1. Keeps(w, w')
    BY <1>0, <1>1, OrderIsSeq, SyncItemsFetched DEF FetchSyncItems
  <2> QED BY <1>0, <1>1, <2>1, StepKeeps DEF FetchSyncItems
<1>2. CASE FetchItems
  <2>1. Keeps(w, w')
    BY <1>0, <1>2, ItemsFetched DEF FetchItems
  <2> QED BY <1>0, <1>2, <2>1, StepKeeps DEF FetchItems
<1>3. CASE AdvertiseInventory
  <2>1. Keeps(w, w')
    BY <1>0, <1>3, InventoryAdvertised DEF AdvertiseInventory
  <2> QED BY <1>0, <1>3, <2>1, StepKeeps DEF AdvertiseInventory
<1>4. CASE ProcessBacklog
  <2>1. Keeps(w, w')
    BY <1>0, <1>4, BacklogProcessed DEF ProcessBacklog
  <2> QED BY <1>0, <1>4, <2>1, StepKeeps DEF ProcessBacklog
<1>5. CASE SendSyncBlock
  <2>1. Keeps(w, w')
    BY <1>0, <1>5, OrderIsSeq, SyncBlockSent DEF SendSyncBlock
  <2> QED BY <1>0, <1>5, <2>1, StepKeeps DEF SendSyncBlock
<1>6. CASE GoOn
  <2>1. Keeps(w, w')
    BY <1>0, <1>6, ResumeKeeps DEF GoOn
  <2> QED BY <1>0, <1>6, <2>1, StepKeeps DEF GoOn
<1>7. CASE Terminate
  <2>1. PICK order \in Orders, quiet \in SUBSET Active(w), late \in SUBSET Active(w) :
                 w' = terminate_inactive_connections_loop(w, order, quiet, late)
    BY <1>7 DEF Terminate
  <2>2. quiet \in SUBSET Peer
    BY DEF Active
  <2>3. Keeps(w, w')
    BY <1>0, <2>1, <2>2, InactiveTerminated
  <2> QED BY <1>0, <1>7, <2>3, StepKeeps DEF Terminate
<1> QED BY <1>1, <1>2, <1>3, <1>4, <1>5, <1>6, <1>7

\* Every step keeps it.
LEMMA P2PNext == P2PInv /\ [Next]_vars => P2PInv'
<1> SUFFICES ASSUME P2PInv, [Next]_vars PROVE P2PInv'
  OBVIOUS
<1>1. CASE UNCHANGED vars
  BY <1>1 DEF vars, P2PInv
<1>2. CASE Next
  BY <1>2, PeerSends, PeerReceives, PeerSteps, NodeSteps DEF Next
<1> QED BY <1>1, <1>2

\* The invariant of every behaviour.
LEMMA P2PAlways == Spec => []P2PInv
BY P2PInit, P2PNext, PTL DEF Spec

(***************************************************************************)
(* A sync block that is asked for is asked of exactly one connected peer,  *)
(* however requests, answers, waits for the delegate, lost connections and *)
(* timeouts interleave: for every number of peers and blocks, every        *)
(* backlog and every sequence of faults (request_sync_items_from_peer,     *)
(* process_block_message, on_connection_closed,                            *)
(* terminate_inactive_connections_loop).                                   *)
(***************************************************************************)
THEOREM SyncRequestsAreSound == Spec => []RequestsSound
<1>1. P2PInv => RequestsSound
  <2> SUFFICES ASSUME P2PInv PROVE RequestsSound
    OBVIOUS
  <2>1. AskedOfOne
    BY DEF P2PInv, NodeInv, Shared, AskedOfOne
  <2>2. ASSUME "missing" \notin env.faults
        PROVE  w.active = UNION {w.peers[p].sync : p \in Connected}
    <3>1. Owned(w)
      BY <2>2 DEF P2PInv
    <3>2. \A p \in Peer : w.peers[p].sync \subseteq w.active
      BY DEF P2PInv, NodeInv, Shared
    <3>3. \A p \in Peer : w.peers[p].sync # {} => p \in Connected
      BY DEF P2PInv, NodeInv, Shared, Connected
    <3> QED BY <3>1, <3>2, <3>3 DEF Owned, Connected
  <2> QED BY <2>1, <2>2 DEF RequestsSound, RequestsAreOwned
<1> QED
  BY <1>1, P2PAlways, PTL
=============================================================================
