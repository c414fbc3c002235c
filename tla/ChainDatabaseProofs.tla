------------------------ MODULE ChainDatabaseProofs ------------------------
(***************************************************************************)
(* Proofs about ChainDatabase for every block tree, every schedule, every  *)
(* choice of bad blocks and every value of the configuration constants.    *)
(*                                                                         *)
(* RunInv is the invariant of a running process: it says of every state on *)
(* the undo stack what UndoFollowsChain, UndoIsExact and                   *)
(* IrreversibleIsCommitted say, and adds what these need: no witness       *)
(* supports, and no validation object names, a height above the head of    *)
(* the state it is in; nothing above the head is committed; a switch in    *)
(* progress knows how far its branches reach.  ChainInv adds what a crash  *)
(* leaves in the shared memory and what a replay works on.                 *)
(***************************************************************************)
EXTENDS ChainDatabase, InductionLemmas

-----------------------------------------------------------------------------
(* The block tree, for every tree the headers allow, and what the operations of
   the fork database return and preserve. *)

(***************************************************************************)
(* By induction over the height: the ancestors of a block are closed under *)
(* ancestors, and there is exactly one of them at every height up to its   *)
(* own.                                                                    *)
(***************************************************************************)
LEMMA AncestorFacts ==
    /\ \A b \in BlockId : \A x \in ancestors[b] :
            ancestors[x] \subseteq ancestors[b] /\ block_num[x] <= block_num[b]
    /\ \A b \in BlockId : \A x, y \in ancestors[b] :
            block_num[x] = block_num[y] => x = y
    /\ \A b \in BlockId : \A n \in 0..block_num[b] :
            \E x \in ancestors[b] : block_num[x] = n
<1> DEFINE Closed(b) == \A x \in ancestors[b] :
                ancestors[x] \subseteq ancestors[b] /\ block_num[x] <= block_num[b]
           Single(b) == \A x, y \in ancestors[b] : block_num[x] = block_num[y] => x = y
           Full(b) == \A n \in 0..block_num[b] : \E x \in ancestors[b] : block_num[x] = n
           T == {n \in Nat : \A b \in BlockId :
                    block_num[b] = n => Closed(b) /\ Single(b) /\ Full(b)}
<1>0. /\ \A b \in BlockId : block_num[b] \in Nat /\ ancestors[b] \subseteq BlockId
      /\ \A b \in Block : previous[b] \in BlockId /\ b \in BlockId
                          /\ block_num[b] = block_num[previous[b]] + 1
                          /\ ancestors[b] = {b} \cup ancestors[previous[b]]
      /\ ancestors[ZeroId] = {ZeroId} /\ block_num[ZeroId] = 0
      /\ \A b \in BlockId : b \in Block \/ b = ZeroId
  BY HeaderAssumption, AncestorAssumption DEF BlockId
<1>1. 0 \in T
  <2> SUFFICES ASSUME NEW b \in BlockId, block_num[b] = 0
               PROVE  Closed(b) /\ Single(b) /\ Full(b)
    OBVIOUS
  <2>1. b = ZeroId
    BY <1>0
  <2> QED BY <1>0, <2>1
<1>2. ASSUME NEW n \in Nat, n \in T PROVE n + 1 \in T
  <2> SUFFICES ASSUME NEW b \in BlockId, block_num[b] = n + 1
               PROVE  Closed(b) /\ Single(b) /\ Full(b)
    OBVIOUS
  <2>1. b \in Block
    BY <1>0
  <2>2. PICK p \in BlockId : p = previous[b]
    BY <1>0, <2>1
  <2>3. block_num[p] = n /\ ancestors[b] = {b} \cup ancestors[p]
    BY <1>0, <2>1, <2>2
  <2>4. Closed(p) /\ Single(p) /\ Full(p)
    BY <1>2, <2>3
  <2>5. \A x \in ancestors[p] : x \in BlockId /\ block_num[x] \in Nat /\ block_num[x] <= n
    BY <1>0, <2>3, <2>4
  <2>6. Closed(b)
    BY <2>3, <2>4, <2>5
  <2>7. Single(b)
    BY <2>3, <2>4, <2>5
  <2>8. Full(b)
    <3> SUFFICES ASSUME NEW m \in 0..(n + 1)
                 PROVE  \E x \in ancestors[b] : block_num[x] = m
      OBVIOUS
    <3>1. CASE m = n + 1
      BY <2>3, <3>1
    <3>2. CASE m \in 0..n
      BY <2>3, <2>4, <3>2
    <3> QED BY <3>1, <3>2
  <2> QED BY <2>6, <2>7, <2>8
<1>3. \A n \in Nat : n \in T
  <2> HIDE DEF T
  <2> QED BY <1>1, <1>2, NatInduct
<1> QED
  BY <1>0, <1>3

\* Heights and ancestors are what their types say.
LEMMA TreeTypes ==
    /\ \A b \in BlockId : block_num[b] \in Nat /\ ancestors[b] \subseteq BlockId
    /\ \A b \in BlockId : b \in ancestors[b]
    /\ \A b \in Block : previous[b] \in BlockId /\ b \in BlockId
    /\ \A b \in BlockId : block_num[b] # 0 => b \in Block
<1>1. \A b \in BlockId : block_num[b] \in Nat
  BY HeaderAssumption
<1>2. \A b \in BlockId : ancestors[b] \subseteq BlockId
  BY AncestorAssumption
<1>3. \A b \in BlockId : b \in ancestors[b]
  BY AncestorAssumption DEF BlockId
<1> QED
  BY <1>1, <1>2, <1>3, HeaderAssumption DEF BlockId

\* Only ZeroId has height 0.
LEMMA ZeroHeight == \A b \in BlockId : block_num[b] = 0 <=> b = ZeroId
BY HeaderAssumption, TreeTypes DEF BlockId

\* Of two ancestors of a block, the lower one is an ancestor of the other.
LEMMA Comparable ==
    ASSUME NEW b \in BlockId, NEW x \in ancestors[b], NEW y \in ancestors[b],
           block_num[x] <= block_num[y]
    PROVE  x \in ancestors[y]
<1>1. x \in BlockId /\ y \in BlockId
  BY TreeTypes
<1>2. block_num[x] \in 0..block_num[y]
  BY <1>1, TreeTypes
<1>3. PICK z \in ancestors[y] : block_num[z] = block_num[x]
  BY <1>1, <1>2, AncestorFacts
<1>4. z \in ancestors[b]
  BY <1>3, AncestorFacts
<1> QED
  BY <1>3, <1>4, AncestorFacts

\* A child has its parent's ancestors, and is one higher.
LEMMA Child ==
    ASSUME NEW b \in Block
    PROVE  /\ ancestors[previous[b]] \subseteq ancestors[b]
           /\ block_num[b] = block_num[previous[b]] + 1
           /\ previous[b] \in ancestors[b]
BY HeaderAssumption, AncestorAssumption, TreeTypes

\* At(b, n) is the ancestor at height n, when there is one.
LEMMA AtIs ==
    ASSUME NEW b \in BlockId, NEW n \in 0..block_num[b]
    PROVE  /\ At(b, n) \in ancestors[b] /\ At(b, n) \in BlockId
           /\ block_num[At(b, n)] = n
<1>1. \E x \in ancestors[b] : block_num[x] = n
  BY AncestorFacts
<1>2. At(b, n) \in ancestors[b] /\ block_num[At(b, n)] = n
  BY <1>1 DEF At
<1> QED
  BY <1>2, TreeTypes

-----------------------------------------------------------------------------
(* The fork database.                                                      *)

\* push_block keeps the type, and leaves a head.
LEMMA PushBlockType ==
    ASSUME NEW f \in ForkDb, NEW b \in Block
    PROVE  push_block(f, b) \in ForkDb /\ push_block(f, b).head \in Block
BY DEF push_block, ForkDb, BlockId

\* pop_block moves a head to its parent.
LEMMA PopBlockType ==
    ASSUME NEW f \in ForkDb, f.head # ZeroId
    PROVE  pop_block(f) \in ForkDb
<1>1. f.head \in Block /\ previous[f.head] \in BlockId
  BY TreeTypes DEF ForkDb, BlockId
<1>2. (previous[f.head] \in f.link) \in BOOLEAN
  OBVIOUS
<1> QED
  BY <1>1, <1>2 DEF pop_block, ForkDb

\* The operations that only shrink the index, or set the head.
LEMMA SetHeadType ==
    ASSUME NEW f \in ForkDb, NEW b \in BlockId PROVE set_head(f, b) \in ForkDb
<1>1. (b \in f.link) \in BOOLEAN
  OBVIOUS
<1> QED
  BY <1>1 DEF set_head, ForkDb

\* remove only takes items out of _index.
LEMMA RemoveType ==
    ASSUME NEW f \in ForkDb, NEW S PROVE remove(f, S) \in ForkDb
BY DEF remove, ForkDb

\* set_max_size only takes items out of _index.
LEMMA SetMaxSizeType ==
    ASSUME NEW f \in ForkDb, NEW s \in Nat PROVE set_max_size(f, s) \in ForkDb
BY DEF set_max_size, ForkDb

\* A weak pointer that expires takes nothing else with it.
LEMMA ExpireType ==
    ASSUME NEW f \in ForkDb PROVE Expire(f) \in ForkDb
BY DEF Expire, ForkDb

\* A block found on the main branch is a block, or null.
LEMMA FetchType ==
    ASSUME NEW f \in ForkDb, NEW held, NEW n \in Nat
    PROVE  fetch_block_on_main_branch_by_number(f, held, n) \in BlockId
<1>1. f.head \in BlockId /\ f.index \subseteq Block
  BY DEF ForkDb
<1>2. walk_main_branch_to_num(f, held, n) \in BlockId
  <2>1. CASE n > block_num[f.head]
    BY <2>1 DEF walk_main_branch_to_num, BlockId
  <2>2. CASE ~(n > block_num[f.head])
    <3>1. n \in 0..block_num[f.head]
      BY <2>2, <1>1, TreeTypes
    <3>2. At(f.head, n) \in BlockId
      BY <3>1, <1>1, AtIs
    <3> QED BY <3>2 DEF walk_main_branch_to_num, BlockId
  <2> QED BY <2>1, <2>2
<1> QED
  BY <1>1, <1>2 DEF fetch_block_on_main_branch_by_number, BlockId

\* Two branches part at a height that both of them have.
LEMMA BranchNumIs ==
    ASSUME NEW x \in Block, NEW y \in Block
    PROVE  /\ BranchNum(x, y) \in Nat \ {0}
           /\ BranchNum(x, y) <= block_num[x]
           /\ BranchNum(x, y) <= block_num[y]
<1> DEFINE top == Smaller(block_num[x], block_num[y])
           Same == {n \in 1..top : SameParent(x, y, n)}
<1>1. block_num[x] \in Nat \ {0} /\ block_num[y] \in Nat \ {0}
  BY TreeTypes, Child
<1>2. top \in Nat \ {0} /\ top <= block_num[x] /\ top <= block_num[y]
  BY <1>1 DEF Smaller
<1>3. ASSUME NEW z \in Block PROVE previous[At(z, 1)] = ZeroId
  <2>1. At(z, 1) \in BlockId /\ block_num[At(z, 1)] = 1
    BY AtIs, TreeTypes, Child
  <2>2. At(z, 1) \in Block
    BY <2>1, TreeTypes
  <2>3. previous[At(z, 1)] \in BlockId /\ block_num[previous[At(z, 1)]] = 0
    BY <2>1, <2>2, Child, TreeTypes
  <2> QED BY <2>3, ZeroHeight
<1>4. 1 \in Same
  BY <1>2, <1>3 DEF SameParent
<1>5. Same \in SUBSET Nat /\ \A k \in Same : k <= top
  BY <1>2
<1> HIDE DEF Same
<1>6. PICK n \in Same : \A k \in Same : k <= n
  BY <1>2, <1>4, <1>5, GreatestExists
<1>7. n \in 1..top /\ SameParent(x, y, n)
  BY <1>6 DEF Same
<1>8. \A m \in (n + 1)..top : ~SameParent(x, y, m)
  BY <1>2, <1>6, <1>7 DEF Same
<1>9. BranchNum(x, y) \in 1..top
  BY <1>7, <1>8 DEF BranchNum
<1> HIDE DEF top
<1> QED
  BY <1>1, <1>2, <1>9

-----------------------------------------------------------------------------
(* The chain database. *)

ChainType(c) ==
    c \in [st : State, undo : [Sessions(c) -> State], rev : Nat, com : Nat]

\* No witness supports and no validation object names a block above the head.
Bounded(s) ==
    /\ \A w \in Witness : s.sup[w] <= block_num[s.head]
    /\ \A e \in s.bpv : block_num[e.id] <= block_num[s.head]

(***************************************************************************)
(* A state on the undo stack and the next: the same, as far as what the    *)
(* witnesses have signed goes, or the next block signed on top.            *)
(***************************************************************************)
NextState(below, above) ==
    IF above.head = below.head
    THEN above.sup = below.sup /\ above.run = below.run
    ELSE /\ previous[above.head] = below.head
         /\ above.sup = Signed(below, above.head).sup
         /\ above.run = Signed(below, above.head).run

ExactUndo(c) == \A r \in Sessions(c) : NextState(c.undo[r], StateAt(c, r + 1))

(***************************************************************************)
(* The undo stack of c follows the branch of its head, with k sessions on  *)
(* top of the one of the head block, and the block x is below all of it.   *)
(***************************************************************************)
GoodChain(c, k, x) ==
    /\ ChainType(c)
    /\ c.rev = block_num[c.st.head] + k
    /\ c.com <= block_num[c.st.head]
    /\ Bounded(c.st) /\ c.st.lib <= c.com
    /\ \A r \in Sessions(c) :
            /\ c.undo[r].head \in ancestors[c.st.head]
            /\ block_num[c.undo[r].head] = r - 1
            /\ Bounded(c.undo[r])
            /\ c.undo[r].lib <= c.com
    /\ x \in ancestors[c.st.head] /\ block_num[x] <= c.com
    /\ ExactUndo(c)

(***************************************************************************)
(* A state without sessions, whatever the revision says: what undo_all     *)
(* leaves, and what a replay works on until it sets the revision.          *)
(***************************************************************************)
Settled(c) ==
    /\ ChainType(c) /\ c.com = c.rev
    /\ Bounded(c.st) /\ c.st.lib <= block_num[c.st.head]

\* _apply_block runs on either: k sessions are on top, or it is a replay.
Replaying == 2

SoundChain(c, k, x) == IF k = Replaying THEN Settled(c) ELSE GoodChain(c, k, x)

-----------------------------------------------------------------------------
(***************************************************************************)
(* The undo stack.                                                         *)
(***************************************************************************)

\* The fields of a well-typed chain state.
LEMMA ChainFields ==
    ASSUME NEW c, ChainType(c)
    PROVE  /\ c.st \in State /\ c.rev \in Nat /\ c.com \in Nat
           /\ c.undo \in [Sessions(c) -> State]
           /\ c.st.head \in BlockId /\ block_num[c.st.head] \in Nat
           /\ c.st.lib \in Nat
<1>1. c.st \in State /\ c.rev \in Nat /\ c.com \in Nat /\ c.undo \in [Sessions(c) -> State]
  BY DEF ChainType
<1>2. c.st.head \in BlockId /\ c.st.lib \in Nat
  BY <1>1 DEF State
<1> QED
  BY <1>1, <1>2, TreeTypes

\* What a chain has either way.
LEMMA SoundFacts ==
    ASSUME NEW c, NEW k \in {0, 1, Replaying}, NEW x, SoundChain(c, k, x)
    PROVE  ChainType(c) /\ Bounded(c.st) /\ c.st.lib <= block_num[c.st.head]
<1>1. CASE k = Replaying
  BY <1>1 DEF SoundChain, Settled
<1>2. CASE k # Replaying
  <2>1. GoodChain(c, k, x)
    BY <1>2 DEF SoundChain
  <2>2. ChainType(c) /\ Bounded(c.st) /\ c.st.lib <= c.com /\ c.com <= block_num[c.st.head]
    BY <2>1 DEF GoodChain
  <2> QED BY <2>2, ChainFields
<1> QED
  BY <1>1, <1>2

\* start_undo_session adds one session on top.
LEMMA SessionGood ==
    ASSUME NEW c, NEW x, GoodChain(c, 0, x)
    PROVE  /\ GoodChain(start_undo_session(c), 1, x)
           /\ start_undo_session(c).st = c.st
<1> DEFINE d == start_undo_session(c)
<1>1. ChainType(c)
  BY DEF GoodChain
<1>2. d = [st |-> c.st, rev |-> c.rev + 1, com |-> c.com,
           undo |-> [r \in (c.com + 1)..(c.rev + 1) |->
                        IF r = c.rev + 1 THEN c.st ELSE c.undo[r]]]
  BY DEF start_undo_session
<1> HIDE DEF d
<1>3. /\ d.st = c.st /\ d.rev = c.rev + 1 /\ d.com = c.com
      /\ Sessions(d) = (c.com + 1)..(c.rev + 1)
      /\ DOMAIN d.undo = Sessions(d)
  BY <1>2 DEF Sessions
<1>4. \A r \in Sessions(d) : \/ d.undo[r] = c.st /\ r = c.rev + 1
                             \/ d.undo[r] = c.undo[r] /\ r \in Sessions(c)
  BY <1>2, <1>3, <1>1, ChainFields DEF Sessions
<1>5. d.undo \in [Sessions(d) -> State]
  BY <1>1, <1>2, <1>3, <1>4, ChainFields
<1>6. ChainType(d)
  BY <1>1, <1>2, <1>3, <1>5, ChainFields DEF ChainType
<1>7. c.rev = block_num[c.st.head] /\ c.st.head \in ancestors[c.st.head]
  BY <1>1, ChainFields, TreeTypes DEF GoodChain
<1>8. ASSUME NEW r \in Sessions(d)
      PROVE  /\ d.undo[r].head \in ancestors[d.st.head]
             /\ block_num[d.undo[r].head] = r - 1
             /\ Bounded(d.undo[r])
             /\ d.undo[r].lib <= d.com
  <2>1. CASE d.undo[r] = c.st /\ r = c.rev + 1
    BY <2>1, <1>1, <1>3, <1>7, ChainFields DEF GoodChain
  <2>2. CASE d.undo[r] = c.undo[r] /\ r \in Sessions(c)
    BY <2>2, <1>3 DEF GoodChain
  <2> QED BY <2>1, <2>2, <1>4
<1>9. ExactUndo(d)
  <2> SUFFICES ASSUME NEW r \in Sessions(d) PROVE NextState(d.undo[r], StateAt(d, r + 1))
    BY DEF ExactUndo
  <2>1. CASE r = c.rev + 1
    <3>1. d.undo[r] = c.st /\ StateAt(d, r + 1) = c.st
      BY <1>1, <1>2, <1>3, <2>1, ChainFields DEF StateAt
    <3> QED BY <3>1 DEF NextState
  <2>2. CASE r # c.rev + 1
    <3>1. d.undo[r] = c.undo[r] /\ r \in Sessions(c)
      BY <1>4, <2>2
    <3>2. r + 1 \in Sessions(d) /\ r + 1 # d.rev + 1
      BY <1>1, <1>3, <3>1, ChainFields DEF Sessions
    <3>3. StateAt(d, r + 1) = StateAt(c, r + 1)
      BY <1>2, <1>3, <3>2 DEF StateAt
    <3> QED BY <3>1, <3>3 DEF GoodChain, ExactUndo
  <2> QED BY <2>1, <2>2
<1>10. GoodChain(d, 1, x)
  BY <1>1, <1>3, <1>6, <1>7, <1>8, <1>9, ChainFields DEF GoodChain
<1> QED
  BY <1>3, <1>10 DEF d

\* undo removes the topmost session, if one is left.
LEMMA UndoGood ==
    ASSUME NEW c, NEW k \in {0, 1}, NEW x, GoodChain(c, k, x)
    PROVE  GoodChain(undo(c), 0, x)
<1>1. ChainType(c)
  BY DEF GoodChain
<1>2. CASE c.com >= c.rev
  <2>1. undo(c) = c
    BY <1>2 DEF undo
  <2>2. k = 0
    BY <1>1, <1>2, ChainFields DEF GoodChain
  <2> QED BY <2>1, <2>2
<1>3. CASE ~(c.com >= c.rev)
  <2> DEFINE d == undo(c)
  <2>1. d = [st |-> c.undo[c.rev], rev |-> c.rev - 1, com |-> c.com,
             undo |-> [r \in (c.com + 1)..(c.rev - 1) |-> c.undo[r]]]
    BY <1>3 DEF undo
  <2> HIDE DEF d
  <2>2. /\ d.st = c.undo[c.rev] /\ d.rev = c.rev - 1 /\ d.com = c.com
        /\ Sessions(d) = (c.com + 1)..(c.rev - 1)
        /\ \A r \in Sessions(d) : d.undo[r] = c.undo[r]
    BY <2>1 DEF Sessions
  <2>3. c.rev \in Sessions(c) /\ Sessions(d) \subseteq Sessions(c)
    BY <1>1, <1>3, <2>2, ChainFields DEF Sessions
  <2>4. d.st \in State /\ d.undo \in [Sessions(d) -> State] /\ d.rev \in Nat /\ d.com \in Nat
    BY <1>1, <1>3, <2>1, <2>2, <2>3, ChainFields
  <2>5. ChainType(d)
    BY <2>1, <2>4 DEF ChainType
  <2>6. /\ d.st.head \in ancestors[c.st.head] /\ block_num[d.st.head] = c.rev - 1
        /\ Bounded(d.st) /\ d.st.lib <= d.com
    BY <2>2, <2>3 DEF GoodChain
  <2>7. ASSUME NEW r \in Sessions(d)
        PROVE  /\ d.undo[r].head \in ancestors[d.st.head]
               /\ block_num[d.undo[r].head] = r - 1
               /\ Bounded(d.undo[r])
               /\ d.undo[r].lib <= d.com
    <3>1. d.undo[r] = c.undo[r] /\ r \in Sessions(c) /\ r <= c.rev
      BY <2>2, <2>3, <1>1, ChainFields
    <3>2. c.undo[r].head \in ancestors[c.st.head] /\ block_num[c.undo[r].head] = r - 1
      BY <3>1 DEF GoodChain
    <3>3. block_num[c.undo[r].head] <= block_num[d.st.head]
      BY <2>6, <3>1, <3>2, <1>1, <2>2, ChainFields DEF Sessions
    <3>4. c.undo[r].head \in ancestors[d.st.head]
      BY <1>1, <2>6, <3>2, <3>3, ChainFields, Comparable
    <3> QED BY <3>1, <3>2, <3>4, <2>2 DEF GoodChain
  <2>8. x \in ancestors[d.st.head] /\ block_num[x] <= d.com
    <3>1. x \in ancestors[c.st.head] /\ block_num[x] <= c.com /\ block_num[x] \in Nat
      BY <1>1, ChainFields, TreeTypes DEF GoodChain
    <3>2. block_num[x] <= block_num[d.st.head]
      BY <3>1, <2>6, <1>1, <1>3, ChainFields
    <3> QED BY <1>1, <2>2, <2>6, <3>1, <3>2, ChainFields, Comparable
  <2>9. d.rev = block_num[d.st.head] + 0 /\ d.com <= block_num[d.st.head]
    BY <1>1, <1>3, <2>2, <2>4, <2>6, ChainFields
  <2>10. ExactUndo(d)
    <3> SUFFICES ASSUME NEW r \in Sessions(d) PROVE NextState(d.undo[r], StateAt(d, r + 1))
      BY DEF ExactUndo
    <3>1. r \in Sessions(c) /\ d.undo[r] = c.undo[r] /\ r + 1 # c.rev + 1
      BY <1>1, <2>2, <2>3, ChainFields
    <3>2. r + 1 # c.rev => r + 1 \in Sessions(d)
      BY <1>1, <2>2, ChainFields
    <3>3. StateAt(d, r + 1) = StateAt(c, r + 1)
      <4>1. CASE r + 1 = c.rev
        BY <1>1, <2>2, <4>1, ChainFields DEF StateAt
      <4>2. CASE r + 1 # c.rev
        BY <1>1, <2>2, <3>1, <3>2, <4>2, ChainFields DEF StateAt
      <4> QED BY <4>1, <4>2
    <3> QED BY <3>1, <3>3 DEF GoodChain, ExactUndo
  <2>11. GoodChain(d, 0, x)
    BY <2>9, <2>5, <2>6, <2>7, <2>8, <2>10 DEF GoodChain
  <2> QED BY <2>11 DEF d
<1> QED
  BY <1>2, <1>3

\* The fields of a state.
LEMMA StateFields ==
    ASSUME NEW s \in State
    PROVE  /\ s.head \in BlockId /\ s.lib \in Nat
           /\ s.run \in [Witness -> Nat] /\ s.sup \in [Witness -> Nat]
           /\ s.bpv \in SUBSET Validation
           /\ \A e \in s.bpv : e.id \in Block /\ block_num[e.id] \in Nat
<1>1. /\ s.head \in BlockId /\ s.lib \in Nat
      /\ s.run \in [Witness -> Nat] /\ s.sup \in [Witness -> Nat]
      /\ s.bpv \in SUBSET Validation
  BY DEF State
<1>2. \A e \in Validation : e.id \in Block
  BY DEF Validation
<1> QED
  BY <1>1, <1>2, TreeTypes

\* Of two states that signed the same, each will do as the upper one.
LEMMA SameStackExact ==
    ASSUME NEW c, ExactUndo(c), NEW d, Sessions(d) \subseteq Sessions(c), d.rev = c.rev,
           \A r \in Sessions(d) : d.undo[r] = c.undo[r],
           \A r \in Sessions(d) : r # d.rev => r + 1 \in Sessions(d),
           d.st.head = c.st.head, d.st.sup = c.st.sup, d.st.run = c.st.run
    PROVE  ExactUndo(d)
<1> SUFFICES ASSUME NEW r \in Sessions(d) PROVE NextState(d.undo[r], StateAt(d, r + 1))
  BY DEF ExactUndo
<1>1. NextState(c.undo[r], StateAt(c, r + 1)) /\ d.undo[r] = c.undo[r]
  BY DEF ExactUndo
<1>2. CASE r + 1 = c.rev + 1
  <2>1. StateAt(d, r + 1) = d.st /\ StateAt(c, r + 1) = c.st
    BY <1>2 DEF StateAt
  <2> QED BY <1>1, <2>1 DEF NextState
<1>3. CASE r + 1 # c.rev + 1
  <2>1. StateAt(d, r + 1) = StateAt(c, r + 1)
    BY <1>3 DEF StateAt
  <2> QED BY <1>1, <2>1
<1> QED
  BY <1>2, <1>3

\* The current state may change as long as the head does not.
LEMMA ReplaceState ==
    ASSUME NEW c, NEW k \in {0, 1}, NEW x, GoodChain(c, k, x),
           NEW s \in State, s.head = c.st.head, Bounded(s), s.lib <= c.com,
           s.sup = c.st.sup, s.run = c.st.run
    PROVE  /\ GoodChain([c EXCEPT !.st = s], k, x)
           /\ [c EXCEPT !.st = s].st = s
<1> DEFINE d == [c EXCEPT !.st = s]
<1>1. /\ d.st = s /\ d.rev = c.rev /\ d.com = c.com /\ d.undo = c.undo
      /\ Sessions(d) = Sessions(c)
  BY DEF GoodChain, ChainType, Sessions
<1>2. ChainType(d)
  <2>1. d \in [st : State, undo : [Sessions(c) -> State], rev : Nat, com : Nat]
    BY DEF GoodChain, ChainType
  <2> QED BY <2>1, <1>1 DEF ChainType
<1> HIDE DEF d
<1>3. ExactUndo(d)
  <2>1. c.rev \in Nat /\ c.com \in Nat /\ ExactUndo(c)
    BY ChainFields DEF GoodChain
  <2>2. \A r \in Sessions(d) : r # d.rev => r + 1 \in Sessions(d)
    BY <1>1, <2>1 DEF Sessions
  <2> QED BY <1>1, <2>1, <2>2, SameStackExact
<1>4. GoodChain(d, k, x)
  BY <1>1, <1>2, <1>3 DEF GoodChain
<1> QED
  BY <1>1, <1>4 DEF d

(***************************************************************************)
(* Making a height up to the head's irreversible: last_irreversible and    *)
(* the commit move together.                                               *)
(***************************************************************************)
LEMMA CommitGood ==
    ASSUME NEW c, NEW k \in {0, 1}, NEW x, GoodChain(c, k, x),
           NEW n \in Nat, n <= block_num[c.st.head]
    PROVE  /\ GoodChain(commit([c EXCEPT !.st.lib = n], n), k, x)
           /\ commit([c EXCEPT !.st.lib = n], n).st = [c.st EXCEPT !.lib = n]
<1> DEFINE e == [c EXCEPT !.st.lib = n]
           s == [c.st EXCEPT !.lib = n]
           d == commit(e, n)
<1>0. ChainType(c)
  BY DEF GoodChain
<1>1. e.st = s /\ e.rev = c.rev /\ e.com = c.com /\ e.undo = c.undo
  BY <1>0 DEF ChainType
<1>2. /\ s \in State /\ s.head = c.st.head /\ s.lib = n /\ s.sup = c.st.sup /\ s.bpv = c.st.bpv
      /\ s.run = c.st.run
  BY <1>0, ChainFields DEF State
<1>3. Bounded(s)
  BY <1>2 DEF GoodChain, Bounded
<1>4. CASE n <= c.com
  <2>1. d = e
    BY <1>1, <1>4 DEF commit
  <2>2. e = [c EXCEPT !.st = s]
    OBVIOUS
  <2> HIDE DEF s, d, e
  <2>3. GoodChain(d, k, x) /\ d.st = s
    BY <1>2, <1>3, <1>4, <2>1, <2>2, ReplaceState
  <2> QED BY <2>3 DEF d, e, s
<1>5. CASE ~(n <= c.com)
  <2>1. c.rev >= n /\ Smaller(n, c.rev) = n
    BY <1>0, ChainFields DEF GoodChain, Smaller
  <2>2. d = [st |-> s, rev |-> c.rev, com |-> n, undo |-> [r \in (n + 1)..c.rev |-> c.undo[r]]]
    <3> HIDE DEF s, e
    <3> QED BY <1>1, <1>5, <2>1 DEF commit
  <2> HIDE DEF d, e, s
  <2>3. /\ d.st = s /\ d.rev = c.rev /\ d.com = n
        /\ Sessions(d) = (n + 1)..c.rev
        /\ \A r \in Sessions(d) : d.undo[r] = c.undo[r]
    BY <2>2 DEF Sessions
  <2>4. Sessions(d) \subseteq Sessions(c)
    BY <1>0, <1>5, <2>3, ChainFields DEF Sessions
  <2>5. d.undo \in [Sessions(d) -> State]
    BY <1>0, <2>2, <2>3, <2>4, ChainFields
  <2>6. ChainType(d)
    BY <1>0, <1>2, <2>2, <2>3, <2>5, ChainFields DEF ChainType
  <2>7. ASSUME NEW r \in Sessions(d)
        PROVE  /\ d.undo[r].head \in ancestors[d.st.head]
               /\ block_num[d.undo[r].head] = r - 1
               /\ Bounded(d.undo[r])
               /\ d.undo[r].lib <= d.com
    <3>1. c.undo[r].lib \in Nat /\ c.undo[r].lib <= c.com
      BY <1>0, <2>4, ChainFields, StateFields DEF GoodChain
    <3>2. c.undo[r].lib <= n
      BY <3>1, <1>0, <1>5, ChainFields
    <3> QED BY <1>2, <2>3, <2>4, <3>2 DEF GoodChain
  <2>8. x \in ancestors[d.st.head] /\ block_num[x] <= d.com
    BY <1>0, <1>2, <1>5, <2>3, ChainFields, TreeTypes DEF GoodChain
  <2>9. ExactUndo(d)
    <3>1. \A r \in Sessions(d) : r # d.rev => r + 1 \in Sessions(d)
      BY <1>0, <2>3, ChainFields
    <3> QED BY <1>2, <2>3, <2>4, <3>1, SameStackExact DEF GoodChain
  <2>10. GoodChain(d, k, x)
    BY <1>2, <1>3, <2>3, <2>6, <2>7, <2>8, <2>9 DEF GoodChain
  <2> QED BY <2>3, <2>10 DEF d, e, s
<1> QED
  BY <1>4, <1>5

\* The same outside any session: the current state may change ...
LEMMA ReplaceSettled ==
    ASSUME NEW c, Settled(c), NEW s \in State, Bounded(s), s.lib <= block_num[s.head]
    PROVE  Settled([c EXCEPT !.st = s]) /\ [c EXCEPT !.st = s].st = s
<1> DEFINE d == [c EXCEPT !.st = s]
<1>1. /\ d.st = s /\ d.rev = c.rev /\ d.com = c.com /\ d.undo = c.undo
      /\ Sessions(d) = Sessions(c)
  BY DEF Settled, ChainType, Sessions
<1>2. ChainType(d)
  <2>1. d \in [st : State, undo : [Sessions(c) -> State], rev : Nat, com : Nat]
    BY DEF Settled, ChainType
  <2> QED BY <2>1, <1>1 DEF ChainType
<1> HIDE DEF d
<1>3. Settled(d)
  BY <1>1, <1>2 DEF Settled
<1> QED
  BY <1>1, <1>3 DEF d

\* ... and the commit finds no session.
LEMMA CommitSettled ==
    ASSUME NEW c, Settled(c), NEW n \in Nat, n <= block_num[c.st.head]
    PROVE  /\ Settled(commit([c EXCEPT !.st.lib = n], n))
           /\ commit([c EXCEPT !.st.lib = n], n).st = [c.st EXCEPT !.lib = n]
<1> DEFINE e == [c EXCEPT !.st.lib = n]
           s == [c.st EXCEPT !.lib = n]
           d == commit(e, n)
<1>0. ChainType(c) /\ c.com = c.rev
  BY DEF Settled
<1>1. e = [c EXCEPT !.st = s]
  OBVIOUS
<1>2. /\ s \in State /\ s.head = c.st.head /\ s.lib = n /\ s.sup = c.st.sup /\ s.bpv = c.st.bpv
  BY <1>0, ChainFields DEF State
<1>3. Bounded(s)
  BY <1>2 DEF Settled, Bounded
<1> HIDE DEF s
<1>4. Settled(e) /\ e.st = s
  BY <1>1, <1>2, <1>3, ReplaceSettled
<1>5. e.rev = c.rev /\ e.com = c.com
  BY <1>0 DEF ChainType
<1> HIDE DEF e, d
<1>6. CASE n <= c.com
  <2>1. d = e
    BY <1>5, <1>6 DEF commit, d
  <2> QED BY <1>4, <2>1 DEF d, e, s
<1>7. CASE ~(n <= c.com)
  <2>1. Smaller(n, c.rev) = c.rev
    BY <1>0, <1>7, ChainFields DEF Smaller
  <2>2. d = [st |-> s, rev |-> c.rev, com |-> c.rev, undo |-> [r \in (c.rev + 1)..c.rev |-> e.undo[r]]]
    BY <1>4, <1>5, <1>7, <2>1 DEF commit, d
  <2>3. d.st = s /\ d.rev = c.rev /\ d.com = c.rev /\ Sessions(d) = (c.rev + 1)..c.rev
    BY <2>2 DEF Sessions
  <2>4. (c.rev + 1)..c.rev = {}
    BY <1>0, ChainFields
  <2>5. ChainType(d)
    BY <1>0, <1>2, <2>2, <2>3, <2>4, ChainFields DEF ChainType
  <2>6. Settled(d)
    BY <1>2, <1>3, <2>3, <2>5 DEF Settled
  <2> QED BY <2>3, <2>6 DEF d, e, s
<1> QED
  BY <1>6, <1>7

\* Making a height irreversible, either way.
LEMMA CommitSound ==
    ASSUME NEW c, NEW k \in {0, 1, Replaying}, NEW x, SoundChain(c, k, x),
           NEW n \in Nat, n <= block_num[c.st.head]
    PROVE  /\ SoundChain(commit([c EXCEPT !.st.lib = n], n), k, x)
           /\ commit([c EXCEPT !.st.lib = n], n).st = [c.st EXCEPT !.lib = n]
<1>1. CASE k = Replaying
  BY <1>1, CommitSettled DEF SoundChain
<1>2. CASE k # Replaying
  <2>1. GoodChain(c, k, x) /\ k \in {0, 1}
    BY <1>2 DEF SoundChain
  <2>2. /\ GoodChain(commit([c EXCEPT !.st.lib = n], n), k, x)
        /\ commit([c EXCEPT !.st.lib = n], n).st = [c.st EXCEPT !.lib = n]
    BY <2>1, CommitGood
  <2> QED BY <1>2, <2>2 DEF SoundChain
<1> QED
  BY <1>1, <1>2

\* What a block makes of the state of its parent.
LEMMA SignedState ==
    ASSUME NEW st \in State, Bounded(st), NEW b \in Block, previous[b] = st.head
    PROVE  /\ Signed(st, b) \in State /\ Bounded(Signed(st, b))
           /\ Signed(st, b).head = b /\ Signed(st, b).lib = st.lib
           /\ block_num[b] = block_num[st.head] + 1
<1> DEFINE s == Signed(st, b)
           run == [w \in Witness |-> IF w \in skipped[b] THEN 0 ELSE st.run[w]]
<1>1. producer[b] \in Witness /\ b \in BlockId /\ block_num[b] \in Nat /\ block_num[st.head] \in Nat
  BY ScheduleAssumption, TreeTypes
<1>2. run \in [Witness -> Nat]
  BY StateFields
<1>3. /\ s.head = b /\ s.lib = st.lib /\ s.bpv = st.bpv
      /\ s.sup = IF run[producer[b]] >= CHAIN_IRREVERSIBLE_SUPPORT_MIN_RUN
                 THEN [st.sup EXCEPT ![producer[b]] = block_num[b]] ELSE st.sup
      /\ s.run = [run EXCEPT ![producer[b]] = @ + 1]
  <2> HIDE DEF run
  <2> QED BY DEF Signed, State, run
<1>4. s \in State
  <2>1. s.run \in [Witness -> Nat]
    <3> HIDE DEF run, s
    <3> QED BY <1>1, <1>2, <1>3
  <2>2. s.sup \in [Witness -> Nat]
    <3> HIDE DEF run, s
    <3> QED BY <1>1, <1>3, StateFields
  <2> QED BY <1>1, <1>3, <2>1, <2>2 DEF Signed, State
<1>5. block_num[b] = block_num[st.head] + 1
  BY Child
<1> HIDE DEF s
<1>6. Bounded(s)
  <2>1. \A w \in Witness : s.sup[w] <= block_num[b]
    <3> HIDE DEF run
    <3>1. \A w \in Witness : st.sup[w] \in Nat /\ st.sup[w] <= block_num[st.head]
      BY StateFields DEF Bounded
    <3>2. \A w \in Witness : st.sup[w] <= block_num[b]
      BY <3>1, <1>1, <1>5
    <3> QED BY <1>1, <1>3, <3>2, StateFields
  <2>2. \A e \in s.bpv : block_num[e.id] <= block_num[b]
    BY <1>1, <1>3, <1>5, StateFields DEF Bounded
  <2> QED BY <1>3, <2>1, <2>2 DEF Bounded
<1> QED
  BY <1>3, <1>4, <1>5, <1>6 DEF s

\* A block on top of the head fills the session that was opened for it.
LEMMA SignedGood ==
    ASSUME NEW c, NEW x, GoodChain(c, 1, x), NEW b \in Block, previous[b] = c.st.head
    PROVE  /\ GoodChain([c EXCEPT !.st = Signed(@, b)], 0, x)
           /\ [c EXCEPT !.st = Signed(@, b)].st.head = b
<1> DEFINE s == Signed(c.st, b)
           d == [c EXCEPT !.st = s]
<1>0. ChainType(c)
  BY DEF GoodChain
<1>1. /\ s \in State /\ Bounded(s) /\ s.head = b /\ s.lib = c.st.lib
      /\ block_num[b] = block_num[c.st.head] + 1
  BY <1>0, SignedState, ChainFields DEF GoodChain
<1> HIDE DEF s
<1>7. /\ d.st = s /\ d.rev = c.rev /\ d.com = c.com /\ d.undo = c.undo
      /\ Sessions(d) = Sessions(c)
  BY <1>0 DEF ChainType, Sessions
<1>8. ChainType(d)
  <2>1. d \in [st : State, undo : [Sessions(c) -> State], rev : Nat, com : Nat]
    BY <1>0, <1>1 DEF ChainType
  <2> QED BY <2>1, <1>7 DEF ChainType
<1> HIDE DEF d
<1>9. ancestors[c.st.head] \subseteq ancestors[b]
  BY Child
<1>10. d.rev = block_num[d.st.head] + 0 /\ d.com <= block_num[d.st.head]
  BY <1>0, <1>1, <1>7, ChainFields DEF GoodChain
<1>11. ExactUndo(d)
  <2> SUFFICES ASSUME NEW r \in Sessions(c) PROVE NextState(d.undo[r], StateAt(d, r + 1))
    BY <1>7 DEF ExactUndo
  <2>1. NextState(c.undo[r], StateAt(c, r + 1)) /\ d.undo[r] = c.undo[r]
    BY <1>7 DEF GoodChain, ExactUndo
  <2>2. CASE r + 1 # c.rev + 1
    BY <1>7, <2>1, <2>2 DEF StateAt
  <2>3. CASE r + 1 = c.rev + 1
    <3>1. PICK u : u = c.undo[r]
      OBVIOUS
    <3>2. u \in State /\ u.head \in ancestors[c.st.head] /\ block_num[u.head] = block_num[c.st.head]
      <4>1. c.rev = block_num[c.st.head] + 1 /\ r = c.rev /\ block_num[c.st.head] \in Nat
        BY <1>0, <2>3, ChainFields DEF GoodChain, Sessions
      <4>2. u.head \in ancestors[c.st.head] /\ block_num[u.head] = r - 1
        BY <3>1 DEF GoodChain
      <4>3. u \in State
        BY <1>0, <3>1, ChainFields
      <4> QED BY <4>1, <4>2, <4>3
    <3>3. u.head = c.st.head
      <4>1. c.st.head \in BlockId /\ c.st.head \in ancestors[c.st.head]
        BY <1>0, ChainFields, TreeTypes
      <4> QED BY <3>2, <4>1, AncestorFacts
    <3>4. u.sup = c.st.sup /\ u.run = c.st.run
      BY <2>1, <2>3, <3>1, <3>3 DEF StateAt, NextState
    <3>5. Signed(u, b).sup = s.sup /\ Signed(u, b).run = s.run
      BY <1>0, <3>2, <3>4, ChainFields DEF Signed, State, s
    <3>6. s.head # u.head /\ previous[s.head] = u.head
      BY <1>0, <1>1, <3>3, ChainFields
    <3>7. StateAt(d, r + 1) = s
      BY <1>7, <2>3 DEF StateAt
    <3> QED BY <1>1, <2>1, <3>1, <3>5, <3>6, <3>7 DEF NextState
  <2> QED BY <2>2, <2>3
<1>12. GoodChain(d, 0, x)
  BY <1>1, <1>7, <1>8, <1>9, <1>10, <1>11 DEF GoodChain
<1> QED
  BY <1>1, <1>7, <1>12 DEF d, s

\* A replayed block is applied without a session.
LEMMA SignedSettled ==
    ASSUME NEW c, Settled(c), NEW b \in Block, previous[b] = c.st.head
    PROVE  /\ Settled([c EXCEPT !.st = Signed(@, b)])
           /\ [c EXCEPT !.st = Signed(@, b)].st.head = b
<1> DEFINE s == Signed(c.st, b)
<1>0. ChainType(c)
  BY DEF Settled
<1>1. /\ s \in State /\ Bounded(s) /\ s.head = b /\ s.lib = c.st.lib
      /\ block_num[b] = block_num[c.st.head] + 1
  BY <1>0, SignedState, ChainFields DEF Settled
<1>2. s.lib <= block_num[s.head]
  BY <1>0, <1>1, ChainFields DEF Settled
<1>3. [c EXCEPT !.st = Signed(@, b)] = [c EXCEPT !.st = s]
  OBVIOUS
<1> HIDE DEF s
<1> QED
  BY <1>1, <1>2, <1>3, ReplaceSettled

-----------------------------------------------------------------------------
(***************************************************************************)
(* The block log, and the bundles that _apply_block threads.               *)
(***************************************************************************)

\* Lowest is the least element.
LEMMA LowestIs ==
    ASSUME NEW S \in SUBSET Nat, S # {}
    PROVE  Lowest(S) \in S /\ \A k \in S : Lowest(S) <= k
BY LeastExists DEF Lowest

\* The log only ever receives blocks that the fork database supplied.
LEMMA AppendType ==
    ASSUME NEW l \in Seq(Block), NEW f \in ForkDb, NEW held, NEW n \in Nat, NEW upto \in Int,
           upto <= n,
           \A m \in (Len(l) + 1)..upto : m \notin Missing(l, f, held, n)
    PROVE  AppendToLog(l, f, held, upto) \in Seq(Block)
<1> DEFINE top == Larger(Len(l), upto)
<1>1. top \in Nat /\ Len(l) \in Nat /\ DOMAIN l = 1..Len(l)
  BY DEF Larger
<1>2. ASSUME NEW m \in 1..top
      PROVE  (IF m \in DOMAIN l THEN l[m] ELSE fetch_block_on_main_branch_by_number(f, held, m))
                \in Block
  <2>1. CASE m \in DOMAIN l
    BY <2>1
  <2>2. CASE m \notin DOMAIN l
    <3>1. m \in (Len(l) + 1)..upto /\ m \in (Len(l) + 1)..n /\ m \in Nat
      BY <1>1, <2>2 DEF Larger
    <3>2. fetch_block_on_main_branch_by_number(f, held, m) # ZeroId
      BY <3>1 DEF Missing
    <3>3. fetch_block_on_main_branch_by_number(f, held, m) \in BlockId
      BY <3>1, FetchType
    <3> QED BY <2>2, <3>2, <3>3 DEF BlockId
  <2> QED BY <2>1, <2>2
<1> HIDE DEF top
<1>3. AppendToLog(l, f, held, upto) =
        [m \in 1..top |-> IF m \in DOMAIN l THEN l[m]
                          ELSE fetch_block_on_main_branch_by_number(f, held, m)]
  BY DEF AppendToLog, top
<1>4. AppendToLog(l, f, held, upto) \in [1..top -> Block]
  BY <1>2, <1>3
<1> QED
  BY <1>1, <1>4

\* A well-formed bundle.
GoodBundle(d, k, x) ==
    /\ d \in [ok : BOOLEAN, chain : {d.chain}, log : Seq(Block), fdb : ForkDb]
    /\ SoundChain(d.chain, k, x)

\* Making a height irreversible keeps the bundle well-formed, thrown or not.
LEMMA MakeIrreversibleGood ==
    ASSUME NEW d, NEW k \in {0, 1, Replaying}, NEW x, GoodBundle(d, k, x), NEW held,
           NEW n \in Nat, n <= block_num[d.chain.st.head]
    PROVE  /\ GoodBundle(MakeIrreversible(d, held, n), k, x)
           /\ MakeIrreversible(d, held, n).chain.st = [d.chain.st EXCEPT !.lib = n]
<1> DEFINE missing == Missing(d.log, d.fdb, held, n)
           upto == IF missing = {} THEN n ELSE Lowest(missing) - 1
           m == MakeIrreversible(d, held, n)
<1>1. d.log \in Seq(Block) /\ d.fdb \in ForkDb /\ SoundChain(d.chain, k, x)
  BY DEF GoodBundle
<1>2. missing \in SUBSET Nat /\ \A i \in missing : i <= n
  BY <1>1 DEF Missing
<1>3. upto \in Int /\ upto <= n /\ \A i \in (Len(d.log) + 1)..upto : i \notin missing
  <2> HIDE DEF missing
  <2>1. CASE missing = {}
    BY <2>1
  <2>2. CASE missing # {}
    <3>1. Lowest(missing) \in missing /\ \A i \in missing : Lowest(missing) <= i
      BY <1>2, <2>2, LowestIs
    <3>2. Lowest(missing) \in Nat /\ Lowest(missing) <= n /\ upto = Lowest(missing) - 1
      BY <1>2, <2>2, <3>1
    <3>3. \A i \in (Len(d.log) + 1)..upto : i < Lowest(missing)
      BY <1>1, <3>2
    <3> QED BY <1>1, <3>1, <3>2, <3>3
  <2> QED BY <2>1, <2>2
<1>4. AppendToLog(d.log, d.fdb, held, upto) \in Seq(Block)
  <2> HIDE DEF upto
  <2> QED BY <1>1, <1>3, AppendType
<1>5. /\ SoundChain(commit([d.chain EXCEPT !.st.lib = n], n), k, x)
      /\ commit([d.chain EXCEPT !.st.lib = n], n).st = [d.chain.st EXCEPT !.lib = n]
  BY <1>1, CommitSound
<1>6. block_num[d.chain.st.head] - n + 1 \in Nat
  BY <1>1, ChainFields, SoundFacts
<1>7. set_max_size(d.fdb, block_num[d.chain.st.head] - n + 1) \in ForkDb
  BY <1>1, <1>6, SetMaxSizeType
<1>8. m = [ok |-> missing = {},
           chain |-> commit([d.chain EXCEPT !.st.lib = n], n),
           log |-> AppendToLog(d.log, d.fdb, held, upto),
           fdb |-> IF missing = {} THEN set_max_size(d.fdb, block_num[d.chain.st.head] - n + 1)
                   ELSE d.fdb]
  BY DEF MakeIrreversible, IrreversibleUnless
<1> HIDE DEF m, missing, upto
<1>9. /\ m.ok \in BOOLEAN /\ m.log \in Seq(Block) /\ m.fdb \in ForkDb
      /\ m.chain = commit([d.chain EXCEPT !.st.lib = n], n)
      /\ m \in [ok : BOOLEAN, chain : {m.chain}, log : Seq(Block), fdb : ForkDb]
  BY <1>1, <1>4, <1>7, <1>8
<1>10. GoodBundle(m, k, x)
  BY <1>5, <1>9 DEF GoodBundle
<1> QED
  BY <1>5, <1>9, <1>10 DEF m

\* The nth supported height is one that some witness supports.
LEMMA NewIrreversibleIs ==
    ASSUME NEW c, NEW k \in {0, 1, Replaying}, NEW x, SoundChain(c, k, x),
           NEW witnesses \in SUBSET Witness
    PROVE  /\ NewIrreversible(c.st, witnesses) \in Nat
           /\ NewIrreversible(c.st, witnesses) <= block_num[c.st.head]
<1> DEFINE higher == {v \in NthSupported(c.st, witnesses, Offset(witnesses)) : v > c.st.lib}
<1>1. ChainType(c) /\ Bounded(c.st) /\ c.st.lib <= block_num[c.st.head]
  BY SoundFacts
<1>2. \A w \in Witness : c.st.sup[w] \in Nat /\ c.st.sup[w] <= block_num[c.st.head]
  BY <1>1, ChainFields, StateFields DEF Bounded
<1>3. \A v \in higher : v \in Nat /\ v <= block_num[c.st.head]
  BY <1>2 DEF NthSupported
<1>4. NewIrreversible(c.st, witnesses) =
        IF higher = {} THEN c.st.lib ELSE CHOOSE v \in higher : TRUE
  BY DEF NewIrreversible
<1> HIDE DEF higher
<1>5. NewIrreversible(c.st, witnesses) = c.st.lib \/ NewIrreversible(c.st, witnesses) \in higher
  BY <1>4
<1>6. c.st.lib \in Nat /\ c.st.lib <= block_num[c.st.head]
  BY <1>1, ChainFields
<1> QED
  BY <1>3, <1>5, <1>6

\* Changing the validation objects of the current state, within bounds ...
LEMMA ReplaceValidations ==
    ASSUME NEW c, NEW k \in {0, 1, Replaying}, NEW x, SoundChain(c, k, x),
           NEW S \in SUBSET Validation,
           \A e \in S : block_num[e.id] <= block_num[c.st.head]
    PROVE  /\ SoundChain([c EXCEPT !.st.bpv = S], k, x)
           /\ [c EXCEPT !.st.bpv = S].st.head = c.st.head
<1> DEFINE s == [c.st EXCEPT !.bpv = S]
<1>1. ChainType(c) /\ Bounded(c.st) /\ c.st.lib <= block_num[c.st.head]
  BY SoundFacts
<1>2. s \in State /\ s.head = c.st.head /\ s.lib = c.st.lib /\ s.sup = c.st.sup /\ s.bpv = S
      /\ s.run = c.st.run
  BY <1>1, ChainFields DEF State
<1>3. [c EXCEPT !.st.bpv = S] = [c EXCEPT !.st = s]
  OBVIOUS
<1> HIDE DEF s
<1>4. Bounded(s)
  BY <1>1, <1>2 DEF Bounded
<1>5. SoundChain([c EXCEPT !.st = s], k, x) /\ [c EXCEPT !.st = s].st = s
  <2>1. CASE k = Replaying
    BY <1>1, <1>2, <1>4, <2>1, ReplaceSettled DEF SoundChain
  <2>2. CASE k # Replaying
    <3>1. GoodChain(c, k, x) /\ k \in {0, 1} /\ c.st.lib <= c.com
      BY <2>2 DEF SoundChain, GoodChain
    <3>2. GoodChain([c EXCEPT !.st = s], k, x) /\ [c EXCEPT !.st = s].st = s
      BY <1>2, <1>4, <3>1, ReplaceState
    <3> QED BY <2>2, <3>2 DEF SoundChain
  <2> QED BY <2>1, <2>2
<1> QED
  BY <1>2, <1>3, <1>5

\* ... and in a bundle.
LEMMA ReplaceBpv ==
    ASSUME NEW d, NEW k \in {0, 1, Replaying}, NEW x, GoodBundle(d, k, x), NEW S \in SUBSET Validation,
           \A e \in S : block_num[e.id] <= block_num[d.chain.st.head]
    PROVE  /\ GoodBundle([d EXCEPT !.chain.st.bpv = S], k, x)
           /\ [d EXCEPT !.chain.st.bpv = S].chain.st.head = d.chain.st.head
<1> DEFINE c == [d.chain EXCEPT !.st.bpv = S]
           e == [d EXCEPT !.chain.st.bpv = S]
<1>1. SoundChain(c, k, x) /\ c.st.head = d.chain.st.head
  <2>1. SoundChain(d.chain, k, x)
    BY DEF GoodBundle
  <2> QED BY <2>1, ReplaceValidations, ZenonT(60)
<1>2. /\ e.chain = c /\ e.ok = d.ok /\ e.log = d.log /\ e.fdb = d.fdb
      /\ e \in [ok : BOOLEAN, chain : {e.chain}, log : Seq(Block), fdb : ForkDb]
  BY DEF GoodBundle
<1> HIDE DEF c, e
<1>3. GoodBundle(e, k, x) /\ e.chain.st.head = d.chain.st.head
  BY <1>1, <1>2 DEF GoodBundle
<1> QED
  BY <1>3 DEF e

\* The loop over the validation objects keeps the bundle well-formed.
LEMMA CheckGood ==
    ASSUME NEW d, NEW k \in {0, 1, Replaying}, NEW x, GoodBundle(d, k, x), NEW held, NEW witnesses
    PROVE  /\ GoodBundle(check_block_post_validation_chain(d, held, witnesses), k, x)
           /\ check_block_post_validation_chain(d, held, witnesses).chain.st.head = d.chain.st.head
<1> DEFINE run == ValidatedRun(d.chain.st, witnesses)
<1>1. CASE run = {}
  BY <1>1 DEF check_block_post_validation_chain
<1>2. CASE run # {}
  <2> DEFINE lib == d.chain.st.lib
             num == block_num[d.chain.st.head]
             top == CHOOSE n \in run : n + 1 \notin run
             missing == Missing(d.log, d.fdb, held, top)
             stop == StopAt(missing, lib, top)
             m == MakeIrreversible(d, held, stop)
  <2>1. ChainType(d.chain) /\ d.log \in Seq(Block) /\ lib \in Nat /\ num \in Nat
    BY ChainFields, SoundFacts DEF GoodBundle
  <2>2. run \in SUBSET Nat /\ \A n \in run : n > lib /\ n <= num
    BY <2>1 DEF ValidatedRun
  <2>3. top \in run
    <3> HIDE DEF run, num
    <3>1. PICK n \in run : \A i \in run : i <= n
      BY <1>2, <2>1, <2>2, GreatestExists
    <3>2. n + 1 \notin run
      BY <2>2, <3>1
    <3> QED BY <3>1, <3>2
  <2> HIDE DEF top
  <2>4. missing \in SUBSET Nat /\ \A n \in missing : n <= top
    BY <2>1, <2>2, <2>3 DEF Missing
  <2>5. stop \in Nat /\ stop <= num
    <3> HIDE DEF missing, run
    <3>1. CASE missing = {}
      BY <2>2, <2>3, <3>1 DEF StopAt
    <3>2. CASE missing # {}
      <4>1. Lowest(missing) \in Nat /\ Lowest(missing) <= top
        BY <2>4, <3>2, LowestIs
      <4>2. top \in Nat /\ lib < top /\ top <= num
        BY <2>2, <2>3
      <4> HIDE DEF num, lib
      <4> QED BY <2>1, <3>2, <4>1, <4>2, SMTT(60) DEF StopAt, Larger
    <3> QED BY <3>1, <3>2
  <2> HIDE DEF stop
  <2>6. GoodBundle(m, k, x) /\ m.chain.st = [d.chain.st EXCEPT !.lib = stop]
    BY <2>5, MakeIrreversibleGood
  <2>7. m.chain.st.head = d.chain.st.head
    BY <2>1, <2>6, ChainFields DEF State
  <2> HIDE DEF m
  <2> DEFINE S == {e \in m.chain.st.bpv : block_num[e.id] \notin
                    (lib + 1)..(IF m.ok THEN m.chain.st.lib ELSE m.chain.st.lib - 1)}
  <2>8. S \in SUBSET Validation /\ \A e \in S : block_num[e.id] <= block_num[m.chain.st.head]
    <3>1. ChainType(m.chain) /\ Bounded(m.chain.st)
      BY <2>6, SoundFacts DEF GoodBundle
    <3> QED BY <3>1, ChainFields, StateFields DEF Bounded
  <2> HIDE DEF S
  <2>9. /\ GoodBundle([m EXCEPT !.chain.st.bpv = S], k, x)
        /\ [m EXCEPT !.chain.st.bpv = S].chain.st.head = m.chain.st.head
    BY <2>6, <2>8, ReplaceBpv
  <2>10. check_block_post_validation_chain(d, held, witnesses) = [m EXCEPT !.chain.st.bpv = S]
    BY <1>2 DEF check_block_post_validation_chain, TakeValidated, RemoveValidated, m, stop, top, S
  <2> QED BY <2>7, <2>9, <2>10
<1> QED
  BY <1>1, <1>2

\* A new validation object for the head block.
LEMMA CreateGood ==
    ASSUME NEW d, NEW k \in {0, 1, Replaying}, NEW x, GoodBundle(d, k, x), NEW b \in Block,
           d.chain.st.head = b, NEW stray \in BOOLEAN
    PROVE  /\ GoodBundle(AfterCheck(d, b, stray), k, x)
           /\ AfterCheck(d, b, stray).chain.st.head = b
<1> DEFINE st == d.chain.st
           live == {e \in st.bpv : block_num[e.id] > st.lib}
           kept == IF Cardinality(live) < CHAIN_MAX_BLOCK_POST_VALIDATION_COUNT THEN live
                   ELSE {e \in live : \E o \in live : block_num[o.id] < block_num[e.id]}
           new == [id |-> b, listed |-> schedule[b] \ {producer[b]}, done |-> {},
                   stray |-> stray /\ producer[b] \in schedule[b]]
           S == kept \cup {new}
<1>1. CASE ~d.ok
  BY <1>1 DEF AfterCheck
<1>2. CASE d.ok
  <2>1. ChainType(d.chain) /\ Bounded(st) /\ b \in BlockId /\ block_num[b] \in Nat
    BY TreeTypes, SoundFacts DEF GoodBundle
  <2>2. kept \subseteq st.bpv
    OBVIOUS
  <2>3. new \in Validation
    <3>1. schedule[b] \subseteq Witness
      BY <2>1, ScheduleAssumption
    <3>2. (stray /\ producer[b] \in schedule[b]) \in BOOLEAN
      OBVIOUS
    <3> QED BY <3>1, <3>2 DEF Validation
  <2>4. new.id = b
    OBVIOUS
  <2>5. AfterCheck(d, b, stray) = [d EXCEPT !.chain.st.bpv = S]
    BY <1>2 DEF AfterCheck, create_block_post_validation
  <2> HIDE DEF kept, new
  <2>6. S \in SUBSET Validation /\ \A e \in S : block_num[e.id] <= block_num[d.chain.st.head]
    BY <2>1, <2>2, <2>3, <2>4, ChainFields, StateFields DEF Bounded
  <2> HIDE DEF S
  <2>7. /\ GoodBundle([d EXCEPT !.chain.st.bpv = S], k, x)
        /\ [d EXCEPT !.chain.st.bpv = S].chain.st.head = d.chain.st.head
    BY <2>6, ReplaceBpv
  <2> QED BY <2>5, <2>7
<1> QED
  BY <1>1, <1>2

\* With the block signed, its session is the one of the head.
AfterBlock(k) == IF k = Replaying THEN Replaying ELSE 0

(***************************************************************************)
(* _apply_block in the session opened for it, or in a replay: when it      *)
(* succeeds, b is the head; when it throws, the session, filled or not, is *)
(* still on top.                                                           *)
(***************************************************************************)
LEMMA ApplyBlockGood ==
    ASSUME NEW d, NEW k \in {1, Replaying}, NEW x, GoodBundle(d, k, x), d.ok, NEW held,
           NEW b \in Block, NEW stray \in BOOLEAN
    PROVE  LET r == _apply_block(d, held, b, stray)
           IN  /\ r.ok \in BOOLEAN
               /\ r.ok => GoodBundle(r, AfterBlock(k), x) /\ r.chain.st.head = b
               /\ GoodBundle(r, k, x) \/ GoodBundle(r, AfterBlock(k), x)
<1> DEFINE r == _apply_block(d, held, b, stray)
<1>0. PICK a : a = AfterBlock(k)
  OBVIOUS
<1>a. a \in {0, 1, Replaying} /\ k \in {0, 1, Replaying}
  BY <1>0 DEF AfterBlock
<1>1. ASSUME NEW e, NEW i \in {0, 1, Replaying}, GoodBundle(e, i, x)
      PROVE  /\ GoodBundle([e EXCEPT !.ok = FALSE], i, x)
             /\ [e EXCEPT !.ok = FALSE].ok = FALSE
  <2> DEFINE g == [e EXCEPT !.ok = FALSE]
  <2>1. /\ g.ok = FALSE /\ g.chain = e.chain /\ g.log = e.log /\ g.fdb = e.fdb
        /\ g \in [ok : BOOLEAN, chain : {g.chain}, log : Seq(Block), fdb : ForkDb]
    BY <1>1 DEF GoodBundle
  <2> HIDE DEF g
  <2>2. GoodBundle(g, i, x)
    BY <1>1, <2>1 DEF GoodBundle
  <2> QED BY <2>1, <2>2 DEF g
<1>2. CASE Refused(d.chain.st, b)
  <2>1. r = [d EXCEPT !.ok = FALSE]
    BY <1>2 DEF _apply_block
  <2>2. GoodBundle([d EXCEPT !.ok = FALSE], k, x) /\ [d EXCEPT !.ok = FALSE].ok = FALSE
    BY <1>1, <1>a
  <2> HIDE DEF r
  <2>3. GoodBundle(r, k, x) /\ r.ok = FALSE
    BY <2>1, <2>2
  <2> QED BY <2>3 DEF r
<1>3. CASE ~Refused(d.chain.st, b)
  <2> DEFINE c == [d.chain EXCEPT !.st = Signed(@, b)]
             e == [d EXCEPT !.chain.st = Signed(@, b)]
             n == NewIrreversible(e.chain.st, schedule[previous[b]])
             m == MakeIrreversible(e, held, n)
             v == check_block_post_validation_chain(m, held, schedule[b])
  <2>1. previous[b] = d.chain.st.head /\ SoundChain(d.chain, k, x)
    BY <1>3 DEF Refused, GoodBundle
  <2>2. SoundChain(c, a, x) /\ c.st.head = b
    <3>1. CASE k = Replaying
      <4>1. Settled(d.chain) /\ a = Replaying
        BY <1>0, <2>1, <3>1 DEF SoundChain, AfterBlock
      <4>2. Settled(c) /\ c.st.head = b
        BY <2>1, <4>1, SignedSettled
      <4> QED BY <4>1, <4>2 DEF SoundChain
    <3>2. CASE k # Replaying
      <4>1. GoodChain(d.chain, 1, x) /\ a = 0 /\ a # Replaying
        BY <1>0, <2>1, <3>2 DEF SoundChain, AfterBlock, Replaying
      <4>2. GoodChain(c, 0, x) /\ c.st.head = b
        BY <2>1, <4>1, SignedGood
      <4> QED BY <4>1, <4>2 DEF SoundChain
    <3> QED BY <3>1, <3>2
  <2>3. /\ e.chain = c /\ e.ok = d.ok /\ e.log = d.log /\ e.fdb = d.fdb
        /\ e \in [ok : BOOLEAN, chain : {e.chain}, log : Seq(Block), fdb : ForkDb]
    BY DEF GoodBundle
  <2> HIDE DEF c, e
  <2>4. GoodBundle(e, a, x) /\ e.chain.st.head = b
    BY <2>2, <2>3 DEF GoodBundle
  <2>5. schedule[previous[b]] \in SUBSET Witness
    BY TreeTypes, ScheduleAssumption
  <2>6. n \in Nat /\ n <= block_num[e.chain.st.head]
    BY <1>a, <2>4, <2>5, NewIrreversibleIs DEF GoodBundle
  <2> HIDE DEF n
  <2>7. GoodBundle(m, a, x) /\ m.chain.st = [e.chain.st EXCEPT !.lib = n]
    BY <1>a, <2>4, <2>6, MakeIrreversibleGood
  <2>8. m.chain.st.head = b
    <3>1. e.chain.st \in State
      BY <1>a, <2>4, SoundFacts, ChainFields DEF GoodBundle
    <3> QED BY <2>4, <2>7, <3>1 DEF State
  <2>9. r = AfterIrreversible(m, held, b, stray)
    BY <1>3 DEF _apply_block, AfterSigned, m, n, e
  <2> HIDE DEF m
  <2>10. CASE ~m.ok \/ b \in LateBad
    <3>1. r = [m EXCEPT !.ok = FALSE]
      BY <2>9, <2>10 DEF AfterIrreversible
    <3>2. GoodBundle([m EXCEPT !.ok = FALSE], a, x) /\ [m EXCEPT !.ok = FALSE].ok = FALSE
      BY <1>1, <1>a, <2>7
    <3> HIDE DEF r
    <3>3. GoodBundle(r, a, x) /\ r.ok = FALSE
      BY <3>1, <3>2
    <3> QED BY <1>0, <3>3 DEF r
  <2>11. CASE ~(~m.ok \/ b \in LateBad)
    <3>0. GoodBundle(v, a, x) /\ v.chain.st.head = m.chain.st.head
      <4>1. GoodBundle(m, a, x) /\ a \in {0, 1, Replaying}
        BY <1>a, <2>7
      <4>2. ASSUME NEW h, NEW ww
            PROVE  /\ GoodBundle(check_block_post_validation_chain(m, h, ww), a, x)
                   /\ check_block_post_validation_chain(m, h, ww).chain.st.head = m.chain.st.head
        BY <4>1, CheckGood
      <4> QED BY <4>2
    <3>1. GoodBundle(v, a, x) /\ v.chain.st.head = b
      BY <3>0, <2>8
    <3>2. r = AfterCheck(v, b, stray)
      BY <2>9, <2>11 DEF AfterIrreversible
    <3> HIDE DEF v, r
    <3>3. GoodBundle(r, a, x) /\ r.chain.st.head = b
      BY <1>a, <3>1, <3>2, CreateGood
    <3>4. r.ok \in BOOLEAN
      BY <3>3 DEF GoodBundle
    <3> QED BY <1>0, <3>3, <3>4 DEF r
  <2> QED BY <2>10, <2>11
<1> QED
  BY <1>2, <1>3

\* apply_block in its session, which is undone when the block is thrown out.
LEMMA ApplyInSessionGood ==
    ASSUME NEW c, NEW x, GoodChain(c, 0, x), NEW f \in ForkDb, log \in Seq(Block), NEW held,
           NEW b \in Block, NEW stray \in BOOLEAN
    PROVE  /\ GoodBundle(ApplyInSession(c, f, held, b, stray), 0, x)
           /\ ApplyInSession(c, f, held, b, stray).ok =>
                    ApplyInSession(c, f, held, b, stray).chain.st.head = b
<1> DEFINE d == [ok |-> TRUE, chain |-> start_undo_session(c), log |-> log, fdb |-> f]
           r == _apply_block(d, held, b, stray)
           e == ApplyInSession(c, f, held, b, stray)
<1>1. GoodBundle(d, 1, x) /\ d.ok
  BY SessionGood DEF GoodBundle, SoundChain, Replaying
<1>2. e = IF r.ok THEN r ELSE [r EXCEPT !.chain = undo(@)]
  BY DEF ApplyInSession, EndSession
<1> HIDE DEF d
<1>3. /\ r.ok \in BOOLEAN
      /\ r.ok => GoodBundle(r, 0, x) /\ r.chain.st.head = b
      /\ \E k \in {0, 1} : GoodBundle(r, k, x)
  <2>1. AfterBlock(1) = 0
    BY DEF AfterBlock, Replaying
  <2>2. /\ r.ok \in BOOLEAN
        /\ r.ok => GoodBundle(r, AfterBlock(1), x) /\ r.chain.st.head = b
        /\ GoodBundle(r, 1, x) \/ GoodBundle(r, AfterBlock(1), x)
    BY <1>1, ApplyBlockGood
  <2> HIDE DEF r
  <2> QED BY <2>1, <2>2
<1> HIDE DEF r, e
<1>4. CASE r.ok
  BY <1>2, <1>3, <1>4 DEF e
<1>5. CASE ~r.ok
  <2>1. PICK k \in {0, 1} : GoodBundle(r, k, x)
    BY <1>3
  <2>2. GoodChain(undo(r.chain), 0, x)
    <3>1. GoodChain(r.chain, k, x)
      BY <2>1 DEF GoodBundle, SoundChain, Replaying
    <3> QED BY <3>1, UndoGood
  <2>3. /\ e.ok = r.ok /\ e.chain = undo(r.chain) /\ e.log = r.log /\ e.fdb = r.fdb
        /\ e \in [ok : BOOLEAN, chain : {e.chain}, log : Seq(Block), fdb : ForkDb]
    BY <1>2, <1>5, <2>1 DEF GoodBundle
  <2>4. GoodBundle(e, 0, x)
    BY <2>1, <2>2, <2>3 DEF GoodBundle, SoundChain, Replaying
  <2> QED BY <1>5, <2>3, <2>4 DEF e
<1> QED
  BY <1>4, <1>5

-----------------------------------------------------------------------------
(***************************************************************************)
(* The inductive invariant of a running process.                           *)
(***************************************************************************)
PendingSessions == IF pending THEN 1 ELSE 0

OtherTypes ==
    /\ log \in Seq(Block) /\ fdb \in ForkDb /\ mode \in Running
    /\ sw \in [new : BlockId, old : BlockId, num : Nat]
    /\ pending \in BOOLEAN /\ queued \in BOOLEAN
    /\ result \in {"ok", "switched", "throw"} /\ crashes \in Nat

\* A switch has no pending session, two tips, and a height they both reach;
\* while it applies a branch it has not reached its tip yet.
SwitchGood ==
    /\ mode # "idle" =>
            /\ ~pending
            /\ sw.new \in Block /\ sw.old \in Block
            /\ sw.num > 0 /\ sw.num <= block_num[sw.new] /\ sw.num <= block_num[sw.old]
    /\ mode = "push" => block_num[chain.st.head] < block_num[sw.new]
    /\ mode = "restore" => block_num[chain.st.head] < block_num[sw.old]

RunInv(x) == GoodChain(chain, PendingSessions, x) /\ OtherTypes /\ SwitchGood

\* A settled state whose revision is its height is a good chain.
LEMMA SettledIsGood ==
    ASSUME NEW c, Settled(c), c.rev = block_num[c.st.head]
    PROVE  GoodChain(c, 0, ZeroId)
<1>1. ChainType(c) /\ c.com = c.rev /\ Bounded(c.st) /\ c.st.lib <= c.com
  BY DEF Settled
<1>2. Sessions(c) = {}
  BY <1>1, ChainFields DEF Sessions
<1>3. ZeroId \in ancestors[c.st.head] /\ block_num[ZeroId] = 0
  <2>1. c.st.head \in BlockId /\ block_num[c.st.head] \in Nat
    BY <1>1, ChainFields
  <2>2. PICK z \in ancestors[c.st.head] : block_num[z] = 0
    BY <2>1, AncestorFacts
  <2>3. z = ZeroId /\ block_num[ZeroId] = 0
    BY <2>1, <2>2, TreeTypes, HeaderAssumption DEF BlockId
  <2> QED BY <2>2, <2>3
<1> QED
  BY <1>1, <1>2, <1>3, ChainFields DEF GoodChain, ExactUndo

\* The genesis state is settled, and good.
LEMMA WipedGood == Settled(Wiped) /\ GoodChain(Wiped, 0, ZeroId)
<1> DEFINE c == Wiped
<1>1. c = [st |-> GenesisState, undo |-> <<>>, rev |-> 0, com |-> 0]
  BY DEF Wiped
<1> HIDE DEF c
<1>2. GenesisState \in State
  BY DEF GenesisState, State, BlockId
<1>3. Sessions(c) = {}
  BY <1>1 DEF Sessions
<1>4. ChainType(c)
  BY <1>1, <1>2, <1>3 DEF ChainType
<1>5. Bounded(GenesisState) /\ block_num[ZeroId] = 0
  BY HeaderAssumption DEF Bounded, GenesisState
<1>6. c.st = GenesisState /\ c.st.head = ZeroId /\ c.st.lib = 0 /\ c.rev = 0 /\ c.com = 0
  BY <1>1 DEF GenesisState
<1>7. Settled(c)
  BY <1>4, <1>5, <1>6 DEF Settled
<1>8. GoodChain(c, 0, ZeroId)
  BY <1>5, <1>6, <1>7, SettledIsGood
<1> QED
  BY <1>7, <1>8 DEF c

\* The empty database satisfies the invariant.
LEMMA InitGood == Init => RunInv(ZeroId)
<1> SUFFICES ASSUME Init PROVE RunInv(ZeroId)
  OBVIOUS
<1>1. GoodChain(chain, PendingSessions, ZeroId)
  BY WipedGood DEF Init, PendingSessions
<1>2. fdb \in ForkDb
  BY DefaultMaxSizeAssumption DEF Init, EmptyForkDb, ForkDb, BlockId
<1>3. log \in Seq(Block)
  BY DEF Init
<1>4. OtherTypes
  BY <1>2, <1>3 DEF OtherTypes, Init, NoSwitch, Running, BlockId
<1>5. SwitchGood
  BY DEF SwitchGood, Init
<1> QED
  BY <1>1, <1>4, <1>5 DEF RunInv

\* clear_pending leaves the state of the head block.
LEMMA ClearedGood ==
    ASSUME NEW x, RunInv(x) PROVE GoodChain(Cleared, 0, x)
<1>1. CASE pending
  BY <1>1, UndoGood DEF RunInv, PendingSessions, Cleared
<1>2. CASE ~pending
  BY <1>2 DEF RunInv, PendingSessions, Cleared
<1> QED
  BY <1>1, <1>2

\* push_block gives up the lock in a good state.
LEMMA ReturnGood ==
    ASSUME NEW x, NEW c, GoodChain(c, 0, x), NEW f \in ForkDb, NEW r \in {"ok", "switched", "throw"},
           NEW txs, Return(r, txs, c, f), log' \in Seq(Block), crashes' \in Nat
    PROVE  RunInv(x)'
<1>1. PICK again \in BOOLEAN :
        /\ pending' = again /\ queued' = FALSE
        /\ chain' = IF again THEN start_undo_session(c) ELSE c
        /\ fdb' = Expire(f)
        /\ mode' = "idle" /\ sw' = NoSwitch /\ result' = r
  BY DEF Return
<1>2. GoodChain(chain', PendingSessions', x)
  <2>1. CASE again
    BY <1>1, <2>1, SessionGood DEF PendingSessions
  <2>2. CASE ~again
    BY <1>1, <2>2 DEF PendingSessions
  <2> QED BY <2>1, <2>2
<1>3. OtherTypes'
  BY <1>1, ExpireType DEF OtherTypes, NoSwitch, Running, BlockId
<1>4. SwitchGood'
  BY <1>1 DEF SwitchGood
<1> QED
  BY <1>2, <1>3, <1>4 DEF RunInv

\* The next block of a branch, while its tip is above the head.
LEMMA NextOfIs ==
    ASSUME NEW tip \in Block, chain.st.head \in BlockId, block_num[chain.st.head] < block_num[tip]
    PROVE  /\ NextOf(tip) \in Block
           /\ NextOf(tip) # tip => block_num[NextOf(tip)] < block_num[tip]
<1> DEFINE n == block_num[chain.st.head] + 1
<1>1. n \in Nat \ {0} /\ n \in 0..block_num[tip] /\ tip \in BlockId /\ block_num[tip] \in Nat
  BY TreeTypes
<1> HIDE DEF n
<1>2. At(tip, n) \in ancestors[tip] /\ At(tip, n) \in BlockId /\ block_num[At(tip, n)] = n
  BY <1>1, AtIs
<1>3. At(tip, n) \in Block
  BY <1>1, <1>2, TreeTypes
<1>4. block_num[At(tip, n)] = block_num[tip] => At(tip, n) = tip
  BY <1>1, <1>2, TreeTypes, AncestorFacts, AncestorAssumption
<1>5. At(tip, n) # tip => block_num[At(tip, n)] < block_num[tip]
  BY <1>1, <1>2, <1>4
<1> QED
  BY <1>3, <1>5 DEF NextOf, n

\* The root of the two branches is below both tips.
LEMMA RootIs ==
    ASSUME NEW x, RunInv(x), mode # "idle"
    PROVE  block_num[Root] < block_num[sw.new] /\ block_num[Root] < block_num[sw.old]
<1>1. /\ sw.new \in Block /\ sw.old \in Block /\ sw.num \in Nat
      /\ sw.num > 0 /\ sw.num <= block_num[sw.new] /\ sw.num <= block_num[sw.old]
  BY DEF RunInv, OtherTypes, SwitchGood
<1>2. /\ sw.old \in BlockId /\ block_num[sw.old] \in Nat /\ block_num[sw.new] \in Nat
      /\ sw.num \in 0..block_num[sw.old]
  BY <1>1, TreeTypes
<1>3. At(sw.old, sw.num) \in BlockId /\ block_num[At(sw.old, sw.num)] = sw.num
  BY <1>2, AtIs
<1>4. At(sw.old, sw.num) \in Block
  BY <1>1, <1>3, TreeTypes
<1>5. sw.num = block_num[previous[At(sw.old, sw.num)]] + 1
  BY <1>3, <1>4, Child
<1>6. block_num[previous[At(sw.old, sw.num)]] \in Nat
  BY <1>4, TreeTypes
<1> QED
  BY <1>1, <1>2, <1>5, <1>6 DEF Root

(***************************************************************************)
(* The actions of push_block that return at once.                          *)
(***************************************************************************)
LEMMA PushBlockGood ==
    ASSUME NEW x, RunInv(x), NEW b \in Block, NEW stray \in StrayValues, PushBlock(b, stray)
    PROVE  RunInv(x)'
<1>1. /\ GoodChain(Cleared, 0, x) /\ fdb \in ForkDb /\ log \in Seq(Block) /\ crashes \in Nat
      /\ stray \in BOOLEAN
  BY ClearedGood, ConfigAssumption DEF RunInv, OtherTypes
<1>2. push_block(fdb, b) \in ForkDb /\ push_block(fdb, b).head \in Block
  BY <1>1, PushBlockType
<1>3. CASE PushThrown(b)
  BY <1>1, <1>3, ReturnGood DEF PushThrown, StartPush
<1>4. CASE PushKept(b)
  BY <1>1, <1>2, <1>4, ReturnGood DEF PushKept, StartPush
<1>5. CASE PushNoBranch(b)
  BY <1>1, <1>2, <1>5, ReturnGood DEF PushNoBranch, StartPush
<1>6. CASE PushFork(b)
  <2> DEFINE f == push_block(fdb, b)
             y == chain.st.head
  <2>1. /\ sw' = [new |-> f.head, old |-> y, num |-> BranchNum(f.head, y)]
        /\ fdb' = f /\ mode' = "pop" /\ chain' = Cleared
        /\ pending' = FALSE /\ queued' = pending
        /\ log' = log /\ result' = result /\ crashes' = crashes
        /\ fetch_branch_from_ok(f, f.head, y)
    BY <1>6 DEF PushFork, StartPush
  <2>2. y \in Block
    BY <1>2, <2>1 DEF fetch_branch_from_ok, ForkDb
  <2> HIDE DEF f, y
  <2>3. f \in ForkDb /\ f.head \in Block
    BY <1>2 DEF f
  <2>4. /\ BranchNum(f.head, y) \in Nat \ {0}
        /\ BranchNum(f.head, y) <= block_num[f.head]
        /\ BranchNum(f.head, y) <= block_num[y]
    BY <2>2, <2>3, BranchNumIs
  <2>5. GoodChain(chain', PendingSessions', x)
    BY <1>1, <2>1 DEF PendingSessions
  <2>6. OtherTypes'
    BY <2>1, <2>2, <2>3, <2>4 DEF RunInv, OtherTypes, Running, BlockId
  <2>7. SwitchGood'
    BY <2>1, <2>2, <2>3, <2>4 DEF SwitchGood
  <2> QED BY <2>5, <2>6, <2>7 DEF RunInv
<1>7. CASE PushDirect(b, stray)
  <2> DEFINE d == ApplyInSession(Cleared, push_block(fdb, b), {}, b, stray)
  <2>1. GoodBundle(d, 0, x)
    BY <1>1, <1>2, ApplyInSessionGood
  <2>2. /\ log' = d.log /\ crashes' = crashes
        /\ \/ Return("ok", pending, d.chain, d.fdb)
           \/ Return("throw", pending, d.chain, remove(d.fdb, {b}))
    BY <1>7 DEF PushDirect, StartPush
  <2> HIDE DEF d
  <2>3. GoodChain(d.chain, 0, x) /\ d.log \in Seq(Block) /\ d.fdb \in ForkDb
    BY <2>1 DEF GoodBundle, SoundChain, Replaying
  <2>4. remove(d.fdb, {b}) \in ForkDb
    BY <2>3, RemoveType
  <2> QED BY <1>1, <2>2, <2>3, <2>4, ReturnGood
<1> QED
  BY <1>3, <1>4, <1>5, <1>6, <1>7 DEF PushBlock

(***************************************************************************)
(* The steps of a fork switch.                                             *)
(***************************************************************************)
LEMMA SwitchStepGood ==
    ASSUME NEW x, RunInv(x), NEW stray \in StrayValues, SwitchStep(stray)
    PROVE  RunInv(x)'
<1>1. /\ fdb \in ForkDb /\ log \in Seq(Block) /\ crashes \in Nat /\ stray \in BOOLEAN
      /\ chain.st.head \in BlockId /\ OtherTypes
  BY ConfigAssumption, ChainFields DEF RunInv, OtherTypes, GoodChain
<1>2. mode \in {"pop", "push", "unwind", "restore"}
  BY DEF SwitchStep, PopBlock, PopDone, PushNext, RestoreNext
<1>3. GoodChain(chain, 0, x) /\ ~pending /\ sw.new \in Block /\ sw.old \in Block
  BY <1>2 DEF RunInv, SwitchGood, PendingSessions
<1>4. CASE PopBlock
  <2>1. CASE Fetchable(chain.st.head) /\ CanPop(fdb, Held)
    <3>1. /\ fdb' = pop_block(fdb) /\ chain' = undo(chain) /\ queued' = TRUE
          /\ mode \in {"pop", "unwind"}
          /\ UNCHANGED <<mode, sw, pending, result, log, crashes>>
      BY <1>4, <2>1 DEF PopBlock
    <3>2. pop_block(fdb) \in ForkDb
      BY <1>1, <2>1, PopBlockType DEF CanPop
    <3>3. GoodChain(chain', PendingSessions', x)
      BY <1>3, <3>1, UndoGood DEF PendingSessions
    <3>4. OtherTypes'
      BY <1>1, <3>1, <3>2 DEF OtherTypes
    <3>5. SwitchGood'
      BY <3>1 DEF RunInv, SwitchGood
    <3> QED BY <3>3, <3>4, <3>5 DEF RunInv
  <2>2. CASE ~(Fetchable(chain.st.head) /\ CanPop(fdb, Held))
    BY <1>1, <1>3, <1>4, <2>2, ReturnGood DEF PopBlock
  <2> QED BY <2>1, <2>2
<1>5. CASE PopDone
  <2>1. /\ UNCHANGED <<chain, log, fdb, sw, pending, queued, result, crashes>>
        /\ mode' \in {"push", "restore"} /\ chain.st.head = Root
    BY <1>5 DEF PopDone
  <2>2. GoodChain(chain', PendingSessions', x)
    BY <1>3, <2>1 DEF PendingSessions
  <2>3. OtherTypes'
    BY <1>1, <2>1 DEF OtherTypes, Running
  <2>4. block_num[Root] < block_num[sw.new] /\ block_num[Root] < block_num[sw.old]
    BY <1>2, RootIs
  <2>5. SwitchGood'
    BY <1>2, <2>1, <2>4 DEF RunInv, SwitchGood
  <2> QED BY <2>2, <2>3, <2>5 DEF RunInv
<1>6. CASE PushNext(stray)
  <2> DEFINE b == NextOf(sw.new)
             d == ApplyInSession(chain, fdb, Held, b, stray)
  <2>1. b \in Block /\ (b # sw.new => block_num[b] < block_num[sw.new]) /\ mode = "push"
    BY <1>1, <1>3, <1>6, NextOfIs DEF PushNext, RunInv, SwitchGood
  <2>2. /\ log' = d.log /\ crashes' = crashes
        /\ \/ /\ d.ok /\ b # sw.new
              /\ chain' = d.chain /\ fdb' = d.fdb
              /\ UNCHANGED <<mode, sw, pending, queued, result>>
           \/ /\ d.ok /\ b = sw.new
              /\ Return("switched", queued, d.chain, d.fdb)
           \/ /\ ~d.ok
              /\ chain' = d.chain
              /\ fdb' = set_head(remove(d.fdb, RestOfBranch(b)), sw.old)
              /\ mode' = "unwind"
              /\ UNCHANGED <<sw, pending, queued, result>>
    BY <1>6 DEF PushNext
  <2> HIDE DEF b
  <2>3. GoodBundle(d, 0, x) /\ (d.ok => d.chain.st.head = b)
    BY <1>1, <1>3, <2>1, ApplyInSessionGood
  <2> HIDE DEF d
  <2>4. GoodChain(d.chain, 0, x) /\ d.log \in Seq(Block) /\ d.fdb \in ForkDb
    BY <2>3 DEF GoodBundle, SoundChain, Replaying
  <2>5. CASE /\ d.ok /\ b # sw.new
             /\ chain' = d.chain /\ fdb' = d.fdb
             /\ UNCHANGED <<mode, sw, pending, queued, result>>
    <3>1. GoodChain(chain', PendingSessions', x)
      BY <1>3, <2>4, <2>5 DEF PendingSessions
    <3>2. OtherTypes'
      BY <1>1, <2>2, <2>4, <2>5 DEF OtherTypes
    <3>3. SwitchGood'
      BY <2>1, <2>3, <2>5 DEF RunInv, SwitchGood
    <3> QED BY <3>1, <3>2, <3>3 DEF RunInv
  <2>6. CASE Return("switched", queued, d.chain, d.fdb)
    BY <1>1, <2>2, <2>4, <2>6, ReturnGood
  <2>7. CASE /\ chain' = d.chain
             /\ fdb' = set_head(remove(d.fdb, RestOfBranch(b)), sw.old)
             /\ mode' = "unwind"
             /\ UNCHANGED <<sw, pending, queued, result>>
    <3>1. GoodChain(chain', PendingSessions', x)
      BY <1>3, <2>4, <2>7 DEF PendingSessions
    <3>2. fdb' \in ForkDb
      BY <1>3, <2>4, <2>7, RemoveType, SetHeadType DEF BlockId
    <3>3. OtherTypes'
      BY <1>1, <2>2, <2>4, <2>7, <3>2 DEF OtherTypes, Running
    <3>4. SwitchGood'
      BY <1>2, <2>7 DEF RunInv, SwitchGood
    <3> QED BY <3>1, <3>3, <3>4 DEF RunInv
  <2> QED BY <2>2, <2>5, <2>6, <2>7
<1>7. CASE RestoreNext(stray)
  <2> DEFINE b == NextOf(sw.old)
             d == ApplyInSession(chain, fdb, Held, b, stray)
  <2>1. b \in Block /\ (b # sw.old => block_num[b] < block_num[sw.old]) /\ mode = "restore"
    BY <1>1, <1>3, <1>7, NextOfIs DEF RestoreNext, RunInv, SwitchGood
  <2>2. /\ log' = d.log /\ crashes' = crashes
        /\ \/ /\ d.ok /\ b # sw.old
              /\ chain' = d.chain /\ fdb' = d.fdb
              /\ UNCHANGED <<mode, sw, pending, queued, result>>
           \/ Return("throw", queued, d.chain, d.fdb)
    BY <1>7 DEF RestoreNext
  <2> HIDE DEF b
  <2>3. GoodBundle(d, 0, x) /\ (d.ok => d.chain.st.head = b)
    BY <1>1, <1>3, <2>1, ApplyInSessionGood
  <2> HIDE DEF d
  <2>4. GoodChain(d.chain, 0, x) /\ d.log \in Seq(Block) /\ d.fdb \in ForkDb
    BY <2>3 DEF GoodBundle, SoundChain, Replaying
  <2>5. CASE /\ d.ok /\ b # sw.old
             /\ chain' = d.chain /\ fdb' = d.fdb
             /\ UNCHANGED <<mode, sw, pending, queued, result>>
    <3>1. GoodChain(chain', PendingSessions', x)
      BY <1>3, <2>4, <2>5 DEF PendingSessions
    <3>2. OtherTypes'
      BY <1>1, <2>2, <2>4, <2>5 DEF OtherTypes
    <3>3. SwitchGood'
      BY <2>1, <2>3, <2>5 DEF RunInv, SwitchGood
    <3> QED BY <3>1, <3>2, <3>3 DEF RunInv
  <2>6. CASE Return("throw", queued, d.chain, d.fdb)
    BY <1>1, <2>2, <2>4, <2>6, ReturnGood
  <2> QED BY <2>2, <2>5, <2>6
<1> QED
  BY <1>4, <1>5, <1>6, <1>7 DEF SwitchStep

(***************************************************************************)
(* The other threads, in the middle of a switch or outside one.            *)
(***************************************************************************)
LEMMA TransactionGood ==
    ASSUME NEW x, RunInv(x), PushTransaction PROVE RunInv(x)'
<1>1. /\ mode = "idle" /\ pending = FALSE /\ pending' = TRUE
      /\ chain' = start_undo_session(chain)
      /\ UNCHANGED <<log, fdb, mode, sw, queued, result, crashes>>
  BY DEF PushTransaction, RunInv, OtherTypes
<1>2. GoodChain(chain', PendingSessions', x)
  BY <1>1, SessionGood DEF RunInv, PendingSessions
<1> QED
  BY <1>1, <1>2 DEF RunInv, OtherTypes, SwitchGood

\* A validation that arrives at any moment of a running process.
LEMMA PostValidationGood ==
    ASSUME NEW x, RunInv(x), NEW e \in chain.st.bpv, NEW w \in Validators,
           ApplyBlockPostValidation(e, w)
    PROVE  RunInv(x)'
<1> DEFINE k == PendingSessions
           v == Validate(e, w)
           S == (chain.st.bpv \ {e}) \cup {v}
           d == [ok |-> TRUE, chain |-> Validated(e, w), log |-> log, fdb |-> fdb]
           n == block_num[e.id]
           m == MakeIrreversible(d, Held, n)
<1>1. /\ k \in {0, 1} /\ GoodChain(chain, k, x) /\ ChainType(chain) /\ OtherTypes
      /\ log \in Seq(Block) /\ fdb \in ForkDb
  BY DEF RunInv, GoodChain, PendingSessions, OtherTypes
<1> HIDE DEF k
<1>2. e \in Validation /\ n \in Nat /\ n <= block_num[chain.st.head] /\ w \in Witness
  BY <1>1, ChainFields, StateFields, ConfigAssumption DEF GoodChain, Bounded
<1>3. v \in Validation /\ v.id = e.id
  BY <1>2 DEF Validate, Validation
<1>4. S \in SUBSET Validation /\ \A i \in S : block_num[i.id] <= block_num[chain.st.head]
  <2> HIDE DEF v
  <2> QED BY <1>1, <1>2, <1>3, ChainFields, StateFields DEF GoodChain, Bounded
<1>5. Validated(e, w) = [chain EXCEPT !.st.bpv = S]
  BY DEF Validated
<1> HIDE DEF S
<1>6. GoodChain(Validated(e, w), k, x) /\ Validated(e, w).st.head = chain.st.head
  <2>1. /\ SoundChain([chain EXCEPT !.st.bpv = S], k, x)
        /\ [chain EXCEPT !.st.bpv = S].st.head = chain.st.head
    <3>1. SoundChain(chain, k, x) /\ k \in {0, 1, Replaying}
      BY <1>1 DEF SoundChain, Replaying
    <3> QED BY <1>4, <3>1, ReplaceValidations
  <2> QED BY <1>1, <1>5, <2>1 DEF SoundChain, Replaying
<1>7. GoodBundle(d, k, x) /\ d.chain.st.head = chain.st.head /\ k \in {0, 1, Replaying}
  BY <1>1, <1>6 DEF GoodBundle, SoundChain, Replaying
<1>8. /\ d.chain = Validated(e, w)
      /\ m = MakeIrreversible([ok |-> TRUE, chain |-> Validated(e, w), log |-> log, fdb |-> fdb],
                              Held, block_num[e.id])
  OBVIOUS
<1> HIDE DEF d, n
<1>9. GoodBundle(m, k, x) /\ m.chain.st = [d.chain.st EXCEPT !.lib = n]
  BY <1>1, <1>2, <1>7, MakeIrreversibleGood
<1>10. m.chain.st.head = chain.st.head
  <2>1. d.chain.st \in State
    BY <1>7, ChainFields, SoundFacts DEF GoodBundle
  <2> QED BY <1>7, <1>9, <2>1 DEF State
<1>11. /\ UNCHANGED <<mode, sw, pending, queued, result, crashes>>
       /\ \/ chain' = d.chain /\ log' = log /\ fdb' = fdb
          \/ /\ chain' = m.chain /\ log' = m.log
             /\ fdb' = IF mode = "idle" THEN Expire(m.fdb) ELSE m.fdb
  BY <1>8 DEF ApplyBlockPostValidation, MarkOnly, MarkAndCommit
<1> HIDE DEF m
<1>12. /\ GoodChain(d.chain, k, x) /\ GoodChain(m.chain, k, x) /\ m.log \in Seq(Block)
       /\ m.fdb \in ForkDb /\ Expire(m.fdb) \in ForkDb
  BY <1>1, <1>7, <1>9, ExpireType DEF GoodBundle, SoundChain, Replaying
<1>13. GoodChain(chain', PendingSessions', x) /\ chain'.st.head = chain.st.head
  BY <1>7, <1>10, <1>11, <1>12 DEF k, PendingSessions
<1>14. OtherTypes'
  BY <1>1, <1>11, <1>12 DEF OtherTypes
<1>15. SwitchGood'
  BY <1>11, <1>13 DEF RunInv, SwitchGood
<1> QED
  BY <1>13, <1>14, <1>15 DEF RunInv

\* Every step of a running process keeps the invariant, for every x.
LEMMA StepGood ==
    ASSUME NEW x, RunInv(x), [Run]_vars PROVE RunInv(x)'
<1>1. CASE Run
  BY <1>1, PushBlockGood, SwitchStepGood, TransactionGood, PostValidationGood DEF Run
<1>2. CASE UNCHANGED vars
  BY <1>2 DEF vars, RunInv, OtherTypes, SwitchGood, PendingSessions
<1> QED
  BY <1>1, <1>2

-----------------------------------------------------------------------------
(***************************************************************************)
(* Crashes and restarts.  What the shared memory holds while no process    *)
(* runs is a good chain, with or without a pending session, or, when the   *)
(* process died in a replay, a settled one.                                *)
(***************************************************************************)
Recoverable(c) == Settled(c) \/ GoodChain(c, 0, ZeroId) \/ GoodChain(c, 1, ZeroId)

AllTypes ==
    /\ log \in Seq(Block) /\ fdb \in ForkDb /\ mode \in Modes
    /\ sw \in [new : BlockId, old : BlockId, num : Nat]
    /\ pending \in BOOLEAN /\ queued \in BOOLEAN
    /\ result \in {"ok", "switched", "throw"} /\ crashes \in Nat

ChainInv ==
    /\ AllTypes
    /\ mode \in Running => GoodChain(chain, PendingSessions, ZeroId) /\ SwitchGood
    /\ mode \notin Running => pending = FALSE
    /\ mode = "down" => Recoverable(chain)
    /\ mode \in {"try", "replay", "replayed", "dead"} => Settled(chain)
    /\ mode = "replayed" => log # <<>>

\* undo_all brings whatever a process left behind to a settled state.
LEMMA OpenedSettled ==
    ASSUME NEW c, Recoverable(c) PROVE Settled(undo_all(c))
<1>1. CASE Settled(c)
  <2>1. c.com >= c.rev
    BY <1>1, ChainFields DEF Settled
  <2> QED BY <1>1, <2>1 DEF undo_all
<1>2. ASSUME NEW k \in {0, 1}, GoodChain(c, k, ZeroId)
      PROVE  Settled(undo_all(c))
  <2>1. ChainType(c)
    BY <1>2 DEF GoodChain
  <2>2. CASE c.com >= c.rev
    <3>1. undo_all(c) = c
      BY <2>2 DEF undo_all
    <3>2. c.com = c.rev /\ Bounded(c.st) /\ c.st.lib <= block_num[c.st.head]
      BY <1>2, <2>1, <2>2, ChainFields DEF GoodChain
    <3> QED BY <2>1, <3>1, <3>2 DEF Settled
  <2>3. CASE ~(c.com >= c.rev)
    <3> DEFINE d == undo_all(c)
    <3>1. PICK r \in Sessions(c) : r = c.com + 1
      BY <2>1, <2>3, ChainFields DEF Sessions
    <3>2. d = [st |-> c.undo[r], rev |-> c.com, com |-> c.com, undo |-> <<>>]
      BY <2>3, <3>1 DEF undo_all
    <3> HIDE DEF d
    <3>3. c.undo[r] \in State /\ c.com \in Nat
      BY <2>1, ChainFields
    <3>4. Sessions(d) = {}
      BY <3>2, <3>3 DEF Sessions
    <3>5. ChainType(d)
      BY <3>2, <3>3, <3>4 DEF ChainType
    <3>6. Bounded(c.undo[r]) /\ c.undo[r].lib <= c.com /\ block_num[c.undo[r].head] = r - 1
      BY <1>2 DEF GoodChain
    <3>7. block_num[c.undo[r].head] = c.com
      BY <3>1, <3>3, <3>6
    <3>8. Settled(d)
      BY <3>2, <3>5, <3>6, <3>7 DEF Settled
    <3> QED BY <3>8 DEF d
  <2> QED BY <2>2, <2>3
<1> QED
  BY <1>1, <1>2 DEF Recoverable

\* In a running process the two invariants are the same.
LEMMA RunningInv == (mode \in Running) => (ChainInv <=> RunInv(ZeroId))
BY DEF ChainInv, AllTypes, RunInv, OtherTypes, Modes, Running

\* A process that has died leaves what it held in the shared memory.
LEMMA KilledGood ==
    ASSUME ChainInv, Killed, log' \in Seq(Block), Recoverable(chain')
    PROVE  ChainInv'
<1>1. /\ crashes \in Nat /\ crashes' = crashes + 1 /\ mode' = "down" /\ fdb' = EmptyForkDb
      /\ sw' = NoSwitch /\ pending' = FALSE /\ queued' = FALSE /\ result' = "ok"
  BY DEF Killed, ChainInv, AllTypes
<1>2. fdb' \in ForkDb
  BY <1>1, DefaultMaxSizeAssumption DEF EmptyForkDb, ForkDb, BlockId
<1>3. sw' \in [new : BlockId, old : BlockId, num : Nat]
  BY <1>1 DEF NoSwitch, BlockId
<1>4. AllTypes'
  <2>1. crashes' \in Nat /\ mode' \in Modes /\ result' \in {"ok", "switched", "throw"}
    BY <1>1 DEF Modes
  <2>2. pending' \in BOOLEAN /\ queued' \in BOOLEAN
    BY <1>1
  <2> QED BY <1>2, <1>3, <2>1, <2>2 DEF AllTypes
<1> QED
  BY <1>1, <1>4 DEF ChainInv, Running

(***************************************************************************)
(* A process that dies between the commit and the end of the append leaves *)
(* a good chain and blocks in the log.                                     *)
(***************************************************************************)
LEMMA CrashCommittingGood ==
    ASSUME NEW c, GoodChain(c, 0, ZeroId), NEW f \in ForkDb, NEW b \in Block,
           log \in Seq(Block), CrashCommitting(c, f, b)
    PROVE  log' \in Seq(Block) /\ Recoverable(chain')
<1>1. PICK s : s = start_undo_session(c)
  OBVIOUS
<1>2. PICK d : d = [s EXCEPT !.st = Signed(@, b)]
  OBVIOUS
<1>3. PICK n : n = NewIrreversible(d.st, schedule[previous[b]])
  OBVIOUS
<1>4. PICK upto \in Len(log)..n :
        /\ ~Refused(c.st, b)
        /\ Missing(log, f, Held, upto) = {}
        /\ chain' = commit([d EXCEPT !.st.lib = n], n)
        /\ log' = AppendToLog(log, f, Held, upto)
  BY <1>1, <1>2, <1>3 DEF CrashCommitting
<1>5. GoodChain(s, 1, ZeroId) /\ s.st = c.st
  BY <1>1, SessionGood
<1>6. GoodChain(d, 0, ZeroId)
  BY <1>2, <1>4, <1>5, SignedGood DEF Refused
<1>7. n \in Nat /\ n <= block_num[d.st.head]
  <2>1. schedule[previous[b]] \in SUBSET Witness
    BY TreeTypes, ScheduleAssumption
  <2>2. SoundChain(d, 0, ZeroId)
    BY <1>6 DEF SoundChain, Replaying
  <2> QED BY <1>3, <2>1, <2>2, NewIrreversibleIs
<1>8. GoodChain(chain', 0, ZeroId)
  BY <1>4, <1>6, <1>7, CommitGood
<1>9. log' \in Seq(Block)
  <2>1. upto \in Nat
    BY <1>7
  <2> QED BY <1>4, <2>1, AppendType
<1> QED
  BY <1>8, <1>9 DEF Recoverable

\* However the process goes down, what is left can be opened.
LEMMA DeathGood ==
    ASSUME ChainInv, Crash \/ Close \/ CrashInSwitch \/ \E b \in Block : CrashInPush(b)
    PROVE  ChainInv'
<1>0. log \in Seq(Block) /\ fdb \in ForkDb
  BY DEF ChainInv, AllTypes
<1>1. CASE Crash
  <2>1. log' \in Seq(Block) /\ chain' = chain /\ Killed
    BY <1>0, <1>1 DEF Crash
  <2>2. Recoverable(chain)
    BY DEF ChainInv, AllTypes, Modes, Recoverable, PendingSessions
  <2> QED BY <2>1, <2>2, KilledGood
<1>2. CASE Close
  <2>1. log' \in Seq(Block) /\ chain' = Cleared /\ Killed /\ mode \in Running
    BY <1>0, <1>2 DEF Close, Running
  <2>2. GoodChain(Cleared, 0, ZeroId)
    BY <2>1, RunningInv, ClearedGood
  <2>3. Recoverable(chain')
    BY <2>1, <2>2 DEF Recoverable
  <2> QED BY <2>1, <2>3, KilledGood
<1>3. CASE CrashInSwitch
  <2>1. PICK b : b = NextOf(IF mode = "push" THEN sw.new ELSE sw.old)
    OBVIOUS
  <2>2. Killed /\ mode \in {"push", "restore"} /\ CrashCommitting(chain, fdb, b)
    BY <1>3, <2>1 DEF CrashInSwitch
  <2>3. GoodChain(chain, PendingSessions, ZeroId) /\ SwitchGood
    BY <2>2 DEF ChainInv, Running
  <2>4. PendingSessions = 0 /\ chain.st.head \in BlockId
    BY <2>2, <2>3, ChainFields DEF SwitchGood, PendingSessions, GoodChain
  <2>5. b \in Block
    BY <2>1, <2>2, <2>3, <2>4, NextOfIs DEF SwitchGood
  <2> QED BY <1>0, <2>2, <2>3, <2>4, <2>5, CrashCommittingGood, KilledGood
<1>4. ASSUME NEW b \in Block, CrashInPush(b) PROVE ChainInv'
  <2>1. Killed /\ mode \in Running /\ CrashCommitting(Cleared, push_block(fdb, b), b)
    BY <1>4 DEF CrashInPush, Running
  <2>2. GoodChain(Cleared, 0, ZeroId)
    BY <2>1, RunningInv, ClearedGood
  <2>3. push_block(fdb, b) \in ForkDb
    BY <1>0, PushBlockType
  <2> QED BY <1>0, <2>1, <2>2, <2>3, CrashCommittingGood, KilledGood
<1> QED
  BY <1>1, <1>2, <1>3, <1>4

\* start_block makes a block the head of the fork database.
LEMMA StartBlockType ==
    ASSUME NEW f \in ForkDb, NEW b \in Block PROVE start_block(f, b) \in ForkDb
BY DEF start_block, ForkDb, BlockId

\* database::open gives a good chain, or one to replay on.
LEMMA OpenGood ==
    ASSUME ChainInv, Open \/ OpenReplay \/ OpenEmptyLog PROVE ChainInv'
<1>1. mode = "down" /\ Recoverable(chain) /\ AllTypes /\ pending = FALSE
  BY DEF Open, OpenReplay, OpenEmptyLog, ChainInv, Running
<1>2. PICK c : c = Opened
  OBVIOUS
<1>3. Settled(c) /\ c.st.head \in BlockId
  BY <1>1, <1>2, OpenedSettled, ChainFields DEF Opened, Settled
<1>4. CASE Open
  <2>1. /\ c.rev = block_num[c.st.head] /\ mode' = "idle" /\ chain' = c
        /\ fdb' = (IF c.st.head = ZeroId THEN fdb ELSE start_block(fdb, c.st.head))
        /\ UNCHANGED <<log, sw, pending, queued, result, crashes>>
    BY <1>2, <1>4 DEF Open, NeedsReplay, RevisionMatches
  <2>2. GoodChain(c, 0, ZeroId)
    BY <1>3, <2>1, SettledIsGood
  <2>3. fdb' \in ForkDb
    BY <1>1, <1>3, <2>1, StartBlockType DEF AllTypes, BlockId
  <2>4. AllTypes'
    BY <1>1, <2>1, <2>3 DEF AllTypes, Modes, Running
  <2>5. GoodChain(chain', PendingSessions', ZeroId)
    BY <1>1, <2>1, <2>2 DEF PendingSessions
  <2>6. SwitchGood'
    BY <2>1 DEF SwitchGood
  <2> QED BY <2>1, <2>4, <2>5, <2>6 DEF ChainInv, Running
<1>5. CASE OpenReplay
  <2>1. /\ mode' \in {"try", "replay"} /\ (chain' = Wiped \/ chain' = c)
        /\ UNCHANGED <<log, fdb, sw, pending, queued, result, crashes>>
    BY <1>2, <1>5 DEF OpenReplay
  <2>2. Settled(chain')
    BY <1>3, <2>1, WipedGood
  <2>3. AllTypes'
    BY <1>1, <2>1 DEF AllTypes, Modes
  <2> QED BY <1>1, <2>1, <2>2, <2>3 DEF ChainInv, Running
<1>6. CASE OpenEmptyLog
  <2>1. /\ mode' = "idle" /\ chain' = Wiped
        /\ UNCHANGED <<log, fdb, sw, pending, queued, result, crashes>>
    BY <1>6 DEF OpenEmptyLog
  <2>2. AllTypes'
    BY <1>1, <2>1 DEF AllTypes, Modes, Running
  <2>3. GoodChain(chain', PendingSessions', ZeroId)
    BY <1>1, <2>1, WipedGood DEF PendingSessions
  <2>4. SwitchGood'
    BY <2>1 DEF SwitchGood
  <2> QED BY <2>1, <2>2, <2>3, <2>4 DEF ChainInv, Running
<1> QED
  BY <1>4, <1>5, <1>6

\* A block of the log applied outside any session leaves a settled state.
LEMMA ReindexGood ==
    ASSUME ChainInv, NEW stray \in StrayValues, Reindex(stray) PROVE ChainInv'
<1>1. /\ mode \in {"try", "replay"} /\ Settled(chain) /\ AllTypes /\ pending = FALSE
      /\ UNCHANGED <<log, sw, pending, queued, result, crashes>> /\ stray \in BOOLEAN
      /\ block_num[chain.st.head] \in Nat
  <2>1. mode \in {"try", "replay"} /\ Settled(chain) /\ pending = FALSE
    BY DEF Reindex, ChainInv, Running
  <2> QED BY <2>1, ChainFields, ConfigAssumption DEF Reindex, ChainInv, Settled
<1>2. ASSUME mode' \in {"try", "replay", "replayed", "dead"}, Settled(chain'), fdb' \in ForkDb,
             mode' = "replayed" => log # <<>>
      PROVE  ChainInv'
  <2>1. AllTypes'
    BY <1>1, <1>2 DEF AllTypes, Modes
  <2> QED BY <1>1, <1>2, <2>1 DEF ChainInv, Running
<1>3. PICK n : n = block_num[chain.st.head] + 1
  OBVIOUS
<1>4. \/ n <= Len(log) /\ ReindexBlock(log[n], stray)
      \/ mode' = "dead" /\ chain' = chain /\ fdb' = fdb
  BY <1>3 DEF Reindex
<1>5. CASE mode' = "dead" /\ chain' = chain /\ fdb' = fdb
  BY <1>1, <1>2, <1>5 DEF AllTypes
<1>6. CASE n <= Len(log) /\ ReindexBlock(log[n], stray)
  <2>1. PICK b : b = log[n]
    OBVIOUS
  <2>2. b \in Block /\ log # <<>>
    BY <1>1, <1>3, <1>6, <2>1 DEF AllTypes
  <2> DEFINE e == [ok |-> TRUE, chain |-> chain, log |-> log, fdb |-> fdb]
             d == _apply_block(e, {}, b, stray)
  <2>3. /\ \/ chain' = d.chain /\ fdb' = d.fdb
           \/ chain' = Wiped /\ fdb' = EmptyForkDb
        /\ mode' \in {"try", "replay", "replayed", "dead"}
    BY <1>1, <1>6, <2>1 DEF ReindexBlock
  <2>4. GoodBundle(e, Replaying, ZeroId) /\ e.ok
    BY <1>1 DEF GoodBundle, SoundChain, AllTypes
  <2> HIDE DEF e
  <2>5. GoodBundle(d, Replaying, ZeroId)
    <3>1. AfterBlock(Replaying) = Replaying
      BY DEF AfterBlock
    <3>2. GoodBundle(d, Replaying, ZeroId) \/ GoodBundle(d, AfterBlock(Replaying), ZeroId)
      BY <1>1, <2>2, <2>4, ApplyBlockGood
    <3> HIDE DEF d
    <3> QED BY <3>1, <3>2
  <2> HIDE DEF d
  <2>6. Settled(d.chain) /\ d.fdb \in ForkDb
    BY <2>5 DEF GoodBundle, SoundChain
  <2>7. EmptyForkDb \in ForkDb
    BY DefaultMaxSizeAssumption DEF EmptyForkDb, ForkDb, BlockId
  <2> QED BY <1>2, <2>2, <2>3, <2>6, <2>7, WipedGood
<1> QED
  BY <1>4, <1>5, <1>6

\* The replay ends by making the revision the height of the head.
LEMMA ReindexDoneGood ==
    ASSUME ChainInv, ReindexDone PROVE ChainInv'
<1>1. /\ mode' = "idle" /\ Settled(chain) /\ AllTypes /\ pending = FALSE /\ log # <<>>
      /\ fdb' = start_block(fdb, log[Len(log)])
      /\ UNCHANGED <<log, sw, pending, queued, result, crashes>>
  BY DEF ReindexDone, ChainInv, Running
<1>2. PICK n : n = block_num[chain.st.head]
  OBVIOUS
<1>3. PICK c : c = [chain EXCEPT !.rev = n, !.com = n]
  OBVIOUS
<1>4. chain' = c /\ ChainType(chain) /\ n \in Nat /\ Sessions(chain) = {}
  BY <1>1, <1>2, <1>3, ChainFields DEF ReindexDone, Settled, Sessions
<1>5. /\ c.st = chain.st /\ c.rev = n /\ c.com = n /\ c.undo = chain.undo
      /\ c \in [st : State, undo : [Sessions(chain) -> State], rev : Nat, com : Nat]
  BY <1>3, <1>4 DEF ChainType
<1>6. Sessions(c) = {}
  BY <1>4, <1>5 DEF Sessions
<1>7. Settled(c)
  BY <1>1, <1>2, <1>4, <1>5, <1>6 DEF Settled, ChainType
<1>8. GoodChain(chain', PendingSessions', ZeroId)
  BY <1>1, <1>2, <1>4, <1>5, <1>7, SettledIsGood DEF PendingSessions
<1>9. log[Len(log)] \in Block
  BY <1>1 DEF AllTypes
<1>10. AllTypes'
  BY <1>1, <1>9, StartBlockType DEF AllTypes, Modes, Running
<1>11. SwitchGood'
  BY <1>1 DEF SwitchGood
<1> QED
  BY <1>1, <1>8, <1>10, <1>11 DEF ChainInv, Running

\* Every step of a running process is one in a running mode.
LEMMA RunIsRunning ==
    ASSUME Run PROVE mode \in Running /\ mode' \in Running
BY DEF Run, PushBlock, PushThrown, PushKept, PushNoBranch, PushFork, PushDirect, StartPush,
       SwitchStep, PopBlock, PopDone, PushNext, RestoreNext, Return, PushTransaction,
       ApplyBlockPostValidation, Running

\* ChainInv is an invariant of the whole specification.
LEMMA ChainInvariant == Spec => []ChainInv
<1>1. Init => ChainInv
  BY InitGood, RunningInv DEF Init, Running
<1>2. ASSUME ChainInv, [Next]_vars PROVE ChainInv'
  <2>1. CASE Run
    <3>1. mode \in Running /\ mode' \in Running
      BY <2>1, RunIsRunning
    <3>2. RunInv(ZeroId)'
      BY <1>2, <2>1, <3>1, RunningInv, StepGood
    <3> QED BY <3>1, <3>2 DEF ChainInv, AllTypes, RunInv, OtherTypes, Modes, Running
  <2>2. CASE Restart
    BY <1>2, <2>2, DeathGood, OpenGood, ReindexGood, ReindexDoneGood DEF Restart
  <2>3. CASE UNCHANGED vars
    BY <1>2, <2>3 DEF vars, ChainInv, AllTypes, SwitchGood, PendingSessions
  <2> QED BY <1>2, <2>1, <2>2, <2>3 DEF Next
<1> QED
  BY <1>1, <1>2, PTL DEF Spec

-----------------------------------------------------------------------------
(***************************************************************************)
(* What the invariant gives.                                               *)
(***************************************************************************)

\* The committed state is on the branch of the head, at the committed height.
LEMMA BaseIs ==
    ASSUME NEW c, NEW k \in {0, 1}, NEW x, GoodChain(c, k, x)
    PROVE  /\ Base(c).head \in ancestors[c.st.head]
           /\ block_num[Base(c).head] = c.com
           /\ GoodChain(c, k, Base(c).head)
<1>1. ChainType(c)
  BY DEF GoodChain
<1>2. Base(c).head \in ancestors[c.st.head] /\ block_num[Base(c).head] = c.com
  <2>1. CASE c.com >= c.rev
    <3>1. Base(c) = c.st /\ c.rev = c.com /\ c.rev = block_num[c.st.head]
      BY <1>1, <2>1, ChainFields DEF Base, GoodChain
    <3> QED BY <1>1, <3>1, ChainFields, TreeTypes
  <2>2. CASE ~(c.com >= c.rev)
    <3>1. PICK r \in Sessions(c) : r = c.com + 1
      BY <1>1, <2>2, ChainFields DEF Sessions
    <3>2. Base(c) = c.undo[r]
      BY <2>2, <3>1 DEF Base
    <3>3. c.undo[r].head \in ancestors[c.st.head] /\ block_num[c.undo[r].head] = r - 1
      BY DEF GoodChain
    <3> QED BY <1>1, <3>1, <3>2, <3>3, ChainFields
  <2> QED BY <2>1, <2>2
<1>3. GoodChain(c, k, Base(c).head)
  <2>1. \A y : y \in ancestors[c.st.head] /\ block_num[y] = c.com => GoodChain(c, k, y)
    BY <1>1, ChainFields DEF GoodChain
  <2> QED BY <1>2, <2>1
<1> QED
  BY <1>2, <1>3

\* RunInv is an invariant of a running process.
LEMMA RunInvariant == RunSpec => []RunInv(ZeroId)
<1>1. Init => RunInv(ZeroId)
  BY InitGood
<1>2. RunInv(ZeroId) /\ [Run]_vars => RunInv(ZeroId)'
  BY StepGood
<1> QED
  BY <1>1, <1>2, PTL DEF RunSpec

(***************************************************************************)
(* Every variable keeps its type, through crashes, restarts and replays    *)
(* too: the block log never receives anything but a block, and the undo    *)
(* stack has exactly one state per session.                                *)
(***************************************************************************)
THEOREM TypeCorrect == Spec => []TypeOK
<1>1. ChainInv => ChainType(chain)
  BY DEF ChainInv, AllTypes, Modes, Recoverable, Settled, GoodChain
<1>2. ChainInv => TypeOK
  BY <1>1 DEF ChainInv, AllTypes, ChainType, TypeOK
<1> QED
  BY <1>2, ChainInvariant, PTL

(***************************************************************************)
(* Undoing n sessions undoes exactly the last n blocks (start_undo_session,*)
(* pop_block, commit), whatever switches, failures, crashes and restarts   *)
(* came before.                                                            *)
(***************************************************************************)
THEOREM UndoFollows == Spec => []UndoFollowsChain
<1>1. ChainInv => UndoFollowsChain
  BY DEF ChainInv, GoodChain, UndoFollowsChain, PendingSessions
<1> QED
  BY <1>1, ChainInvariant, PTL

(***************************************************************************)
(* A switch of forks leaves nothing of the abandoned branch behind: every  *)
(* state that undo can reach differs from the one below it by what its     *)
(* head block does to the witnesses (update_signing_witness), and no more. *)
(* This is so of the shared memory that a crash leaves as well.            *)
(***************************************************************************)
THEOREM UndoExact == Spec => []UndoIsExact
<1>1. ChainInv => ExactUndo(chain)
  <2>1. Settled(chain) => Sessions(chain) = {}
    BY ChainFields DEF Settled, Sessions
  <2>2. Settled(chain) => ExactUndo(chain)
    BY <2>1 DEF ExactUndo
  <2> QED BY <2>2 DEF ChainInv, AllTypes, Modes, Recoverable, GoodChain
<1>2. ExactUndo(chain) => UndoIsExact
  BY DEF ExactUndo, UndoIsExact, NextState
<1> QED
  BY <1>1, <1>2, ChainInvariant, PTL

(***************************************************************************)
(* No state on the undo stack calls a block irreversible that could still  *)
(* be undone (update_last_irreversible_block and the two post validation   *)
(* functions, also when the append to the block log throws), and a restart *)
(* does not bring one back.                                                *)
(***************************************************************************)
THEOREM IrreversibleCommitted == Spec => []IrreversibleIsCommitted
<1>1. ChainInv => IrreversibleIsCommitted
  <2> SUFFICES ASSUME ChainInv, mode \in Running, NEW r \in (chain.com + 1)..(chain.rev + 1)
               PROVE  StateAt(chain, r).lib <= block_num[Base(chain).head]
    BY DEF IrreversibleIsCommitted
  <2>1. GoodChain(chain, PendingSessions, ZeroId) /\ PendingSessions \in {0, 1}
    BY DEF ChainInv, PendingSessions
  <2>2. block_num[Base(chain).head] = chain.com
    BY <2>1, BaseIs
  <2>3. ChainType(chain)
    BY <2>1 DEF GoodChain
  <2>4. CASE r = chain.rev + 1
    BY <2>1, <2>2, <2>4 DEF GoodChain, StateAt
  <2>5. CASE r # chain.rev + 1
    <3>1. r \in Sessions(chain)
      BY <2>3, <2>5, ChainFields DEF Sessions
    <3> QED BY <2>1, <2>2, <2>5, <3>1 DEF GoodChain, StateAt
  <2> QED BY <2>4, <2>5
<1> QED
  BY <1>1, ChainInvariant, PTL

(***************************************************************************)
(* A running node implements Finality: no fork switch, failed switch or    *)
(* post validation ever leaves the branch of a committed block.            *)
(***************************************************************************)
THEOREM FinalityKept == RunSpec => FinalityHolds
<1>1. Init => F!Init
  BY DEF Init, F!Init, Wiped, GenesisState, Base
<1>2. ASSUME RunInv(ZeroId), [Run]_vars
      PROVE  F!Step
  <2>1. GoodChain(chain, PendingSessions, ZeroId) /\ PendingSessions \in {0, 1}
    BY <1>2 DEF RunInv, PendingSessions
  <2>2. PICK x : x = Base(chain).head
    OBVIOUS
  <2>3. RunInv(x)
    BY <1>2, <2>1, <2>2, BaseIs DEF RunInv
  <2>4. RunInv(x)'
    BY <1>2, <2>3, StepGood
  <2>5. GoodChain(chain', PendingSessions', x) /\ PendingSessions' \in {0, 1}
    BY <2>4 DEF RunInv, PendingSessions
  <2>6. /\ Base(chain').head \in ancestors[chain'.st.head]
        /\ block_num[Base(chain').head] = chain'.com
    BY <2>5, BaseIs
  <2>7. chain'.st.head \in BlockId /\ Base(chain').head \in BlockId
    BY <2>5, <2>6, ChainFields, TreeTypes DEF GoodChain
  <2>8. x \in ancestors[chain'.st.head] /\ block_num[x] <= block_num[Base(chain').head]
    BY <2>5, <2>6 DEF GoodChain
  <2>9. x \in ancestors[Base(chain').head]
    BY <2>6, <2>7, <2>8, Comparable
  <2> QED BY <2>2, <2>6, <2>7, <2>9 DEF F!Step, F!BlockId, BlockId
<1>3. RunInv(ZeroId) /\ [Run]_vars => [F!Step]_<<Base(chain).head, chain.st.head>>
  BY <1>2
<1> QED
  BY <1>1, <1>3, RunInvariant, PTL DEF RunSpec, FinalityHolds, F!Spec
============================================================================
