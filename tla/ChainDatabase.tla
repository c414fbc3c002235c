--------------------------- MODULE ChainDatabase ---------------------------
(***************************************************************************)
(* graphene::chain::database as the keeper of the chain: which block is    *)
(* the head, which are irreversible, what can still be undone, what is in  *)
(* the block log, and how a push of a block, a switch of forks, a block    *)
(* post validation (BPV), a pending transaction, a crash and a restart     *)
(* change that.                                                            *)
(*                                                                         *)
(* push_block runs under the write lock, but apply_block_post_validation   *)
(* is called by the network thread and by the witness plugin without it,   *)
(* so a fork switch is split into one action per block popped or applied   *)
(* and ApplyBlockPostValidation is enabled between them.                   *)
(***************************************************************************)
EXTENDS ForkDatabase, Sequences

CONSTANTS
    CHAIN_IRREVERSIBLE_THRESHOLD,       \* out of CHAIN_100_PERCENT
    CHAIN_IRREVERSIBLE_SUPPORT_MIN_RUN,
    CHAIN_MAX_UNDO_HISTORY,
    CHAIN_MAX_BLOCK_POST_VALIDATION_COUNT,
    Validators,                         \* witnesses whose validations arrive
    StrayValues,                        \* what an unwritten bool may hold
    Transactions,                       \* TRUE: transactions are pushed too
    MaxCrashes                          \* bound: how often the process dies

CHAIN_100_PERCENT == 10000

ASSUME ConfigAssumption ==
    /\ CHAIN_IRREVERSIBLE_THRESHOLD \in 1..CHAIN_100_PERCENT
    /\ CHAIN_IRREVERSIBLE_SUPPORT_MIN_RUN \in Nat
    /\ CHAIN_MAX_UNDO_HISTORY \in Nat
    /\ CHAIN_MAX_BLOCK_POST_VALIDATION_COUNT \in Nat \ {0, 1}
    /\ Validators \subseteq Witness
    /\ StrayValues \subseteq BOOLEAN /\ StrayValues # {}
    /\ Transactions \in BOOLEAN
    /\ MaxCrashes \in Nat

VARIABLES
    chain,    \* the shared-memory database: [st, undo, rev, com], see below
    log,      \* the block log: the irreversible blocks written to disk
    fdb,      \* _fork_db
    mode,     \* where the thread in push_block (or in plugin_startup) is
    sw,       \* the fork switch in progress: [new, old, num]
    pending,  \* _pending_tx_session.valid()
    queued,   \* the push in progress has transactions to push again
    result,   \* how the last push_block ended
    crashes   \* how often the process has been killed

vars == <<chain, log, fdb, mode, sw, pending, queued, result, crashes>>

Running == {"idle", "pop", "push", "unwind", "restore"}

-----------------------------------------------------------------------------
(***************************************************************************)
(* The chain state: the fields of dynamic_global_property_object, of the   *)
(* witness objects and of the block_post_validation objects that decide    *)
(* irreversibility.                                                        *)
(*   head  head_block_id (head_block_number is its height)                 *)
(*   lib   last_irreversible_block_num                                     *)
(*   run   current_run of each witness                                     *)
(*   sup   last_supported_block_num of each witness                        *)
(*   bpv   the validation objects: the block, the witnesses listed in it,  *)
(*         those that have validated, and what the one array element that  *)
(*         create_block_post_validation never writes happens to hold.      *)
(***************************************************************************)
Validation == [id : Block, listed : SUBSET Witness, done : SUBSET Witness,
               stray : BOOLEAN]

State == [head : BlockId, lib : Nat, run : [Witness -> Nat],
          sup : [Witness -> Nat], bpv : SUBSET Validation]

GenesisState == [head |-> ZeroId, lib |-> 0, run |-> [w \in Witness |-> 0],
                 sup |-> [w \in Witness |-> 0], bpv |-> {}]

(***************************************************************************)
(* The undo stack of chainbase.  Session r (com < r <= rev) saved the      *)
(* state undo[r]; sessions up to com have been committed.                  *)
(***************************************************************************)
Sessions(c) == (c.com + 1)..c.rev

start_undo_session(c) ==
    [st |-> c.st, rev |-> c.rev + 1, com |-> c.com,
     undo |-> [r \in (c.com + 1)..(c.rev + 1) |->
                  IF r = c.rev + 1 THEN c.st ELSE c.undo[r]]]

\* Mutant: the witness objects are not rolled back.
UndoForgetsWitnesses(c) ==
    IF c.com >= c.rev THEN c
    ELSE [st |-> [c.undo[c.rev] EXCEPT !.run = c.st.run, !.sup = c.st.sup],
          rev |-> c.rev - 1, com |-> c.com,
          undo |-> [r \in (c.com + 1)..(c.rev - 1) |-> c.undo[r]]]

undo(c) ==
    IF c.com >= c.rev THEN c
    ELSE [st |-> c.undo[c.rev], rev |-> c.rev - 1, com |-> c.com,
          undo |-> [r \in (c.com + 1)..(c.rev - 1) |-> c.undo[r]]]

\* Mutant: the committed sessions are not dropped.
CommitKeepsSessions(c, n) == [c EXCEPT !.com = Larger(@, Smaller(n, c.rev))]

commit(c, n) ==
    IF n <= c.com THEN c
    ELSE LET top == Smaller(n, c.rev)
         IN  [st |-> c.st, rev |-> c.rev, com |-> top,
              undo |-> [r \in (top + 1)..c.rev |-> c.undo[r]]]

undo_all(c) ==
    IF c.com >= c.rev THEN c
    ELSE [st |-> c.undo[c.com + 1], rev |-> c.com, com |-> c.com, undo |-> <<>>]

\* The state that no undo can leave: what a restart comes back to.
Base(c) == IF c.com >= c.rev THEN c.st ELSE c.undo[c.com + 1]

-----------------------------------------------------------------------------
(***************************************************************************)
(* Irreversibility.  A bundle d = [ok, chain, log, fdb] is threaded        *)
(* through the calls of _apply_block; ok = FALSE once an exception is on   *)
(* its way.  held are the items the caller keeps alive.                    *)
(***************************************************************************)

\* update_global_dynamic_data and update_signing_witness.
Signed(st, b) ==
    LET p == producer[b]
        run == [w \in Witness |-> IF w \in skipped[b] THEN 0 ELSE st.run[w]]
    IN  [st EXCEPT !.head = b,
                   !.sup = IF run[p] >= CHAIN_IRREVERSIBLE_SUPPORT_MIN_RUN
                           THEN [@ EXCEPT ![p] = block_num[b]] ELSE @,
                   !.run = [run EXCEPT ![p] = @ + 1]]

\* The nth_element of the scheduled witnesses by last_supported_block_num.
NthSupported(st, witnesses, n) ==
    {v \in {st.sup[w] : w \in witnesses} :
        /\ Cardinality({w \in witnesses : st.sup[w] < v}) <= n
        /\ Cardinality({w \in witnesses : st.sup[w] <= v}) > n}

\* last_irreversible_block_num only grows here.
Offset(witnesses) ==
    ((CHAIN_100_PERCENT - CHAIN_IRREVERSIBLE_THRESHOLD) * Cardinality(witnesses))
        \div CHAIN_100_PERCENT

NewIrreversible(st, witnesses) ==
    LET higher == {v \in NthSupported(st, witnesses, Offset(witnesses)) : v > st.lib}
    IN  IF higher = {} THEN st.lib ELSE CHOOSE v \in higher : TRUE

\* The heights up to n that the block log lacks and _fork_db cannot supply.
Missing(l, f, held, n) ==
    {m \in (Len(l) + 1)..n : fetch_block_on_main_branch_by_number(f, held, m) = ZeroId}

(***************************************************************************)
(* Make height n irreversible: set last_irreversible_block_num, commit,    *)
(* append to the block log whatever it lacks, lop the fork database.  The  *)
(* commit and the blocks appended stay when the append throws.             *)
(***************************************************************************)
Lowest(S) == CHOOSE m \in S : \A k \in S : m <= k

AppendToLog(l, f, held, upto) ==
    [m \in 1..Larger(Len(l), upto) |->
        IF m \in DOMAIN l THEN l[m] ELSE fetch_block_on_main_branch_by_number(f, held, m)]

\* Mutant: one block too few is committed.
CommitOneLess(missing, d, held, n) ==
    [ok |-> missing = {},
     chain |-> commit([d.chain EXCEPT !.st.lib = n], n - 1),
     log |-> AppendToLog(d.log, d.fdb, held, IF missing = {} THEN n ELSE Lowest(missing) - 1),
     fdb |-> IF missing = {} THEN set_max_size(d.fdb, block_num[d.chain.st.head] - n + 1)
             ELSE d.fdb]

IrreversibleUnless(missing, d, held, n) ==
    [ok |-> missing = {},
     chain |-> commit([d.chain EXCEPT !.st.lib = n], n),
     log |-> AppendToLog(d.log, d.fdb, held, IF missing = {} THEN n ELSE Lowest(missing) - 1),
     fdb |-> IF missing = {} THEN set_max_size(d.fdb, block_num[d.chain.st.head] - n + 1)
             ELSE d.fdb]

MakeIrreversible(d, held, n) ==
    IrreversibleUnless(Missing(d.log, d.fdb, held, n), d, held, n)

-----------------------------------------------------------------------------
(***************************************************************************)
(* Block post validation.                                                  *)
(***************************************************************************)
Validations(e) == Cardinality(e.done) + (IF e.stray THEN 1 ELSE 0)

EnoughValidations(e, witnesses) ==
    Validations(e) >= (Cardinality(witnesses) * CHAIN_IRREVERSIBLE_THRESHOLD)
                            \div CHAIN_100_PERCENT

\* The heights above lib that are validated without a gap.
ValidatedRun(st, witnesses) ==
    {n \in (st.lib + 1)..block_num[st.head] :
        \A m \in (st.lib + 1)..n :
            \E e \in st.bpv : block_num[e.id] = m /\ EnoughValidations(e, witnesses)}

(***************************************************************************)
(* check_block_post_validation_chain: the loop takes the objects in the    *)
(* order of their heights and makes one height irreversible at a time, so  *)
(* it ends at the top of the validated run or at the first append that     *)
(* throws.  The objects it used are removed.                               *)
(***************************************************************************)
StopAt(missing, lib, top) == IF missing = {} THEN top ELSE Larger(lib + 1, Lowest(missing))

RemoveValidated(d, lib) ==
    [d EXCEPT !.chain.st.bpv =
        {e \in @ : block_num[e.id] \notin
                        (lib + 1)..(IF d.ok THEN d.chain.st.lib ELSE d.chain.st.lib - 1)}]

TakeValidated(run, d, held) ==
    LET top == CHOOSE n \in run : n + 1 \notin run
        stop == StopAt(Missing(d.log, d.fdb, held, top), d.chain.st.lib, top)
    IN  RemoveValidated(MakeIrreversible(d, held, stop), d.chain.st.lib)

check_block_post_validation_chain(d, held, witnesses) ==
    IF ValidatedRun(d.chain.st, witnesses) = {} THEN d
    ELSE TakeValidated(ValidatedRun(d.chain.st, witnesses), d, held)

(***************************************************************************)
(* create_block_post_validation: objects at or below last_irreversible are *)
(* dropped, then the oldest if the list is full, then one is created for   *)
(* the new block.  The producer is left out of the list, and the element   *)
(* at the end of the shortened list is never written: stray.               *)
(***************************************************************************)
create_block_post_validation(st, b, stray) ==
    LET live == {e \in st.bpv : block_num[e.id] > st.lib}
        kept == IF Cardinality(live) < CHAIN_MAX_BLOCK_POST_VALIDATION_COUNT THEN live
                ELSE {e \in live : \E o \in live : block_num[o.id] < block_num[e.id]}
    IN  [st EXCEPT !.bpv = kept \cup
            {[id |-> b, listed |-> schedule[b] \ {producer[b]}, done |-> {},
              stray |-> stray /\ producer[b] \in schedule[b]]}]

-----------------------------------------------------------------------------
(***************************************************************************)
(* _apply_block.  Everything up to update_last_irreversible_block that can *)
(* refuse the block: the header must extend the head, the block must be    *)
(* one the chain accepts, and the undo history must suffice.               *)
(***************************************************************************)
\* Mutant: the parent is not compared with the head.
RefusedWithoutParent(st, b) ==
    b \in EarlyBad \/ block_num[b] - st.lib >= CHAIN_MAX_UNDO_HISTORY

Refused(st, b) ==
    \/ previous[b] # st.head
    \/ b \in EarlyBad
    \/ block_num[b] - st.lib >= CHAIN_MAX_UNDO_HISTORY

\* From check_block_post_validation_chain on; d is what it left behind.
AfterCheck(d, b, stray) ==
    IF ~d.ok THEN d
    ELSE [d EXCEPT !.chain.st = create_block_post_validation(@, b, stray)]

\* From update_last_irreversible_block on; d is what it left behind.
AfterIrreversible(d, held, b, stray) ==
    IF ~d.ok \/ b \in LateBad THEN [d EXCEPT !.ok = FALSE]
    ELSE AfterCheck(check_block_post_validation_chain(d, held, schedule[b]), b, stray)

\* With the state the block's producer has signed.
AfterSigned(d, held, b, stray) ==
    AfterIrreversible(
        MakeIrreversible(d, held, NewIrreversible(d.chain.st, schedule[previous[b]])),
        held, b, stray)

_apply_block(d, held, b, stray) ==
    IF Refused(d.chain.st, b) THEN [d EXCEPT !.ok = FALSE]
    ELSE AfterSigned([d EXCEPT !.chain.st = Signed(@, b)], held, b, stray)

\* A session that was not pushed is undone by its destructor.
EndSessionPushed(d) == d   \* Mutant: the session is kept whatever happens.

EndSession(d) == IF d.ok THEN d ELSE [d EXCEPT !.chain = undo(@)]

\* apply_block in an undo session of its own on top of the state c.
ApplyInSession(c, f, held, b, stray) ==
    EndSession(_apply_block([ok |-> TRUE, chain |-> start_undo_session(c),
                             log |-> log, fdb |-> f], held, b, stray))

-----------------------------------------------------------------------------
(***************************************************************************)
(* push_block.                                                             *)
(***************************************************************************)
NoSwitch == [new |-> ZeroId, old |-> ZeroId, num |-> 0]

\* The items in the two branches, kept alive by branches.first and .second.
Held == IF sw = NoSwitch THEN {}
        ELSE Branch(sw.new, sw.num) \cup Branch(sw.old, sw.num)

\* branches.second.back()->data.previous: where the two branches part.
Root == previous[At(sw.old, sw.num)]

\* pending_transactions_restorer: its constructor (clear_pending) ...
Cleared == IF pending THEN undo(chain) ELSE chain

(***************************************************************************)
(* ... and its destructor, when push_block returns or throws: the popped   *)
(* and the pending transactions are pushed again, which opens a session    *)
(* unless they are all known (or there are none).  The switch's local      *)
(* vectors are gone by then.                                               *)
(***************************************************************************)
Return(r, txs, c, f) ==
    \E again \in BOOLEAN :
        /\ again => txs
        /\ pending' = again /\ queued' = FALSE
        /\ chain' = IF again THEN start_undo_session(c) ELSE c
        /\ fdb' = Expire(f)
        /\ mode' = "idle" /\ sw' = NoSwitch /\ result' = r

(***************************************************************************)
(* push_block(b) up to the decision what to do with the fork database's    *)
(* new head.  The database may know b already, and the head returned need  *)
(* not be b.                                                               *)
(***************************************************************************)
StartPush ==
    /\ mode = "idle"
    /\ UNCHANGED crashes

\* _fork_db.push_block throws: too old, or it does not link.
PushThrown(b) ==
    /\ StartPush
    /\ PushThrows(fdb, b)
    /\ Return("throw", pending, Cleared, fdb)
    /\ UNCHANGED log

\* The head returned builds off our head: apply b (not: that head).
PushDirect(b, stray) ==
    /\ StartPush
    /\ ~PushThrows(fdb, b)
    /\ previous[push_block(fdb, b).head] = chain.st.head
    /\ \E d \in {ApplyInSession(Cleared, push_block(fdb, b), {}, b, stray)} :
        /\ log' = d.log
        /\ \/ d.ok /\ Return("ok", pending, d.chain, d.fdb)
           \/ ~d.ok /\ Return("throw", pending, d.chain, remove(d.fdb, {b}))

\* The head returned is not higher than ours: b is kept, nothing is applied.
PushKept(b) ==
    /\ StartPush
    /\ ~PushThrows(fdb, b)
    /\ \E f \in {push_block(fdb, b)} :
        /\ previous[f.head] # chain.st.head
        /\ block_num[f.head] <= block_num[chain.st.head]
        /\ Return("ok", pending, Cleared, f)
    /\ UNCHANGED log

\* fetch_branch_from finds no way between the two heads.
PushNoBranch(b) ==
    /\ StartPush
    /\ ~PushThrows(fdb, b)
    /\ \E f \in {push_block(fdb, b)} :
        /\ previous[f.head] # chain.st.head
        /\ block_num[f.head] > block_num[chain.st.head]
        /\ ~fetch_branch_from_ok(f, f.head, chain.st.head)
        /\ Return("throw", pending, Cleared, f)
    /\ UNCHANGED log

\* A higher fork: the switch begins.
PushFork(b) ==
    /\ StartPush
    /\ ~PushThrows(fdb, b)
    /\ \E f \in {push_block(fdb, b)} :
        /\ previous[f.head] # chain.st.head
        /\ block_num[f.head] > block_num[chain.st.head]
        /\ fetch_branch_from_ok(f, f.head, chain.st.head)
        /\ sw' = [new |-> f.head, old |-> chain.st.head,
                  num |-> BranchNum(f.head, chain.st.head)]
        /\ fdb' = f
    /\ mode' = "pop"
    /\ chain' = Cleared
    /\ pending' = FALSE /\ queued' = pending
    /\ UNCHANGED <<log, result>>

-----------------------------------------------------------------------------
(***************************************************************************)
(* The fork switch, one block at a time.                                   *)
(***************************************************************************)

\* fetch_block_by_id finds the block.
Fetchable(b) == b \in fdb.index \/ (b # ZeroId /\ block_num[b] <= Len(log) /\ log[block_num[b]] = b)

(***************************************************************************)
(* database::pop_block, in the loop to the root of the old branch ("pop")  *)
(* or of the bad one ("unwind").  It moves the fork database's head down   *)
(* too, whatever branch that head is on, and undoes nothing when every     *)
(* session has been committed.                                             *)
(***************************************************************************)
PopBlock ==
    /\ mode \in {"pop", "unwind"}
    /\ chain.st.head # Root
    /\ IF Fetchable(chain.st.head) /\ CanPop(fdb, Held)
       THEN /\ fdb' = pop_block(fdb)
            /\ chain' = undo(chain)
            /\ queued' = TRUE
            /\ UNCHANGED <<mode, sw, pending, result>>
       ELSE Return("throw", queued, chain, fdb)
    /\ UNCHANGED <<log, crashes>>

\* The root is reached: go on to the new branch, or back to the old one.
PopDone ==
    /\ mode \in {"pop", "unwind"}
    /\ chain.st.head = Root
    /\ mode' = IF mode = "pop" THEN "push" ELSE "restore"
    /\ UNCHANGED <<chain, log, fdb, sw, pending, queued, result, crashes>>

\* "remove the rest of branches.first from the fork_db, those blocks are invalid"
RestOfBranch(b) == Branch(sw.new, block_num[b])

NextOf(tip) == At(tip, block_num[chain.st.head] + 1)

\* Apply the next block of the new branch.
PushNext(stray) ==
    /\ mode = "push"
    /\ \E b \in {NextOf(sw.new)} : \E d \in {ApplyInSession(chain, fdb, Held, b, stray)} :
        /\ log' = d.log
        /\ \/ /\ d.ok /\ b # sw.new
              /\ chain' = d.chain /\ fdb' = d.fdb
              /\ UNCHANGED <<mode, sw, pending, queued, result>>
           \/ /\ d.ok /\ b = sw.new
              /\ Return("switched", queued, d.chain, d.fdb)
           \/ /\ ~d.ok
              /\ chain' = d.chain
              /\ fdb' = set_head(remove(d.fdb, RestOfBranch(b)), sw.old)
              /\ mode' = "unwind"
              /\ UNCHANGED <<sw, pending, queued, result>>
    /\ UNCHANGED crashes

\* Apply the next block of the old branch again; the exception is rethrown.
RestoreNext(stray) ==
    /\ mode = "restore"
    /\ \E b \in {NextOf(sw.old)} : \E d \in {ApplyInSession(chain, fdb, Held, b, stray)} :
        /\ log' = d.log
        /\ \/ /\ d.ok /\ b # sw.old
              /\ chain' = d.chain /\ fdb' = d.fdb
              /\ UNCHANGED <<mode, sw, pending, queued, result>>
           \/ /\ ~d.ok \/ b = sw.old
              /\ Return("throw", queued, d.chain, d.fdb)
    /\ UNCHANGED crashes

-----------------------------------------------------------------------------
(***************************************************************************)
(* What the other threads do.                                              *)
(***************************************************************************)

\* push_transaction, under the write lock.  The session is opened before the
\* transaction is evaluated and stays open when it fails.
PushTransaction ==
    /\ Transactions /\ mode = "idle" /\ ~pending
    /\ pending' = TRUE
    /\ chain' = start_undo_session(chain)
    /\ UNCHANGED <<log, fdb, mode, sw, queued, result, crashes>>

(***************************************************************************)
(* apply_block_post_validation(id, w), without the lock, once the          *)
(* signature has been found good.  The change lands in whatever session is *)
(* on top.  The object is marked even if w had validated before, and the   *)
(* height is made irreversible only when it is the next one.               *)
(***************************************************************************)
Validate(e, w) == [e EXCEPT !.done = @ \cup {w}]

Validated(e, w) == [chain EXCEPT !.st.bpv = (@ \ {e}) \cup {Validate(e, w)}]

MarkOnly(e, w) ==
    /\ ~(/\ block_num[e.id] = chain.st.lib + 1
         /\ EnoughValidations(Validate(e, w), schedule[chain.st.head]))
    /\ chain' = Validated(e, w)
    /\ UNCHANGED <<log, fdb>>

MarkAndCommit(e, w) ==
    /\ block_num[e.id] = chain.st.lib + 1
    /\ EnoughValidations(Validate(e, w), schedule[chain.st.head])
    /\ \E d \in {MakeIrreversible([ok |-> TRUE, chain |-> Validated(e, w), log |-> log,
                                   fdb |-> fdb], Held, block_num[e.id])} :
        /\ chain' = d.chain
        /\ log' = d.log
        /\ fdb' = IF mode = "idle" THEN Expire(d.fdb) ELSE d.fdb

ApplyBlockPostValidation(e, w) ==
    /\ mode \in Running
    /\ w \in e.listed
    /\ MarkOnly(e, w) \/ MarkAndCommit(e, w)
    /\ UNCHANGED <<mode, sw, pending, queued, result, crashes>>

-----------------------------------------------------------------------------
(***************************************************************************)
(* A crash loses everything but the shared memory (a mapped file) and the  *)
(* block log.  MaxCrashes bounds how often the process ends.               *)
(***************************************************************************)
Killed ==
    /\ mode # "dead" /\ crashes < MaxCrashes
    /\ crashes' = crashes + 1
    /\ mode' = "down"
    /\ fdb' = EmptyForkDb /\ sw' = NoSwitch
    /\ pending' = FALSE /\ queued' = FALSE /\ result' = "ok"

Crash == Killed /\ UNCHANGED <<chain, log>>

\* database::close, the orderly way down.
Close == mode = "idle" /\ Killed /\ chain' = Cleared /\ UNCHANGED log

(***************************************************************************)
(* The process dies in update_last_irreversible_block, after the commit    *)
(* and with only a part of the new irreversible blocks appended.           *)
(***************************************************************************)
CrashCommitting(c, f, b) ==
    \E d \in {[start_undo_session(c) EXCEPT !.st = Signed(@, b)]} :
        \E n \in {NewIrreversible(d.st, schedule[previous[b]])} :
            \E upto \in Len(log)..n :
                /\ ~Refused(c.st, b)
                /\ Missing(log, f, Held, upto) = {}
                /\ chain' = commit([d EXCEPT !.st.lib = n], n)
                /\ log' = AppendToLog(log, f, Held, upto)

CrashInPush(b) ==
    /\ Killed /\ mode = "idle"
    /\ ~PushThrows(fdb, b)
    /\ previous[push_block(fdb, b).head] = chain.st.head
    /\ CrashCommitting(Cleared, push_block(fdb, b), b)

CrashInSwitch ==
    /\ Killed /\ mode \in {"push", "restore"}
    /\ CrashCommitting(chain, fdb, NextOf(IF mode = "push" THEN sw.new ELSE sw.old))

\* database::wipe without the block log, then open: the genesis state.
Wiped == [st |-> GenesisState, undo |-> <<>>, rev |-> 0, com |-> 0]

(***************************************************************************)
(* database::open: the undo sessions are undone; then the revision must be *)
(* the height of the head and the block log must hold the head.  The three *)
(* outcomes, and what plugin_startup does then with replay-if-corrupted    *)
(* (its default): run, replay from where the state is, or wipe the state   *)
(* and replay from block 1.                                                *)
(***************************************************************************)
Opened == undo_all(chain)

RevisionMatches == Opened.rev = block_num[Opened.st.head]

HeadInLog ==
    LET n == block_num[Opened.st.head]
    IN  n = 0 \/ (n <= Len(log) /\ log[n] = Opened.st.head)

ForceReplay ==
    IF ~RevisionMatches
    THEN Opened.rev >= block_num[Opened.st.head] \/ (log # <<>> /\ Opened.rev >= Len(log))
    ELSE ~HeadInLog \/ (log # <<>> /\ Opened.rev >= Len(log))

NeedsReplay == ~RevisionMatches \/ ~HeadInLog \/ (log # <<>> /\ Opened.rev # Len(log))

Open ==
    /\ mode = "down" /\ ~NeedsReplay
    /\ mode' = "idle"
    /\ chain' = Opened
    /\ fdb' = IF Opened.st.head = ZeroId THEN fdb ELSE start_block(fdb, Opened.st.head)
    /\ UNCHANGED <<log, sw, pending, queued, result, crashes>>

OpenReplay ==
    /\ mode = "down" /\ NeedsReplay /\ log # <<>>
    /\ mode' = IF RevisionMatches /\ HeadInLog THEN "try" ELSE "replay"
    /\ chain' = IF ForceReplay THEN Wiped ELSE Opened
    /\ UNCHANGED <<log, fdb, sw, pending, queued, result, crashes>>

\* "No blocks in block log": the block log is wiped too; resync from the net.
OpenEmptyLog ==
    /\ mode = "down" /\ NeedsReplay /\ log = <<>>
    /\ mode' = "idle"
    /\ chain' = Wiped
    /\ UNCHANGED <<log, fdb, sw, pending, queued, result, crashes>>

(***************************************************************************)
(* database::reindex: blocks of the log are applied outside any session,   *)
(* and not written to the log again; the revision is set at the end (and   *)
(* every 1000 blocks, more than any instance has).  A block that does not  *)
(* apply makes plugin_startup wipe the state and replay from block 1 if    *)
(* that was its first attempt ("try"), and ends the process if not; so     *)
(* does a height past the end of the log.                                  *)
(***************************************************************************)
ReindexBlock(b, stray) ==
    \E d \in {_apply_block([ok |-> TRUE, chain |-> chain, log |-> log, fdb |-> fdb],
                           {}, b, stray)} :
        \/ /\ d.ok
           /\ chain' = d.chain /\ fdb' = d.fdb
           /\ mode' = IF block_num[b] = Len(log) THEN "replayed" ELSE mode
        \/ /\ ~d.ok /\ mode = "try"
           /\ chain' = Wiped /\ fdb' = EmptyForkDb /\ mode' = "replay"
        \/ /\ ~d.ok /\ mode = "replay"
           /\ chain' = d.chain /\ fdb' = d.fdb /\ mode' = "dead"

Reindex(stray) ==
    /\ mode \in {"try", "replay"}
    /\ \E n \in {block_num[chain.st.head] + 1} :
        \/ n <= Len(log) /\ ReindexBlock(log[n], stray)
        \/ n > Len(log) /\ mode' = "dead" /\ UNCHANGED <<chain, fdb>>
    /\ UNCHANGED <<log, sw, pending, queued, result, crashes>>

\* Mutant: the revision is not set at the end.
ReindexWithoutRevision ==
    /\ mode = "replayed"
    /\ mode' = "idle"
    /\ fdb' = start_block(fdb, log[Len(log)])
    /\ UNCHANGED <<chain, log, sw, pending, queued, result, crashes>>

ReindexDone ==
    /\ mode = "replayed"
    /\ mode' = "idle"
    /\ chain' = [chain EXCEPT !.rev = block_num[chain.st.head],
                              !.com = block_num[chain.st.head]]
    /\ fdb' = start_block(fdb, log[Len(log)])
    /\ UNCHANGED <<log, sw, pending, queued, result, crashes>>

-----------------------------------------------------------------------------
Init ==
    /\ chain = Wiped
    /\ log = <<>>
    /\ fdb = EmptyForkDb
    /\ mode = "idle" /\ sw = NoSwitch
    /\ pending = FALSE /\ queued = FALSE
    /\ result = "ok" /\ crashes = 0

PushBlock(b, stray) ==
    \/ PushThrown(b) \/ PushKept(b) \/ PushNoBranch(b) \/ PushFork(b)
    \/ PushDirect(b, stray)

SwitchStep(stray) == PopBlock \/ PopDone \/ PushNext(stray) \/ RestoreNext(stray)

\* What a running process does; what a dying and a starting one does.
Run ==
    \/ \E b \in Block, stray \in StrayValues : PushBlock(b, stray)
    \/ \E stray \in StrayValues : SwitchStep(stray)
    \/ PushTransaction
    \/ \E e \in chain.st.bpv, w \in Validators : ApplyBlockPostValidation(e, w)

Restart ==
    \/ Crash \/ Close \/ CrashInSwitch \/ \E b \in Block : CrashInPush(b)
    \/ Open \/ OpenReplay \/ OpenEmptyLog
    \/ \E stray \in StrayValues : Reindex(stray)
    \/ ReindexDone

Next == Run \/ Restart

Spec == Init /\ [][Next]_vars

\* The thread that holds the lock, or that is starting up, goes on.
Fairness ==
    /\ WF_vars(\E stray \in StrayValues : SwitchStep(stray))
    /\ WF_vars(Open \/ OpenReplay \/ OpenEmptyLog \/ ReindexDone
                    \/ \E stray \in StrayValues : Reindex(stray))

FairSpec == Spec /\ Fairness

\* One life of the process.
RunSpec == Init /\ [][Run]_vars
-----------------------------------------------------------------------------
(***************************************************************************)
(* Properties.                                                             *)
(***************************************************************************)
Modes == Running \cup {"down", "try", "replay", "replayed", "dead"}

\* Every variable stays in its type; the undo stack has one state per session.
TypeOK ==
    /\ chain \in [st : State, undo : [Sessions(chain) -> State], rev : Nat, com : Nat]
    /\ log \in Seq(Block)
    /\ fdb \in ForkDb
    /\ mode \in Modes
    /\ sw \in [new : BlockId, old : BlockId, num : Nat]
    /\ pending \in BOOLEAN /\ queued \in BOOLEAN
    /\ result \in {"ok", "switched", "throw"}
    /\ crashes \in Nat

\* The states that undoing passes through, the current one last.
StateAt(c, r) == IF r = c.rev + 1 THEN c.st ELSE c.undo[r]

(***************************************************************************)
(* While a process runs, session r was opened on a head of height r - 1 on *)
(* the way to the current head, so undoing n sessions is undoing exactly   *)
(* the last n blocks, whatever switches, failures and validations came in  *)
(* between (database.cpp: start_undo_session, pop_block, commit).          *)
(***************************************************************************)
UndoFollowsChain ==
    mode \in Running =>
        /\ chain.rev = block_num[chain.st.head] + (IF pending THEN 1 ELSE 0)
        /\ \A r \in Sessions(chain) :
                /\ chain.undo[r].head \in ancestors[chain.st.head]
                /\ block_num[chain.undo[r].head] = r - 1

(***************************************************************************)
(* Each state on the undo stack differs from the one below it by exactly   *)
(* what its head block does to the witnesses: a switch of forks leaves     *)
(* nothing of the abandoned branch behind in what decides irreversibility. *)
(***************************************************************************)
UndoIsExact ==
    \A r \in Sessions(chain) :
        LET below == chain.undo[r]
            above == StateAt(chain, r + 1)
        IN  IF above.head = below.head
            THEN above.sup = below.sup /\ above.run = below.run
            ELSE /\ previous[above.head] = below.head
                 /\ above.sup = Signed(below, above.head).sup
                 /\ above.run = Signed(below, above.head).run

(***************************************************************************)
(* No state the node can be in or undo to calls a block irreversible that  *)
(* has not been committed: last_irreversible_block_num (set, and then      *)
(* committed, in update_last_irreversible_block and in both block post     *)
(* validation functions) never runs ahead of what undo can reach.          *)
(***************************************************************************)
IrreversibleIsCommitted ==
    mode \in Running =>
        \A r \in (chain.com + 1)..(chain.rev + 1) :
            StateAt(chain, r).lib <= block_num[Base(chain).head]

(***************************************************************************)
(* The node keeps the promise of Finality: what has been committed is      *)
(* never left again, by a fork switch, by a failed one, or by an unlocked  *)
(* block post validation in the middle of one.                             *)
(***************************************************************************)
F == INSTANCE Finality WITH final <- Base(chain).head, head <- chain.st.head

FinalityHolds == F!Spec

(***************************************************************************)
(* The block log holds the committed chain and nothing else, so that a     *)
(* restart finds its head there (database::open asserts it).               *)
(***************************************************************************)
LogIsCommittedChain ==
    mode \in Running => \A n \in 1..Len(log) : log[n] \in ancestors[Base(chain).head]

\* push_block terminates: the thread in it gives up the write lock.
PushReturns == mode \in {"pop", "push", "unwind", "restore"} ~> mode = "idle"

(***************************************************************************)
(* database.cpp, push_block: 'Push block "may fail" in which case every    *)
(* partial change is unwound.'  A push that throws leaves the head where   *)
(* it was.                                                                 *)
(***************************************************************************)
FailedPushUnwinds ==
    [][result' = "throw" /\ mode' = "idle" /\ mode # "idle" =>
            chain'.st.head = sw.old]_vars

(***************************************************************************)
(* plugin.cpp: "replay all blocks if shared memory is corrupted" (the      *)
(* default).  Whatever a crash left behind, the process starts again.      *)
(***************************************************************************)
StartsUp == mode = "down" ~> mode = "idle"
============================================================================
