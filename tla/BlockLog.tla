------------------------------ MODULE BlockLog ------------------------------
(***************************************************************************)
(* graphene::chain::block_log: the two memory-mapped files behind the log  *)
(* of irreversible blocks, written by append and repaired by open.         *)
(*                                                                         *)
(* The main file is a sequence of records, each a block followed by the    *)
(* position of that block; the index file is a sequence of positions.      *)
(* Positions count records from 0, as byte offsets start at 0.  Space that *)
(* resize has added and nobody has written reads as zeros: a word of it is *)
(* position 0, and as a block it is Blank, a header without a parent,      *)
(* whose number is therefore 1.                                            *)
(*                                                                         *)
(* The process may be killed between any two writes; both files are page   *)
(* cache, so what was written stays.                                       *)
(***************************************************************************)
EXTENDS Integers, Sequences

CONSTANTS
    FirstHead,   \* the height of a log that earlier lives have written
    MaxHeight,   \* bound: blocks up to this height are appended
    MaxCrashes   \* bound: how often the process dies

ASSUME BlockLogAssumption ==
    /\ FirstHead \in Nat /\ MaxHeight \in Nat /\ FirstHead <= MaxHeight
    /\ MaxCrashes \in Nat

VARIABLES
    blocks,   \* the main file: records [data, pos]
    index,    \* the index file: positions
    head,     \* the number of *head, 0 when head is not valid
    step,     \* how far the append in progress has come; or not running
    crashes

vars == <<blocks, index, head, step, crashes>>

Blank == 0   \* the block that zeros deserialize to

NumOf(data) == IF data = Blank THEN 1 ELSE data

Position == 0..(Len(blocks) - 1)

Steps == {"ready", "sized", "copied", "written", "index_sized"}

\* get_last_uint64 of either file; each is only asked for when it has records.
LastPos == blocks[Len(blocks)].pos

LastIndex == index[Len(index)]

(***************************************************************************)
(* read_block(pos) throws when there is no record, or the word behind the  *)
(* block is not its position.                                              *)
(***************************************************************************)
Readable(p) == p \in Position /\ blocks[p + 1].pos = p

(***************************************************************************)
(* append, write by write.  The caller appends the block after head().     *)
(***************************************************************************)
Append1Resize ==
    /\ step = "ready" /\ head < MaxHeight
    /\ Len(index) = head
    /\ blocks' = Append(blocks, [data |-> Blank, pos |-> 0])
    /\ step' = "sized"
    /\ UNCHANGED <<index, head, crashes>>

Append2Copy ==
    /\ step = "sized"
    /\ blocks' = [blocks EXCEPT ![Len(blocks)].data = head + 1]
    /\ step' = "copied"
    /\ UNCHANGED <<index, head, crashes>>

Append3Position ==
    /\ step = "copied"
    /\ blocks' = [blocks EXCEPT ![Len(blocks)].pos = Len(blocks) - 1]
    /\ step' = "written"
    /\ UNCHANGED <<index, head, crashes>>

Append4ResizeIndex ==
    /\ step = "written"
    /\ index' = Append(index, 0)
    /\ step' = "index_sized"
    /\ UNCHANGED <<blocks, head, crashes>>

Append5Index ==
    /\ step = "index_sized"
    /\ index' = [index EXCEPT ![Len(index)] = Len(blocks) - 1]
    /\ head' = head + 1
    /\ step' = "ready"
    /\ UNCHANGED <<blocks, crashes>>

Crash ==
    /\ step \in Steps /\ crashes < MaxCrashes
    /\ crashes' = crashes + 1
    /\ step' = "down" /\ head' = 0
    /\ UNCHANGED <<blocks, index>>

-----------------------------------------------------------------------------
(***************************************************************************)
(* open.  construct_index walks the main file from its start to the head   *)
(* record and throws at the first record it cannot read; the index file is *)
(* made as long as the head block's number says.                           *)
(***************************************************************************)
Walkable == \A p \in 0..LastPos : Readable(p)

Rebuilt == [n \in 1..NumOf(blocks[LastPos + 1].data) |-> n - 1]

\* Mutant: a nonempty index is trusted.
IndexNotEmpty == index # <<>>

IndexIsCurrent == index # <<>> /\ LastIndex = LastPos

\* "Log is nonempty": the head is read, the index is right or can be rebuilt.
OpenLog ==
    /\ step = "down" /\ blocks # <<>>
    /\ Readable(LastPos)
    /\ IndexIsCurrent \/ Walkable
    /\ index' = IF IndexIsCurrent THEN index ELSE Rebuilt
    /\ head' = NumOf(blocks[LastPos + 1].data)
    /\ step' = "ready"
    /\ UNCHANGED <<blocks, crashes>>

\* The log is new; an index without a log is removed together with it.
OpenNew ==
    /\ step = "down" /\ blocks = <<>>
    /\ index' = <<>> /\ head' = 0
    /\ step' = "ready"
    /\ UNCHANGED <<blocks, crashes>>

\* open throws; so does the second open that plugin_startup tries.
OpenThrows ==
    /\ step = "down" /\ blocks # <<>>
    /\ ~(Readable(LastPos) /\ (IndexIsCurrent \/ Walkable))
    /\ step' = "dead"
    /\ UNCHANGED <<blocks, index, head, crashes>>

Init ==
    /\ blocks = [n \in 1..FirstHead |-> [data |-> n, pos |-> n - 1]]
    /\ index = [n \in 1..FirstHead |-> n - 1]
    /\ head = FirstHead
    /\ step = "ready" /\ crashes = 0

AppendStep ==
    \/ Append1Resize \/ Append2Copy \/ Append3Position
    \/ Append4ResizeIndex \/ Append5Index

Next == AppendStep \/ Crash \/ OpenLog \/ OpenNew \/ OpenThrows

Spec == Init /\ [][Next]_vars

-----------------------------------------------------------------------------
(***************************************************************************)
(* Properties.                                                             *)
(***************************************************************************)

\* Every position stored in either file is that of a record of the main file.
TypeOK ==
    /\ blocks \in Seq([data : Nat, pos : Position])
    /\ index \in Seq(Position)
    /\ head \in Nat /\ crashes \in Nat
    /\ step \in Steps \cup {"down", "dead"}

(***************************************************************************)
(* block_log.hpp: "Blocks can be accessed at random via block number       *)
(* through the index file."  Whatever deaths and repairs came before, an   *)
(* open log gives the block of number n for every n up to its head, and    *)
(* the next append finds the index at the place it expects.                *)
(***************************************************************************)
IndexFindsBlocks ==
    step = "ready" =>
        /\ Len(index) = head
        /\ \A n \in 1..head :
                Readable(index[n]) /\ NumOf(blocks[index[n] + 1].data) = n
=============================================================================
