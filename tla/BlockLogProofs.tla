--------------------------- MODULE BlockLogProofs ---------------------------
(***************************************************************************)
(* The index file of the block log finds every block up to the head, for   *)
(* logs of every length and any number of deaths.                          *)
(***************************************************************************)
EXTENDS BlockLog, TLAPS

(***************************************************************************)
(* The inductive invariant.  A record carries its own position or, when    *)
(* append died before writing it, the position 0; so the last record names *)
(* either itself or the first one.  While records are readable from the    *)
(* start, each stands at the place of its number.                          *)
(***************************************************************************)
Record == [data : Nat, pos : Nat]

Types ==
    /\ blocks \in Seq(Record) /\ index \in Seq(Nat)
    /\ head \in Nat /\ crashes \in Nat
    /\ step \in Steps \cup {"down", "dead"}

PositionsOwn == \A p \in Position : blocks[p + 1].pos \in {0, p}

IndexInside == \A n \in 1..Len(index) : index[n] \in Position

PrefixNumbered ==
    \A p \in Position :
        (\A q \in 0..p : Readable(q)) => NumOf(blocks[p + 1].data) = p + 1

\* The first n entries of the index lead to the blocks of these numbers.
Finds(n) ==
    \A m \in 1..n : Readable(index[m]) /\ NumOf(blocks[index[m] + 1].data) = m

\* The log before the append in progress has added its record.
EndsAtHead(n) ==
    /\ Finds(head)
    /\ \A m \in 1..head : index[m] \in 0..(n - 1)
    /\ n = 0 <=> head = 0
    /\ n # 0 => blocks[n].pos = index[head]
    /\ (\A q \in 0..(n - 1) : Readable(q)) => head = n

Complete ==
    LET r == blocks[Len(blocks)] IN r.data = head + 1 /\ r.pos = Len(blocks) - 1

AppendInv ==
    /\ step = "ready" => Len(index) = head /\ EndsAtHead(Len(blocks))
    /\ step \in {"sized", "copied"} =>
            /\ Len(index) = head /\ blocks # <<>>
            /\ EndsAtHead(Len(blocks) - 1)
            /\ blocks[Len(blocks)].pos = 0
            /\ blocks[Len(blocks)].data \in {Blank, head + 1}
    /\ step = "copied" => blocks[Len(blocks)].data = head + 1
    /\ step \in {"written", "index_sized"} =>
            blocks # <<>> /\ EndsAtHead(Len(blocks) - 1) /\ Complete
    /\ step = "written" => Len(index) = head
    /\ step = "index_sized" => Len(index) = head + 1 /\ LastIndex = 0
    /\ step = "down" /\ blocks # <<>> /\ IndexIsCurrent => Finds(Len(index))

LogInv ==
    Types /\ PositionsOwn /\ IndexInside /\ PrefixNumbered /\ AppendInv

-----------------------------------------------------------------------------
\* A log that earlier lives have written satisfies the invariant.
LEMMA LogInvInit == Init => LogInv
<1> SUFFICES ASSUME Init PROVE LogInv
  OBVIOUS
<1> USE BlockLogAssumption
<1>1. Types
  BY DEF Init, Types, Record, Steps
<1>2. /\ Len(blocks) = FirstHead /\ Len(index) = FirstHead
      /\ head = FirstHead /\ step = "ready"
      /\ \A n \in 1..FirstHead : blocks[n].data = n /\ blocks[n].pos = n - 1
      /\ \A n \in 1..FirstHead : index[n] = n - 1
  BY DEF Init
<1>3. \A p \in 0..(FirstHead - 1) : Readable(p) /\ NumOf(blocks[p + 1].data) = p + 1
  BY <1>2 DEF Readable, Position, NumOf, Blank
<1>4. PositionsOwn /\ IndexInside /\ PrefixNumbered
  BY <1>2, <1>3 DEF PositionsOwn, IndexInside, PrefixNumbered, Position
<1>5. EndsAtHead(Len(blocks))
  BY <1>2, <1>3 DEF EndsAtHead, Finds
<1> QED
  BY <1>1, <1>2, <1>4, <1>5 DEF LogInv, AppendInv

\* The last record names itself or the first record.
LEMMA LastPosIs ==
    ASSUME Types, PositionsOwn, blocks # <<>>
    PROVE  /\ Len(blocks) \in Nat \ {0}
           /\ LastPos \in {0, Len(blocks) - 1} /\ LastPos \in Position
           /\ blocks[LastPos + 1].data \in Nat
           /\ NumOf(blocks[LastPos + 1].data) \in Nat \ {0}
<1>1. Len(blocks) \in Nat \ {0} /\ Len(blocks) - 1 \in Position
  BY DEF Types, Position
<1>2. LastPos \in {0, Len(blocks) - 1}
  BY <1>1 DEF PositionsOwn, LastPos
<1>3. LastPos \in Position
  BY <1>1, <1>2 DEF Position
<1>4. blocks[LastPos + 1].data \in Nat
  <2>1. LastPos + 1 \in 1..Len(blocks) /\ blocks \in Seq(Record)
    BY <1>3, <1>1 DEF Types, Position
  <2>2. blocks[LastPos + 1] \in Record
    BY <2>1
  <2> QED BY <2>2 DEF Record
<1> QED
  BY <1>1, <1>2, <1>3, <1>4 DEF NumOf, Blank

\* What happens behind the first n records does not concern them.
LEMMA TailChanges ==
    ASSUME Types, NEW n \in Nat, n <= Len(blocks), Types', n <= Len(blocks'),
           \A i \in 1..n : blocks'[i] = blocks[i],
           EndsAtHead(n), head' = head, Len(index) >= head,
           \A m \in 1..head : index'[m] = index[m]
    PROVE  /\ EndsAtHead(n)'
           /\ \A p \in 0..(n - 1) :
                 (Readable(p)' <=> Readable(p)) /\ blocks'[p + 1] = blocks[p + 1]
<1>1. Len(blocks) \in Nat /\ Len(blocks') \in Nat /\ head \in Nat
  BY DEF Types
<1>2. \A p \in 0..(n - 1) :
          (Readable(p)' <=> Readable(p)) /\ blocks'[p + 1] = blocks[p + 1]
  <2> TAKE p \in 0..(n - 1)
  <2>1. p \in Position /\ p \in Position' /\ p + 1 \in 1..n
    BY <1>1 DEF Position
  <2> QED BY <2>1 DEF Readable
<1>3. Finds(head)'
  <2> SUFFICES ASSUME NEW m \in 1..head
               PROVE  (Readable(index[m]) /\ NumOf(blocks[index[m] + 1].data) = m)'
    BY DEF Finds
  <2>1. index[m] \in 0..(n - 1) /\ Readable(index[m])
        /\ NumOf(blocks[index[m] + 1].data) = m
    BY DEF EndsAtHead, Finds
  <2>2. index'[m] = index[m]
    OBVIOUS
  <2>3. Readable(index[m])'
    BY <1>2, <2>1, <2>2 DEF Readable
  <2> QED BY <1>2, <2>1, <2>2, <2>3 DEF NumOf
<1>4. n # 0 => blocks'[n].pos = index'[head']
  <2> SUFFICES ASSUME n # 0 PROVE blocks'[n].pos = index'[head]
    OBVIOUS
  <2>1. head \in 1..head /\ blocks[n].pos = index[head] /\ n \in 1..n
    BY <1>1 DEF EndsAtHead
  <2> QED BY <2>1
<1>5. (\A q \in 0..(n - 1) : Readable(q)') => head' = n
  BY <1>2 DEF EndsAtHead
<1> QED
  BY <1>2, <1>3, <1>4, <1>5 DEF EndsAtHead

\* A sequence is one of the elements it has.
LEMMA RetypedSeq ==
    ASSUME NEW A, NEW B, NEW s \in Seq(A), \A i \in 1..Len(s) : s[i] \in B
    PROVE  s \in Seq(B)
OBVIOUS

\* Overwriting the last element of a sequence.
LEMMA LastOverwritten ==
    ASSUME NEW R, NEW s \in Seq(R), NEW n \in Nat, Len(s) = n + 1, NEW r \in R,
           NEW t, t = [s EXCEPT ![n + 1] = r]
    PROVE  /\ t \in Seq(R) /\ Len(t) = n + 1 /\ t # <<>>
           /\ t[n + 1] = r /\ \A i \in 1..n : t[i] = s[i]
<1>1. t \in Seq(R) /\ Len(t) = n + 1
  OBVIOUS
<1> QED
  BY <1>1

\* append resizes the main file: an empty record stands at its end.
LEMMA Append1Keeps == LogInv /\ Append1Resize => LogInv'
<1> SUFFICES ASSUME LogInv, Append1Resize PROVE LogInv'
  OBVIOUS
<1>0. PICK n \in Nat : n = Len(blocks)
  BY DEF LogInv, Types
<1>1. /\ Len(blocks') = n + 1 /\ blocks' # <<>>
      /\ \A i \in 1..n : blocks'[i] = blocks[i]
      /\ blocks'[n + 1] = [data |-> 0, pos |-> 0]
      /\ blocks' \in Seq(Record)
  <2>1. blocks \in Seq(Record) /\ [data |-> 0, pos |-> 0] \in Record
    BY DEF LogInv, Types, Record
  <2> QED BY <1>0, <2>1 DEF Append1Resize, Blank
<1>2. /\ index' = index /\ head' = head /\ step' = "sized" /\ step = "ready"
      /\ head \in Nat /\ index \in Seq(Nat) /\ Len(index) = head
  BY DEF LogInv, Types, Append1Resize
<1>3. Types'
  BY <1>1, <1>2 DEF Append1Resize, LogInv, Types, Steps
<1>4. Position' = 0..n /\ Position = 0..(n - 1)
  BY <1>0, <1>1 DEF Position
<1>5. EndsAtHead(n)
  BY <1>0, <1>2 DEF LogInv, AppendInv
<1>6. /\ EndsAtHead(n)'
      /\ \A p \in 0..(n - 1) :
            (Readable(p)' <=> Readable(p)) /\ blocks'[p + 1] = blocks[p + 1]
  BY <1>0, <1>1, <1>2, <1>3, <1>5, TailChanges DEF LogInv
<1>7. PositionsOwn'
  BY <1>0, <1>1, <1>4, <1>6 DEF LogInv, PositionsOwn
<1>8. IndexInside'
  BY <1>2, <1>4 DEF LogInv, IndexInside
<1>9. PrefixNumbered'
  <2> SUFFICES ASSUME NEW p \in 0..n, \A q \in 0..p : Readable(q)'
               PROVE  NumOf(blocks'[p + 1].data) = p + 1
    BY <1>4 DEF PrefixNumbered, NumOf
  <2>1. CASE p = n
    <3>1. Readable(n)'
      BY <2>1
    <3>2. n = 0
      BY <1>1, <3>1 DEF Readable
    <3> QED BY <1>1, <2>1, <3>2 DEF NumOf, Blank
  <2>2. CASE p # n
    <3>1. p \in Position /\ \A q \in 0..p : Readable(q)
      BY <1>6, <1>4, <2>2
    <3> QED BY <3>1, <1>6, <1>4 DEF LogInv, PrefixNumbered
  <2> QED BY <2>1, <2>2
<1>10. AppendInv'
  <2>1. EndsAtHead(Len(blocks) - 1)'
    BY <1>0, <1>1, <1>6
  <2> QED BY <1>1, <1>2, <2>1 DEF AppendInv, Blank
<1> QED
  BY <1>3, <1>7, <1>8, <1>9, <1>10 DEF LogInv

\* The block is copied; the word behind it is not written yet.
LEMMA Append2Keeps == LogInv /\ Append2Copy => LogInv'
<1> SUFFICES ASSUME LogInv, Append2Copy PROVE LogInv'
  OBVIOUS
<1>0. PICK n \in Nat : Len(blocks) = n + 1
  <2>1. blocks \in Seq(Record) /\ blocks # <<>>
    BY DEF LogInv, Types, AppendInv, Append2Copy
  <2>2. Len(blocks) - 1 \in Nat /\ Len(blocks) = (Len(blocks) - 1) + 1
    BY <2>1
  <2> QED BY <2>2
<1>1. /\ blocks \in Seq(Record) /\ blocks[n + 1] \in Record
      /\ head \in Nat /\ index \in Seq(Nat) /\ Len(index) = head
      /\ EndsAtHead(n) /\ blocks[n + 1].pos = 0
      /\ index' = index /\ head' = head /\ step = "sized" /\ step' = "copied"
  <2>1. n + 1 \in 1..Len(blocks) /\ blocks \in Seq(Record) /\ Len(blocks) - 1 = n
    BY <1>0 DEF LogInv, Types
  <2>2. blocks[n + 1] \in Record
    BY <2>1
  <2> QED BY <1>0, <2>1, <2>2 DEF LogInv, Types, AppendInv, Append2Copy
<1>2. /\ Len(blocks') = n + 1 /\ blocks' # <<>>
      /\ \A i \in 1..n : blocks'[i] = blocks[i]
      /\ blocks'[n + 1] = [blocks[n + 1] EXCEPT !.data = head + 1]
      /\ blocks' \in Seq(Record)
  <2>1. [blocks[n + 1] EXCEPT !.data = head + 1] \in Record
    <3>1. blocks[n + 1] \in Record /\ head + 1 \in Nat
      BY <1>1
    <3> QED BY <3>1 DEF Record
  <2>2. Len(blocks) = n + 1 /\ Len(blocks) - 1 = n
    BY <1>0
  <2>3. blocks' = [blocks EXCEPT ![n + 1] = [blocks[n + 1] EXCEPT !.data = head + 1]]
    BY <2>2, Zenon DEF Append2Copy
  <2> QED BY <1>0, <1>1, <2>1, <2>3, LastOverwritten
<1>3. Types'
  BY <1>1, <1>2 DEF Append2Copy, LogInv, Types, Steps
<1>4. Position' = 0..n /\ Position = 0..n
  BY <1>0, <1>2 DEF Position
<1>5. /\ EndsAtHead(n)'
      /\ \A p \in 0..(n - 1) :
            (Readable(p)' <=> Readable(p)) /\ blocks'[p + 1] = blocks[p + 1]
  <2>1. Types /\ n <= Len(blocks) /\ n <= Len(blocks') /\ Len(index) >= head
    BY <1>0, <1>1, <1>2 DEF LogInv
  <2>2. \A m \in 1..head : index'[m] = index[m]
    BY <1>1
  <2> QED BY <1>1, <1>2, <1>3, <2>1, <2>2, TailChanges
<1>6. PositionsOwn'
  <2> SUFFICES ASSUME NEW p \in 0..n PROVE blocks'[p + 1].pos \in {0, p}
    BY <1>4 DEF PositionsOwn
  <2>1. CASE p = n
    BY <1>1, <1>2, <2>1 DEF Record
  <2>2. CASE p \in 0..(n - 1)
    BY <1>4, <1>5, <2>2 DEF LogInv, PositionsOwn
  <2> QED BY <2>1, <2>2
<1>7. IndexInside'
  BY <1>1, <1>4 DEF LogInv, IndexInside
<1>8. PrefixNumbered'
  <2> SUFFICES ASSUME NEW p \in 0..n, \A q \in 0..p : Readable(q)'
               PROVE  NumOf(blocks'[p + 1].data) = p + 1
    BY <1>4 DEF PrefixNumbered, NumOf
  <2>1. CASE p = n
    <3>1. n = 0
      BY <1>1, <1>2, <2>1 DEF Readable, Record
    <3>2. head = 0
      BY <1>1, <3>1 DEF EndsAtHead
    <3> QED BY <1>1, <1>2, <2>1, <3>1, <3>2 DEF NumOf, Blank, Record
  <2>2. CASE p \in 0..(n - 1)
    <3>1. p \in Position /\ \A q \in 0..p : Readable(q)
      BY <1>5, <1>4, <2>2
    <3> QED BY <3>1, <1>5, <2>2 DEF LogInv, PrefixNumbered
  <2> QED BY <2>1, <2>2
<1>9. AppendInv'
  <2>1. EndsAtHead(Len(blocks) - 1)'
    BY <1>2, <1>5
  <2>2. blocks'[n + 1].pos = 0 /\ blocks'[n + 1].data = head + 1
    BY <1>1, <1>2 DEF Record
  <2> QED BY <1>1, <1>2, <2>1, <2>2 DEF AppendInv
<1> QED
  BY <1>3, <1>6, <1>7, <1>8, <1>9 DEF LogInv

\* The position is written: the record is complete.
LEMMA Append3Keeps == LogInv /\ Append3Position => LogInv'
<1> SUFFICES ASSUME LogInv, Append3Position PROVE LogInv'
  OBVIOUS
<1>0. PICK n \in Nat : Len(blocks) = n + 1
  <2>1. blocks \in Seq(Record) /\ blocks # <<>>
    BY DEF LogInv, Types, AppendInv, Append3Position
  <2>2. Len(blocks) - 1 \in Nat /\ Len(blocks) = (Len(blocks) - 1) + 1
    BY <2>1
  <2> QED BY <2>2
<1>1. /\ blocks \in Seq(Record) /\ blocks[n + 1] \in Record
      /\ head \in Nat /\ index \in Seq(Nat) /\ Len(index) = head
      /\ EndsAtHead(n) /\ blocks[n + 1].pos = 0
      /\ index' = index /\ head' = head /\ step = "copied" /\ step' = "written"
  <2>1. n + 1 \in 1..Len(blocks) /\ blocks \in Seq(Record) /\ Len(blocks) - 1 = n
    BY <1>0 DEF LogInv, Types
  <2>2. blocks[n + 1] \in Record
    BY <2>1
  <2> QED BY <1>0, <2>1, <2>2 DEF LogInv, Types, AppendInv, Append3Position
<1>2. /\ Len(blocks') = n + 1 /\ blocks' # <<>>
      /\ \A i \in 1..n : blocks'[i] = blocks[i]
      /\ blocks'[n + 1] = [blocks[n + 1] EXCEPT !.pos = n]
      /\ blocks' \in Seq(Record)
  <2>1. [blocks[n + 1] EXCEPT !.pos = n] \in Record
    BY <1>1 DEF Record
  <2>2. Len(blocks) = n + 1 /\ Len(blocks) - 1 = n
    BY <1>0
  <2>3. blocks' = [blocks EXCEPT ![n + 1] = [blocks[n + 1] EXCEPT !.pos = n]]
    BY <2>2, Zenon DEF Append3Position
  <2> QED BY <1>0, <1>1, <2>1, <2>3, LastOverwritten
<1>3. Types'
  BY <1>1, <1>2 DEF Append3Position, LogInv, Types, Steps
<1>4. Position' = 0..n /\ Position = 0..n
  BY <1>0, <1>2 DEF Position
<1>5. /\ EndsAtHead(n)'
      /\ \A p \in 0..(n - 1) :
            (Readable(p)' <=> Readable(p)) /\ blocks'[p + 1] = blocks[p + 1]
  <2>1. Types /\ n <= Len(blocks) /\ n <= Len(blocks') /\ Len(index) >= head
    BY <1>0, <1>1, <1>2 DEF LogInv
  <2>2. \A m \in 1..head : index'[m] = index[m]
    BY <1>1
  <2> QED BY <1>1, <1>2, <1>3, <2>1, <2>2, TailChanges
<1>6. PositionsOwn'
  <2> SUFFICES ASSUME NEW p \in 0..n PROVE blocks'[p + 1].pos \in {0, p}
    BY <1>4 DEF PositionsOwn
  <2>1. CASE p = n
    BY <1>1, <1>2, <2>1 DEF Record
  <2>2. CASE p \in 0..(n - 1)
    BY <1>4, <1>5, <2>2 DEF LogInv, PositionsOwn
  <2> QED BY <2>1, <2>2
<1>7. IndexInside'
  BY <1>1, <1>4 DEF LogInv, IndexInside
<1>8. PrefixNumbered'
  <2> SUFFICES ASSUME NEW p \in 0..n, \A q \in 0..p : Readable(q)'
               PROVE  NumOf(blocks'[p + 1].data) = p + 1
    BY <1>4 DEF PrefixNumbered, NumOf
  <2>1. CASE p = n
    <3>1. \A q \in 0..(n - 1) : Readable(q)
      BY <1>5, <2>1
    <3>2. head = n
      BY <1>1, <3>1 DEF EndsAtHead
    <3>3. blocks[n + 1].data = head + 1
      BY <1>0, <1>1 DEF LogInv, AppendInv
    <3>4. blocks'[n + 1].data = n + 1
      BY <1>1, <1>2, <3>2, <3>3 DEF Record
    <3> QED BY <2>1, <3>4 DEF NumOf, Blank
  <2>2. CASE p \in 0..(n - 1)
    <3>1. p \in Position /\ \A q \in 0..p : Readable(q)
      BY <1>5, <1>4, <2>2
    <3> QED BY <3>1, <1>5, <2>2 DEF LogInv, PrefixNumbered
  <2> QED BY <2>1, <2>2
<1>9. AppendInv'
  <2>1. EndsAtHead(Len(blocks) - 1)'
    BY <1>2, <1>5
  <2>2. blocks'[n + 1].pos = n /\ blocks'[n + 1].data = head + 1
    BY <1>0, <1>1, <1>2 DEF Record, LogInv, AppendInv
  <2> QED BY <1>1, <1>2, <2>1, <2>2 DEF AppendInv, Complete
<1> QED
  BY <1>3, <1>6, <1>7, <1>8, <1>9 DEF LogInv

\* The index grows by a word of zeros, which is the position of block 1.
LEMMA Append4Keeps == LogInv /\ Append4ResizeIndex => LogInv'
<1> SUFFICES ASSUME LogInv, Append4ResizeIndex PROVE LogInv'
  OBVIOUS
<1>0. PICK n \in Nat : Len(blocks) = n + 1
  <2>1. blocks \in Seq(Record) /\ blocks # <<>>
    BY DEF LogInv, Types, AppendInv, Append4ResizeIndex
  <2>2. Len(blocks) - 1 \in Nat /\ Len(blocks) = (Len(blocks) - 1) + 1
    BY <2>1
  <2> QED BY <2>2
<1>1. /\ head \in Nat /\ index \in Seq(Nat) /\ Len(index) = head
      /\ EndsAtHead(n) /\ Complete
      /\ blocks' = blocks /\ head' = head /\ step' = "index_sized"
  BY <1>0 DEF LogInv, Types, AppendInv, Append4ResizeIndex
<1>2. /\ Len(index') = head + 1 /\ index'[head + 1] = 0
      /\ \A m \in 1..head : index'[m] = index[m]
      /\ index' \in Seq(Nat)
  BY <1>1 DEF Append4ResizeIndex
<1>3. Types'
  BY <1>1, <1>2 DEF Append4ResizeIndex, LogInv, Types, Steps
<1>4. Position' = Position /\ Position = 0..n
  BY <1>0, <1>1 DEF Position
<1>5. EndsAtHead(n)'
  BY <1>0, <1>1, <1>2, <1>3, TailChanges DEF LogInv
<1>6. PositionsOwn' /\ PrefixNumbered'
  BY <1>1 DEF LogInv, PositionsOwn, PrefixNumbered, Readable, Position, NumOf
<1>7. IndexInside'
  BY <1>1, <1>2, <1>4 DEF LogInv, IndexInside
<1>8. AppendInv'
  <2>1. EndsAtHead(Len(blocks) - 1)' /\ blocks' # <<>>
    BY <1>0, <1>1, <1>5 DEF LogInv, Types
  <2>2. Complete'
    BY <1>1 DEF Complete
  <2> QED BY <1>1, <1>2, <2>1, <2>2 DEF AppendInv, LastIndex
<1> QED
  BY <1>3, <1>6, <1>7, <1>8 DEF LogInv

\* The index entry is written: the head moves to the appended block.
LEMMA Append5Keeps == LogInv /\ Append5Index => LogInv'
<1> SUFFICES ASSUME LogInv, Append5Index PROVE LogInv'
  OBVIOUS
<1>0. PICK n \in Nat : Len(blocks) = n + 1
  <2>1. blocks \in Seq(Record) /\ blocks # <<>>
    BY DEF LogInv, Types, AppendInv, Append5Index
  <2>2. Len(blocks) - 1 \in Nat /\ Len(blocks) = (Len(blocks) - 1) + 1
    BY <2>1
  <2> QED BY <2>2
<1>1. /\ head \in Nat /\ index \in Seq(Nat) /\ Len(index) = head + 1
      /\ EndsAtHead(n)
      /\ blocks[n + 1].data = head + 1 /\ blocks[n + 1].pos = n
      /\ blocks' = blocks /\ head' = head + 1 /\ step' = "ready"
  BY <1>0 DEF LogInv, Types, AppendInv, Append5Index, Complete
<1>2. /\ Len(index') = head + 1 /\ index'[head + 1] = n
      /\ \A m \in 1..head : index'[m] = index[m]
      /\ index' \in Seq(Nat)
  BY <1>0, <1>1 DEF Append5Index
<1>3. Types'
  BY <1>1, <1>2 DEF Append5Index, LogInv, Types, Steps
<1>4. Position' = Position /\ Position = 0..n
  BY <1>0, <1>1 DEF Position
<1>5. PositionsOwn' /\ PrefixNumbered'
  BY <1>1 DEF LogInv, PositionsOwn, PrefixNumbered, Readable, Position, NumOf
<1>6. IndexInside'
  BY <1>1, <1>2, <1>4 DEF LogInv, IndexInside
<1>7. Finds(head)'
  <2> SUFFICES ASSUME NEW m \in 1..(head + 1)
               PROVE  (Readable(index[m]) /\ NumOf(blocks[index[m] + 1].data) = m)'
    BY <1>1 DEF Finds
  <2>1. CASE m = head + 1
    BY <1>1, <1>2, <1>4, <2>1 DEF Readable, NumOf, Blank
  <2>2. CASE m \in 1..head
    <3>1. Readable(index[m]) /\ NumOf(blocks[index[m] + 1].data) = m
      BY <1>1, <2>2 DEF EndsAtHead, Finds
    <3>2. index'[m] = index[m] /\ blocks' = blocks
      BY <1>1, <1>2, <2>2
    <3> QED BY <3>1, <3>2 DEF Readable, NumOf, Position
  <2> QED BY <1>1, <2>1, <2>2
<1>8. (\A q \in 0..n : Readable(q)') => head + 1 = n + 1
  <2> SUFFICES ASSUME \A q \in 0..n : Readable(q)' PROVE head = n
    OBVIOUS
  <2>1. \A q \in 0..n : Readable(q)' <=> Readable(q)
    BY <1>1 DEF Readable, Position
  <2>2. \A q \in 0..(n - 1) : Readable(q)
    BY <2>1
  <2> QED BY <2>2, <1>1 DEF EndsAtHead
<1>9. EndsAtHead(Len(blocks))'
  <2>1. \A m \in 1..(head + 1) : index'[m] \in 0..n
    BY <1>2, <1>4, <1>6 DEF IndexInside
  <2> QED BY <1>0, <1>1, <1>2, <1>7, <1>8, <2>1, SMTT(60) DEF EndsAtHead
<1> QED
  BY <1>1, <1>2, <1>3, <1>5, <1>6, <1>9 DEF LogInv, AppendInv

(***************************************************************************)
(* A death leaves files whose index either is not current or finds what it *)
(* should: where the last word of the index and the last word of the main  *)
(* file agree by accident, both are 0 and the log has one block.           *)
(***************************************************************************)
LEMMA CrashKeeps == LogInv /\ Crash => LogInv'
<1> SUFFICES ASSUME LogInv, Crash PROVE LogInv'
  OBVIOUS
<1>1. /\ blocks' = blocks /\ index' = index /\ head' = 0 /\ step' = "down"
      /\ blocks \in Seq(Record) /\ index \in Seq(Nat) /\ head \in Nat
      /\ Len(index) \in Nat /\ step \in Steps
  BY DEF LogInv, Types, Crash
<1>2. Types'
  BY <1>1 DEF LogInv, Types, Crash, Steps
<1>3. PositionsOwn' /\ IndexInside' /\ PrefixNumbered'
  BY <1>1 DEF LogInv, PositionsOwn, IndexInside, PrefixNumbered, Readable, Position, NumOf
<1>4. ASSUME blocks # <<>>, IndexIsCurrent PROVE Finds(Len(index))
  <2>1. CASE step # "index_sized"
    <3>1. Len(index) = head /\ Finds(head)
      BY <1>1, <2>1 DEF LogInv, AppendInv, EndsAtHead, Steps
    <3> QED BY <3>1
  <2>2. CASE step = "index_sized"
    <3>1. /\ Len(index) = head + 1 /\ LastIndex = 0
          /\ EndsAtHead(Len(blocks) - 1)
          /\ blocks[Len(blocks)].data = head + 1
          /\ blocks[Len(blocks)].pos = Len(blocks) - 1
      BY <2>2 DEF LogInv, AppendInv, Complete
    <3>2. LastPos = 0
      BY <1>4, <3>1 DEF IndexIsCurrent
    <3>3. Len(blocks) = 1
      <4>1. Len(blocks) - 1 = 0
        BY <3>1, <3>2, Zenon DEF LastPos
      <4> QED BY <1>1, <4>1
    <3>4. head = 0
      BY <3>1, <3>3 DEF EndsAtHead
    <3>5. Len(index) = 1 /\ index[1] = 0
      BY <3>1, <3>4 DEF LastIndex
    <3>6. Readable(0) /\ NumOf(blocks[1].data) = 1
      BY <3>1, <3>3, <3>4 DEF Readable, Position, NumOf, Blank
    <3> QED BY <3>5, <3>6 DEF Finds
  <2> QED BY <2>1, <2>2
<1>5. AppendInv'
  <2>1. blocks' # <<>> /\ IndexIsCurrent' => Finds(Len(index))'
    BY <1>1, <1>4 DEF IndexIsCurrent, LastIndex, LastPos, Finds, Readable, Position, NumOf
  <2> QED BY <1>1, <2>1 DEF AppendInv
<1> QED
  BY <1>2, <1>3, <1>5 DEF LogInv

(***************************************************************************)
(* open: an index that is current is complete, and one rebuilt from a main *)
(* file that can be walked to its head is right.                           *)
(***************************************************************************)
LEMMA OpenLogKeeps == LogInv /\ OpenLog => LogInv'
<1> SUFFICES ASSUME LogInv, OpenLog PROVE LogInv'
  OBVIOUS
<1> DEFINE N == NumOf(blocks[LastPos + 1].data)
<1>0. PICK n \in Nat, last \in Nat, num \in Nat \ {0} :
        /\ n = Len(blocks) /\ n # 0 /\ last = LastPos /\ num = N
        /\ last \in {0, n - 1} /\ last \in 0..(n - 1)
  BY LastPosIs DEF LogInv, OpenLog, Position
<1>1. /\ blocks' = blocks /\ head' = num /\ step' = "ready" /\ step = "down"
      /\ blocks \in Seq(Record) /\ index \in Seq(Nat) /\ Len(index) \in Nat
      /\ Readable(last) /\ last \in Position /\ blocks # <<>>
      /\ Position' = Position /\ Position = 0..(n - 1)
  BY <1>0 DEF LogInv, Types, OpenLog, Position
<1>2. \A p : Readable(p)' <=> Readable(p)
  BY <1>1 DEF Readable
<1>3. /\ index' \in Seq(Nat) /\ Len(index') = num /\ index'[num] = last
      /\ \A m \in 1..num : index'[m] \in Position /\ Readable(index'[m])
                          /\ NumOf(blocks[index'[m] + 1].data) = m
  <2>1. CASE IndexIsCurrent
    <3>1. Finds(Len(index)) /\ index # <<>> /\ index[Len(index)] = last /\ index' = index
      BY <1>0, <1>1, <2>1 DEF LogInv, AppendInv, IndexIsCurrent, LastIndex, OpenLog
    <3>2. Len(index) \in 1..Len(index)
      BY <1>1, <3>1
    <3>3. Len(index) = num
      BY <1>0, <3>1, <3>2 DEF Finds
    <3>4. \A m \in 1..num : index[m] \in Position
      BY <3>3 DEF LogInv, IndexInside
    <3> QED BY <1>1, <3>1, <3>3, <3>4 DEF Finds
  <2>2. CASE ~IndexIsCurrent
    <3>1. index' = [m \in 1..num |-> m - 1] /\ \A p \in 0..last : Readable(p)
      BY <1>0, <2>2 DEF OpenLog, Rebuilt, Walkable
    <3>2. num = last + 1
      BY <1>0, <1>1, <3>1 DEF LogInv, PrefixNumbered
    <3>3. index' \in Seq(Nat) /\ Len(index') = num /\ \A m \in 1..num : index'[m] = m - 1
      BY <3>1
    <3>4. ASSUME NEW m \in 1..num
          PROVE  m - 1 \in Position /\ Readable(m - 1) /\ NumOf(blocks[m].data) = m
      <4>1. m - 1 \in 0..last /\ m - 1 \in Position
        BY <1>0, <1>1, <3>2
      <4>2. \A q \in 0..(m - 1) : Readable(q)
        BY <3>1, <3>2
      <4>3. NumOf(blocks[(m - 1) + 1].data) = (m - 1) + 1 /\ (m - 1) + 1 = m
        BY <4>1, <4>2 DEF LogInv, PrefixNumbered
      <4> QED BY <3>1, <4>1, <4>3
    <3>5. \A m \in 1..num : index'[m] + 1 = m
      BY <3>3
    <3> QED BY <3>2, <3>3, <3>4, <3>5
  <2> QED BY <2>1, <2>2
<1>4. Types'
  BY <1>1, <1>3 DEF LogInv, Types, OpenLog, Steps
<1>5. PositionsOwn' /\ PrefixNumbered'
  BY <1>1 DEF LogInv, PositionsOwn, PrefixNumbered, Readable, Position, NumOf
<1>6. IndexInside'
  BY <1>1, <1>3 DEF IndexInside
<1>7. Finds(head)'
  BY <1>1, <1>2, <1>3 DEF Finds, Readable, NumOf
<1>8. EndsAtHead(Len(blocks))'
  <2>1. blocks'[n].pos = index'[num]
    BY <1>0, <1>1, <1>3 DEF LastPos
  <2>2. ASSUME \A q \in 0..(n - 1) : Readable(q) PROVE num = n
    <3>1. Readable(n - 1) /\ (n - 1) + 1 = n
      BY <1>0, <2>2
    <3>2. last = n - 1
      BY <1>0, <3>1 DEF Readable, LastPos
    <3>3. NumOf(blocks[last + 1].data) = last + 1
      BY <1>1, <2>2, <3>2 DEF LogInv, PrefixNumbered
    <3> QED BY <1>0, <3>2, <3>3
  <2>3. (\A q \in 0..(n - 1) : Readable(q)') => num = n
    BY <1>2, <2>2
  <2>4. \A m \in 1..num : index'[m] \in 0..(n - 1)
    BY <1>1, <1>3
  <2> QED BY <1>0, <1>1, <1>7, <2>1, <2>3, <2>4 DEF EndsAtHead
<1> QED
  BY <1>1, <1>3, <1>4, <1>5, <1>6, <1>8 DEF LogInv, AppendInv

\* A new log, with its index removed, is empty.
LEMMA OpenNewKeeps == LogInv /\ OpenNew => LogInv'
<1> SUFFICES ASSUME LogInv, OpenNew PROVE LogInv'
  OBVIOUS
<1>1. /\ blocks' = <<>> /\ index' = <<>> /\ head' = 0 /\ step' = "ready"
      /\ Len(blocks') = 0 /\ Len(index') = 0 /\ crashes' \in Nat
  BY DEF OpenNew, LogInv, Types
<1>2. Types'
  BY <1>1 DEF Types, Steps
<1>3. Position' = {}
  BY <1>1 DEF Position
<1>4. PositionsOwn' /\ IndexInside' /\ PrefixNumbered'
  BY <1>1, <1>3 DEF PositionsOwn, IndexInside, PrefixNumbered
<1>5. EndsAtHead(0)'
  BY <1>1 DEF EndsAtHead, Finds
<1> QED
  BY <1>1, <1>2, <1>4, <1>5 DEF LogInv, AppendInv

\* The invariant of the block log.
LEMMA LogInvHolds == Spec => []LogInv
<1>1. LogInv /\ [Next]_vars => LogInv'
  <2> SUFFICES ASSUME LogInv, [Next]_vars PROVE LogInv'
    OBVIOUS
  <2>1. CASE AppendStep
    BY <2>1, Append1Keeps, Append2Keeps, Append3Keeps, Append4Keeps, Append5Keeps
       DEF AppendStep
  <2>2. CASE OpenThrows
    BY <2>2 DEF OpenThrows, LogInv, Types, PositionsOwn, IndexInside,
                PrefixNumbered, Readable, Position, NumOf, AppendInv, Steps
  <2>3. CASE UNCHANGED vars
    BY <2>3 DEF vars, LogInv, Types, PositionsOwn, IndexInside, PrefixNumbered,
                Readable, Position, NumOf, AppendInv, EndsAtHead, Finds, Complete,
                IndexIsCurrent, LastIndex, LastPos
  <2> QED
    BY <2>1, <2>2, <2>3, CrashKeeps, OpenLogKeeps, OpenNewKeeps DEF Next
<1> QED
  BY <1>1, LogInvInit, PTL DEF Spec

(***************************************************************************)
(* block_log.hpp: "Blocks can be accessed at random via block number       *)
(* through the index file."  For every first height, every number of       *)
(* blocks and every number of deaths between any two writes of append, a   *)
(* log that open accepts finds the block of every number up to its head.   *)
(***************************************************************************)
THEOREM IndexAlwaysFinds == Spec => []IndexFindsBlocks
<1>1. LogInv => IndexFindsBlocks
  BY DEF LogInv, AppendInv, EndsAtHead, Finds, IndexFindsBlocks
<1> QED
  BY <1>1, LogInvHolds, PTL

(***************************************************************************)
(* No word of either file ever points outside the main file: read_block    *)
(* is never given a position that the memory map does not have.            *)
(***************************************************************************)
THEOREM PositionsInside == Spec => []TypeOK
<1>1. LogInv => TypeOK
  <2> SUFFICES ASSUME LogInv PROVE TypeOK
    OBVIOUS
  <2>1. Len(blocks) \in Nat /\ Len(index) \in Nat
    BY DEF LogInv, Types
  <2>2. \A i \in 1..Len(blocks) : blocks[i] \in [data : Nat, pos : Position]
    <3> TAKE i \in 1..Len(blocks)
    <3>1. i - 1 \in Position /\ 0 \in Position /\ (i - 1) + 1 = i
      BY <2>1 DEF Position
    <3>2. blocks[i].pos \in Position
      BY <3>1 DEF LogInv, PositionsOwn
    <3>3. blocks[i] \in Record
      BY <2>1 DEF LogInv, Types
    <3> QED BY <3>2, <3>3 DEF Record
  <2>3. blocks \in Seq([data : Nat, pos : Position])
    <3>1. blocks \in Seq(Record)
      BY DEF LogInv, Types
    <3> QED BY <2>2, <3>1, RetypedSeq, Zenon
  <2>4. index \in Seq(Position)
    BY DEF LogInv, IndexInside, Types
  <2> QED BY <2>3, <2>4 DEF TypeOK, LogInv, Types
<1> QED
  BY <1>1, LogInvHolds, PTL
=============================================================================
