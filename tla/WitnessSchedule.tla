-------------------------- MODULE WitnessSchedule --------------------------
(***************************************************************************)
(* Who produces when: the schedule update_witness_schedule computes at the *)
(* end of a round, slots and missed blocks with their penalties, votes in  *)
(* virtual time, and the hardforks the scheduled witnesses vote for.       *)
(*                                                                         *)
(* A block is one action, with everything _apply_block does to this state: *)
(* the header's extensions, at most one transaction, the missed slots, the *)
(* signing witness, the schedule and the hardforks, in this order.  Times  *)
(* are counted in slots and kept relative to the head, so that the model   *)
(* runs for ever.                                                          *)
(***************************************************************************)
EXTENDS Integers, FiniteSets, SequencesExt

CONSTANTS
    Witness,                           \* numbers: the order of names and of ids
    CHAIN_MAX_WITNESSES,
    CHAIN_MAX_TOP_WITNESSES,
    CHAIN_HARDFORK_REQUIRED_WITNESSES,
    CHAIN_MAX_WITNESS_MISSED_BLOCKS,
    CHAIN_100_PERCENT,
    LAP,                               \* the largest virtual time (VIRTUAL_SCHEDULE_LAP_LENGTH2)
    WINDOW,                            \* bits of recent_slots_filled
    MissPenalty,                       \* witness_miss_penalty_percent each witness proposes
    MissDuration,                      \* witness_miss_penalty_duration, in slots
    HardforkTime,                      \* <<t1, t2...>>: _hardfork_times, in slots
    FirstVotes,                        \* votes at the start
    FirstList,                         \* the schedule in force at the start
    SlotCycle,                         \* a common multiple of all lengths a schedule can have:
                                       \* the absolute slot is kept modulo it
    MaxVotes,
    MaxGap,                            \* slots that may pass without a block
    MaxChanges                         \* votes, keys, upgrades and missed slots in a behaviour

LastTime == IF HardforkTime = <<>> THEN 0 ELSE HardforkTime[Len(HardforkTime)]

ASSUME Parameters ==
    /\ Witness \subseteq Nat /\ IsFiniteSet(Witness) /\ Witness # {}
    /\ CHAIN_MAX_WITNESSES \in Nat /\ CHAIN_MAX_TOP_WITNESSES \in 1..CHAIN_MAX_WITNESSES
    /\ CHAIN_HARDFORK_REQUIRED_WITNESSES \in 1..CHAIN_MAX_WITNESSES
    /\ 2 * CHAIN_HARDFORK_REQUIRED_WITNESSES > CHAIN_MAX_WITNESSES
    /\ CHAIN_100_PERCENT \in Nat \ {0} /\ CHAIN_MAX_WITNESS_MISSED_BLOCKS \in Nat
    /\ {LAP, WINDOW, MaxVotes, MaxGap, MaxChanges, MissDuration} \subseteq Nat /\ WINDOW > 0
    /\ MissPenalty \in [Witness -> 0..CHAIN_100_PERCENT]
    /\ FirstVotes \in [Witness -> 0..MaxVotes]
    /\ HardforkTime \in Seq(Nat)
    /\ FirstList \in Seq(Witness) /\ Len(FirstList) \in 1..CHAIN_MAX_WITNESSES
    /\ \A i, j \in DOMAIN FirstList : i # j => FirstList[i] # FirstList[j]
    /\ SlotCycle \in Nat \ {0} /\ \A d \in 1..CHAIN_MAX_WITNESSES : SlotCycle % d = 0

VARIABLES
    wit,        \* the witness objects
    penalties,  \* witness_penalty_expire_objects in order of expiration
    wso,        \* witness_schedule_object: list, virtual time, median penalty, version
    dgp,        \* the slots: block of the round, absolute slot, recent slots, participation
    hf,         \* hardfork_property_object and the time since the start
    binary,     \* the last hardfork the software of each witness knows
    ballot,     \* history: what the counted witnesses voted at the last count
    changes

vars == <<wit, penalties, wso, dgp, hf, binary, ballot, changes>>

----------------------------------------------------------------------------
(* Slots and missed blocks                                                 *)

\* the members of a sequence that are in S, in their order
Chosen(s, S) == FoldLeft(LAMBDA t, x : IF x \in S THEN Append(t, x) ELSE t, <<>>, s)

get_scheduled_witness(slot) == wso.list[((dgp.aslot + slot) % Len(wso.list)) + 1]

\* votes less the share taken by penalties
Counted(votes, penalty) ==
    votes - (votes * (IF penalty < CHAIN_100_PERCENT THEN penalty ELSE CHAIN_100_PERCENT)) \div CHAIN_100_PERCENT

\* Mutant: the counted votes are not computed anew.
PenaltyNoted(w, percent) == [w EXCEPT !.penalty = @ + percent]

Penalize(w, percent) ==
    [w EXCEPT !.penalty = @ + percent, !.counted = Counted(w.votes, w.penalty + percent)]

\* the slots before p's block that count as missed: not those of p itself
MissedSlots(p, gap) ==
    Chosen([i \in 1..gap |-> get_scheduled_witness(i)], Witness \ {p})

Misses(p, gap, x) == Cardinality({i \in DOMAIN MissedSlots(p, gap) : MissedSlots(p, gap)[i] = x})

\* update_global_dynamic_data: penalties, and the key is taken from who is silent for long
Missed(w, p, gap) ==
    [x \in Witness |->
        IF Misses(p, gap, x) = 0 THEN w[x]
        ELSE [Penalize(w[x], wso.percent * Misses(p, gap, x)) EXCEPT
                !.key = @ /\ w[x].silence <= CHAIN_MAX_WITNESS_MISSED_BLOCKS]]

Elapsed(n, slots) == IF n > slots THEN n - slots ELSE 0

\* penalties expire counted from the time of the previous block
PenaltiesAfter(p, gap) ==
    [i \in 1..Len(penalties) |-> [penalties[i] EXCEPT !.left = Elapsed(@, gap + 1)]]
    \o [i \in DOMAIN MissedSlots(p, gap) |->
            [who |-> MissedSlots(p, gap)[i], percent |-> wso.percent,
             left |-> Elapsed(MissDuration, gap + 1)]]

\* one bit in, the oldest bit out, and the count kept along
Shift(d, bit) == [d EXCEPT !.filled = Append(Tail(@), bit),
                           !.participation = @ - d.filled[1] + bit]

SlotsAfter(gap) ==
    [FoldLeft(Shift, dgp, [i \in 1..(gap + 1) |-> IF i = 1 THEN 1 ELSE 0])
        EXCEPT !.aslot = (@ + gap + 1) % SlotCycle,
               !.round = (@ + 1) % CHAIN_MAX_WITNESSES]

\* how many blocks since x confirmed one: update_signing_witness resets it
Signed(w, p) ==
    [x \in Witness |-> [w[x] EXCEPT !.silence =
        IF x = p THEN 0
        ELSE IF @ > CHAIN_MAX_WITNESS_MISSED_BLOCKS THEN @ ELSE @ + 1]]

----------------------------------------------------------------------------
(* Votes and virtual time                                                  *)

\* the arithmetic of uint128_t
Wrap(n) == n % (LAP + 1)

\* Mutant: a time that wrapped around is kept.
TimeInThePast(w, delta) ==
    LET position == Wrap(w.position + w.counted * (wso.now - w.updated))
        counted  == Counted(w.votes + delta, w.penalty)
    IN  [w EXCEPT !.position = position, !.updated = wso.now, !.votes = @ + delta,
                  !.counted = counted,
                  !.time = Wrap(wso.now + (LAP - position) \div (counted + 1))]

adjust_witness_vote(w, delta) ==
    LET position == Wrap(w.position + w.counted * (wso.now - w.updated))
        votes    == IF w.votes + delta < 0 THEN 0 ELSE w.votes + delta
        counted  == Counted(votes, w.penalty)
        time     == Wrap(wso.now + (LAP - position) \div (counted + 1))
    IN  [w EXCEPT !.position = position, !.updated = wso.now, !.votes = votes,
                  !.counted = counted,
                  !.time = IF time < wso.now THEN LAP ELSE time]

\* Mutant: the virtual time is reset, the witnesses' times are not.
WitnessesNotReset(w) == w

reset_virtual_schedule_time(w) ==
    [x \in Witness |-> [w[x] EXCEPT !.position = 0, !.updated = 0,
                                    !.time = LAP \div (w[x].counted + 1)]]

----------------------------------------------------------------------------
(* update_witness_schedule                                                 *)

\* the percentages of x in a list of penalties
PercentOf(x, ps) == FoldLeft(LAMBDA n, e : IF e.who = x THEN n + e.percent ELSE n, 0, ps)

\* the penalty objects that have expired
Over(ps) == {e \in Range(ps) : e.left = 0}

\* the first loop: penalties that are over are taken back
TakeBack(w, expired) == [x \in Witness |-> Penalize(w[x], -PercentOf(x, expired))]

MoreVotes(w, x, y) == \/ w[x].counted > w[y].counted
                      \/ w[x].counted = w[y].counted /\ x < y

Sooner(w, x, y) == \/ w[x].time < w[y].time
                   \/ w[x].time = w[y].time /\ x < y

\* the indices by_counted_vote_name and by_schedule_time: which pairs they put in this order
ByVotes(w) == {e \in Witness \X Witness : MoreVotes(w, e[1], e[2])}

ByTime(w) == {e \in Witness \X Witness : Sooner(w, e[1], e[2])}

\* the elements of S in the order of an index
Ordered(S, before) ==
    [i \in 1..Cardinality(S) |->
        CHOOSE x \in S : Cardinality({y \in S : <<y, x>> \in before}) = i - 1]

Prefix(s, n) == SubSeq(s, 1, IF n < Len(s) THEN n ELSE Len(s))

TopWitnesses(w) ==
    Prefix(Ordered({x \in Witness : w[x].key}, ByVotes(w)), CHAIN_MAX_TOP_WITNESSES)

\* the places of a round that are not taken by top witnesses
Places(top) == CHAIN_MAX_WITNESSES - Len(top)

\* Mutant: top witnesses are not left out.
SupportAll(w, top) ==
    Prefix(Ordered({x \in Witness : w[x].key}, ByTime(w)), Places(top))

\* the other places go to the first by virtual time
Support(w, top) ==
    Prefix(Ordered({x \in Witness : w[x].key /\ x \notin Range(top)}, ByTime(w)), Places(top))

\* the second loop goes through the witnesses by virtual time until the places are
\* taken: it passes everybody before the last support witness
Processed(w, top) ==
    LET s == Support(w, top)
    IN  IF Len(s) < Places(top) THEN Witness
        ELSE {x \in Witness : s # <<>> /\ ~Sooner(w, Last(s), x)}

LastOf(w, S) == CHOOSE x \in S : \A y \in S : ~Sooner(w, x, y)

\* everybody processed starts another lap, at the time of the last of them
NextLap(w, x, now) == now + LAP \div (w[x].counted + 1)

Overflows(w, done, now) == \E x \in done : Wrap(NextLap(w, x, now)) < now

AdvanceLaps(w, done, now) ==
    IF Overflows(w, done, now) THEN reset_virtual_schedule_time(w)
    ELSE [x \in Witness |->
            IF x \in done
            THEN [w[x] EXCEPT !.position = 0, !.updated = now, !.time = NextLap(w, x, now)]
            ELSE w[x]]

\* top and support witnesses take turns while there are both
TakeTurns(s, t) ==
    LET both == IF Len(s) < Len(t) THEN Len(s) ELSE Len(t)
    IN  [i \in 1..(Len(s) + Len(t)) |->
            IF i > 2 * both THEN (IF Len(s) > both THEN s[i - both] ELSE t[i - both])
            ELSE IF i % 2 = 1 THEN s[(i + 1) \div 2] ELSE t[i \div 2]]

\* update_median_witness_props: the middle one of the scheduled witnesses' values
MedianPenalty(list) ==
    LET below == {e \in Witness \X Witness :
                    \/ MissPenalty[e[1]] < MissPenalty[e[2]]
                    \/ MissPenalty[e[1]] = MissPenalty[e[2]] /\ e[1] < e[2]}
    IN  MissPenalty[Ordered(Range(list), below)[(Len(list) \div 2) + 1]]

\* scheduled witnesses that run at least version v
RunningAtLeast(w, v) == {x \in Range(wso.list) : w[x].running >= v}

MajorityVersion(w) ==
    LET agreed == {v \in {w[x].running : x \in Range(wso.list)} :
                     Cardinality(RunningAtLeast(w, v)) >= CHAIN_HARDFORK_REQUIRED_WITNESSES}
    IN  IF agreed = {} THEN wso.majority ELSE CHOOSE v \in agreed : \A u \in agreed : u <= v

\* Without a witness that has a key update_median_witness_props throws, and the
\* block is refused.
update_witness_schedule(w) ==
    \E top \in {TopWitnesses(w)} : \E done \in {Processed(w, top)} :
        LET list == TakeTurns(top, Support(w, top))
            now  == IF done = {} THEN wso.now ELSE w[LastOf(w, done)].time
        IN  /\ list # <<>>
            /\ wit' = AdvanceLaps(w, done, now)
            /\ wso' = [list |-> list, now |-> IF Overflows(w, done, now) THEN 0 ELSE now,
                       percent |-> MedianPenalty(list), majority |-> MajorityVersion(w)]

----------------------------------------------------------------------------
(* Hardforks                                                               *)

\* a vote: the hardfork's number and time; before the first vote both are 0
Vote(n) == [version |-> n, time |-> IF n = 0 THEN 0 ELSE HardforkTime[n]]

\* what _generate_block puts into the header, and process_header_extensions takes out
Extensions(p) ==
    [wit EXCEPT ![p].running = binary[p],
                ![p].vote = IF hf.last < binary[p] THEN Vote(hf.last + 1)
                            ELSE IF @.version > binary[p] THEN Vote(hf.last)
                            ELSE @]

Voters(v, b) == {x \in DOMAIN b : b[x] = v}

Agreed(b) == {v \in {b[x] : x \in DOMAIN b} :
                Cardinality(Voters(v, b)) >= CHAIN_HARDFORK_REQUIRED_WITNESSES}

\* Mutant: what was agreed on once stays agreed.
MajorityKept(h, b) ==
    IF Agreed(b) = {} THEN h
    ELSE LET v == CHOOSE v \in Agreed(b) : TRUE
         IN  [h EXCEPT !.next = v.version, !.time = v.time]

\* the count at the end of a round: over the witnesses scheduled until now
CountVotes(h, b) ==
    IF Agreed(b) = {} THEN [h EXCEPT !.next = h.last]
    ELSE LET v == CHOOSE v \in Agreed(b) : TRUE
         IN  [h EXCEPT !.next = v.version, !.time = v.time]

apply_hardfork(h, n) == [h EXCEPT !.last = n]

\* The loop applies one hardfork after the other; since witnesses vote for the one
\* after the last, there is at most one to apply.
process_hardforks(h) == IF h.last < h.next /\ h.time <= h.clock
                        THEN apply_hardfork(h, h.last + 1) ELSE h

----------------------------------------------------------------------------
(* Blocks                                                                  *)

CanProduce(x) == wit[x].key /\ binary[x] >= hf.last

\* a slot that is missed although its witness could have produced
Idle(gap) == Cardinality({i \in 1..gap : CanProduce(get_scheduled_witness(i))})

Clock(gap) == IF hf.clock + gap + 1 > LastTime THEN LastTime ELSE hf.clock + gap + 1

\* the rest of _apply_block when no round ends
SameRound(w, ps, gap) ==
    /\ wit' = w
    /\ penalties' = ps
    /\ hf' = process_hardforks([hf EXCEPT !.clock = Clock(gap)])
    /\ UNCHANGED <<wso, ballot>>

\* and when one does
NextRound(w, ps, gap) ==
    /\ \E w1 \in {TakeBack(w, Chosen(ps, Over(ps)))} : update_witness_schedule(w1)
    /\ penalties' = Chosen(ps, Range(ps) \ Over(ps))
    /\ ballot' = [x \in Range(wso.list) |-> w[x].vote]
    /\ hf' = process_hardforks(CountVotes([hf EXCEPT !.clock = Clock(gap)], ballot'))

\* w: the witness objects after the header's extensions and the transactions
ApplyBlock(w, p, gap) ==
    /\ dgp' = SlotsAfter(gap)
    /\ \E w1 \in {Signed(Missed(w, p, gap), p)}, ps \in {PenaltiesAfter(p, gap)} :
            IF dgp'.round = 0 THEN NextRound(w1, ps, gap) ELSE SameRound(w1, ps, gap)
    /\ UNCHANGED binary

\* validate_block_header and the assertion on the version: p's turn, p's key, p up to date
Turn(p, gap) == p = get_scheduled_witness(gap + 1) /\ CanProduce(p)

\* a block without transactions that matter here
Block(p, gap) ==
    /\ Turn(p, gap)
    /\ changes + Idle(gap) <= MaxChanges
    /\ changes' = changes + Idle(gap)
    /\ ApplyBlock(Extensions(p), p, gap)

\* a block that changes the votes for x (account_witness_vote, a proxy, a transfer of shares)
BlockWithVote(p, x, delta) ==
    /\ Turn(p, 0)
    /\ changes < MaxChanges /\ changes' = changes + 1
    /\ wit[x].votes + delta \in 0..MaxVotes
    /\ ApplyBlock([Extensions(p) EXCEPT ![x] = adjust_witness_vote(@, delta)], p, 0)

\* a block with a witness_update: a key for a witness without one, or the empty key
BlockWithKey(p, x) ==
    /\ Turn(p, 0)
    /\ changes < MaxChanges /\ changes' = changes + 1
    /\ ApplyBlock([Extensions(p) EXCEPT ![x].key = ~@], p, 0)

\* an operator installs other software, newer or older
Install(x, n) ==
    /\ changes < MaxChanges /\ changes' = changes + 1
    /\ binary[x] # n
    /\ binary' = [binary EXCEPT ![x] = n]
    /\ UNCHANGED <<wit, penalties, wso, dgp, hf, ballot>>

NewWitness(v) == [votes |-> v, counted |-> v, penalty |-> 0, key |-> TRUE, silence |-> 0,
                  position |-> 0, updated |-> 0, time |-> LAP \div (v + 1),
                  running |-> 0, vote |-> Vote(0)]

Init ==
    /\ wit = [x \in Witness |-> NewWitness(FirstVotes[x])]
    /\ penalties = <<>>
    /\ wso = [list |-> FirstList, now |-> 0, percent |-> MedianPenalty(FirstList), majority |-> 0]
    /\ dgp = [round |-> 0, aslot |-> 0, filled |-> [i \in 1..WINDOW |-> 1],
              participation |-> WINDOW]
    /\ hf = [last |-> 0, next |-> 0, time |-> 0, clock |-> 0]
    /\ binary = [x \in Witness |-> 0]
    /\ ballot = <<>>
    /\ changes = 0

Next ==
    \/ \E p \in Witness, gap \in 0..MaxGap : Block(p, gap)
    \/ \E p, x \in Witness, delta \in {-1, 1} : BlockWithVote(p, x, delta)
    \/ \E p, x \in Witness : BlockWithKey(p, x)
    \/ \E x \in Witness, n \in 0..Len(HardforkTime) : Install(x, n)

\* Blocks are made for ever.  When nobody scheduled can produce the chain does stop:
\* such behaviours are not Spec's.
BlocksGoOn == []<><<dgp' # dgp>>_vars

Spec == Init /\ [][Next]_vars /\ BlocksGoOn

----------------------------------------------------------------------------
(* Properties                                                              *)

(* The type invariant: votes, virtual times and slots in their ranges.     *)
TypeOK ==
    /\ \A x \in Witness :
        /\ wit[x].votes \in 0..MaxVotes /\ wit[x].counted \in 0..MaxVotes
        /\ wit[x].penalty \in Nat /\ wit[x].key \in BOOLEAN
        /\ {wit[x].position, wit[x].updated, wit[x].time} \subseteq 0..LAP
        /\ wit[x].silence \in 0..(CHAIN_MAX_WITNESS_MISSED_BLOCKS + 1)
    /\ Range(wso.list) \subseteq Witness /\ wso.now \in 0..LAP
    /\ dgp.round \in 0..(CHAIN_MAX_WITNESSES - 1) /\ dgp.aslot \in 0..(SlotCycle - 1)
    /\ dgp.filled \in [1..WINDOW -> 0..1]
    /\ {hf.last, hf.next} \subseteq 0..Len(HardforkTime)
    /\ changes \in 0..MaxChanges

(* A witness's penalty is the sum of the penalty objects that have not     *)
(* expired, and its counted votes are its votes less that penalty, however *)
(* missed slots, expirations and changes of votes alternate: a witness is  *)
(* neither punished for ever nor rid of a penalty early.                   *)
PenaltyIsPending ==
    \A x \in Witness :
        /\ wit[x].penalty = PercentOf(x, penalties)
        /\ wit[x].counted = Counted(wit[x].votes, PercentOf(x, penalties))

(* No lap ends in the past: although votes, counted votes and the virtual  *)
(* time change independently and the times wrap around, nobody's scheduled *)
(* time is before the current virtual time.                                *)
NobodyIsLate == \A x \in Witness : wit[x].time >= wso.now

(* The list of a round, merged from those with the most votes and those    *)
(* whose time has come, names nobody twice and fits into its places.       *)
OneTurnEach ==
    /\ Cardinality(Range(wso.list)) = Len(wso.list)
    /\ Len(wso.list) <= CHAIN_MAX_WITNESSES

(* A hardfork is applied only if at the last count the required number of  *)
(* scheduled witnesses voted for exactly this one, although votes are      *)
(* cast in headers, kept in the witness objects, counted once a round over *)
(* a list that is about to be replaced, and acted upon blocks later.       *)
HardforkAgreed ==
    [][hf'.last # hf.last =>
        /\ hf'.last = hf.last + 1
        /\ Vote(hf'.last) \in Agreed(ballot')]_vars

(* Once votes and keys rest and as long as blocks are made, every witness  *)
(* that has a key and counted votes is scheduled again and again: virtual  *)
(* time starves nobody, also when a lap overflows and everybody is reset.  *)
EveryoneServes ==
    \A x \in Witness :
        <>[](wit[x].key /\ wit[x].counted > 0) => []<>(x \in Range(wso.list))
=============================================================================
