------------------------- MODULE PaidSubscriptions --------------------------
(***************************************************************************)
(* Paid subscriptions: what an account asks per level and period, and the  *)
(* subscribers that pay it now and again when a period ends.               *)
(***************************************************************************)
EXTENDS Ledger

CONSTANTS
    CreatePaidSubscriptionFee,
    Levels, Prices, Periods            \* terms an operation may name

Forever == 1000000                     \* time_point_sec::maximum()

set_paid_subscription(a, levels, amount, period) ==
    LET mine == {x \in db.subscriptions : x.creator = a}
        fee == IF mine = {} THEN CreatePaidSubscriptionFee ELSE 0
    IN  /\ a \in Users /\ amount > 0 /\ period > 0
        /\ db.balance[a] >= fee
        /\ db' = [adjust_balance(db, a, -fee) EXCEPT
                     !.committee_fund = @ + fee,
                     !.subscriptions = (@ \ mine) \cup
                         {[creator |-> a, levels |-> levels, amount |-> amount, period |-> period]}]

Pay(d, from, to, amount) == adjust_balance(adjust_balance(d, from, -amount), to, amount)

\* What left the balance of account a from d to e
Left(d, e, a) == d.balance[a] - e.balance[a]

\* A subscription on the terms of offer x, until time next.  The last three fields are history: the
\* sum agreed to per period, since when, and what left the subscriber's balance for it.
Terms(from, x, level, next, auto_renewal, charged) ==
    [subscriber |-> from, creator |-> x.creator, level |-> level, amount |-> x.amount,
     period |-> x.period, start_time |-> db.time, next_time |-> next, end_time |-> Forever,
     active |-> TRUE, auto_renewal |-> auto_renewal,
     agreed |-> x.amount * level, since |-> db.time, charged |-> charged]

\* the cost of the first period, or the free time, when what is left of the old one is worth credit
Subscribe(from, x, level, auto_renewal, old, credit) ==
    LET sum == x.amount * level
        cost == most(0, sum - credit)
        length == IF credit >= sum THEN (credit * x.period) \div sum ELSE x.period
    IN  /\ db.balance[from] >= cost
        /\ \E d \in {Pay(db, from, x.creator, cost)} :
              db' = [d EXCEPT !.subscribes = (@ \ old) \cup
                         {Terms(from, x, level, db.time + length, auto_renewal, Left(db, d, from))}]

\* the value of the time left; a period that is over but not yet renewed has no such value
Rest(s) == (s.amount * s.level * (s.next_time - db.time)) \div s.period

paid_subscribe(from, x, level, auto_renewal) ==
    LET old == {s \in db.subscribes : s.subscriber = from /\ s.creator = x.creator}
        running == {s \in old : s.active}
        same == {s \in running : s.amount = x.amount /\ s.level = level /\ s.period = x.period}
    IN  /\ from \in Users
        /\ level > 0 /\ x.levels >= level
        /\ \/ \E s \in same :
                 /\ s.auto_renewal # auto_renewal
                 /\ db' = [db EXCEPT !.subscribes = (@ \ {s}) \cup {[s EXCEPT !.auto_renewal = auto_renewal]}]
           \/ \E s \in running \ same : Rest(s) >= 0 /\ Subscribe(from, x, level, auto_renewal, old, Rest(s))
           \/ running = {} /\ Subscribe(from, x, level, auto_renewal, old, 0)

CloseSubscribe(s) ==
    [s EXCEPT !.end_time = s.next_time, !.next_time = Forever, !.active = FALSE, !.auto_renewal = FALSE]

\* Mutant: a higher price is accepted for the subscriber.
AnyPrice(s, x, level) == x.period >= s.period

\* terms that are not worse for the subscriber
NotWorse(s, x, level) == x.period >= s.period /\ s.amount * s.level >= x.amount * level

\* the next period of s, or its end; the period of the old terms is kept in s
RenewOrClose(d, s) ==
    LET offers == {x \in d.subscriptions : x.creator = s.creator}
        level(x) == least(s.level, x.levels)
        good == {x \in offers : /\ s.auto_renewal /\ NotWorse(s, x, level(x))
                                /\ d.balance[s.subscriber] >= x.amount * level(x)}
    IN  IF good = {} THEN [d EXCEPT !.subscribes = (@ \ {s}) \cup {CloseSubscribe(s)}]
        ELSE LET x == CHOOSE x \in good : TRUE
                 e == Pay(d, s.subscriber, s.creator, x.amount * level(x))
             IN  [e EXCEPT
                 !.subscribes = (@ \ {s}) \cup
                     {[s EXCEPT !.amount = x.amount, !.level = level(x), !.start_time = d.time,
                                !.next_time = d.time + x.period,
                                !.charged = @ + Left(d, e, s.subscriber)]}]

Due(d) == {s \in d.subscribes : s.active /\ s.next_time <= d.time}

\* the subscriptions that can come first in by_next_time
FirstDue(d) == {s \in Due(d) : \A t \in Due(d) : s.next_time <= t.next_time}

\* The loop moves on from the object it has just moved behind all that are due: one
\* subscription is handled in a block.
paid_subscribe_processing(d) ==
    IF Due(d) = {} THEN {d} ELSE {RenewOrClose(d, s) : s \in FirstDue(d)}

----------------------------------------------------------------------------
(* Properties                                                              *)

\* All that ever left a subscriber's balance for a subscription is covered by the time it got, at
\* the sum and the period it agreed to: through any number of renewals, cheaper and dearer offers,
\* longer and shorter periods and blocks that renew late, no period is charged above the agreed sum,
\* charged twice or cut short (database.cpp:1331-1347).
ChargedAsAgreed ==
    \A s \in db.subscribes :
        s.charged * s.period <= s.agreed * ((IF s.active THEN s.next_time ELSE s.end_time) - s.since)
=============================================================================
