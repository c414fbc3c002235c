----------------------------- MODULE Committee ------------------------------
(***************************************************************************)
(* Requests to the committee fund: created for a fee, voted on with the    *)
(* voter's effective shares, decided when their time ends and paid in      *)
(* instalments from what the fund holds.                                   *)
(***************************************************************************)
EXTENDS Vesting

CONSTANTS
    CommitteeCreateRequestFee,
    CommitteeApproveMinPercent,
    COMMITTEE_MIN_DURATION, COMMITTEE_MAX_DURATION,
    COMMITTEE_MAX_REQUIRED_AMOUNT,
    COMMITTEE_REQUEST_PER_TIME,
    COMMITTEE_REQUEST_PROCESSING,      \* blocks between two payments
    CHAIN_CLEAR_CLOSED_COMMITTEE_REQUEST_DELAY,
    Urls, Votes, Durations

ASSUME CommitteeParameters ==
    /\ COMMITTEE_REQUEST_PROCESSING \in Nat \ {0}
    /\ Votes \subseteq (-CHAIN_100_PERCENT)..CHAIN_100_PERCENT

\* the values of status
Active == 0
Cancelled == 1
NotEnough == 2
Rejected == 3
Approved == 4
Paid == 5

\* division of C++: towards zero
Quotient(a, b) == IF a < 0 THEN -((-a) \div b) ELSE a \div b

committee_create_valid(min, max, duration) ==
    /\ max > min /\ max <= COMMITTEE_MAX_REQUIRED_AMOUNT
    /\ duration \in COMMITTEE_MIN_DURATION..COMMITTEE_MAX_DURATION

committee_worker_create_request(creator, worker, url, min, max, duration) ==
    /\ creator \in Users /\ worker \in db.exists
    /\ committee_create_valid(min, max, duration)
    /\ db.balance[creator] >= CommitteeCreateRequestFee
    /\ \A c \in db.requests : c.creator = creator =>
          /\ c.url # url
          /\ COMMITTEE_REQUEST_PER_TIME <= db.time - c.start_time
    /\ db' = [adjust_balance(db, creator, -CommitteeCreateRequestFee) EXCEPT
                 !.committee_fund = @ + CommitteeCreateRequestFee,
                 !.committee_requests = @ + 1,
                 !.requests = @ \cup
                     {[request_id |-> db.committee_requests + 1, creator |-> creator, worker |-> worker,
                       url |-> url, min |-> min, max |-> max,
                       start_time |-> db.time, end_time |-> db.time + duration, status |-> Active,
                       conclusion_time |-> 0, conclusion |-> 0, payout |-> 0, remain |-> 0]}]

committee_worker_cancel_request(c) ==
    /\ c.creator \in Users
    /\ c.status = Active
    /\ db' = [db EXCEPT !.requests = (@ \ {c}) \cup
                 {[c EXCEPT !.status = Cancelled, !.conclusion_time = db.time]}]

committee_vote_request(voter, c, percent) ==
    LET mine == {v \in db.request_votes : v.request_id = c.request_id /\ v.voter = voter}
    IN  /\ voter \in Users
        /\ c.status = Active
        /\ \A v \in mine : v.percent # percent
        /\ db' = [db EXCEPT !.request_votes = (@ \ mine) \cup
                     {[request_id |-> c.request_id, voter |-> voter, percent |-> percent]}]

----------------------------------------------------------------------------
(* The end of a block                                                      *)

VotesOf(d, c) == {v \in d.request_votes : v.request_id = c.request_id}

Decided(d, c) ==
    LET votes == VotesOf(d, c)
        max_rshares == MapThenSumSet(LAMBDA v : effective_vesting_shares(d, v.voter), votes)
        actual == MapThenSumSet(LAMBDA v :
                      Quotient(effective_vesting_shares(d, v.voter) * v.percent, CHAIN_100_PERCENT), votes)
        needed == (d.total_vesting_shares * CommitteeApproveMinPercent) \div CHAIN_100_PERCENT
        payment == (c.max * ((CHAIN_100_PERCENT * actual) \div max_rshares)) \div CHAIN_100_PERCENT
        done == [c EXCEPT !.conclusion_time = d.time]
    IN  IF needed > max_rshares THEN [done EXCEPT !.status = NotEnough]
        ELSE IF actual <= 0 THEN [done EXCEPT !.status = Rejected]
        ELSE IF c.min > payment THEN [done EXCEPT !.status = Rejected, !.conclusion = payment]
        ELSE [done EXCEPT !.status = Approved, !.conclusion = payment, !.remain = payment]

DecideRequests(d) ==
    [d EXCEPT !.requests = {IF c.status = Active /\ c.end_time <= d.time THEN Decided(d, c) ELSE c : c \in @}]

\* Mutant: the part of a request is not limited by what it has left to get.
PayInFull(d, c, part) ==
    LET next == [c EXCEPT !.payout = @ + part, !.remain = @ - part] IN
    [adjust_balance(d, c.worker, part) EXCEPT
        !.committee_fund = @ - part,
        !.requests = (@ \ {c}) \cup {[next EXCEPT !.status = IF next.remain <= 0 THEN Paid ELSE @]}]

\* one instalment of request c
PayRequest(d, c, part) ==
    LET payment == least(part, c.remain)
        next == [c EXCEPT !.payout = @ + payment, !.remain = @ - payment]
    IN  [adjust_balance(d, c.worker, payment) EXCEPT
            !.committee_fund = @ - payment,
            !.requests = (@ \ {c}) \cup {[next EXCEPT !.status = IF next.remain <= 0 THEN Paid ELSE @]}]

PayRequests(d) ==
    LET paying == {c \in d.requests : c.status = Approved}
        part == d.committee_fund \div (Cardinality(paying) + 1)
    IN  IF d.block % COMMITTEE_REQUEST_PROCESSING # 0 THEN d
        ELSE ForEach(d, paying, LAMBDA c : c.request_id, LAMBDA v, c : PayRequest(v, c, part))

committee_processing(d) == Then(DecideRequests(d), PayRequests)

\* cancelled and rejected requests go with their votes after a delay; paid ones stay
clear_closed_committee_requests(d) ==
    LET gone == {c \in d.requests : /\ c.status \in {Cancelled, NotEnough, Rejected}
                                    /\ d.time - CHAIN_CLEAR_CLOSED_COMMITTEE_REQUEST_DELAY > c.conclusion_time}
    IN  [d EXCEPT !.requests = @ \ gone,
                  !.request_votes = {v \in @ : \A c \in gone : v.request_id # c.request_id}]

----------------------------------------------------------------------------
(* Properties                                                              *)

\* A request is paid what was concluded and nothing more, however many requests share the fund
\* and however often it runs dry: what it got and what is left make up the conclusion, the fund
\* never goes below zero, and votes belong to requests that exist (database.cpp:1465).
CommitteePaysAsConcluded ==
    /\ db.committee_fund >= 0
    /\ \A c \in db.requests :
          /\ c.status \in {Approved, Paid} => /\ c.payout + c.remain = c.conclusion
                                              /\ c.conclusion \in c.min..c.max
                                              /\ c.remain >= 0
          /\ c.status \in {Active, Cancelled, NotEnough, Rejected} => c.payout = 0
          /\ c.status = Paid => c.remain = 0
    /\ \A v \in db.request_votes : \E c \in db.requests : c.request_id = v.request_id
=============================================================================
