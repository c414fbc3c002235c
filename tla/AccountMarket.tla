--------------------------- MODULE AccountMarket ----------------------------
(***************************************************************************)
(* Accounts for sale: an auction while the sale has not started, a direct  *)
(* purchase afterwards, a sale to one buyer only, and subaccounts.         *)
(***************************************************************************)
EXTENDS AccountRecovery

CONSTANTS
    AccountOnSaleFee,
    SubaccountOnSaleFee,
    CHAIN_ACCOUNT_AUCTION_MIN_STEP,
    WallClock              \* how far fc::time_point::now() + CHAIN_ACCOUNT_AUCTION_EXTENSION_TIME
                           \* may be ahead of the head block when the operation is applied

ClearBid(s) ==
    [s EXCEPT !.on_auction = FALSE, !.bid = 0, !.bidder = NoAccount, !.key = NoKey, !.last_bid = 0]

\* Mutant: nothing is given back to a bidder whose bid goes.
KeepReserved(d, a) == d

\* the reserved tokens of the current bid go back to the bidder
ReturnBid(d, a) ==
    IF d.sale[a].bidder = NoAccount THEN d
    ELSE [d EXCEPT !.reserved[d.sale[a].bidder] = @ - d.sale[a].bid,
                   !.balance[d.sale[a].bidder] = @ + d.sale[a].bid]

CancelBid(d, a) == [ReturnBid(d, a) EXCEPT !.sale[a] = ClearBid(@)]

PayFee(d, a, fee) == [adjust_balance(d, a, -fee) EXCEPT !.committee_fund = @ + fee]

\* a bid that is not below a raised price stays
GoodBid(s, price) == s.price < price => s.bid >= price

\* what both sale operations do: the fee with the first seller, the bid that no longer fits,
\* and the delay when the account was not on sale
SellAccount(a, seller, price, on_sale, keep, target) ==
    LET was == db.sale[a]
        fee == IF was.seller = NoAccount THEN AccountOnSaleFee ELSE 0
        set == [seller |-> seller, price |-> price, on_sale |-> on_sale, target |-> target,
                start |-> IF ~on_sale THEN 0
                          ELSE IF was.on_sale THEN was.start ELSE db.time + CHAIN_ACCOUNT_ON_SALE_DELAY]
    IN  /\ a \in Users /\ seller \in db.exists /\ price > 0
        /\ db.balance[a] >= fee
        /\ \E d \in {PayFee(db, a, fee)} :
           \E e \in {IF on_sale /\ (was.bidder = NoAccount \/ keep) THEN d ELSE CancelBid(d, a)} :
              db' = [e EXCEPT !.sale[a] = [f \in DOMAIN @ |-> IF f \in DOMAIN set THEN set[f] ELSE @[f]]]

set_account_price(a, seller, price, on_sale) ==
    SellAccount(a, seller, price, on_sale, GoodBid(db.sale[a], price), db.sale[a].target)

target_account_sale(a, seller, price, on_sale, target) ==
    /\ target \in db.exists
    /\ SellAccount(a, seller, price, on_sale, db.sale[a].bidder = target /\ GoodBid(db.sale[a], price),
                   IF on_sale THEN target ELSE NoAccount)

set_subaccount_price(a, seller, price, on_sale) ==
    LET fee == IF db.subaccount[a].seller = NoAccount THEN SubaccountOnSaleFee ELSE 0
    IN  /\ a \in Users /\ seller \in db.exists /\ price > 0
        /\ db.balance[a] >= fee
        /\ db' = [PayFee(db, a, fee) EXCEPT
                     !.subaccount[a] = [seller |-> seller, price |-> price, on_sale |-> on_sale]]

----------------------------------------------------------------------------
(* buy_account                                                             *)

NoSubaccounts == [seller |-> NoAccount, price |-> 0, on_sale |-> FALSE]

\* the account changes hands: new authorities, the buyer as partner, nothing for sale
HandOver(d, a, buyer, key) ==
    [d EXCEPT !.sale[a] = [@ EXCEPT !.seller = NoAccount, !.price = 0, !.on_sale = FALSE, !.start = 0],
              !.subaccount[a] = NoSubaccounts,
              !.master[a] = key,
              !.last_master_update[a] = d.time,
              !.recovery_account[a] = buyer]

MayBuy(buyer, a) ==
    /\ db.sale[a].on_sale
    /\ \A r \in db.recovery_requests : r.account # a
    /\ db.sale[a].target \in {NoAccount, buyer}

\* the least amount by which a bid must exceed the current one
MinStep(s) ==
    LET tenth == (s.price * CHAIN_ACCOUNT_AUCTION_MIN_STEP) \div CHAIN_100_PERCENT
    IN  IF s.bid = 0 THEN s.price
        ELSE IF s.last_bid # 0 THEN most(tenth, s.bid - s.last_bid) ELSE tenth

\* the balance of the bidder is not checked: bidders remembers whose balance may be below zero
Bid(buyer, a, offer, to_shares, key, ahead) ==
    LET s == db.sale[a] IN
    /\ {buyer, a} \subseteq Users /\ to_shares >= AccountCreationFee
    /\ MayBuy(buyer, a)
    /\ s.start > db.time
    /\ offer >= s.bid + MinStep(s)
    /\ \E d \in {ReturnBid(db, a)} :
          db' = [d EXCEPT !.sale[a] = [@ EXCEPT !.last_bid = IF s.bidder \in {NoAccount, buyer} THEN @ ELSE s.bid,
                                                !.bid = offer, !.bidder = buyer, !.key = key,
                                                !.on_auction = TRUE, !.start = most(@, db.time + ahead)],
                          !.reserved[buyer] = @ + offer,
                          !.balance[buyer] = @ - offer,
                          !.bidders = @ \cup {buyer}]

BuyAtPrice(buyer, a, offer, to_shares, key) ==
    LET s == db.sale[a] IN
    /\ {buyer, a} \subseteq Users /\ to_shares >= AccountCreationFee
    /\ MayBuy(buyer, a)
    /\ s.start <= db.time
    /\ s.bidder = NoAccount
    /\ offer = s.price
    /\ db.balance[buyer] >= offer + to_shares
    /\ \E d \in {adjust_balance(adjust_balance(db, buyer, -(offer + to_shares)), s.seller, offer)} :
       \E e \in {create_vesting(d, a, to_shares)} :
          db' = HandOver(e, a, buyer, key)

\* the account n does not exist: it is created as a subaccount of parent
BuySubaccount(buyer, parent, n, offer, to_shares, key) ==
    LET s == db.subaccount[parent] IN
    /\ {buyer, parent} \subseteq Users /\ n \in Account \ db.exists
    /\ to_shares >= AccountCreationFee
    /\ s.on_sale /\ offer = s.price
    /\ db.balance[buyer] >= offer + to_shares
    /\ \E d \in {adjust_balance(adjust_balance(db, buyer, -(offer + to_shares)), s.seller, offer)} :
       \E e \in {CreateAccount(d, n, buyer)} :
          db' = create_vesting([e EXCEPT !.master[n] = key], n, to_shares)

\* a request to recover the account stops its sale
StopSale(d, a) ==
    [CancelBid(d, a) EXCEPT
        !.sale[a] = [@ EXCEPT !.on_sale = FALSE, !.price = 0, !.start = 0, !.target = NoAccount]]

Sold(d, a) ==
    LET s == d.sale[a]
        paid == [d EXCEPT !.reserved[s.bidder] = @ - s.bid,
                          !.balance[s.seller] = @ + s.bid,
                          !.sale[a] = [ClearBid(@) EXCEPT !.target = NoAccount]]
    IN  HandOver(paid, a, s.bidder, s.key)

\* the end of the auction of account a, with and without a buyer the sale is limited to
AuctionEnds(d, a) ==
    LET s == d.sale[a]
        fits == s.bidder # NoAccount /\ s.on_sale /\ s.bid >= s.price /\ s.target \in {NoAccount, s.bidder}
        requested == \E r \in d.recovery_requests : r.account = a
    IN  IF ~fits THEN CancelBid(d, a)
        ELSE IF requested THEN StopSale(d, a)
        ELSE Sold(d, a)

account_on_auction_expiration(d) ==
    ForEach(d, {a \in Account : d.sale[a].on_auction /\ d.sale[a].start <= d.time}, LAMBDA a : a, AuctionEnds)

----------------------------------------------------------------------------
(* Properties                                                              *)

\* The reserved balance of an account is exactly its bids that are still current: whatever
\* cancels, outbids, sells or recovers (chain_evaluator.cpp:1806, 1840, 2145, database.cpp:2634),
\* a bid is given back or paid once.
BidsReserved ==
    \A b \in Account :
        db.reserved[b] = MapThenSumSet(LAMBDA a : db.sale[a].bid, {a \in Account : db.sale[a].bidder = b})

\* While an account is on sale its current bid reaches the price, is not below the bid before it and
\* comes from the buyer the sale is limited to, so the branches of account_on_auction_expiration
\* marked impossible (database.cpp:2682, 2799, 2831) are not met by an account on sale.
BidsFitTheSale ==
    \A a \in Account :
        LET s == db.sale[a] IN
        /\ s.on_auction <=> s.bidder # NoAccount
        /\ s.bidder # NoAccount =>
              /\ s.bid >= s.last_bid
              /\ s.on_sale => s.bid >= s.price
              /\ s.target \in {NoAccount, s.bidder}

\* A bid, the tokens reserved for it and the sale it was made in agree on every path a sale can end.
BidsAccounted == BidsReserved /\ BidsFitTheSale
=============================================================================
