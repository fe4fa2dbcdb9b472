-------------------------------- MODULE Match --------------------------------
(***************************************************************************)
(* The match engine (fig_match_orders), called by fig_exec_submit at       *)
(* src/src/fig/exec.c:180.  Its body is not in the repository, so the      *)
(* algorithm is the one spec.md section 4.4 states: walk the opposite side *)
(* best-first while the prices cross, fill min(taker residual, maker       *)
(* residual) at the maker's price, and skip a maker whose fill would be    *)
(* below the taker's minimum unless it exhausts the taker.  Makers are not *)
(* reduced here: exec.c:101 ("Assumes that maker lots have not been        *)
(* reduced since matching took place") reduces them in apply_trades.       *)
(***************************************************************************)
EXTENDS Integers, Sequences

BUY == "buy"
SELL == "sell"
Sides == {BUY, SELL}

Opposite(side) == IF side = BUY THEN SELL ELSE BUY

\* A price better for a resting order of this side: higher bids, lower offers.
Better(side, a, b) == IF side = BUY THEN a > b ELSE a < b

\* The taker's limit crosses the maker's resting price.
Crosses(takerSide, takerTicks, makerTicks) ==
    IF takerSide = BUY THEN takerTicks >= makerTicks ELSE takerTicks <= makerTicks

\* Fault model: the fill ignores the maker's residual.
FillLotsRem(rem, makerResd) == rem

\* The quantity of one fill: the smaller of the two residuals.
FillLots(rem, makerResd) == IF rem < makerResd THEN rem ELSE makerResd

(***************************************************************************)
(* taker is [side, ticks, min]; makers the opposite side best-first as     *)
(* records [id, ticks, resd]; rem the taker's lots not yet filled.  The    *)
(* result lists the matches [maker, lots, ticks] in execution order.       *)
(***************************************************************************)
RECURSIVE MatchLoop(_, _, _)
MatchLoop(taker, makers, rem) ==
    IF makers = <<>> \/ rem = 0
       \/ ~Crosses(taker.side, taker.ticks, Head(makers).ticks)
    THEN <<>>
    ELSE LET m == Head(makers)
             q == FillLots(rem, m.resd)
         IN IF q < taker.min /\ q < rem
            THEN MatchLoop(taker, Tail(makers), rem)
            ELSE <<[maker |-> m.id, lots |-> q, ticks |-> m.ticks]>>
                    \o MatchLoop(taker, Tail(makers), rem - q)

MatchOrders(taker, makers) == MatchLoop(taker, makers, taker.resd)

=============================================================================
