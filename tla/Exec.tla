-------------------------------- MODULE Exec --------------------------------
(***************************************************************************)
(* The execution coordinator of src/src/fig/exec.c with the parts it       *)
(* drives: one market's order book, the traders' order indexes, the        *)
(* accounts' trade indexes and positions, the pool nodes holding orders,   *)
(* trades and matches, and the journal.  Each exec.c entry point is one    *)
(* action; every failure label of fig_exec_submit is an action of its own. *)
(*                                                                         *)
(* A journal failure in revise, cancel or archive rolls the call back with *)
(* no state change at all: that is a stuttering step, which the            *)
(* specification admits anyway, so those failure branches are not listed.  *)
(* Timestamps (now) and the session callback dbr_accnt_sess_trade are not  *)
(* modelled: no state of the core depends on them.                         *)
(***************************************************************************)
EXTENDS Integers, Sequences, FiniteSets, SequencesExt, FiniteSetsExt, Match

CONSTANTS
    Traders,     \* trader records; each trader trades on its own account
    TicksSet,    \* limit prices an order may carry
    LotsSet,     \* order quantities
    MinLotsSet,  \* minimum fill quantities (DbrOrder.min)
    Refs,        \* client references
    NoRef,       \* the empty reference (ref[0] = '\0')
    MaxOrders,   \* bound on the ids dbr_journ_alloc_id hands out
    MaxRev       \* bound on an order's revision counter, capping revises

ASSUME MaxOrders \in Nat /\ NoRef \notin Refs

DBR_NEW == "new"
DBR_REVISED == "revised"
DBR_PARTIAL == "partial"
DBR_FILLED == "filled"
DBR_CANCELLED == "cancelled"
Statuses == {DBR_NEW, DBR_REVISED, DBR_PARTIAL, DBR_FILLED, DBR_CANCELLED}

OrderIds == 1..MaxOrders

\* A trade is identified by its taker order, its match number and its role.
TradeIds == OrderIds \X (1..MaxOrders) \X {"taker", "maker"}
MatchIds == OrderIds \X (1..MaxOrders)

VARIABLES
    orders,   \* contents of every order node handed out (memory outlives free)
    live,     \* order nodes currently allocated from the pool
    index,    \* orders emplaced in their trader's index (fig_trader_*)
    book,     \* per side, the resting order ids best-first (fig_market_*)
    trades,   \* allocated trade nodes: trade id -> trade
    accnt,    \* trades emplaced in their account's index (fig_accnt_*)
    matches,  \* allocated match nodes
    trans,    \* matches linked from the caller's DbrTrans
    posn,     \* per trader, the position accumulators of DbrPosn
    journ,    \* journal: order id -> last order row written
    jtrades,  \* journal: trade id -> trade row
    nextId    \* next id dbr_journ_alloc_id returns

vars == <<orders, live, index, book, trades, accnt, matches, trans, posn,
          journ, jtrades, nextId>>

Done(o) == o.resd = 0                                  \* dbr_order_done

(***************************************************************************)
(* Positions: apply_posn adds lots and lots*ticks to the accumulator of    *)
(* the trade's side.                                                       *)
(***************************************************************************)
NoPosn == [buyLots |-> 0, buyLicks |-> 0, sellLots |-> 0, sellLicks |-> 0]

\* Fault model: every trade credited to the buy accumulators.
ApplyPosnBuyOnly(p, tr) ==
    [p EXCEPT !.buyLots = @ + tr.lots, !.buyLicks = @ + tr.lots * tr.ticks]

ApplyPosn(p, tr) ==
    IF tr.side = BUY
    THEN [p EXCEPT !.buyLots = @ + tr.lots, !.buyLicks = @ + tr.lots * tr.ticks]
    ELSE [p EXCEPT !.sellLots = @ + tr.lots, !.sellLicks = @ + tr.lots * tr.ticks]

\* apply_trades' position updates: apply_posn for each trade in turn, to the
\* position of the trade's trader.
ApplyTrades(p, applied) ==
    FoldLeft(LAMBDA q, tr : [q EXCEPT ![tr.trader] = ApplyPosn(@, tr)], p, applied)

\* The journal row dbr_journ_update_order writes.
Row(o, rev, status, resd, exec, lots, arch) ==
    [rev |-> rev, status |-> status, resd |-> resd, exec |-> exec, lots |-> lots,
     arch |-> arch]

Arch(id) == IF id \in DOMAIN journ THEN journ[id].arch ELSE FALSE

(***************************************************************************)
(* The order book (fig_market_*, spec.md 4.3).                             *)
(***************************************************************************)
\* The resting side as the match engine reads it.
MakerView(seq) ==
    [i \in 1..Len(seq) |-> [id |-> seq[i], ticks |-> orders[seq[i]].ticks,
                            resd |-> orders[seq[i]].resd]]

InsertOrder(seq, id, o) ==
    LET ahead == {i \in 1..Len(seq) :
                     ~Better(o.side, o.ticks, orders[seq[i]].ticks)}
        pos == IF ahead = {} THEN 1 ELSE Max(ahead) + 1
    IN InsertAt(seq, pos, id)

\* fig_market_insert allocates a DbrLevel for the first order at a price.
NewLevel(seq, ticks) == \A i \in 1..Len(seq) : orders[seq[i]].ticks # ticks

\* fig_market_take: reduce the maker, bump its revision.
Take(o, lots) ==
    [o EXCEPT !.resd = @ - lots, !.exec = @ + lots, !.rev = @ + 1,
              !.status = IF o.resd = lots THEN DBR_FILLED ELSE DBR_PARTIAL]

(***************************************************************************)
(* insert_trans: the journal rows of the taker after the k-th match and of *)
(* the k-th maker, computed from the order as it was before matching.      *)
(***************************************************************************)
TakenBy(ms, k) == FoldLeft(LAMBDA acc, m : acc + m.lots, 0, SubSeq(ms, 1, k))

TakerRow(o, ms, k) ==
    LET resd == o.resd - TakenBy(ms, k)
    IN Row(o, o.rev + k, IF resd = 0 THEN DBR_FILLED ELSE DBR_PARTIAL, resd,
           o.exec + TakenBy(ms, k), o.lots, FALSE)

\* Fault model: the maker row written without the revision increment.
MakerRowSameRev(mk, lots) ==
    Row(mk, mk.rev, IF mk.resd - lots = 0 THEN DBR_FILLED ELSE DBR_PARTIAL,
        mk.resd - lots, mk.exec + lots, mk.lots, Arch(mk.id))

MakerRow(mk, lots) ==
    Row(mk, mk.rev + 1, IF mk.resd - lots = 0 THEN DBR_FILLED ELSE DBR_PARTIAL,
        mk.resd - lots, mk.exec + lots, mk.lots, Arch(mk.id))

\* The two trade records of match k (fig_match_orders allocates them).
TakerTrade(id, o, m) ==
    [trader |-> o.trader, side |-> o.side, lots |-> m.lots, ticks |-> m.ticks,
     role |-> "taker", order |-> id]
MakerTrade(mk, m) ==
    [trader |-> mk.trader, side |-> mk.side, lots |-> m.lots, ticks |-> m.ticks,
     role |-> "maker", order |-> m.maker]

TypeOK ==
    /\ DOMAIN orders \subseteq OrderIds
    /\ \A id \in DOMAIN orders :
          orders[id] \in [trader : Traders, ref : Refs \cup {NoRef}, side : Sides,
                          ticks : TicksSet, lots : Nat, resd : Nat, exec : Nat,
                          rev : Nat, status : Statuses, min : MinLotsSet, id : OrderIds]
    /\ live \subseteq DOMAIN orders /\ index \subseteq DOMAIN orders
    /\ book \in [Sides -> Seq(DOMAIN orders)]
    /\ DOMAIN trades \subseteq TradeIds /\ accnt \subseteq TradeIds
    /\ matches \subseteq MatchIds /\ trans \subseteq MatchIds
    /\ posn \in [Traders -> [buyLots : Nat, buyLicks : Nat, sellLots : Nat, sellLicks : Nat]]
    /\ DOMAIN journ \subseteq OrderIds /\ DOMAIN jtrades \subseteq TradeIds
    /\ \A id \in DOMAIN journ :
          journ[id] \in [rev : Nat, status : Statuses, resd : Nat, exec : Nat,
                         lots : Nat, arch : BOOLEAN]
    /\ nextId \in 1..MaxOrders + 1

Init ==
    /\ orders = <<>> /\ live = {} /\ index = {}
    /\ book = [s \in Sides |-> <<>>]
    /\ trades = <<>> /\ accnt = {} /\ matches = {} /\ trans = {}
    /\ posn = [t \in Traders |-> NoPosn]
    /\ journ = <<>> /\ jtrades = <<>>
    /\ nextId = 1


(***************************************************************************)
(* fig_exec_submit (exec.c:140-223).                                       *)
(***************************************************************************)
\* exec.c:158-178: the fields of the new order.
NewOrder(id, t, ref, side, ticks, lots, min) ==
    [id |-> id, trader |-> t, ref |-> ref, side |-> side, ticks |-> ticks,
     lots |-> lots, resd |-> lots, exec |-> 0, rev |-> 1, status |-> DBR_NEW, min |-> min]

SubmitMatches(o) == MatchOrders(o, MakerView(book[Opposite(o.side)]))

\* exec.c:196-201: the taker after n matches filling taken lots.
CommitTaker(o, n, taken) ==
    IF n = 0 THEN o
    ELSE [o EXCEPT !.rev = @ + n, !.resd = @ - taken, !.exec = @ + taken,
                   !.status = IF o.resd - taken = 0 THEN DBR_FILLED ELSE DBR_PARTIAL]

\* The caller hands in a DbrTrans it has emptied with fig_exec_free_matches.
SubmitReady == nextId <= MaxOrders /\ trans = {}

\* Every failure consumes the id already taken from dbr_journ_alloc_id and
\* nothing else: the labels below free what was provisionally allocated.
SubmitAborted ==
    /\ nextId' = nextId + 1
    /\ UNCHANGED <<orders, live, index, book, trades, accnt, matches, trans,
                   posn, journ, jtrades>>

\* exec.c:153-156: fig_pool_alloc_order fails; goto fail1.
SubmitNoMemory == SubmitAborted

\* exec.c:183-184: dbr_journ_begin_trans fails; fail2 frees the order.
SubmitNoTrans == SubmitAborted

\* exec.c:186-188: dbr_journ_insert_order or fig_match_orders fails; fail3
\* rolls the journal back and fail2 frees the order.
SubmitMatchFailed == SubmitAborted

\* exec.c:190-194: a write of insert_trans fails; fail4 frees the matches
\* and both trades of each, then the journal is rolled back and the order freed.
SubmitTransFailed(o) ==
    /\ Len(SubmitMatches(o)) > 0
    /\ SubmitAborted

SubmitNoLevel(o) ==
    LET ms == SubmitMatches(o)
        n == Len(ms)
    IN /\ ~Done(CommitTaker(o, n, TakenBy(ms, n)))
       /\ NewLevel(book[o.side], o.ticks)
       /\ SubmitAborted

\* exec.c:190-212 with apply_trades (exec.c:96-130): every write succeeds;
\* the taker is indexed and rests if unfilled, each maker is taken, both
\* trades of each match go to their accounts and positions, and the
\* journal transaction commits.
SubmitOk(o) ==
    LET ms == SubmitMatches(o)
        n == Len(ms)
        opp == Opposite(o.side)
        taker == CommitTaker(o, n, TakenBy(ms, n))
        makerIds == {ms[k].maker : k \in 1..n}
        lotsOf(x) == ms[CHOOSE k \in 1..n : ms[k].maker = x].lots
        made == [x \in makerIds |-> Take(orders[x], lotsOf(x))]
        tt == [k \in 1..n |-> TakerTrade(o.id, o, ms[k])]
        mt == [k \in 1..n |-> MakerTrade(orders[ms[k].maker], ms[k])]
        newTrades == [tid \in {<<o.id, k, r>> : k \in 1..n, r \in {"taker", "maker"}} |->
                         IF tid[3] = "taker" THEN tt[tid[2]] ELSE mt[tid[2]]]
        applied == FlattenSeq([k \in 1..n |-> <<tt[k], mt[k]>>])
    IN /\ nextId' = o.id + 1
       /\ orders' = [x \in DOMAIN orders \cup {o.id} |->
                        IF x = o.id THEN taker
                        ELSE IF x \in makerIds THEN made[x] ELSE orders[x]]
       /\ live' = live \cup {o.id}
       /\ index' = index \cup {o.id}
       /\ book' = [book EXCEPT
                     ![opp] = SelectSeq(@, LAMBDA x : ~(x \in makerIds /\ Done(made[x]))),
                     ![o.side] = IF Done(taker) THEN @ ELSE InsertOrder(@, o.id, taker)]
       /\ trades' = trades @@ newTrades
       /\ accnt' = accnt \cup DOMAIN newTrades
       /\ matches' = matches \cup {<<o.id, k>> : k \in 1..n}
       /\ trans' = {<<o.id, k>> : k \in 1..n}
       /\ posn' = ApplyTrades(posn, applied)
       /\ journ' = [x \in DOMAIN journ \cup {o.id} |->
                       IF x = o.id
                       THEN IF n = 0 THEN Row(o, o.rev, o.status, o.resd, o.exec, o.lots, FALSE)
                            ELSE TakerRow(o, ms, n)
                       ELSE IF x \in makerIds THEN MakerRow(orders[x], lotsOf(x))
                       ELSE journ[x]]
       /\ jtrades' = jtrades @@ [tid \in DOMAIN newTrades |->
                        [trader |-> newTrades[tid].trader, side |-> newTrades[tid].side,
                         lots |-> newTrades[tid].lots, ticks |-> newTrades[tid].ticks,
                         arch |-> FALSE]]

Submit(o) ==
    /\ SubmitReady
    /\ \/ SubmitNoMemory
       \/ SubmitNoTrans
       \/ SubmitMatchFailed
       \/ SubmitTransFailed(o)
       \/ SubmitNoLevel(o)
       \/ SubmitOk(o)

(***************************************************************************)
(* fig_exec_revise_id / fig_exec_revise_ref (exec.c:225-296).              *)
(***************************************************************************)
\* fig_market_revise (spec.md 4.3): refused below the executed lots.
Revised(o, lots) ==
    [o EXCEPT !.lots = lots, !.resd = lots - o.exec, !.rev = @ + 1, !.status = DBR_REVISED]

\* The body shared by both entry points once the order is found: the
\* journal row is written before fig_market_revise runs.
ReviseOrder(id, lots) ==
    LET o == orders[id] IN
    /\ ~Done(o)
    /\ o.rev < MaxRev
    /\ lots >= o.exec
    /\ journ' = [journ EXCEPT ![id] = Row(o, o.rev + 1, DBR_REVISED, o.resd, o.exec, lots, @.arch)]
    /\ orders' = [orders EXCEPT ![id] = Revised(o, lots)]
    /\ UNCHANGED <<live, index, book, trades, accnt, matches, trans, posn, jtrades, nextId>>

ReviseId(t, id, lots) ==
    /\ id \in index /\ orders[id].trader = t
    /\ ReviseOrder(id, lots)

ReviseRef(t, ref, lots) ==
    \E id \in index :
        /\ orders[id].trader = t /\ orders[id].ref = ref
        /\ ReviseOrder(id, lots)

(***************************************************************************)
(* fig_exec_cancel_id / fig_exec_cancel_ref (exec.c:298-349): one journal  *)
(* write outside any transaction, then fig_market_cancel.                  *)
(***************************************************************************)
Cancelled(o) == [o EXCEPT !.resd = 0, !.rev = @ + 1, !.status = DBR_CANCELLED]

\* Fault model: a cancel that skips the dbr_order_done check.
CancelOrderAnyStatus(id) ==
    LET o == orders[id] IN
    /\ journ' = [journ EXCEPT ![id] = Row(o, o.rev + 1, DBR_CANCELLED, 0, o.exec, o.lots, @.arch)]
    /\ orders' = [orders EXCEPT ![id] = Cancelled(o)]
    /\ book' = [s \in Sides |-> Remove(book[s], id)]
    /\ UNCHANGED <<live, index, trades, accnt, matches, trans, posn, jtrades, nextId>>

CancelOrder(id) ==
    LET o == orders[id] IN
    /\ ~Done(o)
    /\ journ' = [journ EXCEPT ![id] = Row(o, o.rev + 1, DBR_CANCELLED, 0, o.exec, o.lots, @.arch)]
    /\ orders' = [orders EXCEPT ![id] = Cancelled(o)]
    /\ book' = [s \in Sides |-> Remove(book[s], id)]
    /\ UNCHANGED <<live, index, trades, accnt, matches, trans, posn, jtrades, nextId>>

CancelId(t, id) ==
    /\ id \in index /\ orders[id].trader = t
    /\ CancelOrder(id)

CancelRef(t, ref) ==
    \E id \in index :
        /\ orders[id].trader = t /\ orders[id].ref = ref
        /\ CancelOrder(id)

(***************************************************************************)
(* fig_exec_archive_order / fig_exec_archive_trade (exec.c:351-389) and    *)
(* fig_exec_free_matches (exec.c:391-400).                                 *)
(***************************************************************************)
\* No dbr_order_done check: the order is released and freed as it is.
ArchiveOrder(t, id) ==
    /\ id \in index /\ orders[id].trader = t
    /\ journ' = [journ EXCEPT ![id].arch = TRUE]
    /\ index' = index \ {id}
    /\ live' = live \ {id}
    /\ UNCHANGED <<orders, book, trades, accnt, matches, trans, posn, jtrades, nextId>>

ArchiveTrade(t, tid) ==
    /\ tid \in accnt /\ trades[tid].trader = t
    /\ jtrades' = [jtrades EXCEPT ![tid].arch = TRUE]
    /\ accnt' = accnt \ {tid}
    /\ trades' = [x \in DOMAIN trades \ {tid} |-> trades[x]]
    /\ UNCHANGED <<orders, live, index, book, matches, trans, posn, journ, nextId>>

FreeMatches ==
    /\ trans # {}
    /\ matches' = matches \ trans
    /\ trans' = {}
    /\ UNCHANGED <<orders, live, index, book, trades, accnt, posn, journ, jtrades, nextId>>

\* Every id the bound allows has been handed out.
IdsExhausted == nextId > MaxOrders /\ UNCHANGED vars

Next ==
    \/ \E t \in Traders, ref \in Refs \cup {NoRef}, side \in Sides, ticks \in TicksSet,
          lots \in LotsSet :
          \E min \in {m \in MinLotsSet : m <= lots} :
              Submit(NewOrder(nextId, t, ref, side, ticks, lots, min))
    \/ \E t \in Traders, id \in OrderIds, lots \in LotsSet :
          ReviseId(t, id, lots)
    \/ \E t \in Traders, ref \in Refs, lots \in LotsSet : ReviseRef(t, ref, lots)
    \/ \E t \in Traders, id \in OrderIds : CancelId(t, id)
    \/ \E t \in Traders, ref \in Refs : CancelRef(t, ref)
    \/ \E t \in Traders, id \in OrderIds : ArchiveOrder(t, id)
    \/ \E t \in Traders, tid \in accnt : ArchiveTrade(t, tid)
    \/ FreeMatches
    \/ IdsExhausted

Spec == Init /\ [][Next]_vars

(***************************************************************************)
(* Properties.                                                             *)
(***************************************************************************)

JournalAgrees ==
    /\ \A id \in index :
          /\ id \in DOMAIN journ /\ ~journ[id].arch
          /\ journ[id].rev = orders[id].rev
          /\ journ[id].status = orders[id].status
          /\ journ[id].exec = orders[id].exec
          /\ journ[id].lots = orders[id].lots
    /\ \A tid \in accnt : tid \in DOMAIN jtrades /\ ~jtrades[tid].arch

\* The journal row of each indexed order also carries its residual lots
\* (spec.md 3: residual + executed = total holds of every order).
JournalResdAgrees ==
    \A id \in index : id \in DOMAIN journ => journ[id].resd = orders[id].resd

\* Each trader's position equals the sums over the trades the journal holds
\* for that trader, archived ones included: apply_trades applies each taker
\* and maker trade once, to the right trader and side, exactly when
\* insert_trans journaled it, and archiving a trade leaves positions alone.
PosnAgreesWithJournal ==
    \A t \in Traders :
        LET mine(s) == {x \in DOMAIN jtrades : jtrades[x].trader = t /\ jtrades[x].side = s}
            lotsIn(S) == MapThenSumSet(LAMBDA x : jtrades[x].lots, S)
            licksIn(S) == MapThenSumSet(LAMBDA x : jtrades[x].lots * jtrades[x].ticks, S)
        IN posn[t] = [buyLots |-> lotsIn(mine(BUY)), buyLicks |-> licksIn(mine(BUY)),
                      sellLots |-> lotsIn(mine(SELL)), sellLicks |-> licksIn(mine(SELL))]

BookOrdersLive ==
    \A s \in Sides : \A i \in 1..Len(book[s]) :
        LET id == book[s][i] IN id \in live /\ id \in index /\ ~Done(orders[id])

\* The book is never crossed after an operation: the best bid is below the
\* best offer, since matching continues while prices cross (spec.md 4.4).
NotCrossed ==
    book[BUY] = <<>> \/ book[SELL] = <<>>
    \/ orders[Head(book[BUY])].ticks < orders[Head(book[SELL])].ticks

\* A journal row changes only with a higher revision (archiving aside), and
\* a FILLED or CANCELLED row never changes status: no entry point rewrites
\* a done order.
Unarchived(r) == [r EXCEPT !.arch = FALSE]
JournalRevisionMonotone ==
    [][\A id \in DOMAIN journ :
          /\ id \in DOMAIN journ'
          /\ journ[id].status \in {DBR_FILLED, DBR_CANCELLED}
                => journ'[id].status = journ[id].status
          /\ Unarchived(journ'[id]) # Unarchived(journ[id])
                => journ'[id].rev > journ[id].rev]_journ

=============================================================================
