-------------------------------- MODULE Figures --------------------------------
(***************************************************************************)
(* Performance figures worked out from a history of signals:               *)
(*                                                                         *)
(*  - the seeds pair each buy with the next sell and compound the returns  *)
(*    (_compute_pair_metrics), and count the winning trades of all pairs   *)
(*    with a second copy of that loop (_compute_strategy_aggregate);       *)
(*  - a live update estimates them from the directions and confidences of  *)
(*    the newest signals, newest first (compute_live_metrics).             *)
(*                                                                         *)
(* A fraction is a record of a numerator and a positive denominator.       *)
(* Rounding, the square root of the Sharpe ratio (its sign is that of the  *)
(* mean) and the weighted means over pairs are left out.                   *)
(***************************************************************************)
EXTENDS Integers, Sequences, SequencesExt

CONSTANTS
    Coins,           \* the pairs with a history
    EntryPrices,     \* entry prices of seeded signals
    Confidences,     \* confidences of live signals that do not hold, in percent
    MinSignals,      \* 5: a live update needs as many
    Window,          \* 200: and looks at no more
    MaxSeeded,       \* bound: length of a seeded history
    MaxLive          \* bound: length of a live one

ASSUME FiguresAssumption ==
    /\ EntryPrices \subseteq Nat \ {0} /\ Confidences \subseteq Nat \ {0}
    /\ MinSignals \in Nat \ {0} /\ Window \in Nat /\ MinSignals <= Window
    /\ MaxSeeded \in Nat /\ MaxLive \in Nat

VARIABLES live, signals     \* the history, oldest signal first

figuresVars == <<live, signals>>

SeededSignals == [pair : Coins, direction : {"buy", "sell"}, price : EntryPrices]
LiveSignals == [direction : {"buy", "sell"}, confidence : Confidences]
                 \cup [direction : {"hold"}, confidence : {0}]

FiguresInit == live \in BOOLEAN /\ signals = <<>>

FiguresNext ==
    /\ Len(signals) < (IF live THEN MaxLive ELSE MaxSeeded)
    /\ \E s \in (IF live THEN LiveSignals ELSE SeededSignals) :
         signals' = Append(signals, s)
    /\ UNCHANGED live

FiguresSpec == FiguresInit /\ [][FiguresNext]_figuresVars

FiguresTypeOK ==
    /\ live \in BOOLEAN
    /\ \A i \in DOMAIN signals : signals[i] \in SeededSignals \cup LiveSignals
    /\ Len(signals) <= MaxSeeded + MaxLive

-----------------------------------------------------------------------------
(* Fractions *)

Frac(n, d) == [n |-> n, d |-> d]
One == Frac(1, 1)
Zero == Frac(0, 1)
Less(x, y) == x.n * y.d < y.n * x.d
Larger(x, y) == IF Less(x, y) THEN y ELSE x
Add(x, y) == Frac(x.n * y.d + y.n * x.d, x.d * y.d)
Sub(x, y) == Frac(x.n * y.d - y.n * x.d, x.d * y.d)
Mul(x, y) == Frac(x.n * y.n, x.d * y.d)
Div(x, y) == Frac(x.n * y.d, x.d * y.n)
Abs(x) == IF x.n < 0 THEN Frac(-x.n, x.d) ELSE x

-----------------------------------------------------------------------------
(* Seeds *)

Closed(acc, s) == [pending |-> 0, trades |-> Append(acc.trades, <<acc.pending, s.price>>)]

(* Slip: a further buy replaces the one that is pending. *)
PairUpLast(acc, s) ==
    CASE s.direction = "buy" -> [acc EXCEPT !.pending = s.price]
      [] s.direction = "sell" /\ acc.pending # 0 -> Closed(acc, s)
      [] OTHER -> acc

(* A buy opens a trade if none is pending, a sell closes the pending one.  *)
PairUp(acc, s) ==
    CASE s.direction = "buy" /\ acc.pending = 0 -> [acc EXCEPT !.pending = s.price]
      [] s.direction = "sell" /\ acc.pending # 0 -> Closed(acc, s)
      [] OTHER -> acc

(* The trades of a pair's history: entry and exit price. *)
Trades(sigs) == FoldLeft(PairUp, [pending |-> 0, trades |-> <<>>], sigs).trades

(* Slip: the gain is divided by the exit price. *)
ReturnOnExit(trade) == Frac(trade[2] - trade[1], trade[2])

Return(trade) == Frac(trade[2] - trade[1], trade[1])

(* One trade: compounded return, its peak, the deepest fall from a peak,   *)
(* the sums of gains and of losses.                                        *)
Book(acc, trade) ==
    LET r == Return(trade)
        now == Mul(acc.cumulative, Add(One, r))
        top == Larger(acc.peak, now)
    IN [cumulative |-> now, peak |-> top,
        fall |-> Larger(acc.fall, Div(Sub(top, now), top)),
        gain |-> IF r.n > 0 THEN Add(acc.gain, r) ELSE acc.gain,
        loss |-> IF r.n > 0 THEN acc.loss ELSE Add(acc.loss, Abs(r))]

(* _compute_pair_metrics, also where there are no trades. *)
SeedFigures(sigs) ==
    LET trades == Trades(sigs)
        b == FoldLeft(Book, [cumulative |-> One, peak |-> One, fall |-> Zero,
                             gain |-> Zero, loss |-> Zero], trades)
    IN [trade_count |-> Len(trades),
        total_return |-> Sub(b.cumulative, One),
        max_drawdown |-> b.fall,
        profit_factor |-> IF b.loss.n > 0 THEN Div(b.gain, b.loss)
                          ELSE IF b.gain.n > 0 THEN Frac(10, 1) ELSE One,
        sharpe_ratio |-> IF Len(trades) > 1 THEN Sub(b.gain, b.loss) ELSE Zero]

(* The second copy of the pairing loop counts completed and winning trades. *)
Count(acc, s) ==
    CASE s.direction = "buy" /\ acc.pending = 0 -> [acc EXCEPT !.pending = s.price]
      [] s.direction = "sell" /\ acc.pending # 0 ->
           [pending |-> 0, completed |-> acc.completed + 1,
            wins |-> acc.wins + (IF s.price > acc.pending THEN 1 ELSE 0)]
      [] OTHER -> acc

(* The signals of a pair, in their order. *)
OfPair(pair, kept, s) == IF s.pair = pair THEN Append(kept, s) ELSE kept
History(pair) == FoldLeft(LAMBDA kept, s : OfPair(pair, kept, s), <<>>, signals)
Counted(pair) == FoldLeft(Count, [pending |-> 0, completed |-> 0, wins |-> 0], History(pair))

-----------------------------------------------------------------------------
(* Live updates *)

Value(direction) == CASE direction = "buy" -> 1 [] direction = "sell" -> -1 [] OTHER -> 0

(* Slip: the newest signals are walked through without their directions'   *)
(* sum being carried on.                                                   *)
WalkEach(acc, s) ==
    LET sum == Value(s.direction)
        top == IF sum > acc.peak THEN sum ELSE acc.peak
    IN [sum |-> sum, peak |-> top,
        fall |-> Larger(acc.fall, Frac(top - sum, IF top > 1 THEN top ELSE 1))]

(* One step of _compute_max_drawdown. *)
Walk(acc, s) ==
    LET sum == acc.sum + Value(s.direction)
        top == IF sum > acc.peak THEN sum ELSE acc.peak
    IN [sum |-> sum, peak |-> top,
        fall |-> Larger(acc.fall, Frac(top - sum, IF top > 1 THEN top ELSE 1))]

(* ORDER BY signal_at DESC LIMIT 200 *)
Newest(sigs) == SubSeq(Reverse(sigs), 1, IF Len(sigs) < Window THEN Len(sigs) ELSE Window)

(* The confidences of the signals in one direction. *)
Added(direction, n, s) == n + (IF s.direction = direction THEN s.confidence ELSE 0)

(* compute_live_metrics; a drawdown of 0 stands for None. *)
LiveFigures(sigs) ==
    LET recent == Newest(sigs)
        Sum(direction) == FoldLeft(LAMBDA total, s : Added(direction, total, s), 0, recent)
    IN [trade_count |-> Cardinality({i \in DOMAIN recent : recent[i].direction # "hold"}),
        total_return |-> Sum("buy") - Sum("sell"),
        losses |-> Sum("sell"),
        max_drawdown |-> FoldLeft(Walk, [sum |-> 0, peak |-> 0, fall |-> Zero], recent).fall]

-----------------------------------------------------------------------------
(* Properties *)

(* The trades are exactly those from the first buy after a sell (or the    *)
(* first of all) to the next sell, in order, and both copies of the loop   *)
(* agree on how many there are and how many won.                           *)
TradesPaired ==
    ~live => \A pair \in Coins :
      LET h == History(pair)
          FirstBuy(i) == /\ h[i].direction = "buy"
                         /\ \A k \in 1..(i - 1) : h[k].direction = "buy" =>
                              \E m \in k..i : h[m].direction = "sell"
          Sells == {j \in DOMAIN h : h[j].direction = "sell"}
          Pairs == {p \in (DOMAIN h) \X Sells :
                      p[1] < p[2] /\ FirstBuy(p[1]) /\ ~\E k \in Sells : p[1] < k /\ k < p[2]}
          trades == Trades(h)
      IN /\ Len(trades) = Cardinality(Pairs)
         /\ \A p \in Pairs : trades[Cardinality({q \in Pairs : q[2] <= p[2]})]
                               = <<h[p[1]].price, h[p[2]].price>>
         /\ Counted(pair).completed = Len(trades)
         /\ Counted(pair).wins = Cardinality({i \in DOMAIN trades : Return(trades[i]).n > 0})

(* The figures of a pair do not contradict each other: the drawdown is     *)
(* less than the whole and no less than the loss, and a gain is never      *)
(* shown with a profit factor of 1 or less or a negative Sharpe ratio.     *)
FiguresAgree ==
    ~live => \A pair \in Coins :
      LET m == SeedFigures(History(pair)) IN
      /\ m.max_drawdown.n >= 0 /\ Less(m.max_drawdown, One)
      /\ ~Less(m.max_drawdown, Frac(-m.total_return.n, m.total_return.d))
      /\ m.total_return.n > 0 => Less(One, m.profit_factor) /\ m.sharpe_ratio.n >= 0

(* The live drawdown says, as long as it is below 1, that going back from  *)
(* the newest signal buys always kept up with sells; it is above 1 only    *)
(* where sells outnumbered them, never above their number, and absent only *)
(* without sells.                                                          *)
LiveDrawdown ==
    live /\ Len(signals) >= MinSignals =>
      LET m == LiveFigures(signals)
          recent == Newest(signals)
          Num(n, d) == Cardinality({i \in 1..n : recent[i].direction = d})
          outnumbered == \E n \in DOMAIN recent : Num(n, "sell") > Num(n, "buy")
      IN /\ outnumbered => ~Less(m.max_drawdown, One)
         /\ Less(One, m.max_drawdown) => outnumbered
         /\ ~Less(Frac(Num(Len(recent), "sell"), 1), m.max_drawdown)
         /\ m.max_drawdown.n = 0 <=> Num(Len(recent), "sell") = 0
         /\ m.total_return < 0 => m.losses > 0 /\ m.trade_count > 0
=============================================================================
