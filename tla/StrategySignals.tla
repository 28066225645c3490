---------------------------- MODULE StrategySignals ----------------------------
(***************************************************************************)
(* The ten strategies (freqtrade_bridge/strategies) and how signals are    *)
(* taken from the frames they mark:                                        *)
(*                                                                         *)
(*  - SignalCalculator loads the frame of a pair once and runs all         *)
(*    strategies on it, one after the other; each writes its columns into  *)
(*    the same DataFrame.  The last row gives the realtime signal;         *)
(*  - the seeds run a strategy on a copy of the frame and take a signal    *)
(*    wherever the direction changes.                                      *)
(*                                                                         *)
(* A column is a function on the rows of the frame, NaN where it has no    *)
(* value; a comparison with NaN is false.  Windows over highs and lows are *)
(* computed, and their halves are kept whole by doubling.  What TA-Lib and *)
(* qtpylib compute comes with the candles, in two columns a and b:         *)
(*                                                                         *)
(*   Aroon       aroon_up, aroon_down       MACD   macd, macdsignal        *)
(*   Bollinger   mid, the bands' distance   SAR    sar                     *)
(*   Keltner     EMA, the channel's width   RSI    rsi                     *)
(*   Stochastic  slowk, slowd                                              *)
(*                                                                         *)
(* What no signal's direction depends on is left out: stop loss, take      *)
(* profit, the parts of the confidence that come from the candle, tags and *)
(* the snapshot of the indicators.                                         *)
(***************************************************************************)
EXTENDS Integers, Sequences, FiniteSetsExt

CONSTANTS
    Prices, Levels,   \* values of prices, and of the two indicator columns
    MaxRows,          \* bound: length of the frame, when prices vary in a candle
    MaxFlatRows,      \* bound: length of the frame, when they do not
    NaN,
    Tenkan, Kijun, SenkouB,     \* windows of Ichimoku,
    Narrow,                     \* NR7
    Fast, Slow, Exit,           \* and Turtle
    Threshold,                  \* Aroon
    Oversold, ExitLevel, Overbought   \* RSI and Stochastic

(* The order of the parameters' defaults in the strategies, which nothing  *)
(* in the platform changes (their ranges alone would allow an Oversold     *)
(* above ExitLevel).  Prices are positive, the distance of bands is not    *)
(* negative.                                                               *)
ASSUME SignalsAssumption ==
    /\ Prices \subseteq Nat \ {0} /\ Levels \subseteq Nat
    /\ MaxRows \in Nat /\ MaxFlatRows \in Nat
    /\ NaN \notin Int
    /\ {Tenkan, Kijun, SenkouB, Narrow, Fast, Slow, Exit} \subseteq Nat \ {0}
    /\ {Threshold, Oversold, ExitLevel, Overbought} \subseteq Nat
    /\ Oversold <= ExitLevel /\ ExitLevel <= Overbought

Strategies == {"aroon", "bollinger", "ichimoku", "keltner", "macd", "nr7", "sar",
               "rsi", "stochastic", "turtle"}

VARIABLES
    flat,       \* the frame's candles have no height and carry indicators
    frame,      \* the candles of one pair, the newest last
    columns,    \* the signal columns in the shared DataFrame
    ran         \* the strategy that wrote them

signalsVars == <<flat, frame, columns, ran>>

Candle == {[high |-> h, low |-> l, close |-> c, volume |-> 1, a |-> NaN, b |-> NaN] :
             h, l, c \in Prices}
TallCandles == {k \in Candle : k.low <= k.close /\ k.close <= k.high}
FlatCandles == {[high |-> c, low |-> c, close |-> c, volume |-> v, a |-> x, b |-> y] :
                  c \in Prices, v \in {0, 1}, x, y \in Levels \cup {NaN}}

-----------------------------------------------------------------------------
(* pandas *)

Rows(f) == 1..Len(f)
Gt(x, y) == x # NaN /\ y # NaN /\ x > y
Ge(x, y) == x # NaN /\ y # NaN /\ x >= y
Times(n, x) == IF x = NaN THEN NaN ELSE n * x
Plus(x, y) == IF x = NaN \/ y = NaN THEN NaN ELSE x + y
Minus(x, y) == IF x = NaN \/ y = NaN THEN NaN ELSE x - y

(* rolling(n).max() and .min() *)
Highest(col, n) ==
    [i \in DOMAIN col |-> IF i < n THEN NaN ELSE Max({col[j] : j \in (i - n + 1)..i})]
Lowest(col, n) ==
    [i \in DOMAIN col |-> IF i < n THEN NaN ELSE Min({col[j] : j \in (i - n + 1)..i})]

(* shift(1) *)
Shift(col) == [i \in DOMAIN col |-> IF i = 1 THEN NaN ELSE col[i - 1]]

(* Slip: bfill(). *)
BackwardFill(col) ==
    [i \in DOMAIN col |->
       LET known == {j \in DOMAIN col : j >= i /\ col[j] # NaN} IN
       IF known = {} THEN NaN ELSE col[Min(known)]]

(* ffill() *)
ForwardFill(col) ==
    [i \in DOMAIN col |->
       LET known == {j \in 1..i : col[j] # NaN} IN
       IF known = {} THEN NaN ELSE col[Max(known)]]

(* (x > y) & (x.shift(1) <= y.shift(1)) *)
CrossesAbove(x, y) ==
    {i \in DOMAIN x : Gt(x[i], y[i]) /\ Ge(Shift(y)[i], Shift(x)[i])}

Above(x, y) == {i \in DOMAIN x : Gt(x[i], y[i])}
AtLeast(x, y) == {i \in DOMAIN x : Ge(x[i], y[i])}

-----------------------------------------------------------------------------
(* populate_indicators, populate_entry_trend and populate_exit_trend: the  *)
(* rows each strategy marks, before volume and conflicts are looked at.    *)

Column(f, name) == [i \in Rows(f) |-> f[i][name]]
Same(f, x) == [i \in Rows(f) |-> x]
Rowwise(Op(_, _), x, y) == [i \in DOMAIN x |-> Op(x[i], y[i])]

Marks(long, short, leaveLong, leaveShort) ==
    [enter_long |-> long, enter_short |-> short,
     exit_long |-> leaveLong, exit_short |-> leaveShort]

Aroon(f) ==
    LET up == Column(f, "a")
        down == Column(f, "b")
        thr == Same(f, Threshold)
    IN Marks(CrossesAbove(up, down) \cap Above(up, thr) \cap Above(thr, down),
             CrossesAbove(down, up) \cap Above(down, thr) \cap Above(thr, up),
             Above(thr, up) \cup CrossesAbove(down, up),
             Above(thr, down) \cup CrossesAbove(up, down))

Bollinger(f) ==
    LET close == Column(f, "close")
        mid == Column(f, "a")
    IN Marks(Above(Rowwise(Minus, mid, Column(f, "b")), close),
             Above(close, Rowwise(Plus, mid, Column(f, "b"))),
             AtLeast(close, mid),
             AtLeast(mid, close))

(* Slip: the exits are those of the mean reversion strategy. *)
KeltnerReverting(f) ==
    LET close == Column(f, "close")
        mid == Column(f, "a")
    IN Marks(Above(close, Rowwise(Plus, mid, Column(f, "b"))),
             Above(Rowwise(Minus, mid, Column(f, "b")), close),
             AtLeast(close, mid),
             AtLeast(mid, close))

Keltner(f) ==
    LET close == Column(f, "close")
        mid == Column(f, "a")
    IN Marks(Above(close, Rowwise(Plus, mid, Column(f, "b"))),
             Above(Rowwise(Minus, mid, Column(f, "b")), close),
             AtLeast(mid, close),
             AtLeast(close, mid))

Crossing(fast, slow) ==
    Marks(CrossesAbove(fast, slow), CrossesAbove(slow, fast),
          CrossesAbove(slow, fast), CrossesAbove(fast, slow))

Macd(f) == Crossing(Column(f, "a"), Column(f, "b"))
Sar(f) == Crossing(Column(f, "close"), Column(f, "a"))

Rsi(f) ==
    LET rsi == Column(f, "a") IN
    Marks(Above(Same(f, Oversold), rsi), Above(rsi, Same(f, Overbought)),
          AtLeast(rsi, Same(f, ExitLevel)), AtLeast(Same(f, ExitLevel), rsi))

Stochastic(f) ==
    LET k == Column(f, "a")
        d == Column(f, "b")
    IN Marks(CrossesAbove(k, d) \cap Above(Same(f, Oversold), k),
             CrossesAbove(d, k) \cap Above(k, Same(f, Overbought)),
             AtLeast(k, Same(f, ExitLevel)), AtLeast(Same(f, ExitLevel), k))

(* Twice the middle of the last n candles. *)
Middle(f, n) == Rowwise(Plus, Highest(Column(f, "high"), n), Lowest(Column(f, "low"), n))

(* max(axis=1) and min(axis=1) pass over NaN. *)
CloudTop(a, b) == IF a = NaN THEN b ELSE IF b = NaN THEN a ELSE Max({a, b})
CloudBottom(a, b) == IF a = NaN THEN b ELSE IF b = NaN THEN a ELSE Min({a, b})

Ichimoku(f) ==
    LET tenkan == Middle(f, Tenkan)
        kijun == Middle(f, Kijun)
        spanA == Rowwise(Plus, tenkan, kijun)
        spanB == [i \in Rows(f) |-> Times(2, Middle(f, SenkouB)[i])]
        close2 == [i \in Rows(f) |-> 2 * f[i].close]
        close4 == [i \in Rows(f) |-> 4 * f[i].close]
    IN Marks(Above(close4, Rowwise(CloudTop, spanA, spanB)) \cap CrossesAbove(tenkan, kijun),
             Above(Rowwise(CloudBottom, spanA, spanB), close4) \cap CrossesAbove(kijun, tenkan),
             Above(kijun, close2) \cup CrossesAbove(kijun, tenkan),
             Above(close2, kijun) \cup CrossesAbove(tenkan, kijun))

(* The last candle before this one that was the narrowest of its window. *)
Nr7(f) ==
    LET range == Rowwise(Minus, Column(f, "high"), Column(f, "low"))
        narrow == {i \in Rows(f) : range[i] = Lowest(range, Narrow)[i]}
        Trigger(name) == Shift(ForwardFill(
            [i \in Rows(f) |-> IF i \in narrow THEN f[i][name] ELSE NaN]))
        up == Above(Column(f, "close"), Trigger("high"))
        down == Above(Trigger("low"), Column(f, "close"))
    IN Marks(up, down, down, up)

Turtle(f) ==
    LET close == Column(f, "close")
        High(n) == Shift(Highest(Column(f, "high"), n))
        Low(n) == Shift(Lowest(Column(f, "low"), n))
    IN Marks(Above(close, High(Fast)) \cup Above(close, High(Slow)),
             Above(Low(Fast), close) \cup Above(Low(Slow), close),
             Above(Low(Exit), close), Above(close, High(Exit)))

Marked(s, f) ==
    CASE s = "aroon" -> Aroon(f)          [] s = "bollinger" -> Bollinger(f)
      [] s = "ichimoku" -> Ichimoku(f)    [] s = "keltner" -> Keltner(f)
      [] s = "macd" -> Macd(f)            [] s = "nr7" -> Nr7(f)
      [] s = "sar" -> Sar(f)              [] s = "rsi" -> Rsi(f)
      [] s = "stochastic" -> Stochastic(f)
      [] OTHER -> Turtle(f)

NoColumns == Marks({}, {}, {}, {})

(* Slip: the columns are not set to 0 before rows are marked. *)
PopulatedOver(s, f, old) ==
    LET traded == {i \in Rows(f) : f[i].volume > 0}
        m == Marked(s, f)
    IN [name \in DOMAIN old |-> old[name] \cup (m[name] \cap traded)]

(* Slip: a row is marked on the candle that follows it, to be acted on. *)
PopulatedNext(s, f, old) ==
    LET m == Marked(s, f) IN
    [name \in DOMAIN old |-> {i + 1 : i \in {j \in m[name] : f[j].volume > 0}}]

(* What a strategy leaves in the signal columns: a column is set to 0 and  *)
(* then to 1 in the rows it marks, if they were traded; a row entered in   *)
(* both directions is entered in none.                                     *)
Populated(s, f, old) ==
    LET traded == {i \in Rows(f) : f[i].volume > 0}
        m == Marked(s, f)
        both == m.enter_long \cap m.enter_short
    IN Marks((m.enter_long \cap traded) \ both, (m.enter_short \cap traded) \ both,
             m.exit_long \cap traded, m.exit_short \cap traded)

-----------------------------------------------------------------------------
(* Extraction *)

Direction(cols, i) ==
    CASE i \in cols.enter_long -> "buy"
      [] i \notin cols.enter_long /\ i \in cols.enter_short \cup cols.exit_long -> "sell"
      [] OTHER -> IF i \in cols.exit_short THEN "buy" ELSE "hold"

IsEntry(cols, i) == i \in cols.enter_long \cup cols.enter_short

(* _extract_signal_data (and _extract_signal_from_df): the signal of the   *)
(* last row.  Strength and confidence are higher for an entry than for an  *)
(* exit, and 0 for a row that holds.                                       *)
Realtime(cols, f) ==
    [direction |-> Direction(cols, Len(f)), entry |-> IsEntry(cols, Len(f))]

(* prev_direction after each row: the direction, whether the row gave a    *)
(* signal or repeated one, and nothing after a row that holds.             *)
Remembered(cols, f) ==
    [i \in 0..Len(f) |->
       IF i = 0 THEN "hold" ELSE Direction(cols, i)]

(* _extract_all_signals: the rows that give a signal, and the signal.      *)
Seeded(cols, f) ==
    [i \in {j \in Rows(f) : Direction(cols, j) \notin {"hold", Remembered(cols, f)[j - 1]}} |->
        [direction |-> Direction(cols, i), entry |-> IsEntry(cols, i)]]

-----------------------------------------------------------------------------
SignalsInit ==
    /\ flat \in BOOLEAN
    /\ frame = <<>>
    /\ columns = NoColumns
    /\ ran = "none"

(* The next refresh loads a frame with one more candle, without columns.   *)
LoadFrame ==
    /\ Len(frame) < (IF flat THEN MaxFlatRows ELSE MaxRows)
    /\ \E k \in (IF flat THEN FlatCandles ELSE TallCandles) : frame' = Append(frame, k)
    /\ columns' = NoColumns
    /\ ran' = "none"
    /\ UNCHANGED flat

(* _run_strategy_on_df: a strategy is run on the shared frame. *)
RunStrategy(s) ==
    /\ frame # <<>>
    /\ columns' = Populated(s, frame, columns)
    /\ ran' = s
    /\ UNCHANGED <<flat, frame>>

SignalsNext == LoadFrame \/ \E s \in Strategies : RunStrategy(s)

SignalsSpec == SignalsInit /\ [][SignalsNext]_signalsVars

-----------------------------------------------------------------------------
(* Properties *)

SignalsTypeOK ==
    /\ flat \in BOOLEAN
    /\ Len(frame) <= MaxRows + MaxFlatRows
    /\ \A i \in Rows(frame) : frame[i] \in TallCandles \cup FlatCandles
    /\ \A name \in DOMAIN columns : columns[name] \subseteq Rows(frame)
    /\ ran \in Strategies \cup {"none"}

(* That strategies share one DataFrame changes nothing: the columns a      *)
(* strategy leaves are those it would leave in a fresh copy of the frame.  *)
FrameShared ==
    ran # "none" => columns = Populated(ran, frame, NoColumns)

(* A strategy never marks an entry and, on the same candle, its exit or    *)
(* the opposite entry, by which freqtrade would drop the entry.            *)
EntryStands ==
    /\ columns.enter_long \cap (columns.exit_long \cup columns.enter_short) = {}
    /\ columns.enter_short \cap columns.exit_short = {}

(* The seeds' history is what realtime refreshes would have published: at  *)
(* each candle, judged by the candles up to it alone, a signal is recorded *)
(* exactly when the direction is new.  No strategy looks ahead.            *)
SeedsMatchRealtime ==
    ran # "none" =>
      LET Known(i) == SubSeq(frame, 1, i)
          live == [i \in Rows(frame) |->
                     Realtime(Populated(ran, Known(i), NoColumns), Known(i))]
      IN Seeded(columns, frame) =
           [i \in {j \in Rows(frame) :
                     /\ live[j].direction # "hold"
                     /\ j = 1 \/ live[j - 1].direction # live[j].direction} |-> live[i]]
=============================================================================
