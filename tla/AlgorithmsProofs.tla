---------------------------- MODULE AlgorithmsProofs ----------------------------
(***************************************************************************)
(* Theorems about the algorithms.  For frames of any length and strategies *)
(* with any parameters: entries are not undone on their own candle, and no *)
(* strategy looks ahead.  For histories of any length: trades are paired   *)
(* as they should be, the figures of the seeds agree, and the live         *)
(* drawdown means what it says.                                            *)
(***************************************************************************)
EXTENDS MCAlgorithms, SequenceTheorems, FiniteSetTheorems, WellFoundedInduction, TLAPS

-----------------------------------------------------------------------------
(* Induction.  The library's rules take a formula as parameter; these take *)
(* the set of numbers it holds of.                                         *)

\* A set of numbers that is not empty has a least one.
LEMMA LeastNumber ==
    ASSUME NEW S \in SUBSET Nat, S # {}
    PROVE  \E m \in S : \A k \in S : m <= k
<1>1. PICK m \in S : \A k \in S : ~(<<k, m>> \in OpToRel(<, Nat))
  BY NatLessThanWellFounded, WFMin
<1>2. \A k \in S : ~(k < m)
  BY <1>1 DEF OpToRel
<1> QED BY <1>2

\* A set of numbers that has 0 and each successor of its own has all.
LEMMA AllNumbers ==
    ASSUME NEW S \in SUBSET Nat, 0 \in S, \A n \in S : n + 1 \in S
    PROVE  S = Nat
<1> SUFFICES ASSUME S # Nat PROVE FALSE
  OBVIOUS
<1>1. PICK m \in Nat \ S : \A k \in Nat \ S : m <= k
  BY LeastNumber
<1>2. m # 0 /\ m - 1 \in Nat
  BY <1>1
<1>3. m - 1 \in S
  BY <1>1, <1>2
<1>4. (m - 1) + 1 \in S
  BY <1>3
<1> QED BY <1>1, <1>4

\* A set of numbers with an upper bound has a greatest one.
LEMMA GreatestNumber ==
    ASSUME NEW S \in SUBSET Nat, S # {}, NEW b \in Nat, \A k \in S : k <= b
    PROVE  Max(S) \in S /\ \A k \in S : Max(S) >= k
<1> DEFINE B == {u \in Nat : \A k \in S : k <= u}
<1>1. PICK u \in B : \A v \in B : u <= v
  <2>1. B # {} /\ B \in SUBSET Nat
    OBVIOUS
  <2> QED BY <2>1, LeastNumber
<1>2. u \in S
  <2> SUFFICES ASSUME u \notin S PROVE FALSE
    OBVIOUS
  <2>1. u # 0
    <3>1. PICK k \in S : k <= u
      BY <1>1
    <3> QED BY <3>1
  <2>2. u - 1 \in Nat /\ \A k \in S : k <= u - 1
    BY <1>1, <2>1
  <2>3. u - 1 \in B
    BY <2>2
  <2> QED BY <1>1, <2>3
<1>3. \A k \in S : u >= k
  BY <1>1
<1> QED BY <1>2, <1>3 DEF Max

\* And so has a least one, without a bound.
LEMMA SmallestNumber ==
    ASSUME NEW S \in SUBSET Nat, S # {}
    PROVE  Min(S) \in S /\ \A k \in S : Min(S) <= k
<1>1. \E m \in S : \A k \in S : m <= k
  BY LeastNumber
<1> QED BY <1>1 DEF Min

\* The values of a column are bounded.
LEMMA ColumnBounded ==
    ASSUME NEW m \in Nat, NEW col \in [1..m -> Nat]
    PROVE  \E b \in Nat : \A j \in 1..m : col[j] <= b
<1> DEFINE S == {n \in Nat : n <= m => \E b \in Nat : \A j \in 1..n : col[j] <= b}
<1>1. 0 \in S
  OBVIOUS
<1>2. ASSUME NEW n \in S PROVE n + 1 \in S
  <2> SUFFICES ASSUME n + 1 <= m PROVE \E b \in Nat : \A j \in 1..(n + 1) : col[j] <= b
    OBVIOUS
  <2>1. PICK b \in Nat : \A j \in 1..n : col[j] <= b
    OBVIOUS
  <2>0. n \in Nat /\ col[n + 1] \in Nat /\ \A j \in 1..n : j \in 1..m
    OBVIOUS
  <2>2. b + col[n + 1] \in Nat
    BY <2>0
  <2>3. ASSUME NEW j \in 1..(n + 1) PROVE col[j] <= b + col[n + 1]
    <3>1. CASE j \in 1..n
      <4>1. col[j] \in Nat /\ col[j] <= b
        BY <2>0, <2>1, <3>1
      <4> QED BY <2>0, <4>1
    <3>2. CASE j = n + 1
      BY <2>0, <3>2
    <3> QED BY <2>0, <3>1, <3>2
  <2> QED BY <2>2, <2>3
<1>3. S = Nat
  <2> HIDE DEF S
  <2>1. S \in SUBSET Nat
    BY DEF S
  <2>2. \A n \in S : n + 1 \in S
    BY <1>2
  <2> QED BY <1>1, <2>1, <2>2, AllNumbers
<1>4. m \in S
  BY <1>3
<1> QED BY <1>4

-----------------------------------------------------------------------------
(* Windows over columns of numbers *)

Number == Int \cup {NaN}

LEMMA HighestWindow ==
    ASSUME NEW m \in Nat, NEW col \in [1..m -> Nat], NEW n \in Nat \ {0}
    PROVE  /\ Highest(col, n) \in [1..m -> Number]
           /\ \A i \in 1..m : i < n => Highest(col, n)[i] = NaN
           /\ \A i \in n..m : /\ Highest(col, n)[i] \in Nat
                              /\ \A j \in (i - n + 1)..i : col[j] <= Highest(col, n)[i]
<1>1. ASSUME NEW i \in n..m
      PROVE  /\ Highest(col, n)[i] \in Nat
             /\ \A j \in (i - n + 1)..i : col[j] <= Highest(col, n)[i]
  <2> DEFINE W == {col[j] : j \in (i - n + 1)..i}
  <2>1. W \in SUBSET Nat /\ col[i] \in W
    OBVIOUS
  <2>2. PICK b \in Nat : \A j \in 1..m : col[j] <= b
    BY ColumnBounded
  <2>3. \A k \in W : k <= b
    BY <2>2
  <2>4. Max(W) \in W /\ \A k \in W : Max(W) >= k
    BY <2>1, <2>3, GreatestNumber
  <2>5. \A j \in (i - n + 1)..i : col[j] \in W
    OBVIOUS
  <2> HIDE DEF W
  <2>6. Max(W) \in Nat /\ \A j \in (i - n + 1)..i : col[j] <= Max(W)
    BY <2>1, <2>4, <2>5
  <2>7. Highest(col, n)[i] = Max(W)
    BY DEF Highest, W
  <2> QED BY <2>6, <2>7
<1>2. \A i \in 1..m : i < n => Highest(col, n)[i] = NaN
  BY DEF Highest
<1>3. Highest(col, n) \in [1..m -> Number]
  <2>1. Highest(col, n) = [i \in 1..m |-> Highest(col, n)[i]]
    BY DEF Highest
  <2>2. \A i \in 1..m : Highest(col, n)[i] \in Number
    BY <1>1, <1>2 DEF Number
  <2> QED BY <2>1, <2>2
<1> QED BY <1>1, <1>2, <1>3

LEMMA LowestWindow ==
    ASSUME NEW m \in Nat, NEW col \in [1..m -> Nat], NEW n \in Nat \ {0}
    PROVE  /\ Lowest(col, n) \in [1..m -> Number]
           /\ \A i \in 1..m : i < n => Lowest(col, n)[i] = NaN
           /\ \A i \in n..m : /\ Lowest(col, n)[i] \in Nat
                              /\ \A j \in (i - n + 1)..i : col[j] >= Lowest(col, n)[i]
<1>1. ASSUME NEW i \in n..m
      PROVE  /\ Lowest(col, n)[i] \in Nat
             /\ \A j \in (i - n + 1)..i : col[j] >= Lowest(col, n)[i]
  <2> DEFINE W == {col[j] : j \in (i - n + 1)..i}
  <2>1. W \in SUBSET Nat /\ col[i] \in W
    OBVIOUS
  <2>4. Min(W) \in W /\ \A k \in W : Min(W) <= k
    BY <2>1, SmallestNumber
  <2>5. \A j \in (i - n + 1)..i : col[j] \in W
    OBVIOUS
  <2> HIDE DEF W
  <2>6. Min(W) \in Nat /\ \A j \in (i - n + 1)..i : col[j] >= Min(W)
    BY <2>1, <2>4, <2>5
  <2>7. Lowest(col, n)[i] = Min(W)
    BY DEF Lowest, W
  <2> QED BY <2>6, <2>7
<1>2. \A i \in 1..m : i < n => Lowest(col, n)[i] = NaN
  BY DEF Lowest
<1>3. Lowest(col, n) \in [1..m -> Number]
  <2>1. Lowest(col, n) = [i \in 1..m |-> Lowest(col, n)[i]]
    BY DEF Lowest
  <2>2. \A i \in 1..m : Lowest(col, n)[i] \in Number
    BY <1>1, <1>2 DEF Number
  <2> QED BY <2>1, <2>2
<1> QED BY <1>1, <1>2, <1>3

-----------------------------------------------------------------------------
(* Columns *)

\* A column of any frame may have gaps.
ColumnsOf(m) == [1..m -> Number]

\* Two values are not each above the other, and a crossing ends above.
LEMMA AboveExcludes ==
    ASSUME NEW m \in Nat, NEW x \in ColumnsOf(m), NEW y \in ColumnsOf(m)
    PROVE  /\ Above(x, y) \cap Above(y, x) = {}
           /\ Above(x, y) \cap AtLeast(y, x) = {}
           /\ CrossesAbove(x, y) \subseteq Above(x, y)
<1>1. \A a, b \in Number : ~(Gt(a, b) /\ Gt(b, a)) /\ ~(Gt(a, b) /\ Ge(b, a))
  BY SignalsAssumption DEF Number, Gt, Ge
<1>2. DOMAIN x = 1..m /\ DOMAIN y = 1..m /\ \A i \in 1..m : x[i] \in Number /\ y[i] \in Number
  BY DEF ColumnsOf
<1> QED BY <1>1, <1>2 DEF Above, AtLeast, CrossesAbove

\* Nothing is above one level and below another one above it.
LEMMA LevelsExclude ==
    ASSUME NEW m \in Nat, NEW x \in ColumnsOf(m), NEW low \in ColumnsOf(m), NEW high \in ColumnsOf(m),
           \A i \in 1..m : low[i] # NaN /\ high[i] # NaN => low[i] <= high[i]
    PROVE  /\ Above(low, x) \cap AtLeast(x, high) = {}
           /\ Above(x, high) \cap AtLeast(low, x) = {}
           /\ Above(x, high) \cap Above(low, x) = {}
<1>1. \A a, b, c \in Number : (b # NaN /\ c # NaN => b <= c) =>
        ~(Gt(b, a) /\ Ge(a, c)) /\ ~(Gt(a, c) /\ Ge(b, a)) /\ ~(Gt(a, c) /\ Gt(b, a))
  BY SignalsAssumption DEF Number, Gt, Ge
<1>2. \A i \in 1..m : x[i] \in Number /\ low[i] \in Number /\ high[i] \in Number
  BY DEF ColumnsOf
<1>3. DOMAIN x = 1..m /\ DOMAIN low = 1..m /\ DOMAIN high = 1..m
  BY DEF ColumnsOf
<1>4. ASSUME NEW i \in 1..m
      PROVE  /\ ~(Gt(low[i], x[i]) /\ Ge(x[i], high[i]))
             /\ ~(Gt(x[i], high[i]) /\ Ge(low[i], x[i]))
             /\ ~(Gt(x[i], high[i]) /\ Gt(low[i], x[i]))
  BY <1>1, <1>2
<1> QED BY <1>3, <1>4 DEF Above, AtLeast

LEMMA SumColumn ==
    ASSUME NEW m \in Nat, NEW x \in ColumnsOf(m), NEW y \in ColumnsOf(m)
    PROVE  /\ Rowwise(Plus, x, y) \in ColumnsOf(m)
           /\ Rowwise(Minus, x, y) \in ColumnsOf(m)
           /\ \A i \in 1..m : Rowwise(Plus, x, y)[i] = Plus(x[i], y[i])
           /\ \A i \in 1..m : Rowwise(Minus, x, y)[i] = Minus(x[i], y[i])
<1>1. \A a, b \in Number : Plus(a, b) \in Number /\ Minus(a, b) \in Number
  BY SignalsAssumption DEF Number, Plus, Minus
<1>2. DOMAIN x = 1..m /\ \A i \in 1..m : x[i] \in Number /\ y[i] \in Number
  BY DEF ColumnsOf
<1> QED BY <1>1, <1>2 DEF Rowwise, ColumnsOf

LEMMA ShiftedColumn ==
    ASSUME NEW m \in Nat, NEW x \in ColumnsOf(m)
    PROVE  /\ Shift(x) \in ColumnsOf(m)
           /\ \A i \in 1..m : Shift(x)[i] # NaN => i - 1 \in 1..m /\ Shift(x)[i] = x[i - 1]
<1>1. DOMAIN x = 1..m /\ \A i \in 1..m : x[i] \in Number
  BY DEF ColumnsOf
<1>2. \A i \in 1..m : Shift(x)[i] = IF i = 1 THEN NaN ELSE x[i - 1]
  BY <1>1 DEF Shift
<1>3. \A i \in 1..m : i # 1 => i - 1 \in 1..m
  OBVIOUS
<1> QED BY <1>1, <1>2, <1>3 DEF ColumnsOf, Shift, Number

-----------------------------------------------------------------------------
(* Frames *)

Frames == Seq(TallCandles \cup FlatCandles)

\* What every candle has.
LEMMA CandleShape ==
    ASSUME NEW k \in TallCandles \cup FlatCandles
    PROVE  /\ k.low \in Nat /\ k.close \in Nat /\ k.high \in Nat
           /\ k.low <= k.close /\ k.close <= k.high
           /\ k.a \in Nat \cup {NaN} /\ k.b \in Nat \cup {NaN}
<1>1. Prices \subseteq Nat /\ Levels \subseteq Nat
  BY SignalsAssumption
<1>2. CASE k \in TallCandles
  BY <1>1, <1>2 DEF TallCandles, Candle
<1>3. CASE k \in FlatCandles
  BY <1>1, <1>3 DEF FlatCandles
<1> QED BY <1>2, <1>3

LEMMA FrameColumns ==
    ASSUME NEW f \in Frames
    PROVE  /\ Len(f) \in Nat /\ Rows(f) = 1..Len(f)
           /\ \A i \in 1..Len(f) : f[i] \in TallCandles \cup FlatCandles
           /\ Column(f, "high") \in [1..Len(f) -> Nat]
           /\ Column(f, "low") \in [1..Len(f) -> Nat]
           /\ Column(f, "close") \in [1..Len(f) -> Nat]
           /\ Column(f, "a") \in [1..Len(f) -> Nat \cup {NaN}]
           /\ Column(f, "b") \in [1..Len(f) -> Nat \cup {NaN}]
           /\ \A i \in 1..Len(f) : \A name \in {"high", "low", "close", "a", "b"} :
                Column(f, name)[i] = f[i][name]
<1>1. Len(f) \in Nat /\ Rows(f) = 1..Len(f)
  BY DEF Frames, Rows
<1>2. \A i \in 1..Len(f) : f[i] \in TallCandles \cup FlatCandles
  BY DEF Frames
<1> QED BY <1>1, <1>2, CandleShape DEF Column

\* The columns of a frame, and constant ones, are columns of numbers.
LEMMA FrameNumbers ==
    ASSUME NEW f \in Frames, NEW n \in Int
    PROVE  /\ \A name \in {"high", "low", "close", "a", "b"} :
                Column(f, name) \in ColumnsOf(Len(f))
           /\ Same(f, n) \in ColumnsOf(Len(f))
           /\ \A i \in 1..Len(f) : Same(f, n)[i] = n
BY FrameColumns DEF ColumnsOf, Number, Same

-----------------------------------------------------------------------------
(* Entries against exits, strategy by strategy *)

Stands(m) ==
    m.enter_long \cap m.exit_long = {} /\ m.enter_short \cap m.exit_short = {}

\* Aroon: a cross upwards with up above the threshold and down below it.
LEMMA AroonStands == ASSUME NEW f \in Frames PROVE Stands(Aroon(f))
<1> DEFINE up == Column(f, "a")
           down == Column(f, "b")
           thr == Same(f, Threshold)
<1>1. /\ Len(f) \in Nat /\ up \in ColumnsOf(Len(f)) /\ down \in ColumnsOf(Len(f))
      /\ thr \in ColumnsOf(Len(f))
  BY FrameColumns, FrameNumbers, SignalsAssumption
<1>2. Aroon(f) = Marks(CrossesAbove(up, down) \cap Above(up, thr) \cap Above(thr, down),
                       CrossesAbove(down, up) \cap Above(down, thr) \cap Above(thr, up),
                       Above(thr, up) \cup CrossesAbove(down, up),
                       Above(thr, down) \cup CrossesAbove(up, down))
  BY DEF Aroon
<1> HIDE DEF up, down, thr
<1>3. /\ Above(up, thr) \cap Above(thr, up) = {}
      /\ Above(down, thr) \cap Above(thr, down) = {}
      /\ CrossesAbove(up, down) \cap CrossesAbove(down, up) = {}
  <2>1. Above(up, down) \cap Above(down, up) = {}
    BY <1>1, AboveExcludes
  <2>2. CrossesAbove(up, down) \subseteq Above(up, down)
    BY <1>1, AboveExcludes
  <2>3. CrossesAbove(down, up) \subseteq Above(down, up)
    BY <1>1, AboveExcludes
  <2> QED BY <1>1, <2>1, <2>2, <2>3, AboveExcludes
<1> QED BY <1>2, <1>3 DEF Stands, Marks

\* A band is on its side of the middle.
LEMMA Apart ==
    ASSUME NEW a \in Nat \cup {NaN}, NEW b \in Nat \cup {NaN}
    PROVE  /\ Minus(a, b) # NaN => Minus(a, b) <= a
           /\ Plus(a, b) # NaN => a <= Plus(a, b)
BY SignalsAssumption DEF Minus, Plus

\* Bands around a middle: nothing is outside of one of them and on the other side
\* of the middle.
LEMMA BandsExclude ==
    ASSUME NEW m \in Nat, NEW close \in [1..m -> Nat],
           NEW mid \in [1..m -> Nat \cup {NaN}], NEW width \in [1..m -> Nat \cup {NaN}]
    PROVE  /\ Above(Rowwise(Minus, mid, width), close) \cap AtLeast(close, mid) = {}
           /\ Above(close, Rowwise(Plus, mid, width)) \cap AtLeast(mid, close) = {}
<1> DEFINE lower == Rowwise(Minus, mid, width)
           upper == Rowwise(Plus, mid, width)
<1>1. close \in ColumnsOf(m) /\ mid \in ColumnsOf(m) /\ width \in ColumnsOf(m)
  BY DEF ColumnsOf, Number
<1>2. /\ lower \in ColumnsOf(m) /\ upper \in ColumnsOf(m)
      /\ \A i \in 1..m : lower[i] = Minus(mid[i], width[i]) /\ upper[i] = Plus(mid[i], width[i])
  BY <1>1, SumColumn
<1> HIDE DEF lower, upper
<1>3. ASSUME NEW i \in 1..m PROVE lower[i] # NaN => lower[i] <= mid[i]
  <2>1. lower[i] = Minus(mid[i], width[i])
    BY <1>2
  <2>2. Minus(mid[i], width[i]) # NaN => Minus(mid[i], width[i]) <= mid[i]
    BY Apart
  <2> QED BY <2>1, <2>2
<1>4. ASSUME NEW i \in 1..m PROVE upper[i] # NaN => mid[i] <= upper[i]
  <2>1. upper[i] = Plus(mid[i], width[i])
    BY <1>2
  <2>2. Plus(mid[i], width[i]) # NaN => mid[i] <= Plus(mid[i], width[i])
    BY Apart
  <2> QED BY <2>1, <2>2
<1>5. Above(lower, close) \cap AtLeast(close, mid) = {}
  BY <1>1, <1>2, <1>3, LevelsExclude
<1>6. Above(close, upper) \cap AtLeast(mid, close) = {}
  BY <1>1, <1>2, <1>4, LevelsExclude
<1> QED BY <1>5, <1>6 DEF lower, upper

\* Bollinger: entries outside of the bands, exits towards the middle.
LEMMA BollingerStands == ASSUME NEW f \in Frames PROVE Stands(Bollinger(f))
<1> DEFINE close == Column(f, "close")
           mid == Column(f, "a")
           width == Column(f, "b")
<1>1. /\ Len(f) \in Nat /\ close \in [1..Len(f) -> Nat]
      /\ mid \in [1..Len(f) -> Nat \cup {NaN}] /\ width \in [1..Len(f) -> Nat \cup {NaN}]
  BY FrameColumns
<1>2. Bollinger(f) = Marks(Above(Rowwise(Minus, mid, width), close),
                           Above(close, Rowwise(Plus, mid, width)),
                           AtLeast(close, mid), AtLeast(mid, close))
  BY DEF Bollinger
<1> HIDE DEF close, mid, width
<1>3. /\ Above(Rowwise(Minus, mid, width), close) \cap AtLeast(close, mid) = {}
      /\ Above(close, Rowwise(Plus, mid, width)) \cap AtLeast(mid, close) = {}
  BY <1>1, BandsExclude
<1> QED BY <1>2, <1>3 DEF Stands, Marks

\* Keltner: entries outside of the channel, exits on the other side of its middle.
LEMMA KeltnerStands == ASSUME NEW f \in Frames PROVE Stands(Keltner(f))
<1> DEFINE close == Column(f, "close")
           mid == Column(f, "a")
           width == Column(f, "b")
<1>1. /\ Len(f) \in Nat /\ close \in [1..Len(f) -> Nat]
      /\ mid \in [1..Len(f) -> Nat \cup {NaN}] /\ width \in [1..Len(f) -> Nat \cup {NaN}]
  BY FrameColumns
<1>2. Keltner(f) = Marks(Above(close, Rowwise(Plus, mid, width)),
                         Above(Rowwise(Minus, mid, width), close),
                         AtLeast(mid, close), AtLeast(close, mid))
  BY DEF Keltner
<1> HIDE DEF close, mid, width
<1>3. /\ Above(Rowwise(Minus, mid, width), close) \cap AtLeast(close, mid) = {}
      /\ Above(close, Rowwise(Plus, mid, width)) \cap AtLeast(mid, close) = {}
  BY <1>1, BandsExclude
<1> QED BY <1>2, <1>3 DEF Stands, Marks

\* MACD and SAR: opposite crossings.
LEMMA CrossingStands ==
    ASSUME NEW m \in Nat, NEW fast \in ColumnsOf(m), NEW slow \in ColumnsOf(m)
    PROVE  Stands(Crossing(fast, slow))
<1>1. Above(fast, slow) \cap Above(slow, fast) = {}
  BY AboveExcludes
<1>2. CrossesAbove(fast, slow) \subseteq Above(fast, slow)
  BY AboveExcludes
<1>3. CrossesAbove(slow, fast) \subseteq Above(slow, fast)
  BY AboveExcludes
<1> QED BY <1>1, <1>2, <1>3 DEF Stands, Crossing, Marks

\* RSI: entries beyond the outer levels, exits from the middle one on.
LEMMA RsiStands == ASSUME NEW f \in Frames PROVE Stands(Rsi(f))
<1> DEFINE rsi == Column(f, "a")
           low == Same(f, Oversold)
           mid == Same(f, ExitLevel)
           high == Same(f, Overbought)
<1>1. /\ Len(f) \in Nat /\ rsi \in ColumnsOf(Len(f)) /\ low \in ColumnsOf(Len(f))
      /\ mid \in ColumnsOf(Len(f)) /\ high \in ColumnsOf(Len(f))
      /\ \A i \in 1..Len(f) : low[i] <= mid[i] /\ mid[i] <= high[i]
      /\ \A i \in 1..Len(f) : low[i] \in Nat /\ mid[i] \in Nat /\ high[i] \in Nat
  BY FrameColumns, FrameNumbers, SignalsAssumption
<1>2. Rsi(f) = Marks(Above(low, rsi), Above(rsi, high), AtLeast(rsi, mid), AtLeast(mid, rsi))
  BY DEF Rsi
<1> HIDE DEF rsi, low, mid, high
<1>3. Above(low, rsi) \cap AtLeast(rsi, mid) = {} /\ Above(rsi, high) \cap AtLeast(mid, rsi) = {}
  BY <1>1, LevelsExclude
<1> QED BY <1>2, <1>3 DEF Stands, Marks

\* Stochastic: the same of slowk.
LEMMA StochasticStands == ASSUME NEW f \in Frames PROVE Stands(Stochastic(f))
<1> DEFINE k == Column(f, "a")
           d == Column(f, "b")
           low == Same(f, Oversold)
           mid == Same(f, ExitLevel)
           high == Same(f, Overbought)
<1>1. /\ Len(f) \in Nat /\ k \in ColumnsOf(Len(f)) /\ low \in ColumnsOf(Len(f))
      /\ mid \in ColumnsOf(Len(f)) /\ high \in ColumnsOf(Len(f))
      /\ \A i \in 1..Len(f) : low[i] <= mid[i] /\ mid[i] <= high[i]
      /\ \A i \in 1..Len(f) : low[i] \in Nat /\ mid[i] \in Nat /\ high[i] \in Nat
  BY FrameColumns, FrameNumbers, SignalsAssumption
<1>2. Stochastic(f) = Marks(CrossesAbove(k, d) \cap Above(low, k),
                            CrossesAbove(d, k) \cap Above(k, high),
                            AtLeast(k, mid), AtLeast(mid, k))
  BY DEF Stochastic
<1> HIDE DEF k, d, low, mid, high
<1>3. Above(low, k) \cap AtLeast(k, mid) = {} /\ Above(k, high) \cap AtLeast(mid, k) = {}
  BY <1>1, LevelsExclude
<1> QED BY <1>2, <1>3 DEF Stands, Marks
\* Turtle: the low channel is not above the high one, whatever their lengths.
LEMMA ChannelsApart ==
    ASSUME NEW m \in Nat, NEW high \in [1..m -> Nat], NEW low \in [1..m -> Nat],
           \A j \in 1..m : low[j] <= high[j], NEW n \in Nat \ {0}, NEW k \in Nat \ {0}
    PROVE  /\ Shift(Highest(high, n)) \in ColumnsOf(m) /\ Shift(Lowest(low, k)) \in ColumnsOf(m)
           /\ \A i \in 1..m : Shift(Lowest(low, k))[i] # NaN /\ Shift(Highest(high, n))[i] # NaN
                => Shift(Lowest(low, k))[i] <= Shift(Highest(high, n))[i]
<1> DEFINE H == Highest(high, n)
           L == Lowest(low, k)
<1>1. H \in ColumnsOf(m) /\ L \in ColumnsOf(m)
  BY HighestWindow, LowestWindow DEF ColumnsOf
<1>w. /\ \A i \in 1..m : i < n => H[i] = NaN
      /\ \A i \in 1..m : i < k => L[i] = NaN
  BY HighestWindow, LowestWindow
<1>2. ASSUME NEW i \in 1..m, L[i] # NaN, H[i] # NaN PROVE L[i] <= H[i]
  <2>1. i \in n..m /\ i \in k..m
    <3> HIDE DEF H, L
    <3>1. ~(i < n) /\ ~(i < k)
      BY <1>2, <1>w
    <3> QED BY <3>1
  <2>2. i \in (i - n + 1)..i /\ i \in (i - k + 1)..i
    OBVIOUS
  <2>3. H[i] \in Nat /\ high[i] <= H[i]
    BY <2>1, <2>2, HighestWindow
  <2>4. L[i] \in Nat /\ low[i] >= L[i]
    BY <2>1, <2>2, LowestWindow
  <2> HIDE DEF H, L
  <2> QED BY <2>3, <2>4
<1> HIDE DEF H, L
<1>3. /\ \A i \in 1..m : Shift(H)[i] # NaN => i - 1 \in 1..m /\ Shift(H)[i] = H[i - 1]
      /\ \A i \in 1..m : Shift(L)[i] # NaN => i - 1 \in 1..m /\ Shift(L)[i] = L[i - 1]
      /\ Shift(H) \in ColumnsOf(m) /\ Shift(L) \in ColumnsOf(m)
  BY <1>1, ShiftedColumn
<1>4. ASSUME NEW i \in 1..m, Shift(L)[i] # NaN, Shift(H)[i] # NaN
      PROVE  Shift(L)[i] <= Shift(H)[i]
  BY <1>2, <1>3, <1>4
<1> QED BY <1>3, <1>4 DEF H, L

LEMMA TurtleStands == ASSUME NEW f \in Frames PROVE Stands(Turtle(f))
<1> DEFINE close == Column(f, "close")
           high == Column(f, "high")
           low == Column(f, "low")
           H(n) == Shift(Highest(high, n))
           L(n) == Shift(Lowest(low, n))
<1>1. /\ Len(f) \in Nat /\ close \in ColumnsOf(Len(f))
      /\ high \in [1..Len(f) -> Nat] /\ low \in [1..Len(f) -> Nat]
  BY FrameColumns, FrameNumbers
<1>2. \A j \in 1..Len(f) : low[j] <= high[j]
  <2> SUFFICES ASSUME NEW j \in 1..Len(f) PROVE low[j] <= high[j]
    OBVIOUS
  <2>1. f[j] \in TallCandles \cup FlatCandles /\ low[j] = f[j].low /\ high[j] = f[j].high
    BY FrameColumns
  <2>2. f[j].low \in Nat /\ f[j].close \in Nat /\ f[j].high \in Nat
        /\ f[j].low <= f[j].close /\ f[j].close <= f[j].high
    BY <2>1, CandleShape
  <2> HIDE DEF low, high
  <2> QED BY <2>1, <2>2
<1>3. Turtle(f) = Marks(Above(close, H(Fast)) \cup Above(close, H(Slow)),
                        Above(L(Fast), close) \cup Above(L(Slow), close),
                        Above(L(Exit), close), Above(close, H(Exit)))
  BY DEF Turtle
<1>4. {Fast, Slow, Exit} \subseteq Nat \ {0}
  BY SignalsAssumption
<1> HIDE DEF close, high, low
<1>5. ASSUME NEW n \in {Fast, Slow, Exit}, NEW k \in {Fast, Slow, Exit}
      PROVE  Above(close, H(n)) \cap Above(L(k), close) = {}
  <2>1. n \in Nat \ {0} /\ k \in Nat \ {0}
    BY <1>4
  <2>2. /\ H(n) \in ColumnsOf(Len(f)) /\ L(k) \in ColumnsOf(Len(f))
        /\ \A i \in 1..Len(f) : L(k)[i] # NaN /\ H(n)[i] # NaN => L(k)[i] <= H(n)[i]
    BY <1>1, <1>2, <2>1, ChannelsApart
  <2> HIDE DEF H, L
  <2> QED BY <1>1, <2>2, LevelsExclude
<1> HIDE DEF H, L
<1>6. /\ Above(close, H(Fast)) \cap Above(L(Exit), close) = {}
      /\ Above(close, H(Slow)) \cap Above(L(Exit), close) = {}
      /\ Above(close, H(Exit)) \cap Above(L(Fast), close) = {}
      /\ Above(close, H(Exit)) \cap Above(L(Slow), close) = {}
  BY <1>5
<1> QED BY <1>3, <1>6 DEF Stands, Marks

\* NR7: the triggers are the high and the low of one candle.
LEMMA FilledColumn ==
    ASSUME NEW m \in Nat, NEW x \in ColumnsOf(m)
    PROVE  /\ ForwardFill(x) \in ColumnsOf(m)
           /\ \A i \in 1..m : LET known == {j \in 1..i : x[j] # NaN} IN
                /\ known = {} => ForwardFill(x)[i] = NaN
                /\ known # {} => Max(known) \in known /\ ForwardFill(x)[i] = x[Max(known)]
<1>1. DOMAIN x = 1..m /\ \A i \in 1..m : x[i] \in Number
  BY DEF ColumnsOf
<1>2. ASSUME NEW i \in 1..m, NEW known, known = {j \in 1..i : x[j] # NaN}
      PROVE  /\ known = {} => ForwardFill(x)[i] = NaN
             /\ known # {} => Max(known) \in known /\ ForwardFill(x)[i] = x[Max(known)]
             /\ ForwardFill(x)[i] \in Number
  <2>1. ForwardFill(x)[i] = IF known = {} THEN NaN ELSE x[Max(known)]
    BY <1>1, <1>2 DEF ForwardFill
  <2>2. CASE known = {}
    BY <2>1, <2>2 DEF Number
  <2>3. CASE known # {}
    <3>1. known \in SUBSET Nat /\ \A k \in known : k <= i
      BY <1>2
    <3>2. Max(known) \in known
      BY <2>3, <3>1, GreatestNumber
    <3>3. Max(known) \in 1..m
      BY <3>2, <1>2
    <3> QED BY <1>1, <2>1, <2>3, <3>2, <3>3
  <2> QED BY <2>2, <2>3
<1>3. ForwardFill(x) = [i \in 1..m |-> ForwardFill(x)[i]]
  BY <1>1 DEF ForwardFill
<1>4. \A i \in 1..m : ForwardFill(x)[i] \in Number
  BY <1>2
<1>5. ForwardFill(x) \in ColumnsOf(m)
  BY <1>3, <1>4 DEF ColumnsOf
<1> QED BY <1>2, <1>5

LEMMA Nr7Stands == ASSUME NEW f \in Frames PROVE Stands(Nr7(f))
<1> DEFINE range == Rowwise(Minus, Column(f, "high"), Column(f, "low"))
           narrow == {i \in Rows(f) : range[i] = Lowest(range, Narrow)[i]}
           GH == [i \in Rows(f) |-> IF i \in narrow THEN f[i]["high"] ELSE NaN]
           GL == [i \in Rows(f) |-> IF i \in narrow THEN f[i]["low"] ELSE NaN]
           close == Column(f, "close")
           H == Shift(ForwardFill(GH))
           L == Shift(ForwardFill(GL))
<1>1. Nr7(f) = Marks(Above(close, H), Above(L, close), Above(L, close), Above(close, H))
  BY DEF Nr7
<1>2. Len(f) \in Nat /\ Rows(f) = 1..Len(f) /\ close \in ColumnsOf(Len(f))
  BY FrameColumns, FrameNumbers
<1> HIDE DEF range, narrow
<1>3. \A j \in 1..Len(f) : /\ f[j].low \in Nat /\ f[j].high \in Nat
                           /\ f[j].low <= f[j].high
  <2> SUFFICES ASSUME NEW j \in 1..Len(f)
               PROVE  f[j].low \in Nat /\ f[j].high \in Nat /\ f[j].low <= f[j].high
    OBVIOUS
  <2>1. f[j] \in TallCandles \cup FlatCandles
    BY FrameColumns
  <2>2. f[j].low \in Nat /\ f[j].close \in Nat /\ f[j].high \in Nat
        /\ f[j].low <= f[j].close /\ f[j].close <= f[j].high
    BY <2>1, CandleShape
  <2> QED BY <2>2
<1>4. /\ GH \in ColumnsOf(Len(f)) /\ GL \in ColumnsOf(Len(f))
      /\ \A j \in 1..Len(f) : /\ GH[j] # NaN <=> j \in narrow
                              /\ GL[j] # NaN <=> j \in narrow
                              /\ j \in narrow => GL[j] <= GH[j]
  <2>1. ASSUME NEW j \in 1..Len(f)
        PROVE  /\ GH[j] = IF j \in narrow THEN f[j].high ELSE NaN
               /\ GL[j] = IF j \in narrow THEN f[j].low ELSE NaN
    BY <1>2
  <2>2. /\ GH = [j \in 1..Len(f) |-> GH[j]]
        /\ GL = [j \in 1..Len(f) |-> GL[j]]
    BY <1>2
  <2> HIDE DEF GH, GL
  <2>3. ASSUME NEW j \in 1..Len(f)
        PROVE  /\ GH[j] \in Number /\ GL[j] \in Number
               /\ GH[j] # NaN <=> j \in narrow
               /\ GL[j] # NaN <=> j \in narrow
               /\ j \in narrow => GL[j] <= GH[j]
    <3>1. CASE j \in narrow
      <4>1. GH[j] = f[j].high /\ GL[j] = f[j].low
        BY <2>1, <3>1
      <4>2. GH[j] \in Int /\ GL[j] \in Int /\ GL[j] <= GH[j]
        BY <1>3, <4>1
      <4>3. NaN \notin Int
        BY SignalsAssumption
      <4> QED BY <3>1, <4>2, <4>3 DEF Number
    <3>2. CASE j \notin narrow
      BY <2>1, <3>2 DEF Number
    <3> QED BY <3>1, <3>2
  <2>4. GH \in ColumnsOf(Len(f)) /\ GL \in ColumnsOf(Len(f))
    BY <2>2, <2>3 DEF ColumnsOf
  <2> QED BY <2>3, <2>4
<1> HIDE DEF GH, GL, close
<1> DEFINE FH == ForwardFill(GH)
           FL == ForwardFill(GL)
<1>5. ASSUME NEW i \in 1..Len(f), FL[i] # NaN PROVE FL[i] <= FH[i]
  <2> DEFINE known == {j \in 1..i : GL[j] # NaN}
  <2>1. known = {j \in 1..i : GH[j] # NaN}
    <3>1. \A j \in 1..i : j \in 1..Len(f)
      BY <1>2
    <3>2. \A j \in 1..i : GL[j] # NaN <=> GH[j] # NaN
      BY <1>4, <3>1
    <3> QED BY <3>2
  <2>a. /\ known = {} => FL[i] = NaN
        /\ known # {} => Max(known) \in known /\ FL[i] = GL[Max(known)]
    <3>1. GL \in ColumnsOf(Len(f))
      BY <1>4
    <3>2. Len(f) \in Nat
      BY <1>2
    <3> QED BY <3>1, <3>2, FilledColumn
  <2>2. known # {}
    BY <1>5, <2>a
  <2>3. Max(known) \in known /\ FL[i] = GL[Max(known)]
    BY <2>2, <2>a
  <2>4. FH[i] = GH[Max(known)]
    BY <1>2, <1>4, <2>1, <2>2, FilledColumn
  <2>5. Max(known) \in 1..Len(f) /\ GL[Max(known)] # NaN
    BY <1>2, <2>3
  <2> HIDE DEF FL, FH, known
  <2>6. GL[Max(known)] <= GH[Max(known)]
    BY <1>4, <2>5
  <2> QED BY <2>3, <2>4, <2>6
<1>6. FH \in ColumnsOf(Len(f)) /\ FL \in ColumnsOf(Len(f))
  BY <1>2, <1>4, FilledColumn
<1> HIDE DEF FH, FL
<1>7. /\ \A i \in 1..Len(f) : Shift(FH)[i] # NaN => i - 1 \in 1..Len(f) /\ Shift(FH)[i] = FH[i - 1]
      /\ \A i \in 1..Len(f) : Shift(FL)[i] # NaN => i - 1 \in 1..Len(f) /\ Shift(FL)[i] = FL[i - 1]
      /\ Shift(FH) \in ColumnsOf(Len(f)) /\ Shift(FL) \in ColumnsOf(Len(f))
  BY <1>2, <1>6, ShiftedColumn
<1>8. H = Shift(FH) /\ L = Shift(FL)
  BY DEF FH, FL
<1> HIDE DEF H, L
<1>9. \A i \in 1..Len(f) : L[i] # NaN /\ H[i] # NaN => L[i] <= H[i]
  BY <1>5, <1>7, <1>8
<1>10. Above(close, H) \cap Above(L, close) = {}
  BY <1>2, <1>7, <1>8, <1>9, LevelsExclude
<1> QED BY <1>1, <1>10 DEF Stands, Marks

\* Ichimoku: above the cloud is above twice the sum of its lines' middles, and
\* below it is below.
LEMMA ExtremeOfTwo ==
    ASSUME NEW a \in Int, NEW b \in Int
    PROVE  /\ Max({a, b}) \in {a, b} /\ Max({a, b}) >= a /\ Max({a, b}) >= b
           /\ Min({a, b}) \in {a, b} /\ Min({a, b}) <= a /\ Min({a, b}) <= b
<1>1. \E x \in {a, b} : \A y \in {a, b} : x >= y
  OBVIOUS
<1>2. \E x \in {a, b} : \A y \in {a, b} : x <= y
  OBVIOUS
<1>3. Max({a, b}) \in {a, b} /\ \A y \in {a, b} : Max({a, b}) >= y
  BY <1>1 DEF Max
<1>4. Min({a, b}) \in {a, b} /\ \A y \in {a, b} : Min({a, b}) <= y
  BY <1>2 DEF Min
<1> QED BY <1>3, <1>4

LEMMA CloudBounds ==
    ASSUME NEW a \in Number, NEW b \in Number
    PROVE  /\ CloudTop(a, b) \in Number /\ CloudBottom(a, b) \in Number
           /\ a # NaN => /\ CloudTop(a, b) # NaN /\ a <= CloudTop(a, b)
                         /\ CloudBottom(a, b) # NaN /\ CloudBottom(a, b) <= a
<1>1. CASE a = NaN \/ b = NaN
  BY <1>1, SignalsAssumption DEF Number, CloudTop, CloudBottom
<1>2. CASE a # NaN /\ b # NaN
  <2>1. a \in Int /\ b \in Int /\ CloudTop(a, b) = Max({a, b}) /\ CloudBottom(a, b) = Min({a, b})
    BY <1>2 DEF Number, CloudTop, CloudBottom
  <2> DEFINE top == Max({a, b})
             bottom == Min({a, b})
  <2>2. /\ top \in {a, b} /\ top >= a /\ bottom \in {a, b} /\ bottom <= a
    BY <2>1, ExtremeOfTwo
  <2> HIDE DEF top, bottom
  <2>3. top \in Int /\ bottom \in Int /\ a <= top
    BY <2>1, <2>2
  <2>4. top # NaN /\ bottom # NaN
    BY <2>3, SignalsAssumption
  <2> QED BY <2>1, <2>2, <2>3, <2>4 DEF Number, top, bottom
<1> QED BY <1>1, <1>2

LEMMA MiddleColumn ==
    ASSUME NEW f \in Frames, NEW n \in Nat \ {0}
    PROVE  Middle(f, n) \in ColumnsOf(Len(f))
<1>1. /\ Len(f) \in Nat /\ Column(f, "high") \in [1..Len(f) -> Nat]
      /\ Column(f, "low") \in [1..Len(f) -> Nat]
  BY FrameColumns
<1>2. /\ Highest(Column(f, "high"), n) \in ColumnsOf(Len(f))
      /\ Lowest(Column(f, "low"), n) \in ColumnsOf(Len(f))
  BY <1>1, HighestWindow, LowestWindow DEF ColumnsOf
<1> QED BY <1>1, <1>2, SumColumn DEF Middle

\* One candle: a price above the top of the cloud is not below the slower line when
\* the faster one is above it, nor the other way round.
LEMMA CloudExcludes ==
    ASSUME NEW t \in Number, NEW k \in Number, NEW b \in Number, NEW c \in Nat
    PROVE  /\ ~(Gt(4 * c, CloudTop(Plus(t, k), b)) /\ Gt(t, k) /\ Gt(k, 2 * c))
           /\ ~(Gt(CloudBottom(Plus(t, k), b), 4 * c) /\ Gt(k, t) /\ Gt(2 * c, k))
<1>1. CASE t = NaN \/ k = NaN
  BY <1>1 DEF Gt
<1>2. CASE t # NaN /\ k # NaN
  <2>1. t \in Int /\ k \in Int /\ Plus(t, k) = t + k /\ t + k \in Int /\ t + k # NaN
    BY <1>2, SignalsAssumption DEF Plus, Number
  <2>2. t + k \in Number
    BY <2>1 DEF Number
  <2> DEFINE top == CloudTop(t + k, b)
             bottom == CloudBottom(t + k, b)
  <2>3. /\ top \in Number /\ bottom \in Number /\ top # NaN /\ bottom # NaN
        /\ t + k <= top /\ bottom <= t + k
    BY <2>1, <2>2, CloudBounds
  <2> HIDE DEF top, bottom
  <2>4. top \in Int /\ bottom \in Int
    BY <2>3 DEF Number
  <2>5. ~(Gt(4 * c, top) /\ Gt(t, k) /\ Gt(k, 2 * c))
    BY <2>1, <2>3, <2>4 DEF Gt
  <2>6. ~(Gt(bottom, 4 * c) /\ Gt(k, t) /\ Gt(2 * c, k))
    BY <2>1, <2>3, <2>4 DEF Gt
  <2> QED BY <2>1, <2>5, <2>6 DEF top, bottom
<1> QED BY <1>1, <1>2

LEMMA IchimokuStands == ASSUME NEW f \in Frames PROVE Stands(Ichimoku(f))
<1> DEFINE tenkan == Middle(f, Tenkan)
           kijun == Middle(f, Kijun)
           spanA == Rowwise(Plus, tenkan, kijun)
           spanB == [i \in Rows(f) |-> Times(2, Middle(f, SenkouB)[i])]
           close2 == [i \in Rows(f) |-> 2 * f[i].close]
           close4 == [i \in Rows(f) |-> 4 * f[i].close]
           top == Rowwise(CloudTop, spanA, spanB)
           bottom == Rowwise(CloudBottom, spanA, spanB)
<1>1. Ichimoku(f) = Marks(Above(close4, top) \cap CrossesAbove(tenkan, kijun),
                          Above(bottom, close4) \cap CrossesAbove(kijun, tenkan),
                          Above(kijun, close2) \cup CrossesAbove(kijun, tenkan),
                          Above(close2, kijun) \cup CrossesAbove(tenkan, kijun))
  BY DEF Ichimoku
<1>2. /\ Len(f) \in Nat /\ Rows(f) = 1..Len(f)
      /\ tenkan \in ColumnsOf(Len(f)) /\ kijun \in ColumnsOf(Len(f))
      /\ Middle(f, SenkouB) \in ColumnsOf(Len(f))
  BY FrameColumns, MiddleColumn, SignalsAssumption
<1>3. \A i \in 1..Len(f) : f[i].close \in Nat
  BY FrameColumns, CandleShape
<1> HIDE DEF tenkan, kijun
<1>4. /\ spanA \in ColumnsOf(Len(f))
      /\ \A i \in 1..Len(f) : spanA[i] = Plus(tenkan[i], kijun[i])
  BY <1>2, SumColumn
<1>5. \A i \in 1..Len(f) : spanB[i] \in Number
  <2>1. \A x \in Number : Times(2, x) \in Number
    BY DEF Times, Number
  <2>2. \A i \in 1..Len(f) : Middle(f, SenkouB)[i] \in Number
    BY <1>2 DEF ColumnsOf
  <2> QED BY <1>2, <2>1, <2>2
<1>6. /\ DOMAIN spanA = 1..Len(f) /\ DOMAIN tenkan = 1..Len(f) /\ DOMAIN kijun = 1..Len(f)
      /\ \A i \in 1..Len(f) : tenkan[i] \in Number /\ kijun[i] \in Number
  BY <1>2, <1>4 DEF ColumnsOf
<1> HIDE DEF spanB
<1>7. \A i \in 1..Len(f) : /\ top[i] = CloudTop(Plus(tenkan[i], kijun[i]), spanB[i])
                           /\ bottom[i] = CloudBottom(Plus(tenkan[i], kijun[i]), spanB[i])
  BY <1>4, <1>6 DEF Rowwise
<1>8. /\ DOMAIN top = 1..Len(f) /\ DOMAIN bottom = 1..Len(f)
      /\ DOMAIN close2 = 1..Len(f) /\ DOMAIN close4 = 1..Len(f)
      /\ \A i \in 1..Len(f) : close2[i] = 2 * f[i].close /\ close4[i] = 4 * f[i].close
  BY <1>2, <1>6 DEF Rowwise
<1> HIDE DEF spanA, top, bottom, close2, close4
<1>9. /\ CrossesAbove(tenkan, kijun) \subseteq Above(tenkan, kijun)
      /\ CrossesAbove(kijun, tenkan) \subseteq Above(kijun, tenkan)
      /\ Above(tenkan, kijun) \cap Above(kijun, tenkan) = {}
  BY <1>2, AboveExcludes
<1>10. ASSUME NEW i \in 1..Len(f)
       PROVE  /\ ~(Gt(close4[i], top[i]) /\ Gt(tenkan[i], kijun[i]) /\ Gt(kijun[i], close2[i]))
              /\ ~(Gt(bottom[i], close4[i]) /\ Gt(kijun[i], tenkan[i]) /\ Gt(close2[i], kijun[i]))
  BY <1>3, <1>5, <1>6, <1>7, <1>8, CloudExcludes
<1>11. /\ Above(close4, top) \cap Above(tenkan, kijun) \cap Above(kijun, close2) = {}
       /\ Above(bottom, close4) \cap Above(kijun, tenkan) \cap Above(close2, kijun) = {}
  BY <1>6, <1>8, <1>10 DEF Above
<1> QED BY <1>1, <1>9, <1>11 DEF Stands, Marks

-----------------------------------------------------------------------------
(* The invariant *)

LEMMA MarkedStands ==
    ASSUME NEW f \in Frames, NEW s \in Strategies PROVE Stands(Marked(s, f))
<1>1. CASE s \in {"macd", "sar"}
  <2>1. /\ Len(f) \in Nat /\ Column(f, "a") \in ColumnsOf(Len(f))
        /\ Column(f, "b") \in ColumnsOf(Len(f)) /\ Column(f, "close") \in ColumnsOf(Len(f))
    BY FrameColumns, FrameNumbers
  <2>2. Stands(Macd(f)) /\ Stands(Sar(f))
    BY <2>1, CrossingStands DEF Macd, Sar
  <2> QED BY <1>1, <2>2 DEF Marked
<1>2. CASE s \in {"aroon", "bollinger", "keltner"}
  BY <1>2, AroonStands, BollingerStands, KeltnerStands DEF Marked
<1>3. CASE s \in {"rsi", "stochastic"}
  BY <1>3, RsiStands, StochasticStands DEF Marked
<1>4. CASE s \in {"ichimoku", "nr7", "turtle"}
  BY <1>4, IchimokuStands, Nr7Stands, TurtleStands DEF Marked
<1> QED BY <1>1, <1>2, <1>3, <1>4 DEF Strategies

\* What a strategy leaves stands, in rows of the frame, whatever was there before.
LEMMA PopulatedStands ==
    ASSUME NEW f \in Frames, NEW s \in Strategies, NEW old
    PROVE  LET p == Populated(s, f, old) IN
           /\ p.enter_long \cap (p.exit_long \cup p.enter_short) = {}
           /\ p.enter_short \cap p.exit_short = {}
           /\ \A name \in DOMAIN p : p[name] \subseteq Rows(f)
           /\ p = Populated(s, f, NoColumns)
<1>1. Stands(Marked(s, f))
  BY MarkedStands
<1> DEFINE m == Marked(s, f)
<1>2. Stands(m)
  BY <1>1
<1> HIDE DEF m
<1>3. Populated(s, f, old) = LET traded == {i \in Rows(f) : f[i].volume > 0}
                                 both == m.enter_long \cap m.enter_short
                             IN Marks((m.enter_long \cap traded) \ both,
                                      (m.enter_short \cap traded) \ both,
                                      m.exit_long \cap traded, m.exit_short \cap traded)
  BY DEF Populated, m
<1>4. Populated(s, f, old) = Populated(s, f, NoColumns)
  BY DEF Populated
<1> QED BY <1>2, <1>3, <1>4 DEF Stands, Marks

\* The columns are those of the strategy that ran last, of the frame as it is.
SignalsInv ==
    /\ flat \in BOOLEAN
    /\ frame \in Frames /\ Len(frame) <= (IF flat THEN MaxFlatRows ELSE MaxRows)
    /\ \/ ran = "none" /\ columns = NoColumns
       \/ ran \in Strategies /\ columns = Populated(ran, frame, NoColumns)

LEMMA SignalsInductive == SignalsSpec => []SignalsInv
<1>1. SignalsInit => SignalsInv
  BY SignalsAssumption DEF SignalsInit, SignalsInv, Frames
<1>2. SignalsInv /\ [SignalsNext]_signalsVars => SignalsInv'
  <2> SUFFICES ASSUME SignalsInv, [SignalsNext]_signalsVars PROVE SignalsInv'
    OBVIOUS
  <2>1. CASE LoadFrame
    <3>1. PICK k \in TallCandles \cup FlatCandles : frame' = Append(frame, k)
      BY <2>1 DEF LoadFrame
    <3>2. frame \in Frames
      BY DEF SignalsInv
    <3>3. frame' \in Frames /\ Len(frame') = Len(frame) + 1 /\ Len(frame) \in Nat
      BY <3>1, <3>2 DEF Frames
    <3>4. Len(frame') <= (IF flat THEN MaxFlatRows ELSE MaxRows)
      BY <2>1, <3>3, SignalsAssumption DEF LoadFrame
    <3> QED BY <2>1, <3>3, <3>4 DEF SignalsInv, LoadFrame
  <2>2. ASSUME NEW s \in Strategies, RunStrategy(s) PROVE SignalsInv'
    <3>1. frame' = frame /\ flat' = flat /\ ran' = s /\ columns' = Populated(s, frame, columns)
      BY <2>2 DEF RunStrategy
    <3>2. Populated(s, frame, columns) = Populated(s, frame, NoColumns)
      BY DEF Populated
    <3> QED BY <3>1, <3>2 DEF SignalsInv
  <2>3. CASE UNCHANGED signalsVars
    BY <2>3 DEF SignalsInv, signalsVars
  <2> QED BY <2>1, <2>2, <2>3 DEF SignalsNext
<1> QED BY <1>1, <1>2, PTL DEF SignalsSpec

\* Frames and columns keep their bounds and types.
THEOREM SignalsTypeCorrect == SignalsSpec => []SignalsTypeOK
<1>1. SignalsInv => SignalsTypeOK
  <2> SUFFICES ASSUME SignalsInv PROVE SignalsTypeOK
    OBVIOUS
  <2>1. \A i \in Rows(frame) : frame[i] \in TallCandles \cup FlatCandles
    BY FrameColumns DEF SignalsInv
  <2>2. Len(frame) <= MaxRows + MaxFlatRows
    BY FrameColumns, SignalsAssumption DEF SignalsInv
  <2>3. \A name \in DOMAIN columns : columns[name] \subseteq Rows(frame)
    <3>1. CASE columns = NoColumns
      BY <3>1 DEF NoColumns, Marks
    <3>2. CASE ran \in Strategies /\ columns = Populated(ran, frame, NoColumns)
      BY <3>2, PopulatedStands DEF SignalsInv
    <3> QED BY <3>1, <3>2 DEF SignalsInv
  <2> QED BY <2>1, <2>2, <2>3 DEF SignalsInv, SignalsTypeOK
<1> QED BY <1>1, SignalsInductive, PTL

\* Strategies run one after the other on one frame do not see each other's columns
\* (freqtrade_bridge/signal_fetcher.py).
THEOREM StrategiesDoNotMix == SignalsSpec => []FrameShared
<1>1. SignalsInv => FrameShared
  BY DEF SignalsInv, FrameShared
<1> QED BY <1>1, SignalsInductive, PTL

\* For any frame and any parameters in their order, no strategy marks on one candle an
\* entry together with its exit or the opposite entry.
THEOREM EntriesStand == SignalsSpec => []EntryStands
<1>1. SignalsInv => EntryStands
  <2>1. CASE columns = NoColumns
    BY <2>1 DEF NoColumns, Marks, EntryStands
  <2>2. ASSUME SignalsInv, ran \in Strategies, columns = Populated(ran, frame, NoColumns)
        PROVE  EntryStands
    <3>1. frame \in Frames
      BY <2>2 DEF SignalsInv
    <3> QED BY <2>2, <3>1, PopulatedStands DEF EntryStands
  <2> QED BY <2>1, <2>2 DEF SignalsInv
<1> QED BY <1>1, SignalsInductive, PTL

-----------------------------------------------------------------------------
(* No strategy looks ahead.  On the first n candles of a frame a strategy  *)
(* marks what it marks there on the whole frame: every operator it is made *)
(* of commutes with cutting a column after row n.                          *)

Cut(x, n) == [i \in 1..n |-> x[i]]

LEMMA CutFrame ==
    ASSUME NEW f \in Frames, NEW n \in 1..Len(f)
    PROVE  LET g == SubSeq(f, 1, n) IN
           /\ g \in Frames /\ Len(g) = n /\ Rows(g) = 1..n /\ n \in 1..Len(f)
           /\ \A i \in 1..n : g[i] = f[i]
           /\ Column(g, "high") = Cut(Column(f, "high"), n)
           /\ Column(g, "low") = Cut(Column(f, "low"), n)
           /\ Column(g, "close") = Cut(Column(f, "close"), n)
           /\ Column(g, "a") = Cut(Column(f, "a"), n)
           /\ Column(g, "b") = Cut(Column(f, "b"), n)
           /\ \A c \in Int : Same(g, c) = Cut(Same(f, c), n)
<1> DEFINE g == SubSeq(f, 1, n)
<1>1. /\ Len(f) \in Nat /\ Rows(f) = 1..Len(f)
      /\ \A i \in 1..Len(f) : f[i] \in TallCandles \cup FlatCandles
  BY FrameColumns
<1>2. /\ g \in Seq(TallCandles \cup FlatCandles) /\ Len(g) = n
      /\ \A i \in 1..n : g[i] = f[i]
  <2>1. n \in Int /\ \A i \in 1..n : f[i] \in TallCandles \cup FlatCandles
    BY <1>1
  <2>2. /\ g \in Seq(TallCandles \cup FlatCandles)
        /\ Len(g) = IF 1 <= n THEN n - 1 + 1 ELSE 0
        /\ \A i \in 1..(n - 1 + 1) : g[i] = f[1 + i - 1]
    BY <2>1, SubSeqProperties
  <2> HIDE DEF g
  <2> QED BY <2>1, <2>2
<1> HIDE DEF g
<1>3. Rows(g) = 1..n /\ g \in Frames
  BY <1>2 DEF Rows, Frames
<1>4. ASSUME NEW name PROVE Column(g, name) = Cut(Column(f, name), n)
  BY <1>1, <1>2, <1>3 DEF Column, Cut
<1>5. \A c \in Int : Same(g, c) = Cut(Same(f, c), n)
  BY <1>1, <1>3 DEF Same, Cut
<1> QED BY <1>2, <1>3, <1>4, <1>5 DEF g

LEMMA CutWindow ==
    ASSUME NEW m \in Nat, NEW x, DOMAIN x = 1..m, NEW n \in 1..m, NEW w \in Nat \ {0}
    PROVE  /\ Highest(Cut(x, n), w) = Cut(Highest(x, w), n)
           /\ Lowest(Cut(x, n), w) = Cut(Lowest(x, w), n)
<1>1. DOMAIN Cut(x, n) = 1..n /\ \A j \in 1..n : Cut(x, n)[j] = x[j]
  BY DEF Cut
<1>2. ASSUME NEW i \in 1..n
      PROVE  /\ Highest(Cut(x, n), w)[i] = Highest(x, w)[i]
             /\ Lowest(Cut(x, n), w)[i] = Lowest(x, w)[i]
  <2>1. i >= w => {Cut(x, n)[j] : j \in (i - w + 1)..i} = {x[j] : j \in (i - w + 1)..i}
    <3> SUFFICES ASSUME i >= w PROVE \A j \in (i - w + 1)..i : Cut(x, n)[j] = x[j]
      OBVIOUS
    <3>1. \A j \in (i - w + 1)..i : j \in 1..n
      OBVIOUS
    <3> QED BY <1>1, <3>1
  <2>2. i \in 1..m /\ (i < w \/ i >= w)
    OBVIOUS
  <2>3. /\ Highest(Cut(x, n), w)[i] =
             IF i < w THEN NaN ELSE Max({Cut(x, n)[j] : j \in (i - w + 1)..i})
        /\ Lowest(Cut(x, n), w)[i] =
             IF i < w THEN NaN ELSE Min({Cut(x, n)[j] : j \in (i - w + 1)..i})
    BY <1>1 DEF Highest, Lowest
  <2>4. /\ Highest(x, w)[i] = IF i < w THEN NaN ELSE Max({x[j] : j \in (i - w + 1)..i})
        /\ Lowest(x, w)[i] = IF i < w THEN NaN ELSE Min({x[j] : j \in (i - w + 1)..i})
    BY <2>2 DEF Highest, Lowest
  <2>5. CASE i < w
    BY <2>3, <2>4, <2>5
  <2>6. CASE i >= w
    <3>1. ~(i < w)
      BY <2>6
    <3> QED BY <2>1, <2>3, <2>4, <2>6, <3>1
  <2> QED BY <2>2, <2>5, <2>6
<1>4. /\ Highest(Cut(x, n), w) = [i \in 1..n |-> Highest(Cut(x, n), w)[i]]
      /\ Lowest(Cut(x, n), w) = [i \in 1..n |-> Lowest(Cut(x, n), w)[i]]
  BY <1>1 DEF Highest, Lowest
<1> QED BY <1>2, <1>4 DEF Cut

LEMMA CutColumn ==
    ASSUME NEW m \in Nat, NEW x, DOMAIN x = 1..m, NEW n \in 1..m
    PROVE  /\ DOMAIN Cut(x, n) = 1..n /\ \A i \in 1..n : Cut(x, n)[i] = x[i]
           /\ DOMAIN Shift(x) = 1..m /\ Shift(Cut(x, n)) = Cut(Shift(x), n)
           /\ DOMAIN ForwardFill(x) = 1..m /\ ForwardFill(Cut(x, n)) = Cut(ForwardFill(x), n)
<1>1. DOMAIN Cut(x, n) = 1..n /\ \A i \in 1..n : Cut(x, n)[i] = x[i]
  BY DEF Cut
<1>2. DOMAIN Shift(x) = 1..m /\ Shift(Cut(x, n)) = Cut(Shift(x), n)
  BY DEF Shift, Cut
<1>3. DOMAIN ForwardFill(x) = 1..m
  BY DEF ForwardFill
<1>4. ASSUME NEW i \in 1..n PROVE ForwardFill(Cut(x, n))[i] = ForwardFill(x)[i]
  <2>1. {j \in 1..i : Cut(x, n)[j] # NaN} = {j \in 1..i : x[j] # NaN}
    BY <1>1
  <2> DEFINE known == {j \in 1..i : x[j] # NaN}
  <2>2. known # {} => Max(known) \in known
    <3>1. known \in SUBSET Nat /\ i \in Nat /\ \A k \in known : k <= i
      OBVIOUS
    <3> HIDE DEF known
    <3> QED BY <3>1, GreatestNumber
  <2>3. known # {} => Cut(x, n)[Max(known)] = x[Max(known)]
    BY <1>1, <2>2
  <2>4. ForwardFill(x)[i] = IF known = {} THEN NaN ELSE x[Max(known)]
    BY DEF ForwardFill
  <2>5. ForwardFill(Cut(x, n))[i] = IF known = {} THEN NaN ELSE Cut(x, n)[Max(known)]
    BY <1>1, <2>1 DEF ForwardFill
  <2> QED BY <2>3, <2>4, <2>5
<1>5. ForwardFill(Cut(x, n)) = [i \in 1..n |-> ForwardFill(Cut(x, n))[i]]
  BY <1>1 DEF ForwardFill
<1>6. ForwardFill(Cut(x, n)) = Cut(ForwardFill(x), n)
  BY <1>4, <1>5 DEF Cut
<1> QED BY <1>1, <1>2, <1>3, <1>6

LEMMA CutColumns ==
    ASSUME NEW m \in Nat, NEW x, DOMAIN x = 1..m, NEW y, DOMAIN y = 1..m, NEW n \in 1..m
    PROVE  /\ Above(Cut(x, n), Cut(y, n)) = Above(x, y) \cap (1..n)
           /\ AtLeast(Cut(x, n), Cut(y, n)) = AtLeast(x, y) \cap (1..n)
           /\ CrossesAbove(Cut(x, n), Cut(y, n)) = CrossesAbove(x, y) \cap (1..n)
           /\ DOMAIN Rowwise(Plus, x, y) = 1..m
           /\ DOMAIN Rowwise(Minus, x, y) = 1..m
           /\ DOMAIN Rowwise(CloudTop, x, y) = 1..m
           /\ DOMAIN Rowwise(CloudBottom, x, y) = 1..m
           /\ Rowwise(Plus, Cut(x, n), Cut(y, n)) = Cut(Rowwise(Plus, x, y), n)
           /\ Rowwise(Minus, Cut(x, n), Cut(y, n)) = Cut(Rowwise(Minus, x, y), n)
           /\ Rowwise(CloudTop, Cut(x, n), Cut(y, n)) = Cut(Rowwise(CloudTop, x, y), n)
           /\ Rowwise(CloudBottom, Cut(x, n), Cut(y, n)) = Cut(Rowwise(CloudBottom, x, y), n)
<1>1. /\ DOMAIN Cut(x, n) = 1..n /\ \A i \in 1..n : Cut(x, n)[i] = x[i]
      /\ DOMAIN Cut(y, n) = 1..n /\ \A i \in 1..n : Cut(y, n)[i] = y[i]
  BY DEF Cut
<1>2. \A i \in 1..n : /\ Shift(Cut(x, n))[i] = Shift(x)[i]
                      /\ Shift(Cut(y, n))[i] = Shift(y)[i]
  <2>1. Shift(Cut(x, n)) = Cut(Shift(x), n) /\ Shift(Cut(y, n)) = Cut(Shift(y), n)
    BY CutColumn
  <2>2. \A i \in 1..n : /\ Cut(Shift(x), n)[i] = Shift(x)[i]
                        /\ Cut(Shift(y), n)[i] = Shift(y)[i]
    BY DEF Cut
  <2> QED BY <2>1, <2>2
<1>3. 1..n \subseteq 1..m
  OBVIOUS
<1>4. /\ Above(Cut(x, n), Cut(y, n)) = Above(x, y) \cap (1..n)
      /\ AtLeast(Cut(x, n), Cut(y, n)) = AtLeast(x, y) \cap (1..n)
  BY <1>1, <1>3 DEF Above, AtLeast
<1>5. CrossesAbove(Cut(x, n), Cut(y, n)) = CrossesAbove(x, y) \cap (1..n)
  BY <1>1, <1>2, <1>3 DEF CrossesAbove
<1>6. /\ DOMAIN Rowwise(Plus, x, y) = 1..m
      /\ DOMAIN Rowwise(Minus, x, y) = 1..m
      /\ DOMAIN Rowwise(CloudTop, x, y) = 1..m
      /\ DOMAIN Rowwise(CloudBottom, x, y) = 1..m
  BY DEF Rowwise
<1>7. Rowwise(Plus, Cut(x, n), Cut(y, n)) = Cut(Rowwise(Plus, x, y), n)
  BY <1>1, <1>3 DEF Rowwise, Cut
<1>8. Rowwise(Minus, Cut(x, n), Cut(y, n)) = Cut(Rowwise(Minus, x, y), n)
  BY <1>1, <1>3 DEF Rowwise, Cut
<1>9. Rowwise(CloudTop, Cut(x, n), Cut(y, n)) = Cut(Rowwise(CloudTop, x, y), n)
  BY <1>1, <1>3 DEF Rowwise, Cut
<1>10. Rowwise(CloudBottom, Cut(x, n), Cut(y, n)) = Cut(Rowwise(CloudBottom, x, y), n)
  BY <1>1, <1>3 DEF Rowwise, Cut
<1> QED BY <1>4, <1>5, <1>6, <1>7, <1>8, <1>9, <1>10

\* The marks up to row n.
Limited(m, n) ==
    Marks(m.enter_long \cap (1..n), m.enter_short \cap (1..n),
          m.exit_long \cap (1..n), m.exit_short \cap (1..n))

LEMMA MarksLimited ==
    ASSUME NEW n, NEW long, NEW short, NEW leaveLong, NEW leaveShort
    PROVE  Limited(Marks(long, short, leaveLong, leaveShort), n) =
             Marks(long \cap (1..n), short \cap (1..n),
                   leaveLong \cap (1..n), leaveShort \cap (1..n))
BY DEF Limited, Marks

\* The comparisons of two columns, cut.
LEMMA CutComparisons ==
    ASSUME NEW f \in Frames, NEW n \in 1..Len(f),
           NEW x, DOMAIN x = 1..Len(f), NEW y, DOMAIN y = 1..Len(f)
    PROVE  /\ Above(Cut(x, n), Cut(y, n)) = Above(x, y) \cap (1..n)
           /\ AtLeast(Cut(x, n), Cut(y, n)) = AtLeast(x, y) \cap (1..n)
           /\ CrossesAbove(Cut(x, n), Cut(y, n)) = CrossesAbove(x, y) \cap (1..n)
<1>1. Len(f) \in Nat
  BY FrameColumns
<1> QED BY <1>1, CutColumns

\* The columns of a frame and of its first n candles.
LEMMA CutShape ==
    ASSUME NEW f \in Frames, NEW n \in 1..Len(f)
    PROVE  /\ Len(f) \in Nat
           /\ \A name \in {"high", "low", "close", "a", "b"} :
                /\ DOMAIN Column(f, name) = 1..Len(f)
                /\ Column(SubSeq(f, 1, n), name) = Cut(Column(f, name), n)
           /\ \A c \in Int : /\ DOMAIN Same(f, c) = 1..Len(f)
                             /\ Same(SubSeq(f, 1, n), c) = Cut(Same(f, c), n)
<1>1. Len(f) \in Nat /\ Rows(f) = 1..Len(f)
  BY FrameColumns
<1>2. /\ \A name : DOMAIN Column(f, name) = 1..Len(f)
      /\ \A c : DOMAIN Same(f, c) = 1..Len(f)
  BY <1>1 DEF Column, Same
<1> QED BY <1>1, <1>2, CutFrame

LEMMA AroonCut ==
    ASSUME NEW f \in Frames, NEW n \in 1..Len(f)
    PROVE  Aroon(SubSeq(f, 1, n)) = Limited(Aroon(f), n)
<1> DEFINE g == SubSeq(f, 1, n)
           up == Column(f, "a")
           down == Column(f, "b")
           thr == Same(f, Threshold)
           upN == Column(g, "a")
           downN == Column(g, "b")
           thrN == Same(g, Threshold)
<1>1. /\ Len(f) \in Nat /\ DOMAIN up = 1..Len(f) /\ DOMAIN down = 1..Len(f)
      /\ DOMAIN thr = 1..Len(f)
      /\ upN = Cut(up, n) /\ downN = Cut(down, n) /\ thrN = Cut(thr, n)
  BY CutShape, SignalsAssumption
<1>2. Aroon(f) = Marks(CrossesAbove(up, down) \cap Above(up, thr) \cap Above(thr, down),
                       CrossesAbove(down, up) \cap Above(down, thr) \cap Above(thr, up),
                       Above(thr, up) \cup CrossesAbove(down, up),
                       Above(thr, down) \cup CrossesAbove(up, down))
  BY DEF Aroon
<1>3. Aroon(g) = Marks(CrossesAbove(upN, downN) \cap Above(upN, thrN) \cap Above(thrN, downN),
                       CrossesAbove(downN, upN) \cap Above(downN, thrN) \cap Above(thrN, upN),
                       Above(thrN, upN) \cup CrossesAbove(downN, upN),
                       Above(thrN, downN) \cup CrossesAbove(upN, downN))
  BY DEF Aroon
<1> HIDE DEF up, down, thr, upN, downN, thrN
<1>4. /\ CrossesAbove(upN, downN) = CrossesAbove(up, down) \cap (1..n)
      /\ CrossesAbove(downN, upN) = CrossesAbove(down, up) \cap (1..n)
      /\ Above(upN, thrN) = Above(up, thr) \cap (1..n)
      /\ Above(thrN, upN) = Above(thr, up) \cap (1..n)
      /\ Above(downN, thrN) = Above(down, thr) \cap (1..n)
      /\ Above(thrN, downN) = Above(thr, down) \cap (1..n)
  <2>1. /\ CrossesAbove(upN, downN) = CrossesAbove(up, down) \cap (1..n)
        /\ CrossesAbove(downN, upN) = CrossesAbove(down, up) \cap (1..n)
    BY <1>1, CutComparisons
  <2>2. Above(upN, thrN) = Above(up, thr) \cap (1..n)
    BY <1>1, CutComparisons
  <2>3. Above(thrN, upN) = Above(thr, up) \cap (1..n)
    BY <1>1, CutComparisons
  <2>4. Above(downN, thrN) = Above(down, thr) \cap (1..n)
    BY <1>1, CutComparisons
  <2>5. Above(thrN, downN) = Above(thr, down) \cap (1..n)
    BY <1>1, CutComparisons
  <2> QED BY <2>1, <2>2, <2>3, <2>4, <2>5
<1>5. \A A, B, C : /\ (A \cap (1..n)) \cap (B \cap (1..n)) \cap (C \cap (1..n)) = (A \cap B \cap C) \cap (1..n)
                   /\ (A \cap (1..n)) \cup (B \cap (1..n)) = (A \cup B) \cap (1..n)
  OBVIOUS
<1> QED BY <1>2, <1>3, <1>4, <1>5, MarksLimited

\* Bollinger and Keltner: bands around a middle.
LEMMA BandsCut ==
    ASSUME NEW f \in Frames, NEW n \in 1..Len(f)
    PROVE  /\ Bollinger(SubSeq(f, 1, n)) = Limited(Bollinger(f), n)
           /\ Keltner(SubSeq(f, 1, n)) = Limited(Keltner(f), n)
<1> DEFINE g == SubSeq(f, 1, n)
           close == Column(f, "close")
           mid == Column(f, "a")
           width == Column(f, "b")
           lower == Rowwise(Minus, mid, width)
           upper == Rowwise(Plus, mid, width)
           closeN == Column(g, "close")
           midN == Column(g, "a")
           widthN == Column(g, "b")
           lowerN == Rowwise(Minus, midN, widthN)
           upperN == Rowwise(Plus, midN, widthN)
<1>1. /\ Len(f) \in Nat /\ DOMAIN close = 1..Len(f) /\ DOMAIN mid = 1..Len(f)
      /\ DOMAIN width = 1..Len(f)
      /\ closeN = Cut(close, n) /\ midN = Cut(mid, n) /\ widthN = Cut(width, n)
  BY CutShape
<1>2. /\ Bollinger(f) = Marks(Above(lower, close), Above(close, upper),
                              AtLeast(close, mid), AtLeast(mid, close))
      /\ Bollinger(g) = Marks(Above(lowerN, closeN), Above(closeN, upperN),
                              AtLeast(closeN, midN), AtLeast(midN, closeN))
  BY DEF Bollinger
<1>3. /\ Keltner(f) = Marks(Above(close, upper), Above(lower, close),
                            AtLeast(mid, close), AtLeast(close, mid))
      /\ Keltner(g) = Marks(Above(closeN, upperN), Above(lowerN, closeN),
                            AtLeast(midN, closeN), AtLeast(closeN, midN))
  BY DEF Keltner
<1> HIDE DEF close, mid, width, closeN, midN, widthN
<1>4. /\ DOMAIN lower = 1..Len(f) /\ DOMAIN upper = 1..Len(f)
      /\ lowerN = Cut(lower, n) /\ upperN = Cut(upper, n)
  BY <1>1, CutColumns
<1> HIDE DEF lower, upper, lowerN, upperN
<1>5. /\ Above(lowerN, closeN) = Above(lower, close) \cap (1..n)
      /\ Above(closeN, upperN) = Above(close, upper) \cap (1..n)
      /\ AtLeast(closeN, midN) = AtLeast(close, mid) \cap (1..n)
      /\ AtLeast(midN, closeN) = AtLeast(mid, close) \cap (1..n)
  BY <1>1, <1>4, CutColumns
<1>6. Bollinger(g) = Limited(Bollinger(f), n)
  BY <1>2, <1>5 DEF Limited, Marks
<1>7. Keltner(g) = Limited(Keltner(f), n)
  BY <1>3, <1>5 DEF Limited, Marks
<1> QED BY <1>6, <1>7

LEMMA CrossingCut ==
    ASSUME NEW f \in Frames, NEW n \in 1..Len(f)
    PROVE  /\ Macd(SubSeq(f, 1, n)) = Limited(Macd(f), n)
           /\ Sar(SubSeq(f, 1, n)) = Limited(Sar(f), n)
<1>1. ASSUME NEW x, NEW y, DOMAIN x = 1..Len(f), DOMAIN y = 1..Len(f)
      PROVE  Crossing(Cut(x, n), Cut(y, n)) = Limited(Crossing(x, y), n)
  <2>1. /\ CrossesAbove(Cut(x, n), Cut(y, n)) = CrossesAbove(x, y) \cap (1..n)
        /\ CrossesAbove(Cut(y, n), Cut(x, n)) = CrossesAbove(y, x) \cap (1..n)
    BY <1>1, CutComparisons
  <2> QED BY <2>1, MarksLimited DEF Crossing
<1> DEFINE g == SubSeq(f, 1, n)
<1>2. /\ DOMAIN Column(f, "a") = 1..Len(f) /\ Column(g, "a") = Cut(Column(f, "a"), n)
      /\ DOMAIN Column(f, "b") = 1..Len(f) /\ Column(g, "b") = Cut(Column(f, "b"), n)
      /\ DOMAIN Column(f, "close") = 1..Len(f)
      /\ Column(g, "close") = Cut(Column(f, "close"), n)
  BY CutShape
<1>3. Macd(g) = Limited(Macd(f), n)
  BY <1>1, <1>2 DEF Macd
<1>4. Sar(g) = Limited(Sar(f), n)
  BY <1>1, <1>2 DEF Sar
<1> QED BY <1>3, <1>4

LEMMA RsiCut ==
    ASSUME NEW f \in Frames, NEW n \in 1..Len(f)
    PROVE  Rsi(SubSeq(f, 1, n)) = Limited(Rsi(f), n)
<1> DEFINE g == SubSeq(f, 1, n)
           rsi == Column(f, "a")
           low == Same(f, Oversold)
           mid == Same(f, ExitLevel)
           high == Same(f, Overbought)
           rsiN == Column(g, "a")
           lowN == Same(g, Oversold)
           midN == Same(g, ExitLevel)
           highN == Same(g, Overbought)
<1>1. /\ Len(f) \in Nat /\ DOMAIN rsi = 1..Len(f) /\ DOMAIN low = 1..Len(f)
      /\ DOMAIN mid = 1..Len(f) /\ DOMAIN high = 1..Len(f)
      /\ rsiN = Cut(rsi, n) /\ lowN = Cut(low, n) /\ midN = Cut(mid, n) /\ highN = Cut(high, n)
  BY CutShape, SignalsAssumption
<1>2. /\ Rsi(f) = Marks(Above(low, rsi), Above(rsi, high), AtLeast(rsi, mid), AtLeast(mid, rsi))
      /\ Rsi(g) = Marks(Above(lowN, rsiN), Above(rsiN, highN), AtLeast(rsiN, midN),
                        AtLeast(midN, rsiN))
  BY DEF Rsi
<1> HIDE DEF rsi, low, mid, high, rsiN, lowN, midN, highN
<1>3. /\ Above(lowN, rsiN) = Above(low, rsi) \cap (1..n)
      /\ Above(rsiN, highN) = Above(rsi, high) \cap (1..n)
      /\ AtLeast(rsiN, midN) = AtLeast(rsi, mid) \cap (1..n)
      /\ AtLeast(midN, rsiN) = AtLeast(mid, rsi) \cap (1..n)
  BY <1>1, CutColumns
<1> QED BY <1>2, <1>3 DEF Limited, Marks

LEMMA StochasticCut ==
    ASSUME NEW f \in Frames, NEW n \in 1..Len(f)
    PROVE  Stochastic(SubSeq(f, 1, n)) = Limited(Stochastic(f), n)
<1> DEFINE g == SubSeq(f, 1, n)
           k == Column(f, "a")
           d == Column(f, "b")
           low == Same(f, Oversold)
           mid == Same(f, ExitLevel)
           high == Same(f, Overbought)
           kN == Column(g, "a")
           dN == Column(g, "b")
           lowN == Same(g, Oversold)
           midN == Same(g, ExitLevel)
           highN == Same(g, Overbought)
<1>1. /\ Len(f) \in Nat /\ DOMAIN k = 1..Len(f) /\ DOMAIN d = 1..Len(f)
      /\ DOMAIN low = 1..Len(f) /\ DOMAIN mid = 1..Len(f) /\ DOMAIN high = 1..Len(f)
      /\ kN = Cut(k, n) /\ dN = Cut(d, n)
      /\ lowN = Cut(low, n) /\ midN = Cut(mid, n) /\ highN = Cut(high, n)
  BY CutShape, SignalsAssumption
<1>2. /\ Stochastic(f) = Marks(CrossesAbove(k, d) \cap Above(low, k),
                               CrossesAbove(d, k) \cap Above(k, high),
                               AtLeast(k, mid), AtLeast(mid, k))
      /\ Stochastic(g) = Marks(CrossesAbove(kN, dN) \cap Above(lowN, kN),
                               CrossesAbove(dN, kN) \cap Above(kN, highN),
                               AtLeast(kN, midN), AtLeast(midN, kN))
  BY DEF Stochastic
<1> HIDE DEF k, d, low, mid, high, kN, dN, lowN, midN, highN
<1>3. /\ CrossesAbove(kN, dN) = CrossesAbove(k, d) \cap (1..n)
      /\ CrossesAbove(dN, kN) = CrossesAbove(d, k) \cap (1..n)
      /\ Above(lowN, kN) = Above(low, k) \cap (1..n)
      /\ Above(kN, highN) = Above(k, high) \cap (1..n)
      /\ AtLeast(kN, midN) = AtLeast(k, mid) \cap (1..n)
      /\ AtLeast(midN, kN) = AtLeast(mid, k) \cap (1..n)
  BY <1>1, CutComparisons
<1>4. \A A, B : (A \cap (1..n)) \cap (B \cap (1..n)) = (A \cap B) \cap (1..n)
  OBVIOUS
<1> QED BY <1>2, <1>3, <1>4, MarksLimited

LEMMA TurtleCut ==
    ASSUME NEW f \in Frames, NEW n \in 1..Len(f)
    PROVE  Turtle(SubSeq(f, 1, n)) = Limited(Turtle(f), n)
<1> DEFINE g == SubSeq(f, 1, n)
           close == Column(f, "close")
           high == Column(f, "high")
           low == Column(f, "low")
           H(w) == Shift(Highest(high, w))
           L(w) == Shift(Lowest(low, w))
           closeN == Column(g, "close")
           highN == Column(g, "high")
           lowN == Column(g, "low")
           HN(w) == Shift(Highest(highN, w))
           LN(w) == Shift(Lowest(lowN, w))
<1>1. /\ Len(f) \in Nat /\ DOMAIN close = 1..Len(f) /\ closeN = Cut(close, n)
      /\ DOMAIN high = 1..Len(f) /\ highN = Cut(high, n)
      /\ DOMAIN low = 1..Len(f) /\ lowN = Cut(low, n)
  BY CutShape
<1>2. /\ Turtle(f) = Marks(Above(close, H(Fast)) \cup Above(close, H(Slow)),
                           Above(L(Fast), close) \cup Above(L(Slow), close),
                           Above(L(Exit), close), Above(close, H(Exit)))
      /\ Turtle(g) = Marks(Above(closeN, HN(Fast)) \cup Above(closeN, HN(Slow)),
                           Above(LN(Fast), closeN) \cup Above(LN(Slow), closeN),
                           Above(LN(Exit), closeN), Above(closeN, HN(Exit)))
  BY DEF Turtle
<1> HIDE DEF close, high, low, closeN, highN, lowN
<1>3. ASSUME NEW w \in {Fast, Slow, Exit}
      PROVE  /\ Above(closeN, HN(w)) = Above(close, H(w)) \cap (1..n)
             /\ Above(LN(w), closeN) = Above(L(w), close) \cap (1..n)
  <2>1. w \in Nat \ {0}
    BY SignalsAssumption
  <2>2. /\ DOMAIN Highest(high, w) = 1..Len(f) /\ Highest(highN, w) = Cut(Highest(high, w), n)
        /\ DOMAIN Lowest(low, w) = 1..Len(f) /\ Lowest(lowN, w) = Cut(Lowest(low, w), n)
    <3>1. /\ Highest(highN, w) = Cut(Highest(high, w), n)
          /\ Lowest(lowN, w) = Cut(Lowest(low, w), n)
      BY <1>1, <2>1, CutWindow
    <3>2. DOMAIN Highest(high, w) = 1..Len(f) /\ DOMAIN Lowest(low, w) = 1..Len(f)
      BY <1>1 DEF Highest, Lowest
    <3> QED BY <3>1, <3>2
  <2>3. /\ DOMAIN H(w) = 1..Len(f) /\ HN(w) = Cut(H(w), n)
        /\ DOMAIN L(w) = 1..Len(f) /\ LN(w) = Cut(L(w), n)
    BY <1>1, <2>2, CutColumn
  <2> HIDE DEF H, HN, L, LN
  <2> QED BY <1>1, <2>3, CutColumns
<1> HIDE DEF H, HN, L, LN
<1>4. /\ Above(closeN, HN(Fast)) = Above(close, H(Fast)) \cap (1..n)
      /\ Above(closeN, HN(Slow)) = Above(close, H(Slow)) \cap (1..n)
      /\ Above(closeN, HN(Exit)) = Above(close, H(Exit)) \cap (1..n)
      /\ Above(LN(Fast), closeN) = Above(L(Fast), close) \cap (1..n)
      /\ Above(LN(Slow), closeN) = Above(L(Slow), close) \cap (1..n)
      /\ Above(LN(Exit), closeN) = Above(L(Exit), close) \cap (1..n)
  BY <1>3
<1>5. \A A, B : (A \cap (1..n)) \cup (B \cap (1..n)) = (A \cup B) \cap (1..n)
  OBVIOUS
<1> QED BY <1>2, <1>4, <1>5, MarksLimited

LEMMA Nr7Cut ==
    ASSUME NEW f \in Frames, NEW n \in 1..Len(f)
    PROVE  Nr7(SubSeq(f, 1, n)) = Limited(Nr7(f), n)
<1> DEFINE g == SubSeq(f, 1, n)
           close == Column(f, "close")
           range == Rowwise(Minus, Column(f, "high"), Column(f, "low"))
           narrow == {i \in Rows(f) : range[i] = Lowest(range, Narrow)[i]}
           Gaps(name) == [i \in Rows(f) |-> IF i \in narrow THEN f[i][name] ELSE NaN]
           H == Shift(ForwardFill(Gaps("high")))
           L == Shift(ForwardFill(Gaps("low")))
           closeN == Column(g, "close")
           rangeN == Rowwise(Minus, Column(g, "high"), Column(g, "low"))
           narrowN == {i \in Rows(g) : rangeN[i] = Lowest(rangeN, Narrow)[i]}
           GapsN(name) == [i \in Rows(g) |-> IF i \in narrowN THEN g[i][name] ELSE NaN]
           HN == Shift(ForwardFill(GapsN("high")))
           LN == Shift(ForwardFill(GapsN("low")))
<1>1. /\ Nr7(f) = Marks(Above(close, H), Above(L, close), Above(L, close), Above(close, H))
      /\ Nr7(g) = Marks(Above(closeN, HN), Above(LN, closeN), Above(LN, closeN), Above(closeN, HN))
  BY DEF Nr7
<1>2. /\ Len(f) \in Nat /\ DOMAIN close = 1..Len(f) /\ closeN = Cut(close, n)
      /\ Rows(f) = 1..Len(f) /\ Rows(g) = 1..n /\ \A i \in 1..n : g[i] = f[i]
  BY CutShape, CutFrame, FrameColumns
<1>3. DOMAIN range = 1..Len(f) /\ rangeN = Cut(range, n)
  BY CutShape, CutColumns
<1> HIDE DEF g, range, rangeN, close, closeN
<1>4. narrowN = narrow \cap (1..n)
  <2>1. Lowest(rangeN, Narrow) = Cut(Lowest(range, Narrow), n)
    BY <1>2, <1>3, CutWindow, SignalsAssumption
  <2>2. \A i \in 1..n : /\ rangeN[i] = range[i]
                        /\ Lowest(rangeN, Narrow)[i] = Lowest(range, Narrow)[i]
    BY <1>3, <2>1 DEF Cut
  <2>3. 1..n \subseteq 1..Len(f)
    BY <1>2
  <2> QED BY <1>2, <2>2, <2>3
<1> HIDE DEF narrow, narrowN
<1>5. ASSUME NEW name
      PROVE  DOMAIN Gaps(name) = 1..Len(f) /\ GapsN(name) = Cut(Gaps(name), n)
  BY <1>2, <1>4 DEF Cut
<1> HIDE DEF Gaps, GapsN
<1>6. /\ DOMAIN H = 1..Len(f) /\ HN = Cut(H, n)
      /\ DOMAIN L = 1..Len(f) /\ LN = Cut(L, n)
  <2>1. ASSUME NEW name
        PROVE  /\ DOMAIN Shift(ForwardFill(Gaps(name))) = 1..Len(f)
               /\ Shift(ForwardFill(GapsN(name))) = Cut(Shift(ForwardFill(Gaps(name))), n)
    <3>1. /\ DOMAIN ForwardFill(Gaps(name)) = 1..Len(f)
          /\ ForwardFill(GapsN(name)) = Cut(ForwardFill(Gaps(name)), n)
      BY <1>2, <1>5, CutColumn
    <3> QED BY <1>2, <3>1, CutColumn
  <2> QED BY <2>1
<1> HIDE DEF H, L, HN, LN
<1>7. /\ Above(closeN, HN) = Above(close, H) \cap (1..n)
      /\ Above(LN, closeN) = Above(L, close) \cap (1..n)
  BY <1>2, <1>6, CutColumns
<1> QED BY <1>1, <1>7 DEF Limited, Marks, g

LEMMA MiddleCut ==
    ASSUME NEW f \in Frames, NEW n \in 1..Len(f), NEW w \in Nat \ {0}
    PROVE  /\ DOMAIN Middle(f, w) = 1..Len(f)
           /\ Middle(SubSeq(f, 1, n), w) = Cut(Middle(f, w), n)
<1> DEFINE g == SubSeq(f, 1, n)
           high == Column(f, "high")
           low == Column(f, "low")
<1>1. /\ Len(f) \in Nat /\ DOMAIN high = 1..Len(f) /\ DOMAIN low = 1..Len(f)
      /\ Column(g, "high") = Cut(high, n) /\ Column(g, "low") = Cut(low, n)
  BY CutShape
<1>2. /\ Middle(f, w) = Rowwise(Plus, Highest(high, w), Lowest(low, w))
      /\ Middle(g, w) = Rowwise(Plus, Highest(Cut(high, n), w), Lowest(Cut(low, n), w))
  BY <1>1 DEF Middle
<1> HIDE DEF high, low, g
<1>3. /\ DOMAIN Highest(high, w) = 1..Len(f) /\ DOMAIN Lowest(low, w) = 1..Len(f)
      /\ Highest(Cut(high, n), w) = Cut(Highest(high, w), n)
      /\ Lowest(Cut(low, n), w) = Cut(Lowest(low, w), n)
  <2>1. DOMAIN Highest(high, w) = 1..Len(f) /\ DOMAIN Lowest(low, w) = 1..Len(f)
    BY <1>1 DEF Highest, Lowest
  <2>2. /\ Highest(Cut(high, n), w) = Cut(Highest(high, w), n)
        /\ Lowest(Cut(low, n), w) = Cut(Lowest(low, w), n)
    BY <1>1, CutWindow
  <2> QED BY <2>1, <2>2
<1>4. /\ DOMAIN Middle(f, w) = 1..Len(f)
      /\ Middle(g, w) = Cut(Middle(f, w), n)
  BY <1>1, <1>2, <1>3, CutColumns
<1> QED BY <1>4 DEF g

LEMMA IchimokuCut ==
    ASSUME NEW f \in Frames, NEW n \in 1..Len(f)
    PROVE  Ichimoku(SubSeq(f, 1, n)) = Limited(Ichimoku(f), n)
<1> DEFINE g == SubSeq(f, 1, n)
           tenkan == Middle(f, Tenkan)
           kijun == Middle(f, Kijun)
           spanA == Rowwise(Plus, tenkan, kijun)
           spanB == [i \in Rows(f) |-> Times(2, Middle(f, SenkouB)[i])]
           close2 == [i \in Rows(f) |-> 2 * f[i].close]
           close4 == [i \in Rows(f) |-> 4 * f[i].close]
           top == Rowwise(CloudTop, spanA, spanB)
           bottom == Rowwise(CloudBottom, spanA, spanB)
           tenkanN == Middle(g, Tenkan)
           kijunN == Middle(g, Kijun)
           spanAN == Rowwise(Plus, tenkanN, kijunN)
           spanBN == [i \in Rows(g) |-> Times(2, Middle(g, SenkouB)[i])]
           close2N == [i \in Rows(g) |-> 2 * g[i].close]
           close4N == [i \in Rows(g) |-> 4 * g[i].close]
           topN == Rowwise(CloudTop, spanAN, spanBN)
           bottomN == Rowwise(CloudBottom, spanAN, spanBN)
<1>1. Ichimoku(f) = Marks(Above(close4, top) \cap CrossesAbove(tenkan, kijun),
                          Above(bottom, close4) \cap CrossesAbove(kijun, tenkan),
                          Above(kijun, close2) \cup CrossesAbove(kijun, tenkan),
                          Above(close2, kijun) \cup CrossesAbove(tenkan, kijun))
  BY DEF Ichimoku
<1>2. Ichimoku(g) = Marks(Above(close4N, topN) \cap CrossesAbove(tenkanN, kijunN),
                          Above(bottomN, close4N) \cap CrossesAbove(kijunN, tenkanN),
                          Above(kijunN, close2N) \cup CrossesAbove(kijunN, tenkanN),
                          Above(close2N, kijunN) \cup CrossesAbove(tenkanN, kijunN))
  BY DEF Ichimoku
<1>3. /\ Len(f) \in Nat /\ Rows(f) = 1..Len(f) /\ Rows(g) = 1..n
      /\ \A i \in 1..n : g[i] = f[i]
  BY CutFrame, FrameColumns
<1>4. /\ DOMAIN tenkan = 1..Len(f) /\ tenkanN = Cut(tenkan, n)
      /\ DOMAIN kijun = 1..Len(f) /\ kijunN = Cut(kijun, n)
      /\ \A i \in 1..n : Middle(g, SenkouB)[i] = Middle(f, SenkouB)[i]
  <2>1. {Tenkan, Kijun, SenkouB} \subseteq Nat \ {0}
    BY SignalsAssumption
  <2>2. Middle(g, SenkouB) = Cut(Middle(f, SenkouB), n)
    BY <2>1, MiddleCut
  <2> QED BY <2>1, <2>2, MiddleCut DEF Cut
<1> HIDE DEF g, tenkan, kijun, tenkanN, kijunN
<1>5. /\ DOMAIN spanA = 1..Len(f) /\ spanAN = Cut(spanA, n)
  BY <1>3, <1>4, CutColumns
<1>6. /\ DOMAIN spanB = 1..Len(f) /\ spanBN = Cut(spanB, n)
      /\ DOMAIN close2 = 1..Len(f) /\ close2N = Cut(close2, n)
      /\ DOMAIN close4 = 1..Len(f) /\ close4N = Cut(close4, n)
  BY <1>3, <1>4 DEF Cut
<1> HIDE DEF spanA, spanB, spanAN, spanBN, close2, close4, close2N, close4N
<1>7. /\ DOMAIN top = 1..Len(f) /\ topN = Cut(top, n)
      /\ DOMAIN bottom = 1..Len(f) /\ bottomN = Cut(bottom, n)
  BY <1>3, <1>5, <1>6, CutColumns
<1> HIDE DEF top, bottom, topN, bottomN
<1>8. /\ CrossesAbove(tenkanN, kijunN) = CrossesAbove(tenkan, kijun) \cap (1..n)
      /\ CrossesAbove(kijunN, tenkanN) = CrossesAbove(kijun, tenkan) \cap (1..n)
      /\ Above(close4N, topN) = Above(close4, top) \cap (1..n)
      /\ Above(bottomN, close4N) = Above(bottom, close4) \cap (1..n)
      /\ Above(kijunN, close2N) = Above(kijun, close2) \cap (1..n)
      /\ Above(close2N, kijunN) = Above(close2, kijun) \cap (1..n)
  <2>1. n \in 1..Len(f) /\ Len(f) \in Nat
    BY <1>3
  <2>2. /\ CrossesAbove(tenkanN, kijunN) = CrossesAbove(tenkan, kijun) \cap (1..n)
        /\ CrossesAbove(kijunN, tenkanN) = CrossesAbove(kijun, tenkan) \cap (1..n)
    BY <1>4, <2>1, CutColumns
  <2>3. /\ Above(close4N, topN) = Above(close4, top) \cap (1..n)
        /\ Above(bottomN, close4N) = Above(bottom, close4) \cap (1..n)
    BY <1>6, <1>7, <2>1, CutColumns
  <2>4. /\ Above(kijunN, close2N) = Above(kijun, close2) \cap (1..n)
        /\ Above(close2N, kijunN) = Above(close2, kijun) \cap (1..n)
    <3>1. DOMAIN kijun = 1..Len(f) /\ kijunN = Cut(kijun, n)
      BY <1>4
    <3>2. DOMAIN close2 = 1..Len(f) /\ close2N = Cut(close2, n)
      BY <1>6
    <3> QED BY <2>1, <3>1, <3>2, CutColumns
  <2> QED BY <2>2, <2>3, <2>4
<1>9. \A A, B : /\ (A \cap (1..n)) \cap (B \cap (1..n)) = (A \cap B) \cap (1..n)
                /\ (A \cap (1..n)) \cup (B \cap (1..n)) = (A \cup B) \cap (1..n)
  OBVIOUS
<1>10. Ichimoku(g) = Limited(Ichimoku(f), n)
  BY <1>1, <1>2, <1>8, <1>9, MarksLimited
<1> QED BY <1>10 DEF g

LEMMA MarkedCut ==
    ASSUME NEW f \in Frames, NEW n \in 1..Len(f), NEW s \in Strategies
    PROVE  Marked(s, SubSeq(f, 1, n)) = Limited(Marked(s, f), n)
<1>1. CASE s \in {"macd", "sar"}
  BY <1>1, CrossingCut DEF Marked
<1>2. CASE s \in {"aroon", "bollinger", "keltner"}
  BY <1>2, AroonCut, BandsCut DEF Marked
<1>3. CASE s \in {"rsi", "stochastic"}
  BY <1>3, RsiCut, StochasticCut DEF Marked
<1>4. CASE s \in {"ichimoku", "nr7", "turtle"}
  BY <1>4, IchimokuCut, Nr7Cut, TurtleCut DEF Marked
<1> QED BY <1>1, <1>2, <1>3, <1>4 DEF Strategies

\* What a strategy leaves in the columns of the first candles is what it leaves there
\* in the columns of the whole frame.
LEMMA PopulatedCut ==
    ASSUME NEW f \in Frames, NEW n \in 1..Len(f), NEW s \in Strategies, NEW old
    PROVE  Populated(s, SubSeq(f, 1, n), old) = Limited(Populated(s, f, old), n)
<1> DEFINE g == SubSeq(f, 1, n)
           m == Marked(s, f)
           mN == Marked(s, g)
           traded == {i \in Rows(f) : f[i].volume > 0}
           tradedN == {i \in Rows(g) : g[i].volume > 0}
<1>1. mN = Limited(m, n)
  BY MarkedCut
<1>2. tradedN = traded \cap (1..n)
  <2>1. /\ Len(f) \in Nat /\ Rows(f) = 1..Len(f) /\ Rows(g) = 1..n
        /\ \A i \in 1..n : g[i] = f[i]
    BY CutFrame, FrameColumns
  <2> HIDE DEF g
  <2>2. 1..n \subseteq 1..Len(f)
    BY <2>1
  <2> QED BY <2>1, <2>2
<1> DEFINE P(mm, tt) == LET both == mm.enter_long \cap mm.enter_short IN
                        Marks((mm.enter_long \cap tt) \ both, (mm.enter_short \cap tt) \ both,
                              mm.exit_long \cap tt, mm.exit_short \cap tt)
<1>3. Populated(s, f, old) = P(m, traded) /\ Populated(s, g, old) = P(mN, tradedN)
  BY DEF Populated
<1> HIDE DEF m, mN, traded, tradedN
<1>4. P(Limited(m, n), traded \cap (1..n)) = Limited(P(m, traded), n)
  BY DEF Limited, Marks
<1> QED BY <1>1, <1>2, <1>3, <1>4

\* The signals the seeds record are, candle by candle, what a refresh at that time would
\* have published: for frames of any length no strategy uses a later candle.
THEOREM SeedsAreRealtime == SignalsSpec => []SeedsMatchRealtime
<1>1. ASSUME SignalsInv, ran # "none" PROVE SeedsMatchRealtime
  <2> DEFINE Known(i) == SubSeq(frame, 1, i)
             P == Populated(ran, frame, NoColumns)
             lively == [i \in Rows(frame) |->
                          Realtime(Populated(ran, Known(i), NoColumns), Known(i))]
  <2>1. ran \in Strategies /\ frame \in Frames /\ columns = P
    BY <1>1 DEF SignalsInv
  <2>2. Len(frame) \in Nat /\ Rows(frame) = 1..Len(frame)
    BY <2>1, FrameColumns
  <2>3. ASSUME NEW i \in Rows(frame)
        PROVE  lively[i] = [direction |-> Direction(P, i), entry |-> IsEntry(P, i)]
    <3>1. Populated(ran, Known(i), NoColumns) = Limited(P, i) /\ Len(Known(i)) = i
      BY <2>1, <2>2, <2>3, PopulatedCut, CutFrame
    <3>2. lively[i] = [direction |-> Direction(Limited(P, i), i),
                       entry |-> IsEntry(Limited(P, i), i)]
      BY <3>1 DEF Realtime
    <3>3. i \in 1..i
      BY <2>2
    <3>4. Direction(Limited(P, i), i) = Direction(P, i) /\ IsEntry(Limited(P, i), i) = IsEntry(P, i)
      <4> HIDE DEF P
      <4> QED BY <3>3 DEF Direction, IsEntry, Limited, Marks
    <3> QED BY <3>2, <3>4
  <2> HIDE DEF P
  <2>4. DOMAIN lively = Rows(frame)
    OBVIOUS
  <2> HIDE DEF lively
  <2> DEFINE Recorded == {j \in Rows(frame) :
                            /\ lively[j].direction # "hold"
                            /\ \/ j = 1
                               \/ lively[j - 1].direction # lively[j].direction}
  <2>5. Seeded(P, frame) = [i \in Recorded |-> lively[i]]
    <3>1. ASSUME NEW j \in Rows(frame) PROVE lively[j].direction = Direction(P, j)
      <4>1. lively[j] = [direction |-> Direction(P, j), entry |-> IsEntry(P, j)]
        BY <2>3
      <4> QED BY <4>1
    <3>2. ASSUME NEW j \in Rows(frame)
          PROVE  Remembered(P, frame)[j - 1] = IF j = 1 THEN "hold" ELSE Direction(P, j - 1)
      BY <2>2 DEF Remembered
    <3>3. ASSUME NEW j \in Rows(frame)
          PROVE  j \in Recorded <=> Direction(P, j) \notin {"hold", Remembered(P, frame)[j - 1]}
      <4>1. CASE j = 1
        BY <3>1, <3>2, <4>1
      <4>2. CASE j # 1
        <5>1. j - 1 \in Rows(frame)
          BY <2>2, <4>2
        <5>2. lively[j - 1].direction = Direction(P, j - 1)
          BY <3>1, <5>1
        <5> QED BY <3>1, <3>2, <4>2, <5>2
      <4> QED BY <4>1, <4>2
    <3>4. {j \in Rows(frame) : Direction(P, j) \notin {"hold", Remembered(P, frame)[j - 1]}} = Recorded
      BY <3>3
    <3> HIDE DEF Recorded
    <3>5. \A j \in Rows(frame) :
            lively[j] = [direction |-> Direction(P, j), entry |-> IsEntry(P, j)]
      BY <2>3
    <3>6. Recorded \subseteq Rows(frame)
      BY <3>4
    <3> QED BY <3>4, <3>5, <3>6 DEF Seeded
  <2>6. Seeded(columns, frame) = Seeded(P, frame)
    BY <2>1
  <2> QED BY <2>5, <2>6 DEF SeedsMatchRealtime, lively
<1>2. SignalsInv => SeedsMatchRealtime
  BY <1>1 DEF SeedsMatchRealtime
<1> QED BY <1>2, SignalsInductive, PTL

-----------------------------------------------------------------------------
(* Folds.  FoldLeft is a recursive function on the sets of positions; it   *)
(* exists because it can be built up one position after the other, and the *)
(* values on the first positions are what a loop over the sequence holds.  *)

\* g holds the values of a fold on the sets of a sequence's first n positions.
FoldOver(g, F, base, n, seq) ==
    \A s \in SUBSET (1..n) :
      g[s] = IF s = {} THEN base ELSE F[<<g[s \ {Max(s)}], seq[Max(s)]>>]

LEMMA FoldExists ==
    ASSUME NEW A, NEW E, NEW F \in [A \X E -> A], NEW base \in A,
           NEW n \in Nat, NEW seq \in [1..n -> E]
    PROVE  \E g \in [SUBSET (1..n) -> A] : FoldOver(g, F, base, n, seq)
<1> DEFINE Goes(g, k) == \A s \in SUBSET (1..k) :
             g[s] = IF s = {} THEN base ELSE F[<<g[s \ {Max(s)}], seq[Max(s)]>>]
           Has(k) == \E g \in [SUBSET (1..k) -> A] : Goes(g, k)
           S == {k \in Nat : k <= n => Has(k)}
<1>0. ASSUME NEW k \in Nat, NEW s \in SUBSET (1..k), s # {}
      PROVE  Max(s) \in s /\ \A j \in s : Max(s) >= j
  <2>1. s \in SUBSET Nat /\ \A j \in s : j <= k
    OBVIOUS
  <2> QED BY <1>0, <2>1, GreatestNumber
<1>1. 0 \in S
  <2> DEFINE g == [s \in SUBSET (1..0) |-> base]
  <2>1. g \in [SUBSET (1..0) -> A]
    OBVIOUS
  <2>2. \A s \in SUBSET (1..0) : s = {}
    OBVIOUS
  <2>3. Goes(g, 0)
    BY <2>2
  <2> QED BY <2>1, <2>3
<1>2. ASSUME NEW k \in S PROVE k + 1 \in S
  <2>k. k \in Nat /\ k + 1 \in Nat
    OBVIOUS
  <2>h. k <= n => Has(k)
    <3> HIDE DEF Has
    <3> QED OBVIOUS
  <2> SUFFICES ASSUME k + 1 <= n PROVE Has(k + 1)
    <3> HIDE DEF Has
    <3> QED BY <2>k
  <2>0. k \in Nat /\ k + 1 \in 1..n
    OBVIOUS
  <2>g. Has(k)
    <3> HIDE DEF Has
    <3> QED BY <2>h, <2>0
  <2>1. PICK g \in [SUBSET (1..k) -> A] : Goes(g, k)
    BY <2>g
  <2> DEFINE G == [s \in SUBSET (1..(k + 1)) |->
                     IF k + 1 \in s THEN F[<<g[s \ {k + 1}], seq[k + 1]>>] ELSE g[s]]
  <2>2. \A s \in SUBSET (1..(k + 1)) : /\ s \ {k + 1} \in SUBSET (1..k)
                                       /\ k + 1 \notin s => s \in SUBSET (1..k)
    OBVIOUS
  <2>3. G \in [SUBSET (1..(k + 1)) -> A]
    <3>1. seq[k + 1] \in E
      OBVIOUS
    <3>2. ASSUME NEW s \in SUBSET (1..(k + 1))
          PROVE  (IF k + 1 \in s THEN F[<<g[s \ {k + 1}], seq[k + 1]>>] ELSE g[s]) \in A
      BY <2>2, <3>1
    <3> QED BY <3>2
  <2>4. ASSUME NEW s \in SUBSET (1..(k + 1))
        PROVE  G[s] = IF s = {} THEN base ELSE F[<<G[s \ {Max(s)}], seq[Max(s)]>>]
    <3>1. CASE k + 1 \in s
      <4>1. Max(s) = k + 1
        <5>1. Max(s) \in s /\ \A j \in s : Max(s) >= j
          <6>1. k + 1 \in Nat /\ s # {}
            BY <2>0, <3>1
          <6> QED BY <1>0, <6>1
        <5>2. Max(s) \in 1..(k + 1) /\ Max(s) >= k + 1
          BY <3>1, <5>1
        <5> QED BY <5>2, <2>0
      <4>2. G[s \ {k + 1}] = g[s \ {k + 1}]
        BY <2>2
      <4> QED BY <3>1, <4>1, <4>2
    <3>2. CASE k + 1 \notin s
      <4>1. s \in SUBSET (1..k) /\ G[s] = g[s]
        BY <2>2, <3>2
      <4>2. CASE s = {}
        BY <2>1, <4>1, <4>2
      <4>3. CASE s # {}
        <5>1. s \ {Max(s)} \in SUBSET (1..k) /\ s \ {Max(s)} \in SUBSET (1..(k + 1))
              /\ k + 1 \notin s \ {Max(s)}
          BY <4>1, <3>2
        <5>2. G[s \ {Max(s)}] = g[s \ {Max(s)}]
          BY <5>1
        <5>3. g[s] = F[<<g[s \ {Max(s)}], seq[Max(s)]>>]
          BY <2>1, <4>1, <4>3
        <5> QED BY <4>1, <4>3, <5>2, <5>3
      <4> QED BY <4>2, <4>3
    <3> QED BY <3>1, <3>2
  <2> HIDE DEF G
  <2>5. Goes(G, k + 1)
    BY <2>4
  <2> QED BY <2>3, <2>5
<1>3. S = Nat
  <2> HIDE DEF S
  <2>1. S \in SUBSET Nat
    BY DEF S
  <2>2. \A k \in S : k + 1 \in S
    BY <1>2
  <2> QED BY <1>1, <2>1, <2>2, AllNumbers
<1>4. Has(n)
  <2> HIDE DEF Has
  <2> QED BY <1>3
<1> QED BY <1>4 DEF FoldOver

\* The positions up to one, and the last of any.
LEMMA Positions ==
    ASSUME NEW n \in Nat
    PROVE  /\ \A s \in SUBSET (1..n) : s # {} => Max(s) \in s
           /\ \A i \in 1..n : /\ 1..i \in SUBSET (1..n) /\ 1..i # {} /\ Max(1..i) = i
                              /\ (1..i) \ {i} = 1..(i - 1) /\ i \in 0..n /\ i - 1 \in 0..n
<1>1. ASSUME NEW s \in SUBSET (1..n), s # {} PROVE Max(s) \in s
  <2>1. s \in SUBSET Nat /\ \A j \in s : j <= n
    OBVIOUS
  <2> QED BY <1>1, <2>1, GreatestNumber
<1>2. ASSUME NEW i \in 1..n PROVE Max(1..i) = i
  <2>1. 1..i \in SUBSET Nat /\ 1..i # {} /\ i \in Nat /\ \A k \in 1..i : k <= i
    OBVIOUS
  <2>2. Max(1..i) \in 1..i /\ \A j \in 1..i : Max(1..i) >= j
    BY <2>1, GreatestNumber
  <2>3. i \in 1..i
    OBVIOUS
  <2> QED BY <2>2, <2>3
<1>3. ASSUME NEW i \in 1..n
      PROVE  /\ 1..i \in SUBSET (1..n) /\ 1..i # {}
             /\ (1..i) \ {i} = 1..(i - 1) /\ i \in 0..n /\ i - 1 \in 0..n
  OBVIOUS
<1> QED BY <1>1, <1>2, <1>3

\* Bounded induction: what holds first and is handed on holds all along.
LEMMA AllUpTo ==
    ASSUME NEW n \in Nat, NEW S, 0 \in S, \A i \in 1..n : i - 1 \in S => i \in S
    PROVE  \A i \in 0..n : i \in S
<1> DEFINE T == {i \in Nat : i <= n => i \in S}
<1>1. 0 \in T
  OBVIOUS
<1>2. ASSUME NEW i \in T PROVE i + 1 \in T
  <2>1. i \in Nat /\ (i <= n => i \in S)
    OBVIOUS
  <2>2. i + 1 <= n => (i + 1) - 1 \in S
    BY <2>1
  <2>3. i + 1 <= n => i + 1 \in 1..n
    BY <2>1
  <2>4. i + 1 <= n => i + 1 \in S
    BY <2>2, <2>3
  <2> QED BY <2>1, <2>4
<1>3. T = Nat
  <2> HIDE DEF T
  <2>1. T \in SUBSET Nat
    BY DEF T
  <2>2. \A i \in T : i + 1 \in T
    BY <1>2
  <2> QED BY <1>1, <2>1, <2>2, AllNumbers
<1> QED BY <1>3

-----------------------------------------------------------------------------
(* The loops of the figures *)

\* What the pairing loops hold after each signal.
Loop == [pending : Nat, trades : Seq(Nat \X Nat)]
Tally == [pending : Nat, completed : Nat, wins : Nat]

\* What the walk through the newest signals holds.
Walked == [sum : Int, peak : Int, fall : [n : Int, d : Int]]

LEMMA SignalShape ==
    /\ \A s \in SeededSignals : s.price \in Nat /\ s.price # 0 /\ s.direction \in {"buy", "sell"}
    /\ \A s \in LiveSignals : /\ s.confidence \in Nat
                              /\ s.direction \in {"buy", "sell", "hold"}
                              /\ s.direction # "hold" => s.confidence # 0
<1>1. EntryPrices \subseteq Nat \ {0} /\ Confidences \subseteq Nat \ {0}
  BY FiguresAssumption
<1>2. ASSUME NEW s \in SeededSignals
      PROVE  s.price \in Nat /\ s.price # 0 /\ s.direction \in {"buy", "sell"}
  BY <1>1 DEF SeededSignals
<1>3. ASSUME NEW s \in LiveSignals
      PROVE  /\ s.confidence \in Nat
             /\ s.direction \in {"buy", "sell", "hold"}
             /\ s.direction # "hold" => s.confidence # 0
  <2>1. CASE s \in [direction : {"buy", "sell"}, confidence : Confidences]
    BY <1>1, <2>1
  <2>2. CASE s \in [direction : {"hold"}, confidence : {0}]
    BY <2>2
  <2> QED BY <2>1, <2>2 DEF LiveSignals
<1> QED BY <1>2, <1>3

LEMMA PairUpType == \A acc \in Loop, s \in SeededSignals : PairUp(acc, s) \in Loop
<1> SUFFICES ASSUME NEW acc \in Loop, NEW s \in SeededSignals PROVE PairUp(acc, s) \in Loop
  OBVIOUS
<1>0. s.price \in Nat
  BY SignalShape
<1>1. Closed(acc, s) \in Loop
  <2>1. Append(acc.trades, <<acc.pending, s.price>>) \in Seq(Nat \X Nat)
    BY <1>0 DEF Loop
  <2> QED BY <2>1 DEF Closed, Loop
<1>2. [acc EXCEPT !.pending = s.price] \in Loop
  BY <1>0 DEF Loop
<1> QED BY <1>1, <1>2 DEF PairUp

LEMMA CountType == \A acc \in Tally, s \in SeededSignals : Count(acc, s) \in Tally
BY SignalShape DEF Count, Tally

LEMMA OfPairType ==
    \A pair : \A kept \in Seq(SeededSignals), s \in SeededSignals :
      OfPair(pair, kept, s) \in Seq(SeededSignals)
BY DEF OfPair

LEMMA WalkType == \A acc \in Walked, s \in LiveSignals : Walk(acc, s) \in Walked
<1> SUFFICES ASSUME NEW acc \in Walked, NEW s \in LiveSignals PROVE Walk(acc, s) \in Walked
  OBVIOUS
<1>1. Value(s.direction) \in Int
  BY DEF Value
<1> DEFINE sum == acc.sum + Value(s.direction)
           top == IF sum > acc.peak THEN sum ELSE acc.peak
           fall == Frac(top - sum, IF top > 1 THEN top ELSE 1)
<1>2. sum \in Int /\ top \in Int
  BY <1>1 DEF Walked
<1>3. fall \in [n : Int, d : Int]
  BY <1>2 DEF Frac
<1>4. Walk(acc, s) = [sum |-> sum, peak |-> top, fall |-> Larger(acc.fall, fall)]
  BY DEF Walk
<1> HIDE DEF sum, top, fall
<1>5. Larger(acc.fall, fall) \in [n : Int, d : Int]
  BY <1>3 DEF Larger, Walked
<1> QED BY <1>2, <1>4, <1>5 DEF Walked

LEMMA AddedType ==
    \A direction : \A n \in Nat, s \in LiveSignals : Added(direction, n, s) \in Nat
BY SignalShape DEF Added

\* A pair's signals are kept one after the other.
Kept(pair, h) == FoldLeft(LAMBDA kept, s : OfPair(pair, kept, s), <<>>, h)

LEMMA OfPairRun ==
    ASSUME NEW h \in Seq(SeededSignals), NEW pair
    PROVE  \E r : /\ r[0] = <<>>
                  /\ \A i \in 1..Len(h) : r[i] = OfPair(pair, r[i - 1], h[i])
                  /\ Kept(pair, h) = r[Len(h)]
<1> DEFINE start == <<>>
           n == Len(h)
           F == [p \in Seq(SeededSignals) \X SeededSignals |-> OfPair(pair, p[1], p[2])]
           Rec(g) == g = [s \in SUBSET (1..n) |->
                            IF s = {} THEN start ELSE OfPair(pair, g[s \ {Max(s)}], h[Max(s)])]
           iter == CHOOSE g : Rec(g)
           r == [i \in 0..n |-> iter[1..i]]
<1>0. n \in Nat /\ h \in [1..n -> SeededSignals] /\ DOMAIN h = 1..n
  OBVIOUS
<1>1. start \in Seq(SeededSignals) /\ F \in [Seq(SeededSignals) \X SeededSignals -> Seq(SeededSignals)]
  BY OfPairType
<1> HIDE DEF F, start, n
<1>2. PICK g \in [SUBSET (1..n) -> Seq(SeededSignals)] : FoldOver(g, F, start, n, h)
  BY <1>0, <1>1, FoldExists
<1>3. Rec([s \in SUBSET (1..n) |-> g[s]])
  BY <1>0, <1>2, Positions DEF FoldOver, F
<1>4. Rec(iter)
  <2> HIDE DEF Rec
  <2> QED BY <1>3
<1> HIDE DEF iter
<1>5. r[0] = start
  BY <1>0, <1>4
<1>6. ASSUME NEW i \in 1..n PROVE r[i] = OfPair(pair, r[i - 1], h[i])
  <2>1. /\ 1..i \in SUBSET (1..n) /\ 1..i # {} /\ (1..i) \ {i} = 1..(i - 1)
        /\ Max(1..i) = i /\ i \in 0..n /\ i - 1 \in 0..n
    BY <1>0, Positions
  <2>2. iter[1..i] = OfPair(pair, iter[1..(i - 1)], h[i])
    BY <1>4, <2>1
  <2> QED BY <2>1, <2>2
<1>7. iter[1..n] = r[n]
  BY <1>0
<1> HIDE DEF r
<1>8. Kept(pair, h) = r[n]
  BY <1>0, <1>7 DEF Kept, FoldLeft, MapThenFoldSet, iter, start
<1> QED BY <1>5, <1>6, <1>8 DEF start, n

\* The pairing loop of _compute_pair_metrics, step by step.
LEMMA PairUpRun ==
    ASSUME NEW h \in Seq(SeededSignals)
    PROVE  \E r : /\ r[0] = [pending |-> 0, trades |-> <<>>]
                  /\ \A i \in 1..Len(h) : r[i] = PairUp(r[i - 1], h[i])
                  /\ FoldLeft(PairUp, [pending |-> 0, trades |-> <<>>], h) = r[Len(h)]
<1> DEFINE start == [pending |-> 0, trades |-> <<>>]
           n == Len(h)
           F == [p \in Loop \X SeededSignals |-> PairUp(p[1], p[2])]
           Rec(g) == g = [s \in SUBSET (1..n) |->
                            IF s = {} THEN start ELSE PairUp(g[s \ {Max(s)}], h[Max(s)])]
           iter == CHOOSE g : Rec(g)
           r == [i \in 0..n |-> iter[1..i]]
<1>0. n \in Nat /\ h \in [1..n -> SeededSignals] /\ DOMAIN h = 1..n
  OBVIOUS
<1>1. start \in Loop /\ F \in [Loop \X SeededSignals -> Loop]
  BY PairUpType DEF Loop
<1> HIDE DEF F, start, n
<1>2. PICK g \in [SUBSET (1..n) -> Loop] : FoldOver(g, F, start, n, h)
  BY <1>0, <1>1, FoldExists
<1>3. Rec([s \in SUBSET (1..n) |-> g[s]])
  BY <1>0, <1>2, Positions DEF FoldOver, F
<1>4. Rec(iter)
  <2> HIDE DEF Rec
  <2> QED BY <1>3
<1> HIDE DEF iter
<1>5. r[0] = start
  BY <1>0, <1>4
<1>6. ASSUME NEW i \in 1..n PROVE r[i] = PairUp(r[i - 1], h[i])
  <2>1. /\ 1..i \in SUBSET (1..n) /\ 1..i # {} /\ (1..i) \ {i} = 1..(i - 1)
        /\ Max(1..i) = i /\ i \in 0..n /\ i - 1 \in 0..n
    BY <1>0, Positions
  <2>2. iter[1..i] = PairUp(iter[1..(i - 1)], h[i])
    BY <1>4, <2>1
  <2> QED BY <2>1, <2>2
<1>7. iter[1..n] = r[n]
  BY <1>0
<1> HIDE DEF r
<1>8. FoldLeft(PairUp, start, h) = r[n]
  BY <1>0, <1>7 DEF FoldLeft, MapThenFoldSet, iter
<1> QED BY <1>5, <1>6, <1>8 DEF start, n

\* The pairing loop of _compute_strategy_aggregate, step by step.
LEMMA CountRun ==
    ASSUME NEW h \in Seq(SeededSignals)
    PROVE  \E r : /\ r[0] = [pending |-> 0, completed |-> 0, wins |-> 0]
                  /\ \A i \in 1..Len(h) : r[i] = Count(r[i - 1], h[i])
                  /\ FoldLeft(Count, [pending |-> 0, completed |-> 0, wins |-> 0], h) = r[Len(h)]
<1> DEFINE start == [pending |-> 0, completed |-> 0, wins |-> 0]
           n == Len(h)
           F == [p \in Tally \X SeededSignals |-> Count(p[1], p[2])]
           Rec(g) == g = [s \in SUBSET (1..n) |->
                            IF s = {} THEN start ELSE Count(g[s \ {Max(s)}], h[Max(s)])]
           iter == CHOOSE g : Rec(g)
           r == [i \in 0..n |-> iter[1..i]]
<1>0. n \in Nat /\ h \in [1..n -> SeededSignals] /\ DOMAIN h = 1..n
  OBVIOUS
<1>1. start \in Tally /\ F \in [Tally \X SeededSignals -> Tally]
  BY CountType DEF Tally
<1> HIDE DEF F, start, n
<1>2. PICK g \in [SUBSET (1..n) -> Tally] : FoldOver(g, F, start, n, h)
  BY <1>0, <1>1, FoldExists
<1>3. Rec([s \in SUBSET (1..n) |-> g[s]])
  BY <1>0, <1>2, Positions DEF FoldOver, F
<1>4. Rec(iter)
  <2> HIDE DEF Rec
  <2> QED BY <1>3
<1> HIDE DEF iter
<1>5. r[0] = start
  BY <1>0, <1>4
<1>6. ASSUME NEW i \in 1..n PROVE r[i] = Count(r[i - 1], h[i])
  <2>1. /\ 1..i \in SUBSET (1..n) /\ 1..i # {} /\ (1..i) \ {i} = 1..(i - 1)
        /\ Max(1..i) = i /\ i \in 0..n /\ i - 1 \in 0..n
    BY <1>0, Positions
  <2>2. iter[1..i] = Count(iter[1..(i - 1)], h[i])
    BY <1>4, <2>1
  <2> QED BY <2>1, <2>2
<1>7. iter[1..n] = r[n]
  BY <1>0
<1> HIDE DEF r
<1>8. FoldLeft(Count, start, h) = r[n]
  BY <1>0, <1>7 DEF FoldLeft, MapThenFoldSet, iter
<1> QED BY <1>5, <1>6, <1>8 DEF start, n

\* The walk of _compute_max_drawdown, step by step.
LEMMA WalkRun ==
    ASSUME NEW h \in Seq(LiveSignals)
    PROVE  \E r : /\ r[0] = [sum |-> 0, peak |-> 0, fall |-> Zero]
                  /\ \A i \in 1..Len(h) : r[i] = Walk(r[i - 1], h[i])
                  /\ FoldLeft(Walk, [sum |-> 0, peak |-> 0, fall |-> Zero], h) = r[Len(h)]
<1> DEFINE start == [sum |-> 0, peak |-> 0, fall |-> Zero]
           n == Len(h)
           F == [p \in Walked \X LiveSignals |-> Walk(p[1], p[2])]
           Rec(g) == g = [s \in SUBSET (1..n) |->
                            IF s = {} THEN start ELSE Walk(g[s \ {Max(s)}], h[Max(s)])]
           iter == CHOOSE g : Rec(g)
           r == [i \in 0..n |-> iter[1..i]]
<1>0. n \in Nat /\ h \in [1..n -> LiveSignals] /\ DOMAIN h = 1..n
  OBVIOUS
<1>1. start \in Walked /\ F \in [Walked \X LiveSignals -> Walked]
  <2>1. start \in Walked
    BY DEF Walked, Zero, Frac
  <2>2. F \in [Walked \X LiveSignals -> Walked]
    BY WalkType
  <2> QED BY <2>1, <2>2
<1> HIDE DEF F, start, n
<1>2. PICK g \in [SUBSET (1..n) -> Walked] : FoldOver(g, F, start, n, h)
  BY <1>0, <1>1, FoldExists
<1>3. Rec([s \in SUBSET (1..n) |-> g[s]])
  BY <1>0, <1>2, Positions DEF FoldOver, F
<1>4. Rec(iter)
  <2> HIDE DEF Rec
  <2> QED BY <1>3
<1> HIDE DEF iter
<1>5. r[0] = start
  BY <1>0, <1>4
<1>6. ASSUME NEW i \in 1..n PROVE r[i] = Walk(r[i - 1], h[i])
  <2>1. /\ 1..i \in SUBSET (1..n) /\ 1..i # {} /\ (1..i) \ {i} = 1..(i - 1)
        /\ Max(1..i) = i /\ i \in 0..n /\ i - 1 \in 0..n
    BY <1>0, Positions
  <2>2. iter[1..i] = Walk(iter[1..(i - 1)], h[i])
    BY <1>4, <2>1
  <2> QED BY <2>1, <2>2
<1>7. iter[1..n] = r[n]
  BY <1>0
<1> HIDE DEF r
<1>8. FoldLeft(Walk, start, h) = r[n]
  BY <1>0, <1>7 DEF FoldLeft, MapThenFoldSet, iter
<1> QED BY <1>5, <1>6, <1>8 DEF start, n

\* The sum of the confidences, step by step.
Total(direction, h) == FoldLeft(LAMBDA total, s : Added(direction, total, s), 0, h)

LEMMA AddedRun ==
    ASSUME NEW h \in Seq(LiveSignals), NEW direction
    PROVE  \E r : /\ r[0] = 0
                  /\ \A i \in 1..Len(h) : r[i] = Added(direction, r[i - 1], h[i])
                  /\ Total(direction, h) = r[Len(h)]
<1> DEFINE start == 0
           n == Len(h)
           F == [p \in Nat \X LiveSignals |-> Added(direction, p[1], p[2])]
           Rec(g) == g = [s \in SUBSET (1..n) |->
                            IF s = {} THEN start ELSE Added(direction, g[s \ {Max(s)}], h[Max(s)])]
           iter == CHOOSE g : Rec(g)
           r == [i \in 0..n |-> iter[1..i]]
<1>0. n \in Nat /\ h \in [1..n -> LiveSignals] /\ DOMAIN h = 1..n
  OBVIOUS
<1>1. start \in Nat /\ F \in [Nat \X LiveSignals -> Nat]
  BY AddedType
<1> HIDE DEF F, start, n
<1>2. PICK g \in [SUBSET (1..n) -> Nat] : FoldOver(g, F, start, n, h)
  BY <1>0, <1>1, FoldExists
<1>3. Rec([s \in SUBSET (1..n) |-> g[s]])
  BY <1>0, <1>2, Positions DEF FoldOver, F
<1>4. Rec(iter)
  <2> HIDE DEF Rec
  <2> QED BY <1>3
<1> HIDE DEF iter
<1>5. r[0] = start
  BY <1>0, <1>4
<1>6. ASSUME NEW i \in 1..n PROVE r[i] = Added(direction, r[i - 1], h[i])
  <2>1. /\ 1..i \in SUBSET (1..n) /\ 1..i # {} /\ (1..i) \ {i} = 1..(i - 1)
        /\ Max(1..i) = i /\ i \in 0..n /\ i - 1 \in 0..n
    BY <1>0, Positions
  <2>2. iter[1..i] = Added(direction, iter[1..(i - 1)], h[i])
    BY <1>4, <2>1
  <2> QED BY <2>1, <2>2
<1>7. iter[1..n] = r[n]
  BY <1>0
<1> HIDE DEF r
<1>8. Total(direction, h) = r[n]
  BY <1>0, <1>7 DEF Total, FoldLeft, MapThenFoldSet, iter, start
<1> QED BY <1>5, <1>6, <1>8 DEF start, n
-----------------------------------------------------------------------------
(* The pairing of buys and sells.  After n signals the loop holds the      *)
(* trades closed so far and, unless every buy was followed by a sell, the  *)
(* price of the buy that opened the pending one.                           *)

IsSell(h, j) == h[j].direction = "sell"
SellsOf(h) == {j \in DOMAIN h : IsSell(h, j)}

\* A buy that is the first since the last sell.
Opens(h, i) ==
    /\ h[i].direction = "buy"
    /\ \A k \in 1..(i - 1) : h[k].direction = "buy" => \E m \in k..i : IsSell(h, m)

PairsOf(h) == {p \in (DOMAIN h) \X SellsOf(h) :
                 p[1] < p[2] /\ Opens(h, p[1]) /\ ~\E k \in SellsOf(h) : p[1] < k /\ k < p[2]}
ClosedBy(h, n) == {p \in PairsOf(h) : p[2] <= n}

PairedUpTo(h, n, acc) ==
    /\ acc \in Loop
    /\ Len(acc.trades) = Cardinality(ClosedBy(h, n))
    /\ \A p \in ClosedBy(h, n) :
         acc.trades[Cardinality(ClosedBy(h, p[2]))] = <<h[p[1]].price, h[p[2]].price>>
    /\ acc.pending = 0 =>
         \A k \in 1..n : h[k].direction = "buy" => \E m \in k..n : IsSell(h, m)
    /\ acc.pending # 0 =>
         \E b \in 1..n : Opens(h, b) /\ acc.pending = h[b].price /\ \A m \in b..n : ~IsSell(h, m)

LEMMA ClosedFinite ==
    ASSUME NEW h \in Seq(SeededSignals), NEW n
    PROVE  IsFiniteSet(ClosedBy(h, n)) /\ Cardinality(ClosedBy(h, n)) \in Nat
<1>1. IsFiniteSet(1..Len(h))
  BY FS_Interval
<1>2. IsFiniteSet((1..Len(h)) \X (1..Len(h)))
  BY <1>1, FS_Product
<1>3. ClosedBy(h, n) \subseteq (1..Len(h)) \X (1..Len(h))
  BY DEF ClosedBy, PairsOf, SellsOf
<1>4. IsFiniteSet(ClosedBy(h, n))
  BY <1>2, <1>3, FS_Subset
<1> QED BY <1>4, FS_CardinalityType

LEMMA ClosedShape ==
    ASSUME NEW h \in Seq(SeededSignals), NEW n, NEW p \in ClosedBy(h, n)
    PROVE  /\ p = <<p[1], p[2]>> /\ p[1] \in 1..Len(h) /\ p[2] \in 1..Len(h)
           /\ p[1] < p[2] /\ p[2] <= n /\ Opens(h, p[1]) /\ IsSell(h, p[2])
           /\ \A k \in 1..Len(h) : p[1] < k /\ k < p[2] => ~IsSell(h, k)
           /\ p \in PairsOf(h)
<1>1. DOMAIN h = 1..Len(h)
  OBVIOUS
<1>2. p \in (1..Len(h)) \X SellsOf(h)
  BY <1>1 DEF ClosedBy, PairsOf
<1>3. p = <<p[1], p[2]>> /\ p[1] \in 1..Len(h) /\ p[2] \in SellsOf(h)
  BY <1>2
<1>4. p \in PairsOf(h) /\ p[2] <= n
  BY DEF ClosedBy
<1>5. p[1] < p[2] /\ Opens(h, p[1]) /\ ~\E k \in SellsOf(h) : p[1] < k /\ k < p[2]
  BY <1>4 DEF PairsOf
<1> QED BY <1>1, <1>3, <1>4, <1>5 DEF SellsOf

\* A signal that is not a sell closes no trade.
LEMMA NothingCloses ==
    ASSUME NEW h \in Seq(SeededSignals), NEW n \in 1..Len(h),
           \A p \in ClosedBy(h, n) : p[2] # n
    PROVE  ClosedBy(h, n) = ClosedBy(h, n - 1)
<1>1. ASSUME NEW p \in PairsOf(h) PROVE p \in ClosedBy(h, n) <=> p \in ClosedBy(h, n - 1)
  <2>1. p[2] \in 1..Len(h)
    BY DEF PairsOf, SellsOf
  <2>2. p[2] <= n <=> (p[2] <= n - 1 \/ p[2] = n)
    BY <2>1
  <2> QED BY <2>2 DEF ClosedBy
<1> QED BY <1>1 DEF ClosedBy

\* One step of the loop keeps the pairing.
LEMMA PairUpStep ==
    ASSUME NEW h \in Seq(SeededSignals), NEW n \in 1..Len(h), NEW acc,
           PairedUpTo(h, n - 1, acc)
    PROVE  PairedUpTo(h, n, PairUp(acc, h[n]))
<1> DEFINE s == h[n]
<1>1. /\ n \in Int /\ Len(h) \in Nat /\ s \in SeededSignals /\ \A j \in 1..Len(h) : h[j] \in SeededSignals
  OBVIOUS
<1>2. /\ \A j \in 1..Len(h) : h[j].price # 0 /\ h[j].direction \in {"buy", "sell"}
      /\ s.price \in Nat
  BY <1>1, SignalShape
<1>3. acc \in Loop /\ PairUp(acc, s) \in Loop
  BY <1>1, PairUpType DEF PairedUpTo
<1>4. acc.pending \in Nat /\ acc.trades \in Seq(Nat \X Nat)
  BY <1>3 DEF Loop
<1> HIDE DEF s
<1>5. CASE s.direction = "buy"
  <2>1. ClosedBy(h, n) = ClosedBy(h, n - 1)
    <3>1. \A p \in ClosedBy(h, n) : p[2] # n
      <4> SUFFICES ASSUME NEW p \in ClosedBy(h, n) PROVE p[2] # n
        OBVIOUS
      <4>1. IsSell(h, p[2])
        BY ClosedShape
      <4> QED BY <1>5, <4>1 DEF IsSell, s
    <3> QED BY <3>1, NothingCloses
  <2>2. CASE acc.pending = 0
    <3>1. PairUp(acc, s) = [acc EXCEPT !.pending = s.price]
      BY <1>5, <2>2 DEF PairUp
    <3>2. PairUp(acc, s).trades = acc.trades /\ PairUp(acc, s).pending = s.price
      BY <1>3, <3>1 DEF Loop
    <3>3. Opens(h, n)
      <4>1. \A k \in 1..(n - 1) : h[k].direction = "buy" => \E m \in k..(n - 1) : IsSell(h, m)
        BY <2>2 DEF PairedUpTo
      <4>2. \A k \in 1..(n - 1) : \A m \in k..(n - 1) : m \in k..n
        BY <1>1
      <4> QED BY <1>5, <4>1, <4>2 DEF Opens, s
    <3>4. \A m \in n..n : ~IsSell(h, m)
      BY <1>1, <1>5 DEF IsSell, s
    <3>5. \E b \in 1..n : Opens(h, b) /\ s.price = h[b].price /\ \A m \in b..n : ~IsSell(h, m)
      <4>1. n \in 1..n
        BY <1>1
      <4> QED BY <3>3, <3>4, <4>1 DEF s
    <3>6. s.price # 0
      BY <1>2 DEF s
    <3> QED BY <1>3, <2>1, <3>2, <3>5, <3>6 DEF PairedUpTo, s
  <2>3. CASE acc.pending # 0
    <3>1. PairUp(acc, s) = acc
      BY <1>5, <2>3 DEF PairUp
    <3>2. PICK b \in 1..(n - 1) : Opens(h, b) /\ acc.pending = h[b].price
                                  /\ \A m \in b..(n - 1) : ~IsSell(h, m)
      BY <2>3 DEF PairedUpTo
    <3>3. b \in 1..n /\ \A m \in b..n : ~IsSell(h, m)
      <4>1. \A m \in b..n : m \in b..(n - 1) \/ m = n
        BY <1>1
      <4>2. ~IsSell(h, n)
        BY <1>5 DEF IsSell, s
      <4> QED BY <1>1, <3>2, <4>1, <4>2
    <3> QED BY <2>1, <2>3, <3>1, <3>2, <3>3 DEF PairedUpTo, s
  <2> QED BY <2>2, <2>3
<1>6. CASE s.direction = "sell" /\ acc.pending = 0
  <2>1. PairUp(acc, s) = acc
    BY <1>6 DEF PairUp
  <2>2. \A k \in 1..(n - 1) : h[k].direction = "buy" => \E m \in k..(n - 1) : IsSell(h, m)
    BY <1>6 DEF PairedUpTo
  <2>3. ClosedBy(h, n) = ClosedBy(h, n - 1)
    <3>1. ASSUME NEW p \in ClosedBy(h, n) PROVE p[2] # n
      <4> SUFFICES ASSUME p[2] = n PROVE FALSE
        OBVIOUS
      <4>1. /\ p[1] \in 1..Len(h) /\ p[1] < n /\ Opens(h, p[1])
            /\ \A k \in 1..Len(h) : p[1] < k /\ k < n => ~IsSell(h, k)
        BY ClosedShape
      <4>2. p[1] \in 1..(n - 1) /\ h[p[1]].direction = "buy"
        BY <1>1, <4>1 DEF Opens
      <4>3. PICK m \in p[1]..(n - 1) : IsSell(h, m)
        BY <2>2, <4>2
      <4>4. m # p[1]
        BY <4>2, <4>3 DEF IsSell
      <4>5. m \in 1..Len(h) /\ p[1] < m /\ m < n
        BY <1>1, <4>2, <4>4
      <4> QED BY <4>1, <4>3, <4>5
    <3> QED BY <3>1, NothingCloses
  <2>4. \A k \in 1..n : h[k].direction = "buy" => \E m \in k..n : IsSell(h, m)
    <3>1. IsSell(h, n)
      BY <1>6 DEF IsSell, s
    <3>2. \A k \in 1..n : n \in k..n
      BY <1>1
    <3> QED BY <3>1, <3>2
  <2> QED BY <1>6, <2>1, <2>3, <2>4 DEF PairedUpTo, s
<1>7. CASE s.direction = "sell" /\ acc.pending # 0
  <2>1. PICK b \in 1..(n - 1) : Opens(h, b) /\ acc.pending = h[b].price
                                /\ \A m \in b..(n - 1) : ~IsSell(h, m)
    BY <1>7 DEF PairedUpTo
  <2> DEFINE e == <<b, n>>
             t == <<acc.pending, s.price>>
  <2>2. PairUp(acc, s) = [pending |-> 0, trades |-> Append(acc.trades, t)]
    BY <1>7 DEF PairUp, Closed
  <2>3. IsSell(h, n) /\ b \in 1..Len(h) /\ b < n
    BY <1>1, <1>7 DEF IsSell, s
  <2>4. e \in PairsOf(h) /\ e[1] = b /\ e[2] = n
    <3>1. DOMAIN h = 1..Len(h) /\ n \in SellsOf(h)
      BY <2>3 DEF SellsOf
    <3>2. ~\E k \in SellsOf(h) : b < k /\ k < n
      <4> SUFFICES ASSUME NEW k \in SellsOf(h), b < k, k < n PROVE FALSE
        OBVIOUS
      <4>1. k \in 1..Len(h) /\ IsSell(h, k)
        BY <3>1 DEF SellsOf
      <4>2. k \in b..(n - 1)
        BY <1>1, <4>1
      <4> QED BY <2>1, <4>1, <4>2
    <3> QED BY <2>1, <2>3, <3>1, <3>2 DEF PairsOf
  <2>5. ASSUME NEW p \in ClosedBy(h, n), p[2] = n PROVE p = e
    <3>1. /\ p = <<p[1], p[2]>> /\ p[1] \in 1..Len(h) /\ p[1] < n /\ Opens(h, p[1])
          /\ \A k \in 1..Len(h) : p[1] < k /\ k < n => ~IsSell(h, k)
      BY <2>5, ClosedShape
    <3> DEFINE c == p[1]
    <3>2. h[c].direction = "buy" /\ h[b].direction = "buy"
      BY <2>1, <3>1 DEF Opens
    <3>3. CASE c < b
      <4>1. PICK m \in c..b : IsSell(h, m)
        <5>1. c \in 1..(b - 1)
          BY <3>1, <3>3
        <5> QED BY <2>1, <3>2, <5>1 DEF Opens
      <4>2. m # c /\ m # b
        BY <3>2, <4>1 DEF IsSell
      <4>3. m \in 1..Len(h) /\ c < m /\ m < n
        BY <1>1, <2>3, <3>1, <4>2
      <4> QED BY <3>1, <4>1, <4>3
    <3>4. CASE b < c
      <4>1. PICK m \in b..c : IsSell(h, m)
        <5>1. b \in 1..(c - 1)
          BY <3>1, <3>4
        <5> QED BY <3>1, <3>2, <5>1 DEF Opens
      <4>2. m # c
        BY <3>2, <4>1 DEF IsSell
      <4>3. m \in b..(n - 1)
        BY <1>1, <3>1, <4>2
      <4> QED BY <2>1, <4>1, <4>3
    <3>5. c = b
      BY <3>1, <3>3, <3>4
    <3> QED BY <2>5, <3>1, <3>5
  <2>6. ClosedBy(h, n) = ClosedBy(h, n - 1) \cup {e} /\ e \notin ClosedBy(h, n - 1)
    <3>1. ASSUME NEW p \in PairsOf(h)
          PROVE  p \in ClosedBy(h, n) <=> p \in ClosedBy(h, n - 1) \/ p[2] = n
      <4>1. p[2] \in 1..Len(h)
        BY DEF PairsOf, SellsOf
      <4>2. p[2] <= n <=> (p[2] <= n - 1 \/ p[2] = n)
        BY <1>1, <4>1
      <4> QED BY <4>2 DEF ClosedBy
    <3>2. e \in ClosedBy(h, n) /\ e \notin ClosedBy(h, n - 1)
      BY <1>1, <2>4 DEF ClosedBy
    <3>3. ClosedBy(h, n) \subseteq PairsOf(h) /\ ClosedBy(h, n - 1) \subseteq PairsOf(h)
      BY DEF ClosedBy
    <3> HIDE DEF e
    <3> QED BY <2>5, <3>1, <3>2, <3>3
  <2> HIDE DEF e, t
  <2>7. /\ Cardinality(ClosedBy(h, n)) = Cardinality(ClosedBy(h, n - 1)) + 1
        /\ IsFiniteSet(ClosedBy(h, n - 1)) /\ Cardinality(ClosedBy(h, n - 1)) \in Nat
    BY <2>6, ClosedFinite, FS_AddElement
  <2> DEFINE long == Append(acc.trades, t)
             c == Cardinality(ClosedBy(h, n - 1))
  <2>8. Len(acc.trades) = c /\ t \in Nat \X Nat
    BY <1>2, <1>4 DEF PairedUpTo, t
  <2>9. Len(long) = c + 1 /\ long[c + 1] = t /\ \A i \in 1..c : long[i] = acc.trades[i]
    BY <1>4, <2>8
  <2> HIDE DEF long
  <2>10. ASSUME NEW p \in ClosedBy(h, n)
         PROVE  long[Cardinality(ClosedBy(h, p[2]))] = <<h[p[1]].price, h[p[2]].price>>
    <3>1. CASE p = e
      <4>1. p[1] = b /\ p[2] = n
        BY <2>4, <3>1
      <4> QED BY <2>1, <2>7, <2>9, <4>1 DEF t, s
    <3>2. CASE p \in ClosedBy(h, n - 1)
      <4>1. p \in PairsOf(h) /\ p[2] \in 1..Len(h) /\ p[2] <= n - 1
        BY <3>2, ClosedShape
      <4>2. ClosedBy(h, p[2]) \subseteq ClosedBy(h, n - 1) /\ p \in ClosedBy(h, p[2])
        <5>1. ASSUME NEW q \in PairsOf(h), q[2] <= p[2] PROVE q[2] <= n - 1
          <6>1. q[2] \in 1..Len(h)
            BY DEF PairsOf, SellsOf
          <6> QED BY <1>1, <4>1, <5>1, <6>1
        <5> QED BY <4>1, <5>1 DEF ClosedBy
      <4>3. Cardinality(ClosedBy(h, p[2])) \in 1..c
        <5>1. /\ IsFiniteSet(ClosedBy(h, p[2])) /\ Cardinality(ClosedBy(h, p[2])) \in Nat
          BY ClosedFinite
        <5>2. Cardinality(ClosedBy(h, p[2])) # 0
          BY <4>2, <5>1, FS_EmptySet
        <5>3. Cardinality(ClosedBy(h, p[2])) <= c
          BY <2>7, <4>2, FS_Subset
        <5> QED BY <2>7, <5>1, <5>2, <5>3
      <4>4. acc.trades[Cardinality(ClosedBy(h, p[2]))] = <<h[p[1]].price, h[p[2]].price>>
        BY <3>2 DEF PairedUpTo
      <4> QED BY <2>9, <4>3, <4>4
    <3> QED BY <2>6, <3>1, <3>2
  <2>11. \A k \in 1..n : h[k].direction = "buy" => \E m \in k..n : IsSell(h, m)
    <3>1. \A k \in 1..n : n \in k..n
      BY <1>1
    <3> QED BY <2>3, <3>1
  <2>12. PairUp(acc, s).pending = 0 /\ PairUp(acc, s).trades = long
    BY <2>2 DEF long
  <2> QED BY <1>3, <2>7, <2>9, <2>10, <2>11, <2>12 DEF PairedUpTo, s
<1>8. s.direction \in {"buy", "sell"}
  BY <1>2 DEF s
<1> QED BY <1>5, <1>6, <1>7, <1>8

\* The loop over a whole history, and the trades it finds.
LEMMA TradesOfHistory ==
    ASSUME NEW h \in Seq(SeededSignals)
    PROVE  /\ Trades(h) \in Seq(Nat \X Nat)
           /\ Len(Trades(h)) = Cardinality(PairsOf(h))
           /\ \A p \in PairsOf(h) :
                Trades(h)[Cardinality(ClosedBy(h, p[2]))] = <<h[p[1]].price, h[p[2]].price>>
           /\ LET counted == FoldLeft(Count, [pending |-> 0, completed |-> 0, wins |-> 0], h) IN
              /\ counted.completed = Len(Trades(h))
              /\ counted.wins = Cardinality({i \in DOMAIN Trades(h) : Return(Trades(h)[i]).n > 0})
<1> DEFINE n == Len(h)
           start == [pending |-> 0, trades |-> <<>>]
           zero == [pending |-> 0, completed |-> 0, wins |-> 0]
           Won(trades) == {i \in DOMAIN trades : Return(trades[i]).n > 0}
           Same2(acc, c) == /\ c \in Tally /\ c.pending = acc.pending
                            /\ c.completed = Len(acc.trades)
                            /\ c.wins = Cardinality(Won(acc.trades))
<1>0. n \in Nat /\ DOMAIN h = 1..n /\ \A i \in 1..n : h[i] \in SeededSignals
  OBVIOUS
<1>1. PICK r : /\ r[0] = start
               /\ \A i \in 1..n : r[i] = PairUp(r[i - 1], h[i])
               /\ FoldLeft(PairUp, start, h) = r[n]
  BY PairUpRun
<1>2. PICK c : /\ c[0] = zero
               /\ \A i \in 1..n : c[i] = Count(c[i - 1], h[i])
               /\ FoldLeft(Count, zero, h) = c[n]
  BY CountRun
<1> HIDE DEF n, start, zero
<1>3. \A i \in 0..n : PairedUpTo(h, i, r[i])
  <2> DEFINE S == {i \in 0..n : PairedUpTo(h, i, r[i])}
  <2>1. 0 \in S
    <3>1. ClosedBy(h, 0) = {}
      <4> SUFFICES ASSUME NEW p \in ClosedBy(h, 0) PROVE FALSE
        OBVIOUS
      <4>1. p[2] \in 1..n /\ p[2] <= 0
        BY ClosedShape DEF n
      <4> QED BY <4>1
    <3>2. Cardinality(ClosedBy(h, 0)) = 0
      BY <3>1, FS_EmptySet
    <3>3. start.trades = <<>> /\ start.pending = 0 /\ start \in Loop
      BY DEF start, Loop
    <3>4. PairedUpTo(h, 0, start)
      BY <3>1, <3>2, <3>3 DEF PairedUpTo
    <3> QED BY <1>0, <1>1, <3>4
  <2>2. ASSUME NEW i \in 1..n, i - 1 \in S PROVE i \in S
    <3>1. PairedUpTo(h, i - 1, r[i - 1]) /\ i \in 0..n
      BY <1>0, <2>2
    <3>2. PairedUpTo(h, i, PairUp(r[i - 1], h[i]))
      BY <3>1, PairUpStep DEF n
    <3> QED BY <1>1, <3>1, <3>2
  <2> HIDE DEF S
  <2>3. \A i \in 0..n : i \in S
    BY <1>0, <2>1, <2>2, AllUpTo
  <2> QED BY <2>3 DEF S
<1>4. \A i \in 0..n : r[i] \in Loop
  BY <1>3 DEF PairedUpTo
<1>5. \A i \in 0..n : IsFiniteSet(Won(r[i].trades)) /\ Same2(r[i], c[i])
  <2> DEFINE S == {i \in 0..n : IsFiniteSet(Won(r[i].trades)) /\ Same2(r[i], c[i])}
  <2>1. 0 \in S
    <3>1. Won(<<>>) = {} /\ start.trades = <<>> /\ start.pending = 0
      BY DEF start
    <3>2. IsFiniteSet({}) /\ Cardinality({}) = 0
      BY FS_EmptySet
    <3>3. zero \in Tally /\ zero.pending = 0 /\ zero.completed = 0 /\ zero.wins = 0
      BY DEF zero, Tally
    <3> HIDE DEF Won
    <3>4. IsFiniteSet(Won(start.trades)) /\ Same2(start, zero)
      BY <3>1, <3>2, <3>3
    <3> QED BY <1>0, <1>1, <1>2, <3>4
  <2>2. ASSUME NEW i \in 1..n, i - 1 \in S PROVE i \in S
    <3> DEFINE acc == r[i - 1]
               tally == c[i - 1]
               s == h[i]
    <3>1. /\ acc \in Loop /\ tally \in Tally /\ s \in SeededSignals /\ i \in 0..n
          /\ IsFiniteSet(Won(acc.trades)) /\ Same2(acc, tally)
          /\ r[i] = PairUp(acc, s) /\ c[i] = Count(tally, s)
      BY <1>0, <1>1, <1>2, <1>4, <2>2
    <3> HIDE DEF acc, tally, s, Won
    <3>2. /\ acc.pending \in Nat /\ acc.trades \in Seq(Nat \X Nat)
          /\ tally.pending = acc.pending /\ tally.completed = Len(acc.trades)
          /\ tally.wins = Cardinality(Won(acc.trades))
          /\ s.price \in Nat /\ s.price # 0
          /\ Count(tally, s) \in Tally
      BY <3>1, SignalShape, CountType DEF Loop
    <3>3. CASE s.direction = "buy" /\ acc.pending = 0
      <4>1. /\ PairUp(acc, s).trades = acc.trades /\ PairUp(acc, s).pending = s.price
            /\ Count(tally, s).completed = tally.completed /\ Count(tally, s).wins = tally.wins
            /\ Count(tally, s).pending = s.price
        BY <3>1, <3>2, <3>3 DEF PairUp, Count, Loop, Tally
      <4>2. IsFiniteSet(Won(PairUp(acc, s).trades)) /\ Same2(PairUp(acc, s), Count(tally, s))
        BY <3>1, <3>2, <4>1
      <4> QED BY <3>1, <4>2
    <3>4. CASE s.direction = "sell" /\ acc.pending # 0
      <4> DEFINE t == <<acc.pending, s.price>>
                 long == Append(acc.trades, t)
                 m == Len(acc.trades)
      <4>1. /\ PairUp(acc, s).trades = long /\ PairUp(acc, s).pending = 0
            /\ Count(tally, s).completed = tally.completed + 1 /\ Count(tally, s).pending = 0
            /\ Count(tally, s).wins = tally.wins + (IF s.price > acc.pending THEN 1 ELSE 0)
        BY <3>2, <3>4 DEF PairUp, Count, Closed
      <4>2. /\ m \in Nat /\ DOMAIN acc.trades = 1..m /\ DOMAIN long = 1..(m + 1) /\ Len(long) = m + 1
            /\ long[m + 1] = t /\ \A j \in 1..m : long[j] = acc.trades[j]
        BY <3>2
      <4>3. Return(t).n > 0 <=> s.price > acc.pending
        BY <3>2 DEF Return, Frac
      <4> HIDE DEF long, t, m
      <4>4. Won(long) = IF s.price > acc.pending THEN Won(acc.trades) \cup {m + 1}
                        ELSE Won(acc.trades)
        BY <4>2, <4>3 DEF Won
      <4>5. m + 1 \notin Won(acc.trades)
        BY <4>2 DEF Won
      <4>6. IsFiniteSet(Won(long)) /\ Cardinality(Won(long)) = Count(tally, s).wins
        <5>1. CASE s.price > acc.pending
          <6>1. Won(long) = Won(acc.trades) \cup {m + 1}
            BY <4>4, <5>1
          <6>2. /\ IsFiniteSet(Won(acc.trades) \cup {m + 1})
                /\ Cardinality(Won(acc.trades) \cup {m + 1}) = Cardinality(Won(acc.trades)) + 1
            BY <3>1, <4>5, FS_AddElement
          <6> QED BY <3>2, <4>1, <5>1, <6>1, <6>2
        <5>2. CASE ~(s.price > acc.pending)
          <6>1. tally.wins + 0 = tally.wins
            BY <3>1 DEF Tally
          <6> QED BY <3>1, <3>2, <4>1, <4>4, <5>2, <6>1
        <5> QED BY <5>1, <5>2
      <4>7. IsFiniteSet(Won(PairUp(acc, s).trades)) /\ Same2(PairUp(acc, s), Count(tally, s))
        BY <3>2, <4>1, <4>2, <4>6 DEF m
      <4> QED BY <3>1, <4>7
    <3>5. CASE ~(s.direction = "buy" /\ acc.pending = 0) /\ ~(s.direction = "sell" /\ acc.pending # 0)
      <4>1. PairUp(acc, s) = acc /\ Count(tally, s) = tally
        BY <3>2, <3>5 DEF PairUp, Count
      <4> QED BY <3>1, <4>1
    <3> QED BY <3>3, <3>4, <3>5
  <2> HIDE DEF S
  <2>3. \A i \in 0..n : i \in S
    BY <1>0, <2>1, <2>2, AllUpTo
  <2> HIDE DEF Won, Same2
  <2> QED BY <2>3 DEF S
<1>6. n \in 0..n
  BY <1>0
<1>7. Trades(h) = r[n].trades
  BY <1>1 DEF Trades, start
<1>8. ClosedBy(h, n) = PairsOf(h)
  <2>1. \A p \in PairsOf(h) : p[2] \in 1..n
    BY DEF PairsOf, SellsOf, n
  <2> QED BY <1>0, <2>1 DEF ClosedBy
<1>9. /\ Trades(h) \in Seq(Nat \X Nat) /\ Len(Trades(h)) = Cardinality(PairsOf(h))
      /\ \A p \in PairsOf(h) :
           Trades(h)[Cardinality(ClosedBy(h, p[2]))] = <<h[p[1]].price, h[p[2]].price>>
  <2> DEFINE acc == r[n]
  <2>1. PairedUpTo(h, n, acc) /\ acc.trades = Trades(h)
    BY <1>3, <1>6, <1>7
  <2> HIDE DEF acc
  <2>2. acc.trades \in Seq(Nat \X Nat)
    BY <2>1 DEF PairedUpTo, Loop
  <2>3. Len(acc.trades) = Cardinality(PairsOf(h))
    BY <1>8, <2>1 DEF PairedUpTo
  <2>4. ASSUME NEW p \in PairsOf(h)
        PROVE  acc.trades[Cardinality(ClosedBy(h, p[2]))] = <<h[p[1]].price, h[p[2]].price>>
    BY <1>8, <2>1 DEF PairedUpTo
  <2> QED BY <2>1, <2>2, <2>3, <2>4
<1>10. /\ c[n].completed = Len(Trades(h)) /\ c[n].wins = Cardinality(Won(Trades(h)))
  <2> HIDE DEF Won
  <2> QED BY <1>5, <1>6, <1>7
<1> QED BY <1>2, <1>9, <1>10 DEF zero

-----------------------------------------------------------------------------
(* The histories *)

FiguresInv ==
    /\ live \in BOOLEAN
    /\ signals \in Seq(IF live THEN LiveSignals ELSE SeededSignals)
    /\ Len(signals) <= (IF live THEN MaxLive ELSE MaxSeeded)

LEMMA FiguresInductive == FiguresSpec => []FiguresInv
<1>1. FiguresInit => FiguresInv
  BY FiguresAssumption DEF FiguresInit, FiguresInv
<1>2. FiguresInv /\ [FiguresNext]_figuresVars => FiguresInv'
  <2> SUFFICES ASSUME FiguresInv, [FiguresNext]_figuresVars PROVE FiguresInv'
    OBVIOUS
  <2>1. CASE FiguresNext
    <3> DEFINE T == IF live THEN LiveSignals ELSE SeededSignals
    <3>1. PICK s \in T : signals' = Append(signals, s)
      BY <2>1 DEF FiguresNext
    <3>2. signals \in Seq(T) /\ live' = live
      BY <2>1 DEF FiguresInv, FiguresNext
    <3> HIDE DEF T
    <3>3. signals' \in Seq(T) /\ Len(signals') = Len(signals) + 1 /\ Len(signals) \in Nat
      BY <3>1, <3>2
    <3>4. Len(signals') <= (IF live THEN MaxLive ELSE MaxSeeded)
      BY <2>1, <3>3, FiguresAssumption DEF FiguresNext
    <3> QED BY <3>2, <3>3, <3>4 DEF FiguresInv, T
  <2>2. CASE UNCHANGED figuresVars
    BY <2>2 DEF FiguresInv, figuresVars
  <2> QED BY <2>1, <2>2
<1> QED BY <1>1, <1>2, PTL DEF FiguresSpec

\* Histories keep their bounds and types.
THEOREM FiguresTypeCorrect == FiguresSpec => []FiguresTypeOK
<1>1. FiguresInv => FiguresTypeOK
  <2> SUFFICES ASSUME FiguresInv PROVE FiguresTypeOK
    OBVIOUS
  <2>1. \A i \in DOMAIN signals : signals[i] \in SeededSignals \cup LiveSignals
    BY DEF FiguresInv
  <2>2. Len(signals) <= MaxSeeded + MaxLive
    BY FiguresAssumption DEF FiguresInv
  <2> QED BY <2>1, <2>2 DEF FiguresInv, FiguresTypeOK
<1> QED BY <1>1, FiguresInductive, PTL

\* What is kept of a pair's signals is a history.
LEMMA KeptType ==
    ASSUME NEW h \in Seq(SeededSignals), NEW pair
    PROVE  Kept(pair, h) \in Seq(SeededSignals)
<1> DEFINE n == Len(h)
<1>1. PICK r : /\ r[0] = <<>>
               /\ \A i \in 1..n : r[i] = OfPair(pair, r[i - 1], h[i])
               /\ Kept(pair, h) = r[n]
  BY OfPairRun
<1>2. n \in Nat /\ \A i \in 1..n : h[i] \in SeededSignals
  OBVIOUS
<1> HIDE DEF n
<1> DEFINE S == {i \in 0..n : r[i] \in Seq(SeededSignals)}
<1>3. 0 \in S
  <2>1. <<>> \in Seq(SeededSignals) /\ 0 \in 0..n
    BY <1>2
  <2> QED BY <1>1, <2>1
<1>4. ASSUME NEW i \in 1..n, i - 1 \in S PROVE i \in S
  BY <1>1, <1>2, <1>4, OfPairType
<1>5. \A i \in 0..n : i \in S
  <2> HIDE DEF S
  <2> QED BY <1>2, <1>3, <1>4, AllUpTo
<1>6. r[n] \in Seq(SeededSignals)
  BY <1>2, <1>5
<1> QED BY <1>1, <1>6

\* Both pairing loops find, for histories of any length, exactly the trades from the first
\* buy after a sell to the next sell, in order (freqtrade_bridge/seeds/seed_all.py).
THEOREM TradesArePaired == FiguresSpec => []TradesPaired
<1>1. FiguresInv => TradesPaired
  <2> SUFFICES ASSUME FiguresInv, ~live, NEW pair \in Coins
               PROVE  LET h == History(pair)
                          FirstBuy(i) == /\ h[i].direction = "buy"
                                         /\ \A k \in 1..(i - 1) : h[k].direction = "buy" =>
                                              \E m \in k..i : h[m].direction = "sell"
                          Sells == {j \in DOMAIN h : h[j].direction = "sell"}
                          Pairs == {p \in (DOMAIN h) \X Sells :
                                      /\ p[1] < p[2] /\ FirstBuy(p[1])
                                      /\ ~\E k \in Sells : p[1] < k /\ k < p[2]}
                          trades == Trades(h)
                      IN /\ Len(trades) = Cardinality(Pairs)
                         /\ \A p \in Pairs : trades[Cardinality({q \in Pairs : q[2] <= p[2]})]
                                               = <<h[p[1]].price, h[p[2]].price>>
                         /\ Counted(pair).completed = Len(trades)
                         /\ Counted(pair).wins =
                              Cardinality({i \in DOMAIN trades : Return(trades[i]).n > 0})
    BY DEF TradesPaired
  <2> DEFINE h == History(pair)
             FirstBuy(i) == /\ h[i].direction = "buy"
                            /\ \A k \in 1..(i - 1) : h[k].direction = "buy" =>
                                 \E m \in k..i : h[m].direction = "sell"
             Sells == {j \in DOMAIN h : h[j].direction = "sell"}
             Pairs == {p \in (DOMAIN h) \X Sells :
                         /\ p[1] < p[2] /\ FirstBuy(p[1])
                         /\ ~\E k \in Sells : p[1] < k /\ k < p[2]}
             trades == Trades(h)
  <2>1. h \in Seq(SeededSignals)
    <3>1. signals \in Seq(SeededSignals)
      BY DEF FiguresInv
    <3>2. Kept(pair, signals) \in Seq(SeededSignals)
      BY <3>1, KeptType
    <3>3. h = Kept(pair, signals)
      BY DEF History, Kept
    <3> QED BY <3>2, <3>3
  <2>2. Counted(pair) = FoldLeft(Count, [pending |-> 0, completed |-> 0, wins |-> 0], h)
    BY DEF Counted
  <2> HIDE DEF h
  <2>3. Pairs = PairsOf(h) /\ \A p \in Pairs : {q \in Pairs : q[2] <= p[2]} = ClosedBy(h, p[2])
    BY DEF PairsOf, ClosedBy, SellsOf, Opens, IsSell
  <2> HIDE DEF Pairs
  <2>4. Len(trades) = Cardinality(Pairs)
    BY <2>1, <2>3, TradesOfHistory
  <2>5. \A p \in Pairs : trades[Cardinality({q \in Pairs : q[2] <= p[2]})]
                           = <<h[p[1]].price, h[p[2]].price>>
    BY <2>1, <2>3, TradesOfHistory
  <2>6. /\ Counted(pair).completed = Len(trades)
        /\ Counted(pair).wins = Cardinality({i \in DOMAIN trades : Return(trades[i]).n > 0})
    BY <2>1, <2>2, TradesOfHistory
  <2> QED BY <2>4, <2>5, <2>6 DEF h, Pairs
<1> QED BY <1>1, FiguresInductive, PTL

-----------------------------------------------------------------------------
(* The live drawdown *)

LEMMA TimesPositive ==
    ASSUME NEW a \in Int, NEW b \in Int, NEW c \in Int, c > 0
    PROVE  /\ a * c \in Int /\ b * c \in Int
           /\ a < b <=> a * c < b * c
           /\ a <= b <=> a * c <= b * c
OBVIOUS

Fall == {x \in [n : Int, d : Int] : x.n >= 0 /\ x.d > 0}

\* The larger of two fractions.
LEMMA LargerFall ==
    ASSUME NEW x \in Fall, NEW y \in Fall
    PROVE  /\ Larger(x, y) \in {x, y} /\ Larger(x, y) \in Fall
           /\ x.n >= x.d \/ y.n >= y.d => Larger(x, y).n >= Larger(x, y).d
           /\ Larger(x, y).n = 0 <=> x.n = 0 /\ y.n = 0
<1>1. /\ x.n \in Int /\ x.d \in Int /\ x.n >= 0 /\ x.d > 0
      /\ y.n \in Int /\ y.d \in Int /\ y.n >= 0 /\ y.d > 0
  BY DEF Fall
<1> DEFINE xy == x.n * y.d
           yx == y.n * x.d
           dd == x.d * y.d
<1>2. xy \in Int /\ yx \in Int /\ dd \in Int
  BY <1>1
<1>3. /\ x.n >= x.d <=> xy >= dd
      /\ y.n >= y.d <=> yx >= dd
      /\ x.n > 0 <=> xy > 0
      /\ y.n > 0 <=> yx > 0
  BY <1>1, TimesPositive
<1>4. Larger(x, y) = IF xy < yx THEN y ELSE x
  BY DEF Larger, Less
<1> HIDE DEF xy, yx, dd
<1>5. CASE xy < yx
  <2>1. Larger(x, y) = y
    BY <1>4, <1>5
  <2> QED BY <1>1, <1>2, <1>3, <1>5, <2>1
<1>6. CASE ~(xy < yx)
  <2>1. Larger(x, y) = x
    BY <1>4, <1>6
  <2> QED BY <1>1, <1>2, <1>3, <1>6, <2>1
<1> QED BY <1>5, <1>6

CountOf(h, n, direction) == Cardinality({k \in 1..n : h[k].direction = direction})
Outnumbered(h, n) == \E k \in 1..n : CountOf(h, k, "sell") > CountOf(h, k, "buy")

LEMMA CountSteps ==
    ASSUME NEW h \in Seq(LiveSignals), NEW direction
    PROVE  /\ \A i \in 0..Len(h) : CountOf(h, i, direction) \in Nat
           /\ CountOf(h, 0, direction) = 0
           /\ \A i \in 1..Len(h) : CountOf(h, i, direction) =
                CountOf(h, i - 1, direction) + (IF h[i].direction = direction THEN 1 ELSE 0)
<1> DEFINE N(i) == {k \in 1..i : h[k].direction = direction}
<1>1. ASSUME NEW i \in 0..Len(h) PROVE IsFiniteSet(N(i)) /\ Cardinality(N(i)) \in Nat
  <2>1. IsFiniteSet(1..i) /\ N(i) \subseteq 1..i
    BY FS_Interval
  <2>2. IsFiniteSet(N(i))
    BY <2>1, FS_Subset
  <2> QED BY <2>2, FS_CardinalityType
<1>2. Cardinality(N(0)) = 0
  <2>1. N(0) = {}
    OBVIOUS
  <2> QED BY <2>1, FS_EmptySet
<1>3. ASSUME NEW i \in 1..Len(h)
      PROVE  Cardinality(N(i)) = Cardinality(N(i - 1)) + (IF h[i].direction = direction THEN 1 ELSE 0)
  <2>1. i - 1 \in 0..Len(h) /\ i \notin N(i - 1) /\ \A k \in 1..i : k \in 1..(i - 1) \/ k = i
    OBVIOUS
  <2>2. IsFiniteSet(N(i - 1)) /\ Cardinality(N(i - 1)) \in Nat
    BY <1>1, <2>1
  <2>3. \A k \in 1..(i - 1) : k \in 1..i
    OBVIOUS
  <2>4. i \in 1..i
    OBVIOUS
  <2>5. CASE h[i].direction = direction
    <3>1. N(i) = N(i - 1) \cup {i}
      BY <2>1, <2>3, <2>4, <2>5
    <3> HIDE DEF N
    <3> QED BY <2>1, <2>2, <2>5, <3>1, FS_AddElement
  <2>6. CASE h[i].direction # direction
    <3>1. N(i) = N(i - 1)
      BY <2>1, <2>3, <2>6
    <3> HIDE DEF N
    <3> QED BY <2>2, <2>6, <3>1
  <2> QED BY <2>5, <2>6
<1> QED BY <1>1, <1>2, <1>3 DEF CountOf

\* What the walk holds after the i newest signals.
WalkedUpTo(h, i, w) ==
    /\ w.sum \in Int /\ w.peak \in Int /\ w.fall \in Fall
    /\ w.sum = CountOf(h, i, "buy") - CountOf(h, i, "sell")
    /\ w.peak >= 0 /\ w.peak >= w.sum /\ w.peak - w.sum <= CountOf(h, i, "sell")
    /\ Outnumbered(h, i) => w.fall.n >= w.fall.d
    /\ w.fall.n > w.fall.d => Outnumbered(h, i)
    /\ w.fall.n <= CountOf(h, i, "sell") * w.fall.d
    /\ w.fall.n = 0 <=> CountOf(h, i, "sell") = 0

LEMMA WalkStep ==
    ASSUME NEW h \in Seq(LiveSignals), NEW i \in 1..Len(h), NEW w, WalkedUpTo(h, i - 1, w)
    PROVE  WalkedUpTo(h, i, Walk(w, h[i]))
<1> DEFINE s == h[i]
           b == CountOf(h, i - 1, "buy")
           c == CountOf(h, i - 1, "sell")
           bN == CountOf(h, i, "buy")
           cN == CountOf(h, i, "sell")
           sum == w.sum + Value(s.direction)
           top == IF sum > w.peak THEN sum ELSE w.peak
           den == IF top > 1 THEN top ELSE 1
           y == Frac(top - sum, den)
<1>1. /\ s.direction \in {"buy", "sell", "hold"} /\ i \in 0..Len(h) /\ i - 1 \in 0..Len(h)
  BY SignalShape
<1>2. /\ b \in Nat /\ c \in Nat /\ bN \in Nat /\ cN \in Nat
      /\ bN = b + (IF s.direction = "buy" THEN 1 ELSE 0)
      /\ cN = c + (IF s.direction = "sell" THEN 1 ELSE 0)
  BY <1>1, CountSteps
<1>3. /\ w.sum \in Int /\ w.peak \in Int /\ w.fall \in Fall
      /\ w.sum = b - c /\ w.peak >= 0 /\ w.peak >= w.sum /\ w.peak - w.sum <= c
      /\ Outnumbered(h, i - 1) => w.fall.n >= w.fall.d
      /\ w.fall.n > w.fall.d => Outnumbered(h, i - 1)
      /\ w.fall.n <= c * w.fall.d
      /\ w.fall.n = 0 <=> c = 0
  BY DEF WalkedUpTo
<1>4. Value(s.direction) = IF s.direction = "buy" THEN 1 ELSE IF s.direction = "sell" THEN -1 ELSE 0
  BY <1>1 DEF Value
<1>5. Walk(w, s) = [sum |-> sum, peak |-> top, fall |-> Larger(w.fall, y)]
  BY DEF Walk
<1>6. Outnumbered(h, i) <=> Outnumbered(h, i - 1) \/ cN > bN
  <2>1. \A k \in 1..i : k \in 1..(i - 1) \/ k = i
    OBVIOUS
  <2>2. i \in 1..i /\ \A k \in 1..(i - 1) : k \in 1..i
    OBVIOUS
  <2> QED BY <2>1, <2>2 DEF Outnumbered
<1> HIDE DEF s, b, c, bN, cN
<1>7. /\ sum \in Int /\ top \in Int /\ den \in Int /\ den >= 1 /\ den >= top
      /\ den = 1 \/ den = top
      /\ sum = bN - cN /\ top >= 0 /\ top >= sum /\ top - sum <= cN
      /\ cN > c => top > sum
  BY <1>1, <1>2, <1>3, <1>4, SMTT(20)
<1>8. y \in Fall /\ y.n = top - sum /\ y.d = den
  <2> HIDE DEF sum, top, den
  <2> QED BY <1>7 DEF Fall, Frac
<1> HIDE DEF sum, top, den, y
<1>9. /\ cN > bN => y.n >= y.d
      /\ y.n > y.d => cN > bN
      /\ y.n <= cN
      /\ c = 0 /\ y.n = 0 <=> cN = 0
  BY <1>2, <1>7, <1>8
<1> DEFINE fall == Larger(w.fall, y)
<1>10. /\ fall \in {w.fall, y} /\ fall \in Fall
       /\ w.fall.n >= w.fall.d \/ y.n >= y.d => fall.n >= fall.d
       /\ fall.n = 0 <=> w.fall.n = 0 /\ y.n = 0
  BY <1>3, <1>8, LargerFall
<1>11. w.fall.n <= cN * w.fall.d /\ y.n <= cN * y.d
  <2>1. w.fall.d \in Int /\ w.fall.n \in Int /\ w.fall.d > 0 /\ y.n \in Int /\ y.d \in Int /\ y.d > 0
    BY <1>3, <1>8 DEF Fall
  <2> DEFINE old == c * w.fall.d
             new == cN * w.fall.d
             own == cN * y.d
  <2>2. old \in Int /\ new \in Int /\ own \in Int
    <3>1. c \in Int /\ cN \in Int
      BY <1>2
    <3> QED BY <2>1, <3>1
  <2>3. old <= new
    BY <1>2, <2>1, TimesPositive
  <2>4. cN <= own
    BY <1>2, <2>1
  <2>5. w.fall.n <= old
    BY <1>3
  <2> HIDE DEF old, new, own
  <2>6. w.fall.n <= new /\ y.n <= own
    BY <1>2, <1>9, <2>1, <2>2, <2>3, <2>4, <2>5
  <2> QED BY <2>6 DEF new, own
<1>12. fall.n <= cN * fall.d
  BY <1>10, <1>11
<1>13. fall.n = 0 <=> cN = 0
  BY <1>2, <1>3, <1>9, <1>10
<1>14. Outnumbered(h, i) => fall.n >= fall.d
  BY <1>3, <1>6, <1>9, <1>10
<1>15. fall.n > fall.d => Outnumbered(h, i)
  BY <1>3, <1>6, <1>9, <1>10
<1>16. Walk(w, s).sum = sum /\ Walk(w, s).peak = top /\ Walk(w, s).fall = fall
  BY <1>5
<1> HIDE DEF fall
<1> QED BY <1>7, <1>10, <1>12, <1>13, <1>14, <1>15, <1>16 DEF WalkedUpTo, s, bN, cN

LEMMA WalkOfAll ==
    ASSUME NEW h \in Seq(LiveSignals)
    PROVE  WalkedUpTo(h, Len(h), FoldLeft(Walk, [sum |-> 0, peak |-> 0, fall |-> Zero], h))
<1> DEFINE n == Len(h)
           start == [sum |-> 0, peak |-> 0, fall |-> Zero]
<1>1. PICK r : /\ r[0] = start
               /\ \A i \in 1..n : r[i] = Walk(r[i - 1], h[i])
               /\ FoldLeft(Walk, start, h) = r[n]
  BY WalkRun
<1>2. n \in Nat
  OBVIOUS
<1> HIDE DEF n, start
<1> DEFINE S == {i \in 0..n : WalkedUpTo(h, i, r[i])}
<1>3. 0 \in S
  <2>1. start.sum = 0 /\ start.peak = 0 /\ start.fall \in Fall /\ start.fall.n = 0 /\ start.fall.d = 1
    BY DEF start, Zero, Frac, Fall
  <2>2. CountOf(h, 0, "buy") = 0 /\ CountOf(h, 0, "sell") = 0
    BY CountSteps
  <2>3. ~Outnumbered(h, 0)
    BY DEF Outnumbered
  <2>4. WalkedUpTo(h, 0, start)
    BY <2>1, <2>2, <2>3 DEF WalkedUpTo
  <2> QED BY <1>1, <1>2, <2>4
<1>4. ASSUME NEW i \in 1..n, i - 1 \in S PROVE i \in S
  <2>1. WalkedUpTo(h, i - 1, r[i - 1]) /\ i \in 0..n
    BY <1>2, <1>4
  <2>2. WalkedUpTo(h, i, Walk(r[i - 1], h[i]))
    BY <2>1, WalkStep DEF n
  <2> QED BY <1>1, <2>1, <2>2
<1>5. \A i \in 0..n : i \in S
  <2> HIDE DEF S
  <2> QED BY <1>2, <1>3, <1>4, AllUpTo
<1>6. WalkedUpTo(h, n, r[n])
  BY <1>2, <1>5
<1> QED BY <1>1, <1>6 DEF n, start

LEMMA TotalFacts ==
    ASSUME NEW h \in Seq(LiveSignals), NEW direction
    PROVE  /\ Total(direction, h) \in Nat
           /\ Total(direction, h) > 0 => \E k \in 1..Len(h) : h[k].direction = direction
<1> DEFINE n == Len(h)
<1>1. PICK r : /\ r[0] = 0
               /\ \A i \in 1..n : r[i] = Added(direction, r[i - 1], h[i])
               /\ Total(direction, h) = r[n]
  BY AddedRun
<1>2. n \in Nat /\ \A i \in 1..n : h[i] \in LiveSignals
  OBVIOUS
<1> HIDE DEF n
<1> DEFINE S == {i \in 0..n : r[i] \in Nat /\ (r[i] > 0 => \E k \in 1..i : h[k].direction = direction)}
<1>3. 0 \in S
  BY <1>1, <1>2
<1>4. ASSUME NEW i \in 1..n, i - 1 \in S PROVE i \in S
  <2>1. r[i - 1] \in Nat /\ (r[i - 1] > 0 => \E k \in 1..(i - 1) : h[k].direction = direction)
    BY <1>4
  <2>2. r[i] \in Nat
    BY <1>1, <1>2, <2>1, AddedType
  <2>3. CASE h[i].direction = direction
    <3>1. i \in 1..i /\ i \in 0..n
      BY <1>2
    <3> QED BY <2>2, <2>3, <3>1
  <2>4. CASE h[i].direction # direction
    <3>1. r[i] = r[i - 1]
      BY <1>1, <2>1, <2>4 DEF Added
    <3>2. i \in 0..n /\ \A k \in 1..(i - 1) : k \in 1..i
      BY <1>2
    <3> QED BY <2>1, <3>1, <3>2
  <2> QED BY <2>3, <2>4
<1>5. \A i \in 0..n : i \in S
  <2> HIDE DEF S
  <2> QED BY <1>2, <1>3, <1>4, AllUpTo
<1>6. n \in S
  BY <1>2, <1>5
<1> QED BY <1>1, <1>6 DEF n

LEMMA NewestType ==
    ASSUME NEW h \in Seq(LiveSignals) PROVE Newest(h) \in Seq(LiveSignals)
<1> DEFINE last == IF Len(h) < Window THEN Len(h) ELSE Window
           back == Reverse(h)
<1>1. last \in Nat /\ last <= Len(h) /\ Len(h) \in Nat
  BY FiguresAssumption
<1>2. back = [i \in 1..Len(h) |-> h[Len(h) - i + 1]]
  BY DEF Reverse
<1>3. \A i \in 1..Len(h) : back[i] \in LiveSignals
  <2>1. \A i \in 1..Len(h) : Len(h) - i + 1 \in 1..Len(h)
    BY <1>1
  <2> QED BY <1>2, <2>1
<1> HIDE DEF last, back
<1>4. \A i \in 1..last : back[i] \in LiveSignals
  BY <1>1, <1>3
<1>5. SubSeq(back, 1, last) \in Seq(LiveSignals)
  BY <1>1, <1>4, SubSeqProperties
<1> QED BY <1>5 DEF Newest, last, back

\* For histories of any length and a window of any size, the live drawdown tells whether
\* sells ever outnumbered buys going back from the newest signal
\* (src/workers/tasks/metrics_calculator.py).
THEOREM LiveDrawdownTells == FiguresSpec => []LiveDrawdown
<1>1. FiguresInv => LiveDrawdown
  <2> SUFFICES ASSUME FiguresInv, live PROVE LiveDrawdown
    BY DEF LiveDrawdown
  <2> DEFINE recent == Newest(signals)
             fall == FoldLeft(Walk, [sum |-> 0, peak |-> 0, fall |-> Zero], recent).fall
             sells == CountOf(recent, Len(recent), "sell")
             traded == {i \in DOMAIN recent : recent[i].direction # "hold"}
             m == LiveFigures(signals)
  <2>1. recent \in Seq(LiveSignals)
    BY NewestType DEF FiguresInv
  <2>2. /\ m.trade_count = Cardinality(traded) /\ m.max_drawdown = fall
        /\ m.total_return = Total("buy", recent) - Total("sell", recent)
        /\ m.losses = Total("sell", recent)
    BY DEF LiveFigures, Total
  <2> HIDE DEF recent, m
  <2>3. DOMAIN recent = 1..Len(recent) /\ Len(recent) \in Nat
    BY <2>1
  <2>4. /\ fall \in Fall
        /\ Outnumbered(recent, Len(recent)) => fall.n >= fall.d
        /\ fall.n > fall.d => Outnumbered(recent, Len(recent))
        /\ fall.n <= sells * fall.d
        /\ fall.n = 0 <=> sells = 0
    BY <2>1, WalkOfAll DEF WalkedUpTo
  <2> HIDE DEF fall
  <2>5. fall.n \in Int /\ fall.d \in Int /\ sells \in Nat
    <3>1. fall.n \in Int /\ fall.d \in Int
      BY <2>4 DEF Fall
    <3>2. Len(recent) \in 0..Len(recent)
      BY <2>3
    <3> QED BY <2>1, <3>1, <3>2, CountSteps
  <2> HIDE DEF sells
  <2>6. m.total_return < 0 => m.losses > 0 /\ m.trade_count > 0
    <3> SUFFICES ASSUME m.total_return < 0 PROVE m.losses > 0 /\ m.trade_count > 0
      OBVIOUS
    <3>1. Total("buy", recent) \in Nat /\ Total("sell", recent) \in Nat
      BY <2>1, TotalFacts
    <3>2. Total("sell", recent) > 0
      BY <2>2, <3>1
    <3>3. PICK k \in 1..Len(recent) : recent[k].direction = "sell"
      BY <2>1, <3>2, TotalFacts
    <3>4. k \in traded
      BY <2>3, <3>3
    <3>5. IsFiniteSet(traded)
      <4>1. IsFiniteSet(1..Len(recent)) /\ traded \subseteq 1..Len(recent)
        BY <2>3, FS_Interval
      <4> QED BY <4>1, FS_Subset
    <3> HIDE DEF traded
    <3>6. Cardinality(traded) \in Nat /\ Cardinality(traded) # 0
      BY <3>4, <3>5, FS_CardinalityType, FS_EmptySet
    <3> QED BY <2>2, <3>2, <3>6
  <2>7. /\ Outnumbered(recent, Len(recent)) => ~Less(fall, One)
        /\ Less(One, fall) => Outnumbered(recent, Len(recent))
        /\ ~Less(Frac(sells, 1), fall)
    <3>1. Less(fall, One) <=> fall.n < fall.d
      BY <2>5 DEF Less, One, Frac
    <3>2. Less(One, fall) <=> fall.d < fall.n
      BY <2>5 DEF Less, One, Frac
    <3>3. Less(Frac(sells, 1), fall) <=> sells * fall.d < fall.n
      BY <2>5 DEF Less, Frac
    <3> DEFINE product == sells * fall.d
    <3>4. product \in Int /\ fall.n <= product
      BY <2>4, <2>5
    <3> HIDE DEF product
    <3>5. ~(product < fall.n)
      BY <2>5, <3>4
    <3> QED BY <2>4, <2>5, <3>1, <3>2, <3>3, <3>5 DEF product
  <2>8. /\ Outnumbered(recent, Len(recent)) <=>
             \E n \in DOMAIN recent : Cardinality({i \in 1..n : recent[i].direction = "sell"})
                                        > Cardinality({i \in 1..n : recent[i].direction = "buy"})
        /\ sells = Cardinality({i \in 1..Len(recent) : recent[i].direction = "sell"})
    BY <2>3 DEF Outnumbered, CountOf, sells
  <2> QED BY <2>2, <2>4, <2>6, <2>7, <2>8 DEF LiveDrawdown, recent, m
<1> QED BY <1>1, FiguresInductive, PTL

-----------------------------------------------------------------------------
(* The seeds' figures.  A positive total return has a profit factor above  *)
(* 1, because a product of k returns is at most the k-th power of their    *)
(* mean; fractions and powers of numerators are compared by                *)
(* multiplication.                                                         *)

\* The first powers of a number, n of them and 1.
Powers(b, n) == CHOOSE f \in [0..n -> Nat] : f[0] = 1 /\ \A i \in 1..n : f[i] = f[i - 1] * b

LEMMA PowersExist ==
    ASSUME NEW b \in Nat, NEW n \in Nat
    PROVE  /\ Powers(b, n) \in [0..n -> Nat]
           /\ Powers(b, n)[0] = 1
           /\ \A i \in 1..n : Powers(b, n)[i] = Powers(b, n)[i - 1] * b
<1> DEFINE Goes(f, k) == f[0] = 1 /\ \A i \in 1..k : f[i] = f[i - 1] * b
           S == {k \in Nat : \E f \in [0..k -> Nat] : Goes(f, k)}
<1>1. 0 \in S
  <2>1. [i \in 0..0 |-> 1] \in [0..0 -> Nat] /\ Goes([i \in 0..0 |-> 1], 0)
    OBVIOUS
  <2> QED BY <2>1
<1>2. ASSUME NEW k \in S PROVE k + 1 \in S
  <2>1. k \in Nat
    OBVIOUS
  <2>2. PICK f \in [0..k -> Nat] : Goes(f, k)
    OBVIOUS
  <2> DEFINE g == [i \in 0..(k + 1) |-> IF i = k + 1 THEN f[k] * b ELSE f[i]]
  <2>3. f[k] * b \in Nat
    BY <2>1
  <2>4. g \in [0..(k + 1) -> Nat]
    BY <2>1, <2>3
  <2>5. g[0] = 1
    BY <2>1, <2>2
  <2>6. ASSUME NEW i \in 1..(k + 1) PROVE g[i] = g[i - 1] * b
    BY <2>1, <2>2
  <2> HIDE DEF g
  <2>7. Goes(g, k + 1)
    BY <2>5, <2>6
  <2>8. k + 1 \in Nat
    BY <2>1
  <2> HIDE DEF Goes
  <2> QED BY <2>4, <2>7, <2>8
<1>3. S = Nat
  <2> HIDE DEF S
  <2>1. S \in SUBSET Nat
    BY DEF S
  <2>2. \A k \in S : k + 1 \in S
    BY <1>2
  <2> QED BY <1>1, <2>1, <2>2, AllNumbers
<1>4. \E f \in [0..n -> Nat] : Goes(f, n)
  BY <1>3
<1> QED BY <1>4 DEF Powers

LEMMA PowersGrow ==
    ASSUME NEW x \in Nat, NEW y \in Nat, NEW n \in Nat, x <= y
    PROVE  \A i \in 0..n : Powers(x, n)[i] <= Powers(y, n)[i]
<1> DEFINE X == Powers(x, n)
           Y == Powers(y, n)
           S == {i \in 0..n : X[i] <= Y[i]}
<1>1. /\ X \in [0..n -> Nat] /\ X[0] = 1 /\ \A i \in 1..n : X[i] = X[i - 1] * x
      /\ Y \in [0..n -> Nat] /\ Y[0] = 1 /\ \A i \in 1..n : Y[i] = Y[i - 1] * y
  BY PowersExist
<1> HIDE DEF X, Y
<1>2. 0 \in S
  BY <1>1
<1>3. ASSUME NEW i \in 1..n, i - 1 \in S PROVE i \in S
  <2>1. i - 1 \in 0..n /\ i \in 0..n /\ X[i - 1] \in Nat /\ Y[i - 1] \in Nat
    BY <1>1
  <2>2. X[i - 1] <= Y[i - 1]
    BY <1>3
  <2>3. X[i - 1] * x <= Y[i - 1] * y
    BY <2>1, <2>2
  <2> QED BY <1>1, <2>1, <2>3
<1>4. \A i \in 0..n : i \in S
  <2> HIDE DEF S
  <2> QED BY <1>2, <1>3, AllUpTo
<1> QED BY <1>4 DEF X, Y

LEMMA PowersPositive ==
    ASSUME NEW x \in Nat, NEW n \in Nat, x > 0
    PROVE  \A i \in 0..n : Powers(x, n)[i] > 0
<1> DEFINE X == Powers(x, n)
           S == {i \in 0..n : X[i] > 0}
<1>1. X \in [0..n -> Nat] /\ X[0] = 1 /\ \A i \in 1..n : X[i] = X[i - 1] * x
  BY PowersExist
<1> HIDE DEF X
<1>2. 0 \in S
  BY <1>1
<1>3. ASSUME NEW i \in 1..n, i - 1 \in S PROVE i \in S
  <2>1. i - 1 \in 0..n /\ i \in 0..n /\ X[i - 1] \in Nat
    BY <1>1
  <2>2. X[i - 1] > 0
    BY <1>3
  <2>3. X[i - 1] * x > 0
    BY <2>1, <2>2
  <2> QED BY <1>1, <2>1, <2>3
<1>4. \A i \in 0..n : i \in S
  <2> HIDE DEF S
  <2> QED BY <1>2, <1>3, AllUpTo
<1> QED BY <1>4 DEF X

LEMMA PowersOfProduct ==
    ASSUME NEW x \in Nat, NEW y \in Nat, NEW n \in Nat
    PROVE  \A i \in 0..n : Powers(x * y, n)[i] = Powers(x, n)[i] * Powers(y, n)[i]
<1> DEFINE X == Powers(x, n)
           Y == Powers(y, n)
           Z == Powers(x * y, n)
           S == {i \in 0..n : Z[i] = X[i] * Y[i]}
<1>1. /\ X \in [0..n -> Nat] /\ X[0] = 1 /\ \A i \in 1..n : X[i] = X[i - 1] * x
      /\ Y \in [0..n -> Nat] /\ Y[0] = 1 /\ \A i \in 1..n : Y[i] = Y[i - 1] * y
  BY PowersExist
<1>2. Z \in [0..n -> Nat] /\ Z[0] = 1 /\ \A i \in 1..n : Z[i] = Z[i - 1] * (x * y)
  <2>1. x * y \in Nat
    OBVIOUS
  <2> QED BY <2>1, PowersExist
<1> HIDE DEF X, Y, Z
<1>3. 0 \in S
  BY <1>1, <1>2
<1>4. ASSUME NEW i \in 1..n, i - 1 \in S PROVE i \in S
  <2>1. i - 1 \in 0..n /\ i \in 0..n /\ X[i - 1] \in Nat /\ Y[i - 1] \in Nat
    BY <1>1
  <2>2. Z[i - 1] = X[i - 1] * Y[i - 1]
    BY <1>4
  <2>3. Z[i - 1] * (x * y) = (X[i - 1] * x) * (Y[i - 1] * y)
    BY <2>1, <2>2
  <2> QED BY <1>1, <1>2, <2>1, <2>3
<1>5. \A i \in 0..n : i \in S
  <2> HIDE DEF S
  <2> QED BY <1>3, <1>4, AllUpTo
<1> QED BY <1>5 DEF X, Y, Z

\* A power lies above its tangents.
LEMMA Tangent ==
    ASSUME NEW x \in Nat, NEW y \in Nat, NEW n \in Nat
    PROVE  \A i \in 1..n : Powers(y, n)[i] + (i * (x - y)) * Powers(y, n)[i - 1] <= Powers(x, n)[i]
<1> DEFINE X == Powers(x, n)
           Y == Powers(y, n)
           S == {i \in 0..n : i > 0 => Y[i] + (i * (x - y)) * Y[i - 1] <= X[i]}
<1>1. /\ X \in [0..n -> Nat] /\ X[0] = 1 /\ \A i \in 1..n : X[i] = X[i - 1] * x
      /\ Y \in [0..n -> Nat] /\ Y[0] = 1 /\ \A i \in 1..n : Y[i] = Y[i - 1] * y
  BY PowersExist
<1> HIDE DEF X, Y
<1>2. 0 \in S
  OBVIOUS
<1>3. ASSUME NEW i \in 1..n, i - 1 \in S PROVE i \in S
  <2>1. i - 1 \in 0..n /\ i \in 0..n /\ i \in Nat
    OBVIOUS
  <2>2. X[i] = X[i - 1] * x /\ Y[i] = Y[i - 1] * y /\ X[i - 1] \in Nat /\ Y[i - 1] \in Nat
    BY <1>1, <2>1
  <2>3. CASE i = 1
    <3>1. X[i] = x /\ Y[i] = y /\ Y[i - 1] = 1
      BY <1>1, <2>1, <2>2, <2>3
    <3>2. y + (1 * (x - y)) * 1 <= x
      OBVIOUS
    <3> QED BY <2>1, <2>3, <3>1, <3>2
  <2>4. CASE i # 1
    <3>1. i - 1 \in 1..n /\ i - 2 \in 0..n /\ (i - 1) - 1 = i - 2
      BY <2>4
    <3>2. Y[i - 1] = Y[i - 2] * y /\ Y[i - 2] \in Nat
      BY <1>1, <3>1
    <3>3. Y[i - 1] + ((i - 1) * (x - y)) * Y[i - 2] <= X[i - 1]
      BY <1>3, <3>1
    <3> DEFINE a == Y[i - 2]
               b == X[i - 1]
    <3>4. a \in Nat /\ b \in Nat /\ a * y + ((i - 1) * (x - y)) * a <= b
      BY <2>2, <3>2, <3>3
    <3> HIDE DEF a, b
    <3>5. (a * y) * y + (i * (x - y)) * (a * y) <= b * x
      <4>1. (a * y + ((i - 1) * (x - y)) * a) * x <= b * x
        BY <2>1, <3>4
      <4>2. (a * y + ((i - 1) * (x - y)) * a) * x
              = (a * y) * y + (i * (x - y)) * (a * y) + ((i - 1) * a) * ((x - y) * (x - y))
        BY <2>1, <3>4
      <4>3. ((i - 1) * a) * ((x - y) * (x - y)) >= 0
        <5>1. (i - 1) * a \in Nat /\ (x - y) * (x - y) \in Nat
          BY <2>1, <3>4
        <5> QED BY <5>1
      <4> QED BY <2>1, <3>4, <4>1, <4>2, <4>3
    <3>6. Y[i] + (i * (x - y)) * Y[i - 1] <= X[i]
      BY <2>2, <3>2, <3>5 DEF a, b
    <3> QED BY <2>1, <3>6
  <2> QED BY <2>3, <2>4
<1>4. \A i \in 0..n : i \in S
  <2> HIDE DEF S
  <2> QED BY <1>2, <1>3, AllUpTo
<1>5. ASSUME NEW i \in 1..n PROVE i \in 0..n /\ i > 0
  OBVIOUS
<1> QED BY <1>4, <1>5 DEF X, Y

\* A product of k factors with sum u and one more factor v, against the mean of them all.
LEMMA MeansStep ==
    ASSUME NEW n \in Nat, NEW k \in 0..(n - 1), NEW u \in Nat, NEW v \in Nat
    PROVE  (Powers(k + 1, n)[k + 1] * Powers(u, n)[k]) * v
             <= Powers(k, n)[k] * Powers(u + v, n)[k + 1]
<1>1. /\ k \in Nat /\ k + 1 \in Nat /\ k + 1 \in 1..n /\ k \in 0..n /\ k + 1 \in 0..n
      /\ (k + 1) - 1 = k /\ u + v \in Nat /\ k * (u + v) \in Nat /\ (k + 1) * u \in Nat
  OBVIOUS
<1>2. CASE k = 0
  <2>1. /\ \A b \in Nat : Powers(b, n)[0] = 1
        /\ \A b \in Nat : Powers(b, n)[1] = Powers(b, n)[0] * b
    <3>1. 1 \in 1..n /\ 1 - 1 = 0
      BY <1>1, <1>2
    <3>2. ASSUME NEW b \in Nat
          PROVE  Powers(b, n)[0] = 1 /\ \A i \in 1..n : Powers(b, n)[i] = Powers(b, n)[i - 1] * b
      BY PowersExist
    <3> QED BY <3>1, <3>2
  <2>2. /\ Powers(1, n)[1] = 1 /\ Powers(u, n)[0] = 1 /\ Powers(0, n)[0] = 1
        /\ Powers(u + v, n)[1] = u + v
    <3>1. Powers(1, n)[1] = 1 * 1
      BY <2>1
    <3>2. Powers(u + v, n)[1] = 1 * (u + v)
      BY <1>1, <2>1
    <3> QED BY <1>1, <2>1, <3>1, <3>2
  <2>3. (1 * 1) * v <= 1 * (u + v)
    OBVIOUS
  <2> QED BY <1>2, <2>2, <2>3
<1>3. CASE k # 0
  <2> DEFINE K == Powers(k, n)[k]
             M == Powers(k + 1, n)[k]
             U == Powers(u, n)[k]
             W == Powers(u + v, n)[k + 1]
  <2>0. ASSUME NEW b \in Nat
        PROVE  /\ \A i \in 0..n : Powers(b, n)[i] \in Nat
               /\ Powers(b, n)[k + 1] = Powers(b, n)[k] * b
    <3>1. Powers(b, n) \in [0..n -> Nat] /\ \A i \in 1..n : Powers(b, n)[i] = Powers(b, n)[i - 1] * b
      BY PowersExist
    <3> QED BY <1>1, <3>1
  <2>1. K \in Nat /\ M \in Nat /\ U \in Nat /\ W \in Nat
    BY <1>1, <2>0
  <2>2. Powers(k, n)[k + 1] = K * k /\ Powers(k + 1, n)[k + 1] = M * (k + 1)
    BY <1>1, <2>0
  <2>3. Powers(k * (u + v), n)[k + 1] = (K * k) * W
    <3>1. Powers(k * (u + v), n)[k + 1] = Powers(k, n)[k + 1] * Powers(u + v, n)[k + 1]
      <4>1. \A i \in 0..n : Powers(k * (u + v), n)[i] = Powers(k, n)[i] * Powers(u + v, n)[i]
        BY <1>1, PowersOfProduct
      <4> QED BY <1>1, <4>1
    <3> QED BY <2>2, <3>1
  <2>4. Powers((k + 1) * u, n)[k] = M * U
    BY <1>1, PowersOfProduct
  <2>5. Powers((k + 1) * u, n)[k + 1] = (M * U) * ((k + 1) * u)
    <3> DEFINE b == (k + 1) * u
    <3>1. b \in Nat
      BY <1>1
    <3> HIDE DEF b
    <3>2. Powers(b, n)[k + 1] = Powers(b, n)[k] * b
      BY <1>1, <3>1, PowersExist
    <3> QED BY <2>4, <3>2 DEF b
  <2>6. Powers((k + 1) * u, n)[k + 1]
          + ((k + 1) * (k * (u + v) - (k + 1) * u)) * Powers((k + 1) * u, n)[k]
          <= Powers(k * (u + v), n)[k + 1]
    BY <1>1, Tangent
  <2> HIDE DEF K, M, U, W
  <2>7. (M * U) * ((k + 1) * u) + ((k + 1) * (k * (u + v) - (k + 1) * u)) * (M * U) <= (K * k) * W
    BY <2>3, <2>4, <2>5, <2>6
  <2>8. (M * U) * ((k + 1) * u) + ((k + 1) * (k * (u + v) - (k + 1) * u)) * (M * U)
          = (((M * (k + 1)) * U) * v) * k
    BY <1>1, <2>1
  <2>9. (((M * (k + 1)) * U) * v) * k <= (K * W) * k
    BY <1>1, <2>1, <2>7, <2>8
  <2>10. ((M * (k + 1)) * U) * v <= K * W
    BY <1>1, <1>3, <2>1, <2>9
  <2> QED BY <2>2, <2>10 DEF K, M, U, W
<1> QED BY <1>2, <1>3

\* What the loop over a pair's trades holds: fractions with positive denominators, where the
\* peak is at least 1 and the deepest fall is below 1 and covers what has been lost so far.
Deals == (Nat \ {0}) \X (Nat \ {0})
Fractions == [n : Int, d : Int]
Books == [cumulative : Fractions, peak : Fractions, fall : Fractions,
          gain : Fractions, loss : Fractions]

FallCovers(acc) ==
    /\ acc.cumulative.n > 0 /\ acc.cumulative.d > 0
    /\ acc.peak.d > 0 /\ acc.peak.n >= acc.peak.d
    /\ acc.fall.n >= 0 /\ acc.fall.d > 0 /\ acc.fall.n < acc.fall.d
    /\ (acc.cumulative.d - acc.cumulative.n) * acc.fall.d <= acc.fall.n * acc.cumulative.d

\* The sum of the factors 1 + r of k trades, over the denominator Over(acc); and what has
\* been compounded is at most the k-th power of their mean.
Over(acc) == acc.gain.d * acc.loss.d
Balance(acc) == acc.gain.n * acc.loss.d - acc.loss.n * acc.gain.d
Factors(acc, k) == Balance(acc) + k * Over(acc)

MeanBounds(acc, k, n) ==
    /\ acc.gain.n >= 0 /\ acc.gain.d > 0
    /\ acc.loss.n >= 0 /\ acc.loss.d > 0
    /\ Factors(acc, k) >= 0
    /\ acc.cumulative.n * Powers(k * Over(acc), n)[k]
         <= acc.cumulative.d * Powers(Factors(acc, k), n)[k]

\* One trade with entry price p and exit price e.
LEMMA BookShape ==
    ASSUME NEW acc \in Books, NEW trade \in Deals
    PROVE  LET p == trade[1]
               e == trade[2]
               r == Frac(e - p, p)
               now == Frac(acc.cumulative.n * e, acc.cumulative.d * p)
               top == Larger(acc.peak, now)
           IN Book(acc, trade) =
                [cumulative |-> now, peak |-> top,
                 fall |-> Larger(acc.fall, Div(Sub(top, now), top)),
                 gain |-> IF e > p THEN Add(acc.gain, r) ELSE acc.gain,
                 loss |-> IF e > p THEN acc.loss ELSE Add(acc.loss, Frac(p - e, p))]
<1> DEFINE p == trade[1]
           e == trade[2]
           r == Frac(e - p, p)
           now == Frac(acc.cumulative.n * e, acc.cumulative.d * p)
<1>1. p \in Nat /\ e \in Nat /\ acc.cumulative.n \in Int /\ acc.cumulative.d \in Int
  BY DEF Deals, Books, Fractions
<1>2. Return(trade) = r
  BY DEF Return
<1>3. Mul(acc.cumulative, Add(One, r)) = now
  <2>1. Add(One, r) = Frac(e, p)
    <3>1. 1 * p + (e - p) * 1 = e /\ 1 * p = p
      BY <1>1
    <3> QED BY <3>1 DEF Add, One, Frac
  <2> QED BY <2>1 DEF Mul, Frac
<1>4. (r.n > 0 <=> e > p) /\ (~(e > p) => Abs(r) = Frac(p - e, p))
  <2>1. r.n = e - p /\ r.d = p
    BY DEF Frac
  <2>2. r.n > 0 <=> e > p
    BY <1>1, <2>1
  <2>3. CASE e < p
    <3>1. r.n < 0 /\ -(e - p) = p - e
      BY <1>1, <2>1, <2>3
    <3> QED BY <2>1, <2>2, <3>1 DEF Abs
  <2>4. CASE ~(e < p)
    <3>1. ~(r.n < 0) /\ (~(e > p) => p - e = e - p)
      BY <1>1, <2>1, <2>4
    <3> QED BY <2>2, <3>1 DEF Abs
  <2> QED BY <2>3, <2>4
<1> HIDE DEF p, e, r, now
<1>5. Book(acc, trade) =
        [cumulative |-> now, peak |-> Larger(acc.peak, now),
         fall |-> Larger(acc.fall, Div(Sub(Larger(acc.peak, now), now), Larger(acc.peak, now))),
         gain |-> IF e > p THEN Add(acc.gain, r) ELSE acc.gain,
         loss |-> IF e > p THEN acc.loss ELSE Add(acc.loss, Frac(p - e, p))]
  <2>1. CASE e > p
    BY <1>2, <1>3, <1>4, <2>1 DEF Book
  <2>2. CASE ~(e > p)
    BY <1>2, <1>3, <1>4, <2>2 DEF Book
  <2> QED BY <2>1, <2>2
<1> QED BY <1>5 DEF p, e, r, now

LEMMA BookType == \A acc \in Books, trade \in Deals : Book(acc, trade) \in Books
<1> SUFFICES ASSUME NEW acc \in Books, NEW trade \in Deals PROVE Book(acc, trade) \in Books
  OBVIOUS
<1>1. \A x, y \in Fractions : /\ Add(x, y) \in Fractions /\ Sub(x, y) \in Fractions
                              /\ Div(x, y) \in Fractions /\ Mul(x, y) \in Fractions
                              /\ Larger(x, y) \in Fractions
  BY DEF Add, Sub, Div, Mul, Larger, Frac, Fractions
<1>2. \A a, b \in Int : Frac(a, b) \in Fractions
  BY DEF Frac, Fractions
<1> DEFINE p == trade[1]
           e == trade[2]
           now == Frac(acc.cumulative.n * e, acc.cumulative.d * p)
           top == Larger(acc.peak, now)
<1>3. /\ p \in Nat /\ e \in Nat /\ acc.cumulative \in Fractions /\ acc.peak \in Fractions
      /\ acc.fall \in Fractions /\ acc.gain \in Fractions /\ acc.loss \in Fractions
  BY DEF Deals, Books
<1>4. now \in Fractions
  BY <1>3 DEF Frac, Fractions
<1>5. Book(acc, trade) =
        [cumulative |-> now, peak |-> top,
         fall |-> Larger(acc.fall, Div(Sub(top, now), top)),
         gain |-> IF e > p THEN Add(acc.gain, Frac(e - p, p)) ELSE acc.gain,
         loss |-> IF e > p THEN acc.loss ELSE Add(acc.loss, Frac(p - e, p))]
  BY BookShape
<1> HIDE DEF p, e, now
<1>6. top \in Fractions
  BY <1>1, <1>3, <1>4
<1> HIDE DEF top
<1>7. Larger(acc.fall, Div(Sub(top, now), top)) \in Fractions
  BY <1>1, <1>3, <1>4, <1>6
<1>8. /\ e - p \in Int /\ p - e \in Int /\ Add(acc.gain, Frac(e - p, p)) \in Fractions
      /\ Add(acc.loss, Frac(p - e, p)) \in Fractions
  BY <1>1, <1>2, <1>3
<1> QED BY <1>3, <1>4, <1>5, <1>6, <1>7, <1>8 DEF Books

\* A trade leaves the deepest fall below 1 and no less than what has been lost.
LEMMA FallStep ==
    ASSUME NEW acc \in Books, NEW trade \in Deals, FallCovers(acc)
    PROVE  FallCovers(Book(acc, trade))
<1> DEFINE p == trade[1]
           e == trade[2]
           now == Frac(acc.cumulative.n * e, acc.cumulative.d * p)
           top == Larger(acc.peak, now)
           down == Div(Sub(top, now), top)
           fall == Larger(acc.fall, down)
<1>1. /\ p \in Nat /\ e \in Nat /\ p > 0 /\ e > 0
      /\ acc.cumulative.n \in Nat /\ acc.cumulative.d \in Nat
      /\ acc.peak.n \in Nat /\ acc.peak.d \in Nat
      /\ acc.fall.n \in Nat /\ acc.fall.d \in Nat
  BY DEF Deals, Books, Fractions, FallCovers
<1>2. /\ Book(acc, trade).cumulative = now /\ Book(acc, trade).peak = top
      /\ Book(acc, trade).fall = fall
  BY BookShape
<1>3. now.n \in Nat /\ now.n > 0 /\ now.d \in Nat /\ now.d > 0
  BY <1>1 DEF Frac, FallCovers
<1> HIDE DEF now
<1>4. /\ top.n \in Nat /\ top.d \in Nat /\ top.d > 0 /\ top.n >= top.d
      /\ now.n * top.d <= top.n * now.d
  <2> DEFINE x == acc.peak.n * now.d
             y == now.n * acc.peak.d
  <2>1. x \in Int /\ y \in Int
    BY <1>1, <1>3
  <2>2. CASE x < y
    <3>1. top = now
      BY <2>2 DEF Larger, Less
    <3>2. now.n >= now.d
      <4>1. now.d * acc.peak.d <= x
        BY <1>1, <1>3 DEF FallCovers
      <4>2. now.d * acc.peak.d < now.n * acc.peak.d
        BY <1>1, <1>3, <2>1, <2>2, <4>1
      <4> QED BY <1>1, <1>3, <4>2 DEF FallCovers
    <3> QED BY <1>3, <3>1, <3>2
  <2>3. CASE ~(x < y)
    <3>1. top = acc.peak
      BY <2>3 DEF Larger, Less
    <3>2. now.n * acc.peak.d <= acc.peak.n * now.d
      BY <2>1, <2>3
    <3> QED BY <1>1, <3>1, <3>2 DEF FallCovers
  <2> QED BY <2>2, <2>3
<1> HIDE DEF top
<1>5. down = Frac((top.n * now.d - now.n * top.d) * top.d, (top.d * now.d) * top.n)
  BY DEF Div, Sub, Frac
<1>6. /\ down.n \in Nat /\ down.d \in Nat /\ down.d > 0 /\ down.n < down.d
      /\ (now.d - now.n) * down.d <= down.n * now.d
  <2> DEFINE a == top.n
             b == top.d
             c == now.n
             d == now.d
  <2>1. /\ a \in Nat /\ b \in Nat /\ c \in Nat /\ d \in Nat
        /\ a > 0 /\ b > 0 /\ c > 0 /\ d > 0 /\ c * b <= a * d /\ b <= a
    BY <1>3, <1>4
  <2>2. down.n = (a * d - c * b) * b /\ down.d = (b * d) * a
    BY <1>5 DEF Frac
  <2> HIDE DEF a, b, c, d
  <2>3. /\ (a * d - c * b) * b \in Nat /\ (b * d) * a \in Nat /\ (b * d) * a > 0
        /\ (a * d - c * b) * b < (b * d) * a
        /\ (d - c) * ((b * d) * a) <= ((a * d - c * b) * b) * d
    BY <2>1
  <2> QED BY <2>2, <2>3 DEF c, d
<1> HIDE DEF down
<1>7. fall.n \in Nat /\ fall.d \in Nat /\ fall.d > 0 /\ fall.n < fall.d
      /\ down.n * fall.d <= fall.n * down.d
  <2> DEFINE x == acc.fall.n * down.d
             y == down.n * acc.fall.d
  <2>1. x \in Int /\ y \in Int
    BY <1>1, <1>6
  <2>2. CASE x < y
    <3>1. fall = down
      BY <2>2 DEF Larger, Less
    <3> QED BY <1>6, <3>1
  <2>3. CASE ~(x < y)
    <3>1. fall = acc.fall
      BY <2>3 DEF Larger, Less
    <3>2. down.n * acc.fall.d <= acc.fall.n * down.d
      BY <2>1, <2>3
    <3> QED BY <1>1, <3>1, <3>2 DEF FallCovers
  <2> QED BY <2>2, <2>3
<1> HIDE DEF fall
<1>8. (now.d - now.n) * fall.d <= fall.n * now.d
  <2> DEFINE a == now.d - now.n
             d == now.d
             x == down.n
             y == down.d
             f == fall.n
             g == fall.d
  <2>1. /\ a \in Int /\ d \in Nat /\ x \in Nat /\ y \in Nat /\ f \in Nat /\ g \in Nat
        /\ d > 0 /\ y > 0 /\ g > 0 /\ a * y <= x * d /\ x * g <= f * y
    BY <1>3, <1>6, <1>7
  <2> HIDE DEF a, d, x, y, f, g
  <2>2. (a * y) * g <= (x * d) * g /\ (x * g) * d <= (f * y) * d
    BY <2>1
  <2>3. (a * g) * y <= (f * d) * y
    BY <2>1, <2>2
  <2>4. a * g <= f * d
    BY <2>1, <2>3
  <2> QED BY <2>4 DEF a, d, f, g
<1> QED BY <1>2, <1>3, <1>4, <1>7, <1>8 DEF FallCovers

\* A trade adds its factor to the sum, and what is compounded stays bounded by the mean.
LEMMA MeanBoundStep ==
    ASSUME NEW n \in Nat, NEW k \in 0..(n - 1), NEW acc \in Books, NEW trade \in Deals,
           acc.cumulative.n > 0, acc.cumulative.d > 0, MeanBounds(acc, k, n)
    PROVE  MeanBounds(Book(acc, trade), k + 1, n)
<1> DEFINE p == trade[1]
           e == trade[2]
           new == Book(acc, trade)
           q == Over(acc)
           s == Balance(acc)
           t == Factors(acc, k)
           cn == acc.cumulative.n
           cd == acc.cumulative.d
<1>1. /\ p \in Nat /\ e \in Nat /\ p > 0 /\ e > 0 /\ cn \in Nat /\ cd \in Nat
      /\ acc.gain.n \in Nat /\ acc.gain.d \in Nat /\ acc.loss.n \in Nat /\ acc.loss.d \in Nat
      /\ acc.gain.d > 0 /\ acc.loss.d > 0 /\ k \in Nat
  BY DEF Deals, Books, Fractions, MeanBounds
<1>2. /\ new.cumulative = Frac(cn * e, cd * p)
      /\ new.gain = IF e > p THEN Add(acc.gain, Frac(e - p, p)) ELSE acc.gain
      /\ new.loss = IF e > p THEN acc.loss ELSE Add(acc.loss, Frac(p - e, p))
  BY BookShape
<1>3. new.cumulative.n = cn * e /\ new.cumulative.d = cd * p
  BY <1>2 DEF Frac
<1>4. /\ new.gain.n \in Nat /\ new.gain.d \in Nat /\ new.gain.d > 0
      /\ new.loss.n \in Nat /\ new.loss.d \in Nat /\ new.loss.d > 0
      /\ Over(new) = q * p
      /\ Balance(new) = s * p + (e - p) * q
  <2> DEFINE gn == acc.gain.n
             gd == acc.gain.d
             ln == acc.loss.n
             ld == acc.loss.d
  <2>1. gn \in Nat /\ gd \in Nat /\ ln \in Nat /\ ld \in Nat /\ gd > 0 /\ ld > 0
    BY <1>1
  <2>2. q = gd * ld /\ s = gn * ld - ln * gd
    BY DEF Over, Balance
  <2>3. CASE e > p
    <3>1. /\ new.gain.n = gn * p + (e - p) * gd /\ new.gain.d = gd * p
          /\ new.loss.n = ln /\ new.loss.d = ld
      BY <1>2, <2>3 DEF Add, Frac
    <3>2. Over(new) = (gd * p) * ld /\ Balance(new) = (gn * p + (e - p) * gd) * ld - ln * (gd * p)
      BY <3>1 DEF Over, Balance
    <3> HIDE DEF gn, gd, ln, ld, new, q, s
    <3>3. gn * p + (e - p) * gd \in Nat /\ gd * p \in Nat /\ gd * p > 0
      <4>1. e - p \in Nat
        BY <1>1, <2>3
      <4>2. \A a \in Nat : gn * p + a * gd \in Nat
        BY <1>1, <2>1
      <4> QED BY <1>1, <2>1, <4>1, <4>2
    <3>4. (gd * p) * ld = (gd * ld) * p
      BY <1>1, <2>1
    <3>5. (gn * p + (e - p) * gd) * ld - ln * (gd * p)
            = (gn * ld - ln * gd) * p + (e - p) * (gd * ld)
      BY <1>1, <2>1
    <3> QED BY <2>1, <2>2, <3>1, <3>2, <3>3, <3>4, <3>5
  <2>4. CASE ~(e > p)
    <3>1. /\ new.loss.n = ln * p + (p - e) * ld /\ new.loss.d = ld * p
          /\ new.gain.n = gn /\ new.gain.d = gd
      BY <1>2, <2>4 DEF Add, Frac
    <3>2. Over(new) = gd * (ld * p) /\ Balance(new) = gn * (ld * p) - (ln * p + (p - e) * ld) * gd
      BY <3>1 DEF Over, Balance
    <3> HIDE DEF gn, gd, ln, ld, new, q, s
    <3>3. ln * p + (p - e) * ld \in Nat /\ ld * p \in Nat /\ ld * p > 0
      <4>1. p - e \in Nat
        BY <1>1, <2>4
      <4>2. \A a \in Nat : ln * p + a * ld \in Nat
        BY <1>1, <2>1
      <4> QED BY <1>1, <2>1, <4>1, <4>2
    <3>4. gd * (ld * p) = (gd * ld) * p
      BY <1>1, <2>1
    <3>5. gn * (ld * p) - (ln * p + (p - e) * ld) * gd
            = (gn * ld - ln * gd) * p + (e - p) * (gd * ld)
      BY <1>1, <2>1
    <3> QED BY <2>1, <2>2, <3>1, <3>2, <3>3, <3>4, <3>5
  <2> QED BY <2>3, <2>4
<1>5. /\ q \in Nat /\ q > 0 /\ s \in Int /\ t = s + k * q /\ t \in Nat
      /\ cn * Powers(k * q, n)[k] <= cd * Powers(t, n)[k]
  <2>1. q \in Nat /\ q > 0 /\ s \in Int
    BY <1>1 DEF Over, Balance
  <2>2. t = s + k * q
    BY DEF Factors
  <2> HIDE DEF q, s
  <2>3. t \in Nat
    BY <1>1, <2>1, <2>2 DEF MeanBounds
  <2> QED BY <2>1, <2>2, <2>3 DEF MeanBounds, q
<1> DEFINE u == t * p
           v == e * q
<1>6. Factors(new, k + 1) = u + v
  <2>1. Factors(new, k + 1) = (s * p + (e - p) * q) + (k + 1) * (q * p)
    BY <1>4 DEF Factors
  <2> HIDE DEF q, s, t, new, p, e
  <2>2. (s * p + (e - p) * q) + (k + 1) * (q * p) = (s + k * q) * p + e * q
    BY <1>1, <1>5
  <2> QED BY <1>5, <2>1, <2>2
<1> HIDE DEF p, e, new, q, s, t, cn, cd
<1>7. u \in Nat /\ v \in Nat /\ u + v \in Nat
  BY <1>1, <1>5
<1>8. (cn * e) * Powers((k + 1) * (q * p), n)[k + 1] <= (cd * p) * Powers(u + v, n)[k + 1]
  <2> DEFINE K == Powers(k, n)[k]
             M == Powers(k + 1, n)[k + 1]
             Q == Powers(q, n)[k]
             P == Powers(p, n)[k]
             T == Powers(t, n)[k]
             W == Powers(u + v, n)[k + 1]
  <2>1. k \in 0..n /\ k + 1 \in 0..n /\ k + 1 \in 1..n /\ (k + 1) - 1 = k /\ k + 1 \in Nat
    OBVIOUS
  <2>a. \A b \in Nat : /\ \A i \in 0..n : Powers(b, n)[i] \in Nat
                       /\ Powers(b, n)[0] = 1
                       /\ \A i \in 1..n : Powers(b, n)[i] = Powers(b, n)[i - 1] * b
    BY PowersExist
  <2>b. \A a, b \in Nat : \A i \in 0..n : Powers(a * b, n)[i] = Powers(a, n)[i] * Powers(b, n)[i]
    BY PowersOfProduct
  <2>c. p \in Nat /\ q \in Nat /\ t \in Nat /\ k \in Nat
    BY <1>1, <1>5
  <2>2. K \in Nat /\ M \in Nat /\ Q \in Nat /\ P \in Nat /\ T \in Nat /\ W \in Nat
    BY <1>7, <2>1, <2>a, <2>c
  <2>3. K > 0
    <3>1. CASE k = 0
      BY <2>a, <2>c, <3>1
    <3>2. CASE k # 0
      BY <1>1, <2>1, <3>2, PowersPositive
    <3> QED BY <3>1, <3>2
  <2>4. Powers(k * q, n)[k] = K * Q
    BY <2>1, <2>b, <2>c
  <2>5. Powers(u, n)[k] = T * P
    BY <2>1, <2>b, <2>c
  <2>6. Powers((k + 1) * (q * p), n)[k + 1] = M * ((Q * q) * (P * p))
    <3>1. \A i \in 0..n : Powers((k + 1) * (q * p), n)[i] = Powers(k + 1, n)[i] * Powers(q * p, n)[i]
      <4>1. q * p \in Nat
        BY <1>1, <1>5
      <4> QED BY <2>1, <4>1, PowersOfProduct
    <3>2. \A i \in 0..n : Powers(q * p, n)[i] = Powers(q, n)[i] * Powers(p, n)[i]
      BY <1>1, <1>5, PowersOfProduct
    <3>3. Powers(q, n)[k + 1] = Q * q /\ Powers(p, n)[k + 1] = P * p
      BY <2>1, <2>a, <2>c
    <3> QED BY <2>1, <3>1, <3>2, <3>3
  <2>7. (M * (T * P)) * (e * q) <= K * W
    <3>1. (M * Powers(u, n)[k]) * v <= K * W
      <4> HIDE DEF u, v
      <4> QED BY <1>7, MeansStep
    <3> QED BY <2>5, <3>1
  <2>8. cn * (K * Q) <= cd * T
    BY <1>5, <2>4
  <2> HIDE DEF K, M, Q, P, T, W
  <2>9. (cn * e) * (M * ((Q * q) * (P * p))) <= (cd * p) * W
    BY <1>1, <1>5, <2>2, <2>3, <2>7, <2>8
  <2> QED BY <2>6, <2>9 DEF W
<1>9. (cn * e) * Powers((k + 1) * Over(new), n)[k + 1]
        <= (cd * p) * Powers(Factors(new, k + 1), n)[k + 1]
  BY <1>4, <1>6, <1>8
<1> QED BY <1>3, <1>4, <1>6, <1>7, <1>9 DEF MeanBounds, new

\* The loop over the trades, step by step.
Opened == [cumulative |-> One, peak |-> One, fall |-> Zero, gain |-> Zero, loss |-> Zero]

LEMMA BookRun ==
    ASSUME NEW h \in Seq(Deals)
    PROVE  \E r : /\ r[0] = Opened
                  /\ \A i \in 1..Len(h) : r[i] = Book(r[i - 1], h[i])
                  /\ FoldLeft(Book, Opened, h) = r[Len(h)]
<1> DEFINE start == Opened
           n == Len(h)
           F == [p \in Books \X Deals |-> Book(p[1], p[2])]
           Rec(g) == g = [s \in SUBSET (1..n) |->
                            IF s = {} THEN start ELSE Book(g[s \ {Max(s)}], h[Max(s)])]
           iter == CHOOSE g : Rec(g)
           r == [i \in 0..n |-> iter[1..i]]
<1>0. n \in Nat /\ h \in [1..n -> Deals] /\ DOMAIN h = 1..n
  OBVIOUS
<1>1. start \in Books /\ F \in [Books \X Deals -> Books]
  <2>1. One \in Fractions /\ Zero \in Fractions
    BY DEF Fractions, One, Zero, Frac
  <2>2. start \in Books
    BY <2>1 DEF Books, Opened
  <2>3. F \in [Books \X Deals -> Books]
    BY BookType
  <2> QED BY <2>2, <2>3
<1> HIDE DEF F, start, n
<1>2. PICK g \in [SUBSET (1..n) -> Books] : FoldOver(g, F, start, n, h)
  BY <1>0, <1>1, FoldExists
<1>3. Rec([s \in SUBSET (1..n) |-> g[s]])
  BY <1>0, <1>2, Positions DEF FoldOver, F
<1>4. Rec(iter)
  <2> HIDE DEF Rec
  <2> QED BY <1>3
<1> HIDE DEF iter
<1>5. r[0] = start
  BY <1>0, <1>4
<1>6. ASSUME NEW i \in 1..n PROVE r[i] = Book(r[i - 1], h[i])
  <2>1. /\ 1..i \in SUBSET (1..n) /\ 1..i # {} /\ (1..i) \ {i} = 1..(i - 1)
        /\ Max(1..i) = i /\ i \in 0..n /\ i - 1 \in 0..n
    BY <1>0, Positions
  <2>2. iter[1..i] = Book(iter[1..(i - 1)], h[i])
    BY <1>4, <2>1
  <2> QED BY <2>1, <2>2
<1>7. iter[1..n] = r[n]
  BY <1>0
<1> HIDE DEF r
<1>8. FoldLeft(Book, start, h) = r[n]
  BY <1>0, <1>7 DEF FoldLeft, MapThenFoldSet, iter
<1> QED BY <1>5, <1>6, <1>8 DEF start, n

\* Both prices of a trade are positive.
LEMMA DealsOfHistory ==
    ASSUME NEW h \in Seq(SeededSignals)
    PROVE  Trades(h) \in Seq(Deals)
<1> DEFINE n == Len(h)
           Held == [pending : Nat, trades : Seq(Deals)]
<1>1. PICK r : /\ r[0] = [pending |-> 0, trades |-> <<>>]
               /\ \A i \in 1..n : r[i] = PairUp(r[i - 1], h[i])
               /\ FoldLeft(PairUp, [pending |-> 0, trades |-> <<>>], h) = r[n]
  BY PairUpRun
<1>2. n \in Nat /\ \A i \in 1..n : h[i] \in SeededSignals
  OBVIOUS
<1> HIDE DEF n
<1>3. ASSUME NEW acc \in Held, NEW s \in SeededSignals PROVE PairUp(acc, s) \in Held
  <2>1. s.price \in Nat \ {0}
    BY SignalShape
  <2>2. [acc EXCEPT !.pending = s.price] \in Held
    BY <2>1
  <2>3. ASSUME acc.pending # 0 PROVE Closed(acc, s) \in Held
    <3>1. <<acc.pending, s.price>> \in Deals
      BY <2>1, <2>3 DEF Deals
    <3>2. Append(acc.trades, <<acc.pending, s.price>>) \in Seq(Deals)
      BY <3>1
    <3> QED BY <3>2 DEF Closed
  <2> HIDE DEF Held
  <2> QED BY <2>2, <2>3 DEF PairUp
<1> DEFINE S == {i \in 0..n : r[i] \in Held}
<1>4. 0 \in S
  <2>1. [pending |-> 0, trades |-> <<>>] \in Held /\ 0 \in 0..n
    BY <1>2
  <2> HIDE DEF Held
  <2> QED BY <1>1, <2>1
<1>5. ASSUME NEW i \in 1..n, i - 1 \in S PROVE i \in S
  <2> HIDE DEF Held
  <2>1. i \in 0..n /\ r[i - 1] \in Held
    BY <1>2, <1>5
  <2> QED BY <1>1, <1>2, <1>3, <2>1
<1>6. \A i \in 0..n : i \in S
  <2> HIDE DEF S
  <2> QED BY <1>2, <1>4, <1>5, AllUpTo
<1>7. r[n] \in Held
  BY <1>2, <1>6
<1> QED BY <1>1, <1>7 DEF Trades

\* After all trades, both parts hold.
LEMMA BooksOfDeals ==
    ASSUME NEW h \in Seq(Deals)
    PROVE  LET acc == FoldLeft(Book, Opened, h) IN
           acc \in Books /\ FallCovers(acc) /\ MeanBounds(acc, Len(h), Len(h))
<1> DEFINE n == Len(h)
<1>1. PICK r : /\ r[0] = Opened
               /\ \A i \in 1..n : r[i] = Book(r[i - 1], h[i])
               /\ FoldLeft(Book, Opened, h) = r[n]
  BY BookRun
<1>2. n \in Nat /\ \A i \in 1..n : h[i] \in Deals
  OBVIOUS
<1> HIDE DEF n
<1> DEFINE Good(i) == r[i] \in Books /\ FallCovers(r[i]) /\ MeanBounds(r[i], i, n)
           S == {i \in 0..n : Good(i)}
<1>3. 0 \in S
  <2>1. /\ r[0].cumulative = One /\ r[0].peak = One
        /\ r[0].fall = Zero /\ r[0].gain = Zero /\ r[0].loss = Zero
    BY <1>1 DEF Opened
  <2>2. r[0] \in Books
    BY <1>1 DEF Opened, Books, Fractions, One, Zero, Frac
  <2>3. FallCovers(r[0])
    BY <2>1 DEF FallCovers, One, Zero, Frac
  <2>4. Over(r[0]) = 1 /\ Balance(r[0]) = 0
    BY <2>1 DEF Over, Balance, Zero, Frac
  <2>5. Factors(r[0], 0) = 0 /\ 0 * Over(r[0]) = 0
    BY <2>4 DEF Factors
  <2>6. Powers(0, n)[0] = 1
    BY <1>2, PowersExist
  <2>7. MeanBounds(r[0], 0, n)
    BY <2>1, <2>5, <2>6 DEF MeanBounds, One, Zero, Frac
  <2> QED BY <1>2, <2>2, <2>3, <2>7
<1>4. ASSUME NEW i \in 1..n, i - 1 \in S PROVE i \in S
  <2>1. i \in 0..n /\ i - 1 \in 0..(n - 1) /\ (i - 1) + 1 = i
    BY <1>2
  <2>2. r[i - 1] \in Books /\ FallCovers(r[i - 1]) /\ MeanBounds(r[i - 1], i - 1, n)
    BY <1>4
  <2>3. r[i] = Book(r[i - 1], h[i]) /\ h[i] \in Deals
    BY <1>1, <1>2
  <2>4. r[i] \in Books
    BY <2>2, <2>3, BookType
  <2>5. FallCovers(r[i])
    BY <2>2, <2>3, FallStep
  <2>6. r[i - 1].cumulative.n > 0 /\ r[i - 1].cumulative.d > 0
    BY <2>2 DEF FallCovers
  <2>7. MeanBounds(r[i], (i - 1) + 1, n)
    BY <1>2, <2>1, <2>2, <2>3, <2>6, MeanBoundStep
  <2> QED BY <2>1, <2>4, <2>5, <2>7
<1>5. \A i \in 0..n : i \in S
  <2> HIDE DEF S
  <2> QED BY <1>2, <1>3, <1>4, AllUpTo
<1>6. Good(n)
  BY <1>2, <1>5
<1> QED BY <1>1, <1>6 DEF n

\* With more compounded than there was, gains outweigh losses.
LEMMA GainsOutweigh ==
    ASSUME NEW acc \in Books, NEW n \in Nat, FallCovers(acc), MeanBounds(acc, n, n),
           acc.cumulative.n > acc.cumulative.d
    PROVE  Balance(acc) > 0
<1> DEFINE q == Over(acc)
           s == Balance(acc)
           t == Factors(acc, n)
           cn == acc.cumulative.n
           cd == acc.cumulative.d
<1>1. /\ acc.gain.n \in Nat /\ acc.gain.d \in Nat /\ acc.loss.n \in Nat /\ acc.loss.d \in Nat
      /\ acc.gain.d > 0 /\ acc.loss.d > 0
  BY DEF Books, Fractions, MeanBounds
<1>2. q \in Nat /\ q > 0 /\ s \in Int
  BY <1>1 DEF Over, Balance
<1>3. t = s + n * q
  BY DEF Factors
<1> HIDE DEF q, s
<1>4. n * q \in Nat /\ (n > 0 => n * q > 0)
  BY <1>2
<1>5. t \in Nat
  BY <1>2, <1>3, <1>4 DEF MeanBounds
<1>6. cn \in Nat /\ cd \in Nat /\ cd < cn
  BY DEF Books, Fractions, FallCovers
<1>7. cn * Powers(n * q, n)[n] <= cd * Powers(t, n)[n]
  BY DEF MeanBounds, q
<1> HIDE DEF t, cn, cd
<1> SUFFICES ASSUME s <= 0 PROVE FALSE
  BY <1>2 DEF s
<1> DEFINE b == n * q
           P == Powers(b, n)[n]
           T == Powers(t, n)[n]
<1>8. t <= b
  BY <1>2, <1>3, <1>4
<1>9. P > 0
  <2>1. CASE n = 0
    <3>1. Powers(b, n)[0] = 1
      BY <1>4, PowersExist
    <3> QED BY <2>1, <3>1
  <2>2. CASE n # 0
    <3>1. b \in Nat /\ b > 0 /\ n \in 0..n
      BY <1>4, <2>2
    <3> HIDE DEF b
    <3> QED BY <3>1, PowersPositive
  <2> QED BY <2>1, <2>2
<1> HIDE DEF b
<1>10. b \in Nat /\ n \in 0..n
  BY <1>4 DEF b
<1>11. T <= P
  BY <1>5, <1>8, <1>10, PowersGrow
<1>12. P \in Nat /\ T \in Nat
  BY <1>5, <1>10, PowersExist
<1>13. cn * P <= cd * T
  BY <1>7 DEF b
<1> HIDE DEF P, T
<1>14. cd * T <= cd * P
  BY <1>6, <1>11, <1>12
<1>15. cd * P < cn * P
  BY <1>6, <1>9, <1>12
<1> QED BY <1>6, <1>12, <1>13, <1>14, <1>15

\* For histories of any length and any prices, the figures the seeds store for a pair do not
\* contradict each other (freqtrade_bridge/seeds/seed_all.py).
THEOREM FiguresDoAgree == FiguresSpec => []FiguresAgree
<1>1. FiguresInv => FiguresAgree
  <2> SUFFICES ASSUME FiguresInv, ~live, NEW pair \in Coins
               PROVE  LET m == SeedFigures(History(pair)) IN
                      /\ m.max_drawdown.n >= 0 /\ Less(m.max_drawdown, One)
                      /\ ~Less(m.max_drawdown, Frac(-m.total_return.n, m.total_return.d))
                      /\ m.total_return.n > 0 => Less(One, m.profit_factor) /\ m.sharpe_ratio.n >= 0
    BY DEF FiguresAgree
  <2> DEFINE h == History(pair)
             trades == Trades(h)
             b == FoldLeft(Book, Opened, trades)
             m == SeedFigures(h)
             n == Len(trades)
  <2>1. h \in Seq(SeededSignals)
    <3>1. signals \in Seq(SeededSignals)
      BY DEF FiguresInv
    <3>2. Kept(pair, signals) \in Seq(SeededSignals)
      BY <3>1, KeptType
    <3>3. h = Kept(pair, signals)
      BY DEF History, Kept
    <3> QED BY <3>2, <3>3
  <2> HIDE DEF h
  <2>2. trades \in Seq(Deals)
    BY <2>1, DealsOfHistory
  <2>3. /\ m.total_return = Sub(b.cumulative, One) /\ m.max_drawdown = b.fall
        /\ m.profit_factor = IF b.loss.n > 0 THEN Div(b.gain, b.loss)
                             ELSE IF b.gain.n > 0 THEN Frac(10, 1) ELSE One
        /\ m.sharpe_ratio = IF n > 1 THEN Sub(b.gain, b.loss) ELSE Zero
    BY DEF SeedFigures, Opened
  <2> HIDE DEF trades, m
  <2>4. b \in Books /\ FallCovers(b) /\ MeanBounds(b, n, n) /\ n \in Nat
    BY <2>2, BooksOfDeals
  <2> HIDE DEF b, n
  <2>5. /\ b.cumulative.n \in Nat /\ b.cumulative.d \in Nat /\ b.fall.n \in Nat /\ b.fall.d \in Nat
        /\ b.gain.n \in Nat /\ b.gain.d \in Nat /\ b.loss.n \in Nat /\ b.loss.d \in Nat
    BY <2>4 DEF Books, Fractions, FallCovers, MeanBounds
  <2>6. /\ m.total_return.n = b.cumulative.n - b.cumulative.d
        /\ m.total_return.d = b.cumulative.d
    BY <2>3, <2>5 DEF Sub, One, Frac
  <2>7. m.max_drawdown.n >= 0 /\ Less(m.max_drawdown, One)
    BY <2>3, <2>4, <2>5 DEF Less, One, Frac, FallCovers
  <2>8. ~Less(m.max_drawdown, Frac(-m.total_return.n, m.total_return.d))
    <3>1. Less(m.max_drawdown, Frac(-m.total_return.n, m.total_return.d))
            <=> b.fall.n * b.cumulative.d < (-(b.cumulative.n - b.cumulative.d)) * b.fall.d
      BY <2>3, <2>6 DEF Less, Frac
    <3>2. -(b.cumulative.n - b.cumulative.d) = b.cumulative.d - b.cumulative.n
      BY <2>5
    <3>3. (b.cumulative.d - b.cumulative.n) * b.fall.d <= b.fall.n * b.cumulative.d
      BY <2>4 DEF FallCovers
    <3>4. /\ (b.cumulative.d - b.cumulative.n) * b.fall.d \in Int
          /\ b.fall.n * b.cumulative.d \in Int
      BY <2>5
    <3> QED BY <3>1, <3>2, <3>3, <3>4
  <2>9. ASSUME m.total_return.n > 0 PROVE Less(One, m.profit_factor) /\ m.sharpe_ratio.n >= 0
    <3>1. b.cumulative.n > b.cumulative.d
      BY <2>5, <2>6, <2>9
    <3>2. Balance(b) > 0
      BY <2>4, <3>1, GainsOutweigh
    <3>3. b.gain.n * b.loss.d - b.loss.n * b.gain.d > 0
      BY <3>2 DEF Balance
    <3>4. Less(One, m.profit_factor)
      <4>1. CASE b.loss.n > 0
        <5>1. m.profit_factor.n = b.gain.n * b.loss.d /\ m.profit_factor.d = b.gain.d * b.loss.n
          BY <2>3, <4>1 DEF Div, Frac
        <5>2. 1 * (b.gain.d * b.loss.n) < (b.gain.n * b.loss.d) * 1
          BY <2>5, <3>3
        <5> QED BY <5>1, <5>2 DEF Less, One, Frac
      <4>2. CASE ~(b.loss.n > 0)
        <5>1. b.gain.n > 0
          BY <2>5, <3>3, <4>2
        <5> QED BY <2>3, <4>2, <5>1 DEF Less, One, Frac
      <4> QED BY <4>1, <4>2
    <3>5. m.sharpe_ratio.n >= 0
      <4>1. Sub(b.gain, b.loss).n >= 0
        BY <2>5, <3>3 DEF Sub, Frac
      <4>2. Zero.n >= 0
        BY DEF Zero, Frac
      <4> QED BY <2>3, <4>1, <4>2
    <3> QED BY <3>4, <3>5
  <2> QED BY <2>7, <2>8, <2>9 DEF m, h
<1> QED BY <1>1, FiguresInductive, PTL

-----------------------------------------------------------------------------
(* Both at once. *)

\* A step of either algorithm is a step of the one and leaves the other's state alone.
LEMMA AlgorithmsCompose == AlgorithmsSpec => SignalsSpec /\ FiguresSpec
<1>1. AlgorithmsInit => SignalsInit /\ FiguresInit
  BY DEF AlgorithmsInit
<1>2. [AlgorithmsNext]_<<focus, signalsVars, figuresVars>>
        => [SignalsNext]_signalsVars /\ [FiguresNext]_figuresVars
  BY DEF AlgorithmsNext
<1> QED BY <1>1, <1>2, PTL DEF AlgorithmsSpec, SignalsSpec, FiguresSpec

\* Frames, columns and histories keep their types together, for any candles, parameters and
\* bounds.
THEOREM AlgorithmsTypeCorrect == AlgorithmsSpec => []AlgorithmsTypeOK
BY AlgorithmsCompose, SignalsTypeCorrect, FiguresTypeCorrect, PTL DEF AlgorithmsTypeOK

\* Of the module that is checked, for all its constants: strategies share a frame without
\* mixing, their entries stand, seeds repeat what realtime signals say, trades are paired,
\* figures agree and the live drawdown tells when sells outnumbered buys.
THEOREM AlgorithmsAreSafe ==
    AlgorithmsSpec => /\ [](FrameShared /\ EntryStands /\ SeedsMatchRealtime)
                      /\ [](TradesPaired /\ FiguresAgree /\ LiveDrawdown)
BY AlgorithmsCompose, StrategiesDoNotMix, EntriesStand, SeedsAreRealtime, TradesArePaired,
   FiguresDoAgree, LiveDrawdownTells, PTL
=============================================================================
