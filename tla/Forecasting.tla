---------------------------- MODULE Forecasting ----------------------------
(***************************************************************************)
(* The forecast of a product's demand from the days of its sales.  Days    *)
(* are numbers.  Forecast values are in parts of a unit, Scale of them, so *)
(* that the weights Alpha, Beta and Gamma out of Parts divide them evenly. *)
(* The width of the band around a forecast, the root of a sum of squares,  *)
(* is kept as whether there is one.                                        *)
(***************************************************************************)
EXTENDS Integers, Sequences, FiniteSets, SequencesExt

CONSTANTS
  Scale, Parts, Alpha, Beta, Gamma,
  Season,        \* the season's days
  Window,        \* the days of the moving average
  Horizon,       \* the days forecast
  HistoryLimit,  \* the days of movements that the service reads
  ListLimit      \* the products that the service forecasts at once

ASSUME /\ Scale \in Nat \ {0} /\ Parts \in Nat \ {0}
       /\ Alpha \in 0 .. Parts /\ Beta \in 0 .. Parts /\ Gamma \in 0 .. Parts
       /\ Season \in Nat \ {0, 1} /\ Window \in Nat \ {0} /\ Horizon \in Nat \ {0}
       /\ HistoryLimit \in Nat /\ ListLimit \in Nat

\* Use(e), where TLC evaluates e once.
Once(e, Use(_)) == CHOOSE used \in {Use(v) : v \in {e}} : TRUE

Abs(x) == IF x < 0 THEN -x ELSE x
Sum(s) == FoldLeft(LAMBDA a, b : a + b, 0, s)
Mean(s) == IF s = <<>> THEN 0 ELSE Sum(s) \div Len(s)
Mix(weight, new, old) == (weight * new + (Parts - weight) * old) \div Parts

\* From the first day that sold to the last, with the days between that did not.
FillDailyGaps(sold) ==
  IF DOMAIN sold = {} THEN <<>>
  ELSE LET first == Min(DOMAIN sold)
       IN  [n \in 1 .. Max(DOMAIN sold) - first + 1 |->
              IF first + n - 1 \in DOMAIN sold THEN sold[first + n - 1] ELSE 0]

AggregateDailyDemand(movements, product) ==
  LET sales == SelectSeq(movements, LAMBDA m : m.product = product /\ m.type \in {"SALE", "OUTBOUND"})
      SoldOn(day) == LET that == SelectSeq(sales, LAMBDA m : m.day = day)
                     IN  Sum([n \in DOMAIN that |-> Abs(that[n].change)])
  IN  FillDailyGaps([day \in {sales[n].day : n \in DOMAIN sales} |-> SoldOn(day)])

AggregateDailyDemandFromSales(orders, product) ==
  LET QuantityIn(order) ==
        Sum([n \in DOMAIN order.lines |->
               IF order.lines[n].product = product THEN order.lines[n].quantity ELSE 0])
      sold == SelectSeq(orders, LAMBDA o :
                /\ o.status \in {"CONFIRMED", "PICKING", "PACKED", "SHIPPED", "DELIVERED"}
                /\ QuantityIn(o) # 0)
      SoldOn(day) == LET that == SelectSeq(sold, LAMBDA o : o.day = day)
                     IN  Sum([n \in DOMAIN that |-> QuantityIn(that[n])])
  IN  FillDailyGaps([day \in {sold[n].day : n \in DOMAIN sold} |-> SoldOn(day)])

-----------------------------------------------------------------------------
(* The methods: the values of the days ahead, and those fitted to the past. *)

Scaled(history) == [n \in DOMAIN history |-> Scale * history[n]]

\* The mean of the last days, as many of the window as there are.
LastAverage(history) ==
  Mean(IF Len(history) > Window THEN SubSeq(history, Len(history) - Window + 1, Len(history))
       ELSE history)

MovingAverageForecast(history) ==
  LET h == Scaled(history)
  IN  [method |-> "MOVING_AVG",
       values |-> [n \in 1 .. Horizon |-> LastAverage(h)],
       fitted |-> [n \in DOMAIN h |-> LastAverage(SubSeq(h, 1, n))]]

ExponentialSmoothingForecast(history) ==
  LET h == Scaled(history)
      fitted == FoldLeft(LAMBDA f, v : Append(f, Mix(Alpha, v, Last(f))), <<h[1]>>, Tail(h))
  IN  [method |-> "EXPONENTIAL_SMOOTHING",
       values |-> [n \in 1 .. Horizon |-> Last(fitted)], fitted |-> fitted]

\* One day of Holt-Winters: the level, the trend and the season's component of the day.
HoltWintersStep(s, observed, index) ==
  LET i == index % Season
      level == Mix(Alpha, observed - s.seasonals[i], s.level + s.trend)
      trend == Mix(Beta, level - s.level, s.trend)
  IN  [level |-> level, trend |-> trend,
       seasonals |-> [s.seasonals EXCEPT ![i] = Mix(Gamma, observed - level, @)],
       fitted |-> Append(s.fitted, s.level + trend + s.seasonals[i])]

HoltWintersForecast(history) ==
  LET h == Scaled(history)
      first == Mean(SubSeq(h, 1, Season))
      start == [level |-> first,
                trend |-> (Mean(SubSeq(h, Season + 1, 2 * Season)) - first) \div Season,
                seasonals |-> [i \in 0 .. Season - 1 |-> h[i + 1] - first], fitted |-> <<>>]
      NextDayOf(before, n) == Once(before, LAMBDA s : HoltWintersStep(s, h[n], n - 1))
  IN  Once(FoldLeftDomain(NextDayOf, start, h), LAMBDA end :
        [method |-> "HOLT_WINTERS",
         values |-> [n \in 1 .. Horizon |->
                       end.level + n * end.trend + end.seasonals[(Len(h) - 1 + n) % Season]],
         fitted |-> end.fitted])

PickAutoMethod(history) ==
  IF Len(history) >= 2 * Season THEN "HOLT_WINTERS"
  ELSE IF Len(history) >= 4 THEN "EXPONENTIAL_SMOOTHING" ELSE "MOVING_AVG"

\* How far the fitted values are from the past ones: 0 exactly when they are the same.
Backtest(history, fitted) == Sum([n \in DOMAIN history |-> Abs(Scale * history[n] - fitted[n])])

Methods == {"AUTO", "MOVING_AVG", "EXPONENTIAL_SMOOTHING", "HOLT_WINTERS"}

\* Two seasons are needed for Holt-Winters; values below nothing are nothing.
ForecastDemand(history, requested) ==
  LET resolved == IF requested = "AUTO" THEN PickAutoMethod(history) ELSE requested
      computed ==
        CASE resolved = "MOVING_AVG" -> MovingAverageForecast(history)
          [] resolved = "HOLT_WINTERS" /\ Len(history) >= 2 * Season -> HoltWintersForecast(history)
          [] OTHER -> ExponentialSmoothingForecast(history)
  IN  IF history = <<>> THEN [method |-> resolved, values |-> <<>>, band |-> FALSE]
      ELSE Once(computed, LAMBDA result :
             [method |-> result.method,
              values |-> [n \in DOMAIN result.values |->
                            IF result.values[n] < 0 THEN 0 ELSE result.values[n]],
              band |-> Len(history) > 1 /\ Backtest(history, result.fitted) > 0])

\* The first elements of a list, up to a limit.
FirstOf(s, limit) == SubSeq(s, 1, IF limit < Len(s) THEN limit ELSE Len(s))

\* Mutant: a day of the cover is left out.
DayShort(result, onHand, days) ==
  LET lacking == Sum(FirstOf(result.values, days - 1)) - Scale * onHand
  IN  IF lacking <= 0 THEN 0 ELSE (lacking + Scale - 1) \div Scale

\* What to buy for so many days, as far as the forecast reaches.
SmartPurchase(result, onHand, days) ==
  LET lacking == Sum(FirstOf(result.values, days)) - Scale * onHand
  IN  IF lacking <= 0 THEN 0 ELSE (lacking + Scale - 1) \div Scale

-----------------------------------------------------------------------------
(* The service of the API. *)

Since(movements, today) == SelectSeq(movements, LAMBDA m : m.day >= today - HistoryLimit)

ForecastProduct(movements, product, today, method) ==
  LET of == SelectSeq(Since(movements, today), LAMBDA m : m.product = product)
  IN  ForecastDemand(AggregateDailyDemand(of, product), method)

\* Only sales are read, of the first active products by sku; those without any are left out.
ForecastOrganization(movements, bySku, today, method) ==
  LET sales == SelectSeq(Since(movements, today), LAMBDA m : m.type \in {"SALE", "OUTBOUND"})
      with == {p \in ToSet(FirstOf(bySku, ListLimit)) : AggregateDailyDemand(sales, p) # <<>>}
  IN  [p \in with |-> ForecastDemand(AggregateDailyDemand(sales, p), method)]
=============================================================================
