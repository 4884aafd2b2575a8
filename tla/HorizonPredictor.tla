-------------------------- MODULE HorizonPredictor --------------------------
(***************************************************************************)
(* HorizonPredictor.predict (gcl/predictor/predictor.py) and the least     *)
(* squares line of gcl/predictor/slo_seed.py, as operators on a sequence   *)
(* of evidence.  Numbers are integers: a latency is in seconds, a count is *)
(* itself, anything else in hundredths; a confidence in whole percents,    *)
(* rounded down, which decides every comparison with a threshold in        *)
(* percents as the fraction would.                                         *)
(***************************************************************************)
EXTENDS Integers, Sequences, FiniteSets, SequencesExt, Sampling

CONSTANTS
  HorizonSteps,    \* horizon_length
  SpikeThreshold   \* spike_detection_threshold, a whole number here

(* 5000 in the unit of a metric.                                           *)
SpikeFloor(metric) ==
  CASE metric = "latency_ms" -> 5
    [] metric \in {"replicas", "throughput_rps", "ledger_total_entries"} -> 5000
    [] OTHER -> 500000

Total(values, I) == MapThenSumSet(LAMBDA i : values[i], I)

(* Plausible bug: the latest value.                                        *)
PeakLatest(values) == values[Len(values)]

Peak(values) == Max({values[i] : i \in DOMAIN values})

(* Points: the shape they take, the first value, how many; spread is the   *)
(* share of a value, in percents, that the bounds are away from it.        *)
Forecast(shape, first, points, confidence, spread) ==
  [shape |-> shape, first |-> first, points |-> points, confidence |-> confidence,
   spread |-> spread]

Flat(value, confidence) == Forecast("flat", value, HorizonSteps, confidence, 0)

-----------------------------------------------------------------------------
(* The forecasts that come with evidence.                                  *)

(* A predicted value that is not a number, or infinite, has no use as one; *)
(* the rest of what is tested here the event's contract promises.          *)
Usable(s) ==
  /\ s.source = "deepfield-fleet"
  /\ s.event = "forecast"
  /\ s.numeric

(* The latest one, the first of those if there are several.                *)
LatestForecast(signals) ==
  LET usable == {i \in DOMAIN signals : Usable(signals[i])}
      latest == {i \in usable : \A j \in usable : signals[j].at <= signals[i].at}
  IN  signals[Min(latest)]

IsClassificationForecast(s) ==
  s.source = "classification_metrics" /\ s.metric = "latency_ms" /\ s.forecast

-----------------------------------------------------------------------------
(* The samples of one metric.                                              *)

OfMetric(signals, metric) ==
  FlattenSeq([i \in DOMAIN signals |->
    IF signals[i].metric = metric THEN <<signals[i]>> ELSE <<>>])

(* The metric with most samples, the first one if there are several.       *)
MostFrequent(signals) ==
  LET Count(i) == Len(OfMetric(signals, signals[i].metric))
      most     == {i \in DOMAIN signals : \A j \in DOMAIN signals : Count(j) <= Count(i)}
  IN  signals[Min(most)].metric

(* Latencies if there are three, else that metric.  Plausible bug: no case *)
(* for the latencies.                                                      *)
PrimaryUnranked(signals) == MostFrequent(signals)

PrimaryMetric(signals) ==
  IF Len(OfMetric(signals, "latency_ms")) >= 3 THEN "latency_ms" ELSE MostFrequent(signals)

(* A peak above the floor, at least 30% of the values below a quarter of   *)
(* it, and the peak beyond the threshold times the mean of the others.     *)
IsSpike(values, metric) ==
  LET peak  == Peak(values)
      low   == {i \in DOMAIN values : 4 * values[i] < peak}
      below == {i \in DOMAIN values : values[i] < peak}
      rest  == IF below = {} THEN DOMAIN values ELSE below
  IN  /\ peak > SpikeFloor(metric)
      /\ 10 * Cardinality(low) >= 3 * Len(values)
      /\ Total(values, rest) > 0
      /\ peak * Cardinality(rest) > Total(values, rest) * SpikeThreshold

Spike(values) ==
  Forecast("spike", Peak(values), HorizonSteps, Lesser(85, 10 * Len(values)), 10)

(* linear_regression over 0 .. n-1: n times ss_xx, ss_xy and ss_yy.        *)
Line(values) ==
  LET n  == Len(values)
      I  == 1 .. n
      sx == (n * (n - 1)) \div 2
      sy == Total(values, I)
  IN  [xx |-> n * Total([i \in I |-> (i - 1) * (i - 1)], I) - sx * sx,
       xy |-> n * Total([i \in I |-> (i - 1) * values[i]], I) - sx * sy,
       yy |-> n * Total([i \in I |-> values[i] * values[i]], I) - sy * sy,
       sx |-> sx, sy |-> sy]

(* 100 * k * r_squared, which is kept between 0 and 1, rounded down; a     *)
(* flat line explains everything.                                          *)
Explained(line, k) ==
  IF line.yy = 0 THEN 100 * k
  ELSE Greater(0, Lesser(100 * k, (100 * k * line.xy * line.xy) \div (line.xx * line.yy)))

(* The confidence of n samples that hardly vary.  Plausible bug: no cap.   *)
SteadyUncapped(n) == Greater(70, 10 * n)

Steady(n) == Greater(70, Lesser(100, 10 * n))

(* The confidence of a line.                                               *)
LineConfidence(values) ==
  LET n      == Len(values)
      line   == Line(values)
      sum    == line.sy
      steady == sum > 0 /\ 400 * line.yy < 9 * sum * sum   \* cv < 0.15
      low    == Min({values[i] : i \in DOMAIN values})
      factor == Lesser(20, n)                              \* of 20
  IN  IF steady /\ n >= 5 THEN Steady(n)
      ELSE IF n >= 10 /\ sum > 0 THEN
        IF low > 0 /\ sum < 3 * n * low
          THEN Greater(60, 4 * factor)
          ELSE Greater(Explained(line, factor) \div 20, (7 * factor) \div 4 + 10)
      ELSE Greater(0, Lesser(100, Explained(line, Lesser(n, 10)) \div 10))

(* The line at x = n, rounded down; its bounds are a tenth of what the     *)
(* line does not explain away from it.                                     *)
Regression(values) ==
  LET n    == Len(values)
      line == Line(values)
  IN  Forecast("line",
               (line.xy * (n * n - line.sx) + line.xx * line.sy) \div (n * line.xx),
               HorizonSteps, LineConfidence(values), (100 - Explained(line, 1)) \div 10)

FromSamples(signals) ==
  LET metric  == PrimaryMetric(signals)
      samples == OfMetric(signals, metric)
      values  == [i \in DOMAIN samples |-> samples[i].value]
  IN  IF Len(values) < 3 THEN Flat(values[Len(values)], 10)
      ELSE IF IsSpike(values, metric) THEN Spike(values)
      ELSE Regression(values)

Predict(signals) ==
  IF signals = <<>> THEN Flat(0, 0)
  ELSE IF \E i \in DOMAIN signals : Usable(signals[i]) THEN
    LET s == LatestForecast(signals) IN Forecast("deepfield", s.value, 1, s.confidence, 0)
  ELSE IF \E i \in DOMAIN signals : IsClassificationForecast(signals[i]) THEN
    LET first == Min({i \in DOMAIN signals : IsClassificationForecast(signals[i])})
    IN  Forecast("rising", signals[first].value, HorizonSteps, 85, 5)
  ELSE FromSamples(signals)

=============================================================================
