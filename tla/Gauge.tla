------------------------------- MODULE Gauge -------------------------------
(***************************************************************************)
(* One monitored metric of the benchmark GUI: the wrapper object of        *)
(* js/gauge.js (running total, count, average, min and max, the DOM        *)
(* container) together with the needle state of the d3gauge it draws       *)
(* (js/d3gauge.js: opt.needleVal and the last needle transition).          *)
(*                                                                         *)
(* Numbers are the benchmark's samples after index.js rounds them with     *)
(* +parseFloat(chunk).toFixed(2), written here in hundredths, so every     *)
(* sample is an integer.  Angles are exact: a degree value d of            *)
(* d3.scale.linear() is represented as d * Span, which keeps every angle   *)
(* an integer; the model does not reproduce IEEE rounding.                 *)
(***************************************************************************)
EXTENDS Integers, FiniteSets

CONSTANTS
    Values,          \* samples the benchmark may report (hundredths, >= 0)
    MaxCount,        \* bound on the number of samples one gauge receives
    MinVal, MaxVal,  \* opt.minVal, opt.maxVal (hundredths)
    NeedleVal0,      \* opt.needleVal given by gauge.js ("needleVal : 0")
    ZeroTickAngle, MaxTickAngle,      \* opt.zeroTickAngle, opt.maxTickAngle
    ZeroNeedleAngle, MaxNeedleAngle,  \* opt.zeroNeedleAngle, opt.maxNeedleAngle
    Undef            \* the value of this.min / this.max before they are set

ASSUME ValuesAssumption == Values \subseteq Nat /\ Values # {}
ASSUME CountAssumption == MaxCount \in Nat
ASSUME RangeAssumption ==
    /\ MinVal \in Nat /\ MaxVal \in Nat /\ MinVal < MaxVal
    /\ NeedleVal0 \in Nat
ASSUME AngleAssumption ==
    /\ {ZeroTickAngle, MaxTickAngle, ZeroNeedleAngle, MaxNeedleAngle} \subseteq Nat
    /\ ZeroNeedleAngle <= ZeroTickAngle
    /\ ZeroTickAngle < MaxTickAngle
    /\ MaxTickAngle <= MaxNeedleAngle
ASSUME UndefAssumption == Undef \notin Int

VARIABLES
    mounted,     \* the #<key>GaugeContainer div is in the DOM
    needleVal,   \* opt.needleVal of the d3gauge
    needleFrom,  \* start rotation of the last needle transition (scaled)
    needleTo,    \* end rotation of the last needle transition (scaled)
    total, count, avg, min, max,  \* this.total ... this.max of gauge.js
    samples      \* history: the set of samples submitted so far

vars == <<mounted, needleVal, needleFrom, needleTo, total, count, avg, min, max, samples>>

(***************************************************************************)
(* valueScale of d3gauge.js: d3.scale.linear() from [minVal, maxVal] to    *)
(* [zeroTickAngle, maxTickAngle], multiplied by Span.                      *)
(***************************************************************************)
Span == MaxVal - MinVal

Scaled(deg) == deg * Span

ValueScale(v) == Scaled(ZeroTickAngle) + (v - MinVal) * (MaxTickAngle - ZeroTickAngle)

(* Mutant: the upper clamp tests against maxNeedleAngle, not maxTickAngle. *)
NeedleRotationLateClamp(v) ==
    LET r0 == ValueScale(v) - Scaled(ZeroNeedleAngle)
        r1 == IF r0 + Scaled(ZeroNeedleAngle) > Scaled(MaxNeedleAngle)
                THEN Scaled(MaxNeedleAngle - ZeroNeedleAngle) ELSE r0
    IN  IF r1 + Scaled(ZeroNeedleAngle) < Scaled(ZeroTickAngle) THEN 0 ELSE r1

(***************************************************************************)
(* The rotation given to the needle for value v, as d3gauge computes it    *)
(* both at construction and for the old and the new value of an update:    *)
(* the rotation relative to zeroNeedleAngle, first clamped above when the  *)
(* angle passes maxTickAngle, then clamped below when it falls short of    *)
(* zeroTickAngle.                                                          *)
(***************************************************************************)
NeedleRotation(v) ==
    LET r0 == ValueScale(v) - Scaled(ZeroNeedleAngle)
        r1 == IF r0 + Scaled(ZeroNeedleAngle) > Scaled(MaxTickAngle)
                THEN Scaled(MaxNeedleAngle - ZeroNeedleAngle) ELSE r0
    IN  IF r1 + Scaled(ZeroNeedleAngle) < Scaled(ZeroTickAngle) THEN 0 ELSE r1

(* `!this.min` and `!this.max` of gauge.js: undefined and 0 are falsy. *)
Falsy(x) == x = Undef \/ x = 0

(* Mutant: the average rounds with floor(x - 1/2) instead of half up. *)
AverageHalfDown(t, c) == (2 * t - c) \div (2 * c)

(* The rounded average +(total/count).toFixed(2), in hundredths. *)
Average(t, c) == (2 * t + c) \div (2 * c)

TypeOK ==
    /\ mounted \in BOOLEAN
    /\ needleVal \in Nat
    /\ needleFrom \in Int /\ needleTo \in Int
    /\ total \in Nat /\ count \in 0..MaxCount /\ avg \in Nat
    /\ min \in Nat \cup {Undef} /\ max \in Nat \cup {Undef}
    /\ samples \in SUBSET Values

(***************************************************************************)
(* new gauge(key, title, options): this.avg/total/count = 0, the container *)
(* is appended, and drawGauge animates the needle from rotate(0) to the    *)
(* rotation of opt.needleVal.                                              *)
(***************************************************************************)
Init ==
    /\ mounted = TRUE
    /\ needleVal = NeedleVal0
    /\ needleFrom = 0
    /\ needleTo = NeedleRotation(NeedleVal0)
    /\ total = 0 /\ count = 0 /\ avg = 0
    /\ min = Undef /\ max = Undef
    /\ samples = {}

(***************************************************************************)
(* this.updateData(data): d3gauge.updateGauge(data) animates from the      *)
(* rotation of the old opt.needleVal to that of data and stores data in    *)
(* opt.needleVal; then total, count and avg are updated, then min, then    *)
(* max, each replaced when unset-or-zero or beaten.                        *)
(***************************************************************************)
UpdateGauge(data) ==
    /\ needleFrom' = NeedleRotation(needleVal)
    /\ needleTo' = NeedleRotation(data)
    /\ needleVal' = data

(* Mutant: max is only ever replaced while it is unset (or zero). *)
UpdateDataMaxOnce(data) ==
    /\ mounted
    /\ count < MaxCount
    /\ UpdateGauge(data)
    /\ total' = total + data
    /\ count' = count + 1
    /\ avg' = Average(total + data, count + 1)
    /\ min' = IF Falsy(min) \/ data < min THEN data ELSE min
    /\ max' = IF Falsy(max) THEN data ELSE max
    /\ samples' = samples \cup {data}
    /\ UNCHANGED mounted

(* Mutant: min is only ever replaced while it is unset (or zero). *)
UpdateDataMinOnce(data) ==
    /\ mounted
    /\ count < MaxCount
    /\ UpdateGauge(data)
    /\ total' = total + data
    /\ count' = count + 1
    /\ avg' = Average(total + data, count + 1)
    /\ min' = IF Falsy(min) THEN data ELSE min
    /\ max' = IF Falsy(max) \/ data > max THEN data ELSE max
    /\ samples' = samples \cup {data}
    /\ UNCHANGED mounted

UpdateData(data) ==
    /\ mounted
    /\ count < MaxCount
    /\ UpdateGauge(data)
    /\ total' = total + data
    /\ count' = count + 1
    /\ avg' = Average(total + data, count + 1)
    /\ min' = IF Falsy(min) \/ data < min THEN data ELSE min
    /\ max' = IF Falsy(max) \/ data > max THEN data ELSE max
    /\ samples' = samples \cup {data}
    /\ UNCHANGED mounted

(* this.removeGauge(): the container is removed from the DOM. *)
RemoveGauge ==
    /\ mounted
    /\ mounted' = FALSE
    /\ UNCHANGED <<needleVal, needleFrom, needleTo, total, count, avg, min, max, samples>>

Next ==
    \/ \E v \in Values : UpdateData(v)
    \/ RemoveGauge

Spec == Init /\ [][Next]_vars

-----------------------------------------------------------------------------
(***************************************************************************)
(* Properties.                                                             *)
(***************************************************************************)

(* The Max label of gauge.js shows the largest sample received so far:     *)
(* once a sample arrived, max is one of the samples and none exceeds it,   *)
(* although the `!this.max` test treats a max of 0 as unset.               *)
MaxIsGreatest ==
    samples # {} => /\ max \in samples
                    /\ \A s \in samples : s <= max

(* The Min label shows the smallest sample so far (spec: min <= every      *)
(* sample once one has been recorded).  gauge.js tests `!this.min`, which  *)
(* is also true of a min of 0, so a zero sample is overwritten by the next *)
(* one.                                                                    *)
MinIsLeast ==
    samples # {} => /\ min \in samples
                    /\ \A s \in samples : min <= s

(* What gauge.js does guarantee of the Min label: it is always one of the  *)
(* samples, and it is the least of them as long as no sample was 0.        *)
MinIsLeastWithoutZero ==
    samples # {} => /\ min \in samples
                    /\ 0 \notin samples => \A s \in samples : min <= s

(* The needle of d3gauge.js rests where the spec puts it for its value:    *)
(* at maxNeedleAngle above maxVal, at zeroNeedleAngle below minVal, and    *)
(* inside the tick sweep [zeroTickAngle, maxTickAngle] for values in       *)
(* range.  The code decides this on angles, the spec on values.            *)
NeedleMatchesValue ==
    LET angle == needleTo + Scaled(ZeroNeedleAngle)
    IN  /\ needleVal > MaxVal => angle = Scaled(MaxNeedleAngle)
        /\ needleVal < MinVal => angle = Scaled(ZeroNeedleAngle)
        /\ needleVal \in MinVal..MaxVal =>
              angle \in Scaled(ZeroTickAngle)..Scaled(MaxTickAngle)

=============================================================================
