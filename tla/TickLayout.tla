----------------------------- MODULE TickLayout -----------------------------
(***************************************************************************)
(* The three loops of drawGauge (d3gauge.js:112-147) that compute the      *)
(* major tick angles, the minor tick angles and the major tick labels of   *)
(* one dial, as a state machine that runs them one iteration per step.     *)
(*                                                                         *)
(* Arithmetic is exact: values are integers (in the unit the options are   *)
(* written in, times a power of ten where they have decimals) and an angle *)
(* d is represented as d * Span, Span = maxVal - minVal, which makes       *)
(* valueScale integral.  The code computes in doubles: the loop variable   *)
(* is accumulated (i = i + spacing) while the pushed angle is a product    *)
(* (zeroTickAngle + spacing * counter).  Where the exact values tie (the   *)
(* loop test i <= maxTickAngle at equality, or a minor angle equal to a    *)
(* major one) the double comparison may go either way, and the model       *)
(* chooses; away from ties the doubles agree with the exact values.  A     *)
(* spacing that is a whole number of degrees is computed exactly and then  *)
(* every product and sum of the loop is exact, so its ties are decided     *)
(* exactly.  The major and label loops run the same accumulation, so they  *)
(* decide a tie alike.                                                     *)
(***************************************************************************)
EXTENDS Integers, Sequences, Functions

CONSTANTS
    Configs,        \* the gauge options checked: [minVal, maxVal, maj, min]
    ZeroTickAngle,  \* opt.zeroTickAngle
    MaxTickAngle    \* opt.maxTickAngle

ASSUME ConfigsAssumption ==
    /\ Configs # {}
    /\ \A c \in Configs : /\ {c.minVal, c.maxVal, c.maj, c.min} \subseteq Nat
                          /\ c.minVal < c.maxVal
                          /\ c.maj > 0 /\ c.min > 0
ASSUME TickAngleAssumption ==
    /\ ZeroTickAngle \in Nat /\ MaxTickAngle \in Nat
    /\ ZeroTickAngle < MaxTickAngle

VARIABLES
    cfg,      \* the options of the gauge being drawn
    phase,    \* which loop runs: "maj", "min", "lab", then "done"
    i,        \* the loop variable i (scaled)
    counter,  \* counter
    tieMaj,   \* how the doubles decide i <= maxTickAngle at a tie (maj, lab)
    tieMin,   \* how the doubles decide i <= maxTickAngle at a tie (min)
    tickAnglesMaj, tickAnglesMin, tickLabelText

vars == <<cfg, phase, i, counter, tieMaj, tieMin,
          tickAnglesMaj, tickAnglesMin, tickLabelText>>

Span(c) == c.maxVal - c.minVal

(* valueScale(x), scaled by Span. *)
ValueScale(c, x) ==
    ZeroTickAngle * Span(c) + (x - c.minVal) * (MaxTickAngle - ZeroTickAngle)

(* tickSpacingMajDeg and tickSpacingMinDeg: valueScale(step) - valueScale(0). *)
SpacingMaj(c) == ValueScale(c, c.maj) - ValueScale(c, 0)
SpacingMin(c) == ValueScale(c, c.min) - ValueScale(c, 0)

(* The spacing is a whole number of degrees, and its doubles are exact. *)
Exact(sp) == sp % Span(cfg) = 0

Start == ZeroTickAngle * Span(cfg)
Bound == MaxTickAngle * Span(cfg)

(* The loop test i <= opt.maxTickAngle, as the doubles decide it. *)
Continue(sp, tie) == i < Bound \/ (i = Bound /\ (Exact(sp) \/ tie))

TickTypeOK ==
    /\ cfg \in Configs
    /\ phase \in {"maj", "min", "lab", "done"}
    /\ i \in Int /\ counter \in Nat
    /\ tieMaj \in BOOLEAN /\ tieMin \in BOOLEAN
    /\ tickAnglesMaj \in Seq(Int) /\ tickAnglesMin \in Seq(Int)
    /\ tickLabelText \in Seq(cfg.minVal..cfg.maxVal)

Init ==
    /\ cfg \in Configs
    /\ phase = "maj"
    /\ i = Start
    /\ counter = 0
    /\ tieMaj \in BOOLEAN /\ tieMin \in BOOLEAN
    /\ tickAnglesMaj = <<>> /\ tickAnglesMin = <<>> /\ tickLabelText = <<>>

(* One iteration of the major tick loop. *)
MajStep ==
    /\ phase = "maj" /\ Continue(SpacingMaj(cfg), tieMaj)
    /\ tickAnglesMaj' = Append(tickAnglesMaj, Start + SpacingMaj(cfg) * counter)
    /\ counter' = counter + 1
    /\ i' = i + SpacingMaj(cfg)
    /\ UNCHANGED <<cfg, phase, tieMaj, tieMin, tickAnglesMin, tickLabelText>>

(* The major loop ends; counter = 0 and the minor loop starts. *)
MajDone ==
    /\ phase = "maj" /\ ~Continue(SpacingMaj(cfg), tieMaj)
    /\ phase' = "min" /\ i' = Start /\ counter' = 0
    /\ UNCHANGED <<cfg, tieMaj, tieMin, tickAnglesMaj, tickAnglesMin, tickLabelText>>

(* One iteration of the minor loop: the angle is kept unless the forEach   *)
(* over tickAnglesMaj finds it equal (==) to a major angle.  Two products  *)
(* that are equal exactly may differ as doubles (eq = FALSE) when the      *)
(* minor spacing is not exact, except at counter 0 where both are          *)
(* zeroTickAngle itself.                                                   *)
MinStep(eq) ==
    /\ phase = "min" /\ Continue(SpacingMin(cfg), tieMin)
    /\ LET a == Start + SpacingMin(cfg) * counter
           exists == /\ a \in Range(tickAnglesMaj)
                     /\ counter = 0 \/ Exact(SpacingMin(cfg)) \/ eq
       IN  tickAnglesMin' = IF exists THEN tickAnglesMin
                                      ELSE Append(tickAnglesMin, a)
    /\ counter' = counter + 1
    /\ i' = i + SpacingMin(cfg)
    /\ UNCHANGED <<cfg, phase, tieMaj, tieMin, tickAnglesMaj, tickLabelText>>

MinDone ==
    /\ phase = "min" /\ ~Continue(SpacingMin(cfg), tieMin)
    /\ phase' = "lab" /\ i' = Start /\ counter' = 0
    /\ UNCHANGED <<cfg, tieMaj, tieMin, tickAnglesMaj, tickAnglesMin, tickLabelText>>

(* Mutant: the label loop counts in minor steps. *)
LabStepMinor ==
    /\ phase = "lab" /\ Continue(SpacingMaj(cfg), tieMaj)
    /\ tickLabelText' = Append(tickLabelText, cfg.minVal + cfg.min * counter)
    /\ counter' = counter + 1
    /\ i' = i + SpacingMaj(cfg)
    /\ UNCHANGED <<cfg, phase, tieMaj, tieMin, tickAnglesMaj, tickAnglesMin>>

(* Mutant: the label loop labels the next tick. *)
LabStepAhead ==
    /\ phase = "lab" /\ Continue(SpacingMaj(cfg), tieMaj)
    /\ tickLabelText' = Append(tickLabelText, cfg.minVal + cfg.maj * (counter + 1))
    /\ counter' = counter + 1
    /\ i' = i + SpacingMaj(cfg)
    /\ UNCHANGED <<cfg, phase, tieMaj, tieMin, tickAnglesMaj, tickAnglesMin>>

(* One iteration of the label loop: opt.minVal + tickSpaceMajVal * counter. *)
LabStep ==
    /\ phase = "lab" /\ Continue(SpacingMaj(cfg), tieMaj)
    /\ tickLabelText' = Append(tickLabelText, cfg.minVal + cfg.maj * counter)
    /\ counter' = counter + 1
    /\ i' = i + SpacingMaj(cfg)
    /\ UNCHANGED <<cfg, phase, tieMaj, tieMin, tickAnglesMaj, tickAnglesMin>>

LabDone ==
    /\ phase = "lab" /\ ~Continue(SpacingMaj(cfg), tieMaj)
    /\ phase' = "done"
    /\ UNCHANGED <<cfg, i, counter, tieMaj, tieMin,
                   tickAnglesMaj, tickAnglesMin, tickLabelText>>

Next ==
    \/ MajStep \/ MajDone
    \/ \E eq \in BOOLEAN : MinStep(eq)
    \/ MinDone \/ LabStep \/ LabDone

Spec == Init /\ [][Next]_vars

-----------------------------------------------------------------------------
(* Every major tick gets its label, and the label is the value whose        *)
(* valueScale is that tick's angle: the label loop repeats the major loop's  *)
(* iteration instead of reading tickAnglesMaj, so the two must agree.       *)
LabelsAtMajorTicks ==
    phase = "done" =>
        /\ Len(tickLabelText) = Len(tickAnglesMaj)
        /\ \A j \in 1..Len(tickAnglesMaj) :
              ValueScale(cfg, tickLabelText[j]) = tickAnglesMaj[j]

====
