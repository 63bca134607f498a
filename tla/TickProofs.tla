----------------------------- MODULE TickProofs -----------------------------
(***************************************************************************)
(* Proofs about the tick loops of drawGauge (TickLayout), for every dial    *)
(* the assumptions allow and every way the doubles decide a tie.           *)
(*                                                                         *)
(* The label loop does not read tickAnglesMaj: it repeats the major loop's *)
(* iteration.  The two agree because the loop variable of both is          *)
(* zeroTickAngle plus spacing times counter, so their tests                *)
(* i <= maxTickAngle see the same sequence of values, and the tie at the   *)
(* last one is decided alike.  The invariant TInv records, for every       *)
(* phase, where i stands, that every major angle passed the test, and that *)
(* the angle after the last one failed it.                                  *)
(***************************************************************************)
EXTENDS TickLayout, SequenceTheorems, TLAPS

Sp == SpacingMaj(cfg)
Sn == SpacingMin(cfg)

(* The major loop's test i <= maxTickAngle, at the value x. *)
MajOK(x) == x < Bound \/ (x = Bound /\ (Exact(Sp) \/ tieMaj))

(* The major angles, the labels, and where the loop variable stands. *)
MajAngles == \A j \in 1..Len(tickAnglesMaj) :
                /\ tickAnglesMaj[j] = Start + Sp * (j - 1)
                /\ MajOK(tickAnglesMaj[j])
Labels == \A j \in 1..Len(tickLabelText) :
             tickLabelText[j] = cfg.minVal + cfg.maj * (j - 1)
MinInSweep == \A j \in 1..Len(tickAnglesMin) : tickAnglesMin[j] \in Start..Bound
MajEnded == ~MajOK(Start + Sp * Len(tickAnglesMaj))

Where ==
    /\ phase = "maj" => /\ i = Start + Sp * counter
                        /\ Len(tickAnglesMaj) = counter
                        /\ Len(tickLabelText) = 0
    /\ phase = "min" => /\ i = Start + Sn * counter
                        /\ MajEnded /\ Len(tickLabelText) = 0
    /\ phase = "lab" => /\ i = Start + Sp * counter
                        /\ MajEnded /\ Len(tickLabelText) = counter
                        /\ counter <= Len(tickAnglesMaj)
    /\ phase = "done" => MajEnded /\ Len(tickLabelText) = Len(tickAnglesMaj)

(* The inductive invariant, without the label range of TickTypeOK. *)
TInv ==
    /\ cfg \in Configs
    /\ phase \in {"maj", "min", "lab", "done"}
    /\ i \in Int /\ counter \in Nat
    /\ tieMaj \in BOOLEAN /\ tieMin \in BOOLEAN
    /\ tickAnglesMaj \in Seq(Int) /\ tickAnglesMin \in Seq(Int)
    /\ tickLabelText \in Seq(Int)
    /\ MajAngles /\ Labels /\ MinInSweep /\ Where
-----------------------------------------------------------------------------
(* Arithmetic of one dial: the spacings are positive multiples of the      *)
(* sweep, and Bound is Start plus the sweep times Span.                    *)
LEMMA DialFacts ==
    ASSUME cfg \in Configs
    PROVE  /\ Span(cfg) \in Nat \ {0}
           /\ Sp = cfg.maj * (MaxTickAngle - ZeroTickAngle)
           /\ Sn = cfg.min * (MaxTickAngle - ZeroTickAngle)
           /\ Sp \in Nat \ {0} /\ Sn \in Nat \ {0}
           /\ Start \in Nat /\ Bound \in Nat
           /\ Bound = Start + (MaxTickAngle - ZeroTickAngle) * Span(cfg)
<1>1. /\ {cfg.minVal, cfg.maxVal, cfg.maj, cfg.min} \subseteq Nat
      /\ cfg.minVal < cfg.maxVal /\ cfg.maj > 0 /\ cfg.min > 0
  BY ConfigsAssumption
<1>2. MaxTickAngle - ZeroTickAngle \in Nat \ {0}
  BY TickAngleAssumption
<1>3. Span(cfg) \in Nat \ {0}
  BY <1>1 DEF Span
<1>0. ASSUME NEW x \in Nat
      PROVE  ValueScale(cfg, x) - ValueScale(cfg, 0) = x * (MaxTickAngle - ZeroTickAngle)
  <2> DEFINE w == MaxTickAngle - ZeroTickAngle
             m == cfg.minVal
             z == ZeroTickAngle * Span(cfg)
  <2>1. w \in Int /\ m \in Int /\ z \in Int
    BY <1>1, <1>3, TickAngleAssumption
  <2>2. ValueScale(cfg, x) = z + (x - m) * w /\ ValueScale(cfg, 0) = z + (0 - m) * w
    BY DEF ValueScale
  <2>3. (x - m) * w - (0 - m) * w = x * w
    BY <2>1
  <2> HIDE DEF m, z
  <2> QED
    BY <2>1, <2>2, <2>3
<1>4. Sp = cfg.maj * (MaxTickAngle - ZeroTickAngle)
  BY <1>0, <1>1 DEF Sp, SpacingMaj
<1>5. Sn = cfg.min * (MaxTickAngle - ZeroTickAngle)
  BY <1>0, <1>1 DEF Sn, SpacingMin
<1>6. Sp \in Nat \ {0} /\ Sn \in Nat \ {0}
  BY <1>1, <1>2, <1>4, <1>5
<1>7. Start \in Nat /\ Bound \in Nat
  BY <1>3, TickAngleAssumption DEF Start, Bound
<1>8. Bound = Start + (MaxTickAngle - ZeroTickAngle) * Span(cfg)
  BY <1>3, TickAngleAssumption DEF Start, Bound
<1> QED
  BY <1>3, <1>4, <1>5, <1>6, <1>7, <1>8

(* A positive factor can be cancelled from both sides of <=. *)
LEMMA CancelLeq ==
    ASSUME NEW d \in Nat \ {0}, NEW x \in Int, NEW y \in Int, d * x <= d * y
    PROVE  x <= y
<1> SUFFICES ASSUME x > y PROVE FALSE
  OBVIOUS
<1>1. x - y \in Nat \ {0}
  OBVIOUS
<1>2. d * (x - y) >= 1
  BY <1>1
<1>3. d * x - d * y = d * (x - y)
  OBVIOUS
<1> QED
  BY <1>2, <1>3

(* Multiplying by a positive spacing keeps the order of counters. *)
LEMMA ScaleMono ==
    ASSUME NEW d \in Nat \ {0}, NEW a \in Int, NEW k \in Int, NEW n \in Int, k <= n
    PROVE  a + d * k <= a + d * n
<1>1. d * n - d * k = d * (n - k) /\ n - k \in Nat
  OBVIOUS
<1>2. d * (n - k) >= 0
  BY <1>1
<1> QED
  BY <1>1, <1>2

(* A label whose tick lies on the sweep is within [minVal, maxVal]. *)
LEMMA LabelInRange ==
    ASSUME cfg \in Configs, NEW k \in Nat, Start + Sp * k <= Bound
    PROVE  cfg.minVal + cfg.maj * k \in cfg.minVal..cfg.maxVal
<1> DEFINE w == MaxTickAngle - ZeroTickAngle
<1>1. w \in Nat \ {0} /\ cfg.maj \in Nat /\ cfg.minVal \in Nat /\ cfg.maxVal \in Nat
  BY TickAngleAssumption, ConfigsAssumption
<1>0. /\ Span(cfg) \in Nat \ {0} /\ Sp = cfg.maj * w
      /\ Start \in Nat /\ Bound = Start + w * Span(cfg)
  BY DialFacts
<1>2. Sp * k = w * (cfg.maj * k)
  BY <1>0, <1>1
<1>3. w * (cfg.maj * k) <= w * Span(cfg)
  BY <1>0, <1>1, <1>2
<1>4. cfg.maj * k <= Span(cfg)
  BY <1>0, <1>1, <1>3, CancelLeq
<1>5. cfg.maj * k \in Nat
  BY <1>1
<1> QED
  BY <1>4, <1>5, <1>1 DEF Span
(* The major test passes at every value below one where it passes. *)
LEMMA MajOKDown ==
    ASSUME NEW x \in Int, NEW y \in Int, x <= y, MajOK(y), Bound \in Int
    PROVE  MajOK(x) /\ x <= Bound
BY DEF MajOK

(* The loop tests read the dial and the tie, which no step changes. *)
LEMMA DialFrame ==
    ASSUME cfg' = cfg, tieMaj' = tieMaj
    PROVE  /\ Sp' = Sp /\ Sn' = Sn /\ Start' = Start /\ Bound' = Bound
           /\ \A x : MajOK(x)' <=> MajOK(x)
BY DEF Sp, Sn, Start, Bound, MajOK, Exact, SpacingMaj, SpacingMin, ValueScale, Span

-----------------------------------------------------------------------------
LEMMA TInvInit == Init => TInv
<1> SUFFICES ASSUME Init PROVE TInv
  OBVIOUS
<1>1. cfg \in Configs /\ Start \in Nat /\ Sp \in Nat
  BY DialFacts DEF Init
<1>2. i = Start + Sp * counter /\ counter = 0
  BY <1>1 DEF Init
<1> QED
  BY <1>1, <1>2 DEF Init, TInv, MajAngles, Labels, MinInSweep, Where

LEMMA TInvStep == TInv /\ [Next]_vars => TInv'
<1> SUFFICES ASSUME TInv, [Next]_vars PROVE TInv'
  OBVIOUS
<1>0. /\ Span(cfg) \in Nat \ {0} /\ Sp \in Nat \ {0} /\ Sn \in Nat \ {0}
      /\ Start \in Nat /\ Bound \in Nat
  BY DialFacts DEF TInv
<1>1. cfg' = cfg /\ tieMaj' = tieMaj /\ tieMin' = tieMin
  BY DEF Next, MajStep, MajDone, MinStep, MinDone, LabStep, LabDone, vars
<1>2. /\ Sp' = Sp /\ Sn' = Sn /\ Start' = Start /\ Bound' = Bound
      /\ \A x : MajOK(x)' <=> MajOK(x)
  BY <1>1, DialFrame
<1>3. CASE MajStep
  <2>1. phase = "maj" /\ MajOK(i) /\ i = Start + Sp * counter
        /\ Len(tickAnglesMaj) = counter /\ Len(tickLabelText) = 0
    BY <1>3 DEF MajStep, Continue, MajOK, Sp, TInv, Where
  <2>2. /\ tickAnglesMaj' = Append(tickAnglesMaj, i)
        /\ i' = Start + Sp * (counter + 1) /\ counter' = counter + 1
        /\ phase' = "maj"
        /\ UNCHANGED <<tickAnglesMin, tickLabelText>>
    BY <1>0, <1>3, <2>1 DEF MajStep, Sp, TInv
  <2>3. MajAngles'
    BY <1>2, <2>1, <2>2 DEF MajAngles, TInv
  <2> QED
    BY <1>0, <1>1, <1>2, <2>1, <2>2, <2>3 DEF TInv, Labels, MinInSweep, Where
<1>4. CASE MajDone
  <2>1. phase = "maj" /\ ~MajOK(i) /\ i = Start + Sp * counter
        /\ Len(tickAnglesMaj) = counter /\ Len(tickLabelText) = 0
    BY <1>4 DEF MajDone, Continue, MajOK, Sp, TInv, Where
  <2>2. MajEnded'
    BY <1>2, <1>4, <2>1 DEF MajDone, MajEnded
  <2>3. i' = Start + Sn * counter' /\ phase' = "min"
    BY <1>0, <1>2, <1>4 DEF MajDone
  <2> QED
    BY <1>1, <1>2, <1>4, <2>1, <2>2, <2>3, <1>0
    DEF MajDone, TInv, MajAngles, Labels, MinInSweep, Where
<1>5. ASSUME NEW eq \in BOOLEAN, MinStep(eq) PROVE TInv'
  <2>1. phase = "min" /\ i = Start + Sn * counter /\ i <= Bound /\ counter \in Nat
    BY <1>0, <1>5 DEF MinStep, Continue, TInv, Where
  <2>2. i \in Start..Bound
    BY <1>0, <2>1
  <2>3. \/ tickAnglesMin' = tickAnglesMin
        \/ tickAnglesMin' = Append(tickAnglesMin, i)
    BY <1>5, <2>1 DEF MinStep, Sn
  <2>4. MinInSweep' /\ tickAnglesMin' \in Seq(Int)
    <3>1. CASE tickAnglesMin' = tickAnglesMin
      BY <1>2, <3>1 DEF MinInSweep, TInv
    <3>2. CASE tickAnglesMin' = Append(tickAnglesMin, i)
      <4>1. tickAnglesMin \in Seq(Int) /\ MinInSweep /\ i \in Int
        BY DEF TInv
      <4> QED
        BY <1>2, <2>2, <3>2, <4>1 DEF MinInSweep
    <3> QED
      BY <2>3, <3>1, <3>2
  <2>5. i' = Start + Sn * counter' /\ counter' = counter + 1 /\ phase' = "min"
    BY <1>0, <1>2, <1>5, <2>1 DEF MinStep, Sn
  <2>6. UNCHANGED <<tickAnglesMaj, tickLabelText>>
    BY <1>5 DEF MinStep
  <2>7. i' \in Int
    BY <1>0, <2>1, <2>5
  <2> QED
    BY <1>0, <1>1, <1>2, <2>1, <2>4, <2>5, <2>6, <2>7
    DEF TInv, MajAngles, Labels, Where, MajEnded
<1>6. CASE MinDone
  <2>1. phase = "min" /\ Len(tickLabelText) = 0 /\ MajEnded
    BY <1>6 DEF MinDone, TInv, Where
  <2>2. i' = Start + Sp * counter' /\ counter' = 0 /\ phase' = "lab"
    BY <1>0, <1>2, <1>6 DEF MinDone
  <2> QED
    BY <1>0, <1>1, <1>2, <1>6, <2>1, <2>2
    DEF MinDone, TInv, MajAngles, Labels, MinInSweep, Where, MajEnded
<1>7. CASE LabStep
  <2>1. /\ phase = "lab" /\ MajOK(i) /\ i = Start + Sp * counter
        /\ MajEnded /\ Len(tickLabelText) = counter
        /\ counter <= Len(tickAnglesMaj)
    BY <1>7 DEF LabStep, Continue, MajOK, Sp, TInv, Where
  <2>2. counter + 1 <= Len(tickAnglesMaj)
    BY <2>1 DEF MajEnded, TInv
  <2>3. /\ tickLabelText' = Append(tickLabelText, cfg.minVal + cfg.maj * counter)
        /\ i' = Start + Sp * (counter + 1) /\ counter' = counter + 1
        /\ phase' = "lab"
        /\ UNCHANGED <<tickAnglesMaj, tickAnglesMin>>
    BY <1>0, <1>7, <2>1 DEF LabStep, Sp, TInv
  <2>4. cfg.minVal + cfg.maj * counter \in Int
    BY ConfigsAssumption DEF TInv
  <2>5. Labels'
    <3> SUFFICES ASSUME NEW j \in 1..Len(tickLabelText')
                 PROVE  tickLabelText'[j] = cfg.minVal + cfg.maj * (j - 1)
      BY <1>1 DEF Labels
    <3>1. tickLabelText \in Seq(Int) /\ Labels /\ counter \in Nat
      BY DEF TInv
    <3>2. CASE j <= counter
      BY <2>1, <2>3, <3>1, <3>2 DEF Labels
    <3>3. CASE j = counter + 1
      BY <2>1, <2>3, <3>1, <3>3
    <3> QED
      BY <2>1, <2>3, <3>1, <3>2, <3>3
  <2> QED
    BY <1>0, <1>1, <1>2, <2>1, <2>2, <2>3, <2>4, <2>5
    DEF TInv, MajAngles, MinInSweep, Where, MajEnded
<1>8. CASE LabDone
  <2>1. /\ phase = "lab" /\ ~MajOK(i) /\ i = Start + Sp * counter
        /\ MajEnded /\ Len(tickLabelText) = counter
        /\ counter <= Len(tickAnglesMaj)
    BY <1>8 DEF LabDone, Continue, MajOK, Sp, TInv, Where
  <2>2. counter = Len(tickAnglesMaj)
    <3> SUFFICES ASSUME counter < Len(tickAnglesMaj) PROVE FALSE
      BY <2>1 DEF TInv
    <3> DEFINE n == Len(tickAnglesMaj)
    <3>1. n \in Nat /\ n >= 1 /\ counter \in Nat
      BY DEF TInv
    <3>2. tickAnglesMaj[n] = Start + Sp * (n - 1) /\ MajOK(tickAnglesMaj[n])
      BY <3>1 DEF TInv, MajAngles
    <3>3. Start + Sp * counter <= Start + Sp * (n - 1)
      BY <1>0, <3>1, ScaleMono
    <3>4. MajOK(Start + Sp * counter)
      BY <1>0, <3>1, <3>2, <3>3, MajOKDown
    <3> QED
      BY <2>1, <3>4
  <2> QED
    BY <1>1, <1>2, <1>8, <2>1, <2>2
    DEF LabDone, TInv, MajAngles, Labels, MinInSweep, Where, MajEnded
<1>9. CASE UNCHANGED vars
  BY <1>2, <1>9 DEF vars, TInv, MajAngles, Labels, MinInSweep, Where, MajEnded
<1> QED
  BY <1>3, <1>4, <1>5, <1>6, <1>7, <1>8, <1>9 DEF Next

THEOREM TickInvariant == Spec => []TInv
BY TInvInit, TInvStep, PTL DEF Spec
-----------------------------------------------------------------------------
(* The label for counter k sits, under valueScale, at the k-th major angle. *)
LEMMA LabelScale ==
    ASSUME cfg \in Configs, NEW k \in Nat
    PROVE  ValueScale(cfg, cfg.minVal + cfg.maj * k) = Start + Sp * k
<1> DEFINE w == MaxTickAngle - ZeroTickAngle
<1>1. Sp = cfg.maj * w /\ Span(cfg) \in Nat
  BY DialFacts
<1>2. w \in Nat /\ cfg.maj \in Nat /\ cfg.minVal \in Nat
  BY TickAngleAssumption, ConfigsAssumption
<1>3. ValueScale(cfg, cfg.minVal + cfg.maj * k)
        = ZeroTickAngle * Span(cfg) + (cfg.maj * k) * w
  BY <1>2 DEF ValueScale
<1>4. (cfg.maj * k) * w = (cfg.maj * w) * k
  BY <1>2
<1> QED
  BY <1>1, <1>3, <1>4 DEF Start

(* Labels are never ahead of the major ticks. *)
LEMMA LabelsBehind ==
    ASSUME TInv PROVE Len(tickLabelText) <= Len(tickAnglesMaj)
BY DEF TInv, Where

(* Every label is that of a major tick on the sweep, so it lies in        *)
(* [minVal, maxVal].                                                       *)
LEMMA LabelsTyped ==
    ASSUME TInv PROVE tickLabelText \in Seq(cfg.minVal..cfg.maxVal)
<1>1. ASSUME NEW j \in 1..Len(tickLabelText)
      PROVE  tickLabelText[j] \in cfg.minVal..cfg.maxVal
  <2>1. j \in 1..Len(tickAnglesMaj) /\ j - 1 \in Nat
    BY LabelsBehind DEF TInv
  <2>2. tickAnglesMaj[j] = Start + Sp * (j - 1) /\ MajOK(tickAnglesMaj[j])
    BY <2>1 DEF TInv, MajAngles
  <2>3. Start \in Nat /\ Sp \in Nat /\ Bound \in Nat
    BY DialFacts DEF TInv
  <2>4. Start + Sp * (j - 1) <= Bound
    BY <2>1, <2>2, <2>3, MajOKDown
  <2>5. tickLabelText[j] = cfg.minVal + cfg.maj * (j - 1)
    BY DEF TInv, Labels
  <2> QED
    BY <2>1, <2>4, <2>5, LabelInRange DEF TInv
<1>2. tickLabelText \in [1..Len(tickLabelText) -> cfg.minVal..cfg.maxVal]
  BY <1>1 DEF TInv
<1>3. Len(tickLabelText) \in Nat
  BY DEF TInv
<1> QED
  BY <1>2, <1>3, SeqDef

(* The loops of drawGauge keep their variables typed, and every label they *)
(* write is a value of the dial, for every dial and tie decision.          *)
THEOREM TickTypeCorrect == Spec => []TickTypeOK
<1>1. TInv => TickTypeOK
  BY LabelsTyped DEF TInv, TickTypeOK
<1> QED
  BY <1>1, TickInvariant, PTL

(* Once drawGauge's loops end, every major tick has exactly one label, and *)
(* valueScale maps that label to the tick's angle: the label loop's rerun  *)
(* of the major iteration stops where the major loop stopped, for every    *)
(* dial and every way the doubles decide the last test.                    *)
THEOREM LabelsCorrect == Spec => []LabelsAtMajorTicks
<1>1. TInv => LabelsAtMajorTicks
  <2> SUFFICES ASSUME TInv, phase = "done"
               PROVE  /\ Len(tickLabelText) = Len(tickAnglesMaj)
                      /\ \A j \in 1..Len(tickAnglesMaj) :
                            ValueScale(cfg, tickLabelText[j]) = tickAnglesMaj[j]
    BY DEF LabelsAtMajorTicks
  <2>1. Len(tickLabelText) = Len(tickAnglesMaj)
    BY DEF TInv, Where
  <2>2. ASSUME NEW j \in 1..Len(tickAnglesMaj)
        PROVE  ValueScale(cfg, tickLabelText[j]) = tickAnglesMaj[j]
    <3>1. j - 1 \in Nat /\ cfg \in Configs
      BY DEF TInv
    <3>2. tickLabelText[j] = cfg.minVal + cfg.maj * (j - 1)
      BY <2>1 DEF TInv, Labels
    <3>3. tickAnglesMaj[j] = Start + Sp * (j - 1)
      BY DEF TInv, MajAngles
    <3> QED
      BY <3>1, <3>2, <3>3, LabelScale
  <2> QED
    BY <2>1, <2>2
<1> QED
  BY <1>1, TickInvariant, PTL

====
