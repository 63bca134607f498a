---------------------------- MODULE GaugeProofs ----------------------------
(***************************************************************************)
(* Proofs about Gauge, for every value of its constants that satisfies     *)
(* the module's assumptions.                                               *)
(***************************************************************************)
EXTENDS Gauge, TLAPS

(* The needle's last transition ends at the rotation of opt.needleVal:     *)
(* updateGauge stores the value whose rotation it animated to.             *)
NeedleAtValue == needleTo = NeedleRotation(needleVal)

(* No max before the first sample. *)
MaxUnsetInitially == samples = {} => max = Undef

(* The inductive invariant. *)
IInv ==
    /\ TypeOK
    /\ MaxUnsetInitially
    /\ MaxIsGreatest
    /\ NeedleAtValue

-----------------------------------------------------------------------------
(* Type correctness of the gauge object and its needle. *)
LEMMA TypeInit == Init => TypeOK
BY ValuesAssumption, RangeAssumption, AngleAssumption, CountAssumption
DEF Init, TypeOK, NeedleRotation, ValueScale, Scaled, Span

LEMMA TypeStep == TypeOK /\ [Next]_vars => TypeOK'
  <2> SUFFICES ASSUME TypeOK, [Next]_vars PROVE TypeOK'
    OBVIOUS
  <2>1. ASSUME NEW v \in Values, UpdateData(v) PROVE TypeOK'
    <3>1. v \in Nat
      BY ValuesAssumption
    <3>2. Average(total + v, count + 1) \in Nat
      BY <3>1 DEF TypeOK, Average
    <3>3. NeedleRotation(needleVal) \in Int /\ NeedleRotation(v) \in Int
      BY <3>1, RangeAssumption, AngleAssumption
      DEF TypeOK, NeedleRotation, ValueScale, Scaled, Span
    <3> QED
      BY <2>1, <3>1, <3>2, <3>3, CountAssumption
      DEF UpdateData, UpdateGauge, TypeOK, Falsy
  <2>2. CASE RemoveGauge
    BY <2>2 DEF RemoveGauge, TypeOK
  <2>3. CASE UNCHANGED vars
    BY <2>3 DEF vars, TypeOK
  <2> QED
    BY <2>1, <2>2, <2>3 DEF Next

THEOREM TypeCorrect == Spec => []TypeOK
BY TypeInit, TypeStep, PTL DEF Spec

-----------------------------------------------------------------------------
(***************************************************************************)
(* The needle lemma: for every value v >= 0 the rotation d3gauge computes  *)
(* puts the needle where the spec says (above maxVal at maxNeedleAngle,    *)
(* below minVal at zeroNeedleAngle, in range within the tick sweep).       *)
(***************************************************************************)
LEMMA NeedleRotationPlacement ==
    ASSUME NEW v \in Nat
    PROVE  LET angle == NeedleRotation(v) + Scaled(ZeroNeedleAngle)
           IN  /\ v > MaxVal => angle = Scaled(MaxNeedleAngle)
               /\ v < MinVal => angle = Scaled(ZeroNeedleAngle)
               /\ v \in MinVal..MaxVal =>
                     angle \in Scaled(ZeroTickAngle)..Scaled(MaxTickAngle)
<1> DEFINE S == Span
           D == MaxTickAngle - ZeroTickAngle
<1>1. S \in Nat \ {0} /\ D \in Nat \ {0}
  BY RangeAssumption, AngleAssumption DEF Span
<1>2. ValueScale(v) = ZeroTickAngle * S + (v - MinVal) * D
  BY DEF ValueScale, Scaled
<1>3. v > MaxVal => (v - MinVal) * D > S * D
  <2> SUFFICES ASSUME v > MaxVal PROVE (v - MinVal) * D > S * D
    OBVIOUS
  <2>1. v - MinVal > S
    BY RangeAssumption DEF Span
  <2> QED
    BY <1>1, <2>1, RangeAssumption
<1>4. v < MinVal => (v - MinVal) * D < 0
  BY <1>1, RangeAssumption
<1>5. v \in MinVal..MaxVal => (v - MinVal) * D \in 0..(S * D)
  <2> SUFFICES ASSUME v \in MinVal..MaxVal PROVE (v - MinVal) * D \in 0..(S * D)
    OBVIOUS
  <2>1. v - MinVal \in 0..S
    BY RangeAssumption DEF Span
  <2> QED
    BY <1>1, <2>1
<1>6. Scaled(MaxTickAngle) = ZeroTickAngle * S + S * D
  BY RangeAssumption, AngleAssumption DEF Scaled, Span
<1>7. Scaled(ZeroNeedleAngle) <= Scaled(ZeroTickAngle)
      /\ Scaled(MaxTickAngle) <= Scaled(MaxNeedleAngle)
      /\ Scaled(ZeroTickAngle) = ZeroTickAngle * S
  BY <1>1, RangeAssumption, AngleAssumption DEF Scaled
<1> QED
  BY <1>1, <1>2, <1>3, <1>4, <1>5, <1>6, <1>7, RangeAssumption, AngleAssumption
  DEF NeedleRotation, Scaled

-----------------------------------------------------------------------------
(* The inductive invariant holds initially and is kept by every step. *)
LEMMA IInvInit == Init => IInv
BY ValuesAssumption, RangeAssumption, AngleAssumption, CountAssumption
DEF Init, IInv, TypeOK, MaxUnsetInitially, MaxIsGreatest, NeedleAtValue,
    NeedleRotation, ValueScale, Scaled, Span

LEMMA IInvStep == IInv /\ [Next]_vars => IInv'
<1> SUFFICES ASSUME IInv, [Next]_vars PROVE IInv'
  OBVIOUS
<1>1. TypeOK'
  BY TypeStep DEF IInv
<1>2. ASSUME NEW v \in Values, UpdateData(v)
      PROVE IInv'
  <2>1. v \in Nat
    BY ValuesAssumption
  <2>2. samples' = samples \cup {v} /\ max' = IF Falsy(max) \/ v > max THEN v ELSE max
    BY <1>2 DEF UpdateData
  <2>3. MaxIsGreatest'
    <3>1. CASE samples = {}
      <4>1. max' = v
        BY <3>1, <2>2 DEF IInv, MaxUnsetInitially, Falsy
      <4>2. samples' = {v}
        BY <3>1, <2>2
      <4> QED
        BY <4>1, <4>2, <2>1 DEF MaxIsGreatest
    <3>2. CASE samples # {} /\ max = 0
      <4>1. \A s \in samples : s = 0
        BY <3>2, ValuesAssumption DEF IInv, MaxIsGreatest, TypeOK
      <4>2. max' = v
        BY <3>2, <2>2 DEF Falsy
      <4> QED
        BY <4>1, <4>2, <2>1, <2>2 DEF MaxIsGreatest
    <3>3. CASE samples # {} /\ max # 0
      <4>1. max \in Nat /\ max \in samples /\ \A s \in samples : s <= max
        BY <3>3, ValuesAssumption DEF IInv, MaxIsGreatest, TypeOK
      <4>2. ~Falsy(max)
        BY <3>3, <4>1, UndefAssumption DEF Falsy
      <4> QED
        BY <4>1, <4>2, <2>1, <2>2 DEF MaxIsGreatest
    <3> QED
      BY <3>1, <3>2, <3>3
  <2>4. MaxUnsetInitially'
    BY <2>2 DEF MaxUnsetInitially
  <2>5. NeedleAtValue'
    BY <1>2 DEF UpdateData, UpdateGauge, NeedleAtValue
  <2> QED
    BY <1>1, <2>3, <2>4, <2>5 DEF IInv
<1>3. CASE RemoveGauge
  BY <1>1, <1>3 DEF RemoveGauge, IInv, MaxUnsetInitially, MaxIsGreatest, NeedleAtValue
<1>4. CASE UNCHANGED vars
  BY <1>1, <1>4 DEF vars, IInv, MaxUnsetInitially, MaxIsGreatest, NeedleAtValue
<1> QED
  BY <1>2, <1>3, <1>4 DEF Next

THEOREM InductiveInvariant == Spec => []IInv
BY IInvInit, IInvStep, PTL DEF Spec

-----------------------------------------------------------------------------
(* The Max label is the largest sample, for every configuration. *)
THEOREM MaxCorrect == Spec => []MaxIsGreatest
BY InductiveInvariant, PTL DEF IInv

(* The needle rests where the spec puts it, for every configuration. *)
THEOREM NeedlePlacement == Spec => []NeedleMatchesValue
<1>1. IInv => NeedleMatchesValue
  <2> SUFFICES ASSUME IInv PROVE NeedleMatchesValue
    OBVIOUS
  <2>1. needleVal \in Nat /\ needleTo = NeedleRotation(needleVal)
    BY DEF IInv, TypeOK, NeedleAtValue
  <2> QED
    BY <2>1, NeedleRotationPlacement DEF NeedleMatchesValue
<1> QED
  BY <1>1, InductiveInvariant, PTL

-----------------------------------------------------------------------------
(* No min before the first sample. *)
MinUnsetInitially == samples = {} => min = Undef

(* The invariant behind the Min label. *)
MInv == TypeOK /\ MinUnsetInitially /\ MinIsLeastWithoutZero

LEMMA MInvInit == Init => MInv
BY TypeInit DEF Init, MInv, MinUnsetInitially, MinIsLeastWithoutZero

LEMMA MInvStep == MInv /\ [Next]_vars => MInv'
<1> SUFFICES ASSUME MInv, [Next]_vars PROVE MInv'
  OBVIOUS
<1>1. TypeOK'
  BY TypeStep DEF MInv
<1>2. ASSUME NEW v \in Values, UpdateData(v) PROVE MInv'
  <2>1. v \in Nat
    BY ValuesAssumption
  <2>2. samples' = samples \cup {v} /\ min' = IF Falsy(min) \/ v < min THEN v ELSE min
    BY <1>2 DEF UpdateData
  <2>3. MinIsLeastWithoutZero'
    <3>1. CASE samples = {}
      BY <2>1, <3>1, <2>2 DEF MInv, MinUnsetInitially, Falsy, MinIsLeastWithoutZero
    <3>2. CASE samples # {} /\ min = 0
      \* 0 is a sample, so only the membership of the new min is claimed.
      <4>1. 0 \in samples'
        BY <3>2, <2>2 DEF MInv, MinIsLeastWithoutZero
      <4>2. min' = v
        BY <3>2, <2>2 DEF Falsy
      <4> QED
        BY <4>1, <4>2, <2>2 DEF MinIsLeastWithoutZero
    <3>3. CASE samples # {} /\ min # 0
      <4>1. min \in Nat /\ min \in samples
        BY <3>3, ValuesAssumption DEF MInv, MinIsLeastWithoutZero, TypeOK
      <4>2. ~Falsy(min)
        BY <3>3, <4>1, UndefAssumption DEF Falsy
      <4>3. 0 \notin samples' => \A s \in samples : min <= s
        BY <3>3, <2>2 DEF MInv, MinIsLeastWithoutZero
      <4> QED
        BY <2>1, <2>2, <4>1, <4>2, <4>3 DEF MinIsLeastWithoutZero
    <3> QED
      BY <3>1, <3>2, <3>3
  <2>4. MinUnsetInitially'
    BY <2>2 DEF MinUnsetInitially
  <2> QED
    BY <1>1, <2>3, <2>4 DEF MInv
<1>3. CASE RemoveGauge
  BY <1>1, <1>3 DEF RemoveGauge, MInv, MinUnsetInitially, MinIsLeastWithoutZero
<1>4. CASE UNCHANGED vars
  BY <1>1, <1>4 DEF vars, MInv, MinUnsetInitially, MinIsLeastWithoutZero
<1> QED
  BY <1>2, <1>3, <1>4 DEF Next

(* The Min label of gauge.js is always one of the samples, and the least  *)
(* of them while no sample was 0 (the `!this.min` test takes a min of 0   *)
(* for unset), for every configuration.                                   *)
THEOREM MinCorrect == Spec => []MinIsLeastWithoutZero
<1>1. Spec => []MInv
  BY MInvInit, MInvStep, PTL DEF Spec
<1> QED
  BY <1>1, PTL DEF MInv
=============================================================================
