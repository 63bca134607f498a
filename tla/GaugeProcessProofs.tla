------------------------- MODULE GaugeProcessProofs -------------------------
(***************************************************************************)
(* Proof that a shown gauge has a live benchmark process behind it        *)
(* (GaugesHaveProcess), for every bound.                                   *)
(*                                                                         *)
(* A handler that leaves a gauge on screen ends in startProcess, which     *)
(* spawns only when benchmarkArgs is nonempty.  So the argument needs the  *)
(* flag of every checked toggle (of every toggle while the demo runs) to   *)
(* be in benchmarkArgs (FlagsIn): removeArg splices out only the first     *)
(* occurrence of its own flag, and the flags differ.  Together with the    *)
(* registry invariant of RegistryProofs, a registered gauge then means a   *)
(* nonempty benchmarkArgs, hence a spawn.                                  *)
(***************************************************************************)
EXTENDS RegistryProofs

(* Every checked toggle, and every toggle while the demo runs, has its    *)
(* flag in benchmarkArgs.                                                  *)
FlagsIn(s) == \A a \in Algs : s.checked[a] \/ s.demo => Flag[a] \in Range(s.args)

(* benchmarkProcess is set and was not sent SIGTERM. *)
Live(s) == s.current # 0 /\ ~s.procs[s.current].killed

(* GaugesHaveProcess on the program state as a record. *)
Shown(s) == (\E a \in Algs : s.gauges[a] # None) /\ ~s.errorShown => Live(s)

(* The three flags differ. *)
LEMMA FlagInjective ==
    ASSUME NEW a \in Algs, NEW b \in Algs, a # b
    PROVE  Flag[a] # Flag[b]
BY DEF Flag, Algs

(* indexOf, when it finds something, finds the element it looks for. *)
LEMMA IndexOfHit ==
    ASSUME NEW sq \in Seq(Flags), NEW e, IndexOf(sq, e) > 0
    PROVE  sq[IndexOf(sq, e)] = e
<1> DEFINE I == {i \in 1..Len(sq) : sq[i] = e}
<1>1. I # {} /\ I \subseteq Nat
  BY DEF IndexOf
<1>2. \E x \in I : \A y \in I : ~(<<y, x>> \in OpToRel(<, Nat))
  BY <1>1, NatLessThanWellFounded, WFMin
<1>3. PICK x \in I : \A y \in I : ~(<<y, x>> \in OpToRel(<, Nat))
  BY <1>2
<1>4. \A y \in I : x <= y
  <2> SUFFICES ASSUME NEW y \in I PROVE x <= y
    OBVIOUS
  <2>1. x \in Nat /\ y \in Nat
    BY <1>1
  <2>2. ~(y < x)
    BY <1>3, <2>1 DEF OpToRel
  <2> QED
    BY <2>1, <2>2
<1>5. (CHOOSE i \in I : \A j \in I : i <= j) \in I
  BY <1>4
<1> QED
  BY <1>1, <1>5 DEF IndexOf

(* Splicing out position i keeps every element stored elsewhere. *)
LEMMA SpliceKeeps ==
    ASSUME NEW sq \in Seq(Flags), NEW i \in 1..Len(sq), NEW g,
           g \in Range(sq), g # sq[i]
    PROVE  g \in Range(Splice(sq, i))
<1>1. PICK j \in 1..Len(sq) : sq[j] = g
  BY DEF Range
<1>2. j # i
  BY <1>1
<1> DEFINE L == SubSeq(sq, 1, i - 1)
           R == SubSeq(sq, i + 1, Len(sq))
<1>3. L \in Seq(Flags) /\ R \in Seq(Flags) /\ Len(L) = i - 1 /\ Len(R) = Len(sq) - i
  BY SubSeqProperties
<1> HIDE DEF L, R
<1>4. /\ L \o R \in Seq(Flags) /\ Len(L \o R) = Len(sq) - 1
      /\ \A k \in 1..Len(L) + Len(R) :
            (L \o R)[k] = IF k <= Len(L) THEN L[k] ELSE R[k - Len(L)]
  <2>1. /\ L \o R \in Seq(Flags) /\ Len(L \o R) = Len(L) + Len(R)
        /\ \A k \in 1..Len(L) + Len(R) :
              (L \o R)[k] = IF k <= Len(L) THEN L[k] ELSE R[k - Len(L)]
    BY <1>3, ConcatProperties, Zenon
  <2>2. Len(L) + Len(R) = Len(sq) - 1
    BY <1>3
  <2> QED
    BY <2>1, <2>2
<1>5. DOMAIN (L \o R) = 1..Len(sq) - 1
  BY <1>4
<1>6. \A k \in 1..Len(sq) - 1 : (L \o R)[k] \in Range(Splice(sq, i))
  BY <1>5 DEF Splice, Range, L, R
<1>7. CASE j < i
  <2>1. L[j] = g
    BY <1>1, <1>7, SubSeqProperties DEF L
  <2>2. (L \o R)[j] = g
    BY <1>3, <1>4, <1>7, <2>1
  <2>3. j \in 1..Len(sq) - 1
    BY <1>1, <1>7
  <2>4. (L \o R)[j] \in Range(Splice(sq, i))
    BY <1>6, <2>3
  <2> QED
    BY <2>2, <2>4
<1>8. CASE j > i
  <2>1. R[j - i] = g
    BY <1>1, <1>8, SubSeqProperties DEF R
  <2>2. (L \o R)[j - 1] = g
    BY <1>3, <1>4, <1>8, <2>1
  <2>3. j - 1 \in 1..Len(sq) - 1
    BY <1>1, <1>8
  <2>4. (L \o R)[j - 1] \in Range(Splice(sq, i))
    BY <1>6, <2>3
  <2> QED
    BY <2>2, <2>4
<1> QED
  BY <1>2, <1>7, <1>8

(* removeArg(f) keeps every other flag in benchmarkArgs. *)
LEMMA RemoveArgKeeps ==
    ASSUME NEW s, Good(s), NEW f, NEW g, g # f, g \in Range(s.args)
    PROVE  g \in Range(RemoveArg(s, f).args)
<1>1. s \in SType /\ s.args \in Seq(Flags)
  BY DEF Good, SType
<1>2. CASE IndexOf(s.args, f) > 0
  <2> DEFINE i == IndexOf(s.args, f)
  <2>1. i \in 1..Len(s.args) /\ s.args[i] = f
    BY <1>1, <1>2, IndexOfFound, IndexOfHit
  <2>2. g \in Range(Splice(s.args, i))
    BY <1>1, <2>1, SpliceKeeps
  <2>3. RemoveArg(s, f).args = Splice(s.args, i)
    BY <1>1, <1>2 DEF RemoveArg, SType
  <2> QED
    BY <2>2, <2>3
<1>3. CASE ~(IndexOf(s.args, f) > 0)
  BY <1>3 DEF RemoveArg
<1> QED
  BY <1>2, <1>3

(* Appending an element adds it, and only it, to the set of elements. *)
LEMMA RangeAppend ==
    ASSUME NEW S, NEW sq \in Seq(S), NEW e \in S
    PROVE  Range(Append(sq, e)) = Range(sq) \cup {e}
<1>1. /\ Len(Append(sq, e)) = Len(sq) + 1
      /\ \A i \in 1..Len(sq) : Append(sq, e)[i] = sq[i]
      /\ Append(sq, e)[Len(sq) + 1] = e
  BY AppendProperties
<1>2. DOMAIN Append(sq, e) = 1..Len(sq) + 1 /\ DOMAIN sq = 1..Len(sq)
  BY <1>1
<1> QED
  BY <1>1, <1>2 DEF Range

(* startProcess leaves benchmarkArgs alone and hides the error; with a     *)
(* nonempty benchmarkArgs it leaves a live benchmarkProcess.               *)
LEMMA StartLive ==
    ASSUME NEW s, Good(s)
    PROVE  LET r == StartProcess(s)
           IN  /\ r.args = s.args /\ ~r.errorShown
               /\ Len(s.args) > 0 => Live(r)
<1> DEFINE c == CloseProcess(s)
<1>1. Good(c) /\ c.args = s.args /\ c \in SType /\ c.errorShown = FALSE
  <2>1. Good(c) /\ c.args = s.args
    BY CloseProcessGood
  <2>2. s \in SType
    BY DEF Good
  <2> QED
    BY <2>1, <2>2 DEF Good, CloseProcess
<1>2. CASE Len(c.args) > 0
  <2> DEFINE np == [args |-> c.args, sgx |-> c.sgx, killed |-> FALSE, exited |-> FALSE]
             r == StartProcess(s)
  <2>1. r = [c EXCEPT !.procs = Append(c.procs, np), !.current = Len(c.procs) + 1]
    BY <1>2 DEF StartProcess
  <2>2. c.procs \in Seq(Proc)
    BY <1>1 DEF SType
  <2>3. /\ r.procs = Append(c.procs, np) /\ r.current = Len(c.procs) + 1
        /\ r.args = c.args /\ r.errorShown = c.errorShown
    BY <1>1, <2>1 DEF SType
  <2>4. r.current # 0 /\ r.procs[r.current] = np
    BY <2>2, <2>3
  <2> QED
    BY <1>1, <2>3, <2>4 DEF Live
<1>3. CASE ~(Len(c.args) > 0)
  BY <1>1, <1>3 DEF StartProcess
<1> QED
  BY <1>1, <1>2, <1>3
(* A handler that ends in startProcess: if its result registers a gauge,  *)
(* that gauge's flag is in benchmarkArgs, so startProcess spawned.         *)
LEMMA EndsInStart ==
    ASSUME NEW x, Good(x), ROK(StartProcess(x)), FlagsIn(StartProcess(x))
    PROVE  Shown(StartProcess(x))
<1> DEFINE r == StartProcess(x)
<1>1. r.args = x.args /\ ~r.errorShown /\ (Len(x.args) > 0 => Live(r))
  BY StartLive
<1> SUFFICES ASSUME NEW a \in Algs, r.gauges[a] # None PROVE Live(r)
  BY <1>1 DEF Shown
<1>2. Flag[a] \in Range(x.args)
  BY <1>1 DEF ROK, Toggles, FlagsIn
<1>3. x.args \in Seq(Flags)
  BY DEF Good, SType
<1>4. Len(x.args) > 0
  BY <1>2, <1>3 DEF Range
<1> QED
  BY <1>1, <1>4

(* The change handler of an enabled algorithm toggle keeps the flags of   *)
(* the checked toggles in benchmarkArgs and leaves a live process behind   *)
(* every gauge.                                                            *)
LEMMA ClickAlgShown ==
    ASSUME NEW s, Good(s), ROK(s), FlagsIn(s), NEW a \in Algs, s.enabled[a]
    PROVE  LET r == IF s.checked[a]
                      THEN ToggleOffHandler([s EXCEPT !.checked[a] = FALSE], a)
                      ELSE ToggleOnHandler([s EXCEPT !.checked[a] = TRUE], a)
           IN  FlagsIn(r) /\ Shown(r)
<1>0. s \in SType /\ ~s.demo
  BY DEF Good, ROK, Modes
<1>1. CASE s.checked[a]
  <2> DEFINE s1 == [s EXCEPT !.checked[a] = FALSE]
             s2 == RemoveArg(s1, Flag[a])
             s3 == RemoveGauge(s2, a)
  <2>1. Good(s1) /\ s1.args = s.args
    BY <1>0, ToggleSetGood DEF SType
  <2>2. Good(s3) /\ s3.args = s2.args
    <3>1. Good(s2) /\ s2 \in SType
      BY <2>1, RemoveArgGood DEF Good
    <3> QED
      BY <3>1, RemoveGaugeGood DEF RemoveGauge, SType
  <2>3. StartProcess(s3).args = s2.args
    BY <2>2, StartLive
  <2>4. /\ StartProcess(s3).checked = [s.checked EXCEPT ![a] = FALSE]
        /\ ~StartProcess(s3).demo
    <3>1. /\ ToggleOffHandler(s1, a).checked = [s.checked EXCEPT ![a] = FALSE]
          /\ ToggleOffHandler(s1, a).demo = s.demo
      BY ToggleOffReg DEF ROK
    <3> QED
      BY <1>0, <3>1 DEF ToggleOffHandler
  <2>5. FlagsIn(StartProcess(s3))
    <3> SUFFICES ASSUME NEW b \in Algs, StartProcess(s3).checked[b]
                 PROVE  Flag[b] \in Range(s2.args)
      BY <2>3, <2>4 DEF FlagsIn
    <3>1. b # a /\ s.checked[b]
      BY <1>0, <2>4 DEF SType
    <3>2. Flag[b] \in Range(s1.args) /\ Flag[b] # Flag[a]
      BY <1>0, <2>1, <3>1, FlagInjective DEF FlagsIn
    <3> QED
      BY <2>1, <3>2, RemoveArgKeeps
  <2>6. ROK(StartProcess(s3))
    BY <1>1, ClickAlgROK DEF ToggleOffHandler
  <2> QED
    BY <1>1, <2>2, <2>5, <2>6, EndsInStart DEF ToggleOffHandler
<1>2. CASE ~s.checked[a]
  <2> DEFINE s1 == [s EXCEPT !.checked[a] = TRUE]
             s2 == [s1 EXCEPT !.args = Append(@, Flag[a])]
             u == NewGauge(s2, a)
  <2>1. Good(s1) /\ s1.args = s.args /\ s1 \in SType
    BY <1>0, ToggleSetGood DEF Good, SType
  <2>2. Flag[a] \in Flags /\ s.args \in Seq(Flags)
    BY <1>0 DEF Flags, Range, Flag, Algs, SType
  <2>3. Good(u) /\ u.args = Append(s.args, Flag[a])
    <3>1. Good(s2)
      <4>1. s2 = [s1 EXCEPT !.args = @ \o <<Flag[a]>>]
        BY <2>1, <2>2, AppendIsConcat
      <4>2. <<Flag[a]>> \in Seq(Flags)
        BY <2>2
      <4> QED
        BY <2>1, <4>1, <4>2, PushArgsGood
    <3>2. s2 \in SType
      BY <3>1 DEF Good
    <3> QED
      BY <2>1, <3>1, <3>2, NewGaugeGood DEF NewGauge, SType
  <2>4. StartProcess(u).args = Append(s.args, Flag[a])
    BY <2>3, StartLive
  <2>5. /\ StartProcess(u).checked = [s.checked EXCEPT ![a] = TRUE]
        /\ ~StartProcess(u).demo
    <3>1. s.gauges[a] = None
      BY <1>0, <1>2 DEF ROK, Toggles
    <3> QED
      BY <1>0, <3>1, ToggleOnReg DEF ROK, ToggleOnHandler
  <2>6. Range(Append(s.args, Flag[a])) = Range(s.args) \cup {Flag[a]}
    BY <2>2, RangeAppend
  <2>7. FlagsIn(StartProcess(u))
    <3> SUFFICES ASSUME NEW b \in Algs, StartProcess(u).checked[b]
                 PROVE  Flag[b] \in Range(Append(s.args, Flag[a]))
      BY <2>4, <2>5 DEF FlagsIn
    <3>1. b = a \/ s.checked[b]
      BY <1>0, <2>5 DEF SType
    <3> QED
      BY <1>0, <2>6, <3>1 DEF FlagsIn
  <2>8. ROK(StartProcess(u))
    BY <1>2, ClickAlgROK DEF ToggleOnHandler
  <2> QED
    BY <1>2, <2>3, <2>7, <2>8, EndsInStart DEF ToggleOnHandler
<1> QED
  BY <1>1, <1>2
(* startDemo pushes all three flags before its startProcess, so the demo  *)
(* runs a live process that was given every flag.                          *)
LEMMA DemoOnShown ==
    ASSUME NEW s, Good(s)
    PROVE  LET r == [StartDemo([s EXCEPT !.demo = TRUE]) EXCEPT !.kiosk = ~@]
           IN  FlagsIn(r) /\ Shown(r)
<1> DEFINE D == <<"-ag", "-s256", "-rd">>
           s0 == [s EXCEPT !.demo = TRUE]
           t == OffAndDisable(OffAndDisable(OffAndDisable(s0, "AES"), "SHA"), "RSA")
           g == NewGauge(NewGauge(NewGauge(t, "AES"), "SHA"), "RSA")
           h == [g EXCEPT !.args = @ \o D]
           st == StartProcess(h)
<1>1. Good(g) /\ g \in SType /\ g.args \in Seq(Flags)
  <2>1. Good(s0)
    BY DemoSetGood
  <2>2. Good(t)
    BY <2>1, OffAndDisableGood DEF Algs
  <2>3. Good(g)
    BY <2>2, NewGaugeGood DEF Algs
  <2> QED
    BY <2>3 DEF Good, SType
<1>2. D \in Seq(Flags) /\ \A a \in Algs : Flag[a] \in Range(D)
  <2>1. "-ag" = Flag["AES"] /\ "-s256" = Flag["SHA"] /\ "-rd" = Flag["RSA"]
    BY DEF Flag, Algs
  <2>2. {"-ag", "-s256", "-rd"} \subseteq Flags
    BY <2>1 DEF Flags, Range, Flag, Algs
  <2>3. \A a \in Algs : Flag[a] \in {"-ag", "-s256", "-rd"}
    BY DEF Flag, Algs
  <2> QED
    BY <2>2, <2>3 DEF Range
<1>3. Good(h) /\ h.args = g.args \o D
  BY <1>1, <1>2, PushArgsGood DEF SType
<1>4. \A a \in Algs : Flag[a] \in Range(h.args)
  <2> SUFFICES ASSUME NEW a \in Algs PROVE Flag[a] \in Range(g.args \o D)
    BY <1>3
  <2>1. PICK k \in 1..3 : D[k] = Flag[a]
    BY <1>2 DEF Range
  <2>2. /\ Len(g.args \o D) = Len(g.args) + 3
        /\ \A i \in 1..Len(g.args) + 3 :
              (g.args \o D)[i] = IF i <= Len(g.args) THEN g.args[i] ELSE D[i - Len(g.args)]
    BY <1>1, <1>2, ConcatProperties
  <2>3. (g.args \o D)[Len(g.args) + k] = Flag[a] /\ Len(g.args) + k \in 1..Len(g.args \o D)
    BY <1>1, <2>1, <2>2
  <2>4. g.args \o D \in Seq(Flags)
    BY <1>1, <1>2
  <2>5. DOMAIN (g.args \o D) = 1..Len(g.args \o D)
    BY <2>4
  <2> HIDE DEF g, D
  <2> QED
    BY <2>3, <2>5 DEF Range
<1>5. st.args = h.args /\ ~st.errorShown /\ Live(st) /\ st \in SType
  <2>1. Len(h.args) > 0
    BY <1>1, <1>2, <1>3
  <2>2. Good(st)
    BY <1>3, StartProcessGood
  <2> QED
    BY <1>3, <2>1, <2>2, StartLive DEF Good
<1>6. StartDemo(s0) = st
  BY DEF StartDemo
<1> DEFINE r == [st EXCEPT !.kiosk = ~@]
<1>7. r.args = st.args /\ ~r.errorShown /\ r.current = st.current /\ r.procs = st.procs
  BY <1>5 DEF SType
<1>8. FlagsIn(r)
  BY <1>4, <1>5, <1>7 DEF FlagsIn
<1>9. Shown(r)
  BY <1>5, <1>7 DEF Shown, Live
<1> QED
  BY <1>6, <1>8, <1>9
-----------------------------------------------------------------------------
(* The inductive invariant: the registry invariant, the flags of the      *)
(* shown algorithms in benchmarkArgs, and GaugesHaveProcess itself.        *)
PInv == RInv /\ FlagsIn(State) /\ (~closed => Shown(State))

LEMMA FlagsInApply ==
    ASSUME NEW r, FlagsIn(r), Apply(r)
    PROVE  FlagsIn(State)'
BY DEF Apply, FlagsIn, State

LEMMA ShownApply ==
    ASSUME NEW r, Shown(r), Apply(r)
    PROVE  Shown(State)'
BY DEF Apply, Shown, Live, State

(* What leaves benchmarkArgs, the toggles and the demo alone keeps FlagsIn. *)
LEMMA FlagsInFrame ==
    ASSUME NEW x, NEW y, FlagsIn(y), x.args = y.args, x.checked = y.checked,
           x.demo = y.demo
    PROVE  FlagsIn(x)
BY DEF FlagsIn

LEMMA PInvInit == Init => PInv
<1> SUFFICES ASSUME Init PROVE PInv
  OBVIOUS
<1>1. RInv
  BY RInvInit
<1>2. FlagsIn(State) /\ Shown(State)
  BY NoneAssumption DEF Init, State, FlagsIn, Shown
<1> QED
  BY <1>1, <1>2 DEF PInv

LEMMA PInvStep == PInv /\ [Next]_vars => PInv'
<1> SUFFICES ASSUME PInv, [Next]_vars PROVE PInv'
  OBVIOUS
<1>0. /\ Good(State) /\ State \in SType /\ ROK(State) /\ FlagsIn(State)
      /\ (~closed => Shown(State)) /\ RInv'
  BY StateGood, RInvStep DEF PInv, RInv, Good
<1> SUFFICES FlagsIn(State)' /\ (~closed' => Shown(State)')
  BY <1>0 DEF PInv
<1>1. ASSUME NEW a \in Algs, ClickAlg(a) PROVE FlagsIn(State)' /\ Shown(State)'
  <2>1. State.enabled[a]
    BY <1>1 DEF ClickAlg, State
  <2> DEFINE r == IF State.checked[a]
                    THEN ToggleOffHandler([State EXCEPT !.checked[a] = FALSE], a)
                    ELSE ToggleOnHandler([State EXCEPT !.checked[a] = TRUE], a)
  <2>2. FlagsIn(r) /\ Shown(r)
    BY <1>0, <2>1, ClickAlgShown
  <2>3. Apply(r)
    BY <1>1 DEF ClickAlg, State
  <2> QED
    BY <2>2, <2>3, FlagsInApply, ShownApply
<1>2. CASE DemoOn
  <2> DEFINE r == [StartDemo([State EXCEPT !.demo = TRUE]) EXCEPT !.kiosk = ~@]
  <2>1. FlagsIn(r) /\ Shown(r)
    BY <1>0, DemoOnShown
  <2>2. Apply(r)
    BY <1>2 DEF DemoOn
  <2> QED
    BY <2>1, <2>2, FlagsInApply, ShownApply
<1>3. CASE DemoOff
  <2> DEFINE r == RemoveAllGauges(CloseProcess(
                    [State EXCEPT !.demo = FALSE, !.enabled = [x \in Algs |-> TRUE],
                                  !.kiosk = ~@]))
  <2>1. State.demo
    BY <1>3 DEF DemoOff, State
  <2>2. ~r.demo /\ \A b \in Algs : r.gauges[b] = None /\ ~r.checked[b]
    BY <1>0, <2>1, DemoOffROK
  <2>3. FlagsIn(r) /\ Shown(r)
    BY <2>2 DEF FlagsIn, Shown
  <2>4. Apply(r)
    BY <1>3 DEF DemoOff
  <2> QED
    BY <2>3, <2>4, FlagsInApply, ShownApply
<1>4. CASE ClickSgx
  <2> DEFINE t == [State EXCEPT !.sgx = ~@]
  <2>1. /\ Good(t) /\ RegFields(t) = RegFields(State) /\ t.args = State.args
        /\ t.errorShown = State.errorShown /\ t.current = State.current
        /\ t.procs = State.procs /\ t.gauges = State.gauges
    BY <1>0, SgxFlipGood DEF RegFields, SType
  <2>2. FlagsIn(t)
    <3>1. t.checked = State.checked /\ t.demo = State.demo
      BY <2>1, RegFieldsSame
    <3> QED
      BY <1>0, <2>1, <3>1, FlagsInFrame
  <2>3. CASE current # 0
    <3> DEFINE r == StartProcess(t)
    <3>1. RegFields(r) = RegFields(State) /\ r.args = t.args
      BY <2>1, StartRegFields, StartLive
    <3>2. ROK(r)
      BY <1>0, <3>1, ROKFrame
    <3>3. FlagsIn(r)
      <4>1. r.checked = State.checked /\ r.demo = State.demo
        BY <3>1, RegFieldsSame
      <4>2. r.checked = t.checked /\ r.demo = t.demo
        BY <2>1, <4>1, RegFieldsSame
      <4> QED
        BY <2>2, <3>1, <4>2, FlagsInFrame
    <3>4. Shown(r)
      BY <2>1, <3>2, <3>3, EndsInStart
    <3>5. Apply(r)
      BY <1>4, <2>3 DEF ClickSgx
    <3> QED
      BY <3>3, <3>4, <3>5, FlagsInApply, ShownApply
  <2>4. CASE current = 0
    <3>1. Apply(t)
      BY <1>4, <2>4 DEF ClickSgx
    <3>2. ~closed
      BY <1>4 DEF ClickSgx
    <3>3. Shown(t)
      BY <1>0, <2>1, <3>2 DEF Shown, Live
    <3> QED
      BY <2>2, <3>1, <3>3, FlagsInApply, ShownApply
  <2> QED
    BY <2>3, <2>4
<1>5. CASE CloseWindow
  <2>1. Good(CloseProcess(State)) /\ CloseProcess(State).args = State.args
        /\ RegFields(CloseProcess(State)) = RegFields(State)
    BY <1>0, CloseProcessGood, CloseRegFields
  <2>2. FlagsIn(CloseProcess(State))
    BY <1>0, <2>1, RegFieldsSame, FlagsInFrame
  <2>3. closed'
    BY <1>5 DEF CloseWindow
  <2> QED
    BY <1>5, <2>2, <2>3, FlagsInApply DEF CloseWindow
<1>6. ASSUME NEW p \in DOMAIN procs, Error(p) PROVE FlagsIn(State)' /\ Shown(State)'
  <2> DEFINE r == [CloseProcess(State) EXCEPT !.errorShown = TRUE]
  <2>1. Good(CloseProcess(State)) /\ CloseProcess(State).args = State.args
        /\ RegFields(CloseProcess(State)) = RegFields(State)
    BY <1>0, CloseProcessGood, CloseRegFields
  <2>2. /\ r.args = State.args /\ RegFields(r) = RegFields(State) /\ r.errorShown
    BY <2>1 DEF Good, SType, RegFields
  <2>3. FlagsIn(r) /\ Shown(r)
    BY <1>0, <2>2, RegFieldsSame, FlagsInFrame DEF Shown
  <2>4. Apply(r)
    BY <1>6 DEF Error
  <2> QED
    BY <2>3, <2>4, FlagsInApply, ShownApply
<1>7. ASSUME NEW p \in DOMAIN procs, Exit(p) PROVE FlagsIn(State)' /\ (~closed' => Shown(State)')
  <2>1. FlagsIn(State)'
    BY <1>0, <1>7 DEF Exit, FlagsIn, State
  <2>2. procs \in Seq(Proc) /\ current \in 0..Len(procs)
    BY <1>0 DEF PInv, RInv, IInv, TypeOK
  <2>3. current # 0 => procs'[current].killed = procs[current].killed
    BY <1>7, <2>2 DEF Exit, Proc
  <2>4. ~closed' => Shown(State)'
    BY <1>0, <1>7, <2>3 DEF Exit, Shown, Live, State
  <2> QED
    BY <2>1, <2>4
<1>8. CASE UNCHANGED vars
  BY <1>0, <1>8 DEF vars, FlagsIn, Shown, Live, State
<1> QED
  BY <1>1, <1>2, <1>3, <1>4, <1>5, <1>6, <1>7, <1>8 DEF Next

(* While a gauge is on screen and no error is shown, index.js has a       *)
(* benchmark process running for it that was not sent SIGTERM: every      *)
(* handler that leaves a gauge registered ends in a startProcess whose    *)
(* benchmarkArgs hold that gauge's flag, for every bound.                 *)
THEOREM ProcessBehindGauges == Spec => []GaugesHaveProcess
<1>1. PInv => GaugesHaveProcess
  BY DEF PInv, Shown, Live, State, GaugesHaveProcess
<1> QED
  BY <1>1, PInvInit, PInvStep, PTL DEF Spec
====
