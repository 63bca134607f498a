--------------------------- MODULE RegistryProofs ---------------------------
(***************************************************************************)
(* Proof that the registry `gauges` and the containers in #gauges follow  *)
(* the toggles (RegistryMatchesToggles), for every bound.                  *)
(*                                                                         *)
(* The property is not inductive.  removeGauge removes the container of   *)
(* the id the registry holds, so two keys sharing an id would lose both   *)
(* containers: ids must be distinct (Distinct).  startDemo switches off    *)
(* the toggles through bootstrapToggle('off'), whose change handler runs   *)
(* only on an enabled toggle, and the demo's off branch re-enables them   *)
(* without touching checked: so the toggles must be enabled exactly when  *)
(* the demo is off, and unchecked while it is on (Modes).                  *)
(***************************************************************************)
EXTENDS BenchmarkAppProofs

(* The keys that have a gauge, and the ids they hold. *)
Keys(s) == {b \in Algs : s.gauges[b] # None}
Ids(s) == {s.gauges[b] : b \in Keys(s)}

(* The containers are those of the registered gauges, whose ids differ. *)
Reg(s) ==
    /\ s.mounted = Ids(s)
    /\ \A a, b \in Algs : a # b /\ s.gauges[a] # None => s.gauges[a] # s.gauges[b]

(* What the registry functions leave alone. *)
RegFields(s) == <<s.gauges, s.mounted, s.nGauges, s.checked, s.enabled, s.demo>>

(* Reg reads only the registry and the containers. *)
LEMMA RegSame ==
    ASSUME NEW x, NEW y, Reg(y), x.gauges = y.gauges, x.mounted = y.mounted
    PROVE  Reg(x)
BY DEF Reg, Ids, Keys

LEMMA RegFieldsSame ==
    ASSUME NEW x, NEW y, RegFields(x) = RegFields(y)
    PROVE  /\ x.gauges = y.gauges /\ x.mounted = y.mounted
           /\ x.nGauges = y.nGauges /\ x.checked = y.checked
           /\ x.enabled = y.enabled /\ x.demo = y.demo
BY DEF RegFields

-----------------------------------------------------------------------------
(* closeProcess, startProcess and removeArg touch no gauge and no toggle. *)
LEMMA CloseRegFields ==
    ASSUME NEW s, Good(s)
    PROVE  RegFields(CloseProcess(s)) = RegFields(s)
BY DEF CloseProcess, RegFields, Good, SType

LEMMA StartRegFields ==
    ASSUME NEW s, Good(s)
    PROVE  RegFields(StartProcess(s)) = RegFields(s)
<1> DEFINE c == CloseProcess(s)
<1>1. Good(c) /\ RegFields(c) = RegFields(s)
  BY CloseProcessGood, CloseRegFields
<1>2. c \in SType
  BY <1>1 DEF Good
<1> QED
  BY <1>1, <1>2 DEF StartProcess, RegFields, SType

LEMMA RemoveArgRegFields ==
    ASSUME NEW s, Good(s), NEW f
    PROVE  RegFields(RemoveArg(s, f)) = RegFields(s)
BY DEF RemoveArg, RegFields, Good, SType

(* removeGauge(key) on a registry that satisfies Reg: the key's entry is  *)
(* deleted and only its container goes.                                    *)
LEMMA RemoveGaugeReg ==
    ASSUME NEW s, Good(s), Reg(s), NEW a \in Algs
    PROVE  LET r == RemoveGauge(s, a)
           IN  /\ Reg(r)
               /\ r.gauges = [s.gauges EXCEPT ![a] = None]
               /\ r.nGauges = s.nGauges /\ r.checked = s.checked
               /\ r.enabled = s.enabled /\ r.demo = s.demo
<1>1. s \in SType
  BY DEF Good
<1>2. CASE s.gauges[a] # None
  <2> DEFINE r == RemoveGauge(s, a)
  <2>1. r = [s EXCEPT !.mounted = s.mounted \ {s.gauges[a]}, !.gauges[a] = None]
    BY <1>2 DEF RemoveGauge
  <2>2. /\ r.gauges = [s.gauges EXCEPT ![a] = None]
        /\ r.mounted = s.mounted \ {s.gauges[a]}
        /\ r.nGauges = s.nGauges /\ r.checked = s.checked
        /\ r.enabled = s.enabled /\ r.demo = s.demo
    BY <1>1, <2>1 DEF SType
  <2>3. Keys(r) = Keys(s) \ {a}
    BY <1>1, <2>2 DEF Keys, SType
  <2>4. r.mounted = Ids(r)
    <3>1. Ids(r) = {s.gauges[b] : b \in Keys(s) \ {a}}
      BY <1>1, <2>2, <2>3 DEF Ids, SType
    <3>2. {s.gauges[b] : b \in Keys(s) \ {a}} = Ids(s) \ {s.gauges[a]}
      BY <1>2 DEF Ids, Keys, Reg
    <3> QED
      BY <2>2, <3>1, <3>2 DEF Reg
  <2>5. \A b, c \in Algs : b # c /\ r.gauges[b] # None => r.gauges[b] # r.gauges[c]
    BY <1>1, <2>2 DEF Reg, SType
  <2> QED
    BY <2>2, <2>4, <2>5 DEF Reg
<1>3. CASE s.gauges[a] = None
  <2>1. [s.gauges EXCEPT ![a] = None] = s.gauges
    BY <1>1, <1>3 DEF SType
  <2> QED
    BY <1>3, <2>1 DEF RemoveGauge
<1> QED
  BY <1>2, <1>3

(* new gauge(key) for a key without a gauge: a fresh id, registered and   *)
(* mounted.                                                                *)
LEMMA NewGaugeReg ==
    ASSUME NEW s, Good(s), Reg(s), NEW a \in Algs, s.gauges[a] = None
    PROVE  LET r == NewGauge(s, a)
           IN  /\ Reg(r)
               /\ r.gauges = [s.gauges EXCEPT ![a] = s.nGauges + 1]
               /\ r.checked = s.checked
               /\ r.enabled = s.enabled /\ r.demo = s.demo
<1>1. s \in SType
  BY DEF Good
<1> DEFINE n == s.nGauges + 1
           r == NewGauge(s, a)
<1>2. /\ r.gauges = [s.gauges EXCEPT ![a] = n]
      /\ r.mounted = s.mounted \cup {n}
      /\ r.checked = s.checked /\ r.enabled = s.enabled /\ r.demo = s.demo
  BY <1>1 DEF NewGauge, SType
<1>3. \A b \in Algs : s.gauges[b] # n
  BY <1>1, NoneAssumption DEF Good, SType
<1>4. Keys(r) = Keys(s) \cup {a}
  BY <1>1, <1>2, NoneAssumption DEF Keys, SType
<1>5. r.mounted = Ids(r)
  <2>1. Ids(r) = {s.gauges[b] : b \in Keys(s)} \cup {n}
    BY <1>1, <1>2, <1>4 DEF Ids, Keys, SType
  <2> QED
    BY <1>2, <2>1 DEF Reg, Ids
<1>6. \A b, c \in Algs : b # c /\ r.gauges[b] # None => r.gauges[b] # r.gauges[c]
  BY <1>1, <1>2, <1>3 DEF Reg, SType
<1> QED
  BY <1>2, <1>5, <1>6 DEF Reg

(* The unchecked branch of a toggle's change handler removes its gauge. *)
LEMMA ToggleOffReg ==
    ASSUME NEW s, Good(s), Reg(s), NEW a \in Algs
    PROVE  LET r == ToggleOffHandler([s EXCEPT !.checked[a] = FALSE], a)
           IN  /\ Good(r) /\ Reg(r)
               /\ r.gauges = [s.gauges EXCEPT ![a] = None]
               /\ r.checked = [s.checked EXCEPT ![a] = FALSE]
               /\ r.enabled = s.enabled /\ r.demo = s.demo /\ r.nGauges = s.nGauges
<1>1. s \in SType
  BY DEF Good
<1> DEFINE s1 == [s EXCEPT !.checked[a] = FALSE]
           s2 == RemoveArg(s1, Flag[a])
           s3 == RemoveGauge(s2, a)
           t == StartProcess(s3)
<1>2. Good(s1) /\ Reg(s1)
      /\ s1.gauges = s.gauges /\ s1.checked = [s.checked EXCEPT ![a] = FALSE]
      /\ s1.enabled = s.enabled /\ s1.demo = s.demo /\ s1.nGauges = s.nGauges
  <2>1. /\ s1.gauges = s.gauges /\ s1.mounted = s.mounted
        /\ s1.checked = [s.checked EXCEPT ![a] = FALSE]
        /\ s1.enabled = s.enabled /\ s1.demo = s.demo /\ s1.nGauges = s.nGauges
    BY <1>1 DEF SType
  <2> QED
    BY <2>1, RegSame, ToggleSetGood
<1>3. Good(s2) /\ Reg(s2) /\ RegFields(s2) = RegFields(s1)
  <2>1. Good(s2) /\ RegFields(s2) = RegFields(s1)
    BY <1>2, RemoveArgGood, RemoveArgRegFields
  <2>2. s2.gauges = s1.gauges /\ s2.mounted = s1.mounted
    BY <2>1, RegFieldsSame
  <2> QED
    BY <1>2, <2>1, <2>2, RegSame
<1>4. /\ Good(s3) /\ Reg(s3)
      /\ s3.gauges = [s.gauges EXCEPT ![a] = None]
      /\ s3.checked = [s.checked EXCEPT ![a] = FALSE]
      /\ s3.enabled = s.enabled /\ s3.demo = s.demo /\ s3.nGauges = s.nGauges
  <2>1. Good(s3)
    BY <1>3, RemoveGaugeGood
  <2>2. /\ Reg(s3) /\ s3.gauges = [s2.gauges EXCEPT ![a] = None]
        /\ s3.nGauges = s2.nGauges /\ s3.checked = s2.checked
        /\ s3.enabled = s2.enabled /\ s3.demo = s2.demo
    BY <1>3, RemoveGaugeReg
  <2>3. /\ s2.gauges = s.gauges /\ s2.nGauges = s.nGauges
        /\ s2.checked = [s.checked EXCEPT ![a] = FALSE]
        /\ s2.enabled = s.enabled /\ s2.demo = s.demo
    BY <1>2, <1>3, RegFieldsSame
  <2> QED
    BY <2>1, <2>2, <2>3
<1>5. Good(t) /\ Reg(t) /\ RegFields(t) = RegFields(s3)
  <2>1. Good(t) /\ RegFields(t) = RegFields(s3)
    BY <1>4, StartProcessGood, StartRegFields
  <2>2. t.gauges = s3.gauges /\ t.mounted = s3.mounted
    BY <2>1, RegFieldsSame
  <2> QED
    BY <1>4, <2>1, <2>2, RegSame
<1>6. /\ t.gauges = [s.gauges EXCEPT ![a] = None]
      /\ t.checked = [s.checked EXCEPT ![a] = FALSE]
      /\ t.enabled = s.enabled /\ t.demo = s.demo /\ t.nGauges = s.nGauges
  BY <1>4, <1>5, RegFieldsSame
<1> QED
  BY <1>5, <1>6 DEF ToggleOffHandler

(* The checked branch of a toggle's change handler creates its gauge. *)
LEMMA ToggleOnReg ==
    ASSUME NEW s, Good(s), Reg(s), NEW a \in Algs, s.gauges[a] = None
    PROVE  LET r == ToggleOnHandler([s EXCEPT !.checked[a] = TRUE], a)
           IN  /\ Good(r) /\ Reg(r)
               /\ r.gauges = [s.gauges EXCEPT ![a] = s.nGauges + 1]
               /\ r.checked = [s.checked EXCEPT ![a] = TRUE]
               /\ r.enabled = s.enabled /\ r.demo = s.demo
<1>1. s \in SType
  BY DEF Good
<1> DEFINE s1 == [s EXCEPT !.checked[a] = TRUE]
           s2 == [s1 EXCEPT !.args = Append(@, Flag[a])]
           u == NewGauge(s2, a)
           t == StartProcess(u)
<1>2. Good(s1)
  BY ToggleSetGood
<1>3. Flag[a] \in Flags
  BY DEF Flags, Range, Flag, Algs
<1>3a. s1.args \in Seq(Flags) /\ <<Flag[a]>> \in Seq(Flags)
  BY <1>2, <1>3 DEF Good, SType
<1>4. s2 = [s1 EXCEPT !.args = @ \o <<Flag[a]>>]
  <2>1. Append(s1.args, Flag[a]) = s1.args \o <<Flag[a]>>
    BY <1>3, <1>3a, AppendIsConcat
  <2> QED
    BY <2>1
<1>5. Good(s2) /\ Reg(s2)
      /\ s2.gauges = s.gauges /\ s2.nGauges = s.nGauges
      /\ s2.checked = [s.checked EXCEPT ![a] = TRUE]
      /\ s2.enabled = s.enabled /\ s2.demo = s.demo
  <2>1. Good(s2)
    BY <1>2, <1>3a, <1>4, PushArgsGood
  <2>2. /\ s2.gauges = s.gauges /\ s2.mounted = s.mounted /\ s2.nGauges = s.nGauges
        /\ s2.checked = [s.checked EXCEPT ![a] = TRUE]
        /\ s2.enabled = s.enabled /\ s2.demo = s.demo
    BY <1>1 DEF SType
  <2> QED
    BY <2>1, <2>2, RegSame
<1>6. /\ Good(u) /\ Reg(u)
      /\ u.gauges = [s.gauges EXCEPT ![a] = s.nGauges + 1]
      /\ u.checked = [s.checked EXCEPT ![a] = TRUE]
      /\ u.enabled = s.enabled /\ u.demo = s.demo
  <2>1. Good(u)
    BY <1>5, NewGaugeGood
  <2>2. s2.gauges[a] = None
    BY <1>5
  <2>3. /\ Reg(u) /\ u.gauges = [s2.gauges EXCEPT ![a] = s2.nGauges + 1]
        /\ u.checked = s2.checked /\ u.enabled = s2.enabled /\ u.demo = s2.demo
    BY <1>5, <2>2, NewGaugeReg
  <2> QED
    BY <1>5, <2>1, <2>3
<1>7. Good(t) /\ RegFields(t) = RegFields(u)
  BY <1>6, StartProcessGood, StartRegFields
<1>8. /\ t.gauges = u.gauges /\ t.mounted = u.mounted /\ t.checked = u.checked
      /\ t.enabled = u.enabled /\ t.demo = u.demo
  BY <1>7, RegFieldsSame
<1> QED
  BY <1>6, <1>7, <1>8, RegSame DEF ToggleOnHandler

(* bootstrapToggle('off').bootstrapToggle('disable') on an enabled toggle: *)
(* its change handler removes the gauge; the toggle ends unchecked and     *)
(* disabled.                                                               *)
LEMMA OffAndDisableReg ==
    ASSUME NEW s, Good(s), Reg(s), NEW a \in Algs, s.enabled[a]
    PROVE  LET r == OffAndDisable(s, a)
           IN  /\ Good(r) /\ Reg(r)
               /\ r.gauges = [s.gauges EXCEPT ![a] = None]
               /\ r.checked = [s.checked EXCEPT ![a] = FALSE]
               /\ r.enabled = [s.enabled EXCEPT ![a] = FALSE]
               /\ r.demo = s.demo /\ r.nGauges = s.nGauges
<1> DEFINE t == ToggleOffHandler([s EXCEPT !.checked[a] = FALSE], a)
           rr == OffAndDisable(s, a)
<1>1. /\ Good(t) /\ Reg(t)
      /\ t.gauges = [s.gauges EXCEPT ![a] = None]
      /\ t.checked = [s.checked EXCEPT ![a] = FALSE]
      /\ t.enabled = s.enabled /\ t.demo = s.demo /\ t.nGauges = s.nGauges
  BY ToggleOffReg
<1>2. rr = [t EXCEPT !.enabled[a] = FALSE]
  BY DEF OffAndDisable
<1>3. t \in SType
  BY <1>1 DEF Good
<1>4. /\ rr.gauges = t.gauges /\ rr.mounted = t.mounted
      /\ rr.checked = t.checked /\ rr.demo = t.demo /\ rr.nGauges = t.nGauges
      /\ rr.enabled = [t.enabled EXCEPT ![a] = FALSE]
  BY <1>2, <1>3 DEF SType
<1>5. Good(rr)
  <2>1. Good([t EXCEPT !.enabled[a] = FALSE])
    BY <1>1, ToggleSetGood
  <2> QED
    BY <1>2, <2>1
<1> QED
  BY <1>1, <1>4, <1>5, RegSame
-----------------------------------------------------------------------------
(* A gauge is registered exactly for the checked toggles, or all of them  *)
(* while the demo runs.                                                    *)
Toggles(s) == \A a \in Algs : s.gauges[a] # None <=> (s.checked[a] \/ s.demo)

(* While the demo runs the toggles are unchecked and disabled; otherwise   *)
(* they are all enabled.                                                   *)
Modes(s) ==
    /\ s.demo => \A a \in Algs : ~s.checked[a] /\ ~s.enabled[a]
    /\ ~s.demo => \A a \in Algs : s.enabled[a]

(* The invariant on the program state, as a record. *)
ROK(s) == Reg(s) /\ Toggles(s) /\ Modes(s)

LEMMA ROKFrame ==
    ASSUME NEW x, NEW y, ROK(y), RegFields(x) = RegFields(y)
    PROVE  ROK(x)
<1>1. /\ x.gauges = y.gauges /\ x.mounted = y.mounted
      /\ x.checked = y.checked /\ x.enabled = y.enabled /\ x.demo = y.demo
  BY RegFieldsSame
<1>2. Reg(x)
  BY <1>1, RegSame DEF ROK
<1> QED
  BY <1>1, <1>2 DEF ROK, Toggles, Modes

(* The change handler of an enabled algorithm toggle, both branches. *)
LEMMA ClickAlgROK ==
    ASSUME NEW s, Good(s), ROK(s), NEW a \in Algs, s.enabled[a]
    PROVE  ROK(IF s.checked[a]
                 THEN ToggleOffHandler([s EXCEPT !.checked[a] = FALSE], a)
                 ELSE ToggleOnHandler([s EXCEPT !.checked[a] = TRUE], a))
<1>1. s \in SType /\ ~s.demo /\ \A b \in Algs : s.enabled[b]
  BY DEF Good, ROK, Modes
<1>2. CASE s.checked[a]
  <2> DEFINE t == ToggleOffHandler([s EXCEPT !.checked[a] = FALSE], a)
  <2>1. /\ Reg(t)
        /\ t.gauges = [s.gauges EXCEPT ![a] = None]
        /\ t.checked = [s.checked EXCEPT ![a] = FALSE]
        /\ t.enabled = s.enabled /\ t.demo = s.demo
    BY ToggleOffReg DEF ROK
  <2>2. Toggles(t)
    BY <1>1, <2>1 DEF ROK, Toggles, SType
  <2>3. Modes(t)
    BY <1>1, <2>1 DEF Modes
  <2> QED
    BY <1>2, <2>1, <2>2, <2>3 DEF ROK
<1>3. CASE ~s.checked[a]
  <2>1. s.gauges[a] = None
    BY <1>1, <1>3 DEF ROK, Toggles
  <2> DEFINE t == ToggleOnHandler([s EXCEPT !.checked[a] = TRUE], a)
  <2>2. /\ Reg(t)
        /\ t.gauges = [s.gauges EXCEPT ![a] = s.nGauges + 1]
        /\ t.checked = [s.checked EXCEPT ![a] = TRUE]
        /\ t.enabled = s.enabled /\ t.demo = s.demo
    BY <2>1, ToggleOnReg DEF ROK
  <2>3. s.nGauges + 1 # None
    BY <1>1, NoneAssumption DEF SType
  <2>4. Toggles(t)
    BY <1>1, <2>2, <2>3 DEF ROK, Toggles, SType
  <2>5. Modes(t)
    BY <1>1, <2>2 DEF Modes
  <2> QED
    BY <1>3, <2>2, <2>4, <2>5 DEF ROK
<1> QED
  BY <1>2, <1>3
(* The demo toggle's off branch: enable the toggles, closeProcess(),       *)
(* removeAllGauges().  The toggles are unchecked while the demo runs, so   *)
(* removing every gauge leaves the registry matching them.                *)
LEMMA DemoOffROK ==
    ASSUME NEW s, Good(s), ROK(s), s.demo
    PROVE  LET r == RemoveAllGauges(CloseProcess(
                      [s EXCEPT !.demo = FALSE, !.enabled = [x \in Algs |-> TRUE],
                                !.kiosk = ~@]))
           IN  /\ ROK(r) /\ ~r.demo
               /\ \A b \in Algs : r.gauges[b] = None /\ ~r.checked[b]
<1>1. s \in SType /\ \A b \in Algs : ~s.checked[b]
  BY DEF Good, ROK, Modes
<1> DEFINE s1 == [s EXCEPT !.demo = FALSE, !.enabled = [x \in Algs |-> TRUE],
                           !.kiosk = ~@]
           c == CloseProcess(s1)
           y1 == RemoveGauge(c, "AES")
           y2 == RemoveGauge(y1, "SHA")
           y3 == RemoveGauge(y2, "RSA")
<1>2. Good(s1) /\ Reg(s1)
      /\ s1.checked = s.checked /\ s1.enabled = [x \in Algs |-> TRUE] /\ ~s1.demo
  <2>1. /\ s1.gauges = s.gauges /\ s1.mounted = s.mounted
        /\ s1.checked = s.checked /\ s1.enabled = [x \in Algs |-> TRUE] /\ ~s1.demo
    BY <1>1 DEF SType
  <2> QED
    BY <2>1, DemoResetGood, RegSame DEF ROK
<1>3. Good(c) /\ Reg(c)
      /\ c.checked = s.checked /\ c.enabled = [x \in Algs |-> TRUE] /\ ~c.demo
  <2>1. Good(c) /\ RegFields(c) = RegFields(s1)
    BY <1>2, CloseProcessGood, CloseRegFields
  <2>2. /\ c.gauges = s1.gauges /\ c.mounted = s1.mounted
        /\ c.checked = s1.checked /\ c.enabled = s1.enabled /\ c.demo = s1.demo
    BY <2>1, RegFieldsSame
  <2> QED
    BY <1>2, <2>1, <2>2, RegSame
<1>0. "AES" \in Algs /\ "SHA" \in Algs /\ "RSA" \in Algs
  BY DEF Algs
<1>4. Good(y1) /\ Reg(y1) /\ y1.gauges["AES"] = None
      /\ y1.checked = s.checked /\ y1.enabled = [x \in Algs |-> TRUE] /\ ~y1.demo
  <2>1. c \in SType
    BY <1>3 DEF Good
  <2>2. /\ Reg(y1) /\ y1.gauges = [c.gauges EXCEPT !["AES"] = None]
        /\ y1.checked = c.checked /\ y1.enabled = c.enabled /\ y1.demo = c.demo
    BY <1>0, <1>3, RemoveGaugeReg
  <2>3. Good(y1)
    BY <1>0, <1>3, RemoveGaugeGood
  <2> QED
    BY <1>3, <2>1, <2>2, <2>3 DEF Algs, SType
<1>5. Good(y2) /\ Reg(y2) /\ y2.gauges["AES"] = None /\ y2.gauges["SHA"] = None
      /\ y2.checked = s.checked /\ y2.enabled = [x \in Algs |-> TRUE] /\ ~y2.demo
  <2>1. y1 \in SType
    BY <1>4 DEF Good
  <2>2. /\ Reg(y2) /\ y2.gauges = [y1.gauges EXCEPT !["SHA"] = None]
        /\ y2.checked = y1.checked /\ y2.enabled = y1.enabled /\ y2.demo = y1.demo
    BY <1>0, <1>4, RemoveGaugeReg
  <2>3. Good(y2)
    BY <1>0, <1>4, RemoveGaugeGood
  <2> QED
    BY <1>4, <2>1, <2>2, <2>3 DEF Algs, SType
<1>6. /\ Reg(y3) /\ \A b \in Algs : y3.gauges[b] = None
      /\ y3.checked = s.checked /\ y3.enabled = [x \in Algs |-> TRUE] /\ ~y3.demo
  <2>1. y2 \in SType
    BY <1>5 DEF Good
  <2>2. /\ Reg(y3) /\ y3.gauges = [y2.gauges EXCEPT !["RSA"] = None]
        /\ y3.checked = y2.checked /\ y3.enabled = y2.enabled /\ y3.demo = y2.demo
    BY <1>0, <1>5, RemoveGaugeReg
  <2> QED
    BY <1>5, <2>1, <2>2 DEF Algs, SType
<1> QED
  BY <1>1, <1>6 DEF ROK, Toggles, Modes, RemoveAllGauges
(* A fresh gauge id is never None. *)
LEMMA FreshId ==
    ASSUME NEW x \in SType
    PROVE  x.nGauges + 1 # None
<1>1. x.nGauges + 1 \in Nat
  BY DEF SType
<1> QED
  BY <1>1, NoneAssumption

(* The demo toggle's on branch: startDemo() switches the enabled toggles  *)
(* off through their change handlers (removing their gauges), disables    *)
(* them, then creates one gauge per key.                                   *)
LEMMA DemoOnROK ==
    ASSUME NEW s, Good(s), ROK(s), ~s.demo
    PROVE  ROK([StartDemo([s EXCEPT !.demo = TRUE]) EXCEPT !.kiosk = ~@])
<1>0. "AES" \in Algs /\ "SHA" \in Algs /\ "RSA" \in Algs
  BY DEF Algs
<1>1. s \in SType /\ \A b \in Algs : s.enabled[b]
  BY DEF Good, ROK, Modes
<1> DEFINE s0 == [s EXCEPT !.demo = TRUE]
           x1 == OffAndDisable(s0, "AES")
           x2 == OffAndDisable(x1, "SHA")
           x3 == OffAndDisable(x2, "RSA")
           g1 == NewGauge(x3, "AES")
           g2 == NewGauge(g1, "SHA")
           g3 == NewGauge(g2, "RSA")
           h == [g3 EXCEPT !.args = @ \o <<"-ag", "-s256", "-rd">>]
           st == StartProcess(h)
<1>2. Good(s0) /\ Reg(s0) /\ s0.enabled = s.enabled /\ s0.demo
  <2>1. s0.gauges = s.gauges /\ s0.mounted = s.mounted /\ s0.enabled = s.enabled /\ s0.demo
    BY <1>1 DEF SType
  <2> QED
    BY <2>1, DemoSetGood, RegSame DEF ROK
<1>3. /\ Good(x1) /\ Reg(x1) /\ x1.demo
      /\ x1.gauges = [s0.gauges EXCEPT !["AES"] = None]
      /\ x1.checked = [s0.checked EXCEPT !["AES"] = FALSE]
      /\ x1.enabled = [s0.enabled EXCEPT !["AES"] = FALSE]
  BY <1>0, <1>1, <1>2, OffAndDisableReg
<1>4. /\ Good(x2) /\ Reg(x2) /\ x2.demo
      /\ x2.gauges = [x1.gauges EXCEPT !["SHA"] = None]
      /\ x2.checked = [x1.checked EXCEPT !["SHA"] = FALSE]
      /\ x2.enabled = [x1.enabled EXCEPT !["SHA"] = FALSE]
  <2>1. x1.enabled["SHA"]
    BY <1>0, <1>1, <1>2, <1>3 DEF SType
  <2> QED
    BY <1>0, <1>3, <2>1, OffAndDisableReg
<1>5. /\ Good(x3) /\ Reg(x3) /\ x3.demo
      /\ x3.gauges = [x2.gauges EXCEPT !["RSA"] = None]
      /\ x3.checked = [x2.checked EXCEPT !["RSA"] = FALSE]
      /\ x3.enabled = [x2.enabled EXCEPT !["RSA"] = FALSE]
  <2>1. x2.enabled["RSA"]
    BY <1>0, <1>1, <1>2, <1>3, <1>4 DEF SType
  <2> QED
    BY <1>0, <1>4, <2>1, OffAndDisableReg
<1>6. \A b \in Algs : x3.gauges[b] = None /\ ~x3.checked[b] /\ ~x3.enabled[b]
  <2> HIDE DEF s0, x1, x2, x3
  <2>1. s0 \in SType /\ x1 \in SType /\ x2 \in SType
    BY <1>2, <1>3, <1>4 DEF Good
  <2>2. /\ x3.gauges["RSA"] = None /\ ~x3.checked["RSA"] /\ ~x3.enabled["RSA"]
        /\ x3.gauges["SHA"] = None /\ ~x3.checked["SHA"] /\ ~x3.enabled["SHA"]
        /\ x3.gauges["AES"] = None /\ ~x3.checked["AES"] /\ ~x3.enabled["AES"]
    BY <1>0, <1>3, <1>4, <1>5, <2>1 DEF SType
  <2> QED
    BY <2>2 DEF Algs
<1>7. /\ Good(g1) /\ Reg(g1) /\ g1.demo
      /\ g1.gauges = [x3.gauges EXCEPT !["AES"] = x3.nGauges + 1]
      /\ g1.checked = x3.checked /\ g1.enabled = x3.enabled
  <2>1. x3.gauges["AES"] = None
    BY <1>0, <1>6
  <2> QED
    BY <1>0, <1>5, <2>1, NewGaugeGood, NewGaugeReg
<1>8. /\ Good(g2) /\ Reg(g2) /\ g2.demo
      /\ g2.gauges = [g1.gauges EXCEPT !["SHA"] = g1.nGauges + 1]
      /\ g2.checked = x3.checked /\ g2.enabled = x3.enabled
  <2>1. g1.gauges["SHA"] = None
    BY <1>0, <1>5, <1>6, <1>7 DEF Good, SType, Algs
  <2> QED
    BY <1>0, <1>7, <2>1, NewGaugeGood, NewGaugeReg
<1>9. /\ Good(g3) /\ Reg(g3) /\ g3.demo
      /\ g3.gauges = [g2.gauges EXCEPT !["RSA"] = g2.nGauges + 1]
      /\ g3.checked = x3.checked /\ g3.enabled = x3.enabled
  <2>1. g2.gauges["RSA"] = None
    BY <1>0, <1>5, <1>6, <1>7, <1>8 DEF Good, SType, Algs
  <2> QED
    BY <1>0, <1>8, <2>1, NewGaugeGood, NewGaugeReg
<1>10. \A b \in Algs : g3.gauges[b] # None
  <2> HIDE DEF s0, x1, x2, x3, g1, g2, g3
  <2>0. x3 \in SType /\ g1 \in SType /\ g2 \in SType
    BY <1>5, <1>7, <1>8 DEF Good
  <2>1. /\ x3.nGauges + 1 # None /\ g1.nGauges + 1 # None /\ g2.nGauges + 1 # None
        /\ x3 \in SType /\ g1 \in SType /\ g2 \in SType
    BY <2>0, FreshId
  <2> QED
    BY <1>7, <1>8, <1>9, <2>1 DEF SType, Algs
<1>11. ROK(g3)
  BY <1>6, <1>9, <1>10 DEF ROK, Toggles, Modes
<1>12. Good(h) /\ RegFields(h) = RegFields(g3)
  <2>1. <<"-ag", "-s256", "-rd">> \in Seq(Flags)
    <3>1. "-ag" = Flag["AES"] /\ "-s256" = Flag["SHA"] /\ "-rd" = Flag["RSA"]
      BY DEF Flag, Algs
    <3>2. {"-ag", "-s256", "-rd"} \subseteq Flags
      BY <3>1 DEF Flags, Range, Flag, Algs
    <3> QED
      BY <3>2
  <2>2. g3 \in SType
    BY <1>9 DEF Good
  <2> QED
    BY <1>9, <2>1, <2>2, PushArgsGood DEF RegFields, SType
<1>13. Good(st) /\ RegFields(st) = RegFields(g3)
  BY <1>12, StartProcessGood, StartRegFields
<1>14. RegFields([st EXCEPT !.kiosk = ~@]) = RegFields(g3)
  <2>1. st \in SType
    BY <1>13 DEF Good
  <2> QED
    BY <1>13, <2>1 DEF RegFields, SType
<1>15. [StartDemo(s0) EXCEPT !.kiosk = ~@] = [st EXCEPT !.kiosk = ~@]
  BY DEF StartDemo
<1> QED
  BY <1>11, <1>14, <1>15, ROKFrame
-----------------------------------------------------------------------------
(* The inductive invariant. *)
RInv == IInv /\ ROK(State)

(* A handler's result, once applied, is the next program state. *)
LEMMA ROKApply ==
    ASSUME NEW r, ROK(r), Apply(r)
    PROVE  ROK(State)'
BY DEF Apply, ROK, Reg, Ids, Keys, Toggles, Modes, State

(* A step that leaves the registry and the toggles alone. *)
LEMMA ROKKept ==
    ASSUME ROK(State), RegFields(State)' = RegFields(State)
    PROVE  ROK(State)'
BY DEF ROK, Reg, Ids, Keys, Toggles, Modes, RegFields, State

LEMMA RInvInit == Init => RInv
<1> SUFFICES ASSUME Init PROVE RInv
  OBVIOUS
<1>1. IInv
  BY IInvInit
<1>2. ROK(State)
  BY DEF Init, State, ROK, Reg, Ids, Keys, Toggles, Modes
<1> QED
  BY <1>1, <1>2 DEF RInv

LEMMA RInvStep == RInv /\ [Next]_vars => RInv'
<1> SUFFICES ASSUME RInv, [Next]_vars PROVE RInv'
  OBVIOUS
<1>0. Good(State) /\ State \in SType /\ ROK(State) /\ IInv'
  BY StateGood, IInvStep DEF RInv, Good
<1> SUFFICES ROK(State)'
  BY <1>0 DEF RInv
<1>1. ASSUME NEW a \in Algs, ClickAlg(a) PROVE ROK(State)'
  <2>1. State.enabled[a]
    BY <1>1 DEF ClickAlg, State
  <2>2. ROK(IF State.checked[a]
             THEN ToggleOffHandler([State EXCEPT !.checked[a] = FALSE], a)
             ELSE ToggleOnHandler([State EXCEPT !.checked[a] = TRUE], a))
    BY <1>0, <2>1, ClickAlgROK
  <2> QED
    BY <1>1, <2>2, ROKApply DEF ClickAlg, State
<1>2. CASE DemoOn
  <2>1. ~State.demo
    BY <1>2 DEF DemoOn, State
  <2>2. ROK([StartDemo([State EXCEPT !.demo = TRUE]) EXCEPT !.kiosk = ~@])
    BY <1>0, <2>1, DemoOnROK
  <2> QED
    BY <1>2, <2>2, ROKApply DEF DemoOn
<1>3. CASE DemoOff
  <2>1. State.demo
    BY <1>3 DEF DemoOff, State
  <2>2. ROK(RemoveAllGauges(CloseProcess(
              [State EXCEPT !.demo = FALSE, !.enabled = [x \in Algs |-> TRUE],
                            !.kiosk = ~@])))
    BY <1>0, <2>1, DemoOffROK
  <2> QED
    BY <1>3, <2>2, ROKApply DEF DemoOff
<1>4. CASE ClickSgx
  <2> DEFINE t == [State EXCEPT !.sgx = ~@]
  <2>1. Good(t) /\ RegFields(t) = RegFields(State)
    BY <1>0, SgxFlipGood DEF RegFields, SType
  <2>2. RegFields(StartProcess(t)) = RegFields(State)
    BY <2>1, StartRegFields
  <2>3. ROK(IF current # 0 THEN StartProcess(t) ELSE t)
    BY <1>0, <2>1, <2>2, ROKFrame
  <2> QED
    BY <1>4, <2>3, ROKApply DEF ClickSgx
<1>5. CASE CloseWindow
  <2>1. ROK(CloseProcess(State))
    BY <1>0, CloseRegFields, ROKFrame
  <2> QED
    BY <1>5, <2>1, ROKApply DEF CloseWindow
<1>6. ASSUME NEW p \in DOMAIN procs, Error(p) PROVE ROK(State)'
  <2>1. Good(CloseProcess(State)) /\ RegFields(CloseProcess(State)) = RegFields(State)
    BY <1>0, CloseProcessGood, CloseRegFields
  <2>2. RegFields([CloseProcess(State) EXCEPT !.errorShown = TRUE]) = RegFields(State)
    BY <2>1 DEF Good, SType, RegFields
  <2>3. ROK([CloseProcess(State) EXCEPT !.errorShown = TRUE])
    BY <1>0, <2>2, ROKFrame
  <2> QED
    BY <1>6, <2>3, ROKApply DEF Error
<1>7. ASSUME NEW p \in DOMAIN procs, Exit(p) PROVE ROK(State)'
  BY <1>0, <1>7, ROKKept DEF Exit, RegFields, State
<1>8. CASE UNCHANGED vars
  BY <1>0, <1>8, ROKKept DEF vars, RegFields, State
<1> QED
  BY <1>1, <1>2, <1>3, <1>4, <1>5, <1>6, <1>7, <1>8 DEF Next

(* index.js keeps the registry `gauges` and the containers in #gauges     *)
(* matching the toggles through every sequence of handlers (toggle        *)
(* change handlers, startDemo with its bootstrapToggle('off') calls, the   *)
(* demo toggle's off branch), for every bound on processes and gauges.     *)
THEOREM RegistryCorrect == Spec => []RegistryMatchesToggles
<1>1. RInv => RegistryMatchesToggles
  BY DEF RInv, ROK, Reg, Ids, Keys, Toggles, State, RegistryMatchesToggles
<1> QED
  BY <1>1, RInvInit, RInvStep, PTL DEF Spec
====
