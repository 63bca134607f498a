------------------------- MODULE BenchmarkAppProofs -------------------------
(***************************************************************************)
(* Proofs about BenchmarkApp: type correctness and that at most one        *)
(* benchmark process, the one benchmarkProcess holds, has not been sent    *)
(* SIGTERM, for every value of the bounds.                                 *)
(*                                                                         *)
(* Each function of index.js is shown to map a well-formed program state   *)
(* (a record of the right shape whose gauge ids and benchmarkProcess are   *)
(* in range and in which every process other than benchmarkProcess is     *)
(* killed or gone) to a well-formed one; a handler composes such           *)
(* functions, and Apply turns a well-formed record within the bounds into  *)
(* a state satisfying TypeOK and OnlyCurrentUnkilled.                      *)
(***************************************************************************)
EXTENDS BenchmarkApp, SequenceTheorems, WellFoundedInduction, TLAPS

Flags == Range(Flag)

(* The shape of the program state record. *)
SType == [checked : [Algs -> BOOLEAN], enabled : [Algs -> BOOLEAN],
          demo : BOOLEAN, sgx : BOOLEAN, kiosk : BOOLEAN,
          gauges : [Algs -> Nat \cup {None}], mounted : SUBSET Nat,
          nGauges : Nat, args : Seq(Flags), procs : Seq(Proc),
          current : Nat, errorShown : BOOLEAN]

(* Every process but benchmarkProcess was sent SIGTERM or is gone. *)
OthersKilled(s) ==
    \A p \in 1..Len(s.procs) :
        p # s.current => s.procs[p].killed \/ s.procs[p].exited

(* A well-formed program state. *)
Good(s) ==
    /\ s \in SType
    /\ s.current <= Len(s.procs)
    /\ \A a \in Algs : s.gauges[a] \in (1..s.nGauges) \cup {None}
    /\ s.mounted \subseteq 1..s.nGauges
    /\ OthersKilled(s)

-----------------------------------------------------------------------------
(* indexOf finds the first occurrence, when there is one. *)
LEMMA IndexOfFound ==
    ASSUME NEW sq \in Seq(Flags), NEW e, IndexOf(sq, e) > 0
    PROVE  IndexOf(sq, e) \in 1..Len(sq)
<1> DEFINE I == {i \in 1..Len(sq) : sq[i] = e}
<1>1. I # {} /\ I \subseteq Nat
  BY DEF IndexOf
<1>2. \E x \in I : \A y \in I : ~(<<y, x>> \in OpToRel(<, Nat))
  BY <1>1, NatLessThanWellFounded, WFMin
<1>3. PICK x \in I : \A y \in I : ~(<<y, x>> \in OpToRel(<, Nat))
  BY <1>2
<1>4. \A y \in I : x <= y
  <2> SUFFICES ASSUME NEW y \in I PROVE x <= y
    OBVIOUS
  <2>1. x \in Nat /\ y \in Nat
    BY <1>1
  <2>2. ~(y < x)
    BY <1>3, <2>1 DEF OpToRel
  <2> QED
    BY <2>1, <2>2
<1> QED
  BY <1>1, <1>4 DEF IndexOf

(* removeArg keeps benchmarkArgs a sequence of flags. *)
LEMMA SpliceType ==
    ASSUME NEW sq \in Seq(Flags), NEW i \in 1..Len(sq)
    PROVE  Splice(sq, i) \in Seq(Flags)
BY DEF Splice

-----------------------------------------------------------------------------
(* closeProcess leaves every process killed or gone. *)
AllKilled(s) == \A p \in 1..Len(s.procs) : s.procs[p].killed \/ s.procs[p].exited

(* Killing process k keeps the process table a sequence of processes. *)
LEMMA KillType ==
    ASSUME NEW ps \in Seq(Proc), NEW k \in 1..Len(ps)
    PROVE  /\ [ps EXCEPT ![k].killed = TRUE] \in Seq(Proc)
           /\ Len([ps EXCEPT ![k].killed = TRUE]) = Len(ps)
           /\ [ps EXCEPT ![k].killed = TRUE][k].killed
           /\ \A p \in 1..Len(ps) : p # k =>
                 [ps EXCEPT ![k].killed = TRUE][p] = ps[p]
<1>1. ps[k] \in Proc
  OBVIOUS
<1>2. [ps[k] EXCEPT !.killed = TRUE] \in Proc
  BY <1>1 DEF Proc
<1> QED
  BY <1>2

LEMMA CloseProcessGood ==
    ASSUME NEW s, Good(s)
    PROVE  Good(CloseProcess(s)) /\ AllKilled(CloseProcess(s))
           /\ CloseProcess(s).args = s.args /\ CloseProcess(s).sgx = s.sgx
           /\ CloseProcess(s).gauges = s.gauges
<1> DEFINE c == CloseProcess(s)
<1>1. s \in SType
  BY DEF Good
<1>2. /\ c.procs = IF s.current # 0
                     THEN [s.procs EXCEPT ![s.current].killed = TRUE] ELSE s.procs
      /\ c.errorShown = FALSE
      /\ c = [s EXCEPT !.procs = c.procs, !.errorShown = FALSE]
  BY <1>1 DEF CloseProcess
<1>3. c.procs \in Seq(Proc) /\ Len(c.procs) = Len(s.procs) /\ AllKilled(c)
  <2>1. CASE s.current # 0
    <3>1. s.current \in 1..Len(s.procs)
      BY <1>1, <2>1 DEF Good, SType
    <3>2. s.procs \in Seq(Proc)
      BY <1>1 DEF SType
    <3> QED
      BY <1>2, <2>1, <3>1, <3>2, KillType DEF Good, OthersKilled, AllKilled
  <2>2. CASE s.current = 0
    BY <1>1, <1>2, <2>2 DEF Good, SType, OthersKilled, AllKilled
  <2> QED
    BY <2>1, <2>2
<1>4. c \in SType
  BY <1>1, <1>2, <1>3 DEF SType
<1>5. OthersKilled(c)
  BY <1>3 DEF AllKilled, OthersKilled
<1>6. /\ c.args = s.args /\ c.sgx = s.sgx /\ c.gauges = s.gauges
      /\ c.current = s.current /\ c.nGauges = s.nGauges /\ c.mounted = s.mounted
  BY <1>1 DEF CloseProcess
<1>7. Good(c)
  BY <1>3, <1>4, <1>5, <1>6 DEF Good
<1> QED
  BY <1>3, <1>6, <1>7

LEMMA StartProcessGood ==
    ASSUME NEW s, Good(s)
    PROVE  Good(StartProcess(s))
<1> DEFINE c == CloseProcess(s)
<1>1. Good(c) /\ AllKilled(c)
  BY CloseProcessGood
<1>2. CASE Len(c.args) > 0
  <2> DEFINE np == [args |-> c.args, sgx |-> c.sgx, killed |-> FALSE, exited |-> FALSE]
             r == StartProcess(s)
  <2>1. np \in Proc
    BY <1>1 DEF Good, SType, Proc, Flags
  <2>2. c \in SType /\ c.procs \in Seq(Proc)
    BY <1>1 DEF Good, SType
  <2>3. r = [c EXCEPT !.procs = Append(c.procs, np), !.current = Len(c.procs) + 1]
    BY <1>2 DEF StartProcess
  <2>8. r.procs = Append(c.procs, np) /\ r.current = Len(c.procs) + 1
    BY <2>2, <2>3 DEF SType
  <2>4. Append(c.procs, np) \in Seq(Proc) /\ Len(Append(c.procs, np)) = Len(c.procs) + 1
        /\ \A p \in 1..Len(c.procs) : Append(c.procs, np)[p] = c.procs[p]
    BY <2>1, <2>2
  <2>5. r \in SType
    <3>1. Len(c.procs) + 1 \in Nat
      BY <2>2
    <3> QED
      BY <2>2, <2>3, <2>4, <3>1 DEF SType
  <2>6. OthersKilled(r)
    <3> SUFFICES ASSUME NEW p \in 1..Len(r.procs), p # r.current
                 PROVE  r.procs[p].killed \/ r.procs[p].exited
      BY DEF OthersKilled
    <3>1. p \in 1..Len(c.procs)
      BY <2>8, <2>4, <2>2
    <3>2. r.procs[p] = c.procs[p]
      BY <3>1, <2>8, <2>4
    <3> QED
      BY <1>1, <3>1, <3>2 DEF AllKilled
  <2>7. /\ r.gauges = c.gauges /\ r.nGauges = c.nGauges /\ r.mounted = c.mounted
    BY <2>2, <2>3 DEF SType
  <2> QED
    BY <1>1, <2>8, <2>4, <2>5, <2>6, <2>7 DEF Good
<1>3. CASE ~(Len(c.args) > 0)
  BY <1>1, <1>3 DEF StartProcess
<1> QED
  BY <1>2, <1>3

LEMMA NewGaugeGood ==
    ASSUME NEW s, Good(s), NEW a \in Algs
    PROVE  Good(NewGauge(s, a))
<1> DEFINE r == NewGauge(s, a)
           n == s.nGauges + 1
<1>1. s \in SType
  BY DEF Good
<1>0. r = [s EXCEPT !.gauges[a] = n, !.nGauges = n, !.mounted = s.mounted \cup {n}]
  BY DEF NewGauge
<1>2. /\ r.gauges = [s.gauges EXCEPT ![a] = n]
      /\ r.nGauges = n /\ r.mounted = s.mounted \cup {n}
  BY <1>0, <1>1 DEF SType
<1>3. r \in SType
  <2>1. [s.gauges EXCEPT ![a] = n] \in [Algs -> Nat \cup {None}]
    BY <1>1 DEF SType
  <2>2. s.mounted \cup {n} \in SUBSET Nat /\ n \in Nat
    BY <1>1 DEF SType
  <2> QED
    BY <1>0, <1>1, <2>1, <2>2 DEF SType
<1>4. /\ r.procs = s.procs /\ r.current = s.current
  BY <1>0, <1>1 DEF SType
<1>5. \A b \in Algs : r.gauges[b] \in (1..n) \cup {None}
  BY <1>1, <1>2 DEF Good, SType
<1>6. r.mounted \subseteq 1..n
  BY <1>1, <1>2 DEF Good, SType
<1> QED
  BY <1>2, <1>3, <1>4, <1>5, <1>6 DEF Good, OthersKilled

LEMMA RemoveGaugeGood ==
    ASSUME NEW s, Good(s), NEW a \in Algs
    PROVE  Good(RemoveGauge(s, a))
BY DEF Good, SType, RemoveGauge, OthersKilled

LEMMA RemoveArgGood ==
    ASSUME NEW s, Good(s), NEW f
    PROVE  Good(RemoveArg(s, f))
<1>1. CASE IndexOf(s.args, f) > 0
  <2>1. Splice(s.args, IndexOf(s.args, f)) \in Seq(Flags)
    BY <1>1, IndexOfFound, SpliceType DEF Good, SType
  <2> QED
    BY <1>1, <2>1 DEF Good, SType, RemoveArg, OthersKilled
<1>2. CASE ~(IndexOf(s.args, f) > 0)
  BY <1>2 DEF RemoveArg
<1> QED
  BY <1>1, <1>2

(* Setting a toggle, the demo, SGX or kiosk flag or the error banner keeps *)
(* the state well formed: none of them touches processes or gauges.        *)
LEMMA ToggleSetGood ==
    ASSUME NEW s, Good(s), NEW a \in Algs, NEW b \in BOOLEAN
    PROVE  /\ Good([s EXCEPT !.checked[a] = b])
           /\ Good([s EXCEPT !.enabled[a] = b])
<1>1. s \in SType
  BY DEF Good
<1> QED
  BY <1>1 DEF Good, SType, OthersKilled

LEMMA DemoSetGood ==
    ASSUME NEW s, Good(s)
    PROVE  Good([s EXCEPT !.demo = TRUE])
<1>1. s \in SType
  BY DEF Good
<1> QED
  BY <1>1 DEF Good, SType, OthersKilled

LEMMA DemoResetGood ==
    ASSUME NEW s, Good(s)
    PROVE  Good([s EXCEPT !.demo = FALSE, !.enabled = [x \in Algs |-> TRUE],
                          !.kiosk = ~@])
<1>1. s \in SType /\ s.kiosk \in BOOLEAN
  BY DEF Good, SType
<1> QED
  BY <1>1 DEF Good, SType, OthersKilled

LEMMA KioskFlipGood ==
    ASSUME NEW s, Good(s)
    PROVE  Good([s EXCEPT !.kiosk = ~@])
<1>1. s \in SType /\ s.kiosk \in BOOLEAN
  BY DEF Good, SType
<1> QED
  BY <1>1 DEF Good, SType, OthersKilled

LEMMA SgxFlipGood ==
    ASSUME NEW s, Good(s)
    PROVE  Good([s EXCEPT !.sgx = ~@])
<1>1. s \in SType /\ s.sgx \in BOOLEAN
  BY DEF Good, SType
<1> QED
  BY <1>1 DEF Good, SType, OthersKilled

LEMMA ErrorShownGood ==
    ASSUME NEW s, Good(s)
    PROVE  Good([s EXCEPT !.errorShown = TRUE])
<1>1. s \in SType
  BY DEF Good
<1> QED
  BY <1>1 DEF Good, SType, OthersKilled

(* Pushing flags on benchmarkArgs keeps the state well formed. *)
LEMMA PushArgsGood ==
    ASSUME NEW s, Good(s), NEW fs \in Seq(Flags)
    PROVE  Good([s EXCEPT !.args = @ \o fs])
<1>1. s \in SType /\ s.args \o fs \in Seq(Flags)
  BY DEF Good, SType
<1> QED
  BY <1>1 DEF Good, SType, OthersKilled

LEMMA ToggleOnGood ==
    ASSUME NEW s, Good(s), NEW a \in Algs
    PROVE  Good(ToggleOnHandler(s, a))
<1>0. Flag[a] \in Flags
  BY DEF Flags, Range, Flag, Algs
<1>1. <<Flag[a]>> \in Seq(Flags)
  BY <1>0
<1>2. [s EXCEPT !.args = Append(@, Flag[a])] = [s EXCEPT !.args = @ \o <<Flag[a]>>]
  OBVIOUS
<1>3. Good([s EXCEPT !.args = Append(@, Flag[a])])
  BY <1>1, <1>2, PushArgsGood
<1> QED
  BY <1>3, NewGaugeGood, StartProcessGood DEF ToggleOnHandler

LEMMA ToggleOffGood ==
    ASSUME NEW s, Good(s), NEW a \in Algs
    PROVE  Good(ToggleOffHandler(s, a))
BY RemoveArgGood, RemoveGaugeGood, StartProcessGood DEF ToggleOffHandler

LEMMA OffAndDisableGood ==
    ASSUME NEW s, Good(s), NEW a \in Algs
    PROVE  Good(OffAndDisable(s, a))
<1> DEFINE t == IF s.enabled[a]
                  THEN ToggleOffHandler([s EXCEPT !.checked[a] = FALSE], a)
                  ELSE s
<1>1. Good(t)
  BY ToggleSetGood, ToggleOffGood
<1> QED
  BY <1>1, ToggleSetGood DEF OffAndDisable

LEMMA StartDemoGood ==
    ASSUME NEW s, Good(s)
    PROVE  Good(StartDemo(s))
<1>1. Good(OffAndDisable(OffAndDisable(OffAndDisable(s, "AES"), "SHA"), "RSA"))
  BY OffAndDisableGood DEF Algs
<1>2. Good(NewGauge(NewGauge(NewGauge(
          OffAndDisable(OffAndDisable(OffAndDisable(s, "AES"), "SHA"), "RSA"),
          "AES"), "SHA"), "RSA"))
  BY <1>1, NewGaugeGood DEF Algs
<1>3. <<"-ag", "-s256", "-rd">> \in Seq(Flags)
  <2>1. {"-ag", "-s256", "-rd"} \subseteq Flags
    <3>1. "-ag" = Flag["AES"] /\ "-s256" = Flag["SHA"] /\ "-rd" = Flag["RSA"]
      BY DEF Flag, Algs
    <3> QED
      BY <3>1 DEF Flags, Range, Flag, Algs
  <2> QED
    BY <2>1
<1> QED
  BY <1>2, <1>3, PushArgsGood, StartProcessGood DEF StartDemo

LEMMA RemoveAllGaugesGood ==
    ASSUME NEW s, Good(s)
    PROVE  Good(RemoveAllGauges(s))
BY RemoveGaugeGood DEF RemoveAllGauges, Algs

-----------------------------------------------------------------------------
(* Gauge ids in the registry and in #gauges were all handed out already. *)
IdsIssued ==
    /\ \A a \in Algs : gauges[a] \in (1..nGauges) \cup {None}
    /\ mounted \subseteq 1..nGauges

(* The inductive invariant. *)
IInv == TypeOK /\ OnlyCurrentUnkilled /\ IdsIssued

(* A state satisfying the invariant is a well-formed program state. *)
LEMMA StateGood == IInv => Good(State)
<1> SUFFICES ASSUME IInv PROVE Good(State)
  OBVIOUS
<1>1. State \in SType
  BY BoundsAssumption DEF IInv, TypeOK, State, SType, Flags
<1>2. OthersKilled(State)
  BY DEF IInv, TypeOK, OnlyCurrentUnkilled, OthersKilled, State
<1> QED
  BY <1>1, <1>2 DEF IInv, TypeOK, IdsIssued, State, Good

(* Committing a well-formed record within the bounds re-establishes the   *)
(* invariant.                                                              *)
LEMMA ApplyGood ==
    ASSUME NEW r, Good(r), Apply(r), closed' \in BOOLEAN
    PROVE  IInv'
<1>1. r \in SType
  BY DEF Good
<1>2. TypeOK'
  <2>1. r.nGauges \in 0..MaxGauges /\ 1..r.nGauges \subseteq 1..MaxGauges
    BY <1>1, BoundsAssumption DEF Apply, SType
  <2>2. gauges' \in [Algs -> 1..MaxGauges \cup {None}]
    BY <1>1, <2>1 DEF Apply, SType, Good
  <2>3. mounted' \in SUBSET (1..MaxGauges)
    BY <2>1 DEF Apply, Good
  <2> QED
    BY <1>1, <2>1, <2>2, <2>3 DEF Apply, SType, Good, TypeOK, Flags
<1>3. OnlyCurrentUnkilled'
  BY DEF Apply, Good, OthersKilled, OnlyCurrentUnkilled
<1>4. IdsIssued'
  BY DEF Apply, Good, IdsIssued
<1> QED
  BY <1>2, <1>3, <1>4 DEF IInv

LEMMA IInvInit == Init => IInv
<1> SUFFICES ASSUME Init PROVE IInv
  OBVIOUS
<1>1. TypeOK
  <2>1. gauges \in [Algs -> 1..MaxGauges \cup {None}]
    BY DEF Init
  <2>2. args \in Seq(Range(Flag)) /\ procs \in Seq(Proc)
    BY DEF Init
  <2>3. nGauges \in 0..MaxGauges /\ current \in 0..Len(procs)
    BY BoundsAssumption DEF Init
  <2> QED
    BY <2>1, <2>2, <2>3 DEF Init, TypeOK
<1>2. OnlyCurrentUnkilled /\ IdsIssued
  BY DEF Init, OnlyCurrentUnkilled, IdsIssued
<1> QED
  BY <1>1, <1>2 DEF IInv

(* A process exiting changes nothing but its own exited flag. *)
LEMMA ExitStep ==
    ASSUME IInv, NEW p \in DOMAIN procs, Exit(p)
    PROVE  IInv'
<1>1. procs \in Seq(Proc) /\ p \in 1..Len(procs)
  BY DEF IInv, TypeOK
<1>2. procs[p] \in Proc
  BY <1>1
<1>3. procs' \in Seq(Proc) /\ Len(procs') = Len(procs)
  <2>1. [procs[p] EXCEPT !.exited = TRUE] \in Proc
    BY <1>2 DEF Proc
  <2> QED
    BY <1>1, <2>1 DEF Exit
<1>4. \A q \in 1..Len(procs) : procs'[q].killed = procs[q].killed
                              /\ (procs[q].exited => procs'[q].exited)
  BY <1>1, <1>2 DEF Exit
<1>5. TypeOK'
  BY <1>3 DEF IInv, TypeOK, Exit
<1>6. OnlyCurrentUnkilled'
  BY <1>3, <1>4 DEF IInv, OnlyCurrentUnkilled, Exit
<1>7. IdsIssued'
  BY DEF IInv, IdsIssued, Exit
<1> QED
  BY <1>5, <1>6, <1>7 DEF IInv

(* Every handler of index.js, and every process event, keeps the          *)
(* invariant: one step per action.                                         *)
LEMMA IInvStep == IInv /\ [Next]_vars => IInv'
<1> SUFFICES ASSUME IInv, [Next]_vars PROVE IInv'
  OBVIOUS
<1>0. Good(State) /\ closed \in BOOLEAN
  BY StateGood DEF IInv, TypeOK
<1>1. ASSUME NEW a \in Algs, ClickAlg(a) PROVE IInv'
  <2>1. Good(ToggleOffHandler([State EXCEPT !.checked[a] = FALSE], a))
    BY <1>0, ToggleSetGood, ToggleOffGood
  <2>2. Good(ToggleOnHandler([State EXCEPT !.checked[a] = TRUE], a))
    BY <1>0, ToggleSetGood, ToggleOnGood
  <2> QED
    BY <1>0, <1>1, <2>1, <2>2, ApplyGood DEF ClickAlg
<1>2. CASE DemoOn
  <2>1. Good([State EXCEPT !.demo = TRUE])
    BY <1>0, DemoSetGood
  <2>2. Good(StartDemo([State EXCEPT !.demo = TRUE]))
    BY <2>1, StartDemoGood
  <2>3. Good([StartDemo([State EXCEPT !.demo = TRUE]) EXCEPT !.kiosk = ~@])
    BY <2>2, KioskFlipGood
  <2> QED
    BY <1>0, <1>2, <2>3, ApplyGood DEF DemoOn
<1>3. CASE DemoOff
  <2>1. Good([State EXCEPT !.demo = FALSE, !.enabled = [x \in Algs |-> TRUE],
                           !.kiosk = ~@])
    BY <1>0, DemoResetGood
  <2>2. Good(RemoveAllGauges(CloseProcess(
              [State EXCEPT !.demo = FALSE, !.enabled = [x \in Algs |-> TRUE],
                            !.kiosk = ~@])))
    BY <2>1, CloseProcessGood, RemoveAllGaugesGood
  <2> QED
    BY <1>0, <1>3, <2>2, ApplyGood DEF DemoOff
<1>4. CASE ClickSgx
  <2>1. Good([State EXCEPT !.sgx = ~@])
    BY <1>0, SgxFlipGood
  <2>2. Good(StartProcess([State EXCEPT !.sgx = ~@]))
    BY <2>1, StartProcessGood
  <2> QED
    BY <1>0, <1>4, <2>1, <2>2, ApplyGood DEF ClickSgx
<1>5. CASE CloseWindow
  <2>1. Good(CloseProcess(State))
    BY <1>0, CloseProcessGood
  <2> QED
    BY <1>5, <2>1, ApplyGood DEF CloseWindow
<1>6. ASSUME NEW p \in DOMAIN procs, Error(p) PROVE IInv'
  <2>1. Good(CloseProcess(State))
    BY <1>0, CloseProcessGood
  <2>2. Good([CloseProcess(State) EXCEPT !.errorShown = TRUE])
    BY <2>1, ErrorShownGood
  <2> QED
    BY <1>0, <1>6, <2>2, ApplyGood DEF Error
<1>7. ASSUME NEW p \in DOMAIN procs, Exit(p) PROVE IInv'
  BY <1>7, ExitStep
<1>8. CASE UNCHANGED vars
  BY <1>8 DEF vars, IInv, TypeOK, OnlyCurrentUnkilled, IdsIssued
<1> QED
  BY <1>1, <1>2, <1>3, <1>4, <1>5, <1>6, <1>7, <1>8 DEF Next

THEOREM InductiveInvariant == Spec => []IInv
BY IInvInit, IInvStep, PTL DEF Spec

-----------------------------------------------------------------------------
(* The state of index.js keeps its types for every bound: gauge ids stay   *)
(* below the gauge bound and benchmarkProcess names a spawned process.     *)
THEOREM TypeCorrect == Spec => []TypeOK
BY InductiveInvariant, PTL DEF IInv

(* startProcess, closeProcess and the 'error' handler never leave two      *)
(* benchmark processes unkilled: every process but benchmarkProcess has    *)
(* been sent SIGTERM or has exited, for every bound.                       *)
THEOREM OnlyOneRunning == Spec => []OnlyCurrentUnkilled
BY InductiveInvariant, PTL DEF IInv
=============================================================================
