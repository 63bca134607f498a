-------------------------- MODULE AppConfigProofs --------------------------
(***************************************************************************)
(* Proof that the process benchmarkProcess holds, while it has not been   *)
(* sent SIGTERM, runs the binary processName names with the arguments     *)
(* benchmarkArgs holds (CurrentMatchesConfig), for every bound.            *)
(*                                                                         *)
(* Inside a handler the property is broken and repaired: removeArg and    *)
(* the pushes change benchmarkArgs, the SGX toggle changes processName,    *)
(* and only the startProcess or closeProcess that follows repairs it.     *)
(* So it is shown of the record a handler commits, not of every           *)
(* intermediate record: closeProcess and startProcess establish it from   *)
(* any well-formed record, and the calls made after them in a handler     *)
(* touch neither benchmarkArgs, processName nor the processes.            *)
(***************************************************************************)
EXTENDS BenchmarkAppProofs

(* CurrentMatchesConfig, of a program state record. *)
Matches(s) ==
    s.current # 0 /\ ~s.procs[s.current].killed =>
        /\ s.procs[s.current].args = s.args
        /\ s.procs[s.current].sgx = s.sgx

(* The calls after the last startProcess or closeProcess of a handler     *)
(* change nothing Matches reads.                                           *)
LEMMA MatchesFrame ==
    ASSUME NEW s, NEW r, Matches(s),
           r.procs = s.procs, r.current = s.current,
           r.args = s.args, r.sgx = s.sgx
    PROVE  Matches(r)
BY DEF Matches

(* closeProcess sends SIGTERM to benchmarkProcess, if it is set. *)
LEMMA CloseMatches ==
    ASSUME NEW u, Good(u)
    PROVE  Matches(CloseProcess(u))
<1> DEFINE c == CloseProcess(u)
<1>1. u \in SType /\ u.procs \in Seq(Proc)
  BY DEF Good, SType
<1>2. /\ c.procs = IF u.current # 0
                     THEN [u.procs EXCEPT ![u.current].killed = TRUE] ELSE u.procs
      /\ c.current = u.current
  BY <1>1 DEF CloseProcess
<1>3. CASE u.current # 0
  <2>1. u.current \in 1..Len(u.procs)
    BY <1>1, <1>3 DEF Good, SType
  <2>2. c.procs[c.current].killed
    BY <1>1, <1>2, <1>3, <2>1, KillType
  <2> QED
    BY <2>2 DEF Matches
<1>4. CASE u.current = 0
  BY <1>2, <1>4 DEF Matches
<1> QED
  BY <1>3, <1>4

(* startProcess either kills benchmarkProcess or spawns one with         *)
(* benchmarkArgs and processName as they are.                              *)
LEMMA StartMatches ==
    ASSUME NEW u, Good(u)
    PROVE  Matches(StartProcess(u))
<1> DEFINE c == CloseProcess(u)
           np == [args |-> c.args, sgx |-> c.sgx, killed |-> FALSE, exited |-> FALSE]
           r == StartProcess(u)
<1>1. Good(c) /\ Matches(c)
  BY CloseProcessGood, CloseMatches
<1>2. CASE Len(c.args) > 0
  <2>1. c \in SType /\ c.procs \in Seq(Proc)
    BY <1>1 DEF Good, SType
  <2>2. r = [c EXCEPT !.procs = Append(c.procs, np), !.current = Len(c.procs) + 1]
    BY <1>2 DEF StartProcess
  <2>3. /\ r.procs = Append(c.procs, np) /\ r.current = Len(c.procs) + 1
        /\ r.args = c.args /\ r.sgx = c.sgx
    BY <2>1, <2>2 DEF SType
  <2>4. r.procs[r.current] = np
    BY <2>1, <2>3
  <2> QED
    BY <2>3, <2>4 DEF Matches
<1>3. CASE ~(Len(c.args) > 0)
  BY <1>1, <1>3 DEF StartProcess
<1> QED
  BY <1>2, <1>3

(* startDemo ends in a startProcess from a well-formed record. *)
LEMMA StartDemoMatches ==
    ASSUME NEW s, Good(s)
    PROVE  Matches(StartDemo(s))
<1> DEFINE t3 == OffAndDisable(OffAndDisable(OffAndDisable(s, "AES"), "SHA"), "RSA")
           g == NewGauge(NewGauge(NewGauge(t3, "AES"), "SHA"), "RSA")
           h == [g EXCEPT !.args = @ \o <<"-ag", "-s256", "-rd">>]
<1>1. Good(g)
  BY OffAndDisableGood, NewGaugeGood DEF Algs
<1>2. <<"-ag", "-s256", "-rd">> \in Seq(Flags)
  <2>1. "-ag" = Flag["AES"] /\ "-s256" = Flag["SHA"] /\ "-rd" = Flag["RSA"]
    BY DEF Flag, Algs
  <2> QED
    BY <2>1 DEF Flags, Range, Flag, Algs
<1>3. Good(h)
  BY <1>1, <1>2, PushArgsGood
<1> QED
  BY <1>3, StartMatches DEF StartDemo

(* removeGauge and removeAllGauges leave the processes and the           *)
(* configuration alone.                                                    *)
LEMMA RemoveGaugeKeeps ==
    ASSUME NEW x, Good(x), NEW a \in Algs
    PROVE  /\ RemoveGauge(x, a).procs = x.procs
           /\ RemoveGauge(x, a).current = x.current
           /\ RemoveGauge(x, a).args = x.args
           /\ RemoveGauge(x, a).sgx = x.sgx
BY DEF RemoveGauge, Good, SType

LEMMA RemoveAllGaugesFrame ==
    ASSUME NEW s, Good(s)
    PROVE  /\ RemoveAllGauges(s).procs = s.procs
           /\ RemoveAllGauges(s).current = s.current
           /\ RemoveAllGauges(s).args = s.args
           /\ RemoveAllGauges(s).sgx = s.sgx
<1> DEFINE s1 == RemoveGauge(s, "AES")
           s2 == RemoveGauge(s1, "SHA")
<1>1. Good(s1) /\ s1.procs = s.procs /\ s1.current = s.current
      /\ s1.args = s.args /\ s1.sgx = s.sgx
  BY RemoveGaugeGood, RemoveGaugeKeeps DEF Algs
<1>2. Good(s2) /\ s2.procs = s.procs /\ s2.current = s.current
      /\ s2.args = s.args /\ s2.sgx = s.sgx
  BY <1>1, RemoveGaugeGood, RemoveGaugeKeeps DEF Algs
<1>3. /\ RemoveGauge(s2, "RSA").procs = s.procs
      /\ RemoveGauge(s2, "RSA").current = s.current
      /\ RemoveGauge(s2, "RSA").args = s.args
      /\ RemoveGauge(s2, "RSA").sgx = s.sgx
  BY <1>2, RemoveGaugeKeeps DEF Algs
<1> QED
  BY <1>3 DEF RemoveAllGauges

-----------------------------------------------------------------------------
(* The inductive invariant. *)
CInv == IInv /\ CurrentMatchesConfig

LEMMA MatchesState ==
    ASSUME TypeOK
    PROVE  Matches(State) <=> CurrentMatchesConfig
BY DEF Matches, State, CurrentMatchesConfig

LEMMA MatchesApply ==
    ASSUME NEW r, Matches(r), Apply(r)
    PROVE  CurrentMatchesConfig'
BY DEF Matches, Apply, CurrentMatchesConfig

LEMMA CInvStep == CInv /\ [Next]_vars => CInv'
<1> SUFFICES ASSUME CInv, [Next]_vars PROVE CInv'
  OBVIOUS
<1>0. Good(State) /\ State \in SType /\ Matches(State) /\ IInv'
  BY StateGood, IInvStep, MatchesState DEF CInv, IInv, Good
<1> SUFFICES CurrentMatchesConfig'
  BY <1>0 DEF CInv
<1>1. ASSUME NEW a \in Algs, ClickAlg(a) PROVE CurrentMatchesConfig'
  <2>1. Good(RemoveGauge(RemoveArg([State EXCEPT !.checked[a] = FALSE], Flag[a]), a))
    BY <1>0, ToggleSetGood, RemoveArgGood, RemoveGaugeGood
  <2>2. Matches(ToggleOffHandler([State EXCEPT !.checked[a] = FALSE], a))
    BY <2>1, StartMatches DEF ToggleOffHandler
  <2>3. Good(NewGauge([[State EXCEPT !.checked[a] = TRUE] EXCEPT
                         !.args = Append(@, Flag[a])], a))
    <3> DEFINE s1 == [State EXCEPT !.checked[a] = TRUE]
    <3>1. Good(s1)
      BY <1>0, ToggleSetGood
    <3>2. s1.args \in Seq(Flags) /\ Flag[a] \in Flags
      BY <3>1 DEF Good, SType, Flags, Range, Flag, Algs
    <3>5. <<Flag[a]>> \in Seq(Flags)
      BY <3>2
    <3>3. [s1 EXCEPT !.args = Append(@, Flag[a])] = [s1 EXCEPT !.args = @ \o <<Flag[a]>>]
      BY <3>2, AppendIsConcat
    <3>4. Good([s1 EXCEPT !.args = Append(@, Flag[a])])
      BY <3>1, <3>5, <3>3, PushArgsGood
    <3> QED
      BY <3>4, NewGaugeGood
  <2>4. Matches(ToggleOnHandler([State EXCEPT !.checked[a] = TRUE], a))
    BY <2>3, StartMatches DEF ToggleOnHandler
  <2> QED
    BY <1>1, <2>2, <2>4, MatchesApply DEF ClickAlg
<1>2. CASE DemoOn
  <2> DEFINE s1 == [State EXCEPT !.demo = TRUE]
             r == [StartDemo(s1) EXCEPT !.kiosk = ~@]
  <2>1. Good(s1)
    BY <1>0, DemoSetGood
  <2>2. Matches(StartDemo(s1)) /\ Good(StartDemo(s1))
    BY <2>1, StartDemoMatches, StartDemoGood
  <2>3. Matches(r)
    BY <2>2, MatchesFrame DEF Good, SType
  <2> QED
    BY <1>2, <2>3, MatchesApply DEF DemoOn
<1>3. CASE DemoOff
  <2> DEFINE s1 == [State EXCEPT !.demo = FALSE, !.enabled = [x \in Algs |-> TRUE],
                                 !.kiosk = ~@]
             c == CloseProcess(s1)
  <2>1. Good(s1)
    BY <1>0, DemoResetGood
  <2>2. Matches(c) /\ Good(c)
    BY <2>1, CloseMatches, CloseProcessGood
  <2>3. Matches(RemoveAllGauges(c))
    BY <2>2, RemoveAllGaugesFrame, MatchesFrame
  <2> QED
    BY <1>3, <2>3, MatchesApply DEF DemoOff
<1>4. CASE ClickSgx
  <2> DEFINE t == [State EXCEPT !.sgx = ~@]
  <2>1. Good(t)
    BY <1>0, SgxFlipGood
  <2>2. CASE current # 0
    BY <1>4, <2>1, <2>2, StartMatches, MatchesApply DEF ClickSgx
  <2>3. CASE current = 0
    <3>1. t.current = 0
      BY <1>0, <2>3 DEF State, SType
    <3> QED
      BY <1>4, <2>3, <3>1, MatchesApply DEF ClickSgx, Matches
  <2> QED
    BY <2>2, <2>3
<1>5. CASE CloseWindow
  BY <1>0, <1>5, CloseMatches, MatchesApply DEF CloseWindow
<1>6. ASSUME NEW p \in DOMAIN procs, Error(p) PROVE CurrentMatchesConfig'
  <2> DEFINE c == CloseProcess(State)
  <2>1. Matches(c) /\ Good(c)
    BY <1>0, CloseMatches, CloseProcessGood
  <2>2. Matches([c EXCEPT !.errorShown = TRUE])
    BY <2>1, MatchesFrame DEF Good, SType
  <2> QED
    BY <1>6, <2>2, MatchesApply DEF Error
<1>7. ASSUME NEW p \in DOMAIN procs, Exit(p) PROVE CurrentMatchesConfig'
  <2>1. procs \in Seq(Proc) /\ p \in 1..Len(procs) /\ procs[p] \in Proc
        /\ current \in 0..Len(procs)
    BY DEF CInv, IInv, TypeOK
  <2>2. procs' = [procs EXCEPT ![p].exited = TRUE]
        /\ UNCHANGED <<current, args, sgx>>
    BY <1>7 DEF Exit
  <2>3. current # 0 => /\ procs'[current].killed = procs[current].killed
                       /\ procs'[current].args = procs[current].args
                       /\ procs'[current].sgx = procs[current].sgx
    BY <2>1, <2>2 DEF Proc
  <2> QED
    BY <2>2, <2>3 DEF CInv, CurrentMatchesConfig
<1>8. CASE UNCHANGED vars
  BY <1>8 DEF vars, CInv, CurrentMatchesConfig
<1> QED
  BY <1>1, <1>2, <1>3, <1>4, <1>5, <1>6, <1>7, <1>8 DEF Next

LEMMA CInvInit == Init => CInv
BY IInvInit DEF CInv, Init, CurrentMatchesConfig

(* benchmarkProcess, while it has not been sent SIGTERM, runs with the    *)
(* arguments benchmarkArgs holds and the binary processName names: every  *)
(* handler that changes either (the toggles' removeArg and push, the SGX   *)
(* toggle) ends in startProcess, for every bound.                          *)
THEOREM ConfigFollowed == Spec => []CurrentMatchesConfig
<1>1. Spec => []CInv
  BY CInvInit, CInvStep, PTL DEF Spec
<1> QED
  BY <1>1, PTL DEF CInv
====
