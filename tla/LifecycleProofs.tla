-------------------------- MODULE LifecycleProofs --------------------------
(***************************************************************************)
(* Proof that index.js implements the abstract process lifecycle of        *)
(* ProcessLifecycle under the refinement mapping of BenchmarkApp           *)
(* (st <- the LifeStatus of every spawned process, cur <- current), for    *)
(* every bound.                                                            *)
(*                                                                         *)
(* A handler calls closeProcess and startProcess several times (startDemo  *)
(* through the toggles' change handlers), so its intermediate states are   *)
(* not themselves abstract states.  Pre(s, t) says what holds between the  *)
(* state s a handler starts in and any intermediate state t: the processes *)
(* of s are stopped or unchanged, and those spawned since are not gone.    *)
(* A final startProcess that spawns turns Pre into one abstract Restart.   *)
(* Every step relies on OthersKilled: closeProcess kills only              *)
(* benchmarkProcess, which stops every running process only because no     *)
(* other one runs.                                                         *)
(***************************************************************************)
EXTENDS BenchmarkAppProofs

(* The lifecycle status of process p of the program state record s. *)
St(s, p) ==
    IF s.procs[p].exited THEN "gone"
    ELSE IF s.procs[p].killed THEN "stopping" ELSE "running"

Stop(x) == Lifecycle!Stopped(x)

(* Between the start of a handler (s) and any intermediate state (t). *)
Pre(s, t) ==
    /\ Len(s.procs) <= Len(t.procs)
    /\ \A p \in 1..Len(s.procs) : Stop(St(t, p)) = Stop(St(s, p))
    /\ \A p \in (Len(s.procs) + 1)..Len(t.procs) : St(t, p) # "gone"

(* Restart(Len(r.procs) - Len(s.procs)) of ProcessLifecycle, on records. *)
RecRestart(s, r) ==
    /\ Len(s.procs) <= Len(r.procs)
    /\ \A p \in 1..Len(s.procs) : St(r, p) = Stop(St(s, p))
    /\ \A p \in (Len(s.procs) + 1)..Len(r.procs) :
          St(r, p) = IF p = Len(r.procs) THEN "running" ELSE "stopping"
    /\ r.current = IF Len(r.procs) = Len(s.procs) THEN s.current ELSE Len(r.procs)

-----------------------------------------------------------------------------
(* A stop request changes nothing of a process that is not running. *)
LEMMA StopIdem ==
    ASSUME NEW x
    PROVE  /\ Stop(Stop(x)) = Stop(x)
           /\ x # "running" => Stop(x) = x
           /\ x # "gone" => Stop(x) # "gone"
BY DEF Stop, Lifecycle!Stopped

(* closeProcess stops every running process and spawns nothing. *)
LEMMA CloseEffect ==
    ASSUME NEW u, Good(u)
    PROVE  /\ CloseProcess(u).procs \in Seq(Proc)
           /\ Len(CloseProcess(u).procs) = Len(u.procs)
           /\ \A p \in 1..Len(u.procs) :
                 St(CloseProcess(u), p) = Stop(St(u, p))
           /\ CloseProcess(u).current = u.current
<1> DEFINE c == CloseProcess(u)
<1>1. u \in SType /\ u.procs \in Seq(Proc)
  BY DEF Good, SType
<1>2. /\ c.procs = IF u.current # 0
                     THEN [u.procs EXCEPT ![u.current].killed = TRUE] ELSE u.procs
      /\ c.current = u.current
  BY <1>1 DEF CloseProcess
<1>3. CASE u.current # 0
  <2>1. u.current \in 1..Len(u.procs)
    BY <1>1, <1>3 DEF Good, SType
  <2>2. /\ c.procs \in Seq(Proc) /\ Len(c.procs) = Len(u.procs)
        /\ c.procs[u.current].killed
        /\ \A p \in 1..Len(u.procs) : p # u.current => c.procs[p] = u.procs[p]
    BY <1>1, <1>2, <1>3, <2>1, KillType
  <2>3. c.procs[u.current].exited = u.procs[u.current].exited
    BY <1>1, <1>2, <1>3, <2>1
  <2>4. ASSUME NEW p \in 1..Len(u.procs) PROVE St(c, p) = Stop(St(u, p))
    <3>1. CASE p = u.current
      BY <2>2, <2>3, <3>1 DEF St, Stop, Lifecycle!Stopped
    <3>2. CASE p # u.current
      <4>1. u.procs[p].killed \/ u.procs[p].exited
        BY <3>2 DEF Good, OthersKilled
      <4> QED
        BY <2>2, <3>2, <4>1 DEF St, Stop, Lifecycle!Stopped
    <3> QED
      BY <3>1, <3>2
  <2> QED
    BY <1>2, <2>2, <2>4
<1>4. CASE u.current = 0
  <2>1. c.procs = u.procs
    BY <1>2, <1>4
  <2>2. ASSUME NEW p \in 1..Len(u.procs) PROVE St(c, p) = Stop(St(u, p))
    <3>1. u.procs[p].killed \/ u.procs[p].exited
      BY <1>4 DEF Good, OthersKilled
    <3> QED
      BY <2>1, <3>1 DEF St, Stop, Lifecycle!Stopped
  <2> QED
    BY <1>1, <1>2, <2>1, <2>2
<1> QED
  BY <1>3, <1>4

(* startProcess with a nonempty benchmarkArgs stops every running process  *)
(* and spawns one running process, which benchmarkProcess then holds.      *)
LEMMA StartEffect ==
    ASSUME NEW u, Good(u), Len(u.args) > 0
    PROVE  /\ StartProcess(u).procs \in Seq(Proc)
           /\ Len(StartProcess(u).procs) = Len(u.procs) + 1
           /\ \A p \in 1..Len(u.procs) :
                 St(StartProcess(u), p) = Stop(St(u, p))
           /\ St(StartProcess(u), Len(u.procs) + 1) = "running"
           /\ StartProcess(u).current = Len(u.procs) + 1
<1> DEFINE c == CloseProcess(u)
           np == [args |-> c.args, sgx |-> c.sgx, killed |-> FALSE, exited |-> FALSE]
           r == StartProcess(u)
<1>1. Good(c) /\ c.args = u.args
  BY CloseProcessGood
<1>2. /\ c.procs \in Seq(Proc) /\ Len(c.procs) = Len(u.procs)
      /\ \A p \in 1..Len(u.procs) : St(c, p) = Stop(St(u, p))
  BY CloseEffect
<1>3. c \in SType
  BY <1>1 DEF Good
<1>4. r = [c EXCEPT !.procs = Append(c.procs, np), !.current = Len(c.procs) + 1]
  BY <1>1 DEF StartProcess
<1>5. r.procs = Append(c.procs, np) /\ r.current = Len(c.procs) + 1
  BY <1>3, <1>4 DEF SType
<1>6. np \in Proc
  BY <1>1, <1>3 DEF SType, Proc, Flags
<1>7. /\ r.procs \in Seq(Proc) /\ Len(r.procs) = Len(u.procs) + 1
      /\ \A p \in 1..Len(u.procs) : r.procs[p] = c.procs[p]
      /\ r.procs[Len(u.procs) + 1] = np
  BY <1>2, <1>5, <1>6
<1>8. \A p \in 1..Len(u.procs) : St(r, p) = St(c, p)
  BY <1>7 DEF St
<1>9. St(r, Len(u.procs) + 1) = "running"
  BY <1>7 DEF St
<1> QED
  BY <1>2, <1>5, <1>7, <1>8, <1>9

(* startProcess with an empty benchmarkArgs is closeProcess. *)
LEMMA StartNoSpawn ==
    ASSUME NEW u, Good(u), ~(Len(u.args) > 0)
    PROVE  StartProcess(u) = CloseProcess(u)
<1>1. CloseProcess(u).args = u.args
  BY CloseProcessGood
<1> QED
  BY <1>1 DEF StartProcess

-----------------------------------------------------------------------------
(* A handler that only closes, or starts once, from a state with the same  *)
(* processes and benchmarkProcess as s, is one abstract Restart from s.    *)
LEMMA CloseRestart ==
    ASSUME NEW s, NEW u, Good(u), s.procs = u.procs, s.current = u.current
    PROVE  RecRestart(s, CloseProcess(u))
<1>1. /\ Len(CloseProcess(u).procs) = Len(u.procs)
      /\ \A p \in 1..Len(u.procs) : St(CloseProcess(u), p) = Stop(St(u, p))
      /\ CloseProcess(u).current = u.current
  BY CloseEffect
<1>2. Len(u.procs) \in Nat
  BY DEF Good, SType
<1>3. \A p \in 1..Len(u.procs) : St(u, p) = St(s, p)
  BY DEF St
<1> QED
  BY <1>1, <1>2, <1>3 DEF RecRestart

LEMMA StartRestart ==
    ASSUME NEW s, NEW u, Good(u), s.procs = u.procs, s.current = u.current
    PROVE  RecRestart(s, StartProcess(u))
<1>1. CASE Len(u.args) > 0
  <2>1. /\ Len(StartProcess(u).procs) = Len(u.procs) + 1
        /\ \A p \in 1..Len(u.procs) : St(StartProcess(u), p) = Stop(St(u, p))
        /\ St(StartProcess(u), Len(u.procs) + 1) = "running"
        /\ StartProcess(u).current = Len(u.procs) + 1
    BY <1>1, StartEffect
  <2>2. Len(u.procs) \in Nat
    BY DEF Good, SType
  <2>3. \A p \in 1..Len(u.procs) : St(u, p) = St(s, p)
    BY DEF St
  <2> QED
    BY <2>1, <2>2, <2>3 DEF RecRestart
<1>2. CASE ~(Len(u.args) > 0)
  BY <1>2, StartNoSpawn, CloseRestart
<1> QED
  BY <1>1, <1>2

-----------------------------------------------------------------------------
(* Pre holds at the start of a handler, and across every call that leaves *)
(* the processes alone.                                                    *)
LEMMA PreRefl ==
    ASSUME NEW s, Good(s)
    PROVE  Pre(s, s)
<1>1. Len(s.procs) \in Nat
  BY DEF Good, SType
<1> QED
  BY <1>1 DEF Pre

LEMMA PreSame ==
    ASSUME NEW s, NEW t, NEW u, Pre(s, t), u.procs = t.procs
    PROVE  Pre(s, u)
BY DEF Pre, St

(* startProcess keeps Pre: what was not gone is stopped or still running,  *)
(* and what it spawns is running.                                          *)
LEMMA PreStart ==
    ASSUME NEW s, NEW t, Good(s), Good(t), Pre(s, t)
    PROVE  Pre(s, StartProcess(t))
<1> DEFINE r == StartProcess(t)
<1>1. Len(s.procs) \in Nat /\ Len(t.procs) \in Nat
  BY DEF Good, SType
<1>2. CASE Len(t.args) > 0
  <2>1. /\ Len(r.procs) = Len(t.procs) + 1
        /\ \A p \in 1..Len(t.procs) : St(r, p) = Stop(St(t, p))
        /\ St(r, Len(t.procs) + 1) = "running"
    BY <1>2, StartEffect
  <2>2. \A p \in 1..Len(s.procs) : Stop(St(r, p)) = Stop(St(s, p))
    BY <1>1, <2>1, StopIdem DEF Pre
  <2>3. \A p \in (Len(s.procs) + 1)..Len(r.procs) : St(r, p) # "gone"
    <3> SUFFICES ASSUME NEW p \in (Len(s.procs) + 1)..Len(r.procs)
                 PROVE  St(r, p) # "gone"
      OBVIOUS
    <3>1. CASE p = Len(t.procs) + 1
      BY <2>1, <3>1
    <3>2. CASE p \in (Len(s.procs) + 1)..Len(t.procs)
      <4>1. St(t, p) # "gone"
        BY <3>2 DEF Pre
      <4> QED
        BY <1>1, <2>1, <3>2, <4>1, StopIdem
    <3> QED
      BY <1>1, <2>1, <3>1, <3>2
  <2> QED
    BY <1>1, <2>1, <2>2, <2>3 DEF Pre
<1>3. CASE ~(Len(t.args) > 0)
  <2>1. r = CloseProcess(t)
    BY <1>3, StartNoSpawn
  <2>2. /\ Len(r.procs) = Len(t.procs)
        /\ \A p \in 1..Len(t.procs) : St(r, p) = Stop(St(t, p))
    BY <2>1, CloseEffect
  <2>3. \A p \in 1..Len(s.procs) : Stop(St(r, p)) = Stop(St(s, p))
    BY <1>1, <2>2, StopIdem DEF Pre
  <2>4. \A p \in (Len(s.procs) + 1)..Len(r.procs) : St(r, p) # "gone"
    BY <1>1, <2>2, StopIdem DEF Pre
  <2> QED
    BY <1>1, <2>2, <2>3, <2>4 DEF Pre
<1> QED
  BY <1>2, <1>3

(* A last startProcess that spawns makes the whole handler one Restart:   *)
(* it stops every process spawned earlier in the handler, so only the one  *)
(* it spawns is left running.                                              *)
LEMMA FinalRestart ==
    ASSUME NEW s, NEW t, Good(s), Good(t), Pre(s, t), Len(t.args) > 0
    PROVE  RecRestart(s, StartProcess(t))
<1> DEFINE r == StartProcess(t)
<1>1. Len(s.procs) \in Nat /\ Len(t.procs) \in Nat
  BY DEF Good, SType
<1>2. /\ Len(r.procs) = Len(t.procs) + 1
      /\ \A p \in 1..Len(t.procs) : St(r, p) = Stop(St(t, p))
      /\ St(r, Len(t.procs) + 1) = "running"
      /\ r.current = Len(t.procs) + 1
  BY StartEffect
<1>3. \A p \in 1..Len(s.procs) : St(r, p) = Stop(St(s, p))
  BY <1>1, <1>2 DEF Pre
<1>4. \A p \in (Len(s.procs) + 1)..Len(t.procs) : St(r, p) = "stopping"
  <2> SUFFICES ASSUME NEW p \in (Len(s.procs) + 1)..Len(t.procs)
               PROVE  St(r, p) = "stopping"
    OBVIOUS
  <2>1. St(t, p) # "gone" /\ p \in 1..Len(t.procs)
    BY <1>1 DEF Pre
  <2>2. St(t, p) \in {"running", "stopping"}
    BY <2>1 DEF St
  <2> QED
    BY <1>2, <2>1, <2>2 DEF Stop, Lifecycle!Stopped
<1> QED
  BY <1>1, <1>2, <1>3, <1>4 DEF RecRestart, Pre

-----------------------------------------------------------------------------
(* bootstrapToggle('off').bootstrapToggle('disable') runs at most one      *)
(* change handler, which ends in startProcess: Pre is kept.                *)
LEMMA OffAndDisablePre ==
    ASSUME NEW s, NEW t, Good(s), Good(t), Pre(s, t), NEW a \in Algs
    PROVE  Pre(s, OffAndDisable(t, a)) /\ Good(OffAndDisable(t, a))
<1> DEFINE t1 == [t EXCEPT !.checked[a] = FALSE]
           u == RemoveGauge(RemoveArg(t1, Flag[a]), a)
           h == IF t.enabled[a] THEN ToggleOffHandler(t1, a) ELSE t
<1>1. t \in SType
  BY DEF Good
<1>2. Good(h)
  BY ToggleSetGood, ToggleOffGood
<1>3. Pre(s, h)
  <2>1. CASE t.enabled[a]
    <3>1. Good(t1) /\ Good(u)
      BY ToggleSetGood, RemoveArgGood, RemoveGaugeGood
    <3>2. u.procs = t.procs
      <4>1. t1.procs = t.procs
        BY <1>1 DEF SType
      <4>2. RemoveArg(t1, Flag[a]).procs = t1.procs
        BY <3>1 DEF RemoveArg, Good, SType
      <4>3. u.procs = RemoveArg(t1, Flag[a]).procs
        BY <3>1, RemoveArgGood DEF RemoveGauge, Good, SType
      <4> QED
        BY <4>1, <4>2, <4>3
    <3>3. Pre(s, u)
      BY <3>2, PreSame
    <3>4. Pre(s, StartProcess(u))
      BY <3>1, <3>3, PreStart
    <3> QED
      BY <2>1, <3>4 DEF ToggleOffHandler
  <2>2. CASE ~t.enabled[a]
    BY <2>2
  <2> QED
    BY <2>1, <2>2
<1>4. OffAndDisable(t, a) = [h EXCEPT !.enabled[a] = FALSE]
  BY DEF OffAndDisable
<1>5. OffAndDisable(t, a).procs = h.procs
  BY <1>2, <1>4 DEF Good, SType
<1>6. Pre(s, OffAndDisable(t, a))
  BY <1>3, <1>5, PreSame
<1> QED
  BY <1>6, OffAndDisableGood

(* startDemo, taken as a whole, is one Restart: whatever the toggles'     *)
(* handlers spawned is stopped by its final startProcess.                  *)
LEMMA StartDemoRestart ==
    ASSUME NEW s, Good(s)
    PROVE  RecRestart(s, StartDemo(s))
<1> DEFINE t3 == OffAndDisable(OffAndDisable(OffAndDisable(s, "AES"), "SHA"), "RSA")
           g == NewGauge(NewGauge(NewGauge(t3, "AES"), "SHA"), "RSA")
           h == [g EXCEPT !.args = @ \o <<"-ag", "-s256", "-rd">>]
<1>1. Pre(s, t3) /\ Good(t3)
  BY PreRefl, OffAndDisablePre DEF Algs
<1>2. Good(g) /\ g.procs = t3.procs
  <2>1. \A x, b : Good(x) /\ b \in Algs => NewGauge(x, b).procs = x.procs
                                          /\ Good(NewGauge(x, b))
    <3> SUFFICES ASSUME NEW x, NEW b \in Algs, Good(x)
                 PROVE  NewGauge(x, b).procs = x.procs /\ Good(NewGauge(x, b))
      OBVIOUS
    <3>1. Good(NewGauge(x, b))
      BY NewGaugeGood
    <3>2. NewGauge(x, b).procs = x.procs
      BY DEF NewGauge, Good, SType
    <3> QED
      BY <3>1, <3>2
  <2> QED
    BY <1>1, <2>1 DEF Algs
<1>3. <<"-ag", "-s256", "-rd">> \in Seq(Flags)
  <2>1. "-ag" = Flag["AES"] /\ "-s256" = Flag["SHA"] /\ "-rd" = Flag["RSA"]
    BY DEF Flag, Algs
  <2> QED
    BY <2>1 DEF Flags, Range, Flag, Algs
<1>4. Good(h) /\ h.procs = g.procs
  BY <1>2, <1>3, PushArgsGood DEF Good, SType
<1>5. Len(h.args) > 0
  <2>1. h.args = g.args \o <<"-ag", "-s256", "-rd">> /\ g.args \in Seq(Flags)
    BY <1>2 DEF Good, SType
  <2> QED
    BY <1>3, <2>1
<1>6. Pre(s, h)
  BY <1>1, <1>2, <1>4, PreSame
<1> QED
  BY <1>4, <1>5, <1>6, FinalRestart DEF StartDemo

-----------------------------------------------------------------------------
(* The image of the process table under the refinement mapping. *)
stBar == [p \in DOMAIN procs |-> LifeStatus(p)]

LEMMA StBarState ==
    ASSUME IInv
    PROVE  /\ stBar = [p \in 1..Len(procs) |-> St(State, p)]
           /\ State.procs = procs /\ State.current = current
BY DEF IInv, TypeOK, stBar, LifeStatus, St, State

(* A handler whose committed record is a Restart from the current state   *)
(* is a step of the abstract lifecycle.                                    *)
LEMMA Bridge ==
    ASSUME IInv, NEW r, Good(r), Apply(r), RecRestart(State, r)
    PROVE  Lifecycle!LNext
<1> DEFINE n == Len(r.procs) - Len(procs)
<1>1. procs' = r.procs /\ current' = r.current
  BY DEF Apply
<1>2. r.procs \in Seq(Proc)
  BY DEF Good, SType
<1>3. stBar' = [p \in 1..Len(r.procs) |-> St(r, p)]
  BY <1>1, <1>2 DEF stBar, LifeStatus, St
<1>4. /\ stBar = [p \in 1..Len(procs) |-> St(State, p)]
      /\ State.procs = procs /\ State.current = current
      /\ procs \in Seq(Proc)
  BY StBarState DEF IInv, TypeOK
<1>5. stBar' \in Seq(Lifecycle!Status)
  BY <1>3 DEF St, Lifecycle!Status
<1>6. Len(stBar') = Len(r.procs) /\ Len(stBar) = Len(procs)
  BY <1>2, <1>3, <1>4
<1>7. n \in 0..(Len(stBar') - Len(stBar))
  BY <1>2, <1>4, <1>6 DEF RecRestart
<1>8. Lifecycle!Restart(n)
  <2>1. Len(stBar') = Len(stBar) + n
    BY <1>2, <1>4, <1>6
  <2>2. \A p \in 1..Len(stBar) : stBar'[p] = Lifecycle!Stopped(stBar[p])
    BY <1>3, <1>4, <1>6 DEF RecRestart, Stop
  <2>3. \A p \in (Len(stBar) + 1)..(Len(stBar) + n) :
          stBar'[p] = IF p = Len(stBar) + n THEN "running" ELSE "stopping"
    <3> SUFFICES ASSUME NEW p \in (Len(stBar) + 1)..(Len(stBar) + n)
                 PROVE  stBar'[p] = IF p = Len(stBar) + n THEN "running" ELSE "stopping"
      OBVIOUS
    <3>1. Len(stBar) + n = Len(r.procs) /\ p \in (Len(procs) + 1)..Len(r.procs)
      BY <1>2, <1>4, <1>6
    <3>2. stBar'[p] = St(r, p)
      BY <1>2, <1>3, <1>4, <3>1
    <3>3. St(r, p) = IF p = Len(r.procs) THEN "running" ELSE "stopping"
      BY <1>4, <3>1 DEF RecRestart
    <3> QED
      BY <3>1, <3>2, <3>3
  <2>4. current' = IF n = 0 THEN current ELSE Len(stBar) + n
    BY <1>1, <1>2, <1>4, <1>6 DEF RecRestart
  <2> QED
    BY <2>1, <2>2, <2>3, <2>4 DEF Lifecycle!Restart, stBar
<1> QED
  BY <1>5, <1>7, <1>8 DEF Lifecycle!LNext, stBar

-----------------------------------------------------------------------------
(* RecRestart only reads the processes and benchmarkProcess. *)
LEMMA RecRestartFrame ==
    ASSUME NEW s, NEW s2, NEW r, NEW r2, RecRestart(s, r),
           s2.procs = s.procs, s2.current = s.current,
           r2.procs = r.procs, r2.current = r.current
    PROVE  RecRestart(s2, r2)
BY DEF RecRestart, St

(* The calls of index.js that leave the processes and benchmarkProcess    *)
(* alone.                                                                  *)
LEMMA RemoveArgFrame ==
    ASSUME NEW s, Good(s), NEW f
    PROVE  RemoveArg(s, f).procs = s.procs /\ RemoveArg(s, f).current = s.current
BY DEF RemoveArg, Good, SType

LEMMA RemoveGaugeFrame ==
    ASSUME NEW s, Good(s), NEW a \in Algs
    PROVE  RemoveGauge(s, a).procs = s.procs /\ RemoveGauge(s, a).current = s.current
BY DEF RemoveGauge, Good, SType

LEMMA NewGaugeFrame ==
    ASSUME NEW s, Good(s), NEW a \in Algs
    PROVE  NewGauge(s, a).procs = s.procs /\ NewGauge(s, a).current = s.current
BY DEF NewGauge, Good, SType

(* Exit(p) is End(p): the process's status becomes "gone". *)
LEMMA ExitEnd ==
    ASSUME IInv, NEW p \in DOMAIN procs, Exit(p)
    PROVE  Lifecycle!End(p) /\ p \in DOMAIN stBar
<1>1. procs \in Seq(Proc) /\ p \in 1..Len(procs) /\ procs[p] \in Proc
  BY DEF IInv, TypeOK
<1>2. procs' = [procs EXCEPT ![p].exited = TRUE] /\ current' = current
  BY DEF Exit
<1>3. DOMAIN procs' = DOMAIN procs
  BY <1>1, <1>2
<1>4. stBar[p] # "gone"
  BY <1>1 DEF Exit, stBar, LifeStatus
<1>5. stBar' = [stBar EXCEPT ![p] = "gone"]
  <2>1. \A q \in DOMAIN procs : q # p => procs'[q] = procs[q]
    BY <1>1, <1>2
  <2>2. procs'[p].exited
    BY <1>1, <1>2 DEF Proc
  <2> QED
    BY <1>3, <2>1, <2>2 DEF stBar, LifeStatus
<1> QED
  BY <1>2, <1>4, <1>5 DEF Lifecycle!End, stBar

(* Every step of index.js is a step of the abstract lifecycle or leaves   *)
(* its image unchanged: one step per action.                               *)
LEMMA RefinementStep ==
    IInv /\ [Next]_vars => [Lifecycle!LNext]_<<stBar, current>>
<1> SUFFICES ASSUME IInv, [Next]_vars
             PROVE  [Lifecycle!LNext]_<<stBar, current>>
  OBVIOUS
<1>0. Good(State) /\ State \in SType
  BY StateGood DEF Good
<1>1. ASSUME NEW a \in Algs, ClickAlg(a) PROVE Lifecycle!LNext
  <2>1. CASE checked[a]
    <3> DEFINE s1 == [State EXCEPT !.checked[a] = FALSE]
               u == RemoveGauge(RemoveArg(s1, Flag[a]), a)
    <3>1. Good(s1) /\ s1.procs = State.procs /\ s1.current = State.current
      BY <1>0, ToggleSetGood DEF SType
    <3>2. Good(u) /\ u.procs = State.procs /\ u.current = State.current
      <4>1. Good(RemoveArg(s1, Flag[a]))
        BY <3>1, RemoveArgGood
      <4>2. RemoveArg(s1, Flag[a]).procs = State.procs
            /\ RemoveArg(s1, Flag[a]).current = State.current
        BY <3>1, RemoveArgFrame
      <4>3. u.procs = RemoveArg(s1, Flag[a]).procs
            /\ u.current = RemoveArg(s1, Flag[a]).current
        BY <4>1, RemoveGaugeFrame
      <4> QED
        BY <4>1, <4>2, <4>3, RemoveGaugeGood
    <3>3. RecRestart(State, StartProcess(u))
      BY <3>2, StartRestart
    <3>4. Good(StartProcess(u)) /\ Apply(StartProcess(u))
      BY <1>1, <2>1, <3>2, StartProcessGood DEF ClickAlg, ToggleOffHandler
    <3> QED
      BY <3>3, <3>4, Bridge
  <2>2. CASE ~checked[a]
    <3> DEFINE s1 == [State EXCEPT !.checked[a] = TRUE]
               s2 == [s1 EXCEPT !.args = Append(@, Flag[a])]
               u == NewGauge(s2, a)
    <3>1. Good(s1) /\ s1.procs = State.procs /\ s1.current = State.current
      BY <1>0, ToggleSetGood DEF SType
    <3>2. Good(s2) /\ s2.procs = State.procs /\ s2.current = State.current
      <4>1. <<Flag[a]>> \in Seq(Flags)
        <5>1. Flag[a] \in Flags
          BY DEF Flags, Range, Flag, Algs
        <5> QED
          BY <5>1
      <4>2. s2 = [s1 EXCEPT !.args = @ \o <<Flag[a]>>]
        <5>1. s1.args \in Seq(Flags) /\ Flag[a] \in Flags
          BY <3>1 DEF Good, SType, Flags, Range, Flag, Algs
        <5>2. Append(s1.args, Flag[a]) = s1.args \o <<Flag[a]>>
          BY <5>1, AppendIsConcat
        <5> QED
          BY <5>2
      <4>3. Good(s2)
        BY <3>1, <4>1, <4>2, PushArgsGood
      <4> QED
        BY <3>1, <4>3 DEF Good, SType
    <3>3. Good(u) /\ u.procs = State.procs /\ u.current = State.current
      BY <3>2, NewGaugeGood, NewGaugeFrame
    <3>4. RecRestart(State, StartProcess(u))
      BY <3>3, StartRestart
    <3>5. Good(StartProcess(u)) /\ Apply(StartProcess(u))
      BY <1>1, <2>2, <3>3, StartProcessGood DEF ClickAlg, ToggleOnHandler
    <3> QED
      BY <3>4, <3>5, Bridge
  <2> QED
    BY <2>1, <2>2
<1>2. CASE DemoOn
  <2> DEFINE s1 == [State EXCEPT !.demo = TRUE]
             r == [StartDemo(s1) EXCEPT !.kiosk = ~@]
  <2>1. Good(s1) /\ s1.procs = State.procs /\ s1.current = State.current
    BY <1>0, DemoSetGood DEF SType
  <2>2. RecRestart(s1, StartDemo(s1)) /\ Good(StartDemo(s1))
    BY <2>1, StartDemoRestart, StartDemoGood
  <2>3. Good(r) /\ r.procs = StartDemo(s1).procs /\ r.current = StartDemo(s1).current
    BY <2>2, KioskFlipGood DEF Good, SType
  <2>4. RecRestart(State, r)
    BY <2>1, <2>2, <2>3, RecRestartFrame
  <2> QED
    BY <1>2, <2>3, <2>4, Bridge DEF DemoOn
<1>3. CASE DemoOff
  <2> DEFINE s1 == [State EXCEPT !.demo = FALSE, !.enabled = [x \in Algs |-> TRUE],
                                 !.kiosk = ~@]
             c == CloseProcess(s1)
             r == RemoveAllGauges(c)
  <2>1. Good(s1) /\ s1.procs = State.procs /\ s1.current = State.current
    BY <1>0, DemoResetGood DEF SType
  <2>2. RecRestart(State, c) /\ Good(c)
    BY <2>1, CloseRestart, CloseProcessGood
  <2>3. Good(r) /\ r.procs = c.procs /\ r.current = c.current
    BY <2>2, RemoveAllGaugesGood, RemoveGaugeGood, RemoveGaugeFrame
       DEF RemoveAllGauges, Algs
  <2>4. RecRestart(State, r)
    BY <2>2, <2>3, RecRestartFrame
  <2> QED
    BY <1>3, <2>3, <2>4, Bridge DEF DemoOff
<1>4. CASE ClickSgx
  <2> DEFINE t == [State EXCEPT !.sgx = ~@]
  <2>1. Good(t) /\ t.procs = State.procs /\ t.current = State.current
    BY <1>0, SgxFlipGood DEF SType
  <2>2. CASE current # 0
    <3>1. RecRestart(State, StartProcess(t)) /\ Good(StartProcess(t))
      BY <2>1, StartRestart, StartProcessGood
    <3> QED
      BY <1>4, <2>2, <3>1, Bridge DEF ClickSgx
  <2>3. CASE current = 0
    <3>1. procs' = procs /\ current' = current
      BY <1>4, <2>1, <2>3 DEF ClickSgx, Apply, State
    <3> QED
      BY <3>1 DEF stBar, LifeStatus
  <2> QED
    BY <2>2, <2>3
<1>5. CASE CloseWindow
  <2>1. RecRestart(State, CloseProcess(State)) /\ Good(CloseProcess(State))
    BY <1>0, CloseRestart, CloseProcessGood
  <2> QED
    BY <1>5, <2>1, Bridge DEF CloseWindow
<1>6. ASSUME NEW p \in DOMAIN procs, Error(p) PROVE Lifecycle!LNext
  <2> DEFINE c == CloseProcess(State)
             r == [c EXCEPT !.errorShown = TRUE]
  <2>1. RecRestart(State, c) /\ Good(c)
    BY <1>0, CloseRestart, CloseProcessGood
  <2>2. Good(r) /\ r.procs = c.procs /\ r.current = c.current
    BY <2>1, ErrorShownGood DEF Good, SType
  <2>3. RecRestart(State, r)
    BY <2>1, <2>2, RecRestartFrame
  <2> QED
    BY <1>6, <2>2, <2>3, Bridge DEF Error
<1>7. ASSUME NEW p \in DOMAIN procs, Exit(p) PROVE Lifecycle!LNext
  BY <1>7, ExitEnd DEF Lifecycle!LNext, stBar
<1>8. CASE UNCHANGED vars
  BY <1>8 DEF vars, stBar, LifeStatus
<1> QED
  BY <1>1, <1>2, <1>3, <1>4, <1>5, <1>6, <1>7, <1>8 DEF Next

LEMMA RefinementInit == Init => Lifecycle!LInit
<1> SUFFICES ASSUME Init PROVE Lifecycle!LInit
  OBVIOUS
<1>1. DOMAIN procs = {} /\ current = 0
  BY DEF Init
<1>2. stBar = <<>>
  BY <1>1 DEF stBar
<1> QED
  BY <1>1, <1>2 DEF Lifecycle!LInit, stBar

-----------------------------------------------------------------------------
(* index.js implements the process lifecycle it promises (spec 6), for    *)
(* every bound: startProcess and closeProcess, wherever the handlers call *)
(* them, stop the running process before another one is started, leave    *)
(* only the last one started running as benchmarkProcess, and never       *)
(* resume a process that was sent SIGTERM.                                 *)
THEOREM Refinement == Spec => LifecycleRefined
<1>1. IInv /\ [Next]_vars => [Lifecycle!LNext]_<<stBar, current>>
  BY RefinementStep
<1>2. Spec => []IInv
  BY InductiveInvariant
<1> QED
  BY <1>1, <1>2, RefinementInit, PTL DEF Spec, LifecycleRefined, Lifecycle!LSpec, stBar
====
