---------------------------- MODULE BenchmarkApp ----------------------------
(***************************************************************************)
(* The supervisor of js/index.js: the AES, SHA and RSA toggles, the demo   *)
(* and SGX toggles, the registry `gauges`, the argument list               *)
(* `benchmarkArgs`, the benchmark child processes and the events they      *)
(* deliver ('error', exit).                                   *)
(*                                                                         *)
(* Every handler of index.js runs to completion on the single event loop,  *)
(* so each is one atomic step.  A handler is written as a function from    *)
(* the program state (a record) to the program state, so that the calls a  *)
(* handler makes (startProcess inside startDemo inside the demo handler,   *)
(* the change handlers that bootstrapToggle('off') triggers) compose in    *)
(* the order the code makes them.  A gauge object is identified by the     *)
(* number of its creation; its statistics are modelled in Gauge.           *)
(***************************************************************************)
EXTENDS Integers, Sequences, FiniteSets, Functions

CONSTANTS
    MaxProcs,   \* bound on the number of benchmark processes spawned
    MaxGauges,  \* bound on the number of gauge objects created
    None        \* gauges[key] when the key has no gauge

ASSUME BoundsAssumption == MaxProcs \in Nat /\ MaxGauges \in Nat
ASSUME NoneAssumption == None \notin Nat

(* The keys of `options` and the flag each toggle pushes on benchmarkArgs. *)
Algs == {"AES", "SHA", "RSA"}
Flag == [a \in Algs |-> CASE a = "AES" -> "-ag"
                          [] a = "SHA" -> "-s256"
                          [] a = "RSA" -> "-rd"]

VARIABLES
    checked,    \* [Algs -> BOOLEAN]: the checked property of #aesToggle ...
    enabled,    \* [Algs -> BOOLEAN]: the toggle is not bootstrapToggle-disabled
    demo,       \* #demoToggle is checked
    sgx,        \* processName is 'benchmark-SGX' (and the SGX title is shown)
    kiosk,      \* the window is in kiosk mode
    gauges,     \* the registry `gauges`: [Algs -> gauge id or None]
    mounted,    \* ids of the gauges whose container is in #gauges
    nGauges,    \* number of gauge objects created so far
    args,       \* benchmarkArgs
    procs,      \* the spawned processes, in spawn order (pid = index)
    current,    \* benchmarkProcess: the pid it holds, 0 while undefined
    errorShown, \* #guiError is not hidden
    closed      \* the window was closed

vars == <<checked, enabled, demo, sgx, kiosk, gauges, mounted, nGauges,
          args, procs, current, errorShown, closed>>

(* A spawned process: its argument list, whether it runs the SGX binary,   *)
(* whether it was sent SIGTERM, and whether it has exited.                 *)
Proc == [args : Seq(Range(Flag)), sgx : BOOLEAN, killed : BOOLEAN, exited : BOOLEAN]

TypeOK ==
    /\ checked \in [Algs -> BOOLEAN]
    /\ enabled \in [Algs -> BOOLEAN]
    /\ demo \in BOOLEAN /\ sgx \in BOOLEAN /\ kiosk \in BOOLEAN
    /\ gauges \in [Algs -> 1..MaxGauges \cup {None}]
    /\ mounted \in SUBSET (1..MaxGauges)
    /\ nGauges \in 0..MaxGauges
    /\ args \in Seq(Range(Flag))
    /\ procs \in Seq(Proc)
    /\ current \in 0..Len(procs)
    /\ errorShown \in BOOLEAN /\ closed \in BOOLEAN

-----------------------------------------------------------------------------
(***************************************************************************)
(* The program state as a record, and the functions of index.js on it.     *)
(***************************************************************************)
State == [checked |-> checked, enabled |-> enabled, demo |-> demo, sgx |-> sgx,
          kiosk |-> kiosk, gauges |-> gauges, mounted |-> mounted,
          nGauges |-> nGauges, args |-> args, procs |-> procs,
          current |-> current, errorShown |-> errorShown]

(* closeProcess(): SIGTERM to benchmarkProcess if it is set, hide the error. *)
CloseProcess(s) ==
    [s EXCEPT !.procs = IF s.current # 0
                          THEN [@ EXCEPT ![s.current].killed = TRUE] ELSE @,
              !.errorShown = FALSE]

(* Mutant: startProcess spawns without closing the previous process. *)
StartProcessNoClose(s) ==
    IF Len(s.args) > 0
      THEN [s EXCEPT !.procs = Append(@, [args |-> s.args, sgx |-> s.sgx,
                                          killed |-> FALSE, exited |-> FALSE]),
                     !.current = Len(s.procs) + 1]
      ELSE s

(* Mutant: benchmarkProcess is given a pid one past the spawned one. *)
StartProcessOffByOne(s) ==
    LET c == CloseProcess(s)
    IN  IF Len(c.args) > 0
          THEN [c EXCEPT !.procs = Append(@, [args |-> c.args, sgx |-> c.sgx,
                                              killed |-> FALSE, exited |-> FALSE]),
                         !.current = Len(c.procs) + 2]
          ELSE c

(* startProcess(): close, then spawn with benchmarkArgs if it is nonempty. *)
StartProcess(s) ==
    LET c == CloseProcess(s)
    IN  IF Len(c.args) > 0
          THEN [c EXCEPT !.procs = Append(@, [args |-> c.args, sgx |-> c.sgx,
                                              killed |-> FALSE, exited |-> FALSE]),
                         !.current = Len(c.procs) + 1]
          ELSE c

(* gauges[key] = new gauge(key, ...): a new object and a new container. *)
NewGauge(s, a) ==
    [s EXCEPT !.gauges[a] = s.nGauges + 1,
              !.nGauges = @ + 1,
              !.mounted = @ \cup {s.nGauges + 1}]

(* removeGauge(key): remove the container and delete the registry entry. *)
RemoveGauge(s, a) ==
    IF s.gauges[a] # None
      THEN [s EXCEPT !.mounted = @ \ {s.gauges[a]}, !.gauges[a] = None]
      ELSE s

(* benchmarkArgs.indexOf(e), with 0 for "not found" (JavaScript's -1). *)
IndexOf(sq, e) ==
    LET I == {i \in 1..Len(sq) : sq[i] = e}
    IN  IF I = {} THEN 0 ELSE CHOOSE i \in I : \A j \in I : i <= j

(* benchmarkArgs.splice(i, 1) *)
Splice(sq, i) == SubSeq(sq, 1, i - 1) \o SubSeq(sq, i + 1, Len(sq))

(* removeArg(argument): splice out the first occurrence, if any. *)
RemoveArg(s, f) ==
    LET i == IndexOf(s.args, f)
    IN  IF i > 0 THEN [s EXCEPT !.args = Splice(@, i)] ELSE s

(* Mutant: the checked branch forgets to (re)start the process. *)
ToggleOnHandlerNoStart(s, a) ==
    NewGauge([s EXCEPT !.args = Append(@, Flag[a])], a)

(* The checked branch of the change handler of an algorithm toggle. *)
ToggleOnHandler(s, a) ==
    StartProcess(NewGauge([s EXCEPT !.args = Append(@, Flag[a])], a))

(* The unchecked branch of the change handler of an algorithm toggle. *)
ToggleOffHandler(s, a) ==
    StartProcess(RemoveGauge(RemoveArg(s, Flag[a]), a))

(* Mutant: the toggles are switched off silently, without their handler. *)
OffAndDisableSilent(s, a) ==
    [s EXCEPT !.checked[a] = FALSE, !.enabled[a] = FALSE]

(* bootstrapToggle('off').bootstrapToggle('disable'): 'off', on an enabled *)
(* toggle, unchecks it and triggers its change handler; 'disable' disables *)
(* it.                                                                     *)
OffAndDisable(s, a) ==
    LET t == IF s.enabled[a]
               THEN ToggleOffHandler([s EXCEPT !.checked[a] = FALSE], a)
               ELSE s
    IN  [t EXCEPT !.enabled[a] = FALSE]

(* startDemo(): off and disable the three toggles, create the three        *)
(* gauges, push the three flags, start the process.                        *)
StartDemo(s) ==
    LET t == OffAndDisable(OffAndDisable(OffAndDisable(s, "AES"), "SHA"), "RSA")
        g == NewGauge(NewGauge(NewGauge(t, "AES"), "SHA"), "RSA")
    IN  StartProcess([g EXCEPT !.args = @ \o <<"-ag", "-s256", "-rd">>])

(* removeAllGauges() *)
RemoveAllGauges(s) ==
    RemoveGauge(RemoveGauge(RemoveGauge(s, "AES"), "SHA"), "RSA")

-----------------------------------------------------------------------------
(* Apply a handler: the next state is the record r, within the bounds. *)
Apply(r) ==
    /\ Len(r.procs) <= MaxProcs
    /\ r.nGauges <= MaxGauges
    /\ checked' = r.checked /\ enabled' = r.enabled
    /\ demo' = r.demo /\ sgx' = r.sgx /\ kiosk' = r.kiosk
    /\ gauges' = r.gauges /\ mounted' = r.mounted /\ nGauges' = r.nGauges
    /\ args' = r.args /\ procs' = r.procs /\ current' = r.current
    /\ errorShown' = r.errorShown

(* Page load: nothing registered, no process, toggles enabled and off. *)
Init ==
    /\ checked = [a \in Algs |-> FALSE]
    /\ enabled = [a \in Algs |-> TRUE]
    /\ demo = FALSE /\ sgx = FALSE /\ kiosk = FALSE
    /\ gauges = [a \in Algs |-> None]
    /\ mounted = {} /\ nGauges = 0
    /\ args = <<>> /\ procs = <<>> /\ current = 0
    /\ errorShown = FALSE /\ closed = FALSE

(* The user clicks an enabled algorithm toggle; its change handler runs. *)
ClickAlg(a) ==
    /\ ~closed
    /\ enabled[a]
    /\ Apply(IF checked[a]
               THEN ToggleOffHandler([State EXCEPT !.checked[a] = FALSE], a)
               ELSE ToggleOnHandler([State EXCEPT !.checked[a] = TRUE], a))
    /\ UNCHANGED closed

(* The user checks the demo toggle: startDemo() and kiosk mode. *)
DemoOn ==
    /\ ~closed
    /\ ~demo
    /\ Apply([StartDemo([State EXCEPT !.demo = TRUE]) EXCEPT !.kiosk = ~@])
    /\ UNCHANGED closed

(* The user unchecks the demo toggle: enable the toggles, leave kiosk      *)
(* mode, closeProcess(), removeAllGauges().                                *)
DemoOff ==
    /\ ~closed
    /\ demo
    /\ Apply(RemoveAllGauges(CloseProcess(
               [State EXCEPT !.demo = FALSE,
                             !.enabled = [a \in Algs |-> TRUE],
                             !.kiosk = ~@])))
    /\ UNCHANGED closed

(* Mutant: the SGX toggle changes processName without a restart. *)
ClickSgxNoRestart ==
    /\ ~closed
    /\ Apply([State EXCEPT !.sgx = ~@])
    /\ UNCHANGED closed

(* The user flips the SGX toggle: switch processName, and restart the      *)
(* process if benchmarkProcess was ever set.                               *)
ClickSgx ==
    /\ ~closed
    /\ LET t == [State EXCEPT !.sgx = ~@]
       IN  Apply(IF current # 0 THEN StartProcess(t) ELSE t)
    /\ UNCHANGED closed

(* The window's 'close' event: closeProcess(), then the window closes. *)
CloseWindow ==
    /\ ~closed
    /\ Apply(CloseProcess(State))
    /\ closed' = TRUE

(* An 'error' event of process p: closeProcess() on benchmarkProcess,      *)
(* whichever process that is, then show the error.                         *)
Error(p) ==
    /\ ~closed
    /\ ~procs[p].exited
    /\ Apply([CloseProcess(State) EXCEPT !.errorShown = TRUE])
    /\ UNCHANGED closed

(* Process p exits, on SIGTERM or by itself; the 'close' handler only logs. *)
Exit(p) ==
    /\ ~procs[p].exited
    /\ procs' = [procs EXCEPT ![p].exited = TRUE]
    /\ UNCHANGED <<checked, enabled, demo, sgx, kiosk, gauges, mounted, nGauges,
                   args, current, errorShown, closed>>

Next ==
    \/ \E a \in Algs : ClickAlg(a)
    \/ DemoOn \/ DemoOff \/ ClickSgx \/ CloseWindow
    \/ \E p \in DOMAIN procs :
          \/ Error(p)
          \/ Exit(p)

Spec == Init /\ [][Next]_vars

-----------------------------------------------------------------------------
(***************************************************************************)
(* Properties.                                                             *)
(***************************************************************************)

(* The status of process p in the lifecycle of ProcessLifecycle: running *)
(* until sent SIGTERM, stopping until it exits.                          *)
LifeStatus(p) ==
    IF procs[p].exited THEN "gone" ELSE IF procs[p].killed THEN "stopping" ELSE "running"

Lifecycle == INSTANCE ProcessLifecycle
                 WITH st <- [p \in DOMAIN procs |-> LifeStatus(p)], cur <- current

(* index.js keeps the process lifecycle it promises: every handler, taken  *)
(* as a whole, stops the running process before it starts another, leaves  *)
(* only the last one it started running, and never resumes a process it    *)
(* told to stop.                                                           *)
LifecycleRefined == Lifecycle!LSpec

(* A gauge is on screen exactly for the algorithms whose toggle is checked *)
(* or while the demo runs, and the containers in #gauges are exactly those *)
(* of the registered gauges: neither startDemo (which unchecks the toggles *)
(* through their change handlers before it creates its own gauges) nor     *)
(* the demo toggle's off branch leaves a container behind or a toggle      *)
(* without its gauge.                                                      *)
RegistryMatchesToggles ==
    /\ \A a \in Algs : gauges[a] # None <=> (checked[a] \/ demo)
    /\ mounted = {gauges[a] : a \in {b \in Algs : gauges[b] # None}}

(* At most one benchmark process has not been sent SIGTERM, and it is the *)
(* one benchmarkProcess holds: every startProcess and every 'error'        *)
(* handler kills benchmarkProcess before it is replaced.                   *)
OnlyCurrentUnkilled ==
    \A p \in DOMAIN procs : p # current => procs[p].killed \/ procs[p].exited

(* The process benchmarkProcess holds, while not killed, runs the binary   *)
(* processName names with the arguments benchmarkArgs holds: every change  *)
(* of either is followed by a restart.                                     *)
CurrentMatchesConfig ==
    current # 0 /\ ~procs[current].killed =>
        /\ procs[current].args = args
        /\ procs[current].sgx = sgx

(* While a gauge is shown and no error is displayed, a benchmark process   *)
(* has been started for it and not killed since.                           *)
GaugesHaveProcess ==
    (\E a \in Algs : gauges[a] # None) /\ ~errorShown /\ ~closed =>
        current # 0 /\ ~procs[current].killed

(* The running benchmark process measures exactly the algorithms that    *)
(* have a gauge, each once (spec: a toggle restarts the process "with the  *)
(* updated flag set").                                                     *)
RunsShownAlgorithms ==
    current # 0 /\ ~procs[current].killed =>
        LET run == procs[current].args
        IN  /\ Range(run) = {Flag[a] : a \in {b \in Algs : gauges[b] # None}}
            /\ Len(run) = Cardinality(Range(run))

=============================================================================
