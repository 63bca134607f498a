---------------------------- MODULE DataProofs ----------------------------
(***************************************************************************)
(* Proof that the output buffers, line counts and recorded updateData     *)
(* calls of BenchmarkData keep their types (DataTypeOK), for every bound.  *)
(*                                                                         *)
(* A recorded call names the registry id the handler read, so the proof   *)
(* rests on the registry invariant of RegistryProofs (a key with a         *)
(* registry entry holds a natural id).  That invariant carries over to     *)
(* BenchmarkData, whose handlers are those of BenchmarkApp and whose       *)
(* output steps leave the supervisor alone.                                *)
(***************************************************************************)
EXTENDS BenchmarkData, RegistryProofs, SequenceTheorems

(* Every step of BenchmarkData is a step of BenchmarkApp on its variables. *)
LEMMA DataIsAppStep == [DNext]_allVars => [Next]_vars
<1> SUFFICES ASSUME [DNext]_allVars PROVE [Next]_vars
  OBVIOUS
<1>1. CASE /\ \/ \E a \in Algs : ClickAlg(a)
              \/ DemoOn \/ DemoOff \/ ClickSgx \/ CloseWindow
              \/ \E p \in DOMAIN procs : Error(p)
           /\ UNCHANGED dataVars
  BY <1>1 DEF Next
<1>2. ASSUME NEW p \in DOMAIN procs, DExit(p) PROVE [Next]_vars
  BY <1>2 DEF DExit, Next
<1>3. ASSUME NEW p \in DOMAIN procs, NEW a \in Algs, NEW f \in Forms, Emit(p, a, f)
      PROVE  [Next]_vars
  BY <1>3 DEF Emit, vars
<1>4. ASSUME NEW p \in DOMAIN procs, NEW k \in 1..MaxLines, Data(p, k)
      PROVE  [Next]_vars
  BY <1>4 DEF Data, vars
<1>5. CASE UNCHANGED allVars
  BY <1>5 DEF allVars, vars
<1> QED
  BY <1>1, <1>2, <1>3, <1>4, <1>5 DEF DNext

(* Apply keeps the number of processes within MaxProcs. *)
ProcsBounded == Len(procs) <= MaxProcs

(* The invariant of BenchmarkData: the registry invariant, the bound on   *)
(* the processes that out is indexed by, and the type of the output.       *)
DInv == RInv /\ ProcsBounded /\ DataTypeOK

LEMMA BoundStep == IInv /\ ProcsBounded /\ [Next]_vars => ProcsBounded'
<1> SUFFICES ASSUME IInv, ProcsBounded, [Next]_vars PROVE ProcsBounded'
  OBVIOUS
<1>1. ASSUME NEW a \in Algs, ClickAlg(a) PROVE ProcsBounded'
  BY <1>1 DEF ClickAlg, Apply, ProcsBounded
<1>2. CASE DemoOn \/ DemoOff \/ CloseWindow
  BY <1>2 DEF DemoOn, DemoOff, CloseWindow, Apply, ProcsBounded
<1>3. CASE ClickSgx
  BY <1>3 DEF ClickSgx, Apply, ProcsBounded
<1>4. ASSUME NEW p \in DOMAIN procs, Error(p) PROVE ProcsBounded'
  BY <1>4 DEF Error, Apply, ProcsBounded
<1>5. ASSUME NEW p \in DOMAIN procs, Exit(p) PROVE ProcsBounded'
  BY <1>5 DEF Exit, ProcsBounded, IInv, TypeOK
<1>6. CASE UNCHANGED vars
  BY <1>6 DEF vars, ProcsBounded
<1> QED
  BY <1>1, <1>2, <1>3, <1>4, <1>5, <1>6 DEF Next

(* A process of the supervisor is one of the Pids out is indexed by. *)
LEMMA ProcsArePids == IInv /\ ProcsBounded => DOMAIN procs \subseteq Pids
<1> SUFFICES ASSUME IInv, ProcsBounded PROVE DOMAIN procs \subseteq Pids
  OBVIOUS
<1>1. procs \in Seq(Proc)
  BY DEF IInv, TypeOK
<1>2. DOMAIN procs = 1..Len(procs) /\ Len(procs) \in Nat
  BY <1>1
<1> QED
  BY <1>2, BoundsAssumption DEF ProcsBounded, Pids

(* A nonempty chunk read from a process of the supervisor yields samples. *)
LEMMA DispatchType ==
    ASSUME IInv, NEW chunk \in Seq(Line), Len(chunk) >= 1, NEW p \in Pids
    PROVE  Dispatch(chunk, p) \subseteq Sample
<1> SUFFICES ASSUME NEW key \in ChunkKeys(chunk), gauges[key] # None
             PROVE  [gauge |-> gauges[key], alg |-> key, src |-> chunk[1].tag,
                     num |-> chunk[1].form = "ValueFirst", pid |-> p] \in Sample
  BY DEF Dispatch
<1>1. key \in Algs
  <2>1. PICK i \in 1..Len(chunk) : key = chunk[i].tag
    BY DEF ChunkKeys
  <2>2. chunk[i] \in Line
    OBVIOUS
  <2> QED
    BY <2>1, <2>2 DEF Line
<1>2. gauges[key] \in Nat
  BY <1>1 DEF IInv, TypeOK
<1>3. chunk[1] \in Line
  OBVIOUS
<1> QED
  BY <1>1, <1>2, <1>3 DEF Sample, Line

LEMMA DInvInit == DInit => DInv
<1> SUFFICES ASSUME DInit PROVE DInv
  OBVIOUS
<1>1. RInv
  BY RInvInit DEF DInit
<1>2. ProcsBounded
  BY BoundsAssumption DEF DInit, Init, ProcsBounded
<1>3. DataTypeOK
  BY MaxLinesAssumption DEF DInit, DataTypeOK
<1> QED
  BY <1>1, <1>2, <1>3 DEF DInv

LEMMA TypeStep == DInv /\ [DNext]_allVars => DataTypeOK'
<1> SUFFICES ASSUME DInv, [DNext]_allVars PROVE DataTypeOK'
  OBVIOUS
<1>0. DOMAIN procs \subseteq Pids /\ DataTypeOK /\ IInv
  BY ProcsArePids DEF DInv, RInv
<1>1. ASSUME NEW p \in DOMAIN procs, NEW a \in Algs, NEW f \in Forms, Emit(p, a, f)
      PROVE  DataTypeOK'
  <2>1. [tag |-> a, form |-> f] \in Line
    BY DEF Line
  <2>2. p \in Pids /\ out[p] \in Seq(Line) /\ emitted[p] \in 0..MaxLines - 1
    BY <1>0, <1>1, MaxLinesAssumption DEF Emit, DataTypeOK
  <2>3. out' \in [Pids -> Seq(Line)]
    BY <1>0, <1>1, <2>1, <2>2 DEF Emit, DataTypeOK
  <2>4. emitted' \in [Pids -> 0..MaxLines]
    BY <1>0, <1>1, <2>2, MaxLinesAssumption DEF Emit, DataTypeOK
  <2> QED
    BY <1>0, <1>1, <2>3, <2>4 DEF Emit, DataTypeOK
<1>2. ASSUME NEW p \in DOMAIN procs, NEW k \in 1..MaxLines, Data(p, k)
      PROVE  DataTypeOK'
  <2>1. p \in Pids /\ out[p] \in Seq(Line) /\ k \in 1..Len(out[p])
    BY <1>0, <1>2 DEF Data, DataTypeOK
  <2>2. SubSeq(out[p], 1, k) \in Seq(Line) /\ Len(SubSeq(out[p], 1, k)) >= 1
    BY <2>1, SubSeqProperties
  <2>3. SubSeq(out[p], k + 1, Len(out[p])) \in Seq(Line)
    BY <2>1, SubSeqProperties
  <2>4. Dispatch(SubSeq(out[p], 1, k), p) \subseteq Sample
    BY <1>0, <2>1, <2>2, DispatchType
  <2> QED
    BY <1>0, <1>2, <2>1, <2>3, <2>4 DEF Data, DataTypeOK
<1>3. CASE UNCHANGED dataVars
  BY <1>0, <1>3 DEF dataVars, DataTypeOK
<1> QED
  BY <1>1, <1>2, <1>3 DEF DNext, DExit, allVars

(* The invariant holds in every state of BenchmarkData. *)
LEMMA DataInvariant == DSpec => []DInv
<1>1. DInv /\ [DNext]_allVars => DInv'
  <2> SUFFICES ASSUME DInv, [DNext]_allVars PROVE DInv'
    OBVIOUS
  <2>1. [Next]_vars
    BY DataIsAppStep
  <2>2. RInv'
    BY <2>1, RInvStep DEF DInv
  <2>3. ProcsBounded'
    BY <2>1, BoundStep DEF DInv, RInv
  <2>4. DataTypeOK'
    BY TypeStep
  <2> QED
    BY <2>2, <2>3, <2>4 DEF DInv
<1> QED
  BY <1>1, DInvInit, PTL DEF DSpec

(* The output buffers, the line counts and the recorded updateData calls  *)
(* keep their types for every bound: a 'data' chunk is a prefix of what a  *)
(* process wrote, and it feeds only registered ids.                        *)
THEOREM DataTypeCorrect == DSpec => []DataTypeOK
<1>1. DInv => DataTypeOK
  BY DEF DInv
<1> QED
  BY <1>1, DataInvariant, PTL
====
