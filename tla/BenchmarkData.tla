--------------------------- MODULE BenchmarkData ---------------------------
(***************************************************************************)
(* The supervisor of index.js together with the output of the benchmark    *)
(* processes it spawns: every process writes lines to its stdout pipe, and *)
(* the stdout 'data' handler that startProcess registered for it           *)
(* (index.js:188-200) receives them in chunks and feeds every registered   *)
(* gauge whose key the chunk contains.                                      *)
(*                                                                         *)
(* A line is abstracted to the algorithm it reports (its tag) and to its  *)
(* form: whether it begins with its number ("12.34 AES") or with its key   *)
(* ("AES: 12.34", the spec's example); its number is "the value measured  *)
(* for that line".  The pipe may deliver several                          *)
(* lines in one chunk; a chunk boundary inside a line is not modelled.     *)
(* A process whose stdout still holds data keeps receiving 'data' events   *)
(* after SIGTERM, until it exits; 'close' (Exit) follows the last chunk.   *)
(***************************************************************************)
EXTENDS BenchmarkApp

CONSTANT MaxLines   \* bound on the lines one process writes

ASSUME MaxLinesAssumption == MaxLines \in Nat

VARIABLES
    out,      \* out[p]: the lines process p wrote that were not yet read
    emitted,  \* emitted[p]: how many lines process p has written
    fed       \* history: every updateData call, as a sample record

dataVars == <<out, emitted, fed>>
allVars == <<vars, dataVars>>

Pids == 1..MaxProcs

(* The two forms a line of the benchmark may take: the number before the   *)
(* key, or the key before the number.  Both contain a key and a number     *)
(* parseable as a float, as the subprocess contract of the spec asks.      *)
Forms == {"ValueFirst", "KeyFirst"}

Line == [tag : Algs, form : Forms]

(* One updateData call: the gauge object, the key under which it was      *)
(* found, the tag of the chunk's first line, whether parseFloat found a    *)
(* number there (else the value is NaN), the sender.                      *)
Sample == [gauge : Nat, alg : Algs, src : Algs, num : BOOLEAN, pid : Pids]

(* The algorithms process p measures: those whose flag it was given. *)
ProcAlgs(p) == {a \in Algs : Flag[a] \in Range(procs[p].args)}

DataTypeOK ==
    /\ out \in [Pids -> Seq(Line)]
    /\ emitted \in [Pids -> 0..MaxLines]
    /\ fed \in SUBSET Sample

DInit ==
    /\ Init
    /\ out = [p \in Pids |-> <<>>]
    /\ emitted = [p \in Pids |-> 0]
    /\ fed = {}

(* The benchmark executable (outside this repository) writes one line for  *)
(* an algorithm it was started with, in either form; it may do so until   *)
(* it has exited.                                                          *)
Emit(p, a, f) ==
    /\ ~procs[p].exited
    /\ a \in ProcAlgs(p)
    /\ emitted[p] < MaxLines
    /\ out' = [out EXCEPT ![p] = Append(@, [tag |-> a, form |-> f])]
    /\ emitted' = [emitted EXCEPT ![p] = @ + 1]
    /\ UNCHANGED <<vars, fed>>

(* The keys a chunk contains. *)
ChunkKeys(chunk) == {chunk[i].tag : i \in 1..Len(chunk)}

(* The samples a chunk yields: +parseFloat(chunk) reads the number its     *)
(* first line begins with, NaN if that line begins with its key, and       *)
(* `for(var key in gauges) if(chunk.includes(key))` hands it to every      *)
(* registered gauge whose key occurs anywhere in the chunk.                *)
(* Mutant: the keys are taken from the chunk, not from the registry.       *)
DispatchAnyKey(chunk, p) ==
    {[gauge |-> gauges[key], alg |-> key, src |-> chunk[1].tag,
      num |-> chunk[1].form = "ValueFirst", pid |-> p] :
        key \in ChunkKeys(chunk)}

Dispatch(chunk, p) ==
    {[gauge |-> gauges[key], alg |-> key, src |-> chunk[1].tag,
      num |-> chunk[1].form = "ValueFirst", pid |-> p] :
        key \in {k \in ChunkKeys(chunk) : gauges[k] # None}}

(* Process p's stdout 'data' event delivering its next k lines as one chunk. *)
Data(p, k) ==
    /\ ~closed
    /\ ~procs[p].exited
    /\ k \in 1..Len(out[p])
    /\ fed' = fed \cup Dispatch(SubSeq(out[p], 1, k), p)
    /\ out' = [out EXCEPT ![p] = SubSeq(@, k + 1, Len(@))]
    /\ UNCHANGED <<vars, emitted>>

(* Process p exits; its 'close' event comes after its stdout has been read  *)
(* to the end, unless the window and its event loop are gone.               *)
DExit(p) ==
    /\ closed \/ out[p] = <<>>
    /\ Exit(p)
    /\ UNCHANGED dataVars

DNext ==
    \/ /\ \/ \E a \in Algs : ClickAlg(a)
          \/ DemoOn \/ DemoOff \/ ClickSgx \/ CloseWindow
          \/ \E p \in DOMAIN procs : Error(p)
       /\ UNCHANGED dataVars
    \/ \E p \in DOMAIN procs :
          \/ DExit(p)
          \/ \E a \in Algs, f \in Forms : Emit(p, a, f)
          \/ \E k \in 1..MaxLines : Data(p, k)

DSpec == DInit /\ [][DNext]_allVars

-----------------------------------------------------------------------------
(* Every sample a gauge records is the number of a line tagged with that   *)
(* gauge's algorithm (spec 6: each line carries a key and its value).      *)
SampleMatchesTag ==
    \A s \in fed : s.src = s.alg

(* The gauges show only what benchmarkProcess reports: a process that was  *)
(* replaced (and sent SIGTERM) no longer updates them (spec 6: a toggle    *)
(* stops the subprocess and restarts it with the updated flag set).        *)
SamplesFromCurrentRun ==
    [][\A s \in fed' \ fed : s.pid = current]_allVars

(* Every sample a gauge records is a number: the spec's example line      *)
(* "AES: 12.34" makes the AES average 12.34, and its subprocess contract   *)
(* only asks a line to contain a key and a number parseable as a float.    *)
NumericSamples ==
    \A s \in fed : s.num

====
