-------------------------- MODULE ProcessLifecycle --------------------------
(***************************************************************************)
(* What the benchmark GUI promises about the benchmark processes it        *)
(* supervises (spec 6: start with the accumulated flags, stop by signal,   *)
(* stop and restart on every change), independent of toggles and gauges.   *)
(*                                                                         *)
(* Processes are numbered in spawn order.  A process is "running" until it *)
(* is told to stop, then "stopping" until it is "gone"; nothing ever runs  *)
(* again once told to stop.  A restart tells every running process to      *)
(* stop and starts a batch of new ones, of which only the last is left     *)
(* running (the others are stopped again within the same handler); cur is *)
(* the process the GUI talks to, 0 before the first one.                   *)
(***************************************************************************)
EXTENDS Naturals, Sequences

VARIABLES st, cur

Status == {"running", "stopping", "gone"}

LTypeOK == st \in Seq(Status) /\ cur \in 0..Len(st)

LInit == st = <<>> /\ cur = 0

(* What a stop request does to the status of a process. *)
Stopped(x) == IF x = "running" THEN "stopping" ELSE x

(* Stop every running process, then start n new ones; all but the last are *)
(* stopped at once, and the last, if any, is running and becomes cur.      *)
Restart(n) ==
    /\ Len(st') = Len(st) + n
    /\ \A p \in 1..Len(st) : st'[p] = Stopped(st[p])
    /\ \A p \in (Len(st) + 1)..(Len(st) + n) :
          st'[p] = IF p = Len(st) + n THEN "running" ELSE "stopping"
    /\ cur' = IF n = 0 THEN cur ELSE Len(st) + n

(* Process p ends: on a stop request, or by itself. *)
End(p) ==
    /\ st[p] # "gone"
    /\ st' = [st EXCEPT ![p] = "gone"]
    /\ UNCHANGED cur

LNext ==
    \/ /\ st' \in Seq(Status)
       /\ \E n \in 0..(Len(st') - Len(st)) : Restart(n)
    \/ \E p \in DOMAIN st : End(p)

LSpec == LInit /\ [][LNext]_<<st, cur>>

(* At most one process runs, and it is the one the GUI talks to. *)
OneRunning == \A p \in DOMAIN st : st[p] = "running" => p = cur
====
