--------------------------- MODULE MC_TickLayout ---------------------------
EXTENDS TickLayout

(* The options index.js gives the AES, SHA and RSA gauges (RSA in tenths,  *)
(* for its tickSpaceMinVal of .4), over gauge.js's minVal 0, and the spec's *)
(* example of a 0..100 dial with a major step of 10 and the default minor  *)
(* step of 1.  The last dial starts above 0 and has a major spacing of     *)
(* 240/7 degrees, so the doubles decide the major loop's last test at a    *)
(* tie.                                                                    *)
MC_Configs ==
    { [minVal |-> 0, maxVal |-> 20, maj |-> 5, min |-> 1],
      [minVal |-> 0, maxVal |-> 200, maj |-> 25, min |-> 5],
      [minVal |-> 0, maxVal |-> 100, maj |-> 20, min |-> 4],
      [minVal |-> 0, maxVal |-> 100, maj |-> 10, min |-> 1],
      [minVal |-> 10, maxVal |-> 80, maj |-> 10, min |-> 5] }
====
