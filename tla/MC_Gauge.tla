------------------------------ MODULE MC_Gauge ------------------------------
(* The AES gauge of index.js: maxVal 20, minVal 0 and needleVal 0 from     *)
(* gauge.js, the tick and needle angles d3gauge.js defaults to.            *)
EXTENDS Gauge

MC_Values == {0, 700, 2000, 2100}
MC_MaxVal == 2000
=============================================================================
