---------------------------- MODULE MCCellStats ----------------------------
(***************************************************************************)
(* TLC instance of CellStats.                                              *)
(***************************************************************************)
EXTENDS CellStats

Reading(time, cpm, label) == [time |-> time, cpm |-> cpm, label |-> label, cell |-> Cell]

\* Windows of 2: two readings that share the first window, a climb over three
\* windows, and a reading of another cell that lets the last one fire.
Hill ==
  {Reading(0, 2, "SAFE"), Reading(1, 3, "WARN"), Reading(2, 4, "WARN"), Reading(4, 6, "DANGER"),
   [time |-> 7, cpm |-> 1, label |-> "SAFE", cell |-> NoBlob]}
=============================================================================
