-------------------------------- MODULE MCDrivers -------------------------------
(***************************************************************************)
(* Three slaves whose station addresses and places in the logical datum    *)
(* are in another order than the line's, and every primitive on each of    *)
(* them.  Words are sets of bits; each slave holds bits of its own.        *)
(***************************************************************************)
EXTENDS Drivers

Stations == <<2, 3, 1>>
Places == <<3, 1, 2>>
MCLine == [i \in 1..3 |->
  [station |-> Stations[i], pos |-> Places[i], in |-> {i, 10}, out |-> {},
   memory |-> [TYPE |-> <<{i + 20}>>, ALSTAT |-> <<{i}>>,
               DCSYSTIME |-> <<{i}, {i + 10}>>]]]

Of0(op, at, ado, data) == [op |-> op, at |-> at, ado |-> ado, data |-> data, time |-> <<{}, {}>>]
Word == <<{7}>>
Time == <<{8}, {9}>>
Outputs == <<{1, 7}, {2, 7}, {3, 7}>>

MCRequests ==
  {Of0(op, 0, "ALSTAT", Word) : op \in {"BRD", "BWR"}}
    \union {Of0(op, at, "ALSTAT", Word) : op \in {"APRD", "APWR", "FPRD", "FPWR"}, at \in 1..3}
    \union {Of0(op, at, "DCSYSTIME", Time) : op \in {"ARMW", "FRMW"}, at \in 1..3}
    \union {Of0(op, 0, "none", Outputs) : op \in {"LRD", "LWR", "LRW"}}
    \union {[Of0("LRWDC", at, "none", Outputs) EXCEPT !.time = Time] : at \in 1..3}
    \union {Of0("FPRD_multi", at, "ALSTAT", Word) : at \in {<<1>>, <<2, 1>>, <<1, 2, 3>>}}
================================================================================
