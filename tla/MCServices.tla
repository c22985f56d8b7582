------------------------------- MODULE MCServices -------------------------------
(***************************************************************************)
(* TLC instance of Services: files and values of one or two messages,      *)
(* frames of one or two fragments, a dictionary larger than the master's   *)
(* list.                                                                   *)
(***************************************************************************)
EXTENDS Services, TLC

CONSTANTS boot, app, speed, torque, device, axis, name, load, mode, unit

MCSessions ==
  {{"FoE"}, {"EoE"}, {"SoE"}, {"CoE"}, {"FoE", "SoE"}, {"FoE", "CoE"}, {"CoE", "SoE"}, {"EoE", "FoE"}}
MCDelivered == [f \in Files |-> IF f = boot THEN 2 ELSE 3]
MCDelivery == [e \in Elements |-> IF e = speed THEN 1 ELSE 3]
MCDrive == [e \in Elements |-> 1]
MCDictionary == <<device, axis, name, load, mode, unit>>
MCMaxSub == [o \in ToSet(MCDictionary) |-> IF o = axis THEN 1 ELSE 0]
=============================================================================
