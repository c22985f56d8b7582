-------------------------------- MODULE Services --------------------------------
(***************************************************************************)
(* An application that uses FoE, EoE, SoE and the services of CoE on one   *)
(* slave, one call after the other: what one call leaves under way meets   *)
(* the next, of the same protocol or of another.                           *)
(***************************************************************************)
EXTENDS FoE, EoE, SoE, SDOInfo

CONSTANT Sessions   \* sets of protocols an application uses

ASSUME SessionsAssumption == Sessions \subseteq SUBSET {"FoE", "EoE", "SoE", "CoE"}

VARIABLE protocols  \* those it uses

services == <<foeslave, eoehook, eoemaster, eoeslave, soeslave, coeslave>>
vars == <<channel, client, services, protocols>>

Mixed == Cardinality(protocols) > 1

\* Bound: one fault, and one frame of the slave, when EoE is used beside another
\* protocol.
Init ==
  /\ protocols \in Sessions
  /\ ClientInit /\ faults = (IF Mixed /\ "EoE" \in protocols THEN 1 ELSE MaxFaults)
  /\ FOEInit /\ EOEInit /\ SOEInit /\ COEInit

Protocol ==
  [FOEread |-> "FoE", FOEwrite |-> "FoE", SoEread |-> "SoE", SoEwrite |-> "SoE",
   EOEsend |-> "EoE", EOErecv |-> "EoE", EOEsetIp |-> "EoE", EOEgetIp |-> "EoE",
   readODlist |-> "CoE", readODdescription |-> "CoE", readOE |-> "CoE",
   RxPDO |-> "CoE", TxPDO |-> "CoE"]

Uses(protocol) == protocol \in protocols /\ UNCHANGED protocols

\* Bound: several protocols are used in turn.
Calls(protocol) ==
  Uses(protocol) /\ (Mixed /\ pc = "idle" /\ calls = 1 => Protocol[call.fn] # protocol)

Frame == SendFragment /\ (Mixed => Cardinality(frames') = 1)

UseFOE ==
  /\ \/ Calls("FoE") /\ FOE
     \/ Uses("FoE") /\ ServeFOE
  /\ UNCHANGED <<eoehook, eoemaster, eoeslave, soeslave, coeslave>>

UseEOE ==
  /\ \/ Calls("EoE") /\ EOE
     \/ Uses("EoE") /\ (ServeEOE \/ EOEHook \/ Frame)
  /\ UNCHANGED <<foeslave, soeslave, coeslave>>

UseSOE ==
  /\ \/ Calls("SoE") /\ SOE
     \/ Uses("SoE") /\ ServeSOE
  /\ UNCHANGED <<foeslave, eoehook, eoemaster, eoeslave, coeslave>>

UseCOE ==
  /\ \/ Calls("CoE") /\ COE
     \/ Uses("CoE") /\ ServeCOE
  /\ UNCHANGED <<foeslave, eoehook, eoemaster, eoeslave, soeslave>>

UseMailbox == (Mbxsend \/ Mbxreceive \/ Repeat) /\ UNCHANGED <<services, protocols>>

Next == UseFOE \/ UseEOE \/ UseSOE \/ UseCOE \/ UseMailbox

Spec == Init /\ [][Next]_vars
=============================================================================
