----------------------------------- MODULE Setup -----------------------------------
(***************************************************************************)
(* The start of a master: ecx_config_init, the mappings of                 *)
(* ecx_config_map_group, ecx_configdc, and the cyclic signals, one after   *)
(* the other, on a bus on which calls may fail.                            *)
(***************************************************************************)
EXTENDS Mapping, DistributedClocks

vars == <<wire, discovery, phase, at, clocks>>

Init == BusInit /\ DiscoveryInit /\ ClocksInit

Next ==
  \/ (config_init \/ find_mappings) /\ UNCHANGED clocks
  \/ configdc
  \/ (\E s \in Slaves : dcsync(s)) \/ Tick

Spec == Init /\ [][Next]_vars

-----------------------------------------------------------------------------
(* Properties.                                                             *)

Configured(s) ==
  IF phase = "configure" THEN s < at
  ELSE phase \in {"mapCoE", "mapSM", "latch", "configdc", "run"}
IsMapped(s) == IF phase = "mapSM" THEN s < at ELSE phase \in {"latch", "configdc", "run"}
IsTimed(s) == IF phase = "configdc" THEN s < at ELSE phase = "run"

\* No address went astray: every slave has its own, and the master knows it.
Addressed == \A s \in Slaves : ~Failed(s, "STADR write") /\ ~Failed(s, "STADR")
Unharmed(s) == \A w \in lost : w[1] # s

(***************************************************************************)
(* The parent found for a slave from numbers of open ports alone is its    *)
(* parent on the wire, unless the number of one of the slaves between them *)
(* (or of the parent) could not be read.                                   *)
(***************************************************************************)
TopologyTrue ==
  \A s \in Slaves :
    Configured(s) /\ Addressed /\ (\A p \in bus[s].up..s - 1 : p > 0 => ~Failed(p, "DLSTAT"))
      => sl[s].parent = bus[s].up

(***************************************************************************)
(* The details a slave is given are its own, of the table or of its        *)
(* EEPROM, also when they are copied from an earlier slave: that slave is  *)
(* one of the same kind.  Calls that failed for other slaves do no harm.   *)
(* The sums of entry 0 are those of the slaves, whatever failed.           *)
(***************************************************************************)
SameName(s) == {t \in 1..s - 1 : SameID(sl[t], sl[s])}
Known(s) == Addressed /\ \A t \in SameName(s) \union {s} : Unharmed(t)
InTable(s) == usetable /\ findconfig(Is(s))

OwnDetails(s) ==
  /\ SameID(sl[s], Is(s))
  /\ sl[s].mbx_l = Is(s).rxmbx[2] /\ sl[s].hasdc = bus[s].dc
  /\ sl[s].configindex = InTable(s)
  /\ (Is(s).rxmbx[2] > 0 => sl[s].mbx_proto = Is(s).proto[1])
  /\ ~InTable(s) =>
       /\ sl[s].CoEdetails = Is(s).CoEdetails /\ sl[s].blockLRW = Is(s).blockLRW
       /\ sl[s].Ebuscurrent = Is(s).Ebuscurrent
       /\ \A m \in SMs : Is(s).SM[m].StartAddr > 0 => sl[s].SM[m].StartAddr = Is(s).SM[m].StartAddr
  /\ (Is(s).rxmbx[2] > 0 /\ ~InTable(s)) =>
       smreg[s][0].StartAddr = Is(s).rxmbx[1] /\ smreg[s][0].SMlength = Is(s).rxmbx[2]

DetailsTrue ==
  /\ \A s \in Slaves : Configured(s) /\ Known(s) => OwnDetails(s)
  /\ blockLRW = Cardinality({s \in Slaves : sl[s].blockLRW})
  /\ Ebus = MapThenSumSet(LAMBDA s : sl[s].Ebuscurrent, Slaves)

(***************************************************************************)
(* What a slave's process data are: the bits of each direction, and the    *)
(* bytes of each sync manager that carries some.                           *)
(***************************************************************************)
AllBits(lists) == Bits(lists, [e \in Entries(lists) |-> TRUE])
CoEBits(has, t) ==
  MapThenSumSet(LAMBDA m : IF has.types[m + 1] = t THEN AllBits(PDOs(has, m)) ELSE 0, DOMAIN has.pdos)
HasCoE(has) == HasBit(has.proto[1], COE) /\ CoEBits(has, 3) + CoEBits(has, 4) > 0
SoEBits(has, way) ==
  MapThenSumSet(LAMBDA d : IF has.soe[d][way] = << >> THEN 0
                           ELSE 16 + MapThenSumSet(LAMBDA j : has.soe[d][way][j],
                                                   DOMAIN has.soe[d][way]), DOMAIN has.soe)
SIIBits(has, way, m) ==
  MapThenSumSet(LAMBDA n : IF has.siiPDO[way][n][1] = m THEN has.siiPDO[way][n][2] ELSE 0,
                DOMAIN has.siiPDO[way])

\* Bits of sync manager m of a slave of this kind, as outputs (3) or inputs (4).
Carried(has, m, t) ==
  IF HasCoE(has)
  THEN IF m \in DOMAIN has.pdos /\ has.types[m + 1] = t THEN AllBits(PDOs(has, m)) ELSE 0
  ELSE IF HasBit(has.proto[1], SOE)
       THEN IF m = t - 1 THEN SoEBits(has, t - 2) ELSE 0
       ELSE SIIBits(has, IF t = 3 THEN "RxPDO" ELSE "TxPDO", m)
Direction(has, t) == MapThenSumSet(LAMBDA m : Carried(has, m, t), SMs)

(***************************************************************************)
(* The master takes a slave's process data for what they are, and the      *)
(* slave's sync managers are programmed for them, unless a call for that   *)
(* slave, or for one of the same name before it, failed.  Whatever failed, *)
(* the sync managers of a direction have room for its bits: the IO map is  *)
(* never laid out over more than the slave can exchange.                   *)
(***************************************************************************)
MappingTrue ==
  \A s \in Slaves :
    IsMapped(s) =>
      /\ (Known(s) /\ ~InTable(s)) =>
           /\ sl[s].Obits = Direction(Is(s), 3) /\ sl[s].Ibits = Direction(Is(s), 4)
           /\ \A m \in SMs, t \in {3, 4} :
                Carried(Is(s), m, t) > 0 =>
                  /\ sl[s].SMtype[m] = t
                  /\ smreg[s][m].SMlength = Bytes(Carried(Is(s), m, t)) /\ smreg[s][m].enabled
      /\ \A t \in {3, 4} :
           8 * MapThenSumSet(LAMBDA m : IF sl[s].SMtype[m] = t THEN sl[s].SM[m].SMlength ELSE 0, SMs)
             >= (IF t = 3 THEN sl[s].Obits ELSE sl[s].Ibits)

(***************************************************************************)
(* The delay a slave is given is the time by which the frame reaches it    *)
(* later than the first slave with a clock, when every split has a clock   *)
(* and no slave's port times change sign between them.                     *)
(***************************************************************************)
Splits == {s \in Slaves : Cardinality(Ports(s)) > 2}
Clocks == {s \in Slaves : bus[s].dc}
SameSign(s) == \A p, q \in Ports(s) : (Latched(s, p) < 0) = (Latched(s, q) < 0)
Undisturbed(s) ==
  Addressed /\ ~Failed(0, "latch") /\ \A t \in 1..s : Unharmed(t) /\ (bus[t].dc => SameSign(t))

DelaysTrue ==
  \A s \in Clocks :
    IsTimed(s) /\ Splits \subseteq Clocks /\ Undisturbed(s)
      => /\ dc[s].pdelay = Arrival[s] - Arrival[Min(Clocks)]
         /\ s # Min(Clocks) => sysdelay[s] = dc[s].pdelay

(***************************************************************************)
(* Slaves started with the same cycle fire at the same moments, whenever   *)
(* and with whichever of the two calls each was started.                   *)
(***************************************************************************)
SyncTogether ==
  \A s, t \in {u \in Slaves : sync[u].active /\ Addressed /\ Unharmed(u)} :
    sync[s].cycle[1] = sync[t].cycle[1]
      => (sync[s].start - sync[t].start) % sync[s].cycle[1] = 0
=================================================================================
