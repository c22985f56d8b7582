---------------------------------- MODULE Mapping ----------------------------------
(***************************************************************************)
(* ecx_config_find_mappings: how many bits of process data a slave has,    *)
(* and in which sync managers, read from its object dictionary (PDO        *)
(* assignment, all at once or entry by entry), from its SoE lists, taken   *)
(* from an earlier slave of the same name, or read from its EEPROM; then   *)
(* the sync managers are programmed.  One slave after the other, for all   *)
(* groups; the hooks of the application are left out.  A read that fails   *)
(* leaves the zero the master put into the variable.                       *)
(***************************************************************************)
EXTENDS Discovery

COE == 4
SOE == 16
SDOCA == 32
HasBit(n, bit) == (n \div bit) % 2 = 1

(***************************************************************************)
(* The reads of the mapping functions: of complete access the types, an    *)
(* assignment and a PDO; else the number of types, a type, and of an       *)
(* assignment its count, an index, the number of entries and an entry; of  *)
(* SoE a list of a drive and the attribute of an item.                     *)
(***************************************************************************)
PDOs(has, m) == IF m \in DOMAIN has.pdos THEN has.pdos[m] ELSE << >>
Entries(lists) == UNION {{<<i, j>> : j \in DOMAIN lists[i]} : i \in DOMAIN lists}

MappingReads(has) ==
  {<<"CA">>, <<"E">>}
  \union UNION {{<<"CA", m>>, <<"E", m>>, <<"E", m, 0>>}
                \union {<<"CA", m, i>> : i \in DOMAIN PDOs(has, m)}
                \union UNION {{<<"E", m, i>>, <<"E", m, i, 0>>} : i \in DOMAIN PDOs(has, m)}
                \union {<<"E", m, e[1], e[2]>> : e \in Entries(PDOs(has, m))}
                : m \in DOMAIN has.pdos}
  \union UNION {{<<"S", d, 1>>, <<"S", d, 2>>}
                \union {<<"S", d, e[1], e[2]>> : e \in Entries(has.soe[d])} : d \in DOMAIN has.soe}

\* Bits of the PDOs assigned to a sync manager, of what could be read.
Bits(lists, read) == MapThenSumSet(LAMBDA e : lists[e[1]][e[2]], {e \in Entries(lists) : read[e]})

readPDOassign(has, m, failed) ==
  IF <<"E", m, 0>> \in failed THEN 0
  ELSE Bits(PDOs(has, m),
            [e \in Entries(PDOs(has, m)) |->
               {<<"E", m, e[1]>>, <<"E", m, e[1], 0>>, <<"E", m, e[1], e[2]>>} \intersect failed = {}])

readPDOassignCA(has, m, failed) ==
  IF <<"CA", m>> \in failed THEN 0
  ELSE Bits(PDOs(has, m), [e \in Entries(PDOs(has, m)) |-> <<"CA", m, e[1]>> \notin failed])

(***************************************************************************)
(* The types a slave announces for its sync managers are corrected where   *)
(* they are known to be wrong; complete access leaves out the second       *)
(* correction.  A pass keeps what it read before it failed.                *)
(***************************************************************************)
Announced(has) == {m \in SMs \ {0, 1} : m < Len(has.reports) /\ Len(has.reports) > 2}

Uncorrected(has, m, added, zeros) == has.reports[m + 1]
Corrected(has, m, added, zeros) ==
  LET t == has.reports[m + 1] IN
  CASE t > 0 -> t + (IF added THEN 1 ELSE 0)
    [] t = 0 /\ zeros /\ m \in {2, 3} -> m + 1
    [] OTHER -> 0

Mapped(s, read, type, size) ==
  LET assigned(t) == MapThenSumSet(LAMBDA m : size[m], {m \in read : type[m] = t})
  IN  [s EXCEPT !.Obits = assigned(3), !.Ibits = assigned(4),
         !.SMtype = [m \in SMs |-> IF m \in read THEN type[m] ELSE @[m]],
         !.SM = [m \in SMs |->
                   IF m \notin read THEN @[m]
                   ELSE [@[m] EXCEPT !.enabled = @ /\ type[m] > 0,
                           !.SMlength = IF type[m] \in {3, 4} /\ size[m] > 0
                                        THEN Bytes(size[m]) ELSE @]]]

readPDOmap(s, has, failed) ==
  LET read == {m \in Announced(has) : {<<"E">>, <<"E", m>>} \intersect failed = {}}
      added == 2 \in read /\ has.reports[3] = 2
  IN  Mapped(s, read, [m \in read |-> Corrected(has, m, added, TRUE)],
             [m \in read |-> readPDOassign(has, m, failed)])

readPDOmapCA(s, has, failed) ==
  LET read == IF <<"CA">> \in failed THEN {} ELSE Announced(has)
      added == 2 \in read /\ has.reports[3] = 2
  IN  Mapped(s, read, [m \in read |-> Corrected(has, m, added, FALSE)],
             [m \in read |-> readPDOassignCA(has, m, failed)])

\* Each drive has a command or status word beside the items of its list.
readIDNmap(s, has, failed) ==
  LET list(d, way) ==
        IF <<"S", d, way>> \in failed \/ has.soe[d][way] = << >> THEN 0
        ELSE 16 + MapThenSumSet(LAMBDA j : has.soe[d][way][j],
                                {j \in DOMAIN has.soe[d][way] : <<"S", d, way, j>> \notin failed})
      bits(way) == MapThenSumSet(LAMBDA d : list(d, way), DOMAIN has.soe)
  IN  [s EXCEPT !.Obits = bits(1), !.Ibits = bits(2),
                !.SM[2].SMlength = Bytes(bits(1)), !.SM[3].SMlength = Bytes(bits(2))]

(***************************************************************************)
(* ecx_map_coe_soe.  Nothing is read of a slave whose mailbox was not set  *)
(* up.                                                                     *)
(***************************************************************************)
Mute == [reports |-> << >>, pdos |-> << >>, soe |-> << >>]
Dictionary[t \in Slaves] ==
  IF smreg[t][0].StartAddr = Is(t).rxmbx[1] /\ smreg[t][0].SMlength > 0
  THEN [reports |-> Is(t).reports, pdos |-> Is(t).pdos, soe |-> Is(t).soe] ELSE Mute

Empty(s) == s.Obits = 0 /\ s.Ibits = 0

map_coe_soe(s, has, failed) ==
  LET ca == IF HasBit(s.mbx_proto, COE) /\ HasBit(s.CoEdetails, SDOCA)
            THEN readPDOmapCA(s, has, failed) ELSE s
      coe == IF HasBit(s.mbx_proto, COE) /\ Empty(ca) THEN readPDOmap(ca, has, failed) ELSE ca
  IN  IF s.configindex THEN s
      ELSE IF HasBit(s.mbx_proto, SOE) /\ Empty(coe) THEN readIDNmap(coe, has, failed) ELSE coe

MapCoESoE ==
  /\ phase = "mapCoE"
  /\ LET has == Answer(sl[at].configadr, Dictionary, Mute) IN
     \E failed \in Failures(MappingReads(has)) :
       /\ sl' = [sl EXCEPT ![at] = map_coe_soe(sl[at], has, failed)]
       /\ faults' = faults - Cardinality(failed)
       /\ lost' = IF failed = {} THEN lost ELSE lost \union {<<at, "mapping">>}
  /\ Advance /\ UNCHANGED <<bus, stadr, word, smreg, sysdelay, slavecount, blockLRW, Ebus, usetable>>

(***************************************************************************)
(* ecx_map_sii: a slave without bits so far takes the mapping of the first *)
(* earlier slave of the same name, wherever that came from, or else what   *)
(* its EEPROM says.                                                        *)
(***************************************************************************)
lookup_mapping(s, t) ==
  [s EXCEPT !.Obits = t.Obits, !.Ibits = t.Ibits, !.SMtype = t.SMtype,
            !.SM = [m \in SMs |-> [@[m] EXCEPT !.SMlength = t.SM[m].SMlength]]]

siiPDO(s, has, found) ==
  LET size(way, m) ==
        IF way \notin found THEN 0
        ELSE MapThenSumSet(LAMBDA n : IF has.siiPDO[way][n][1] = m THEN has.siiPDO[way][n][2] ELSE 0,
                           DOMAIN has.siiPDO[way])
      total(way) == MapThenSumSet(LAMBDA m : size(way, m), SMs)
  IN  [s EXCEPT !.Obits = total("RxPDO"), !.Ibits = total("TxPDO"),
         !.SMtype = [m \in SMs |-> IF size("RxPDO", m) > 0 THEN 3
                                   ELSE IF size("TxPDO", m) > 0 THEN 4 ELSE @[m]],
         !.SM = [m \in SMs |->
                   LET bits == IF size("RxPDO", m) > 0 THEN size("RxPDO", m) ELSE size("TxPDO", m)
                   IN  [@[m] EXCEPT !.SMlength = IF bits > 0 THEN Bytes(bits) ELSE @]]]

map_sii(s, has, found) ==
  LET copied == IF Empty(s) /\ Earlier(at) # {} THEN lookup_mapping(s, sl[Min(Earlier(at))]) ELSE s
  IN  IF Empty(copied) THEN siiPDO(copied, has, found) ELSE copied

(***************************************************************************)
(* ecx_map_sm: sync managers 0 and 1 only without a mailbox; the others    *)
(* are enabled exactly when they have a length.                            *)
(***************************************************************************)
Enabled(s) ==
  [s EXCEPT !.SM = [m \in SMs |->
     IF m > 1 /\ @[m].StartAddr > 0 THEN [@[m] EXCEPT !.enabled = s.SM[m].SMlength > 0] ELSE @[m]]]

Programs(s) == {m \in SMs : s.SM[m].StartAddr > 0 /\ (m > 1 \/ s.mbx_l = 0)}

map_sm(s, failed) ==
  smreg' = [t \in Slaves |->
              IF stadr[t] # s.configadr THEN smreg[t]
              ELSE [m \in SMs |-> IF m \in Programs(s) \ failed THEN s.SM[m] ELSE smreg[t][m]]]

MapSM ==
  /\ phase = "mapSM"
  /\ LET has == Answer(sl[at].configadr, Contents, [siiPDO |-> << >>]) IN
     \E failed \in Failures({"RxPDO", "TxPDO"}), unset \in Failures(SMs) :
       LET s == Enabled(map_sii(sl[at], has, DOMAIN has.siiPDO \ failed))
           fails == Cardinality(failed) + Cardinality(unset)
       IN  /\ fails <= faults /\ unset \subseteq Programs(s)
           /\ sl' = [sl EXCEPT ![at] = s]
           /\ map_sm(s, unset)
           /\ faults' = faults - fails
           /\ lost' = IF fails = 0 THEN lost ELSE lost \union {<<at, "mapping">>}
  /\ Advance /\ UNCHANGED <<bus, stadr, word, sysdelay, slavecount, blockLRW, Ebus, usetable>>

find_mappings == MapCoESoE \/ MapSM
================================================================================
