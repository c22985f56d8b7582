-------------------------------- MODULE Discovery --------------------------------
(***************************************************************************)
(* ecx_config_init of ethercatconfig.c: the master counts the slaves,      *)
(* gives each a station address, reads who it is in loops that overlap the *)
(* EEPROM accesses of all slaves, works out the tree from the number of    *)
(* open ports alone, and takes the details of a slave from the table, from *)
(* an earlier slave that calls itself the same, or from its EEPROM.        *)
(* Registers and texts that nothing here reads are left out (Itype, alias, *)
(* ptype, name), and so are AL states (SlaveState) and the bytes of the    *)
(* EEPROM (SII): a section whose reads fail is a section not found.        *)
(***************************************************************************)
EXTENDS Bus

CONSTANTS
  MaxSlave, \* size of the slave list (EC_MAXSLAVE)
  Table     \* the configuration table: of <<man, id>>, what it says

VARIABLES
  slavecount, sl,      \* the slave list
  blockLRW, Ebus,      \* what entry 0 of it counts
  usetable,            \* the argument of ecx_config_init
  phase, at            \* the loop under way, and its slave

discovery == <<slavecount, sl, blockLRW, Ebus, usetable>>

SMs == 0..3  \* bound: EC_MAXSM is 8
NoSM == [StartAddr |-> 0, SMlength |-> 0, enabled |-> FALSE]

Blank ==
  [configadr |-> 0, man |-> <<0, 0>>, id |-> <<0, 0>>, rev |-> <<0, 0>>,
   mbx_wo |-> 0, mbx_l |-> 0, mbx_ro |-> 0, mbx_rl |-> 0, mbx_proto |-> 0,
   hasdc |-> FALSE, topology |-> 0, activeports |-> {}, parent |-> 0,
   configindex |-> FALSE, CoEdetails |-> 0, blockLRW |-> FALSE, Ebuscurrent |-> 0,
   SM |-> [m \in SMs |-> NoSM], SMtype |-> [m \in SMs |-> 0], FMMUfunc |-> <<0, 0, 0, 0>>,
   Obits |-> 0, Ibits |-> 0]

\* memset of the slave list by ecx_init_context.
init_context ==
  /\ slavecount = 0 /\ sl = [s \in Slaves |-> Blank]
  /\ blockLRW = 0 /\ Ebus = 0

DiscoveryInit == init_context /\ usetable \in BOOLEAN /\ phase = "detect" /\ at = 0

(***************************************************************************)
(* The count is the working counter of one broadcast, which is sent again  *)
(* when it is lost; too many slaves are an error.                          *)
(***************************************************************************)
Detect ==
  /\ phase = "detect"
  /\ \E failed \in Failures({"count"}) :
       /\ Fail(0, failed)
       /\ IF failed = {} /\ Len(bus) < MaxSlave
          THEN slavecount' = Len(bus) /\ phase' = "address" /\ at' = 1
          ELSE UNCHANGED slavecount /\ phase' = "stopped" /\ at' = 0
  /\ UNCHANGED <<bus, stadr, word, smreg, sysdelay, sl, blockLRW, Ebus, usetable>>

\* The registers ecx_set_slaves_to_default clears that matter here.
set_slaves_to_default == smreg' = [s \in Slaves |-> [m \in SMs |-> NoSM]]

\* The loops run over all slaves, one loop after the other.
NextLoop ==
  [address |-> "man", man |-> "id", id |-> "rev", rev |-> "mbx", mbx |-> "configure",
   configure |-> "mapCoE", mapCoE |-> "mapSM", mapSM |-> "latch"]
Advance ==
  IF at < slavecount THEN at' = at + 1 /\ UNCHANGED phase
  ELSE at' = 1 /\ phase' = NextLoop[phase]

\* ecx_readeeprom1 starts a read of a word, ecx_readeeprom2 fetches what was read.
readeeprom1(a, w) == [s \in Slaves |-> IF stadr[s] = a THEN w ELSE word[s]]
WordOf[s \in Slaves] == IF word[s] = "none" THEN <<0, 0>> ELSE Is(s)[word[s]]
readeeprom2(a) == Answer(a, WordOf, <<0, 0>>)

(***************************************************************************)
(* The address is written by position and read back by position; what is   *)
(* read back is used from then on, whatever it is.                         *)
(***************************************************************************)
Address ==
  /\ phase = "address"
  /\ \E failed \in Failures({"STADR write", "STADR", "start word"}) :
       /\ Fail(at, failed)
       /\ stadr' = IF "STADR write" \in failed THEN stadr ELSE [stadr EXCEPT ![at] = at]
       /\ LET a == IF "STADR" \in failed THEN 0 ELSE stadr'[at] IN
            /\ sl' = [sl EXCEPT ![at].configadr = a]
            /\ word' = [s \in Slaves |->
                          IF stadr'[s] = a /\ "start word" \notin failed THEN "man" ELSE word[s]]
  /\ IF at = 1 THEN set_slaves_to_default ELSE UNCHANGED smreg
  /\ Advance /\ UNCHANGED <<bus, sysdelay, slavecount, blockLRW, Ebus, usetable>>

(***************************************************************************)
(* Each loop fetches the word the loop before it started, and starts the   *)
(* next: manufacturer, id, revision, and the two mailbox words.            *)
(***************************************************************************)
Follows == [man |-> "id", id |-> "rev", rev |-> "rxmbx", mbx |-> "txmbx"]

ReadWord ==
  /\ phase \in {"man", "id", "rev", "mbx"}
  /\ \E failed \in Failures({"fetch word", "start word"}) :
       LET a == sl[at].configadr
           eedat == IF "fetch word" \in failed THEN <<0, 0>> ELSE readeeprom2(a)
       IN  /\ Fail(at, failed)
           /\ sl' = IF phase = "mbx" THEN [sl EXCEPT ![at].mbx_wo = eedat[1], ![at].mbx_l = eedat[2]]
                    ELSE [sl EXCEPT ![at][phase] = eedat]
           /\ word' = IF "start word" \in failed \/ (phase = "mbx" /\ eedat[2] = 0) THEN word
                      ELSE readeeprom1(a, Follows[phase])
  /\ Advance /\ UNCHANGED <<bus, stadr, smreg, sysdelay, slavecount, blockLRW, Ebus, usetable>>

(***************************************************************************)
(* The parent is searched backwards from the slave: ends of lines count    *)
(* -1, splits +1, crosses +2, and the first slave that still has an open   *)
(* port is the parent.                                                     *)
(***************************************************************************)
EndsOnce(topology) == CASE topology = 1 -> -1 [] topology > 2 -> 1 [] OTHER -> 0
Ends(topology) == CASE topology = 1 -> -1 [] topology = 3 -> 1 [] topology = 4 -> 2 [] OTHER -> 0

ParentOf(topology, s) ==
  IF s = 1 THEN 0
  ELSE LET topoc(p) == MapThenSumSet(LAMBDA q : Ends(topology[q]), p..s - 1)
       IN  Max({p \in 1..s - 1 : p = 1 \/ (topoc(p) >= 0 /\ topology[p] > 1)})

(***************************************************************************)
(* Details from the configuration table.                                   *)
(***************************************************************************)
findconfig(s) == <<s.man, s.id>> \in DOMAIN Table
Bytes(bits) == (bits + 7) \div 8

config_from_table(s) ==
  LET row == Table[<<s.man, s.id>>]
      simpleO == row.Obits > 0 /\ row.SM2 = 0
      simpleI == row.Ibits > 0 /\ row.SM3 = 0
      O == IF simpleO THEN 0 ELSE 2
      I == IF simpleI THEN 1 ELSE 3
  IN  [s EXCEPT !.configindex = TRUE, !.Ibits = row.Ibits, !.Obits = row.Obits,
         !.FMMUfunc = [@ EXCEPT ![1] = IF row.Obits > 0 THEN 1 ELSE @,
                                ![2] = IF row.Ibits > 0 THEN 2 ELSE @],
         !.SM = [@ EXCEPT ![2].StartAddr = row.SM2, ![3].StartAddr = row.SM3,
                          ![O] = [StartAddr |-> IF simpleO THEN 15 ELSE row.SM2,
                                  SMlength |-> Bytes(row.Obits), enabled |-> row.Obits > 0],
                          ![I] = [StartAddr |-> IF simpleI THEN 16 ELSE row.SM3,
                                  SMlength |-> Bytes(row.Ibits),
                                  enabled |-> row.Ibits > 0 /\ ~simpleI]],
         !.SMtype = [@ EXCEPT ![O] = 3, ![I] = 4]]

(***************************************************************************)
(* Details of the first earlier slave with the same three identity words,  *)
(* whatever that slave's own reads gave.                                   *)
(***************************************************************************)
SameProduct(s, t) == s.man = t.man /\ s.id = t.id
SameID(s, t) == s.man = t.man /\ s.id = t.id /\ s.rev = t.rev
Earlier(s) == {t \in 1..s - 1 : SameID(sl[t], sl[s])}

lookup_prev_sii(s, t) ==
  [s EXCEPT !.CoEdetails = t.CoEdetails, !.blockLRW = @ \/ t.blockLRW,
            !.Ebuscurrent = t.Ebuscurrent, !.SM = t.SM, !.FMMUfunc = t.FMMUfunc]

(***************************************************************************)
(* Details from the EEPROM, of the sections that are found.                *)
(***************************************************************************)
Sections == {"general", "SM", "FMMU"}

FromSII(s, has, found) ==
  LET general == "general" \in found
  IN  [s EXCEPT !.CoEdetails = IF general THEN has.CoEdetails ELSE @,
                !.blockLRW = @ \/ (general /\ has.blockLRW),
                !.Ebuscurrent = IF general THEN has.Ebuscurrent ELSE @,
                !.SM = IF "SM" \in found THEN has.SM ELSE @,
                !.FMMUfunc = IF "FMMU" \in found
                             THEN [f \in 1..4 |-> IF has.FMMU[f] = 255 THEN @[f] ELSE has.FMMU[f]]
                             ELSE @]

\* A slave with a mailbox gets sync managers 0 and 1 for it, by default ...
DefaultMailbox(s) ==
  IF s.mbx_l = 0 THEN s
  ELSE [s EXCEPT !.SMtype = [m \in SMs |-> m + 1],
          !.SM[0] = [StartAddr |-> s.mbx_wo, SMlength |-> s.mbx_l, enabled |-> TRUE],
          !.SM[1] = [StartAddr |-> s.mbx_ro, SMlength |-> s.mbx_rl, enabled |-> TRUE]]

\* ... and in the end, when its details have none.
ProperMailbox(s) ==
  LET default(m, start) ==
        IF s.SM[m].StartAddr = 0 THEN [StartAddr |-> start, SMlength |-> 128, enabled |-> TRUE]
        ELSE s.SM[m]
  IN  IF s.mbx_l = 0 THEN s
      ELSE [s EXCEPT !.SM[0] = default(0, 16), !.SM[1] = default(1, 17),
              !.SMtype[0] = IF s.SM[0].StartAddr = 0 THEN 1 ELSE @,
              !.SMtype[1] = IF s.SM[1].StartAddr = 0 THEN 2 ELSE @]

Details(s, found) ==
  IF usetable /\ findconfig(s) THEN config_from_table(s)
  ELSE IF Earlier(at) # {} THEN lookup_prev_sii(s, sl[Min(Earlier(at))])
  ELSE FromSII(s, Answer(s.configadr, Contents, [none |-> 0]), found)

(***************************************************************************)
(* The main loop: the second mailbox word and the protocols of a slave     *)
(* with a mailbox, its registers, its parent, its details, its mailbox.    *)
(***************************************************************************)
HasDC[s \in Slaves] == bus[s].dc
Links[s \in Slaves] == Ports(s)
Reads(s) ==
  {"ESCSUP", "DLSTAT"} \union Sections
  \union (IF s.mbx_l > 0 THEN {"fetch word", "start word", "fetch proto", "SM write"} ELSE {})

Identify(s, failed) ==
  LET fetch == IF "fetch word" \in failed THEN <<0, 0>> ELSE readeeprom2(s.configadr)
      links == IF "DLSTAT" \in failed THEN {} ELSE Answer(s.configadr, Links, {})
      rl == IF fetch[2] = 0 THEN s.mbx_l ELSE fetch[2]
      proto == IF "fetch proto" \in failed \/ Reached(s.configadr) = {} THEN 0
               ELSE IF "start word" \in failed THEN readeeprom2(s.configadr)[1]
               ELSE Answer(s.configadr, Contents, [none |-> 0]).proto[1]
  IN  [s EXCEPT !.mbx_ro = IF s.mbx_l > 0 THEN fetch[1] ELSE @,
                !.mbx_rl = IF s.mbx_l > 0 THEN rl ELSE @,
                !.mbx_proto = IF s.mbx_l > 0 THEN proto ELSE @,
                !.hasdc = "ESCSUP" \notin failed /\ Answer(s.configadr, HasDC, FALSE),
                !.topology = Cardinality(links), !.activeports = links,
                !.parent = ParentOf([p \in 1..at - 1 |-> sl[p].topology], at)]

Configure ==
  /\ phase = "configure"
  /\ \E failed \in Failures(Reads(sl[at])) :
       LET known == DefaultMailbox(Identify(sl[at], failed))
           found == IF Reached(known.configadr) = {} THEN {} ELSE Sections \ failed
           s == ProperMailbox(Details(known, found))
       IN  /\ Fail(at, failed)
           /\ sl' = [sl EXCEPT ![at] = s]
           /\ blockLRW' = blockLRW + (IF s.blockLRW THEN 1 ELSE 0)
           /\ Ebus' = Ebus + s.Ebuscurrent
           /\ word' = IF known.mbx_l = 0 \/ "start word" \in failed THEN word
                      ELSE readeeprom1(known.configadr, "proto")
           /\ smreg' = [t \in Slaves |->
                          IF stadr[t] = s.configadr /\ s.mbx_l > 0 /\ "SM write" \notin failed
                          THEN [smreg[t] EXCEPT ![0] = s.SM[0], ![1] = s.SM[1]] ELSE smreg[t]]
  /\ Advance /\ UNCHANGED <<bus, stadr, sysdelay, slavecount, usetable>>

config_init == Detect \/ Address \/ ReadWord \/ Configure
================================================================================
