-------------------------------- MODULE IOMap --------------------------------
(***************************************************************************)
(* ecx_config_map_group and ecx_config_overlap_map_group of                *)
(* soem/ethercatconfig.c for one group: every slave gets FMMUs that map    *)
(* its sync managers (SMs) into the logical process image, outputs of all  *)
(* slaves first and inputs after them, or (overlap) the outputs and inputs *)
(* of a slave on top of each other.  A slave with at least 8 bits in a     *)
(* direction starts at a byte there; smaller ones share bytes.  The image  *)
(* is cut into segments, one per datagram.                                 *)
(*                                                                         *)
(* Addresses are relative to the group's logstartaddr.  The SMs of a       *)
(* direction are a sequence, in the order of SMtype, and hold its bits; SMs *)
(* of other types are left out, as the loops skip them.                    *)
(***************************************************************************)
EXTENDS Naturals, Sequences

CONSTANTS
  Groups,            \* the choices of a group's slaves, of the function called
                     \* to map it, and of a slave that blocks LRW being among them
  MaxSegment,        \* EC_MAXLRWDATA - EC_FIRSTDCDATAGRAM
  EC_MAXIOSEGMENTS   \* segments a group may have

Dirs == {"out", "in"}
SyncManagers == [start : Nat, len : Nat \ {0}]
Slaves == [Dirs -> [bits : Nat, sms : Seq(SyncManagers)]]

ASSUME GroupAssumption ==
  Groups \subseteq [slaves : Seq(Slaves), overlap : BOOLEAN, blockLRW : BOOLEAN]
ASSUME SegmentAssumption ==
  MaxSegment \in Nat \ {0} /\ EC_MAXIOSEGMENTS \in Nat \ {0}

Segments == 0 .. EC_MAXIOSEGMENTS - 1
Steps == {"slave", "fmmu", "join", "place", "account", "close", "done"}
FMMUs == [slave : Nat, dir : Dirs, LogStart : Nat, LogStartbit : 0 .. 7, LogLength : Nat,
          LogEndbit : 0 .. 7, PhysStart : Nat, programmed : BOOLEAN]

VARIABLES
  slavelist,    \* the slaves of the group
  overlap,      \* whether outputs and inputs overlap
  blockLRW,     \* whether a slave blocks LRW
  pc, slave, dir,
  LogAddr, BitPos,                          \* next free bit of the image
  SMc, PhysStart, EndAddr,                  \* create_*_mappings: SM reached, its run
  ByteCount, BitCount, FMMUdone, AddToWKC,  \* create_*_mappings: sums
  oLogAddr,     \* end of what the segments account for (oLogAddr, mLogAddr)
  soLogAddr, siLogAddr,  \* overlap: ends of the slave last mapped
  IOsegment, currentsegment, segmentsize,
  segstart,     \* history: where each segment starts
  FMMU,         \* all FMMUs set up so far
  outputsWKC, inputsWKC,
  grp           \* what the map leaves in ec_groupt: Obytes, Ibytes, Isegment, Ioffset

at == <<pc, slave, dir>>
pos == <<LogAddr, BitPos>>
run == <<SMc, PhysStart, EndAddr, ByteCount, BitCount>>
locals == <<run, FMMUdone, AddToWKC>>
overlapped == <<soLogAddr, siLogAddr>>
ends == <<oLogAddr, overlapped>>
segs == <<IOsegment, currentsegment, segmentsize, segstart>>
wkcs == <<outputsWKC, inputsWKC>>
group == <<slavelist, overlap, blockLRW>>
mapvars == <<group, at, pos, locals, ends, segs, FMMU, wkcs, grp>>

N == Len(slavelist)
Bits == slavelist[slave][dir].bits
SMs == slavelist[slave][dir].sms

\* slavelist[].Obytes and Ibytes: 0 for a bit-oriented slave (ecx_map_sm).
Rounded(bits) == (bits + 7) \div 8
Bytes == IF Bits > 7 THEN Rounded(Bits) ELSE 0

TypeOK ==
  /\ [slaves |-> slavelist, overlap |-> overlap, blockLRW |-> blockLRW] \in Groups
  /\ pc \in Steps /\ slave \in Nat \ {0} /\ dir \in Dirs
  /\ LogAddr \in Nat /\ BitPos \in 0 .. 7
  /\ SMc \in Nat /\ PhysStart \in Nat /\ EndAddr \in Nat
  /\ ByteCount \in Nat /\ BitCount \in Nat /\ FMMUdone \in Nat /\ AddToWKC \in BOOLEAN
  /\ oLogAddr \in Nat /\ soLogAddr \in Nat /\ siLogAddr \in Nat
  /\ IOsegment \in [Segments -> Nat] /\ currentsegment \in Segments
  /\ segmentsize \in Nat /\ segstart \in [Segments -> Nat]
  /\ FMMU \subseteq FMMUs
  /\ outputsWKC \in Nat /\ inputsWKC \in Nat
  /\ grp \in [Obytes : Nat, Ibytes : Nat, Isegment : Segments, Ioffset : Nat]

MapInit ==
  /\ \E g \in Groups : slavelist = g.slaves /\ overlap = g.overlap /\ blockLRW = g.blockLRW
  /\ pc = "slave" /\ slave = 1 /\ dir = "out"
  /\ LogAddr = 0 /\ BitPos = 0
  /\ SMc = 1 /\ PhysStart = 0 /\ EndAddr = 0
  /\ ByteCount = 0 /\ BitCount = 0 /\ FMMUdone = 0 /\ AddToWKC = FALSE
  /\ oLogAddr = 0 /\ soLogAddr = 0 /\ siLogAddr = 0
  /\ IOsegment = [k \in Segments |-> 0] /\ currentsegment = 0
  /\ segmentsize = 0 /\ segstart = [k \in Segments |-> 0]
  /\ FMMU = {}
  /\ outputsWKC = 0 /\ inputsWKC = 0
  /\ grp = [Obytes |-> 0, Ibytes |-> 0, Isegment |-> 0, Ioffset |-> 0]

Goto(from, to) == pc = from /\ pc' = to

-----------------------------------------------------------------------------
(***************************************************************************)
(* ecx_config_create_output_mappings and ..._input_mappings.               *)
(***************************************************************************)
ToMap == pc = "slave" /\ slave <= N

CallCreate ==
  /\ ToMap /\ Bits > 0
  /\ Goto("slave", "fmmu")
  /\ SMc' = 1 /\ PhysStart' = 0 /\ EndAddr' = 0
  /\ ByteCount' = 0 /\ BitCount' = 0 /\ FMMUdone' = 0 /\ AddToWKC' = FALSE
  /\ UNCHANGED <<group, slave, dir, pos, ends, segs, FMMU, wkcs, grp>>

\* Another SM at the end of the run of SMs that one FMMU maps.
TakeSM(n) ==
  /\ SMc' = n
  /\ EndAddr' = SMs[n].start + SMs[n].len
  /\ ByteCount' = ByteCount + SMs[n].len
  /\ BitCount' = BitCount + 8 * SMs[n].len

StartFMMU ==
  /\ pc = "fmmu" /\ SMc <= Len(SMs) /\ FMMUdone < Rounded(Bits)
  /\ Goto("fmmu", "join")
  /\ TakeSM(SMc)
  /\ PhysStart' = SMs[SMc].start
  /\ UNCHANGED <<group, slave, dir, pos, FMMUdone, AddToWKC, ends, segs, FMMU,
                 wkcs, grp>>

JoinAlways ==
  /\ pc = "join"
  /\ IF BitCount < Bits /\ SMc < Len(SMs)
       THEN TakeSM(SMc + 1) /\ UNCHANGED pc
       ELSE Goto("join", "place") /\ UNCHANGED <<SMc, EndAddr, ByteCount, BitCount>>
  /\ UNCHANGED <<group, slave, dir, pos, PhysStart, FMMUdone, AddToWKC, ends,
                 segs, FMMU, wkcs, grp>>

\* More SMs are needed: the next one joins the run unless it begins after a gap.
JoinSM ==
  /\ pc = "join"
  /\ IF BitCount < Bits /\ SMc < Len(SMs)
       THEN IF SMs[SMc + 1].start > EndAddr
              THEN /\ Goto("join", "place")
                   /\ SMc' = SMc + 1
                   /\ UNCHANGED <<EndAddr, ByteCount, BitCount>>
              ELSE TakeSM(SMc + 1) /\ UNCHANGED pc
       ELSE Goto("join", "place") /\ UNCHANGED <<SMc, EndAddr, ByteCount, BitCount>>
  /\ UNCHANGED <<group, slave, dir, pos, PhysStart, FMMUdone, AddToWKC, ends,
                 segs, FMMU, wkcs, grp>>

\* An FMMU from bit firstbit of byte first on.  Programming it may fail: the
\* result of ecx_FPWR is not looked at.
SetFMMU(first, firstbit, length, lastbit) ==
  \E programmed \in BOOLEAN :
    /\ FMMU' = FMMU \cup
         {[slave |-> slave, dir |-> dir, LogStart |-> first, LogStartbit |-> firstbit,
           LogLength |-> length, LogEndbit |-> lastbit, PhysStart |-> PhysStart,
           programmed |-> programmed]}
    /\ FMMUdone' = FMMUdone + length
    /\ AddToWKC' = (AddToWKC \/ length > 0)

PlaceBits ==
  LET last == BitPos + Bits - 1    \* last bit, counted from bit 0 of LogAddr
      next == last + 1 IN
  /\ SetFMMU(LogAddr, BitPos, IF last > 7 THEN 2 ELSE 1, IF last > 7 THEN last - 8 ELSE last)
  /\ LogAddr' = IF next > 7 THEN LogAddr + 1 ELSE LogAddr
  /\ BitPos' = IF next > 7 THEN next - 8 ELSE next

ThisByte == LogAddr

\* The first byte of the image that no FMMU uses yet.
NextByte == IF BitPos > 0 THEN LogAddr + 1 ELSE LogAddr

PlaceBytes ==
  LET first == NextByte
      size == IF ByteCount + FMMUdone > Bytes THEN Bytes - FMMUdone ELSE ByteCount IN
  /\ SetFMMU(first, 0, size, 7)
  /\ LogAddr' = first + size
  /\ BitPos' = 0

PlaceFMMU ==
  /\ Goto("place", "fmmu")
  /\ IF Bytes = 0 THEN PlaceBits ELSE PlaceBytes
  /\ UNCHANGED <<group, slave, dir, run, ends, segs, wkcs, grp>>

\* A slave counts once per direction, however many FMMUs it has.
EndCreate ==
  /\ pc = "fmmu" /\ ~(SMc <= Len(SMs) /\ FMMUdone < Rounded(Bits))
  /\ Goto("fmmu", "account")
  /\ LET one == IF AddToWKC THEN 1 ELSE 0 IN
       IF dir = "out" THEN outputsWKC' = outputsWKC + one /\ UNCHANGED inputsWKC
       ELSE inputsWKC' = inputsWKC + one /\ UNCHANGED outputsWKC
  /\ UNCHANGED <<group, slave, dir, pos, locals, ends, segs, FMMU, grp>>

-----------------------------------------------------------------------------
(***************************************************************************)
(* The segments: IOsegment is filled up to currentsegment - 1; the open    *)
(* one holds segmentsize bytes.                                            *)
(***************************************************************************)
AddUnchecked(d) ==
  /\ segmentsize' = segmentsize + d
  /\ UNCHANGED <<IOsegment, currentsegment, segstart>>

AddFilling(d) ==
  IF segmentsize + d > MaxSegment /\ currentsegment < EC_MAXIOSEGMENTS - 1
    THEN /\ IOsegment' = [IOsegment EXCEPT ![currentsegment] = MaxSegment]
         /\ currentsegment' = currentsegment + 1
         /\ segmentsize' = segmentsize + d - MaxSegment
         /\ segstart' = [segstart EXCEPT ![currentsegment + 1] =
                           segstart[currentsegment] + MaxSegment]
    ELSE AddUnchecked(d)

AddToSegment(d) ==
  IF segmentsize + d > MaxSegment
    THEN /\ IOsegment' = [IOsegment EXCEPT ![currentsegment] = segmentsize]
         /\ IF currentsegment < EC_MAXIOSEGMENTS - 1
              THEN /\ currentsegment' = currentsegment + 1
                   /\ segmentsize' = d
                   /\ segstart' = [segstart EXCEPT ![currentsegment + 1] =
                                     segstart[currentsegment] + segmentsize]
              ELSE UNCHANGED <<currentsegment, segmentsize, segstart>>
    ELSE /\ segmentsize' = segmentsize + d
         /\ UNCHANGED <<IOsegment, currentsegment, segstart>>

NoPad ==
  /\ LogAddr' = NextByte /\ BitPos' = 0 /\ oLogAddr' = NextByte
  /\ UNCHANGED segs

\* The partly used last byte of the outputs or inputs gets its place.
Pad ==
  /\ LogAddr' = NextByte /\ BitPos' = 0 /\ oLogAddr' = NextByte
  /\ IF BitPos > 0 THEN AddToSegment(1) ELSE UNCHANGED segs

-----------------------------------------------------------------------------
(***************************************************************************)
(* ecx_config_map_group: the outputs of all slaves, then the inputs.       *)
(***************************************************************************)
SkipSlave ==
  /\ ~overlap /\ ToMap /\ Bits = 0
  /\ slave' = slave + 1
  /\ UNCHANGED <<group, pc, dir, pos, locals, ends, segs, FMMU, wkcs, grp>>

AccountSlave ==
  /\ ~overlap /\ Goto("account", "slave")
  /\ AddToSegment(LogAddr - oLogAddr)
  /\ oLogAddr' = LogAddr
  /\ slave' = slave + 1
  /\ UNCHANGED <<group, dir, pos, locals, overlapped, FMMU, wkcs, grp>>

EndOutputs ==
  /\ ~overlap /\ pc = "slave" /\ slave > N /\ dir = "out"
  /\ Pad
  /\ grp' = [grp EXCEPT !.Obytes = NextByte, !.Isegment = currentsegment', 
                        !.Ioffset = segmentsize']
  /\ slave' = 1 /\ dir' = "in"
  /\ UNCHANGED <<group, pc, locals, overlapped, FMMU, wkcs>>

EndInputs ==
  /\ ~overlap /\ slave > N /\ dir = "in"
  /\ Goto("slave", "close")
  /\ Pad
  /\ grp' = [grp EXCEPT !.Ibytes = NextByte - grp.Obytes]
  /\ UNCHANGED <<group, slave, dir, locals, overlapped, FMMU, wkcs>>

-----------------------------------------------------------------------------
(***************************************************************************)
(* ecx_config_overlap_map_group: slave by slave, its outputs and then its  *)
(* inputs from the same address on.                                        *)
(***************************************************************************)
SkipOverlapped ==
  /\ overlap /\ ToMap /\ Bits = 0
  /\ Goto("slave", "account")
  /\ UNCHANGED <<group, slave, dir, pos, locals, ends, segs, FMMU, wkcs, grp>>

EndSlaveOutputs ==
  /\ overlap /\ dir = "out"
  /\ Goto("account", "slave")
  /\ soLogAddr' = NextByte
  /\ LogAddr' = oLogAddr /\ BitPos' = 0
  /\ dir' = "in"
  /\ UNCHANGED <<group, slave, locals, oLogAddr, siLogAddr, segs, FMMU, wkcs, grp>>

EndSlaveInputs ==
  /\ overlap /\ dir = "in"
  /\ Goto("account", "slave")
  /\ siLogAddr' = NextByte
  /\ LogAddr' = (IF siLogAddr' > soLogAddr THEN siLogAddr' ELSE soLogAddr) /\ BitPos' = 0
  /\ AddToSegment(LogAddr' - oLogAddr)
  /\ oLogAddr' = LogAddr'
  /\ slave' = slave + 1 /\ dir' = "out"
  /\ UNCHANGED <<group, locals, soLogAddr, FMMU, wkcs, grp>>

EndOverlapped ==
  /\ overlap /\ slave > N
  /\ Goto("slave", "close")
  /\ grp' = [Obytes |-> soLogAddr, Ibytes |-> siLogAddr, Isegment |-> 0, Ioffset |-> 0]
  /\ UNCHANGED <<group, slave, dir, pos, locals, ends, segs, FMMU, wkcs>>

-----------------------------------------------------------------------------
CloseSegment ==
  /\ Goto("close", "done")
  /\ IOsegment' = [IOsegment EXCEPT ![currentsegment] = segmentsize]
  /\ UNCHANGED <<group, slave, dir, pos, locals, ends, currentsegment,
                 segmentsize, segstart, FMMU, wkcs, grp>>

create_mappings == CallCreate \/ StartFMMU \/ JoinSM \/ PlaceFMMU \/ EndCreate

config_map_group == SkipSlave \/ AccountSlave \/ EndOutputs \/ EndInputs

config_overlap_map_group ==
  SkipOverlapped \/ EndSlaveOutputs \/ EndSlaveInputs \/ EndOverlapped

MapNext ==
  create_mappings \/ config_map_group \/ config_overlap_map_group \/ CloseSegment

MapSpec == MapInit /\ [][MapNext]_mapvars

-----------------------------------------------------------------------------
Mapped == pc = "done"
Last == currentsegment

\* The segments follow one another without a gap and cover the image, outputs
\* and inputs, unless the group has used up its segments.
SegmentsCover ==
  Mapped /\ Last < EC_MAXIOSEGMENTS - 1 =>
    /\ segstart[0] = 0
    /\ \A k \in 0 .. Last - 1 : segstart[k + 1] = segstart[k] + IOsegment[k]
    /\ segstart[Last] + IOsegment[Last] = oLogAddr
    /\ oLogAddr = IF overlap
                    THEN IF grp.Obytes > grp.Ibytes THEN grp.Obytes ELSE grp.Ibytes
                    ELSE grp.Obytes + grp.Ibytes
    /\ ~overlap => segstart[grp.Isegment] + grp.Ioffset = grp.Obytes

FirstBit(f) == 8 * f.LogStart + f.LogStartbit
LastBit(f) == 8 * (f.LogStart + f.LogLength - 1) + f.LogEndbit

\* Every FMMU has bits of its own: no two of one direction overlap, and
\* outputs lie below grp.Obytes and inputs above it unless they are meant to
\* overlap.
FMMUsDisjoint ==
  /\ \A f, g \in FMMU : f # g /\ (f.dir = g.dir \/ ~overlap)
       => LastBit(f) < FirstBit(g) \/ LastBit(g) < FirstBit(f)
  /\ Mapped /\ ~overlap =>
       \A f \in FMMU : IF f.dir = "out" THEN LastBit(f) < 8 * grp.Obytes
                       ELSE FirstBit(f) >= 8 * grp.Obytes

\* The bytes of FMMU f are in segment k.
InSegment(f, k) ==
  /\ 8 * segstart[k] <= FirstBit(f)
  /\ LastBit(f) < 8 * (segstart[k] + IOsegment[k])

ByteOriented(f) == slavelist[f.slave][f.dir].bits > 7

\* A byte-oriented slave, or any in an overlapping map, has all FMMUs of one
\* direction in one datagram, so that it counts once in the working counter.
BytesInOneDatagram ==
  Mapped /\ Last < EC_MAXIOSEGMENTS - 1 =>
    \A s \in 1 .. N, d \in Dirs : \E k \in 0 .. Last :
      \A f \in FMMU : f.slave = s /\ f.dir = d /\ (overlap \/ ByteOriented(f))
                        => InSegment(f, k)

Physical(f) == f.PhysStart .. f.PhysStart + f.LogLength - 1
SMBytes(m) == m.start .. m.start + m.len - 1

After(m) == m.start + m.len

\* SMs 1 to p connect and so do those after p, which begin further on.
Connected(sms, p) ==
  /\ \A i, j \in 1 .. Len(sms) : i < j => After(sms[i]) <= sms[j].start
  /\ \A i \in 1 .. Len(sms) - 1 :
       IF i = p THEN After(sms[i]) < sms[i + 1].start ELSE sms[i + 1].start = After(sms[i])

Extent(sms, from, to) == After(sms[to]) - sms[from].start

\* The bytes of process data are those of the SMs.
Filled(sms, p, bits) ==
  Rounded(bits) =
    IF p < Len(sms) THEN Extent(sms, 1, p) + Extent(sms, p + 1, Len(sms))
    ELSE Extent(sms, 1, p)

\* What MapsItsSMs needs of the SMs: whole bytes of process data, and one gap at
\* most.  After a second one ByteCount, which is never reset, makes an FMMU too long.
OneGap ==
  \A g \in Groups : \A s \in 1 .. Len(g.slaves), d \in Dirs :
    LET area == g.slaves[s][d] IN
    area.bits > 7 =>
      \E p \in 1 .. Len(area.sms) : Connected(area.sms, p) /\ Filled(area.sms, p, area.bits)

\* The FMMUs of a byte-oriented slave map the bytes of its SMs and no others
\* ("if addresses from more SM connect use one FMMU otherwise break up in
\* multiple FMMU").
MapsItsSMs ==
  Mapped =>
    \A s \in 1 .. N, d \in Dirs :
      LET sms == slavelist[s][d].sms
          covered == UNION {SMBytes(sms[i]) : i \in 1 .. Len(sms)} IN
        slavelist[s][d].bits > 7 =>
          UNION {Physical(f) : f \in {g \in FMMU : g.slave = s /\ g.dir = d}} = covered
=============================================================================
