-------------------------- MODULE ProcessDataProofs --------------------------
(***************************************************************************)
(* Proofs about the map and the exchange of process data.                  *)
(*                                                                         *)
(* First IOMap, for all lists of slaves, SMs and segment limits; then      *)
(* ProcessData, for all groups of slaves whose SMs connect but for one     *)
(* gap, and any number of exchanges.                                       *)
(***************************************************************************)
EXTENDS ProcessData, FiniteSetTheorems, SequenceTheorems, WellFoundedInduction, TLAPS

USE DEF group, at, pos, run, locals, overlapped, ends, segs, wkcs, mapvars, Goto

-----------------------------------------------------------------------------
(***************************************************************************)
(* The inductive invariant.                                                *)
(***************************************************************************)
\* The loops work on slaves of the list that have bits to map.
Walk ==
  /\ pc \in {"fmmu", "join", "place", "account"} => slave <= N
  /\ pc \in {"fmmu", "join", "place"} => Bits > 0
  /\ pc \in {"join", "place"} => FMMUdone < Rounded(Bits)
  /\ SMc > 0
  /\ overlap /\ dir = "in" => slave <= N

\* What is accounted for trails the next free bit, and catches up between slaves.
Position ==
  /\ oLogAddr <= LogAddr
  /\ pc \in {"slave", "close", "done"} => oLogAddr = LogAddr
  /\ overlap /\ pc = "slave" => BitPos = 0
  /\ overlap /\ pc = "slave" /\ dir = "out" =>
       oLogAddr = IF siLogAddr > soLogAddr THEN siLogAddr ELSE soLogAddr
  /\ ~overlap /\ dir = "in" => grp.Obytes <= oLogAddr

SegmentTypes ==
  /\ IOsegment \in [Segments -> Nat] /\ segstart \in [Segments -> Nat]
  /\ currentsegment \in Segments /\ segmentsize \in Nat

\* Closed segments follow one another; the open one ends where the account ends.
Chained ==
  /\ segstart[0] = 0
  /\ \A k \in 0 .. currentsegment - 1 : segstart[k + 1] = segstart[k] + IOsegment[k]
  /\ currentsegment < EC_MAXIOSEGMENTS - 1 => segstart[currentsegment] + segmentsize = oLogAddr

InputStart ==
  ~overlap /\ dir = "in" =>
    /\ grp.Isegment <= currentsegment
    /\ currentsegment < EC_MAXIOSEGMENTS - 1 =>
         segstart[grp.Isegment] + grp.Ioffset = grp.Obytes

Closed ==
  /\ pc \in {"close", "done"} =>
       /\ oLogAddr = IF overlap THEN IF grp.Obytes > grp.Ibytes THEN grp.Obytes ELSE grp.Ibytes
                     ELSE grp.Obytes + grp.Ibytes
       /\ ~overlap => dir = "in"
  /\ pc = "done" => IOsegment[currentsegment] = segmentsize

SegmentInv == Chained /\ InputStart /\ Closed

\* FMMUs lie below the next free bit of their direction (of both, unless they overlap).
Below(bit, d) == \A f \in FMMU : f.dir \in d => LastBit(f) < bit

Disjoint(fmmus) ==
  \A f, g \in fmmus : f # g /\ (f.dir = g.dir \/ ~overlap)
    => LastBit(f) < FirstBit(g) \/ LastBit(g) < FirstBit(f)

Placed ==
  /\ Disjoint(FMMU)
  /\ Below(8 * LogAddr + BitPos, IF overlap THEN {dir} ELSE Dirs)
  /\ overlap /\ dir = "in" => Below(8 * soLogAddr, {"out"})
  /\ overlap /\ dir = "out" => Below(8 * oLogAddr, {"in"})
  /\ ~overlap /\ dir = "out" => \A f \in FMMU : f.dir = "out"
  /\ ~overlap /\ dir = "in" =>
       /\ Below(8 * grp.Obytes, {"out"})
       /\ \A f \in FMMU : f.dir = "in" => FirstBit(f) >= 8 * grp.Obytes

Inv == TypeOK /\ Walk /\ Position /\ SegmentInv /\ Placed

-----------------------------------------------------------------------------
(***************************************************************************)
(* The data of the slaves.                                                 *)
(***************************************************************************)
LEMMA ListTypes ==
  ASSUME TypeOK
  PROVE  slavelist \in Seq(Slaves) /\ overlap \in BOOLEAN /\ N \in Nat
<1> DEFINE g == [slaves |-> slavelist, overlap |-> overlap, blockLRW |-> blockLRW]
<1>1. g \in [slaves : Seq(Slaves), overlap : BOOLEAN, blockLRW : BOOLEAN]
  BY GroupAssumption DEF TypeOK
<1>2. g.slaves \in Seq(Slaves) /\ g.overlap \in BOOLEAN
  BY <1>1
<1>3. slavelist \in Seq(Slaves) /\ overlap \in BOOLEAN
  BY <1>2
<1>4. QED BY <1>3 DEF N

LEMMA SlaveTypes ==
  ASSUME TypeOK, slave <= N
  PROVE  Bits \in Nat /\ SMs \in Seq(SyncManagers)
<1>1. slavelist[slave] \in Slaves
  BY ListTypes DEF TypeOK, N
<1>2. slavelist[slave][dir] \in [bits : Nat, sms : Seq(SyncManagers)]
  BY <1>1 DEF TypeOK, Slaves
<1>3. QED BY <1>2 DEF Bits, SMs

LEMMA RoundedTypes ==
  ASSUME NEW b \in Nat
  PROVE  Rounded(b) \in Nat
BY DEF Rounded

LEMMA SyncManagerTypes ==
  ASSUME TypeOK, slave <= N, NEW n \in 1 .. Len(SMs)
  PROVE  SMs[n].start \in Nat /\ SMs[n].len \in Nat
<1>1. SMs[n] \in SyncManagers
  BY SlaveTypes
<1>2. QED BY <1>1 DEF SyncManagers

-----------------------------------------------------------------------------
(***************************************************************************)
(* Bytes added to the open segment.                                        *)
(***************************************************************************)
LEMMA AddToSegmentKeeps ==
  ASSUME SegmentTypes, Chained, oLogAddr \in Nat,
         NEW d \in Nat, oLogAddr' = oLogAddr + d, AddToSegment(d)
  PROVE  /\ SegmentTypes' /\ Chained'
         /\ currentsegment <= currentsegment'
         /\ \A k \in 0 .. currentsegment : segstart'[k] = segstart[k]
<1> USE SegmentAssumption DEF Segments, SegmentTypes
<1>1. CASE segmentsize + d > MaxSegment /\ currentsegment < EC_MAXIOSEGMENTS - 1
  <2>1. /\ IOsegment' = [IOsegment EXCEPT ![currentsegment] = segmentsize]
        /\ currentsegment' = currentsegment + 1 /\ segmentsize' = d
        /\ segstart' = [segstart EXCEPT ![currentsegment + 1] =
                          segstart[currentsegment] + segmentsize]
    BY <1>1 DEF AddToSegment
  <2>2. SegmentTypes'
    BY <2>1, <1>1
  <2>3. \A k \in 0 .. currentsegment : segstart'[k] = segstart[k]
    BY <2>1
  <2>4. \A k \in 0 .. currentsegment - 1 : IOsegment'[k] = IOsegment[k]
    BY <2>1
  <2>5. /\ IOsegment'[currentsegment] = segmentsize
        /\ segstart'[currentsegment + 1] = segstart[currentsegment] + segmentsize
    BY <2>1, <1>1
  <2>6. \A k \in 0 .. currentsegment' - 1 : segstart'[k + 1] = segstart'[k] + IOsegment'[k]
    <3> SUFFICES ASSUME NEW k \in 0 .. currentsegment' - 1
                 PROVE  segstart'[k + 1] = segstart'[k] + IOsegment'[k]
      OBVIOUS
    <3>1. CASE k = currentsegment
      BY <3>1, <2>3, <2>5
    <3>2. CASE k < currentsegment
      BY <3>2, <2>3, <2>4, <2>1 DEF Chained
    <3>3. QED BY <3>1, <3>2, <2>1
  <2>7. segstart'[currentsegment'] + segmentsize' = oLogAddr'
    BY <2>1, <2>5, <1>1 DEF Chained
  <2>8. segstart'[0] = 0
    BY <2>3 DEF Chained
  <2>9. Chained'
    BY <2>6, <2>7, <2>8 DEF Chained
  <2>10. currentsegment <= currentsegment'
    BY <2>1
  <2>11. QED BY <2>2, <2>3, <2>9, <2>10
<1>2. CASE segmentsize + d > MaxSegment /\ ~(currentsegment < EC_MAXIOSEGMENTS - 1)
  <2>1. /\ IOsegment' = [IOsegment EXCEPT ![currentsegment] = segmentsize]
        /\ UNCHANGED <<currentsegment, segmentsize, segstart>>
    BY <1>2 DEF AddToSegment
  <2>2. QED BY <2>1, <1>2 DEF Chained
<1>3. CASE ~(segmentsize + d > MaxSegment)
  <2>1. segmentsize' = segmentsize + d /\ UNCHANGED <<IOsegment, currentsegment, segstart>>
    BY <1>3 DEF AddToSegment
  <2>2. segstart[currentsegment] \in Nat
    OBVIOUS
  <2>3. currentsegment < EC_MAXIOSEGMENTS - 1
          => segstart[currentsegment] + (segmentsize + d) = oLogAddr + d
    <3> DEFINE start == segstart[currentsegment]
    <3>1. start \in Nat /\ segmentsize \in Nat
      BY <2>2
    <3>2. currentsegment < EC_MAXIOSEGMENTS - 1 => start + segmentsize = oLogAddr
      BY DEF Chained
    <3> HIDE DEF start
    <3>3. start + segmentsize = oLogAddr => start + (segmentsize + d) = oLogAddr + d
      BY <3>1
    <3>4. currentsegment < EC_MAXIOSEGMENTS - 1 => start + (segmentsize + d) = oLogAddr + d
      BY <3>2, <3>3, Zenon
    <3>5. QED BY <3>4 DEF start
  <2>4. SegmentTypes'
    BY <2>1
  <2>5. QED BY <2>1, <2>3, <2>4 DEF Chained
<1>4. QED BY <1>1, <1>2, <1>3

LEMMA PadKeeps ==
  ASSUME SegmentTypes, Chained, LogAddr \in Nat, BitPos \in 0 .. 7, oLogAddr = LogAddr, Pad
  PROVE  /\ SegmentTypes' /\ Chained'
         /\ currentsegment <= currentsegment'
         /\ \A k \in 0 .. currentsegment : segstart'[k] = segstart[k]
<1>1. CASE BitPos > 0
  <2>1. AddToSegment(1) /\ oLogAddr' = oLogAddr + 1
    BY <1>1 DEF Pad, NextByte
  <2>2. QED BY <2>1, AddToSegmentKeeps
<1>2. CASE BitPos = 0
  <2>1. UNCHANGED segs /\ oLogAddr' = oLogAddr
    BY <1>2 DEF Pad, NextByte
  <2>2. QED BY <2>1 DEF SegmentTypes, Chained, Segments
<1>3. QED BY <1>1, <1>2

-----------------------------------------------------------------------------
(***************************************************************************)
(* Creating the mappings of a slave.                                       *)
(***************************************************************************)
\* Nothing that SegmentInv speaks of changes while FMMUs are created.
LEMMA SegmentFrame ==
  ASSUME SegmentInv, UNCHANGED <<group, dir, ends, segs, grp>>,
         pc' \in {"fmmu", "join", "place", "account"}
  PROVE  SegmentInv'
BY DEF SegmentInv, Chained, InputStart, Closed

LEMMA PlacedFrame ==
  ASSUME Placed, UNCHANGED <<group, dir, pos, ends, FMMU, grp>>
  PROVE  Placed'
BY DEF Placed, Below, Disjoint, FirstBit, LastBit

LEMMA CallCreateKeeps == Inv /\ CallCreate => Inv'
<1> SUFFICES ASSUME Inv, CallCreate PROVE Inv'
  OBVIOUS
<1> USE DEF CallCreate, ToMap
<1>1. TypeOK'
  BY DEF Inv, TypeOK, Steps
<1>2. Walk'
  BY DEF Inv, Walk, Bits, N
<1>3. Position'
  BY DEF Inv, Position
<1>4. SegmentInv'
  BY SegmentFrame DEF Inv
<1>5. Placed'
  BY PlacedFrame DEF Inv
<1>6. QED BY <1>1, <1>2, <1>3, <1>4, <1>5 DEF Inv

LEMMA TakeSMTypes ==
  ASSUME TypeOK, slave <= N, NEW n \in 1 .. Len(SMs), TakeSM(n)
  PROVE  SMc' \in Nat /\ SMc' > 0 /\ EndAddr' \in Nat /\ ByteCount' \in Nat /\ BitCount' \in Nat
<1>1. SMs[n].start \in Nat /\ SMs[n].len \in Nat
  BY SyncManagerTypes
<1>2. n \in Nat /\ n > 0
  BY SlaveTypes
<1>3. ByteCount \in Nat /\ BitCount \in Nat
  BY DEF TypeOK
<1> DEFINE start == SMs[n].start
           len == SMs[n].len
<1>4. /\ SMc' = n /\ EndAddr' = start + len
      /\ ByteCount' = ByteCount + len /\ BitCount' = BitCount + 8 * len
  BY DEF TakeSM
<1>5. start \in Nat /\ len \in Nat
  BY <1>1
<1> HIDE DEF start, len
<1>6. start + len \in Nat /\ ByteCount + len \in Nat /\ BitCount + 8 * len \in Nat
  BY <1>3, <1>5
<1>7. QED BY <1>2, <1>4, <1>6

LEMMA StartFMMUKeeps == Inv /\ StartFMMU => Inv'
<1> SUFFICES ASSUME Inv, StartFMMU PROVE Inv'
  OBVIOUS
<1>1. slave <= N /\ SMc > 0 /\ SMc \in Nat /\ Len(SMs) \in Nat
  BY SlaveTypes DEF Inv, Walk, StartFMMU, TypeOK
<1>2. SMc \in 1 .. Len(SMs)
  BY <1>1 DEF StartFMMU
<1>3. PhysStart' \in Nat
  BY <1>1, <1>2, SyncManagerTypes DEF StartFMMU, Inv
<1>4. SMc' \in Nat /\ SMc' > 0 /\ EndAddr' \in Nat /\ ByteCount' \in Nat /\ BitCount' \in Nat
  BY <1>1, <1>2, TakeSMTypes DEF StartFMMU, Inv
<1>5. TypeOK'
  BY <1>3, <1>4 DEF StartFMMU, Inv, TypeOK, Steps
<1>6. Walk'
  BY <1>4 DEF StartFMMU, Inv, Walk, Bits, N
<1>7. Position'
  BY DEF StartFMMU, Inv, Position
<1>8. SegmentInv'
  BY SegmentFrame DEF StartFMMU, Inv
<1>9. Placed'
  BY PlacedFrame DEF StartFMMU, Inv
<1>10. QED BY <1>5, <1>6, <1>7, <1>8, <1>9 DEF Inv

LEMMA JoinSMKeeps == Inv /\ JoinSM => Inv'
<1> SUFFICES ASSUME Inv, JoinSM PROVE Inv'
  OBVIOUS
<1>1. slave <= N /\ SMc > 0 /\ SMc \in Nat /\ Len(SMs) \in Nat
  BY SlaveTypes DEF Inv, Walk, JoinSM, TypeOK
<1>2. ASSUME SMc < Len(SMs), TakeSM(SMc + 1)
      PROVE  SMc' \in Nat /\ SMc' > 0 /\ EndAddr' \in Nat /\ ByteCount' \in Nat /\ BitCount' \in Nat
  BY <1>1, <1>2, TakeSMTypes DEF Inv
<1>3. SMc' \in Nat /\ SMc' > 0 /\ EndAddr' \in Nat /\ ByteCount' \in Nat /\ BitCount' \in Nat
  <2>1. CASE SMc < Len(SMs) /\ TakeSM(SMc + 1)
    BY <2>1, <1>2
  <2>2. CASE UNCHANGED <<EndAddr, ByteCount, BitCount>> /\ SMc' \in {SMc, SMc + 1}
    <3>1. EndAddr \in Nat /\ ByteCount \in Nat /\ BitCount \in Nat
      BY DEF Inv, TypeOK
    <3>2. QED BY <2>2, <3>1, <1>1
  <2>3. QED BY <2>1, <2>2 DEF JoinSM
<1>4. pc' \in {"join", "place"}
  BY DEF JoinSM
<1>5. TypeOK'
  BY <1>3, <1>4 DEF JoinSM, Inv, TypeOK, Steps
<1>6. Walk'
  BY <1>3, <1>4 DEF JoinSM, Inv, Walk, Bits, N
<1>7. Position'
  BY <1>4 DEF JoinSM, Inv, Position
<1>8. SegmentInv'
  BY <1>4, SegmentFrame DEF JoinSM, Inv
<1>9. Placed'
  BY PlacedFrame DEF JoinSM, Inv
<1>10. QED BY <1>5, <1>6, <1>7, <1>8, <1>9 DEF Inv

LEMMA EndCreateKeeps == Inv /\ EndCreate => Inv'
<1> SUFFICES ASSUME Inv, EndCreate PROVE Inv'
  OBVIOUS
<1>1. outputsWKC' \in Nat /\ inputsWKC' \in Nat
  BY DEF EndCreate, Inv, TypeOK
<1>2. TypeOK'
  BY <1>1 DEF EndCreate, Inv, TypeOK, Steps
<1>3. Walk'
  BY DEF EndCreate, Inv, Walk, N
<1>4. Position'
  BY DEF EndCreate, Inv, Position
<1>5. SegmentInv'
  BY SegmentFrame DEF EndCreate, Inv
<1>6. Placed'
  BY PlacedFrame DEF EndCreate, Inv
<1>7. QED BY <1>2, <1>3, <1>4, <1>5, <1>6 DEF Inv

(***************************************************************************)
(* A new FMMU: it begins at the next free bit or later and ends below the  *)
(* next free bit that follows.                                             *)
(***************************************************************************)
\* The FMMU that SetFMMU adds.
Entry(start, firstbit, bytes, lastbit, programmed) ==
  [slave |-> slave, dir |-> dir, LogStart |-> start, LogStartbit |-> firstbit,
   LogLength |-> bytes, LogEndbit |-> lastbit, PhysStart |-> PhysStart,
   programmed |-> programmed]

LEMMA FMMUBitTypes ==
  ASSUME NEW f \in FMMUs
  PROVE  FirstBit(f) \in Int /\ LastBit(f) \in Int
BY DEF FMMUs, FirstBit, LastBit

LEMMA PlacedStep ==
  ASSUME Inv, UNCHANGED <<group, dir, ends, grp>>,
         LogAddr' \in Nat, BitPos' \in 0 .. 7,
         NEW f \in FMMUs, FMMU' = FMMU \cup {f}, f.dir = dir,
         FirstBit(f) >= 8 * LogAddr + BitPos,
         8 * LogAddr + BitPos <= 8 * LogAddr' + BitPos',
         LastBit(f) < 8 * LogAddr' + BitPos'
  PROVE  Placed'
<1>1. /\ overlap \in BOOLEAN /\ dir \in Dirs /\ FMMU \subseteq FMMUs
      /\ LogAddr \in Nat /\ BitPos \in 0 .. 7 /\ grp.Obytes \in Nat /\ oLogAddr \in Nat
      /\ soLogAddr \in Nat
  BY ListTypes DEF Inv, TypeOK
<1>2. \A g \in FMMU : FirstBit(g) \in Int /\ LastBit(g) \in Int /\ g.dir \in Dirs
  BY <1>1, FMMUBitTypes DEF FMMUs
<1>3. FirstBit(f) \in Int /\ LastBit(f) \in Int
  BY FMMUBitTypes
<1>4. \A g \in FMMU : g.dir = f.dir \/ ~overlap => LastBit(g) < FirstBit(f)
  <2> SUFFICES ASSUME NEW g \in FMMU, g.dir = f.dir \/ ~overlap
               PROVE  LastBit(g) < FirstBit(f)
    OBVIOUS
  <2>1. LastBit(g) < 8 * LogAddr + BitPos
    BY <1>1, <1>2 DEF Inv, Placed, Below
  <2>2. QED BY <2>1, <1>1, <1>2, <1>3
<1>5. Disjoint(FMMU)'
  <2> SUFFICES ASSUME NEW g \in FMMU', NEW h \in FMMU', g # h, g.dir = h.dir \/ ~overlap
               PROVE  LastBit(g) < FirstBit(h) \/ LastBit(h) < FirstBit(g)
    BY DEF Disjoint, FirstBit, LastBit
  <2>1. CASE g \in FMMU /\ h \in FMMU
    BY <2>1 DEF Inv, Placed, Disjoint
  <2>2. CASE g = f /\ h \in FMMU
    BY <2>2, <1>4
  <2>3. CASE g \in FMMU /\ h = f
    BY <2>3, <1>4
  <2>4. QED BY <2>1, <2>2, <2>3
<1>6. 8 * LogAddr + BitPos \in Int /\ 8 * LogAddr' + BitPos' \in Int
  BY <1>1
<1>7. Below(8 * LogAddr + BitPos, IF overlap THEN {dir} ELSE Dirs)'
  <2> SUFFICES ASSUME NEW g \in FMMU', g.dir \in (IF overlap THEN {dir} ELSE Dirs)
               PROVE  LastBit(g) < 8 * LogAddr' + BitPos'
    BY DEF Below, LastBit
  <2>1. CASE g = f
    BY <2>1
  <2>2. CASE g \in FMMU
    <3>1. LastBit(g) < 8 * LogAddr + BitPos
      BY <2>2 DEF Inv, Placed, Below
    <3>2. QED BY <3>1, <2>2, <1>2, <1>6
  <2>3. QED BY <2>1, <2>2
<1>8. overlap /\ dir = "in" => Below(8 * soLogAddr, {"out"})'
  BY DEF Inv, Placed, Below, LastBit
<1>9. overlap /\ dir = "out" => Below(8 * oLogAddr, {"in"})'
  BY DEF Inv, Placed, Below, LastBit
<1>10. ~overlap /\ dir = "out" => \A g \in FMMU' : g.dir = "out"
  BY DEF Inv, Placed
<1>11. ASSUME ~overlap, dir = "in"
       PROVE  /\ Below(8 * grp.Obytes, {"out"})'
              /\ \A g \in FMMU' : g.dir = "in" => FirstBit(g) >= 8 * grp.Obytes
  <2>1. Below(8 * grp.Obytes, {"out"})'
    BY <1>11 DEF Inv, Placed, Below, LastBit
  <2>2. grp.Obytes <= LogAddr
    BY <1>1, <1>11 DEF Inv, Position, TypeOK
  <2>3. FirstBit(f) >= 8 * grp.Obytes
    BY <2>2, <1>1, <1>3
  <2>4. QED BY <2>1, <2>3, <1>11 DEF Inv, Placed
<1>12. QED BY <1>5, <1>7, <1>8, <1>9, <1>10, <1>11 DEF Placed, FirstBit, LastBit

LEMMA PlaceBitsStep ==
  ASSUME TypeOK, slave <= N, Bits > 0, Bytes = 0, PlaceBits
  PROVE  /\ LogAddr' \in Nat /\ BitPos' \in 0 .. 7 /\ LogAddr <= LogAddr'
         /\ FMMUdone' \in Nat /\ AddToWKC' \in BOOLEAN
         /\ 8 * LogAddr + BitPos <= 8 * LogAddr' + BitPos'
         /\ \E f \in FMMUs :
              /\ FMMU' = FMMU \cup {f} /\ f.slave = slave /\ f.dir = dir
              /\ FirstBit(f) >= 8 * LogAddr + BitPos
              /\ LastBit(f) < 8 * LogAddr' + BitPos'
<1> DEFINE last == BitPos + Bits - 1
           bytes == IF last > 7 THEN 2 ELSE 1
           bit == IF last > 7 THEN last - 8 ELSE last
<1>1. Bits \in Nat /\ LogAddr \in Nat /\ BitPos \in 0 .. 7 /\ FMMUdone \in Nat /\ AddToWKC \in BOOLEAN
  BY SlaveTypes DEF TypeOK
<1>2. Bits <= 7
  BY <1>1 DEF Bytes, Rounded
<1>3. last \in 0 .. 13 /\ bytes \in Nat /\ bit \in 0 .. 7
  BY <1>1, <1>2
<1>4. 8 * (LogAddr + bytes - 1) + bit = 8 * LogAddr + last
  BY <1>1, <1>3
<1>5. /\ \E programmed \in BOOLEAN :
           FMMU' = FMMU \cup {Entry(LogAddr, BitPos, bytes, bit, programmed)}
      /\ FMMUdone' = FMMUdone + bytes /\ AddToWKC' = (AddToWKC \/ bytes > 0)
  BY DEF PlaceBits, SetFMMU, Entry
<1>6. /\ BitPos + Bits > 7 => LogAddr' = LogAddr + 1 /\ BitPos' = BitPos + Bits - 8
      /\ BitPos + Bits <= 7 => LogAddr' = LogAddr /\ BitPos' = BitPos + Bits
  BY <1>1 DEF PlaceBits
<1>7. FMMUdone' = FMMUdone + bytes /\ AddToWKC' \in BOOLEAN
  BY <1>1, <1>5
<1>8. last = BitPos + Bits - 1
  OBVIOUS
<1> HIDE DEF last, bytes, bit
<1>9. PICK f \in FMMUs : /\ FMMU' = FMMU \cup {f} /\ f.slave = slave /\ f.dir = dir
                         /\ FirstBit(f) = 8 * LogAddr + BitPos
                         /\ LastBit(f) = 8 * (LogAddr + bytes - 1) + bit
  <2>1. PICK programmed \in BOOLEAN :
          FMMU' = FMMU \cup {Entry(LogAddr, BitPos, bytes, bit, programmed)}
    BY <1>5
  <2> DEFINE g == Entry(LogAddr, BitPos, bytes, bit, programmed)
  <2>2. /\ g \in FMMUs /\ g.slave = slave /\ g.dir = dir /\ FirstBit(g) = 8 * LogAddr + BitPos
        /\ LastBit(g) = 8 * (LogAddr + bytes - 1) + bit
    BY <2>1, <1>1, <1>3 DEF FMMUs, TypeOK, Entry, FirstBit, LastBit
  <2>3. FMMU' = FMMU \cup {g}
    BY <2>1
  <2> HIDE DEF g
  <2>4. QED BY <2>2, <2>3
<1>10. LogAddr' \in Nat /\ BitPos' \in 0 .. 7 /\ LogAddr <= LogAddr' /\ FMMUdone' \in Nat
  BY <1>1, <1>2, <1>3, <1>6, <1>7
<1>11. 8 * LogAddr' + BitPos' = 8 * LogAddr + BitPos + Bits
  BY <1>1, <1>6
<1>12. 8 * LogAddr + BitPos <= 8 * LogAddr' + BitPos'
  BY <1>1, <1>11
<1>13. LastBit(f) = 8 * LogAddr + (BitPos + Bits - 1)
  BY <1>4, <1>8, <1>9
<1>14. FirstBit(f) >= 8 * LogAddr + BitPos /\ LastBit(f) < 8 * LogAddr' + BitPos'
  BY <1>1, <1>9, <1>11, <1>13
<1>15. QED BY <1>7, <1>9, <1>10, <1>12, <1>14

LEMMA NextByteTypes ==
  ASSUME LogAddr \in Nat, BitPos \in 0 .. 7
  PROVE  /\ NextByte \in Nat /\ LogAddr <= NextByte
         /\ 8 * LogAddr + BitPos <= 8 * NextByte
BY DEF NextByte

LEMMA PlaceBytesStep ==
  ASSUME TypeOK, slave <= N, Bytes # 0, FMMUdone < Rounded(Bits), PlaceBytes
  PROVE  /\ LogAddr' \in Nat /\ BitPos' \in 0 .. 7 /\ LogAddr <= LogAddr'
         /\ FMMUdone' \in Nat /\ AddToWKC' \in BOOLEAN
         /\ 8 * LogAddr + BitPos <= 8 * LogAddr' + BitPos'
         /\ \E f \in FMMUs :
              /\ FMMU' = FMMU \cup {f} /\ f.slave = slave /\ f.dir = dir
              /\ FirstBit(f) >= 8 * LogAddr + BitPos
              /\ LastBit(f) < 8 * LogAddr' + BitPos'
<1> DEFINE size == IF ByteCount + FMMUdone > Bytes THEN Bytes - FMMUdone ELSE ByteCount
<1>1. /\ Bits \in Nat /\ LogAddr \in Nat /\ BitPos \in 0 .. 7 /\ FMMUdone \in Nat
      /\ AddToWKC \in BOOLEAN /\ ByteCount \in Nat
  BY SlaveTypes DEF TypeOK
<1>2. Bytes = Rounded(Bits) /\ Bytes \in Nat
  BY <1>1, RoundedTypes DEF Bytes
<1>3. size \in Nat
  BY <1>1, <1>2
<1>4. /\ \E programmed \in BOOLEAN : FMMU' = FMMU \cup {Entry(NextByte, 0, size, 7, programmed)}
      /\ FMMUdone' = FMMUdone + size /\ AddToWKC' = (AddToWKC \/ size > 0)
      /\ LogAddr' = NextByte + size /\ BitPos' = 0
  BY DEF PlaceBytes, SetFMMU, Entry
<1>5. FMMUdone' = FMMUdone + size /\ AddToWKC' \in BOOLEAN
  BY <1>1, <1>4
<1> HIDE DEF size
<1>6. /\ NextByte \in Nat /\ LogAddr <= NextByte /\ 8 * LogAddr + BitPos <= 8 * NextByte
  BY <1>1, NextByteTypes
<1>7. PICK f \in FMMUs : /\ FMMU' = FMMU \cup {f} /\ f.slave = slave /\ f.dir = dir
                         /\ FirstBit(f) = 8 * NextByte + 0
                         /\ LastBit(f) = 8 * (NextByte + size - 1) + 7
  <2>1. 0 \in 0 .. 7 /\ 7 \in 0 .. 7
    OBVIOUS
  <2>2. PICK programmed \in BOOLEAN : FMMU' = FMMU \cup {Entry(NextByte, 0, size, 7, programmed)}
    BY <1>4
  <2> DEFINE g == Entry(NextByte, 0, size, 7, programmed)
  <2>3. /\ g \in FMMUs /\ g.slave = slave /\ g.dir = dir /\ FirstBit(g) = 8 * NextByte + 0
        /\ LastBit(g) = 8 * (NextByte + size - 1) + 7
    BY <2>1, <2>2, <1>3, <1>6 DEF FMMUs, TypeOK, Entry, FirstBit, LastBit
  <2>4. FMMU' = FMMU \cup {g}
    BY <2>2
  <2> HIDE DEF g
  <2>5. QED BY <2>3, <2>4
<1>8. LogAddr' \in Nat /\ BitPos' \in 0 .. 7 /\ LogAddr <= LogAddr' /\ FMMUdone' \in Nat
  BY <1>1, <1>3, <1>4, <1>5, <1>6
<1>9. 8 * LogAddr' + BitPos' = 8 * NextByte + 8 * size
  BY <1>3, <1>4, <1>6
<1>10. 8 * LogAddr + BitPos <= 8 * LogAddr' + BitPos'
  BY <1>1, <1>3, <1>6, <1>9
<1>11. FirstBit(f) >= 8 * LogAddr + BitPos /\ LastBit(f) < 8 * LogAddr' + BitPos'
  BY <1>1, <1>3, <1>6, <1>7, <1>9
<1>12. QED BY <1>5, <1>7, <1>8, <1>10, <1>11

LEMMA PlaceFMMUKeeps == Inv /\ PlaceFMMU => Inv'
<1> SUFFICES ASSUME Inv, PlaceFMMU PROVE Inv'
  OBVIOUS
<1>1. slave <= N /\ Bits > 0 /\ FMMUdone < Rounded(Bits) /\ TypeOK
  BY DEF Inv, Walk, PlaceFMMU
<1>2. /\ LogAddr' \in Nat /\ BitPos' \in 0 .. 7 /\ LogAddr <= LogAddr'
      /\ FMMUdone' \in Nat /\ AddToWKC' \in BOOLEAN
      /\ 8 * LogAddr + BitPos <= 8 * LogAddr' + BitPos'
      /\ \E f \in FMMUs :
           /\ FMMU' = FMMU \cup {f} /\ f.slave = slave /\ f.dir = dir
           /\ FirstBit(f) >= 8 * LogAddr + BitPos
           /\ LastBit(f) < 8 * LogAddr' + BitPos'
  <2>1. CASE Bytes = 0
    BY <2>1, <1>1, PlaceBitsStep DEF PlaceFMMU
  <2>2. CASE Bytes # 0
    BY <2>2, <1>1, PlaceBytesStep DEF PlaceFMMU
  <2>3. QED BY <2>1, <2>2
<1>3. PICK f \in FMMUs : /\ FMMU' = FMMU \cup {f} /\ f.slave = slave /\ f.dir = dir
                         /\ FirstBit(f) >= 8 * LogAddr + BitPos
                         /\ LastBit(f) < 8 * LogAddr' + BitPos'
  BY <1>2
<1>4. FMMU' \subseteq FMMUs
  BY <1>1, <1>3 DEF TypeOK
<1>5. TypeOK'
  BY <1>1, <1>2, <1>4 DEF PlaceFMMU, TypeOK, Steps
<1>6. Walk'
  BY <1>1 DEF PlaceFMMU, Inv, Walk, Bits, N
<1>7. Position'
  <2>1. oLogAddr <= LogAddr'
    BY <1>1, <1>2 DEF Inv, Position, TypeOK
  <2>2. QED BY <2>1 DEF PlaceFMMU, Inv, Position
<1>8. SegmentInv'
  BY SegmentFrame DEF PlaceFMMU, Inv
<1>9. Placed'
  BY <1>2, <1>3, PlacedStep DEF PlaceFMMU
<1>10. QED BY <1>5, <1>6, <1>7, <1>8, <1>9 DEF Inv

-----------------------------------------------------------------------------
(***************************************************************************)
(* ecx_config_map_group.                                                   *)
(***************************************************************************)
LEMMA SegmentTyped == TypeOK => SegmentTypes
BY DEF TypeOK, SegmentTypes

LEMMA InputStartFrame ==
  ASSUME InputStart, TypeOK, SegmentTypes', currentsegment <= currentsegment',
         \A k \in 0 .. currentsegment : segstart'[k] = segstart[k],
         UNCHANGED <<overlap, dir>>, grp'.Isegment = grp.Isegment,
         grp'.Ioffset = grp.Ioffset, grp'.Obytes = grp.Obytes
  PROVE  InputStart'
<1> SUFFICES ASSUME ~overlap, dir = "in"
             PROVE  /\ grp'.Isegment <= currentsegment'
                    /\ currentsegment' < EC_MAXIOSEGMENTS - 1 =>
                         segstart'[grp'.Isegment] + grp'.Ioffset = grp'.Obytes
  BY DEF InputStart
<1>1. /\ grp.Isegment \in Nat /\ currentsegment \in Nat /\ currentsegment' \in Nat
      /\ EC_MAXIOSEGMENTS \in Nat
  BY SegmentAssumption DEF TypeOK, SegmentTypes, Segments
<1>2. grp.Isegment <= currentsegment
  BY DEF InputStart
<1>3. segstart'[grp.Isegment] = segstart[grp.Isegment]
  BY <1>1, <1>2
<1>4. ASSUME currentsegment' < EC_MAXIOSEGMENTS - 1
      PROVE  segstart[grp.Isegment] + grp.Ioffset = grp.Obytes
  BY <1>1, <1>4 DEF InputStart
<1>5. QED BY <1>1, <1>2, <1>3, <1>4

LEMMA SkipSlaveKeeps == Inv /\ SkipSlave => Inv'
<1> SUFFICES ASSUME Inv, SkipSlave PROVE Inv'
  OBVIOUS
<1> USE DEF SkipSlave, ToMap
<1>1. TypeOK'
  BY DEF Inv, TypeOK
<1>2. Walk'
  BY DEF Inv, Walk
<1>3. Position'
  BY DEF Inv, Position
<1>4. SegmentInv'
  BY DEF Inv, SegmentInv, Chained, InputStart, Closed
<1>5. Placed'
  BY PlacedFrame DEF Inv
<1>6. QED BY <1>1, <1>2, <1>3, <1>4, <1>5 DEF Inv

LEMMA AccountSlaveKeeps == Inv /\ AccountSlave => Inv'
<1> SUFFICES ASSUME Inv, AccountSlave PROVE Inv'
  OBVIOUS
<1> DEFINE d == LogAddr - oLogAddr
<1>1. d \in Nat /\ oLogAddr' = oLogAddr + d /\ oLogAddr \in Nat /\ LogAddr \in Nat
  BY DEF Inv, Position, TypeOK, AccountSlave
<1>2. AddToSegment(d) /\ SegmentTypes /\ Chained
  BY SegmentTyped DEF AccountSlave, Inv, SegmentInv
<1> HIDE DEF d
<1>3. /\ SegmentTypes' /\ Chained' /\ currentsegment <= currentsegment'
      /\ \A k \in 0 .. currentsegment : segstart'[k] = segstart[k]
  BY <1>1, <1>2, AddToSegmentKeeps
<1>4. TypeOK'
  BY <1>1, <1>3 DEF AccountSlave, Inv, TypeOK, SegmentTypes, Steps
<1>5. Walk'
  BY DEF AccountSlave, Inv, Walk
<1>6. Position'
  BY <1>1 DEF AccountSlave, Inv, Position, TypeOK
<1>7. InputStart'
  BY <1>3, InputStartFrame DEF AccountSlave, Inv, SegmentInv
<1>8. Closed'
  BY DEF AccountSlave, Closed
<1>9. Placed'
  BY DEF AccountSlave, Inv, Placed, Below, Disjoint, FirstBit, LastBit
<1>10. QED BY <1>3, <1>4, <1>5, <1>6, <1>7, <1>8, <1>9 DEF Inv, SegmentInv

LEMMA PadTypes ==
  ASSUME LogAddr \in Nat, BitPos \in 0 .. 7, Pad
  PROVE  /\ LogAddr' \in Nat /\ BitPos' = 0 /\ oLogAddr' = LogAddr'
         /\ LogAddr' = NextByte /\ LogAddr <= LogAddr'
         /\ 8 * LogAddr + BitPos <= 8 * LogAddr'
BY NextByteTypes DEF Pad

LEMMA EndOutputsKeeps == Inv /\ EndOutputs => Inv'
<1> SUFFICES ASSUME Inv, EndOutputs PROVE Inv'
  OBVIOUS
<1>1. Pad /\ LogAddr \in Nat /\ BitPos \in 0 .. 7 /\ oLogAddr = LogAddr
  BY DEF EndOutputs, Inv, TypeOK, Position
<1>2. /\ SegmentTypes' /\ Chained' /\ currentsegment <= currentsegment'
      /\ \A k \in 0 .. currentsegment : segstart'[k] = segstart[k]
  BY <1>1, PadKeeps, SegmentTyped DEF Inv, SegmentInv
<1>3. /\ LogAddr' \in Nat /\ BitPos' = 0 /\ oLogAddr' = LogAddr' /\ LogAddr' = NextByte
      /\ LogAddr <= LogAddr' /\ 8 * LogAddr + BitPos <= 8 * LogAddr'
  BY <1>1, PadTypes
<1>4. grp' \in [Obytes : Nat, Ibytes : Nat, Isegment : Segments, Ioffset : Nat]
  BY <1>2, <1>3 DEF EndOutputs, Inv, TypeOK, SegmentTypes
<1>5. /\ grp'.Obytes = LogAddr' /\ grp'.Isegment = currentsegment'
      /\ grp'.Ioffset = segmentsize'
  BY <1>3 DEF EndOutputs, Inv, TypeOK
<1>6. TypeOK'
  BY <1>2, <1>3, <1>4 DEF EndOutputs, Inv, TypeOK, SegmentTypes, Dirs
<1>7. Walk'
  BY DEF EndOutputs, Inv, Walk
<1>8. Position'
  BY <1>3, <1>5 DEF EndOutputs, Inv, Position
<1>9. InputStart'
  <2>1. segstart'[currentsegment'] + segmentsize' = oLogAddr' \/ ~(currentsegment' < EC_MAXIOSEGMENTS - 1)
    BY <1>2 DEF Chained
  <2>2. currentsegment' <= currentsegment'
    BY <1>2 DEF SegmentTypes, Segments
  <2>3. QED BY <2>1, <2>2, <1>3, <1>5 DEF InputStart
<1>10. Closed'
  BY DEF EndOutputs, Closed
<1>11. Placed'
  <2>1. /\ ~overlap /\ ~overlap' /\ dir = "out" /\ dir' = "in" /\ FMMU' = FMMU
        /\ FMMU \subseteq FMMUs
    BY DEF EndOutputs, Inv, TypeOK
  <2>2. \A f \in FMMU : f.dir = "out" /\ LastBit(f) < 8 * LogAddr'
    <3> SUFFICES ASSUME NEW f \in FMMU PROVE f.dir = "out" /\ LastBit(f) < 8 * LogAddr'
      OBVIOUS
    <3>1. f.dir = "out" /\ LastBit(f) < 8 * LogAddr + BitPos
      BY <2>1 DEF Inv, Placed, Below, Dirs
    <3>2. LastBit(f) \in Int /\ 8 * LogAddr + BitPos \in Int
      BY <2>1, <1>1, FMMUBitTypes
    <3>3. QED BY <3>1, <3>2, <1>3
  <2>3. Below(8 * LogAddr + BitPos, Dirs)'
    BY <2>1, <2>2, <1>3 DEF Below, LastBit
  <2>4. Below(8 * grp.Obytes, {"out"})'
    BY <2>1, <2>2, <1>5 DEF Below, LastBit
  <2>5. Disjoint(FMMU)'
    BY <2>1 DEF Inv, Placed, Disjoint, FirstBit, LastBit
  <2>6. \A f \in FMMU' : f.dir # "in"
    BY <2>1, <2>2
  <2>7. QED BY <2>1, <2>3, <2>4, <2>5, <2>6 DEF Placed
<1>12. QED BY <1>2, <1>6, <1>7, <1>8, <1>9, <1>10, <1>11 DEF Inv, SegmentInv

LEMMA EndInputsKeeps == Inv /\ EndInputs => Inv'
<1> SUFFICES ASSUME Inv, EndInputs PROVE Inv'
  OBVIOUS
<1>1. /\ Pad /\ LogAddr \in Nat /\ BitPos \in 0 .. 7 /\ oLogAddr = LogAddr
      /\ grp.Obytes \in Nat /\ grp.Obytes <= LogAddr
  BY DEF EndInputs, Inv, TypeOK, Position
<1>2. /\ SegmentTypes' /\ Chained' /\ currentsegment <= currentsegment'
      /\ \A k \in 0 .. currentsegment : segstart'[k] = segstart[k]
  BY <1>1, PadKeeps, SegmentTyped DEF Inv, SegmentInv
<1>3. /\ LogAddr' \in Nat /\ BitPos' = 0 /\ oLogAddr' = LogAddr' /\ LogAddr' = NextByte
      /\ LogAddr <= LogAddr' /\ 8 * LogAddr + BitPos <= 8 * LogAddr'
  BY <1>1, PadTypes
<1>4. /\ grp'.Obytes = grp.Obytes /\ grp'.Ibytes = LogAddr' - grp.Obytes
      /\ grp'.Isegment = grp.Isegment /\ grp'.Ioffset = grp.Ioffset
  BY <1>3 DEF EndInputs, Inv, TypeOK
<1>5. LogAddr' - grp.Obytes \in Nat
  BY <1>1, <1>3
<1>6. grp' \in [Obytes : Nat, Ibytes : Nat, Isegment : Segments, Ioffset : Nat]
  BY <1>3, <1>5 DEF EndInputs, Inv, TypeOK
<1>7. TypeOK'
  BY <1>2, <1>3, <1>6 DEF EndInputs, Inv, TypeOK, SegmentTypes, Steps
<1>8. Walk'
  BY DEF EndInputs, Inv, Walk
<1>9. Position'
  BY <1>1, <1>3, <1>4 DEF EndInputs, Inv, Position
<1>10. InputStart'
  BY <1>2, <1>4, InputStartFrame DEF EndInputs, Inv, SegmentInv
<1>11. Closed'
  <2>1. oLogAddr' = grp'.Obytes + grp'.Ibytes
    BY <1>1, <1>3, <1>4
  <2>2. QED BY <2>1 DEF EndInputs, Closed
<1>12. Placed'
  <2>1. /\ ~overlap /\ ~overlap' /\ dir = "in" /\ dir' = "in" /\ FMMU' = FMMU
        /\ FMMU \subseteq FMMUs
    BY DEF EndInputs, Inv, TypeOK
  <2>2. \A f \in FMMU : LastBit(f) < 8 * LogAddr'
    <3> SUFFICES ASSUME NEW f \in FMMU PROVE LastBit(f) < 8 * LogAddr'
      OBVIOUS
    <3>1. f.dir \in Dirs
      BY <2>1 DEF FMMUs
    <3>2. LastBit(f) < 8 * LogAddr + BitPos
      BY <2>1, <3>1 DEF Inv, Placed, Below
    <3>3. LastBit(f) \in Int /\ 8 * LogAddr + BitPos \in Int
      BY <2>1, <1>1, FMMUBitTypes
    <3>4. QED BY <3>2, <3>3, <1>3
  <2>3. Below(8 * LogAddr + BitPos, Dirs)'
    BY <2>1, <2>2, <1>3 DEF Below, LastBit
  <2>4. Disjoint(FMMU)'
    BY <2>1 DEF Inv, Placed, Disjoint, FirstBit, LastBit
  <2>5. /\ Below(8 * grp.Obytes, {"out"})'
        /\ \A f \in FMMU' : f.dir = "in" => FirstBit(f) >= 8 * grp'.Obytes
    BY <2>1, <1>4 DEF Inv, Placed, Below, FirstBit, LastBit
  <2>6. QED BY <2>1, <2>3, <2>4, <2>5 DEF Placed, FirstBit
<1>13. QED BY <1>2, <1>7, <1>8, <1>9, <1>10, <1>11, <1>12 DEF Inv, SegmentInv

-----------------------------------------------------------------------------
(***************************************************************************)
(* ecx_config_overlap_map_group.                                           *)
(***************************************************************************)
LEMMA SkipOverlappedKeeps == Inv /\ SkipOverlapped => Inv'
<1> SUFFICES ASSUME Inv, SkipOverlapped PROVE Inv'
  OBVIOUS
<1> USE DEF SkipOverlapped, ToMap
<1>1. TypeOK'
  BY DEF Inv, TypeOK, Steps
<1>2. Walk'
  BY DEF Inv, Walk, N
<1>3. Position'
  BY DEF Inv, Position
<1>4. SegmentInv'
  BY SegmentFrame DEF Inv
<1>5. Placed'
  BY PlacedFrame DEF Inv
<1>6. QED BY <1>1, <1>2, <1>3, <1>4, <1>5 DEF Inv

LEMMA EndSlaveOutputsKeeps == Inv /\ EndSlaveOutputs => Inv'
<1> SUFFICES ASSUME Inv, EndSlaveOutputs PROVE Inv'
  OBVIOUS
<1>1. /\ LogAddr \in Nat /\ BitPos \in 0 .. 7 /\ oLogAddr \in Nat
      /\ NextByte \in Nat /\ 8 * LogAddr + BitPos <= 8 * NextByte
  BY NextByteTypes DEF Inv, TypeOK
<1>2. TypeOK'
  BY <1>1 DEF EndSlaveOutputs, Inv, TypeOK, Steps, Dirs
<1>3. Walk'
  BY DEF EndSlaveOutputs, Inv, Walk, N
<1>4. Position'
  BY <1>1 DEF EndSlaveOutputs, Inv, Position
<1>5. SegmentInv'
  BY DEF EndSlaveOutputs, Inv, SegmentInv, Chained, InputStart, Closed
<1>6. Placed'
  <2>1. /\ overlap /\ overlap' /\ dir = "out" /\ dir' = "in" /\ FMMU' = FMMU
        /\ FMMU \subseteq FMMUs
        /\ LogAddr' = oLogAddr /\ BitPos' = 0 /\ soLogAddr' = NextByte
    BY DEF EndSlaveOutputs, Inv, TypeOK
  <2>2. Below(8 * LogAddr + BitPos, {"in"})'
    <3>1. 8 * LogAddr' + BitPos' = 8 * oLogAddr
      BY <2>1, <1>1
    <3>2. QED BY <2>1, <3>1 DEF Inv, Placed, Below, LastBit
  <2>3. Below(8 * soLogAddr, {"out"})'
    <3> SUFFICES ASSUME NEW f \in FMMU, f.dir = "out"
                 PROVE  LastBit(f) < 8 * NextByte
      BY <2>1 DEF Below, LastBit
    <3>1. LastBit(f) < 8 * LogAddr + BitPos
      BY <2>1 DEF Inv, Placed, Below
    <3>2. LastBit(f) \in Int /\ 8 * LogAddr + BitPos \in Int
      BY <2>1, <1>1, FMMUBitTypes
    <3>3. QED BY <3>1, <3>2, <1>1
  <2>4. Disjoint(FMMU)'
    BY <2>1 DEF Inv, Placed, Disjoint, FirstBit, LastBit
  <2>5. QED BY <2>1, <2>2, <2>3, <2>4 DEF Placed
<1>7. QED BY <1>2, <1>3, <1>4, <1>5, <1>6 DEF Inv

LEMMA EndSlaveInputsKeeps == Inv /\ EndSlaveInputs => Inv'
<1> SUFFICES ASSUME Inv, EndSlaveInputs PROVE Inv'
  OBVIOUS
<1>1. /\ LogAddr \in Nat /\ BitPos \in 0 .. 7 /\ oLogAddr \in Nat /\ soLogAddr \in Nat
      /\ slave \in Nat /\ oLogAddr <= LogAddr /\ overlap /\ dir = "in"
      /\ FMMU \subseteq FMMUs
  BY DEF Inv, TypeOK, Position, EndSlaveInputs
<1>2. NextByte \in Nat /\ LogAddr <= NextByte /\ 8 * LogAddr + BitPos <= 8 * NextByte
  BY <1>1, NextByteTypes
<1>3. /\ siLogAddr' = NextByte /\ soLogAddr' = soLogAddr /\ BitPos' = 0
      /\ LogAddr' = (IF siLogAddr' > soLogAddr THEN siLogAddr' ELSE soLogAddr)
      /\ oLogAddr' = LogAddr' /\ slave' = slave + 1 /\ dir' = "out" /\ FMMU' = FMMU
      /\ pc' = "slave" /\ overlap' = overlap /\ grp' = grp
  BY DEF EndSlaveInputs
<1>4. LogAddr' \in Nat /\ NextByte <= LogAddr' /\ soLogAddr <= LogAddr'
  BY <1>1, <1>2, <1>3
<1> DEFINE d == LogAddr' - oLogAddr
<1>5. d \in Nat /\ oLogAddr' = oLogAddr + d
  BY <1>1, <1>2, <1>3, <1>4
<1>6. AddToSegment(d) /\ SegmentTypes /\ Chained
  BY SegmentTyped DEF EndSlaveInputs, Inv, SegmentInv
<1> HIDE DEF d
<1>7. SegmentTypes' /\ Chained'
  BY <1>1, <1>5, <1>6, AddToSegmentKeeps
<1>8. TypeOK'
  BY <1>2, <1>3, <1>4, <1>7 DEF EndSlaveInputs, Inv, TypeOK, SegmentTypes, Steps, Dirs
<1>9. Walk'
  BY <1>3 DEF EndSlaveInputs, Inv, Walk
<1>10. Position'
  BY <1>1, <1>3, <1>4 DEF Position
<1>11. InputStart' /\ Closed'
  BY <1>1, <1>3 DEF InputStart, Closed
<1>12. Placed'
  <2>1. ASSUME NEW f \in FMMU
        PROVE  LastBit(f) < 8 * LogAddr'
    <3>1. f.dir \in Dirs /\ LastBit(f) \in Int
      BY <1>1, FMMUBitTypes DEF FMMUs
    <3>2. CASE f.dir = "in"
      <4>1. LastBit(f) < 8 * LogAddr + BitPos
        BY <3>2, <1>1 DEF Inv, Placed, Below
      <4>2. QED BY <4>1, <3>1, <1>1, <1>2, <1>4
    <3>3. CASE f.dir = "out"
      <4>1. LastBit(f) < 8 * soLogAddr
        BY <3>3, <1>1 DEF Inv, Placed, Below
      <4>2. QED BY <4>1, <3>1, <1>1, <1>4
    <3>4. QED BY <3>1, <3>2, <3>3 DEF Dirs
  <2>2. 8 * LogAddr' + BitPos' = 8 * LogAddr'
    BY <1>3, <1>4
  <2>3. Below(8 * LogAddr + BitPos, {"out"})' /\ Below(8 * oLogAddr, {"in"})'
    BY <2>1, <2>2, <1>3 DEF Below, LastBit
  <2>4. Disjoint(FMMU)'
    BY <1>3 DEF Inv, Placed, Disjoint, FirstBit, LastBit
  <2>5. QED BY <2>3, <2>4, <1>1, <1>3 DEF Placed
<1>13. QED BY <1>7, <1>8, <1>9, <1>10, <1>11, <1>12 DEF Inv, SegmentInv

LEMMA EndOverlappedKeeps == Inv /\ EndOverlapped => Inv'
<1> SUFFICES ASSUME Inv, EndOverlapped PROVE Inv'
  OBVIOUS
<1>1. 0 \in Segments
  BY SegmentAssumption DEF Segments
<1>2. overlap /\ dir = "out"
  BY ListTypes DEF EndOverlapped, Inv, Walk, TypeOK, Dirs
<1>3. TypeOK'
  BY <1>1 DEF EndOverlapped, Inv, TypeOK, Steps
<1>4. Walk'
  BY DEF EndOverlapped, Inv, Walk, N
<1>5. Position'
  BY <1>2 DEF EndOverlapped, Inv, Position
<1>6. oLogAddr = IF siLogAddr > soLogAddr THEN siLogAddr ELSE soLogAddr
  BY <1>2 DEF EndOverlapped, Inv, Position
<1>7. oLogAddr' = IF grp'.Obytes > grp'.Ibytes THEN grp'.Obytes ELSE grp'.Ibytes
  BY <1>6 DEF EndOverlapped, Inv, TypeOK
<1>8. SegmentInv'
  BY <1>2, <1>7 DEF EndOverlapped, Inv, SegmentInv, Chained, InputStart, Closed
<1>9. Placed'
  BY <1>2 DEF EndOverlapped, Inv, Placed, Below, Disjoint, FirstBit, LastBit
<1>10. QED BY <1>3, <1>4, <1>5, <1>8, <1>9 DEF Inv

LEMMA CloseSegmentKeeps == Inv /\ CloseSegment => Inv'
<1> SUFFICES ASSUME Inv, CloseSegment PROVE Inv'
  OBVIOUS
<1>1. IOsegment' = [IOsegment EXCEPT ![currentsegment] = segmentsize]
  BY DEF CloseSegment
<1>2. /\ IOsegment' \in [Segments -> Nat] /\ IOsegment'[currentsegment] = segmentsize
      /\ \A k \in 0 .. currentsegment - 1 : IOsegment'[k] = IOsegment[k]
  BY <1>1, SegmentAssumption DEF Inv, TypeOK, Segments
<1>3. TypeOK'
  BY <1>2 DEF CloseSegment, Inv, TypeOK, Steps
<1>4. Walk'
  BY DEF CloseSegment, Inv, Walk, N
<1>5. Position'
  BY DEF CloseSegment, Inv, Position
<1>6. SegmentInv'
  BY <1>2 DEF CloseSegment, Inv, SegmentInv, Chained, InputStart, Closed
<1>7. Placed'
  BY PlacedFrame DEF CloseSegment, Inv
<1>8. QED BY <1>3, <1>4, <1>5, <1>6, <1>7 DEF Inv

-----------------------------------------------------------------------------
(***************************************************************************)
(* The theorems.                                                           *)
(***************************************************************************)
LEMMA Initial == MapInit => Inv
<1> SUFFICES ASSUME MapInit PROVE Inv
  OBVIOUS
<1> USE DEF MapInit
<1>1. 0 \in Segments
  BY SegmentAssumption DEF Segments
<1>2. [slaves |-> slavelist, overlap |-> overlap, blockLRW |-> blockLRW] \in Groups
  <2>1. PICK g \in Groups : slavelist = g.slaves /\ overlap = g.overlap /\ blockLRW = g.blockLRW
    BY DEF MapInit
  <2>2. g \in [slaves : Seq(Slaves), overlap : BOOLEAN, blockLRW : BOOLEAN]
    BY GroupAssumption
  <2>3. g = [slaves |-> slavelist, overlap |-> overlap, blockLRW |-> blockLRW]
    BY <2>1, <2>2
  <2>4. QED BY <2>3
<1>3. TypeOK
  <2>1. /\ pc \in Steps /\ slave \in Nat \ {0} /\ dir \in Dirs
        /\ LogAddr \in Nat /\ BitPos \in 0 .. 7
        /\ SMc \in Nat /\ PhysStart \in Nat /\ EndAddr \in Nat
        /\ ByteCount \in Nat /\ BitCount \in Nat /\ FMMUdone \in Nat
        /\ oLogAddr \in Nat /\ soLogAddr \in Nat /\ siLogAddr \in Nat
    BY DEF Steps, Dirs
  <2>2. AddToWKC \in BOOLEAN /\ FMMU \subseteq FMMUs
    BY Zenon
  <2>3. /\ IOsegment \in [Segments -> Nat] /\ currentsegment \in Segments
        /\ segmentsize \in Nat /\ segstart \in [Segments -> Nat]
        /\ outputsWKC \in Nat /\ inputsWKC \in Nat
        /\ grp \in [Obytes : Nat, Ibytes : Nat, Isegment : Segments, Ioffset : Nat]
    BY <1>1
  <2>4. QED BY <1>2, <2>1, <2>2, <2>3 DEF TypeOK
<1>4. Walk /\ Position
  BY DEF Walk, Position
<1>5. SegmentInv
  BY <1>1 DEF SegmentInv, Chained, InputStart, Closed
<1>6. Placed
  BY DEF Placed, Below, Disjoint
<1>7. QED BY <1>3, <1>4, <1>5, <1>6 DEF Inv

LEMMA Inductive == Inv /\ [MapNext]_mapvars => Inv'
<1> SUFFICES ASSUME Inv, [MapNext]_mapvars PROVE Inv'
  OBVIOUS
<1>1. CASE create_mappings
  BY <1>1, CallCreateKeeps, StartFMMUKeeps, JoinSMKeeps, PlaceFMMUKeeps, EndCreateKeeps
     DEF create_mappings
<1>2. CASE config_map_group
  BY <1>2, SkipSlaveKeeps, AccountSlaveKeeps, EndOutputsKeeps, EndInputsKeeps
     DEF config_map_group
<1>3. CASE config_overlap_map_group
  BY <1>3, SkipOverlappedKeeps, EndSlaveOutputsKeeps, EndSlaveInputsKeeps, EndOverlappedKeeps
     DEF config_overlap_map_group
<1>4. CASE CloseSegment
  BY <1>4, CloseSegmentKeeps
<1>5. CASE UNCHANGED mapvars
  <2>1. TypeOK' /\ Walk' /\ Position'
    BY <1>5 DEF Inv, TypeOK, Walk, Position, Bits, N
  <2>2. SegmentInv'
    BY <1>5 DEF Inv, SegmentInv, Chained, InputStart, Closed
  <2>3. Placed'
    BY <1>5, PlacedFrame DEF Inv
  <2>4. QED BY <2>1, <2>2, <2>3 DEF Inv
<1>6. QED BY <1>1, <1>2, <1>3, <1>4, <1>5 DEF MapNext

LEMMA Invariance == MapSpec => []Inv
<1>1. QED BY Initial, Inductive, PTL DEF MapSpec

\* Addresses, counters and FMMUs stay in range for every list of slaves: the
\* sizes the mapping functions subtract never go below 0.
THEOREM TypeCorrect == MapSpec => []TypeOK
<1>1. Inv => TypeOK
  BY DEF Inv
<1>2. QED BY <1>1, Invariance, PTL

\* When the mapping functions return, the segments cover the image without a
\* gap and the inputs begin where Isegment and Ioffset say, for every list of
\* slaves and every datagram size.
THEOREM SegmentsCorrect == MapSpec => []SegmentsCover
<1>1. Inv => SegmentsCover
  <2> SUFFICES ASSUME Inv, pc = "done", currentsegment < EC_MAXIOSEGMENTS - 1
               PROVE  /\ segstart[0] = 0
                      /\ \A k \in 0 .. currentsegment - 1 :
                           segstart[k + 1] = segstart[k] + IOsegment[k]
                      /\ segstart[currentsegment] + IOsegment[currentsegment] = oLogAddr
                      /\ oLogAddr = IF overlap
                                      THEN IF grp.Obytes > grp.Ibytes THEN grp.Obytes
                                           ELSE grp.Ibytes
                                      ELSE grp.Obytes + grp.Ibytes
                      /\ ~overlap => segstart[grp.Isegment] + grp.Ioffset = grp.Obytes
    BY DEF SegmentsCover, Mapped, Last
  <2>1. Chained /\ InputStart /\ Closed
    BY DEF Inv, SegmentInv
  <2>2. QED BY <2>1 DEF Chained, InputStart, Closed
<1>2. QED BY <1>1, Invariance, PTL

\* No two FMMUs of one direction share a bit, and outputs lie below inputs, for
\* every list of slaves (and every number of SMs).
THEOREM DisjointFMMUs == MapSpec => []FMMUsDisjoint
<1>1. Inv => FMMUsDisjoint
  <2> SUFFICES ASSUME Inv PROVE FMMUsDisjoint
    OBVIOUS
  <2>1. Disjoint(FMMU)
    BY DEF Inv, Placed
  <2>2. ASSUME Mapped, ~overlap, NEW f \in FMMU
        PROVE  IF f.dir = "out" THEN LastBit(f) < 8 * grp.Obytes
               ELSE FirstBit(f) >= 8 * grp.Obytes
    <3>1. dir = "in" /\ f.dir \in Dirs
      BY <2>2 DEF Inv, SegmentInv, Closed, Mapped, TypeOK, FMMUs
    <3>2. QED BY <2>2, <3>1 DEF Inv, Placed, Below, Dirs
  <2>3. QED BY <2>1, <2>2 DEF FMMUsDisjoint, Disjoint
<1>2. QED BY <1>1, Invariance, PTL

-----------------------------------------------------------------------------
(***************************************************************************)
(* One datagram for a slave: what is mapped since the last account lies    *)
(* beyond it, and is added to the segments as a whole.                     *)
(***************************************************************************)
\* Between two slaves no FMMU belongs to the next one.
Idle == pc \in {"close", "done"} \/ (pc = "slave" /\ (overlap => dir = "out"))

Order ==
  \A f \in FMMU : overlap \/ f.dir = dir =>
    f.slave <= slave /\ (Idle => f.slave < slave)

\* The slave (and direction) that is accounted for next.
Turn(s, d) == s = slave /\ (overlap \/ d = dir)

Fresh ==
  \A f \in FMMU : Turn(f.slave, f.dir) =>
    /\ 8 * oLogAddr <= FirstBit(f)
    /\ ~overlap /\ ByteOriented(f) => LastBit(f) < 8 * LogAddr

\* Where segment k ends, the open one included.
End(k) == segstart[k] + (IF k < currentsegment THEN IOsegment[k] ELSE segmentsize)

Own(s, d) == {f \in FMMU : f.slave = s /\ f.dir = d /\ (overlap \/ ByteOriented(f))}

OneSegment(s, d) ==
  \E k \in 0 .. currentsegment :
    \A f \in Own(s, d) : 8 * segstart[k] <= FirstBit(f) /\ LastBit(f) < 8 * End(k)

Whole ==
  currentsegment < EC_MAXIOSEGMENTS - 1 =>
    \A s \in 1 .. N, d \in Dirs : ~Turn(s, d) => OneSegment(s, d)

Together == Order /\ Fresh /\ Whole

\* IOMap only changes FMMU, the account and the segments in a few steps.
LEMMA TogetherFrame ==
  ASSUME TypeOK, Together,
         UNCHANGED <<slavelist, overlap, slave, dir, oLogAddr, FMMU, LogAddr, currentsegment,
                     segmentsize, segstart>>,
         \A k \in 0 .. currentsegment - 1 : IOsegment'[k] = IOsegment[k],
         Idle' => Idle
  PROVE  Together'
<1>1. Order' /\ Fresh'
  BY DEF Together, Order, Fresh, Turn, ByteOriented, FirstBit, LastBit
<1>2. currentsegment \in Nat
  BY SegmentAssumption DEF TypeOK, Segments
<1>3. \A k \in 0 .. currentsegment : End(k)' = End(k)
  BY <1>2 DEF End
<1>4. ASSUME NEW s, NEW d, OneSegment(s, d)
      PROVE  OneSegment(s, d)'
  <2>1. Own(s, d)' = Own(s, d)
    BY DEF Own, ByteOriented
  <2>2. QED BY <1>3, <1>4, <2>1 DEF OneSegment, FirstBit, LastBit
<1>5. Whole'
  BY <1>4 DEF Together, Whole, Turn, N
<1>6. QED BY <1>1, <1>5 DEF Together

LEMMA CreateKeepsTogether ==
  Inv /\ Together /\ (CallCreate \/ StartFMMU \/ JoinSM \/ EndCreate) => Together'
<1> SUFFICES ASSUME Inv, Together, CallCreate \/ StartFMMU \/ JoinSM \/ EndCreate
             PROVE  Together'
  OBVIOUS
<1>1. /\ UNCHANGED <<slavelist, overlap, slave, dir, oLogAddr, FMMU, LogAddr, segs>>
      /\ pc' \in {"fmmu", "join", "place", "account"}
  BY DEF CallCreate, StartFMMU, JoinSM, EndCreate
<1>2. ~Idle'
  BY <1>1 DEF Idle
<1>3. QED BY <1>1, <1>2, TogetherFrame DEF Inv

\* A new FMMU belongs to the slave being mapped.
LEMMA PlaceKeepsTogether == Inv /\ Together /\ PlaceFMMU => Together'
<1> SUFFICES ASSUME Inv, Together, PlaceFMMU PROVE Together'
  OBVIOUS
<1>1. /\ slave <= N /\ Bits > 0 /\ FMMUdone < Rounded(Bits) /\ TypeOK /\ Bits \in Nat
      /\ LogAddr \in Nat /\ BitPos \in 0 .. 7 /\ oLogAddr \in Nat /\ slave \in Nat
      /\ oLogAddr <= LogAddr
  BY SlaveTypes DEF Inv, Walk, Position, TypeOK, PlaceFMMU
<1>2. /\ LogAddr' \in Nat /\ BitPos' \in 0 .. 7 /\ LogAddr <= LogAddr'
      /\ \E f \in FMMUs :
           /\ FMMU' = FMMU \cup {f} /\ f.slave = slave /\ f.dir = dir
           /\ FirstBit(f) >= 8 * LogAddr + BitPos
           /\ LastBit(f) < 8 * LogAddr' + BitPos'
  <2>1. CASE Bytes = 0
    BY <2>1, <1>1, PlaceBitsStep DEF PlaceFMMU
  <2>2. CASE Bytes # 0
    BY <2>2, <1>1, PlaceBytesStep DEF PlaceFMMU
  <2>3. QED BY <2>1, <2>2
<1>3. PICK f \in FMMUs : /\ FMMU' = FMMU \cup {f} /\ f.slave = slave /\ f.dir = dir
                         /\ FirstBit(f) >= 8 * LogAddr + BitPos
                         /\ LastBit(f) < 8 * LogAddr' + BitPos'
  BY <1>2
<1>4. /\ UNCHANGED <<slavelist, overlap, slave, dir, oLogAddr, segs>>
      /\ pc' = "fmmu" /\ ~Idle'
  BY DEF PlaceFMMU, Idle
<1>5. Order'
  BY <1>1, <1>3, <1>4 DEF Together, Order
<1>6. ByteOriented(f) => LastBit(f) < 8 * LogAddr'
  <2> SUFFICES ASSUME ByteOriented(f) PROVE LastBit(f) < 8 * LogAddr'
    OBVIOUS
  <2>1. Bits > 7
    BY <1>3 DEF ByteOriented, Bits
  <2>2. Bytes # 0
    BY <2>1, <1>1 DEF Bytes, Rounded
  <2>3. BitPos' = 0
    BY <2>2 DEF PlaceFMMU, PlaceBytes
  <2>4. QED BY <2>3, <1>2, <1>3
<1>7. Fresh'
  <2> SUFFICES ASSUME NEW g \in FMMU', Turn(g.slave, g.dir)
               PROVE  /\ 8 * oLogAddr <= FirstBit(g)
                      /\ ~overlap /\ ByteOriented(g) => LastBit(g) < 8 * LogAddr'
    BY <1>4 DEF Fresh, Turn, ByteOriented, FirstBit, LastBit
  <2>1. CASE g = f
    <3>1. FirstBit(f) \in Int
      BY FMMUBitTypes
    <3>2. 8 * oLogAddr <= FirstBit(f)
      BY <3>1, <1>1, <1>3
    <3>3. QED BY <2>1, <3>2, <1>6
  <2>2. CASE g \in FMMU
    <3>1. /\ 8 * oLogAddr <= FirstBit(g)
          /\ ~overlap /\ ByteOriented(g) => LastBit(g) < 8 * LogAddr
      BY <2>2 DEF Together, Fresh
    <3>2. LastBit(g) \in Int
      BY <2>2, <1>1, FMMUBitTypes DEF TypeOK
    <3>3. QED BY <3>1, <3>2, <1>1, <1>2
  <2>3. QED BY <2>1, <2>2, <1>3
<1>8. Whole'
  <2>1. ASSUME NEW s, NEW d, ~Turn(s, d), OneSegment(s, d)
        PROVE  OneSegment(s, d)'
    <3>1. Own(s, d)' = Own(s, d)
      BY <2>1, <1>3, <1>4 DEF Own, ByteOriented, Turn
    <3>2. QED BY <2>1, <3>1, <1>4 DEF OneSegment, End, FirstBit, LastBit
  <2>2. QED BY <2>1, <1>4 DEF Together, Whole, Turn, N
<1>9. QED BY <1>5, <1>7, <1>8 DEF Together

\* Closed segments keep their place; the open one only grows.
LEMMA WholeStays ==
  ASSUME TypeOK, SegmentTypes', UNCHANGED <<slavelist, overlap, FMMU>>,
         NEW s, NEW d, OneSegment(s, d), currentsegment <= currentsegment',
         \A k \in 0 .. currentsegment : segstart'[k] = segstart[k] /\ End(k) <= End(k)'
  PROVE  OneSegment(s, d)'
<1>1. PICK k \in 0 .. currentsegment :
        \A f \in Own(s, d) : 8 * segstart[k] <= FirstBit(f) /\ LastBit(f) < 8 * End(k)
  BY DEF OneSegment
<1>2. /\ currentsegment \in Nat /\ currentsegment' \in Nat /\ k \in Segments
      /\ currentsegment < EC_MAXIOSEGMENTS
  BY SegmentAssumption DEF TypeOK, SegmentTypes, Segments
<1>3. k \in 0 .. currentsegment'
  BY <1>2
<1>4. Own(s, d)' = Own(s, d)
  BY DEF Own, ByteOriented
<1>5. End(k) \in Nat /\ End(k)' \in Nat
  <2>1. segstart[k] \in Nat /\ IOsegment[k] \in Nat /\ segmentsize \in Nat
    BY <1>2 DEF TypeOK
  <2>2. segstart'[k] \in Nat /\ IOsegment'[k] \in Nat /\ segmentsize' \in Nat
    BY <1>2 DEF SegmentTypes
  <2>3. QED BY <2>1, <2>2 DEF End
<1>6. ASSUME NEW f \in Own(s, d)
      PROVE  8 * segstart'[k] <= FirstBit(f) /\ LastBit(f) < 8 * End(k)'
  <2>1. LastBit(f) \in Int
    BY FMMUBitTypes DEF Own, TypeOK
  <2>2. LastBit(f) < 8 * End(k) /\ End(k) <= End(k)' /\ segstart'[k] = segstart[k]
    BY <1>1
  <2>3. QED BY <2>1, <2>2, <1>1, <1>5
<1>7. QED BY <1>3, <1>4, <1>6 DEF OneSegment, FirstBit, LastBit

\* What is added stays in one piece, in the segment then open.
LEMMA AddedAsWhole ==
  ASSUME TypeOK, Chained, NEW d \in Nat, oLogAddr' = oLogAddr + d, AddToSegment(d),
         currentsegment' < EC_MAXIOSEGMENTS - 1
  PROVE  /\ currentsegment < EC_MAXIOSEGMENTS - 1
         /\ \A k \in 0 .. currentsegment : segstart'[k] = segstart[k] /\ End(k) <= End(k)'
         /\ segstart'[currentsegment'] <= oLogAddr
         /\ End(currentsegment)' = oLogAddr'
<1>1. SegmentTypes /\ oLogAddr \in Nat
  BY DEF TypeOK, SegmentTypes
<1>2. SegmentTypes' /\ Chained' /\ currentsegment <= currentsegment'
  BY <1>1, AddToSegmentKeeps
<1>3. currentsegment \in Nat /\ currentsegment' \in Nat /\ EC_MAXIOSEGMENTS \in Nat
  BY <1>1, <1>2, SegmentAssumption DEF SegmentTypes, Segments
<1>4. currentsegment < EC_MAXIOSEGMENTS - 1
  BY <1>2, <1>3
<1>5. End(currentsegment)' = oLogAddr'
  BY <1>2, <1>3 DEF Chained, End
<1>6. \A k \in 0 .. currentsegment : segstart'[k] = segstart[k]
  BY <1>1, <1>2, AddToSegmentKeeps
<1>7. \A k \in 0 .. currentsegment : segstart[k] \in Nat /\ IOsegment[k] \in Nat
  BY <1>3, <1>4 DEF TypeOK, Segments
<1>8. segmentsize \in Nat
  BY <1>1 DEF SegmentTypes
<1>9. CASE segmentsize + d > MaxSegment
  <2>1. /\ IOsegment' = [IOsegment EXCEPT ![currentsegment] = segmentsize]
        /\ currentsegment' = currentsegment + 1
        /\ segstart' = [segstart EXCEPT ![currentsegment + 1] =
                          segstart[currentsegment] + segmentsize]
    BY <1>4, <1>9 DEF AddToSegment
  <2>2. currentsegment \in Segments /\ currentsegment + 1 \in Segments
    BY <1>2, <2>1 DEF SegmentTypes, TypeOK
  <2>3. segstart'[currentsegment'] = oLogAddr
    BY <2>1, <2>2, <1>4 DEF Chained, TypeOK
  <2>4. ASSUME NEW k \in 0 .. currentsegment
        PROVE  End(k)' = End(k)
    <3>1. k < currentsegment'
      BY <2>1, <1>3
    <3>2. IOsegment'[k] = IF k < currentsegment THEN IOsegment[k] ELSE segmentsize
      BY <2>1, <2>2, <1>3 DEF TypeOK, Segments
    <3>3. QED BY <3>1, <3>2, <1>6 DEF End
  <2>5. \A k \in 0 .. currentsegment : End(k) \in Nat
    BY <1>7, <1>8 DEF End
  <2>6. \A k \in 0 .. currentsegment : End(k) <= End(k)'
    BY <2>4, <2>5
  <2>7. QED BY <1>1, <1>4, <1>5, <1>6, <2>3, <2>6
<1>10. CASE ~(segmentsize + d > MaxSegment)
  <2>1. segmentsize' = segmentsize + d /\ UNCHANGED <<IOsegment, currentsegment, segstart>>
    BY <1>10 DEF AddToSegment
  <2>2. \A k \in 0 .. currentsegment : End(k) <= End(k)'
    <3> SUFFICES ASSUME NEW k \in 0 .. currentsegment PROVE End(k) <= End(k)'
      OBVIOUS
    <3>1. CASE k < currentsegment
      BY <3>1, <2>1, <1>7 DEF End
    <3>2. CASE ~(k < currentsegment)
      BY <3>2, <2>1, <1>7, <1>8 DEF End
    <3>3. QED BY <3>1, <3>2
  <2>3. segstart[currentsegment] <= oLogAddr
    <3>1. segstart[currentsegment] + segmentsize = oLogAddr
      BY <1>4 DEF Chained
    <3>2. segstart[currentsegment] \in Nat
      BY <1>3, <1>7
    <3>3. QED BY <3>1, <3>2, <1>8
  <2>4. QED BY <1>4, <1>5, <1>6, <2>1, <2>2, <2>3
<1>11. QED BY <1>9, <1>10

\* All FMMUs of the slave accounted for go into the segment then open.
LEMMA WholeAfterAdding ==
  ASSUME Inv, Together, SegmentTypes', UNCHANGED <<slavelist, overlap, FMMU>>,
         NEW d \in Nat, oLogAddr' = oLogAddr + d, AddToSegment(d),
         \A f \in FMMU : Turn(f.slave, f.dir) /\ (overlap \/ ByteOriented(f))
                           => LastBit(f) < 8 * oLogAddr',
         currentsegment' < EC_MAXIOSEGMENTS - 1,
         NEW s \in 1 .. N, NEW e \in Dirs
  PROVE  OneSegment(s, e)'
<1>1. TypeOK /\ Chained /\ SegmentTypes /\ oLogAddr \in Nat /\ FMMU \subseteq FMMUs
  BY DEF Inv, SegmentInv, TypeOK, SegmentTypes
<1>2. /\ currentsegment < EC_MAXIOSEGMENTS - 1
      /\ \A k \in 0 .. currentsegment : segstart'[k] = segstart[k] /\ End(k) <= End(k)'
      /\ segstart'[currentsegment'] <= oLogAddr
      /\ End(currentsegment)' = oLogAddr'
  BY <1>1, AddedAsWhole
<1>3. currentsegment <= currentsegment'
  BY <1>1, AddToSegmentKeeps
<1>4. CASE ~Turn(s, e)
  BY <1>1, <1>2, <1>3, <1>4, WholeStays DEF Together, Whole
<1>5. CASE Turn(s, e)
  <2>1. Own(s, e)' = Own(s, e)
    BY DEF Own, ByteOriented
  <2>2. currentsegment' \in 0 .. currentsegment' /\ segstart'[currentsegment'] \in Nat
    BY DEF SegmentTypes, Segments
  <2>3. ASSUME NEW f \in Own(s, e)
        PROVE  /\ 8 * segstart'[currentsegment'] <= FirstBit(f)
               /\ LastBit(f) < 8 * oLogAddr'
    <3>1. f \in FMMU /\ f.slave = s /\ f.dir = e /\ (overlap \/ ByteOriented(f))
      BY DEF Own
    <3>2. 8 * oLogAddr <= FirstBit(f) /\ LastBit(f) < 8 * oLogAddr'
      BY <3>1, <1>5 DEF Together, Fresh
    <3>3. FirstBit(f) \in Int
      BY <3>1, <1>1, FMMUBitTypes
    <3>4. QED BY <3>2, <3>3, <2>2, <1>1, <1>2
  <2>4. \A f \in Own(s, e) : /\ 8 * segstart'[currentsegment'] <= FirstBit(f)
                             /\ LastBit(f) < 8 * End(currentsegment)'
    BY <2>3, <1>2
  <2>5. QED BY <2>1, <2>2, <2>4 DEF OneSegment, FirstBit, LastBit
<1>6. QED BY <1>4, <1>5

\* A slave without FMMUs of a direction is in one segment.
LEMMA NothingOwned ==
  ASSUME TypeOK, NEW s, NEW d, Own(s, d) = {}
  PROVE  OneSegment(s, d)
<1>1. 0 \in 0 .. currentsegment
  BY SegmentAssumption DEF TypeOK, Segments
<1>2. QED BY <1>1 DEF OneSegment

LEMMA PadKeepsWhole ==
  ASSUME Inv, Together, Inv', Idle, Pad, UNCHANGED <<slavelist, overlap, FMMU>>,
         LogAddr = oLogAddr, currentsegment' < EC_MAXIOSEGMENTS - 1,
         NEW s \in 1 .. N, NEW e \in Dirs
  PROVE  OneSegment(s, e)'
<1>1. /\ TypeOK /\ TypeOK' /\ SegmentTypes' /\ BitPos \in 0 .. 7 /\ oLogAddr \in Nat
      /\ slave \in Nat
  BY DEF Inv, TypeOK, SegmentTypes
<1>2. \A f \in FMMU : ~Turn(f.slave, f.dir)
  BY <1>1 DEF Together, Order, Turn
<1>3. CASE BitPos > 0
  <2>1. AddToSegment(1) /\ oLogAddr' = oLogAddr + 1
    BY <1>3 DEF Pad, NextByte
  <2>2. QED BY <2>1, <1>1, <1>2, WholeAfterAdding
<1>4. CASE BitPos = 0
  <2>1. UNCHANGED segs
    BY <1>4 DEF Pad
  <2>2. Own(s, e)' = Own(s, e)
    BY DEF Own, ByteOriented
  <2>3. CASE Turn(s, e)
    <3>1. Own(s, e) = {}
      BY <2>3, <1>2 DEF Own
    <3>2. OneSegment(s, e)
      BY <3>1, <1>1, NothingOwned
    <3>3. QED BY <3>2, <2>1, <2>2 DEF OneSegment, End, FirstBit, LastBit
  <2>4. CASE ~Turn(s, e)
    <3>1. OneSegment(s, e)
      BY <2>1, <2>4 DEF Together, Whole
    <3>2. QED BY <3>1, <2>1, <2>2 DEF OneSegment, End, FirstBit, LastBit
  <2>5. QED BY <2>3, <2>4
<1>5. QED BY <1>1, <1>3, <1>4

\* When the walk moves on to the next slave, that slave has no FMMU yet.
LEMMA MovesOn ==
  ASSUME TypeOK, Together, slave' = slave + 1, UNCHANGED <<FMMU, overlap>>, overlap \/ dir' = dir
  PROVE  Order' /\ Fresh'
<1>1. slave \in Nat /\ \A f \in FMMU : f.slave \in Nat
  BY DEF TypeOK, FMMUs
<1>2. \A f \in FMMU : overlap \/ f.dir = dir => f.slave <= slave /\ f.slave < slave + 1
  BY <1>1 DEF Together, Order
<1>3. \A f \in FMMU : overlap' \/ f.dir = dir' => f.slave <= slave' /\ f.slave < slave'
  BY <1>1, <1>2
<1>4. Order'
  BY <1>3 DEF Order
<1>5. \A f \in FMMU' : ~Turn(f.slave, f.dir)'
  BY <1>1, <1>3 DEF Turn
<1>6. QED BY <1>4, <1>5 DEF Fresh, Turn

LEMMA SkipKeepsTogether == Inv /\ Together /\ SkipSlave => Together'
<1> SUFFICES ASSUME Inv, Together, SkipSlave PROVE Together'
  OBVIOUS
<1>1. TypeOK /\ slave \in Nat /\ Idle /\ ~overlap
  BY DEF Inv, TypeOK, SkipSlave, ToMap, Idle
<1>2. /\ UNCHANGED <<slavelist, overlap, FMMU, segs, dir>> /\ slave' = slave + 1
  BY DEF SkipSlave
<1>3. Order' /\ Fresh'
  BY <1>1, <1>2, MovesOn
<1>4. ASSUME NEW s \in 1 .. N, NEW e \in Dirs, currentsegment < EC_MAXIOSEGMENTS - 1
      PROVE  OneSegment(s, e)
  <2>1. CASE Turn(s, e)
    <3>1. Own(s, e) = {}
      BY <2>1, <1>1 DEF Own, Together, Order, Turn
    <3>2. QED BY <3>1, <1>1, NothingOwned
  <2>2. CASE ~Turn(s, e)
    BY <2>2, <1>4 DEF Together, Whole
  <2>3. QED BY <2>1, <2>2
<1>5. Whole'
  BY <1>2, <1>4 DEF Whole, OneSegment, Own, ByteOriented, End, FirstBit, LastBit, N
<1>6. QED BY <1>3, <1>5 DEF Together

LEMMA AccountKeepsTogether == Inv /\ Inv' /\ Together /\ AccountSlave => Together'
<1> SUFFICES ASSUME Inv, Inv', Together, AccountSlave PROVE Together'
  OBVIOUS
<1> DEFINE d == LogAddr - oLogAddr
<1>1. /\ TypeOK /\ slave \in Nat /\ ~overlap /\ SegmentTypes'
      /\ d \in Nat /\ oLogAddr' = oLogAddr + d /\ oLogAddr' = LogAddr /\ AddToSegment(d)
  BY DEF Inv, Position, TypeOK, SegmentTypes, AccountSlave
<1>2. UNCHANGED <<slavelist, overlap, FMMU, dir>> /\ slave' = slave + 1
  BY DEF AccountSlave
<1> HIDE DEF d
<1>3. Order' /\ Fresh'
  BY <1>1, <1>2, MovesOn
<1>4. \A f \in FMMU : Turn(f.slave, f.dir) /\ (overlap \/ ByteOriented(f))
                        => LastBit(f) < 8 * oLogAddr'
  BY <1>1 DEF Together, Fresh
<1>5. ASSUME currentsegment' < EC_MAXIOSEGMENTS - 1, NEW s \in 1 .. N, NEW e \in Dirs
      PROVE  OneSegment(s, e)'
  BY <1>1, <1>2, <1>4, <1>5, WholeAfterAdding
<1>6. Whole'
  BY <1>2, <1>5 DEF Whole, N
<1>7. QED BY <1>3, <1>6 DEF Together

LEMMA EndOutputsKeepsTogether == Inv /\ Inv' /\ Together /\ EndOutputs => Together'
<1> SUFFICES ASSUME Inv, Inv', Together, EndOutputs PROVE Together'
  OBVIOUS
<1>1. /\ Idle /\ Pad /\ oLogAddr = LogAddr /\ ~overlap /\ dir = "out" /\ dir' = "in"
      /\ UNCHANGED <<slavelist, overlap, FMMU>>
  BY DEF EndOutputs, Idle, Inv, Position
<1>2. \A f \in FMMU : f.dir = "out"
  BY <1>1 DEF Inv, Placed
<1>3. Order' /\ Fresh'
  BY <1>1, <1>2 DEF Order, Fresh, Turn
<1>4. ASSUME currentsegment' < EC_MAXIOSEGMENTS - 1, NEW s \in 1 .. N, NEW e \in Dirs
      PROVE  OneSegment(s, e)'
  BY <1>1, <1>4, PadKeepsWhole
<1>5. Whole'
  BY <1>1, <1>4 DEF Whole, N
<1>6. QED BY <1>3, <1>5 DEF Together

LEMMA EndInputsKeepsTogether == Inv /\ Inv' /\ Together /\ EndInputs => Together'
<1> SUFFICES ASSUME Inv, Inv', Together, EndInputs PROVE Together'
  OBVIOUS
<1>1. /\ Idle /\ Idle' /\ Pad /\ oLogAddr = LogAddr /\ slave \in Nat
      /\ UNCHANGED <<slavelist, overlap, FMMU, slave, dir>>
  BY DEF EndInputs, Idle, Inv, Position, TypeOK
<1>2. \A f \in FMMU : ~Turn(f.slave, f.dir)
  BY <1>1 DEF Together, Order, Turn
<1>3. Order' /\ Fresh'
  BY <1>1, <1>2 DEF Together, Order, Fresh, Turn
<1>4. ASSUME currentsegment' < EC_MAXIOSEGMENTS - 1, NEW s \in 1 .. N, NEW e \in Dirs
      PROVE  OneSegment(s, e)'
  BY <1>1, <1>4, PadKeepsWhole
<1>5. Whole'
  BY <1>1, <1>4 DEF Whole, N
<1>6. QED BY <1>3, <1>5 DEF Together

\* The inputs of a slave that overlap its outputs begin where those began.
LEMMA EndSlaveOutputsKeepsTogether == Inv /\ Together /\ EndSlaveOutputs => Together'
<1> SUFFICES ASSUME Inv, Together, EndSlaveOutputs PROVE Together'
  OBVIOUS
<1>1. /\ overlap /\ overlap' /\ dir' = "in" /\ ~Idle'
      /\ UNCHANGED <<slavelist, overlap, slave, oLogAddr, FMMU, segs>>
  BY DEF EndSlaveOutputs, Idle, Inv, TypeOK
<1>2. Order' /\ Fresh'
  BY <1>1 DEF Together, Order, Fresh, Turn, FirstBit
<1>3. Whole'
  BY <1>1 DEF Together, Whole, OneSegment, Own, Turn, ByteOriented, End, FirstBit, LastBit, N
<1>4. QED BY <1>2, <1>3 DEF Together

LEMMA EndSlaveInputsKeepsTogether == Inv /\ Inv' /\ Together /\ EndSlaveInputs => Together'
<1> SUFFICES ASSUME Inv, Inv', Together, EndSlaveInputs PROVE Together'
  OBVIOUS
<1> DEFINE d == LogAddr' - oLogAddr
<1>1. /\ TypeOK /\ slave \in Nat /\ overlap /\ SegmentTypes' /\ AddToSegment(d)
      /\ oLogAddr' = LogAddr' /\ slave' = slave + 1 /\ dir' = "out"
      /\ UNCHANGED <<slavelist, overlap, FMMU>>
  BY DEF Inv, TypeOK, SegmentTypes, EndSlaveInputs
<1>2. /\ LogAddr \in Nat /\ BitPos \in 0 .. 7 /\ oLogAddr \in Nat /\ soLogAddr \in Nat
      /\ oLogAddr <= LogAddr /\ LogAddr' \in Nat
  BY DEF Inv, TypeOK, Position
<1>3. NextByte \in Nat /\ LogAddr <= NextByte /\ NextByte <= LogAddr'
  BY <1>2, NextByteTypes DEF EndSlaveInputs
<1>4. d \in Nat /\ oLogAddr' = oLogAddr + d
  <2>1. oLogAddr <= LogAddr'
    BY <1>2, <1>3 DEF NextByte
  <2>2. \A a, b \in Nat : a <= b => b - a \in Nat /\ b = a + (b - a)
    OBVIOUS
  <2>3. d \in Nat /\ LogAddr' = oLogAddr + d
    BY <2>1, <2>2, <1>2, Zenon
  <2>4. QED BY <2>3, <1>1
<1> HIDE DEF d
<1>5. Order' /\ Fresh'
  BY <1>1, MovesOn
<1>6. \A f \in FMMU : LastBit(f) < 8 * oLogAddr'
  <2> SUFFICES ASSUME NEW f \in FMMU PROVE LastBit(f) < 8 * oLogAddr'
    OBVIOUS
  <2>1. overlap' /\ dir' = "out" /\ f \in FMMU' /\ f.dir \in Dirs /\ BitPos' = 0
    BY <1>1 DEF TypeOK, FMMUs, EndSlaveInputs
  <2>2. CASE f.dir = "in"
    BY <2>1, <2>2 DEF Inv, Placed, Below, LastBit
  <2>3. CASE f.dir = "out"
    <3>1. LastBit(f) < 8 * LogAddr' + BitPos'
      BY <2>1, <2>3 DEF Inv, Placed, Below, LastBit
    <3>2. QED BY <3>1, <2>1, <1>1, <1>2
  <2>4. QED BY <2>1, <2>2, <2>3 DEF Dirs
<1>7. ASSUME currentsegment' < EC_MAXIOSEGMENTS - 1, NEW s \in 1 .. N, NEW e \in Dirs
      PROVE  OneSegment(s, e)'
  BY <1>1, <1>4, <1>6, <1>7, WholeAfterAdding
<1>8. Whole'
  BY <1>1, <1>7 DEF Whole, N
<1>9. QED BY <1>5, <1>8 DEF Together

LEMMA RestKeepsTogether ==
  Inv /\ Together /\ (SkipOverlapped \/ EndOverlapped \/ CloseSegment \/ UNCHANGED mapvars)
    => Together'
<1> SUFFICES ASSUME Inv, Together,
                    SkipOverlapped \/ EndOverlapped \/ CloseSegment \/ UNCHANGED mapvars
             PROVE  Together'
  OBVIOUS
<1>1. TypeOK /\ currentsegment \in Nat
  <2>1. TypeOK
    BY DEF Inv
  <2>2. currentsegment \in Nat
    BY <2>1, SegmentAssumption DEF TypeOK, Segments
  <2>3. QED BY <2>1, <2>2
<1>2. /\ UNCHANGED <<slavelist, overlap, slave, dir, oLogAddr, FMMU, LogAddr, currentsegment,
                     segmentsize, segstart>>
      /\ Idle' => Idle
  <2>1. CASE EndOverlapped
    BY <2>1, ListTypes DEF EndOverlapped, Idle, Inv, Walk, TypeOK, Dirs
  <2>2. CASE SkipOverlapped \/ CloseSegment \/ UNCHANGED mapvars
    BY <2>2 DEF SkipOverlapped, CloseSegment, Idle
  <2>3. QED BY <2>1, <2>2
<1>3. \A k \in 0 .. currentsegment - 1 : IOsegment'[k] = IOsegment[k]
  <2>1. CASE CloseSegment
    <3>1. IOsegment' = [IOsegment EXCEPT ![currentsegment] = segmentsize]
      BY <2>1 DEF CloseSegment
    <3>2. QED BY <3>1, <1>1 DEF TypeOK, Segments
  <2>2. CASE SkipOverlapped \/ EndOverlapped \/ UNCHANGED mapvars
    BY <2>2 DEF SkipOverlapped, EndOverlapped
  <2>3. QED BY <2>1, <2>2
<1>4. QED BY <1>1, <1>2, <1>3, TogetherFrame

LEMMA TogetherInitially == MapInit => Together
<1> SUFFICES ASSUME MapInit PROVE Together
  OBVIOUS
<1>1. TypeOK /\ FMMU = {}
  BY Initial DEF MapInit, Inv
<1>2. \A s, d : OneSegment(s, d)
  BY <1>1, NothingOwned DEF Own
<1>3. QED BY <1>1, <1>2 DEF Together, Order, Fresh, Whole

LEMMA TogetherInductive == Inv /\ Together /\ [MapNext]_mapvars => Together'
<1> SUFFICES ASSUME Inv, Together, [MapNext]_mapvars PROVE Together'
  OBVIOUS
<1>1. Inv'
  BY Inductive
<1>2. CASE create_mappings
  BY <1>2, CreateKeepsTogether, PlaceKeepsTogether DEF create_mappings
<1>3. CASE config_map_group
  BY <1>1, <1>3, SkipKeepsTogether, AccountKeepsTogether, EndOutputsKeepsTogether,
     EndInputsKeepsTogether DEF config_map_group
<1>4. CASE config_overlap_map_group
  BY <1>1, <1>4, RestKeepsTogether, EndSlaveOutputsKeepsTogether, EndSlaveInputsKeepsTogether
     DEF config_overlap_map_group
<1>5. CASE CloseSegment \/ UNCHANGED mapvars
  BY <1>5, RestKeepsTogether
<1>6. QED BY <1>2, <1>3, <1>4, <1>5 DEF MapNext

\* A byte-oriented slave, or any slave of an overlapping map, has its outputs
\* in one datagram and its inputs in one, for every list of slaves and every
\* datagram size, as long as the group has segments left.
THEOREM OneDatagramPerSlave == MapSpec => []BytesInOneDatagram
<1>1. Inv /\ Together => BytesInOneDatagram
  <2> SUFFICES ASSUME Inv, Together, Mapped, currentsegment < EC_MAXIOSEGMENTS - 1,
                      NEW s \in 1 .. N, NEW d \in Dirs
               PROVE  \E k \in 0 .. currentsegment :
                        \A f \in FMMU : f.slave = s /\ f.dir = d /\ (overlap \/ ByteOriented(f))
                                          => InSegment(f, k)
    BY DEF BytesInOneDatagram, Last
  <2>1. IOsegment[currentsegment] = segmentsize /\ pc = "done"
    BY DEF Inv, SegmentInv, Closed, Mapped
  <2>2. OneSegment(s, d)
    <3>1. CASE Turn(s, d)
      <4>1. Own(s, d) = {}
        <5> SUFFICES ASSUME NEW f \in Own(s, d) PROVE FALSE
          OBVIOUS
        <5>1. f \in FMMU /\ f.slave = slave /\ (overlap \/ f.dir = dir)
          BY <3>1 DEF Own, Turn
        <5>2. f.slave < slave
          <6>1. Idle /\ Order
            BY <2>1 DEF Idle, Together
          <6>2. QED BY <5>1, <6>1 DEF Order
        <5>3. slave \in Nat
          BY DEF Inv, TypeOK
        <5>4. QED BY <5>1, <5>2, <5>3
      <4>2. QED BY <4>1, NothingOwned DEF Inv
    <3>2. CASE ~Turn(s, d)
      BY <3>2 DEF Together, Whole
    <3>3. QED BY <3>1, <3>2
  <2>3. PICK k \in 0 .. currentsegment :
          \A f \in Own(s, d) : 8 * segstart[k] <= FirstBit(f) /\ LastBit(f) < 8 * End(k)
    BY <2>2 DEF OneSegment
  <2>4. End(k) = segstart[k] + IOsegment[k]
    BY <2>1, <2>3, SegmentAssumption DEF End, Inv, TypeOK, Segments
  <2>5. QED BY <2>3, <2>4 DEF Own, InSegment
<1>2. MapSpec => []Together
  BY Invariance, TogetherInitially, TogetherInductive, PTL DEF MapSpec
<1>3. QED BY <1>1, <1>2, Invariance, PTL

-----------------------------------------------------------------------------
(***************************************************************************)
(* The FMMUs of a byte-oriented slave map the bytes of its SMs.            *)
(***************************************************************************)
\* Of the slave being mapped: the last SM before the gap, the bytes of some of its SMs.
Gap == CHOOSE p \in 1 .. Len(SMs) : Connected(SMs, p) /\ Filled(SMs, p, Bits)
Covered(from, to) == UNION {SMBytes(SMs[i]) : i \in from .. to}

\* What the FMMUs set up for a slave map so far.
Tied(s, d) == UNION {Physical(f) : f \in {g \in FMMU : g.slave = s /\ g.dir = d}}

\* One FMMU maps the run of SMs from "from" to "to"; those before are mapped, in done bytes.
OnRun(from, to, done) ==
  /\ FMMUdone = done /\ Tied(slave, dir) = Covered(1, from - 1) /\ BitCount = 8 * ByteCount
  /\ pc = "fmmu" => SMc = from /\ ByteCount = done
  /\ pc = "join" => /\ SMc \in from .. to
                    /\ PhysStart = SMs[from].start /\ EndAddr = After(SMs[SMc])
                    /\ ByteCount = done + Extent(SMs, from, SMc)
                    /\ Covered(from, SMc) = PhysStart .. EndAddr - 1
  /\ pc = "place" => /\ SMc = IF to < Len(SMs) THEN to + 1 ELSE to
                     /\ PhysStart = SMs[from].start
                     /\ ByteCount = done + Extent(SMs, from, to)
                     /\ Covered(from, to) = PhysStart .. PhysStart + Extent(SMs, from, to) - 1

Creating == pc \in {"fmmu", "join", "place"}

Progress ==
  Creating /\ Bits > 7 =>
    \/ OnRun(1, Gap, 0)
    \/ Gap < Len(SMs) /\ OnRun(Gap + 1, Len(SMs), Extent(SMs, 1, Gap))
    \/ pc = "fmmu" /\ FMMUdone = Rounded(Bits) /\ Tied(slave, dir) = Covered(1, Len(SMs))

\* The mapping of slave s in direction d is through.
Through(s, d) ==
  \/ pc \in {"close", "done"}
  \/ d = dir /\ s < slave
  \/ d = "out" /\ dir = "in" /\ (overlap => s <= slave)
  \/ overlap /\ s < slave
  \/ pc = "account" /\ s = slave /\ d = dir

Complete ==
  \A s \in 1 .. N, d \in Dirs : Through(s, d) /\ slavelist[s][d].bits > 7 =>
    LET sms == slavelist[s][d].sms IN
    Tied(s, d) = UNION {SMBytes(sms[i]) : i \in 1 .. Len(sms)}

\* No slave has FMMUs before its turn.
InTurn ==
  \A f \in FMMU : Through(f.slave, f.dir) \/ (Creating /\ f.slave = slave /\ f.dir = dir)

Ties == Progress /\ Complete /\ InTurn

-----------------------------------------------------------------------------
LEMMA SMFacts ==
  ASSUME TypeOK, slave <= N
  PROVE  /\ Bits \in Nat /\ Len(SMs) \in Nat /\ Rounded(Bits) \in Nat
         /\ \A i \in 1 .. Len(SMs) :
              /\ SMs[i].start \in Nat /\ SMs[i].len \in Nat /\ SMs[i].len > 0
              /\ After(SMs[i]) \in Nat /\ SMs[i].start < After(SMs[i])
              /\ SMBytes(SMs[i]) = SMs[i].start .. After(SMs[i]) - 1
<1>1. Bits \in Nat /\ SMs \in Seq(SyncManagers) /\ Len(SMs) \in Nat BY SlaveTypes
<1>2. Rounded(Bits) \in Nat BY <1>1, RoundedTypes
<1>3. ASSUME NEW i \in 1 .. Len(SMs)
      PROVE  /\ SMs[i].start \in Nat /\ SMs[i].len \in Nat /\ SMs[i].len > 0
             /\ After(SMs[i]) \in Nat /\ SMs[i].start < After(SMs[i])
             /\ SMBytes(SMs[i]) = SMs[i].start .. After(SMs[i]) - 1
  <2>1. SMs[i] \in SyncManagers BY <1>1
  <2>2. SMs[i].start \in Nat /\ SMs[i].len \in Nat /\ SMs[i].len > 0
    BY <2>1 DEF SyncManagers
  <2> QED BY <2>2 DEF After, SMBytes
<1> QED BY <1>1, <1>2, <1>3

\* The gap the assumption promises, and how many bytes lie before it.
LEMMA GapFacts ==
  ASSUME OneGap, TypeOK, slave <= N, Bits > 7
  PROVE  /\ Gap \in 1 .. Len(SMs) /\ Connected(SMs, Gap) /\ Filled(SMs, Gap, Bits)
         /\ Extent(SMs, 1, Gap) \in Nat /\ Extent(SMs, 1, Gap) > 0
         /\ Extent(SMs, 1, Gap) <= Rounded(Bits)
         /\ Gap < Len(SMs) =>
              /\ Extent(SMs, Gap + 1, Len(SMs)) \in Nat /\ Extent(SMs, Gap + 1, Len(SMs)) > 0
              /\ Extent(SMs, 1, Gap) + Extent(SMs, Gap + 1, Len(SMs)) = Rounded(Bits)
         /\ Gap = Len(SMs) => Extent(SMs, 1, Gap) = Rounded(Bits)
<1>1. \E p \in 1 .. Len(SMs) : Connected(SMs, p) /\ Filled(SMs, p, Bits)
  <2> DEFINE g == [slaves |-> slavelist, overlap |-> overlap, blockLRW |-> blockLRW]
  <2>1. g \in Groups /\ g.slaves = slavelist BY DEF TypeOK
  <2>2. slave \in 1 .. Len(slavelist) /\ dir \in Dirs BY ListTypes DEF TypeOK, N
  <2> HIDE DEF g
  <2> QED BY <2>1, <2>2 DEF OneGap, Bits, SMs
<1>2. Gap \in 1 .. Len(SMs) /\ Connected(SMs, Gap) /\ Filled(SMs, Gap, Bits) BY <1>1 DEF Gap
<1>3. PICK p \in 1 .. Len(SMs) : p = Gap BY <1>2
<1>4. PICK n \in Nat : n = Len(SMs) /\ n \in 1 .. Len(SMs) BY <1>3, SMFacts
<1>5. \A i, j \in 1 .. n : i < j => After(SMs[i]) <= SMs[j].start
  BY <1>2, <1>4 DEF Connected
<1>6. \A i \in 1 .. n : /\ SMs[i].start \in Nat /\ After(SMs[i]) \in Nat
                        /\ SMs[i].start < After(SMs[i])
  BY <1>4, SMFacts
<1>7. ASSUME NEW i \in 1 .. n, NEW j \in 1 .. n, i <= j
      PROVE  Extent(SMs, i, j) \in Nat /\ Extent(SMs, i, j) > 0
  <2>1. CASE i = j BY <1>6, <2>1 DEF Extent
  <2>2. CASE i < j
    <3>1. After(SMs[i]) <= SMs[j].start BY <1>5, <2>2
    <3>2. /\ SMs[i].start \in Nat /\ After(SMs[i]) \in Nat /\ SMs[i].start < After(SMs[i])
          /\ SMs[j].start \in Nat /\ After(SMs[j]) \in Nat /\ SMs[j].start < After(SMs[j])
      BY <1>6
    <3> QED BY <3>1, <3>2 DEF Extent
  <2> QED BY <1>7, <2>1, <2>2
<1>8. 1 \in 1 .. n /\ p \in 1 .. n BY <1>3, <1>4
<1>9. Extent(SMs, 1, p) \in Nat /\ Extent(SMs, 1, p) > 0 BY <1>7, <1>8
<1>10. p < n => /\ Extent(SMs, p + 1, n) \in Nat /\ Extent(SMs, p + 1, n) > 0
                /\ Extent(SMs, 1, p) + Extent(SMs, p + 1, n) = Rounded(Bits)
  <2> SUFFICES ASSUME p < n
               PROVE  /\ Extent(SMs, p + 1, n) \in Nat /\ Extent(SMs, p + 1, n) > 0
                      /\ Extent(SMs, 1, p) + Extent(SMs, p + 1, n) = Rounded(Bits)
    OBVIOUS
  <2>1. p + 1 \in 1 .. n /\ n \in 1 .. n /\ p + 1 <= n BY <1>8
  <2>2. Extent(SMs, p + 1, n) \in Nat /\ Extent(SMs, p + 1, n) > 0 BY <1>7, <2>1
  <2> QED BY <1>2, <1>3, <1>4, <2>2 DEF Filled
<1>11. p = n => Extent(SMs, 1, p) = Rounded(Bits)
  <2> SUFFICES ASSUME p = n PROVE Extent(SMs, 1, p) = Rounded(Bits)
    OBVIOUS
  <2>1. ~(p < n) OBVIOUS
  <2>2. ~(Gap < Len(SMs)) BY <1>3, <1>4, <2>1, Zenon
  <2> QED BY <1>2, <1>3, <2>2 DEF Filled
<1>12. Extent(SMs, 1, p) <= Rounded(Bits)
  <2>1. p < n \/ p = n BY <1>8
  <2>2. p < n => Extent(SMs, 1, p) <= Rounded(Bits) BY <1>9, <1>10
  <2>3. p = n => Extent(SMs, 1, p) <= Rounded(Bits) BY <1>9, <1>11
  <2> QED BY <2>1, <2>2, <2>3
<1> QED BY <1>2, <1>3, <1>4, <1>9, <1>10, <1>11, <1>12

\* The SMs of one run, from `from' to `to', that follow `done' bytes mapped before.
RunOf(from, to, done) ==
  /\ from \in 1 .. Len(SMs) /\ to \in from .. Len(SMs) /\ done \in Nat
  /\ \A i \in from .. to - 1 : SMs[i + 1].start = After(SMs[i])
  /\ to < Len(SMs) => SMs[to + 1].start > After(SMs[to])
  /\ \A i \in from .. to : /\ Extent(SMs, from, i) \in Nat /\ Extent(SMs, from, i) > 0
                           /\ i < Len(SMs) => done + Extent(SMs, from, i) < Rounded(Bits)

LEMMA Runs ==
  ASSUME OneGap, TypeOK, slave <= N, Bits > 7
  PROVE  /\ RunOf(1, Gap, 0)
         /\ Gap < Len(SMs) => RunOf(Gap + 1, Len(SMs), Extent(SMs, 1, Gap))
<1>1. PICK p \in 1 .. Len(SMs) : p = Gap BY GapFacts
<1>2. PICK n \in Nat : n = Len(SMs) /\ n \in 1 .. Len(SMs) BY <1>1, SMFacts
<1>3. /\ \A i, j \in 1 .. n : i < j => After(SMs[i]) <= SMs[j].start
      /\ \A i \in 1 .. n - 1 :
           /\ i = p => After(SMs[i]) < SMs[i + 1].start
           /\ i # p => SMs[i + 1].start = After(SMs[i])
  BY <1>1, <1>2, GapFacts DEF Connected
<1>4. \A i \in 1 .. n : /\ SMs[i].start \in Nat /\ After(SMs[i]) \in Nat
                        /\ SMs[i].start < After(SMs[i])
  BY <1>2, SMFacts
<1>5. ASSUME NEW from \in 1 .. n, NEW i \in from .. n
      PROVE  /\ Extent(SMs, from, i) \in Nat /\ Extent(SMs, from, i) > 0
             /\ \A to \in from .. n : i < to => Extent(SMs, from, i) < Extent(SMs, from, to)
  <2>1. i \in 1 .. n /\ (from = i \/ After(SMs[from]) <= SMs[i].start) BY <1>3
  <2>2. /\ SMs[i].start \in Nat /\ After(SMs[i]) \in Nat /\ SMs[i].start < After(SMs[i])
        /\ SMs[from].start \in Nat /\ After(SMs[from]) \in Nat
        /\ SMs[from].start < After(SMs[from])
    BY <1>4, <2>1
  <2>3. Extent(SMs, from, i) \in Nat /\ Extent(SMs, from, i) > 0
    BY <2>1, <2>2 DEF Extent
  <2>4. ASSUME NEW to \in from .. n, i < to
        PROVE  Extent(SMs, from, i) < Extent(SMs, from, to)
    <3>1. to \in 1 .. n OBVIOUS
    <3>2. After(SMs[i]) <= SMs[to].start BY <1>3, <2>1, <2>4, <3>1
    <3>3. SMs[to].start \in Nat /\ After(SMs[to]) \in Nat /\ SMs[to].start < After(SMs[to])
      BY <1>4, <3>1
    <3> QED BY <2>2, <3>2, <3>3 DEF Extent
  <2> QED BY <2>3, <2>4
<1>6. /\ Extent(SMs, 1, p) \in Nat /\ Rounded(Bits) \in Nat /\ Extent(SMs, 1, p) <= Rounded(Bits)
      /\ p < n => /\ Extent(SMs, p + 1, n) \in Nat /\ Extent(SMs, p + 1, n) > 0
                  /\ Extent(SMs, 1, p) + Extent(SMs, p + 1, n) = Rounded(Bits)
  BY <1>1, <1>2, GapFacts, SMFacts
<1>7. RunOf(1, p, 0)
  <2>1. \A i \in 1 .. p - 1 : SMs[i + 1].start = After(SMs[i])
    BY <1>1, <1>2, <1>3
  <2>2. p < n => SMs[p + 1].start > After(SMs[p]) BY <1>1, <1>2, <1>3, <1>4
  <2>3. ASSUME NEW i \in 1 .. p
        PROVE  /\ Extent(SMs, 1, i) \in Nat /\ Extent(SMs, 1, i) > 0
               /\ i < n => 0 + Extent(SMs, 1, i) < Rounded(Bits)
    <3>1. /\ Extent(SMs, 1, i) \in Nat /\ Extent(SMs, 1, i) > 0
          /\ i < p => Extent(SMs, 1, i) < Extent(SMs, 1, p)
      BY <1>1, <1>2, <1>5
    <3>2. CASE i < p BY <1>6, <3>1, <3>2
    <3>3. CASE i = p BY <1>6, <3>1, <3>3
    <3> QED BY <3>2, <3>3, <1>1, <1>2
  <2>4. 1 \in 1 .. n /\ p \in 1 .. n /\ 0 \in Nat BY <1>1, <1>2
  <2>5. \A i \in 1 .. p : i < Len(SMs) => 0 + Extent(SMs, 1, i) < Rounded(Bits)
    BY <1>2, <2>3
  <2> QED BY <1>2, <2>1, <2>2, <2>3, <2>4, <2>5 DEF RunOf
<1>8. p < n => RunOf(p + 1, n, Extent(SMs, 1, p))
  <2> SUFFICES ASSUME p < n PROVE RunOf(p + 1, n, Extent(SMs, 1, p))
    OBVIOUS
  <2>1. p + 1 \in 1 .. n BY <1>1, <1>2
  <2>2. \A i \in p + 1 .. n - 1 : SMs[i + 1].start = After(SMs[i])
    <3> SUFFICES ASSUME NEW i \in p + 1 .. n - 1 PROVE SMs[i + 1].start = After(SMs[i])
      OBVIOUS
    <3>1. i \in 1 .. n - 1 /\ i # p BY <1>1, <1>2
    <3> QED BY <1>3, <3>1
  <2>3. ASSUME NEW i \in p + 1 .. n
        PROVE  /\ Extent(SMs, p + 1, i) \in Nat /\ Extent(SMs, p + 1, i) > 0
               /\ i < n => Extent(SMs, 1, p) + Extent(SMs, p + 1, i) < Rounded(Bits)
    <3>1. /\ Extent(SMs, p + 1, i) \in Nat /\ Extent(SMs, p + 1, i) > 0
          /\ i < n => Extent(SMs, p + 1, i) < Extent(SMs, p + 1, n)
      BY <1>5, <2>1
    <3> QED BY <1>6, <3>1
  <2> QED BY <1>1, <1>2, <1>6, <2>1, <2>2, <2>3 DEF RunOf
<1> QED BY <1>1, <1>2, <1>7, <1>8

LEMMA CoveredNext ==
  ASSUME TypeOK, slave <= N, NEW from \in 1 .. Len(SMs), NEW i \in from - 1 .. Len(SMs) - 1
  PROVE  Covered(from, i + 1) = Covered(from, i) \cup SMBytes(SMs[i + 1])
<1>1. from .. i + 1 = (from .. i) \cup {i + 1} BY SMFacts
<1> QED BY <1>1 DEF Covered

LEMMA Intervals ==
  ASSUME NEW a \in Nat, NEW b \in Nat, NEW c \in Nat, a <= b, b <= c
  PROVE  (a .. b - 1) \cup (b .. c - 1) = a .. c - 1
OBVIOUS

\* More bits are needed as long as bytes are.
LEMMA BitsAndBytes ==
  ASSUME NEW b \in Nat, NEW x \in Nat
  PROVE  8 * x < b <=> x < Rounded(b)
BY DEF Rounded

-----------------------------------------------------------------------------
\* Steps that leave the FMMUs and the list of slaves alone.
LEMMA TiedFrame ==
  ASSUME FMMU' = FMMU
  PROVE  \A s, d : Tied(s, d)' = Tied(s, d)
BY DEF Tied

LEMMA CreateFrame ==
  ASSUME UNCHANGED <<slavelist, overlap, slave, dir>>
  PROVE  /\ SMs' = SMs /\ Bits' = Bits /\ Gap' = Gap
         /\ \A i, j : Covered(i, j)' = Covered(i, j)
BY DEF SMs, Bits, Gap, Covered

\* Complete and InTurn where no slave's mapping begins or ends.
LEMMA CompleteFrame ==
  ASSUME Complete, InTurn, UNCHANGED <<slavelist, overlap, slave, dir, FMMU>>,
         pc \in {"slave", "fmmu", "join", "place"}, pc' \in {"fmmu", "join", "place"},
         Creating => Creating'
  PROVE  Complete' /\ InTurn'
<1>1. \A s, d : Through(s, d)' <=> Through(s, d) BY DEF Through
<1>2. Complete' BY <1>1, TiedFrame DEF Complete, N
<1> QED BY <1>1, <1>2 DEF InTurn

LEMMA CallCreateTies == Inv /\ OneGap /\ Ties /\ CallCreate => Ties'
<1> SUFFICES ASSUME Inv, OneGap, Ties, CallCreate PROVE Ties'
  OBVIOUS
<1>1. /\ pc = "slave" /\ pc' = "fmmu" /\ slave <= N
      /\ SMc' = 1 /\ ByteCount' = 0 /\ BitCount' = 0 /\ FMMUdone' = 0
      /\ UNCHANGED <<slavelist, overlap, slave, dir, FMMU>>
  BY DEF CallCreate, ToMap
<1>2. Complete' /\ InTurn' BY <1>1, CompleteFrame DEF Ties, Creating
<1>3. Tied(slave, dir) = {}
  <2>1. slave \in Nat BY DEF Inv, TypeOK
  <2>2. ~Through(slave, dir)
    <3>1. pc = "slave" /\ ~(slave < slave) BY <1>1, <2>1
    <3>2. ~(dir = "out" /\ dir = "in") OBVIOUS
    <3> QED BY <3>1, <3>2 DEF Through
  <2>3. {g \in FMMU : g.slave = slave /\ g.dir = dir} = {}
    BY <1>1, <2>2 DEF Ties, InTurn, Creating
  <2> QED BY <2>3 DEF Tied
<1>4. Progress'
  <2>1. Covered(1, 0) = {} BY DEF Covered
  <2>2. Tied(slave, dir)' = Covered(1, 0)' BY <1>1, <1>3, <2>1, TiedFrame, CreateFrame
  <2>3. OnRun(1, Gap, 0)' BY <1>1, <2>2 DEF OnRun
  <2> QED BY <2>3 DEF Progress
<1> QED BY <1>2, <1>4 DEF Ties

\* A step of one run.
LEMMA RunFrame ==
  ASSUME UNCHANGED <<slavelist, overlap, slave, dir, FMMU>>, Progress',
         Complete, InTurn, Creating, pc' \in {"fmmu", "join", "place"}
  PROVE  Ties'
BY CompleteFrame DEF Ties, Creating

LEMMA StartFMMUTies == Inv /\ OneGap /\ Ties /\ StartFMMU => Ties'
<1> SUFFICES ASSUME Inv, OneGap, Ties, StartFMMU PROVE Ties'
  OBVIOUS
<1>1. /\ pc = "fmmu" /\ pc' = "join" /\ slave <= N /\ TypeOK /\ FMMUdone < Rounded(Bits)
      /\ TakeSM(SMc) /\ PhysStart' = SMs[SMc].start
      /\ UNCHANGED <<slavelist, overlap, slave, dir, FMMU, FMMUdone>>
  BY DEF StartFMMU, Inv, Walk
<1>2. ASSUME NEW from, NEW to, NEW done, RunOf(from, to, done), OnRun(from, to, done)
      PROVE  OnRun(from, to, done)'
  <2>1. /\ from \in 1 .. Len(SMs) /\ to \in from .. Len(SMs) /\ done \in Nat
        /\ from \in from .. to /\ SMc = from /\ ByteCount = done /\ BitCount = 8 * done
        /\ FMMUdone = done /\ Len(SMs) \in Nat
    BY <1>1, <1>2, SMFacts DEF RunOf, OnRun
  <2>2. /\ SMs[from].start \in Nat /\ SMs[from].len \in Nat
        /\ SMBytes(SMs[from]) = SMs[from].start .. After(SMs[from]) - 1
    BY <1>1, <2>1, SMFacts
  <2>3. /\ SMc' = from /\ EndAddr' = After(SMs[from])
        /\ ByteCount' = done + SMs[from].len /\ BitCount' = 8 * done + 8 * SMs[from].len
    BY <1>1, <2>1 DEF TakeSM, After
  <2>4. Extent(SMs, from, from) = SMs[from].len BY <2>2 DEF Extent, After
  <2>5. Covered(from, from) = PhysStart' .. EndAddr' - 1
    <3>1. from .. from = {from} BY <2>1
    <3>2. Covered(from, from) = SMBytes(SMs[from]) BY <3>1 DEF Covered
    <3> QED BY <1>1, <2>1, <2>2, <2>3, <3>2
  <2>6. BitCount' = 8 * ByteCount' BY <2>1, <2>2, <2>3
  <2>7. Tied(slave, dir)' = Covered(1, from - 1)'
    BY <1>1, <1>2, TiedFrame, CreateFrame DEF OnRun
  <2>8. SMs' = SMs BY <1>1, CreateFrame
  <2>9. Covered(from, SMc)' = Covered(from, from) BY <2>3, <2>8 DEF Covered
  <2> QED BY <1>1, <2>1, <2>3, <2>4, <2>5, <2>6, <2>7, <2>8, <2>9 DEF OnRun
<1>3. CASE Bits > 7
  <2>1. /\ RunOf(1, Gap, 0)
        /\ Gap < Len(SMs) => RunOf(Gap + 1, Len(SMs), Extent(SMs, 1, Gap))
    BY <1>1, <1>3, Runs
  <2>2. \/ OnRun(1, Gap, 0)
        \/ Gap < Len(SMs) /\ OnRun(Gap + 1, Len(SMs), Extent(SMs, 1, Gap))
    <3>1. FMMUdone # Rounded(Bits) BY <1>1, SMFacts DEF TypeOK
    <3> QED BY <1>1, <1>3, <3>1 DEF Ties, Progress, Creating
  <2>3. SMs' = SMs /\ Gap' = Gap BY <1>1, CreateFrame
  <2>4. PICK p, n, x : p = Gap /\ n = Len(SMs) /\ x = Extent(SMs, 1, Gap) OBVIOUS
  <2>5. p = Gap' /\ n = Len(SMs)' /\ x = Extent(SMs, 1, Gap)' BY <2>3, <2>4
  <2>6. OnRun(1, p, 0) => OnRun(1, p, 0)' BY <1>2, <2>1, <2>4
  <2>7. p < n /\ OnRun(p + 1, n, x) => OnRun(p + 1, n, x)' BY <1>2, <2>1, <2>4
  <2>8. OnRun(1, p, 0)' \/ (p < n /\ OnRun(p + 1, n, x)') BY <2>2, <2>4, <2>6, <2>7
  <2>9. Progress' BY <2>5, <2>8 DEF Progress
  <2> QED BY <1>1, <2>9, RunFrame DEF Ties, Creating
<1>4. CASE ~(Bits > 7)
  <2>1. Progress' BY <1>1, <1>4, CreateFrame DEF Progress
  <2> QED BY <1>1, <2>1, RunFrame DEF Ties, Creating
<1> QED BY <1>3, <1>4

LEMMA JoinSMTies == Inv /\ OneGap /\ Ties /\ JoinSM => Ties'
<1> SUFFICES ASSUME Inv, OneGap, Ties, JoinSM PROVE Ties'
  OBVIOUS
<1>1. /\ pc = "join" /\ pc' \in {"join", "place"} /\ slave <= N /\ TypeOK
      /\ UNCHANGED <<slavelist, overlap, slave, dir, FMMU, FMMUdone, PhysStart>>
  BY DEF JoinSM, Inv, Walk
<1>2. ASSUME NEW from, NEW to, NEW done, RunOf(from, to, done), OnRun(from, to, done), Bits > 7
      PROVE  OnRun(from, to, done)'
  <2>1. PICK n \in Nat : n = Len(SMs) /\ from \in 1 .. n /\ to \in from .. n /\ done \in Nat
    BY <1>1, <1>2, SMFacts DEF RunOf
  <2>2. PICK i \in from .. to : i = SMc BY <1>1, <1>2 DEF OnRun
  <2>3. /\ FMMUdone = done /\ BitCount = 8 * ByteCount /\ PhysStart = SMs[from].start
        /\ EndAddr = After(SMs[i]) /\ ByteCount = done + Extent(SMs, from, i)
        /\ Covered(from, i) = PhysStart .. EndAddr - 1
    BY <1>1, <1>2, <2>2 DEF OnRun
  <2>4. /\ Extent(SMs, from, i) \in Nat /\ ByteCount \in Nat
        /\ i < n => BitCount < Bits
    <3>1. /\ Extent(SMs, from, i) \in Nat
          /\ i < n => done + Extent(SMs, from, i) < Rounded(Bits)
      BY <1>2, <2>1, <2>2 DEF RunOf
    <3>2. ByteCount \in Nat BY <1>1 DEF TypeOK
    <3>3. Bits \in Nat BY <1>1, SMFacts
    <3> QED BY <2>3, <3>1, <3>2, <3>3, BitsAndBytes
  <2>5. SMs' = SMs /\ (\A j, k : Covered(j, k)' = Covered(j, k))
    BY <1>1, CreateFrame
  <2>6. Tied(slave, dir)' = Covered(1, from - 1)'
    BY <1>1, <1>2, TiedFrame, CreateFrame DEF OnRun
  <2>7. \A k \in 1 .. n : /\ SMs[k].start \in Nat /\ SMs[k].len \in Nat
                          /\ After(SMs[k]) \in Nat /\ SMs[k].start < After(SMs[k])
                          /\ SMBytes(SMs[k]) = SMs[k].start .. After(SMs[k]) - 1
    BY <1>1, <2>1, SMFacts
  <2>8. CASE i < to
    <3>1. i < n /\ i + 1 \in from .. to /\ i + 1 \in 1 .. n /\ i \in 1 .. n BY <2>1, <2>2, <2>8
    <3>2. SMs[i + 1].start = After(SMs[i]) BY <1>2, <2>2, <2>8 DEF RunOf
    <3>3. ~(SMs[i + 1].start > EndAddr)
      <4>1. After(SMs[i]) \in Nat BY <2>7, <3>1
      <4> QED BY <2>3, <3>2, <4>1
    <3>4. TakeSM(i + 1) /\ pc' = pc
      BY <2>1, <2>2, <2>4, <3>1, <3>3 DEF JoinSM
    <3>5. /\ SMc' = i + 1 /\ EndAddr' = After(SMs[i + 1])
          /\ ByteCount' = ByteCount + SMs[i + 1].len
          /\ BitCount' = BitCount + 8 * SMs[i + 1].len
      BY <3>4 DEF TakeSM, After
    <3>6. Extent(SMs, from, i + 1) = Extent(SMs, from, i) + SMs[i + 1].len
      <4>1. After(SMs[i + 1]) = After(SMs[i]) + SMs[i + 1].len BY <3>2 DEF After
      <4>2. /\ After(SMs[i]) \in Nat /\ SMs[i + 1].len \in Nat /\ SMs[from].start \in Nat
        BY <2>1, <2>7, <3>1
      <4> QED BY <4>1, <4>2 DEF Extent
    <3>7. ByteCount' = done + Extent(SMs, from, i + 1) /\ BitCount' = 8 * ByteCount'
      <4>1. PICK l \in Nat : l = SMs[i + 1].len BY <2>7, <3>1
      <4>2. PICK x \in Nat : x = Extent(SMs, from, i) BY <2>4
      <4>3. /\ ByteCount = done + x /\ BitCount = 8 * ByteCount
            /\ ByteCount' = ByteCount + l /\ BitCount' = BitCount + 8 * l
            /\ Extent(SMs, from, i + 1) = x + l
        BY <2>3, <3>5, <3>6, <4>1, <4>2
      <4> QED BY <2>1, <4>3
    <3>8. Covered(from, i + 1) = PhysStart .. After(SMs[i + 1]) - 1
      <4>1. Covered(from, i + 1) = Covered(from, i) \cup SMBytes(SMs[i + 1])
        BY <1>1, <2>1, <2>2, <3>1, CoveredNext
      <4>2. SMBytes(SMs[i + 1]) = EndAddr .. After(SMs[i + 1]) - 1
        BY <2>3, <2>7, <3>1, <3>2
      <4>3. PhysStart \in Nat /\ EndAddr \in Nat /\ After(SMs[i + 1]) \in Nat
        BY <1>1, <2>7, <3>1 DEF TypeOK
      <4>4. PhysStart <= EndAddr /\ EndAddr <= After(SMs[i + 1])
        <5>1. EndAddr < After(SMs[i + 1]) BY <2>3, <2>7, <3>1, <3>2
        <5>2. Extent(SMs, from, i) = EndAddr - PhysStart BY <2>3 DEF Extent
        <5> QED BY <2>4, <4>3, <5>1, <5>2
      <4>5. (PhysStart .. EndAddr - 1) \cup (EndAddr .. After(SMs[i + 1]) - 1)
              = PhysStart .. After(SMs[i + 1]) - 1
        BY <4>3, <4>4, Intervals
      <4>6. Covered(from, i) = PhysStart .. EndAddr - 1 BY <2>3
      <4> QED BY <4>1, <4>2, <4>5, <4>6, Zenon
    <3>9. pc' = "join" BY <1>1, <3>4
    <3>10. Covered(from, SMc)' = PhysStart' .. EndAddr' - 1
      <4>1. Covered(from, SMc)' = Covered(from, i + 1) BY <2>5, <3>5 DEF Covered
      <4> QED BY <1>1, <3>5, <3>8, <4>1
    <3> QED BY <1>1, <2>3, <2>5, <2>6, <3>1, <3>5, <3>7, <3>9, <3>10 DEF OnRun
  <2>9. CASE i = to
    <3>1. /\ pc' = "place" /\ UNCHANGED <<EndAddr, ByteCount, BitCount>>
          /\ SMc' = IF to < n THEN to + 1 ELSE to
      <4>1. CASE to < n
        <5>1. SMs[to + 1].start > After(SMs[to]) BY <1>2, <2>1, <4>1 DEF RunOf
        <5> QED BY <2>1, <2>2, <2>3, <2>4, <2>9, <4>1, <5>1 DEF JoinSM
      <4>2. CASE ~(to < n) BY <2>1, <2>2, <2>9, <4>2 DEF JoinSM
      <4> QED BY <4>1, <4>2
    <3>2. Covered(from, to) = PhysStart .. PhysStart + Extent(SMs, from, to) - 1
      <4>1. Extent(SMs, from, to) = EndAddr - PhysStart BY <2>3, <2>9 DEF Extent
      <4>2. PhysStart \in Nat /\ EndAddr \in Nat BY <1>1 DEF TypeOK
      <4> QED BY <2>3, <2>9, <4>1, <4>2
    <3>3. ByteCount' = done + Extent(SMs, from, to) /\ BitCount' = 8 * ByteCount'
      BY <2>3, <2>9, <3>1
    <3> QED BY <1>1, <2>1, <2>3, <2>5, <2>6, <3>1, <3>2, <3>3 DEF OnRun
  <2>10. i < to \/ i = to BY <2>1, <2>2
  <2> QED BY <2>8, <2>9, <2>10
<1>3. Progress'
  <2> SUFFICES ASSUME Bits > 7 PROVE Progress' BY <1>1, CreateFrame DEF Progress
  <2>1. /\ RunOf(1, Gap, 0)
        /\ Gap < Len(SMs) => RunOf(Gap + 1, Len(SMs), Extent(SMs, 1, Gap))
    BY <1>1, Runs
  <2>2. \/ OnRun(1, Gap, 0)
        \/ Gap < Len(SMs) /\ OnRun(Gap + 1, Len(SMs), Extent(SMs, 1, Gap))
    BY <1>1 DEF Ties, Progress, Creating
  <2>3. PICK p, n, x : p = Gap /\ n = Len(SMs) /\ x = Extent(SMs, 1, Gap) OBVIOUS
  <2>4. p = Gap' /\ n = Len(SMs)' /\ x = Extent(SMs, 1, Gap)' BY <1>1, <2>3, CreateFrame
  <2>5. OnRun(1, p, 0) => OnRun(1, p, 0)' BY <1>2, <2>1, <2>3
  <2>6. p < n /\ OnRun(p + 1, n, x) => OnRun(p + 1, n, x)' BY <1>2, <2>1, <2>3
  <2> QED BY <2>2, <2>3, <2>4, <2>5, <2>6 DEF Progress
<1> QED BY <1>1, <1>3, RunFrame DEF Ties, Creating

-----------------------------------------------------------------------------
\* A slave is not through while it is being mapped.
LEMMA NotThrough ==
  ASSUME TypeOK, pc \in {"slave", "fmmu", "join", "place"}
  PROVE  ~Through(slave, dir)
<1>1. slave \in Nat BY DEF TypeOK
<1>2. ~(slave < slave) /\ ~(dir = "out" /\ dir = "in") BY <1>1
<1> QED BY <1>2 DEF Through

\* An FMMU of a byte-oriented slave maps the bytes from PhysStart on.
LEMMA PlaceTies ==
  ASSUME TypeOK, slave <= N, Bits > 7, PlaceFMMU, NEW size \in Nat,
         size = IF ByteCount + FMMUdone > Rounded(Bits) THEN Rounded(Bits) - FMMUdone
                ELSE ByteCount
  PROVE  /\ FMMUdone' = FMMUdone + size
         /\ Tied(slave, dir)' = Tied(slave, dir) \cup (PhysStart .. PhysStart + size - 1)
<1>1. Bytes = Rounded(Bits) BY DEF Bytes
<1>2. Bytes # 0 BY <1>1, SlaveTypes DEF Rounded
<1>3. /\ \E programmed \in BOOLEAN : FMMU' = FMMU \cup {Entry(NextByte, 0, size, 7, programmed)}
      /\ FMMUdone' = FMMUdone + size
  BY <1>1, <1>2 DEF PlaceFMMU, PlaceBytes, SetFMMU, Entry
<1>4. PICK programmed : FMMU' = FMMU \cup {Entry(NextByte, 0, size, 7, programmed)} BY <1>3
<1>5. PICK f : /\ FMMU' = FMMU \cup {f} /\ f.slave = slave /\ f.dir = dir
               /\ Physical(f) = PhysStart .. PhysStart + size - 1
  <2> DEFINE e == Entry(NextByte, 0, size, 7, programmed)
  <2>1. e.slave = slave /\ e.dir = dir /\ e.PhysStart = PhysStart /\ e.LogLength = size
    BY DEF Entry
  <2>2. FMMU' = FMMU \cup {e} BY <1>4
  <2> HIDE DEF e
  <2> QED BY <2>1, <2>2 DEF Physical
<1>6. UNCHANGED <<slave, dir>> BY DEF PlaceFMMU
<1>7. {g \in FMMU' : g.slave = slave /\ g.dir = dir}
        = {g \in FMMU : g.slave = slave /\ g.dir = dir} \cup {f}
  BY <1>5
<1>8. Tied(slave, dir)' = UNION {Physical(g) : g \in {h \in FMMU' : h.slave = slave /\ h.dir = dir}}
  BY <1>6 DEF Tied
<1> DEFINE A == {g \in FMMU : g.slave = slave /\ g.dir = dir}
<1>9. UNION {Physical(g) : g \in A \cup {f}} = (UNION {Physical(g) : g \in A}) \cup Physical(f)
  <2> HIDE DEF A
  <2> QED OBVIOUS
<1>10. Tied(slave, dir)' = UNION {Physical(g) : g \in A \cup {f}} BY <1>7, <1>8
<1>11. Tied(slave, dir) = UNION {Physical(g) : g \in A} BY DEF Tied
<1> QED BY <1>3, <1>5, <1>9, <1>10, <1>11

\* The bytes of two runs are those of both.
LEMMA CoveredSplit ==
  ASSUME NEW p \in Nat, NEW q \in Nat, p <= q
  PROVE  Covered(1, p) \cup Covered(p + 1, q) = Covered(1, q)
<1>1. 1 .. q = (1 .. p) \cup (p + 1 .. q) OBVIOUS
<1> QED BY <1>1 DEF Covered

LEMMA PlaceFMMUTies == Inv /\ OneGap /\ Ties /\ PlaceFMMU => Ties'
<1> SUFFICES ASSUME Inv, OneGap, Ties, PlaceFMMU PROVE Ties'
  OBVIOUS
<1>1. /\ pc = "place" /\ pc' = "fmmu" /\ slave <= N /\ TypeOK /\ Bits > 0
      /\ FMMUdone < Rounded(Bits)
      /\ UNCHANGED <<slavelist, overlap, slave, dir, SMc, ByteCount, BitCount>>
  BY DEF PlaceFMMU, Inv, Walk
<1>2. PICK f : FMMU' = FMMU \cup {f} /\ f.slave = slave /\ f.dir = dir
  <2>1. CASE Bytes = 0 BY <1>1, <2>1, PlaceBitsStep DEF PlaceFMMU
  <2>2. CASE Bytes # 0 BY <1>1, <2>2, PlaceBytesStep DEF PlaceFMMU
  <2> QED BY <2>1, <2>2
<1>3. ~Through(slave, dir) /\ (\A s, d : Through(s, d)' <=> Through(s, d))
  BY <1>1, NotThrough DEF Through
<1>4. Complete'
  <2> SUFFICES ASSUME NEW s \in 1 .. N, NEW d \in Dirs, Through(s, d), slavelist[s][d].bits > 7
               PROVE  Tied(s, d)' = UNION {SMBytes(slavelist[s][d].sms[i]) :
                                             i \in 1 .. Len(slavelist[s][d].sms)}
    BY <1>1, <1>3 DEF Complete, N
  <2>1. ~(f.slave = s /\ f.dir = d) BY <1>2, <1>3
  <2>2. Tied(s, d)' = Tied(s, d) BY <1>2, <2>1 DEF Tied
  <2> QED BY <2>2 DEF Ties, Complete
<1>5. InTurn' BY <1>1, <1>2, <1>3 DEF Ties, InTurn, Creating
<1>6. Progress'
  <2> SUFFICES ASSUME Bits > 7 PROVE Progress' BY <1>1, CreateFrame DEF Progress
  <2>1. PICK p \in Nat, n \in Nat, R \in Nat, x \in Nat :
          /\ p = Gap /\ n = Len(SMs) /\ R = Rounded(Bits) /\ x = Extent(SMs, 1, Gap)
          /\ p \in 1 .. n /\ x > 0 /\ x <= R
    BY <1>1, GapFacts, SMFacts
  <2>2. /\ p = Gap' /\ n = Len(SMs)' /\ R = Rounded(Bits)' /\ x = Extent(SMs, 1, Gap)'
        /\ \A i, j : Covered(i, j)' = Covered(i, j)
    BY <1>1, <2>1, CreateFrame DEF Rounded, Extent
  <2>3. \/ OnRun(1, p, 0)
        \/ p < n /\ OnRun(p + 1, n, x)
    BY <1>1, <2>1 DEF Ties, Progress, Creating
  <2>4. ASSUME NEW from, NEW to, NEW done, RunOf(from, to, done), OnRun(from, to, done),
               NEW y \in Nat, y = Extent(SMs, from, to),
               y = IF ByteCount + FMMUdone > R THEN R - FMMUdone ELSE ByteCount
        PROVE  FMMUdone' = done + y /\ Tied(slave, dir)' = Covered(1, to)
    <3>1. /\ FMMUdone' = FMMUdone + y
          /\ Tied(slave, dir)' = Tied(slave, dir) \cup (PhysStart .. PhysStart + y - 1)
      BY <1>1, <2>1, <2>4, PlaceTies
    <3>2. Tied(slave, dir) = Covered(1, from - 1) /\ FMMUdone = done
      BY <2>4 DEF OnRun
    <3>3. Covered(from, to) = PhysStart .. PhysStart + y - 1
      BY <1>1, <2>4 DEF OnRun
    <3>4. PICK b \in Nat : b + 1 = from /\ from - 1 = b /\ to \in Nat /\ b <= to
      BY <2>1, <2>4 DEF RunOf
    <3>5. Covered(1, b) \cup Covered(b + 1, to) = Covered(1, to) BY <3>4, CoveredSplit
    <3> QED BY <3>1, <3>2, <3>3, <3>4, <3>5
  <2>5. RunOf(1, p, 0) /\ (p < n => RunOf(p + 1, n, x)) BY <1>1, <2>1, Runs
  <2>6. CASE OnRun(1, p, 0) /\ p < n
    <3>1. ByteCount = x /\ FMMUdone = 0 /\ SMc = p + 1 /\ BitCount = 8 * ByteCount
      BY <1>1, <2>1, <2>6 DEF OnRun
    <3>2. FMMUdone' = 0 + x /\ Tied(slave, dir)' = Covered(1, p)
      <4>1. x = IF ByteCount + FMMUdone > R THEN R - FMMUdone ELSE ByteCount BY <2>1, <3>1
      <4> QED BY <2>1, <2>4, <2>5, <2>6, <4>1
    <3>3. OnRun(p + 1, n, x)'
      <4>1. (p + 1) - 1 = p BY <2>1
      <4>2. FMMUdone' = x BY <2>1, <3>2
      <4> QED BY <1>1, <2>2, <3>1, <3>2, <4>1, <4>2 DEF OnRun
    <3> QED BY <2>2, <2>6, <3>3 DEF Progress
  <2>7. ASSUME FMMUdone' = R, Tied(slave, dir)' = Covered(1, n)
        PROVE  Progress'
    <3>1. Covered(1, n) = Covered(1, Len(SMs))' BY <2>2
    <3> QED BY <1>1, <2>2, <2>7, <3>1 DEF Progress
  <2>8. CASE OnRun(1, p, 0) /\ p = n
    <3>1. x = R BY <1>1, <2>1, <2>8, GapFacts
    <3>2. ByteCount = x /\ FMMUdone = 0 BY <1>1, <2>1, <2>8 DEF OnRun
    <3>3. FMMUdone' = 0 + x /\ Tied(slave, dir)' = Covered(1, p)
      <4>1. x = IF ByteCount + FMMUdone > R THEN R - FMMUdone ELSE ByteCount BY <2>1, <3>1, <3>2
      <4> QED BY <2>1, <2>4, <2>5, <2>8, <4>1
    <3>4. FMMUdone' = R BY <2>1, <3>1, <3>3
    <3> QED BY <2>7, <2>8, <3>3, <3>4
  <2>9. CASE p < n /\ OnRun(p + 1, n, x)
    <3>1. PICK y \in Nat : y = Extent(SMs, p + 1, n) /\ y > 0 /\ x + y = R
      BY <1>1, <2>1, <2>9, GapFacts
    <3>2. ByteCount = x + y /\ FMMUdone = x BY <1>1, <2>1, <2>9, <3>1 DEF OnRun
    <3>3. FMMUdone' = x + y /\ Tied(slave, dir)' = Covered(1, n)
      <4>1. (x + y) + x > R /\ R - x = y BY <2>1, <3>1
      <4>2. y = IF ByteCount + FMMUdone > R THEN R - FMMUdone ELSE ByteCount BY <3>2, <4>1
      <4> QED BY <2>4, <2>5, <2>9, <3>1, <4>2
    <3> QED BY <2>7, <3>1, <3>3
  <2> QED BY <2>1, <2>3, <2>6, <2>8, <2>9
<1> QED BY <1>4, <1>5, <1>6 DEF Ties

\* Byte-oriented slaves end with all their SMs mapped.
LEMMA EndCreateTies == Inv /\ OneGap /\ Ties /\ EndCreate => Ties'
<1> SUFFICES ASSUME Inv, OneGap, Ties, EndCreate PROVE Ties'
  OBVIOUS
<1>1. /\ pc = "fmmu" /\ pc' = "account" /\ slave <= N /\ TypeOK
      /\ ~(SMc <= Len(SMs) /\ FMMUdone < Rounded(Bits))
      /\ UNCHANGED <<slavelist, overlap, slave, dir, FMMU>>
  BY DEF EndCreate, Inv, Walk
<1>2. ~Creating' /\ Progress' BY <1>1 DEF Creating, Progress
<1>3. \A s, d : Through(s, d)' <=> Through(s, d) \/ (s = slave /\ d = dir)
  BY <1>1 DEF Through
<1>4. InTurn' BY <1>1, <1>3 DEF Ties, InTurn
<1>5. Bits > 7 => Tied(slave, dir) = Covered(1, Len(SMs))
  <2> SUFFICES ASSUME Bits > 7 PROVE Tied(slave, dir) = Covered(1, Len(SMs))
    OBVIOUS
  <2>1. PICK p \in Nat, n \in Nat, R \in Nat, x \in Nat :
          /\ p = Gap /\ n = Len(SMs) /\ R = Rounded(Bits) /\ x = Extent(SMs, 1, Gap)
          /\ p \in 1 .. n /\ x > 0 /\ x <= R /\ (p < n => x < R)
    <3>1. Gap < Len(SMs) => Extent(SMs, 1, Gap) < Rounded(Bits)
      <4>1. Gap < Len(SMs) =>
              \E y \in Nat, x \in Nat : /\ y > 0 /\ x = Extent(SMs, 1, Gap) /\ x + y = Rounded(Bits)
        BY <1>1, GapFacts
      <4> QED BY <4>1
    <3> QED BY <1>1, <3>1, GapFacts, SMFacts
  <2>2. ~OnRun(1, p, 0) BY <1>1, <2>1 DEF OnRun
  <2>3. ~(p < n /\ OnRun(p + 1, n, x)) BY <1>1, <2>1 DEF OnRun
  <2> QED BY <1>1, <2>1, <2>2, <2>3 DEF Ties, Progress, Creating
<1>6. Complete'
  <2> SUFFICES ASSUME NEW s \in 1 .. N, NEW d \in Dirs, Through(s, d)', slavelist[s][d].bits > 7
               PROVE  Tied(s, d) = UNION {SMBytes(slavelist[s][d].sms[i]) :
                                            i \in 1 .. Len(slavelist[s][d].sms)}
    BY <1>1, TiedFrame DEF Complete, N
  <2>1. CASE s = slave /\ d = dir BY <1>5, <2>1 DEF Covered, Bits, SMs
  <2>2. CASE Through(s, d) BY <2>2 DEF Ties, Complete
  <2> QED BY <1>3, <2>1, <2>2
<1> QED BY <1>2, <1>4, <1>6 DEF Ties

\* From one slave or direction to the next.
LEMMA WalkTies ==
  ASSUME Ties, UNCHANGED <<slavelist, FMMU>>, ~Creating, ~Creating',
         \A f \in FMMU : Through(f.slave, f.dir) => Through(f.slave, f.dir)',
         \A s \in 1 .. N, d \in Dirs : Through(s, d)' /\ slavelist[s][d].bits > 7 => Through(s, d)
  PROVE  Ties'
<1>1. Complete' BY TiedFrame DEF Ties, Complete, N
<1> QED BY <1>1 DEF Ties, Progress, InTurn

LEMMA MapGroupTies == Inv /\ OneGap /\ Ties /\ config_map_group => Ties'
<1> SUFFICES ASSUME Inv, Ties, config_map_group PROVE Ties'
  OBVIOUS
<1>1. slave \in Nat /\ N \in Nat /\ \A f \in FMMU : f.slave \in Nat /\ f.dir \in Dirs
  BY ListTypes DEF Inv, TypeOK, FMMUs
<1>2. UNCHANGED <<slavelist, overlap, FMMU>> /\ ~overlap
  BY DEF config_map_group, SkipSlave, AccountSlave, EndOutputs, EndInputs
<1>3. CASE SkipSlave
  <2>1. /\ pc = "slave" /\ pc' = "slave" /\ slave' = slave + 1 /\ dir' = dir
        /\ slavelist[slave][dir].bits = 0
    BY <1>3 DEF SkipSlave, ToMap, Bits
  <2> QED BY <1>1, <1>2, <2>1, WalkTies DEF Through, Creating
<1>4. CASE AccountSlave
  <2>1. pc = "account" /\ pc' = "slave" /\ slave' = slave + 1 /\ dir' = dir
    BY <1>4 DEF AccountSlave
  <2> QED BY <1>1, <1>2, <2>1, WalkTies DEF Through, Creating
<1>5. CASE EndOutputs
  <2>1. /\ pc = "slave" /\ pc' = "slave" /\ slave > N /\ slave' = 1 /\ dir = "out" /\ dir' = "in"
    BY <1>5 DEF EndOutputs
  <2>2. \A f \in FMMU : f.dir = "out" BY <1>2, <2>1 DEF Inv, Placed
  <2> QED BY <1>1, <1>2, <2>1, <2>2, WalkTies DEF Through, Creating
<1>6. CASE EndInputs
  <2>1. pc = "slave" /\ pc' = "close" /\ slave > N /\ dir = "in" BY <1>6 DEF EndInputs
  <2> QED BY <1>1, <1>2, <2>1, WalkTies DEF Through, Creating, Dirs
<1> QED BY <1>3, <1>4, <1>5, <1>6 DEF config_map_group

LEMMA OverlapMapGroupTies == Inv /\ OneGap /\ Ties /\ config_overlap_map_group => Ties'
<1> SUFFICES ASSUME Inv, Ties, config_overlap_map_group PROVE Ties'
  OBVIOUS
<1>1. slave \in Nat /\ N \in Nat /\ \A f \in FMMU : f.slave \in Nat /\ f.dir \in Dirs
  BY ListTypes DEF Inv, TypeOK, FMMUs
<1>2. UNCHANGED <<slavelist, overlap, FMMU>> /\ overlap
  BY DEF config_overlap_map_group, SkipOverlapped, EndSlaveOutputs, EndSlaveInputs, EndOverlapped
<1>3. CASE SkipOverlapped
  <2>1. /\ pc = "slave" /\ pc' = "account" /\ UNCHANGED <<slave, dir>>
        /\ slavelist[slave][dir].bits = 0
    BY <1>3 DEF SkipOverlapped, ToMap, Bits
  <2> QED BY <1>1, <1>2, <2>1, WalkTies DEF Through, Creating
<1>4. CASE EndSlaveOutputs
  <2>1. pc = "account" /\ pc' = "slave" /\ slave' = slave /\ dir = "out" /\ dir' = "in"
    BY <1>4 DEF EndSlaveOutputs
  <2> QED BY <1>1, <1>2, <2>1, WalkTies DEF Through, Creating
<1>5. CASE EndSlaveInputs
  <2>1. pc = "account" /\ pc' = "slave" /\ slave' = slave + 1 /\ dir = "in" /\ dir' = "out"
    BY <1>5 DEF EndSlaveInputs
  <2> QED BY <1>1, <1>2, <2>1, WalkTies DEF Through, Creating, Dirs
<1>6. CASE EndOverlapped
  <2>1. pc = "slave" /\ pc' = "close" /\ slave > N BY <1>6 DEF EndOverlapped
  <2> QED BY <1>1, <1>2, <2>1, WalkTies DEF Through, Creating
<1> QED BY <1>3, <1>4, <1>5, <1>6 DEF config_overlap_map_group

LEMMA TiesInitially == MapInit => Ties
<1> SUFFICES ASSUME MapInit PROVE Ties
  OBVIOUS
<1>1. pc = "slave" /\ slave = 1 /\ dir = "out" /\ FMMU = {} BY DEF MapInit
<1>2. \A s \in 1 .. N, d \in Dirs : ~Through(s, d) BY <1>1 DEF Through
<1> QED BY <1>1, <1>2 DEF Ties, Progress, Creating, Complete, InTurn

LEMMA TiesInductive == Inv /\ OneGap /\ Ties /\ [MapNext]_mapvars => Ties'
<1> SUFFICES ASSUME Inv, OneGap, Ties, [MapNext]_mapvars PROVE Ties'
  OBVIOUS
<1>1. CASE create_mappings
  BY <1>1, CallCreateTies, StartFMMUTies, JoinSMTies, PlaceFMMUTies, EndCreateTies
     DEF create_mappings
<1>2. CASE config_map_group BY <1>2, MapGroupTies
<1>3. CASE config_overlap_map_group BY <1>3, OverlapMapGroupTies
<1>4. CASE CloseSegment
  <2>1. UNCHANGED <<slavelist, FMMU>> /\ pc = "close" /\ pc' = "done"
    BY <1>4 DEF CloseSegment
  <2> QED BY <2>1, WalkTies DEF Through, Creating
<1>5. CASE UNCHANGED mapvars
  <2>1. /\ UNCHANGED <<slavelist, overlap, slave, dir, pc, FMMU, FMMUdone, SMc, PhysStart,
                       EndAddr, ByteCount, BitCount>>
    BY <1>5
  <2>2. \A s, d : (Through(s, d)' <=> Through(s, d)) /\ Tied(s, d)' = Tied(s, d)
    BY <2>1 DEF Through, Tied
  <2>3. Progress'
    <3>1. /\ SMs' = SMs /\ Bits' = Bits /\ Gap' = Gap
          /\ \A i, j : Covered(i, j)' = Covered(i, j)
      BY <2>1, CreateFrame
    <3>2. ASSUME NEW from, NEW to, NEW done, OnRun(from, to, done) PROVE OnRun(from, to, done)'
      BY <2>1, <2>2, <3>1, <3>2 DEF OnRun, Covered
    <3>3. PICK p, n, x : p = Gap /\ n = Len(SMs) /\ x = Extent(SMs, 1, Gap) OBVIOUS
    <3>4. p = Gap' /\ n = Len(SMs)' /\ x = Extent(SMs, 1, Gap)' BY <3>1, <3>3
    <3>5. OnRun(1, p, 0) => OnRun(1, p, 0)' BY <3>2
    <3>6. OnRun(p + 1, n, x) => OnRun(p + 1, n, x)' BY <3>2
    <3> QED BY <2>1, <2>2, <3>1, <3>3, <3>4, <3>5, <3>6 DEF Ties, Progress, Creating
  <2>4. Complete' BY <2>1, <2>2 DEF Ties, Complete, N
  <2>5. InTurn' BY <2>1, <2>2 DEF Ties, InTurn, Creating
  <2> QED BY <2>3, <2>4, <2>5 DEF Ties
<1> QED BY <1>1, <1>2, <1>3, <1>4, <1>5 DEF MapNext

\* The FMMUs of a byte-oriented slave map the bytes of its SMs and no others,
\* for every list of slaves whose SMs hold whole bytes of process data and
\* connect but for one gap, in a plain as in an overlapping map.
THEOREM FMMUsMapSMs == ASSUME OneGap PROVE MapSpec => []MapsItsSMs
<1>1. Inv /\ Ties => MapsItsSMs
  BY DEF MapsItsSMs, Mapped, Ties, Complete, Through, Tied
<1>2. Inv /\ Ties /\ [MapNext]_mapvars => Ties'
  BY TiesInductive
<1>3. MapSpec => []Ties
  BY <1>2, Invariance, TiesInitially, PTL DEF MapSpec
<1> QED BY <1>1, <1>3, Invariance, PTL

-----------------------------------------------------------------------------
(***************************************************************************)
(* What the exchange needs of the map beside the invariant above:          *)
(* where the FMMUs of a slave lie, and where outputs end and inputs begin. *)
(***************************************************************************)
\* FMMU f maps the bytes of SMs `from' to `to'.
Maps(f, sms, from, to) ==
  /\ f.LogStartbit = 0 /\ f.LogEndbit = 7
  /\ f.PhysStart = sms[from].start /\ f.LogLength = Extent(sms, from, to)

AfterFMMU(f) == f.LogStart + f.LogLength

\* The FMMUs `fs' of a byte-oriented slave whose SMs connect up to SM p and from there on.
ByteShape(fs, sms, p) ==
  \/ p = Len(sms) /\ \E f \in fs : fs = {f} /\ Maps(f, sms, 1, p)
  \/ /\ p < Len(sms)
     /\ \E f, g \in fs : /\ fs = {f, g} /\ g.LogStart = AfterFMMU(f)
                         /\ Maps(f, sms, 1, p) /\ Maps(g, sms, p + 1, Len(sms))

\* The FMMU of a bit-oriented slave maps its bits and no others.
BitShape(fs, area) ==
  \E f \in fs : /\ fs = {f} /\ f.PhysStart = area.sms[1].start
                /\ LastBit(f) = FirstBit(f) + area.bits - 1

Shape(fs, area) ==
  IF area.bits > 7
    THEN \E p \in 1 .. Len(area.sms) : Connected(area.sms, p) /\ ByteShape(fs, area.sms, p)
    ELSE area.bits > 0 /\ area.sms # <<>> => BitShape(fs, area)

\* While the FMMUs of a byte-oriented slave are set up: none, the first one, all of them.
LaidBytes ==
  LET fs == FMMUsOf(slave, dir) IN
  \/ FMMUdone = 0 /\ fs = {}
  \/ /\ Gap < Len(SMs) /\ FMMUdone = Extent(SMs, 1, Gap) /\ BitPos = 0
     /\ \E f \in fs : fs = {f} /\ Maps(f, SMs, 1, Gap) /\ LogAddr = AfterFMMU(f)
  \/ pc = "fmmu" /\ FMMUdone = Rounded(Bits) /\ ByteShape(fs, SMs, Gap)

LaidBits ==
  LET fs == FMMUsOf(slave, dir) IN
  \/ /\ FMMUdone = 0 /\ fs = {} /\ SMc = 1
     /\ pc \in {"join", "place"} => /\ SMs # <<>> /\ PhysStart = SMs[1].start
                                    /\ BitCount >= Bits
  \/ pc = "fmmu" /\ FMMUdone > 0 /\ BitShape(fs, slavelist[slave][dir])

Laid == Creating => IF Bits > 7 THEN LaidBytes ELSE LaidBits

Shaped ==
  \A s \in 1 .. N, d \in Dirs : Through(s, d) => Shape(FMMUsOf(s, d), slavelist[s][d])

\* Overlapping outputs lie below where those of the slave last mapped end.
OutputsEnd ==
  overlap /\ pc \in {"slave", "close", "done"} =>
    /\ Below(8 * soLogAddr, {"out"})
    /\ pc # "slave" => grp.Obytes = soLogAddr /\ grp.Isegment = 0 /\ grp.Ioffset = 0

\* The inputs begin within their first segment.
OffsetWithin ==
  ~overlap /\ dir = "in" =>
    grp.Ioffset <= IF grp.Isegment < currentsegment THEN IOsegment[grp.Isegment] ELSE segmentsize

Layout == Laid /\ Shaped /\ OutputsEnd /\ OffsetWithin

-----------------------------------------------------------------------------
(***************************************************************************)
(* The inductive invariant of the exchange.                                *)
(***************************************************************************)
\* Value v is at home at logical bit b: it belongs to the bit of a slave that is
\* tied to b (of an overlapping map to the output bit).
Fits(v, f, b) == v \in {NoValue, Value(f.slave, f.dir, MemoryBit(f, b), v.age)}

AtHome(b, v) ==
  \A f \in FMMU : b \in FMMUBits(f) /\ (overlap => f.dir = "out") => Fits(v, f, b)

\* Nothing is exchanged before the group is mapped.
Quiet ==
  ~Mapped => stage = "app" /\ IOmap = <<>> /\ memory = <<>> /\ version = 0

\* The stages of the EtherCAT thread.
Stages ==
  /\ stage \in {"app", "LRD", "LWR", "LRW", "sent", "receive"}
  /\ stage = "app" => idxstack = <<>>
  /\ stage \in {"LRD", "LWR"} => blockLRW
  /\ stage = "LRW" => ~blockLRW
  /\ segment \in Segments /\ LogAdr \in Int /\ length \in Int /\ version \in Nat /\ pulled \in Nat

\* Where the next datagram begins.
Reached ==
  /\ stage \in Commands => data = LogAdr
  /\ stage = "LRD" => LogAdr >= grp.Obytes
  /\ stage = "LRW" => LogAdr >= 0 /\ inputoffset = IF overlap THEN grp.Obytes ELSE 0

\* A datagram has the bits of its place in the image, and those it brings back go to
\* that place, or in an overlapping map behind the outputs.
InOrder(g) ==
  /\ g = [command |-> g.command, LogAdr |-> g.LogAdr, length |-> g.length, data |-> g.data,
          dc |-> g.dc, bits |-> g.bits, wkc |-> g.wkc, status |-> g.status]
  /\ g.command \in Commands /\ (g.command = "LRW" => ~blockLRW)
  /\ g.LogAdr \in Int /\ g.length \in Int /\ g.data \in Int
  /\ DOMAIN g.bits = 8 * g.LogAdr .. 8 * (g.LogAdr + g.length) - 1
  /\ ~overlap => g.data = g.LogAdr
  /\ g.command = "LRD" => g.LogAdr >= grp.Obytes
  /\ overlap /\ g.command # "LWR" => g.data >= grp.Obytes

Carries(g) ==
  (g.status = "wire" \/ ~overlap) => \A b \in DOMAIN g.bits : AtHome(b, g.bits[b])

\* As long as the application keeps off its outputs, an LRW brings back what they are.
Faithful(g, image) ==
  ~LateWrites /\ ~overlap /\ g.command = "LRW" =>
    \A b \in DOMAIN g.bits :
      b < 8 * grp.Obytes => g.bits[b] = IF b \in DOMAIN image THEN image[b] ELSE NoValue

Kept(g) == InOrder(g) /\ Carries(g) /\ Faithful(g, IOmap)

Stacked ==
  /\ \E S : idxstack \in Seq(S)
  /\ \A i \in DOMAIN idxstack : Kept(idxstack[i])

ImageAtHome == \A b \in DOMAIN IOmap : AtHome(b, IOmap[b])

MemoryAtHome ==
  \A m \in DOMAIN memory : memory[m] \in {NoValue, Value(m[1], "out", m[2], memory[m].age)}

OutputsKept ==
  ~LateWrites /\ Mapped =>
    \A c \in AllCells("out") : Read(c.app) = Outputs(c.slave, c.bit, version)

Exchanged == Quiet /\ Stages /\ Reached /\ Stacked /\ ImageAtHome /\ MemoryAtHome /\ OutputsKept

-----------------------------------------------------------------------------
(***************************************************************************)
(* Counting the bytes of SMs.                                              *)
(***************************************************************************)
\* The library's induction takes an operator; this one takes a set.
LEMMA Induction ==
  ASSUME NEW S \in SUBSET Nat, 0 \in S, \A n \in S : n + 1 \in S
  PROVE  S = Nat
<1> SUFFICES ASSUME Nat \ S # {} PROVE FALSE
  OBVIOUS
<1> DEFINE T == Nat \ S
<1>1. \E n \in T : \A m \in T : <<m, n>> \notin OpToRel(<, Nat)
  <2>1. IsWellFoundedOn(OpToRel(<, Nat), Nat) BY NatLessThanWellFounded
  <2> QED BY <2>1, WFMin
<1>2. PICK n \in T : \A m \in T : <<m, n>> \notin OpToRel(<, Nat) BY <1>1
<1>3. \A m \in T : ~(m < n)
  <2> SUFFICES ASSUME NEW m \in T PROVE ~(m < n)
    OBVIOUS
  <2>1. <<m, n>> \in Nat \X Nat OBVIOUS
  <2> QED BY <1>2, <2>1 DEF OpToRel
<1>4. n - 1 \in Nat /\ n - 1 < n /\ (n - 1) + 1 = n
  <2>1. n \in Nat /\ n # 0 OBVIOUS
  <2> QED BY <2>1
<1>5. n - 1 \in S BY <1>3, <1>4
<1> QED BY <1>4, <1>5

BytesOf(sms, i) == UNION {{k} \X (1 .. sms[k].len) : k \in 1 .. i - 1}

LEMMA BytesBeforeNext ==
  ASSUME NEW sms \in Seq(SyncManagers), NEW i \in 1 .. Len(sms), IsFiniteSet(BytesOf(sms, i))
  PROVE  /\ IsFiniteSet(BytesOf(sms, i + 1))
         /\ BytesBefore(sms, i + 1) = BytesBefore(sms, i) + sms[i].len
<1>1. PICK l \in Nat : l = sms[i].len
  <2>1. sms[i] \in SyncManagers OBVIOUS
  <2> QED BY <2>1 DEF SyncManagers
<1> DEFINE new == {i} \X (1 .. l)
<1>2. BytesOf(sms, i + 1) = BytesOf(sms, i) \cup new
  <2>1. 1 .. (i + 1) - 1 = (1 .. i - 1) \cup {i} OBVIOUS
  <2> QED BY <1>1, <2>1 DEF BytesOf
<1>3. IsFiniteSet(new) /\ Cardinality(new) = l
  <2>1. IsFiniteSet({i}) /\ Cardinality({i}) = 1 BY FS_Singleton
  <2>2. IsFiniteSet(1 .. l) /\ Cardinality(1 .. l) = l BY FS_Interval
  <2>3. IsFiniteSet(new) /\ Cardinality(new) = 1 * l BY <2>1, <2>2, FS_Product
  <2> QED BY <2>3
<1>4. BytesOf(sms, i) \cap new = {}
  <2>1. i \notin 1 .. i - 1 OBVIOUS
  <2> QED BY <2>1 DEF BytesOf
<1>5. Cardinality(BytesOf(sms, i) \cap new) = 0 BY <1>4, FS_EmptySet
<1>6. /\ IsFiniteSet(BytesOf(sms, i) \cup new)
      /\ Cardinality(BytesOf(sms, i) \cup new) = Cardinality(BytesOf(sms, i)) + Cardinality(new)
  <2>1. PICK A, B : A = BytesOf(sms, i) /\ B = new OBVIOUS
  <2>2. /\ IsFiniteSet(A) /\ IsFiniteSet(B) /\ Cardinality(A \cap B) = 0
        /\ Cardinality(A) \in Nat /\ Cardinality(B) \in Nat
    BY <1>3, <1>5, <2>1, FS_CardinalityType
  <2>3. /\ IsFiniteSet(A \cup B)
        /\ Cardinality(A \cup B) = Cardinality(A) + Cardinality(B) - Cardinality(A \cap B)
    BY <2>2, FS_Union
  <2> QED BY <2>1, <2>2, <2>3
<1> QED BY <1>1, <1>2, <1>3, <1>6 DEF BytesBefore, BytesOf

LEMMA BytesBeforeTypes ==
  ASSUME NEW sms \in Seq(SyncManagers)
  PROVE  \A i \in 1 .. Len(sms) :
           /\ IsFiniteSet(BytesOf(sms, i)) /\ BytesBefore(sms, i) \in Nat
           /\ IF i = 1 THEN BytesBefore(sms, i) = 0 ELSE BytesBefore(sms, i) > 0
<1> DEFINE typed(i) == /\ IsFiniteSet(BytesOf(sms, i)) /\ BytesBefore(sms, i) \in Nat
                       /\ IF i = 1 THEN BytesBefore(sms, i) = 0 ELSE BytesBefore(sms, i) > 0
           S == {n \in Nat : n + 1 \in 1 .. Len(sms) => typed(n + 1)}
<1>1. Len(sms) \in Nat /\ \A i \in 1 .. Len(sms) : sms[i].len \in Nat /\ sms[i].len > 0
  <2>1. \A i \in 1 .. Len(sms) : sms[i] \in SyncManagers OBVIOUS
  <2> QED BY <2>1 DEF SyncManagers
<1>2. typed(0 + 1)
  <2>1. BytesOf(sms, 0 + 1) = {} BY DEF BytesOf
  <2> QED BY <2>1, FS_EmptySet DEF BytesBefore, BytesOf
<1>3. ASSUME NEW i \in 1 .. Len(sms), typed(i) PROVE typed(i + 1)
  <2>1. /\ IsFiniteSet(BytesOf(sms, i + 1))
        /\ BytesBefore(sms, i + 1) = BytesBefore(sms, i) + sms[i].len
    BY <1>3, BytesBeforeNext
  <2> QED BY <1>1, <1>3, <2>1
<1> HIDE DEF typed
<1>4. S = Nat
  <2>1. \A n \in S : n + 1 \in S
    <3> SUFFICES ASSUME NEW n \in S, (n + 1) + 1 \in 1 .. Len(sms) PROVE typed((n + 1) + 1)
      OBVIOUS
    <3>1. n + 1 \in 1 .. Len(sms) BY <1>1
    <3> QED BY <1>3, <3>1
  <2>2. 0 \in S /\ S \in SUBSET Nat BY <1>2
  <2> HIDE DEF S
  <2> QED BY <2>1, <2>2, Induction
<1> SUFFICES ASSUME NEW i \in 1 .. Len(sms) PROVE typed(i)
  BY DEF typed
<1>5. i - 1 \in Nat /\ (i - 1) + 1 = i BY <1>1
<1>6. i - 1 \in S BY <1>4, <1>5
<1> QED BY <1>5, <1>6, Zenon

\* Byte for byte, the process data of connected SMs lies as the SMs do.
LEMMA BytesBeforeValue ==
  ASSUME NEW sms \in Seq(SyncManagers), NEW p \in 1 .. Len(sms), Connected(sms, p)
  PROVE  \A i \in 1 .. Len(sms) :
           BytesBefore(sms, i) = IF i <= p THEN sms[i].start - sms[1].start
                                 ELSE Extent(sms, 1, p) + sms[i].start - sms[p + 1].start
<1> DEFINE value(i) == IF i <= p THEN sms[i].start - sms[1].start
                       ELSE Extent(sms, 1, p) + sms[i].start - sms[p + 1].start
           S == {n \in Nat : n + 1 \in 1 .. Len(sms) => BytesBefore(sms, n + 1) = value(n + 1)}
<1>1. Len(sms) \in Nat /\ \A i \in 1 .. Len(sms) : sms[i].start \in Nat /\ sms[i].len \in Nat
  <2>1. \A i \in 1 .. Len(sms) : sms[i] \in SyncManagers OBVIOUS
  <2> QED BY <2>1 DEF SyncManagers
<1>2. 0 \in S
  <2>1. 1 \in 1 .. Len(sms) => BytesBefore(sms, 1) = 0 BY BytesBeforeTypes
  <2>2. 1 \in 1 .. Len(sms) => value(0 + 1) = 0 BY <1>1
  <2> QED BY <2>1, <2>2
<1> HIDE DEF value
<1>3. \A n \in S : n + 1 \in S
  <2> SUFFICES ASSUME NEW n \in S, (n + 1) + 1 \in 1 .. Len(sms)
               PROVE  BytesBefore(sms, (n + 1) + 1) = value((n + 1) + 1)
    OBVIOUS
  <2>1. PICK i \in 1 .. Len(sms) - 1 : i = n + 1
    <3>1. n \in Nat /\ Len(sms) \in Nat BY <1>1
    <3> HIDE DEF S
    <3> QED BY <3>1
  <2>2. i \in 1 .. Len(sms) /\ i + 1 \in 1 .. Len(sms) /\ 1 \in 1 .. Len(sms) BY <1>1
  <2>3. BytesBefore(sms, i) = value(i) BY <2>1, <2>2
  <2> HIDE DEF S
  <2>4. BytesBefore(sms, i + 1) = value(i) + sms[i].len
    BY <2>2, <2>3, BytesBeforeTypes, BytesBeforeNext
  <2>5. i # p => sms[i + 1].start = sms[i].start + sms[i].len BY DEF Connected, After
  <2>6. value(i) + sms[i].len = value(i + 1)
    <3>1. PICK a \in Nat, b \in Nat, c \in Nat, l \in Nat :
            a = sms[i].start /\ b = sms[i + 1].start /\ c = sms[1].start /\ l = sms[i].len
      <4>1. /\ sms[i].start \in Nat /\ sms[i + 1].start \in Nat /\ sms[1].start \in Nat
            /\ sms[i].len \in Nat
        BY <1>1, <2>2
      <4> QED BY <4>1
    <3>2. Extent(sms, 1, i) = (a + l) - c BY <3>1, Zenon DEF Extent, After
    <3>3. CASE i < p
      <4>1. i <= p /\ i + 1 <= p /\ i # p BY <3>3
      <4>2. value(i) = a - c /\ value(i + 1) = b - c BY <3>1, <4>1 DEF value
      <4> QED BY <2>5, <3>1, <4>1, <4>2
    <3>4. CASE i = p
      <4>1. i <= p /\ ~(i + 1 <= p) BY <3>4
      <4>2. value(i) = a - c /\ value(i + 1) = Extent(sms, 1, i) + b - b
        BY <3>1, <3>4, <4>1 DEF value
      <4> QED BY <3>1, <3>2, <4>2
    <3>5. CASE i > p
      <4>1. p + 1 \in 1 .. Len(sms) /\ ~(i <= p) /\ ~(i + 1 <= p) BY <3>5
      <4>2. PICK e \in Int, g \in Nat : e = Extent(sms, 1, p) /\ g = sms[p + 1].start
        <5>1. sms[p].start \in Nat /\ sms[p].len \in Nat /\ sms[p + 1].start \in Nat
          BY <1>1, <4>1
        <5>2. sms[1].start \in Nat BY <1>1, <2>2
        <5>3. Extent(sms, 1, p) \in Int BY <5>1, <5>2 DEF Extent, After
        <5> QED BY <5>1, <5>3
      <4>3. value(i) = e + a - g /\ value(i + 1) = e + b - g BY <3>1, <4>1, <4>2 DEF value
      <4>4. i # p BY <3>5
      <4>5. b = a + l BY <2>5, <3>1, <4>4
      <4>6. e + a - g + l = e + b - g BY <4>5
      <4> QED BY <3>1, <4>3, <4>6
    <3> QED BY <3>3, <3>4, <3>5
  <2> QED BY <2>1, <2>4, <2>6
<1>4. S = Nat
  <2> HIDE DEF S
  <2>1. S \in SUBSET Nat BY DEF S
  <2> QED BY <1>2, <1>3, <2>1, Induction
<1> SUFFICES ASSUME NEW i \in 1 .. Len(sms) PROVE BytesBefore(sms, i) = value(i)
  BY DEF value
<1>5. i - 1 \in Nat /\ (i - 1) + 1 = i BY <1>1
<1>6. i - 1 \in S BY <1>4, <1>5
<1> QED BY <1>5, <1>6, Zenon

-----------------------------------------------------------------------------
(***************************************************************************)
(* The FMMUs of a slave take their shape.                                  *)
(***************************************************************************)
LEMMA FMMUsFrame ==
  ASSUME FMMU' = FMMU
  PROVE  \A s, d : FMMUsOf(s, d)' = FMMUsOf(s, d)
BY DEF FMMUsOf

\* No slave becomes through, or none with bits.
LEMMA ShapedFrame ==
  ASSUME Shaped, UNCHANGED <<slavelist, FMMU>>,
         \A s \in 1 .. N, d \in Dirs : Through(s, d)' /\ slavelist[s][d].bits # 0 => Through(s, d)
  PROVE  Shaped'
<1> SUFFICES ASSUME NEW s \in 1 .. N, NEW d \in Dirs, Through(s, d)'
             PROVE  Shape(FMMUsOf(s, d), slavelist[s][d])
  BY FMMUsFrame DEF Shaped, N
<1>1. CASE slavelist[s][d].bits = 0 BY <1>1 DEF Shape
<1>2. CASE slavelist[s][d].bits # 0 BY <1>2 DEF Shaped
<1> QED BY <1>1, <1>2

LEMMA CallCreateShapes == Inv /\ Ties /\ Laid /\ Shaped /\ CallCreate => Laid' /\ Shaped'
<1> SUFFICES ASSUME Inv, Ties, Shaped, CallCreate PROVE Laid' /\ Shaped'
  OBVIOUS
<1>1. /\ pc = "slave" /\ pc' = "fmmu" /\ SMc' = 1 /\ FMMUdone' = 0 /\ TypeOK
      /\ UNCHANGED <<slavelist, overlap, slave, dir, FMMU>>
  BY DEF CallCreate, Inv
<1>2. FMMUsOf(slave, dir) = {}
  <2>1. ~Through(slave, dir) BY <1>1, NotThrough
  <2> QED BY <1>1, <2>1 DEF Ties, InTurn, Creating, FMMUsOf
<1>3. FMMUsOf(slave, dir)' = {} BY <1>1, <1>2 DEF FMMUsOf
<1>4. Laid' BY <1>1, <1>3 DEF Laid, LaidBytes, LaidBits
<1>5. Shaped' BY <1>1, ShapedFrame DEF Through
<1> QED BY <1>4, <1>5

\* The bits of a bit-oriented slave take one byte.
LEMMA FewBits ==
  ASSUME TypeOK, slave <= N, Bits > 0, ~(Bits > 7)
  PROVE  Bits \in 1 .. 7 /\ Rounded(Bits) = 1 /\ Bytes = 0
<1>1. Bits \in 1 .. 7 BY SMFacts
<1> QED BY <1>1 DEF Rounded, Bytes

LEMMA StartFMMUShapes == Inv /\ Laid /\ Shaped /\ StartFMMU => Laid' /\ Shaped'
<1> SUFFICES ASSUME Inv, Laid, Shaped, StartFMMU PROVE Laid' /\ Shaped'
  OBVIOUS
<1>1. /\ pc = "fmmu" /\ pc' = "join" /\ slave <= N /\ TypeOK /\ Bits > 0
      /\ SMc <= Len(SMs) /\ FMMUdone < Rounded(Bits)
      /\ TakeSM(SMc) /\ PhysStart' = SMs[SMc].start
      /\ UNCHANGED <<slavelist, overlap, slave, dir, FMMU, FMMUdone, LogAddr, BitPos>>
  BY DEF StartFMMU, Inv, Walk
<1>2. Shaped' BY <1>1, ShapedFrame DEF Through
<1>3. FMMUdone # Rounded(Bits) BY <1>1, SMFacts DEF TypeOK
<1>4. SMs' = SMs /\ Bits' = Bits /\ Gap' = Gap /\ FMMUsOf(slave, dir)' = FMMUsOf(slave, dir)
  BY <1>1, CreateFrame, FMMUsFrame
<1>5. CASE Bits > 7
  <2>1. LaidBytes BY <1>1, <1>5 DEF Laid, Creating
  <2>2. LaidBytes' BY <1>1, <1>3, <1>4, <2>1 DEF LaidBytes
  <2> QED BY <1>2, <1>4, <1>5, <2>2 DEF Laid
<1>6. CASE ~(Bits > 7)
  <2>1. LaidBits BY <1>1, <1>6 DEF Laid, Creating
  <2>2. Bits \in 1 .. 7 /\ Rounded(Bits) = 1 BY <1>1, <1>6, FewBits
  <2>3. FMMUdone = 0 BY <1>1, <2>2 DEF TypeOK
  <2>4. SMc = 1 /\ FMMUsOf(slave, dir) = {} BY <2>1, <2>3 DEF LaidBits
  <2>5. 1 \in 1 .. Len(SMs) BY <1>1, <2>4, SMFacts
  <2>6. SMs # <<>> BY <2>5
  <2>7. BitCount' >= Bits
    <3>1. BitCount' = BitCount + 8 * SMs[1].len BY <1>1, <2>4 DEF TakeSM
    <3>2. BitCount \in Nat /\ SMs[1].len \in Nat /\ SMs[1].len > 0
      BY <1>1, <2>5, SMFacts DEF TypeOK
    <3> QED BY <2>2, <3>1, <3>2
  <2>8. SMc' = 1 BY <1>1, <2>4 DEF TakeSM
  <2>9. LaidBits' BY <1>1, <1>4, <2>3, <2>4, <2>6, <2>7, <2>8 DEF LaidBits
  <2> QED BY <1>2, <1>4, <1>6, <2>9 DEF Laid
<1> QED BY <1>5, <1>6

LEMMA JoinSMShapes == Inv /\ Laid /\ Shaped /\ JoinSM => Laid' /\ Shaped'
<1> SUFFICES ASSUME Inv, Laid, Shaped, JoinSM PROVE Laid' /\ Shaped'
  OBVIOUS
<1>1. /\ pc = "join" /\ pc' \in {"join", "place"} /\ slave <= N /\ TypeOK /\ Bits > 0
      /\ FMMUdone < Rounded(Bits)
      /\ UNCHANGED <<slavelist, overlap, slave, dir, FMMU, FMMUdone, PhysStart, LogAddr, BitPos>>
  BY DEF JoinSM, Inv, Walk
<1>2. Shaped' BY <1>1, ShapedFrame DEF Through
<1>3. SMs' = SMs /\ Bits' = Bits /\ Gap' = Gap /\ FMMUsOf(slave, dir)' = FMMUsOf(slave, dir)
  BY <1>1, CreateFrame, FMMUsFrame
<1>4. CASE Bits > 7
  <2>1. LaidBytes BY <1>1, <1>4 DEF Laid, Creating
  <2>2. LaidBytes' BY <1>1, <1>3, <2>1 DEF LaidBytes
  <2> QED BY <1>2, <1>3, <1>4, <2>2 DEF Laid
<1>5. CASE ~(Bits > 7)
  <2>1. /\ FMMUdone = 0 /\ FMMUsOf(slave, dir) = {} /\ SMc = 1
        /\ SMs # <<>> /\ PhysStart = SMs[1].start /\ BitCount >= Bits
    BY <1>1, <1>5 DEF Laid, Creating, LaidBits
  <2>2. ~(BitCount < Bits)
    <3>1. Bits \in Nat  BY <1>1, SMFacts
    <3>2. BitCount \in Nat  BY <1>1 DEF TypeOK
    <3> QED  BY <2>1, <3>1, <3>2
  <2>3. UNCHANGED <<SMc, BitCount>> BY <2>2 DEF JoinSM
  <2>4. LaidBits' BY <1>1, <1>3, <2>1, <2>3 DEF LaidBits
  <2> QED BY <1>2, <1>3, <1>5, <2>4 DEF Laid
<1> QED BY <1>4, <1>5

\* What an FMMU of a bit-oriented and of a byte-oriented slave maps.
LEMMA BitsEntry ==
  ASSUME TypeOK, slave <= N, Bits \in 1 .. 7, PlaceBits
  PROVE  /\ \E f : /\ FMMU' = FMMU \cup {f} /\ f.slave = slave /\ f.dir = dir
                   /\ f.PhysStart = PhysStart /\ LastBit(f) = FirstBit(f) + Bits - 1
         /\ FMMUdone' > 0
<1> DEFINE last == BitPos + Bits - 1
           bytes == IF last > 7 THEN 2 ELSE 1
           bit == IF last > 7 THEN last - 8 ELSE last
<1>1. LogAddr \in Nat /\ BitPos \in 0 .. 7 /\ FMMUdone \in Nat BY DEF TypeOK
<1>2. /\ last \in 0 .. 13 /\ bytes \in {1, 2} /\ bit \in 0 .. 7
      /\ 8 * (LogAddr + bytes - 1) + bit = 8 * LogAddr + BitPos + Bits - 1
  BY <1>1
<1>3. /\ \E programmed \in BOOLEAN :
           FMMU' = FMMU \cup {Entry(LogAddr, BitPos, bytes, bit, programmed)}
      /\ FMMUdone' = FMMUdone + bytes
  BY DEF PlaceBits, SetFMMU, Entry
<1> HIDE DEF last, bytes, bit
<1>4. FMMUdone' > 0 BY <1>1, <1>2, <1>3
<1>5. PICK programmed : FMMU' = FMMU \cup {Entry(LogAddr, BitPos, bytes, bit, programmed)} BY <1>3
<1> DEFINE e == Entry(LogAddr, BitPos, bytes, bit, programmed)
<1>6. /\ e.slave = slave /\ e.dir = dir /\ e.PhysStart = PhysStart
      /\ FirstBit(e) = 8 * LogAddr + BitPos /\ LastBit(e) = 8 * (LogAddr + bytes - 1) + bit
  BY DEF Entry, FirstBit, LastBit
<1>7. FMMU' = FMMU \cup {e} BY <1>5
<1> HIDE DEF e
<1> QED BY <1>2, <1>4, <1>6, <1>7

LEMMA BytesEntry ==
  ASSUME TypeOK, slave <= N, Bits > 7, PlaceFMMU, NEW size \in Nat,
         size = IF ByteCount + FMMUdone > Rounded(Bits) THEN Rounded(Bits) - FMMUdone
                ELSE ByteCount
  PROVE  /\ \E f : /\ FMMU' = FMMU \cup {f} /\ f.slave = slave /\ f.dir = dir
                   /\ f.PhysStart = PhysStart /\ f.LogStartbit = 0 /\ f.LogEndbit = 7
                   /\ f.LogStart = NextByte /\ f.LogLength = size
         /\ FMMUdone' = FMMUdone + size /\ LogAddr' = NextByte + size /\ BitPos' = 0
<1>1. Bytes = Rounded(Bits) BY DEF Bytes
<1>2. Bytes # 0 BY <1>1, SlaveTypes DEF Rounded
<1>3. /\ \E programmed \in BOOLEAN : FMMU' = FMMU \cup {Entry(NextByte, 0, size, 7, programmed)}
      /\ FMMUdone' = FMMUdone + size /\ LogAddr' = NextByte + size /\ BitPos' = 0
  BY <1>1, <1>2 DEF PlaceFMMU, PlaceBytes, SetFMMU, Entry
<1>4. PICK programmed : FMMU' = FMMU \cup {Entry(NextByte, 0, size, 7, programmed)} BY <1>3
<1> DEFINE e == Entry(NextByte, 0, size, 7, programmed)
<1>5. /\ e.slave = slave /\ e.dir = dir /\ e.PhysStart = PhysStart /\ e.LogStartbit = 0
      /\ e.LogEndbit = 7 /\ e.LogStart = NextByte /\ e.LogLength = size
  BY DEF Entry
<1>6. FMMU' = FMMU \cup {e} BY <1>4
<1> HIDE DEF e
<1> QED BY <1>3, <1>5, <1>6

LEMMA PlaceFMMUShapes == Inv /\ OneGap /\ Ties /\ Laid /\ Shaped /\ PlaceFMMU => Laid' /\ Shaped'
<1> SUFFICES ASSUME Inv, OneGap, Ties, Laid, Shaped, PlaceFMMU PROVE Laid' /\ Shaped'
  OBVIOUS
<1>1. /\ pc = "place" /\ pc' = "fmmu" /\ slave <= N /\ TypeOK /\ Bits > 0
      /\ FMMUdone < Rounded(Bits)
      /\ UNCHANGED <<slavelist, overlap, slave, dir, SMc, ByteCount, BitCount>>
  BY DEF PlaceFMMU, Inv, Walk
<1>2. SMs' = SMs /\ Bits' = Bits /\ Gap' = Gap BY <1>1, CreateFrame
<1>3. ASSUME NEW f, FMMU' = FMMU \cup {f}, f.slave = slave, f.dir = dir
      PROVE  Shaped' /\ FMMUsOf(slave, dir)' = FMMUsOf(slave, dir) \cup {f}
  <2>1. ~Through(slave, dir) /\ (\A s, d : Through(s, d)' <=> Through(s, d))
    BY <1>1, NotThrough DEF Through
  <2>2. ASSUME NEW s \in 1 .. N, NEW d \in Dirs, Through(s, d)
        PROVE  FMMUsOf(s, d)' = FMMUsOf(s, d)
    <3>1. ~(f.slave = s /\ f.dir = d) BY <1>3, <2>1, <2>2
    <3> QED BY <1>3, <3>1 DEF FMMUsOf
  <2>3. Shaped' BY <1>1, <2>1, <2>2 DEF Shaped, N
  <2> QED BY <1>1, <1>3, <2>3 DEF FMMUsOf
<1>4. CASE ~(Bits > 7)
  <2>1. Bits \in 1 .. 7 /\ Bytes = 0 BY <1>1, <1>4, FewBits
  <2>2. FMMUsOf(slave, dir) = {} /\ PhysStart = SMs[1].start
    BY <1>1, <1>4 DEF Laid, Creating, LaidBits
  <2>3. PlaceBits BY <2>1 DEF PlaceFMMU
  <2>4. FMMUdone' > 0 BY <1>1, <2>1, <2>3, BitsEntry
  <2>5. PICK f : /\ FMMU' = FMMU \cup {f} /\ f.slave = slave /\ f.dir = dir
                 /\ f.PhysStart = PhysStart /\ LastBit(f) = FirstBit(f) + Bits - 1
    BY <1>1, <2>1, <2>3, BitsEntry
  <2>6. Shaped' /\ FMMUsOf(slave, dir)' = {f} BY <1>3, <2>2, <2>5
  <2>7. BitShape({f}, slavelist[slave][dir]) BY <2>2, <2>5 DEF BitShape, SMs, Bits
  <2>8. LaidBits' BY <1>1, <2>4, <2>6, <2>7 DEF LaidBits
  <2> QED BY <1>2, <1>4, <2>6, <2>8 DEF Laid
<1>5. CASE Bits > 7
  <2>1. PICK p \in Nat, n \in Nat, R \in Nat, x \in Nat :
          /\ p = Gap /\ n = Len(SMs) /\ R = Rounded(Bits) /\ x = Extent(SMs, 1, Gap)
          /\ p \in 1 .. n /\ x > 0 /\ x <= R
    BY <1>1, <1>5, GapFacts, SMFacts
  <2>2. p = Gap' /\ n = Len(SMs)' /\ R = Rounded(Bits)' /\ x = Extent(SMs, 1, Gap)'
    BY <1>2, <2>1 DEF Rounded, Extent
  <2>3. LaidBytes BY <1>1, <1>5 DEF Laid, Creating
  <2>4. \/ OnRun(1, p, 0)
        \/ p < n /\ OnRun(p + 1, n, x)
    BY <1>1, <1>5, <2>1 DEF Ties, Progress, Creating
  <2>5. CASE OnRun(1, p, 0)
    <3>1. ByteCount = x /\ FMMUdone = 0 /\ PhysStart = SMs[1].start
      BY <1>1, <2>1, <2>5 DEF OnRun
    <3>2. FMMUsOf(slave, dir) = {} BY <1>1, <2>1, <2>3, <3>1 DEF LaidBytes
    <3>3. x = IF ByteCount + FMMUdone > R THEN R - FMMUdone ELSE ByteCount BY <2>1, <3>1
    <3>4. FMMUdone' = x /\ LogAddr' = NextByte + x /\ BitPos' = 0
      BY <1>1, <1>5, <2>1, <3>1, <3>3, BytesEntry
    <3>5. PICK f : /\ FMMU' = FMMU \cup {f} /\ f.slave = slave /\ f.dir = dir
                   /\ f.PhysStart = PhysStart /\ f.LogStartbit = 0 /\ f.LogEndbit = 7
                   /\ f.LogStart = NextByte /\ f.LogLength = x
      BY <1>1, <1>5, <2>1, <3>3, BytesEntry
    <3>6. Shaped' /\ FMMUsOf(slave, dir)' = {f} BY <1>3, <3>2, <3>5
    <3>7. Maps(f, SMs, 1, p) /\ LogAddr' = AfterFMMU(f)
      BY <2>1, <3>1, <3>4, <3>5 DEF Maps, AfterFMMU
    <3>8. CASE p < n
      <4>1. LaidBytes' BY <1>2, <2>1, <2>2, <3>4, <3>6, <3>7, <3>8 DEF LaidBytes
      <4> QED BY <1>2, <1>5, <3>6, <4>1 DEF Laid
    <3>9. CASE p = n
      <4>1. ByteShape({f}, SMs, p) BY <2>1, <3>7, <3>9 DEF ByteShape
      <4>2. FMMUdone' = R BY <1>1, <1>5, <2>1, <3>4, <3>9, GapFacts
      <4>3. LaidBytes' BY <1>1, <1>2, <2>1, <2>2, <3>6, <4>1, <4>2 DEF LaidBytes
      <4> QED BY <1>2, <1>5, <3>6, <4>3 DEF Laid
    <3> QED BY <2>1, <3>8, <3>9
  <2>6. CASE p < n /\ OnRun(p + 1, n, x)
    <3>1. PICK y \in Nat : y = Extent(SMs, p + 1, n) /\ y > 0 /\ x + y = R
      BY <1>1, <1>5, <2>1, <2>6, GapFacts
    <3>2. ByteCount = x + y /\ FMMUdone = x /\ PhysStart = SMs[p + 1].start
      BY <1>1, <2>1, <2>6, <3>1 DEF OnRun
    <3>3. PICK f : /\ FMMUsOf(slave, dir) = {f} /\ Maps(f, SMs, 1, p)
                   /\ LogAddr = AfterFMMU(f) /\ BitPos = 0
      BY <1>1, <2>1, <2>3, <3>2 DEF LaidBytes
    <3>4. y = IF ByteCount + FMMUdone > R THEN R - FMMUdone ELSE ByteCount
      <4>1. (x + y) + x > R /\ R - x = y BY <2>1, <3>1
      <4> QED BY <3>2, <4>1
    <3>5. FMMUdone' = x + y BY <1>1, <1>5, <2>1, <3>2, <3>4, BytesEntry
    <3>6. PICK g : /\ FMMU' = FMMU \cup {g} /\ g.slave = slave /\ g.dir = dir
                   /\ g.PhysStart = PhysStart /\ g.LogStartbit = 0 /\ g.LogEndbit = 7
                   /\ g.LogStart = NextByte /\ g.LogLength = y
      BY <1>1, <1>5, <2>1, <3>4, BytesEntry
    <3>7. g.LogStart = AfterFMMU(f) BY <3>3, <3>6 DEF NextByte
    <3>8. Maps(g, SMs, p + 1, n) BY <3>1, <3>2, <3>6 DEF Maps
    <3>9. Shaped' /\ FMMUsOf(slave, dir)' = {f, g} BY <1>3, <3>3, <3>6
    <3>10. ByteShape({f, g}, SMs, p) BY <2>1, <2>6, <3>3, <3>7, <3>8 DEF ByteShape
    <3>11. LaidBytes'
      <4>1. FMMUdone' = Rounded(Bits)' BY <2>2, <3>1, <3>5
      <4> QED BY <1>1, <1>2, <2>1, <3>9, <3>10, <4>1 DEF LaidBytes
    <3> QED BY <1>2, <1>5, <3>9, <3>11 DEF Laid
  <2> QED BY <2>4, <2>5, <2>6
<1> QED BY <1>4, <1>5

LEMMA EndCreateShapes == Inv /\ OneGap /\ Ties /\ Laid /\ Shaped /\ EndCreate => Laid' /\ Shaped'
<1> SUFFICES ASSUME Inv, OneGap, Ties, Laid, Shaped, EndCreate PROVE Laid' /\ Shaped'
  OBVIOUS
<1>1. /\ pc = "fmmu" /\ pc' = "account" /\ slave <= N /\ TypeOK /\ SMc > 0 /\ Bits > 0
      /\ ~(SMc <= Len(SMs) /\ FMMUdone < Rounded(Bits))
      /\ UNCHANGED <<slavelist, overlap, slave, dir, FMMU>>
  BY DEF EndCreate, Inv, Walk
<1>2. Laid' BY <1>1 DEF Laid, Creating
<1>3. \A s, d : Through(s, d)' <=> Through(s, d) \/ (s = slave /\ d = dir)
  BY <1>1 DEF Through
<1>4. Bits > 7 => Shape(FMMUsOf(slave, dir), slavelist[slave][dir])
  <2> SUFFICES ASSUME Bits > 7 PROVE Shape(FMMUsOf(slave, dir), slavelist[slave][dir])
    OBVIOUS
  <2>1. PICK p \in Nat, n \in Nat, R \in Nat, x \in Nat :
          /\ p = Gap /\ n = Len(SMs) /\ R = Rounded(Bits) /\ x = Extent(SMs, 1, Gap)
          /\ p \in 1 .. n /\ x > 0 /\ x <= R /\ (p < n => x < R)
    <3>1. Gap < Len(SMs) => Extent(SMs, 1, Gap) < Rounded(Bits)
      <4>1. Gap < Len(SMs) =>
              \E y \in Nat, x \in Nat : /\ y > 0 /\ x = Extent(SMs, 1, Gap) /\ x + y = Rounded(Bits)
        BY <1>1, GapFacts
      <4> QED BY <4>1
    <3> QED BY <1>1, <3>1, GapFacts, SMFacts
  <2>2. ~OnRun(1, p, 0) BY <1>1, <2>1 DEF OnRun
  <2>3. ~(p < n /\ OnRun(p + 1, n, x)) BY <1>1, <2>1 DEF OnRun
  <2>4. FMMUdone = R BY <1>1, <2>1, <2>2, <2>3 DEF Ties, Progress, Creating
  <2>5. FMMUdone # 0 /\ (p < n => FMMUdone # x) BY <2>1, <2>4
  <2>6. ByteShape(FMMUsOf(slave, dir), SMs, p)
    BY <1>1, <2>1, <2>5 DEF Laid, Creating, LaidBytes
  <2>7. Connected(SMs, p) /\ p \in 1 .. Len(SMs) BY <1>1, <2>1, GapFacts
  <2> QED BY <2>6, <2>7 DEF Shape, SMs, Bits
<1>5. ~(Bits > 7) => Shape(FMMUsOf(slave, dir), slavelist[slave][dir])
  <2> SUFFICES ASSUME ~(Bits > 7) PROVE Shape(FMMUsOf(slave, dir), slavelist[slave][dir])
    OBVIOUS
  <2>1. Bits \in 1 .. 7 /\ Rounded(Bits) = 1 BY <1>1, FewBits
  <2>2. LaidBits BY <1>1 DEF Laid, Creating
  <2>3. SMs # <<>> => BitShape(FMMUsOf(slave, dir), slavelist[slave][dir])
    <3> SUFFICES ASSUME SMs # <<>>
                 PROVE  BitShape(FMMUsOf(slave, dir), slavelist[slave][dir])
      OBVIOUS
    <3>1. Len(SMs) \in Nat /\ Len(SMs) >= 1 BY <1>1, SlaveTypes
    <3>2. ~(SMc = 1 /\ FMMUdone = 0) BY <1>1, <2>1, <3>1
    <3> QED BY <2>2, <3>2 DEF LaidBits
  <2> QED BY <2>3 DEF Shape, SMs, Bits
<1>6. Shape(FMMUsOf(slave, dir), slavelist[slave][dir])
  BY <1>4, <1>5
<1>7. Shaped'
  <2> SUFFICES ASSUME NEW s \in 1 .. N, NEW d \in Dirs, Through(s, d)'
               PROVE  Shape(FMMUsOf(s, d), slavelist[s][d])
    BY <1>1, FMMUsFrame DEF Shaped, N
  <2>1. CASE s = slave /\ d = dir BY <1>6, <2>1
  <2>2. CASE Through(s, d) BY <2>2 DEF Shaped
  <2> QED BY <1>3, <2>1, <2>2
<1> QED BY <1>2, <1>7

-----------------------------------------------------------------------------
(***************************************************************************)
(* From slave to slave.                                                    *)
(***************************************************************************)
LEMMA MapGroupShapes == Inv /\ Shaped /\ config_map_group => Laid' /\ Shaped'
<1> SUFFICES ASSUME Inv, Shaped, config_map_group PROVE Laid' /\ Shaped'
  OBVIOUS
<1>1. slave \in Nat /\ N \in Nat BY ListTypes DEF Inv, TypeOK
<1>2. UNCHANGED <<slavelist, overlap, FMMU>> /\ ~overlap
  BY DEF config_map_group, SkipSlave, AccountSlave, EndOutputs, EndInputs
<1>3. CASE SkipSlave
  <2>1. /\ pc = "slave" /\ pc' = "slave" /\ slave' = slave + 1 /\ dir' = dir
        /\ slavelist[slave][dir].bits = 0
    BY <1>3 DEF SkipSlave, ToMap, Bits
  <2> QED BY <1>1, <1>2, <2>1, ShapedFrame DEF Through, Laid, Creating
<1>4. CASE AccountSlave
  <2>1. pc = "account" /\ pc' = "slave" /\ slave' = slave + 1 /\ dir' = dir
    BY <1>4 DEF AccountSlave
  <2> QED BY <1>1, <1>2, <2>1, ShapedFrame DEF Through, Laid, Creating
<1>5. CASE EndOutputs
  <2>1. /\ pc = "slave" /\ pc' = "slave" /\ slave > N /\ slave' = 1 /\ dir = "out" /\ dir' = "in"
    BY <1>5 DEF EndOutputs
  <2> QED BY <1>1, <1>2, <2>1, ShapedFrame DEF Through, Laid, Creating
<1>6. CASE EndInputs
  <2>1. pc = "slave" /\ pc' = "close" /\ slave > N /\ dir = "in" BY <1>6 DEF EndInputs
  <2> QED BY <1>1, <1>2, <2>1, ShapedFrame DEF Through, Laid, Creating, Dirs
<1> QED BY <1>3, <1>4, <1>5, <1>6 DEF config_map_group

LEMMA OverlapMapGroupShapes == Inv /\ Shaped /\ config_overlap_map_group => Laid' /\ Shaped'
<1> SUFFICES ASSUME Inv, Shaped, config_overlap_map_group PROVE Laid' /\ Shaped'
  OBVIOUS
<1>1. slave \in Nat /\ N \in Nat BY ListTypes DEF Inv, TypeOK
<1>2. UNCHANGED <<slavelist, overlap, FMMU>> /\ overlap
  BY DEF config_overlap_map_group, SkipOverlapped, EndSlaveOutputs, EndSlaveInputs, EndOverlapped
<1>3. CASE SkipOverlapped
  <2>1. /\ pc = "slave" /\ pc' = "account" /\ UNCHANGED <<slave, dir>>
        /\ slavelist[slave][dir].bits = 0
    BY <1>3 DEF SkipOverlapped, ToMap, Bits
  <2> QED BY <1>1, <1>2, <2>1, ShapedFrame DEF Through, Laid, Creating
<1>4. CASE EndSlaveOutputs
  <2>1. pc = "account" /\ pc' = "slave" /\ slave' = slave /\ dir = "out" /\ dir' = "in"
    BY <1>4 DEF EndSlaveOutputs
  <2> QED BY <1>1, <1>2, <2>1, ShapedFrame DEF Through, Laid, Creating
<1>5. CASE EndSlaveInputs
  <2>1. pc = "account" /\ pc' = "slave" /\ slave' = slave + 1 /\ dir = "in" /\ dir' = "out"
    BY <1>5 DEF EndSlaveInputs
  <2> QED BY <1>1, <1>2, <2>1, ShapedFrame DEF Through, Laid, Creating, Dirs
<1>6. CASE EndOverlapped
  <2>1. pc = "slave" /\ pc' = "close" /\ slave > N BY <1>6 DEF EndOverlapped
  <2> QED BY <1>1, <1>2, <2>1, ShapedFrame DEF Through, Laid, Creating
<1> QED BY <1>3, <1>4, <1>5, <1>6 DEF config_overlap_map_group

LEMMA Shapes ==
  Inv /\ OneGap /\ Ties /\ Laid /\ Shaped /\ [MapNext]_mapvars => Laid' /\ Shaped'
<1> SUFFICES ASSUME Inv, OneGap, Ties, Laid, Shaped, [MapNext]_mapvars PROVE Laid' /\ Shaped'
  OBVIOUS
<1>1. CASE create_mappings
  BY <1>1, CallCreateShapes, StartFMMUShapes, JoinSMShapes, PlaceFMMUShapes, EndCreateShapes
     DEF create_mappings
<1>2. CASE config_map_group BY <1>2, MapGroupShapes
<1>3. CASE config_overlap_map_group BY <1>3, OverlapMapGroupShapes
<1>4. CASE CloseSegment
  <2>1. UNCHANGED <<slavelist, FMMU>> /\ pc = "close" /\ pc' = "done"
    BY <1>4 DEF CloseSegment
  <2> QED BY <2>1, ShapedFrame DEF Through, Laid, Creating
<1>5. CASE UNCHANGED mapvars
  <2>1. /\ UNCHANGED <<slavelist, overlap, slave, dir, pc, FMMU, FMMUdone, SMc, PhysStart,
                       BitCount, LogAddr, BitPos>>
    BY <1>5
  <2>2. Shaped' BY <2>1, ShapedFrame DEF Through
  <2>3. SMs' = SMs /\ Bits' = Bits /\ Gap' = Gap /\ FMMUsOf(slave, dir)' = FMMUsOf(slave, dir)
    BY <2>1, CreateFrame, FMMUsFrame
  <2>4. LaidBytes => LaidBytes' BY <2>1, <2>3 DEF LaidBytes
  <2>5. LaidBits => LaidBits' BY <2>1, <2>3 DEF LaidBits
  <2> QED BY <2>1, <2>2, <2>3, <2>4, <2>5 DEF Laid, Creating
<1> QED BY <1>1, <1>2, <1>3, <1>4, <1>5 DEF MapNext

LEMMA OutputsEndKept == Inv /\ Inv' /\ OutputsEnd /\ [MapNext]_mapvars => OutputsEnd'
<1> SUFFICES ASSUME Inv, Inv', OutputsEnd, [MapNext]_mapvars,
                    overlap', pc' \in {"slave", "close", "done"}
             PROVE  OutputsEnd'
  BY DEF OutputsEnd
<1> DEFINE end == Below(8 * soLogAddr, {"out"})
<1>1. UNCHANGED <<FMMU, soLogAddr>> => (end => end') BY DEF Below, LastBit
<1>2. CASE UNCHANGED mapvars BY <1>1, <1>2 DEF OutputsEnd
<1>3. CASE create_mappings
  BY <1>3 DEF create_mappings, CallCreate, StartFMMU, JoinSM, PlaceFMMU, EndCreate
<1>4. CASE config_map_group
  BY <1>4 DEF config_map_group, SkipSlave, AccountSlave, EndOutputs, EndInputs
<1>5. CASE EndSlaveOutputs
  <2>1. dir' = "in" /\ pc' = "slave" BY <1>5 DEF EndSlaveOutputs
  <2> QED BY <2>1 DEF Inv, Placed, OutputsEnd
<1>6. CASE EndSlaveInputs
  <2>1. end /\ pc' = "slave" /\ UNCHANGED <<FMMU, soLogAddr>>
    BY <1>6 DEF EndSlaveInputs, Inv, Placed
  <2> QED BY <1>1, <2>1 DEF OutputsEnd
<1>7. CASE SkipOverlapped BY <1>7 DEF SkipOverlapped
<1>8. CASE EndOverlapped
  <2>1. /\ overlap /\ pc = "slave" /\ UNCHANGED <<FMMU, soLogAddr>>
        /\ grp' = [Obytes |-> soLogAddr, Ibytes |-> siLogAddr, Isegment |-> 0, Ioffset |-> 0]
    BY <1>8 DEF EndOverlapped
  <2> QED BY <1>1, <2>1 DEF OutputsEnd
<1>9. CASE CloseSegment
  <2>1. overlap /\ pc = "close" /\ UNCHANGED <<FMMU, soLogAddr, grp>>
    BY <1>9 DEF CloseSegment
  <2> QED BY <1>1, <2>1 DEF OutputsEnd
<1> QED BY <1>2, <1>3, <1>4, <1>5, <1>6, <1>7, <1>8, <1>9 DEF MapNext, config_overlap_map_group

\* Adding to the open segment never moves the inputs out of their first segment.
LEMMA AddKeepsOffset ==
  ASSUME SegmentTypes, NEW d \in Nat, AddToSegment(d),
         grp.Isegment \in Segments, grp.Ioffset \in Nat, grp.Isegment <= currentsegment,
         grp.Ioffset <= IF grp.Isegment < currentsegment THEN IOsegment[grp.Isegment]
                        ELSE segmentsize
  PROVE  grp.Ioffset <= IF grp.Isegment < currentsegment' THEN IOsegment'[grp.Isegment]
                        ELSE segmentsize'
<1> PICK i \in Nat, o \in Nat : i = grp.Isegment /\ o = grp.Ioffset
  BY DEF Segments
<1>1. i \in Segments /\ currentsegment \in Nat /\ segmentsize \in Nat
  BY DEF SegmentTypes, Segments
<1>2. CASE i < currentsegment
  <2>1. IOsegment'[i] = IOsegment[i] /\ currentsegment' >= currentsegment
    BY <1>1, <1>2 DEF AddToSegment, SegmentTypes
  <2>2. i < currentsegment'
    <3>1. currentsegment' \in Int BY <1>1 DEF AddToSegment
    <3> QED BY <1>1, <1>2, <2>1, <3>1
  <2> QED BY <1>2, <2>1, <2>2
<1>3. CASE i = currentsegment
  <2>1. o <= segmentsize BY <1>1, <1>3
  <2>2. \/ currentsegment' = currentsegment /\ segmentsize' \in {segmentsize, segmentsize + d}
        \/ currentsegment' = currentsegment + 1 /\ IOsegment'[i] = segmentsize
    BY <1>1, <1>3 DEF AddToSegment, SegmentTypes
  <2> QED BY <1>1, <1>3, <2>1, <2>2
<1> QED BY <1>1, <1>2, <1>3

LEMMA OffsetKept == Inv /\ OffsetWithin /\ [MapNext]_mapvars => OffsetWithin'
<1> SUFFICES ASSUME Inv, OffsetWithin, [MapNext]_mapvars, ~overlap', dir' = "in"
             PROVE  OffsetWithin'
  BY DEF OffsetWithin
<1>1. SegmentTypes /\ grp.Isegment \in Segments /\ grp.Ioffset \in Nat
  BY SegmentTyped DEF Inv, TypeOK
<1>2. UNCHANGED <<overlap, dir, grp, IOsegment, currentsegment, segmentsize>> => OffsetWithin'
  BY DEF OffsetWithin
<1>3. UNCHANGED <<overlap, dir>> => grp.Isegment <= currentsegment
  BY DEF Inv, SegmentInv, InputStart
<1>4. CASE create_mappings
  BY <1>2, <1>4 DEF create_mappings, CallCreate, StartFMMU, JoinSM, PlaceFMMU, EndCreate
<1>5. CASE config_overlap_map_group
  BY <1>5 DEF config_overlap_map_group, SkipOverlapped, EndSlaveOutputs, EndSlaveInputs,
              EndOverlapped
<1>6. CASE SkipSlave BY <1>2, <1>6 DEF SkipSlave
<1>7. CASE AccountSlave
  <2>1. LogAddr - oLogAddr \in Nat BY DEF Inv, TypeOK, Position
  <2>2. AddToSegment(LogAddr - oLogAddr) /\ UNCHANGED <<overlap, dir, grp>>
    BY <1>7 DEF AccountSlave
  <2> QED BY <1>1, <1>3, <2>1, <2>2, AddKeepsOffset DEF OffsetWithin
<1>8. CASE EndOutputs
  <2>1. grp' = [grp EXCEPT !.Obytes = NextByte, !.Isegment = currentsegment',
                           !.Ioffset = segmentsize']
    BY <1>8 DEF EndOutputs
  <2>2. /\ segmentsize' \in Nat /\ currentsegment' \in Int
    BY <1>1, <1>8 DEF EndOutputs, Pad, AddToSegment, SegmentTypes, Segments
  <2>3. grp'.Isegment = currentsegment' /\ grp'.Ioffset = segmentsize'
    BY <2>1 DEF Inv, TypeOK
  <2> QED BY <2>2, <2>3 DEF OffsetWithin
<1>9. CASE EndInputs
  <2>1. UNCHANGED <<overlap, dir>> /\ Pad BY <1>9 DEF EndInputs
  <2>2. grp'.Isegment = grp.Isegment /\ grp'.Ioffset = grp.Ioffset
    BY <1>9 DEF EndInputs, Inv, TypeOK
  <2>3. CASE BitPos > 0
    <3>1. AddToSegment(1) BY <2>1, <2>3 DEF Pad
    <3> QED BY <1>1, <1>3, <2>1, <2>2, <3>1, AddKeepsOffset DEF OffsetWithin
  <2>4. CASE ~(BitPos > 0)
    <3>1. UNCHANGED segs BY <2>1, <2>4 DEF Pad
    <3> QED BY <2>1, <2>2, <3>1 DEF OffsetWithin
  <2> QED BY <2>3, <2>4
<1>10. CASE CloseSegment
  <2>1. /\ IOsegment' = [IOsegment EXCEPT ![currentsegment] = segmentsize]
        /\ UNCHANGED <<overlap, dir, grp, currentsegment, segmentsize>>
    BY <1>10 DEF CloseSegment
  <2>2. grp.Isegment < currentsegment => IOsegment'[grp.Isegment] = IOsegment[grp.Isegment]
    BY <1>1, <2>1 DEF SegmentTypes, Segments
  <2> QED BY <2>1, <2>2 DEF OffsetWithin
<1>11. CASE UNCHANGED mapvars BY <1>2, <1>11
<1> QED BY <1>4, <1>5, <1>6, <1>7, <1>8, <1>9, <1>10, <1>11 DEF MapNext, config_map_group

LEMMA LayoutInitially == MapInit => Layout
<1> SUFFICES ASSUME MapInit PROVE Layout
  OBVIOUS
<1>1. /\ pc = "slave" /\ slave = 1 /\ dir = "out" /\ FMMU = {} BY DEF MapInit
<1>2. \A s \in 1 .. N, d \in Dirs : ~Through(s, d) BY <1>1 DEF Through
<1> QED BY <1>1, <1>2 DEF Layout, Laid, Shaped, OutputsEnd, OffsetWithin, Creating, Below

LEMMA LayoutInductive ==
  Inv /\ OneGap /\ Ties /\ Layout /\ [MapNext]_mapvars => Layout'
BY Inductive, Shapes, OutputsEndKept, OffsetKept DEF Layout

-----------------------------------------------------------------------------
(***************************************************************************)
(* Where the process data of a slave lies in the image.                    *)
(***************************************************************************)
\* SM i of a run lies within the bytes of the run.
LEMMA WithinRun ==
  ASSUME NEW sms \in Seq(SyncManagers), NEW p \in 1 .. Len(sms), Connected(sms, p),
         NEW from \in 1 .. Len(sms), NEW to \in from .. Len(sms), NEW i \in from .. to
  PROVE  /\ sms[from].start \in Nat /\ sms[i].start \in Nat /\ sms[i].len \in Nat
         /\ After(sms[to]) \in Nat /\ sms[from].start < After(sms[to])
         /\ sms[from].start <= sms[i].start /\ sms[i].start + sms[i].len <= After(sms[to])
<1>1. from \in 1 .. Len(sms) /\ to \in 1 .. Len(sms) /\ i \in 1 .. Len(sms) /\ from <= i /\ i <= to
  OBVIOUS
<1>2. \A k \in 1 .. Len(sms) : /\ sms[k].start \in Nat /\ sms[k].len \in Nat
                               /\ After(sms[k]) = sms[k].start + sms[k].len
                               /\ sms[k].start < After(sms[k])
  <2>1. \A k \in 1 .. Len(sms) : sms[k] \in SyncManagers OBVIOUS
  <2> QED BY <2>1 DEF SyncManagers, After
<1>3. PICK a \in Nat, x \in Nat, l \in Nat, y \in Nat, z \in Nat, t \in Nat :
        /\ a = sms[from].start /\ x = sms[i].start /\ l = sms[i].len
        /\ z = After(sms[to]) /\ y = After(sms[from]) /\ a < y
        /\ x + l = After(sms[i]) /\ t = sms[to].start /\ t < z
  <2>1. /\ sms[from].start \in Nat /\ After(sms[from]) \in Nat
        /\ sms[from].start < After(sms[from])
    BY <1>1, <1>2
  <2>2. sms[i].start \in Nat /\ sms[i].len \in Nat /\ sms[i].start + sms[i].len = After(sms[i])
    BY <1>1, <1>2
  <2>3. sms[to].start \in Nat /\ After(sms[to]) \in Nat /\ sms[to].start < After(sms[to])
    BY <1>1, <1>2
  <2> QED BY <2>1, <2>2, <2>3
<1>4. from < i => y <= x BY <1>1, <1>3 DEF Connected
<1>5. i < to => x + l <= t BY <1>1, <1>3 DEF Connected
<1>6. from = i => a = x BY <1>3
<1>7. i = to => x + l = z BY <1>3
<1>8. a <= x /\ x + l <= z
  <2>1. a <= x BY <1>1, <1>3, <1>4, <1>6
  <2>2. x + l <= z BY <1>1, <1>3, <1>5, <1>7
  <2> QED BY <2>1, <2>2
<1>9. x < z
  <2>1. x < x + l BY <1>1, <1>2, <1>3
  <2> QED BY <1>8, <2>1
<1> QED BY <1>3, <1>8, <1>9

\* A bit of process data lies where an FMMU of its slave ties its memory to.
LEMMA CellLies ==
  ASSUME TypeOK, Shaped, Mapped, NEW s \in 1 .. N, NEW d \in Dirs, ~overlap \/ d = "out",
         NEW c \in Cells(s, d)
  PROVE  /\ c.slave = s /\ c.dir = d
         /\ \E f \in FMMU : /\ f.slave = s /\ f.dir = d
                            /\ c.app \in FMMUBits(f) /\ c.bit = MemoryBit(f, c.app)
<1> DEFINE area == slavelist[s][d]
           sms == area.sms
           fs == FMMUsOf(s, d)
           before == [i \in DOMAIN area.sms |-> 8 * BytesBefore(area.sms, i)]
<1>1. area.bits \in Nat /\ sms \in Seq(SyncManagers) /\ DOMAIN sms = 1 .. Len(sms)
  <2>1. slavelist[s] \in Slaves BY ListTypes DEF N
  <2>2. slavelist[s][d] \in [bits : Nat, sms : Seq(SyncManagers)] BY <2>1 DEF Slaves
  <2> QED BY <2>2
<1>2. Shape(fs, area) BY DEF Shaped, Through, Mapped
<1>3. PICK i \in DOMAIN sms : \E j \in 0 .. 8 * sms[i].len - 1 :
        /\ before[i] + j < area.bits
        /\ c = [slave |-> s, dir |-> d, bit |-> 8 * sms[i].start + j,
                app |-> Pointer(s, d) + before[i] + j]
  <2>1. c \in UNION {{[slave |-> s, dir |-> d, bit |-> 8 * area.sms[i].start + j,
                       app |-> Pointer(s, d) + before[i] + j] :
                        j \in {b \in 0 .. 8 * area.sms[i].len - 1 : before[i] + b < area.bits}} :
                     i \in DOMAIN area.sms}
    BY DEF Cells
  <2>2. PICK i \in DOMAIN sms :
          c \in {[slave |-> s, dir |-> d, bit |-> 8 * sms[i].start + j,
                  app |-> Pointer(s, d) + before[i] + j] :
                   j \in {b \in 0 .. 8 * sms[i].len - 1 : before[i] + b < area.bits}}
    BY <2>1
  <2> HIDE DEF before
  <2> QED BY <2>2
<1>4. PICK n \in Nat : n = BytesBefore(sms, i) /\ before[i] = 8 * n
  BY <1>1, BytesBeforeTypes
<1>5. PICK j \in 0 .. 8 * sms[i].len - 1 :
        /\ c.slave = s /\ c.dir = d /\ c.bit = 8 * sms[i].start + j
        /\ c.app = Pointer(s, d) + 8 * n + j /\ 8 * n + j < area.bits
  BY <1>3, <1>4
<1> HIDE DEF before
<1>6. ASSUME NEW f \in fs, \A g \in fs : g # f => f.LogStart < g.LogStart
      PROVE  Pointer(s, d) = FirstBit(f)
  <2>1. \A g \in fs : g.LogStart \in Nat BY DEF FMMUsOf, TypeOK, FMMUs
  <2>2. \A g \in fs : (\A h \in fs : g.LogStart <= h.LogStart) <=> g = f BY <1>6, <2>1
  <2>3. f = CHOOSE g \in fs : \A h \in fs : g.LogStart <= h.LogStart BY <2>2
  <2>4. FirstBit(f) \in Int BY FMMUBitTypes DEF FMMUsOf, TypeOK
  <2> QED BY <2>3, <2>4 DEF Pointer
<1>7. fs \subseteq FMMU /\ fs \subseteq FMMUs /\ \A f \in fs : f.slave = s /\ f.dir = d
  BY DEF FMMUsOf, TypeOK
<1>8. ASSUME NEW p \in 1 .. Len(sms), Connected(sms, p), NEW f \in fs,
             NEW from \in 1 .. Len(sms), NEW to \in from .. Len(sms), i \in from .. to,
             Maps(f, sms, from, to), c.app = FirstBit(f) + 8 * (sms[i].start - sms[from].start) + j
      PROVE  c.app \in FMMUBits(f) /\ c.bit = MemoryBit(f, c.app)
  <2>1. PICK a \in Nat, x \in Nat, l \in Nat, z \in Nat :
          /\ a = sms[from].start /\ x = sms[i].start /\ l = sms[i].len /\ z = After(sms[to])
          /\ a <= x /\ x + l <= z
    <3>1. /\ sms[from].start \in Nat /\ sms[i].start \in Nat /\ sms[i].len \in Nat
          /\ After(sms[to]) \in Nat
          /\ sms[from].start <= sms[i].start /\ sms[i].start + sms[i].len <= After(sms[to])
      BY <1>1, <1>8, WithinRun
    <3> QED BY <3>1
  <2>2. /\ f.LogStartbit = 0 /\ f.LogEndbit = 7 /\ f.PhysStart = a /\ f.LogLength = z - a
    BY <1>8, <2>1 DEF Maps, Extent
  <2>3. j \in 0 .. 8 * l - 1 /\ c.app = FirstBit(f) + 8 * (x - a) + j /\ c.bit = 8 * x + j
    BY <1>5, <1>8, <2>1
  <2>4. PICK head \in Nat : head = f.LogStart
    <3>1. f \in FMMUs BY <1>7
    <3> QED BY <3>1 DEF FMMUs
  <2>5. FirstBit(f) = 8 * head /\ LastBit(f) = 8 * (head + (z - a) - 1) + 7
    BY <2>2, <2>4 DEF FirstBit, LastBit
  <2>6. PICK b \in Int : b = c.app /\ b = 8 * head + 8 * (x - a) + j BY <2>3, <2>5
  <2>7. 8 * head <= b /\ b <= 8 * (head + (z - a) - 1) + 7
    <3>1. j \in Int /\ 0 <= j /\ j <= 8 * l - 1 BY <2>3
    <3>2. a <= x /\ x + l <= z /\ b = 8 * head + 8 * (x - a) + j BY <2>1, <2>6
    <3>3. 8 * head <= b BY <3>1, <3>2
    <3>4. b <= 8 * head + 8 * (x + l - a) - 1 BY <3>1, <3>2
    <3> QED BY <3>2, <3>3, <3>4
  <2>8. b \in FMMUBits(f) BY <2>5, <2>7 DEF FMMUBits
  <2>9. MemoryBit(f, b) = 8 * a + b - 8 * head BY <2>2, <2>5 DEF MemoryBit
  <2>10. 8 * a + b - 8 * head = 8 * x + j BY <2>3, <2>6
  <2> QED BY <2>3, <2>6, <2>8, <2>9, <2>10
<1> SUFFICES \E f \in fs : c.app \in FMMUBits(f) /\ c.bit = MemoryBit(f, c.app)
  BY <1>5, <1>7
<1>9. CASE area.bits > 7
  <2>1. PICK p \in 1 .. Len(sms) : Connected(sms, p) /\ ByteShape(fs, sms, p)
    BY <1>2, <1>9 DEF Shape
  <2>2. \A k, m \in 1 .. Len(sms) : k < m => After(sms[k]) <= sms[m].start
    BY <2>1 DEF Connected
  <2>3. n = IF i <= p THEN sms[i].start - sms[1].start
            ELSE Extent(sms, 1, p) + sms[i].start - sms[p + 1].start
    BY <1>1, <1>4, <2>1, BytesBeforeValue
  <2>4. Len(sms) \in Nat /\ 1 \in 1 .. Len(sms) /\ i \in 1 .. Len(sms) /\ p \in 1 .. Len(sms)
    BY <1>1
  <2>5. Extent(sms, 1, p) \in Nat /\ Extent(sms, 1, p) > 0
    <3>1. 1 \in 1 .. p BY <2>4
    <3>2. sms[1].start \in Nat /\ After(sms[p]) \in Nat /\ sms[1].start < After(sms[p])
      BY <1>1, <2>1, <2>4, <3>1, WithinRun
    <3>3. \A u \in Nat, v \in Nat : u < v => v - u \in Nat /\ v - u > 0 OBVIOUS
    <3> QED BY <3>2, <3>3 DEF Extent
  <2>6. PICK f \in fs :
          /\ Maps(f, sms, 1, p) /\ Pointer(s, d) = FirstBit(f)
          /\ p < Len(sms) => \E g \in fs : /\ g.LogStart = AfterFMMU(f)
                                           /\ Maps(g, sms, p + 1, Len(sms))
    <3>1. CASE p = Len(sms) /\ \E f \in fs : fs = {f} /\ Maps(f, sms, 1, p)
      <4>1. PICK f \in fs : fs = {f} /\ Maps(f, sms, 1, p) BY <3>1
      <4>2. Pointer(s, d) = FirstBit(f) BY <1>6, <4>1
      <4>3. ~(p < Len(sms)) BY <2>4, <3>1
      <4> QED BY <4>1, <4>2, <4>3
    <3>2. CASE \E f, g \in fs : /\ fs = {f, g} /\ g.LogStart = AfterFMMU(f)
                                /\ Maps(f, sms, 1, p) /\ Maps(g, sms, p + 1, Len(sms))
      <4>1. PICK f \in fs, g \in fs : /\ fs = {f, g} /\ g.LogStart = AfterFMMU(f)
                                      /\ Maps(f, sms, 1, p) /\ Maps(g, sms, p + 1, Len(sms))
        BY <3>2
      <4>2. f.LogStart \in Nat /\ f.LogLength = Extent(sms, 1, p)
        BY <1>7, <4>1 DEF Maps, FMMUs
      <4>3. f.LogStart < g.LogStart BY <2>5, <4>1, <4>2 DEF AfterFMMU
      <4>4. Pointer(s, d) = FirstBit(f) BY <1>6, <4>1, <4>3
      <4> QED BY <4>1, <4>4
    <3> QED BY <2>1, <3>1, <3>2 DEF ByteShape
  <2>7. PICK x \in Nat, y \in Nat, e \in Nat, l \in Nat :
          x = sms[i].start /\ y = sms[1].start /\ e = Extent(sms, 1, p) /\ l = f.LogStart
    <3>1. sms[i] \in SyncManagers /\ sms[1] \in SyncManagers BY <1>1, <2>4
    <3>2. f.LogStart \in Nat BY <1>7 DEF FMMUs
    <3> QED BY <2>5, <3>1, <3>2 DEF SyncManagers
  <2>8. FirstBit(f) = 8 * l BY <2>6, <2>7 DEF Maps, FirstBit
  <2>9. c.app \in Int BY <1>5, <2>6, <2>7, <2>8
  <2>10. CASE i <= p
    <3>1. n = x - y BY <2>3, <2>7, <2>10
    <3>2. c.app = FirstBit(f) + 8 * (sms[i].start - sms[1].start) + j
      BY <1>5, <2>6, <2>7, <3>1
    <3>3. i \in 1 .. p /\ p \in 1 .. Len(sms) BY <2>4, <2>10
    <3> QED BY <1>5, <2>1, <2>4, <2>6, <3>2, <3>3, <1>8
  <2>11. CASE ~(i <= p)
    <3>1. p < Len(sms) /\ p + 1 \in 1 .. Len(sms) /\ Len(sms) \in p + 1 .. Len(sms)
          /\ i \in p + 1 .. Len(sms)
      BY <2>4, <2>11
    <3>2. PICK g \in fs : g.LogStart = AfterFMMU(f) /\ Maps(g, sms, p + 1, Len(sms))
      BY <2>6, <3>1
    <3>3. PICK z \in Nat : z = sms[p + 1].start
      <4>1. sms[p + 1] \in SyncManagers BY <1>1, <3>1
      <4> QED BY <4>1 DEF SyncManagers
    <3>4. n = e + x - z BY <2>3, <2>7, <2>11, <3>3
    <3>5. FirstBit(g) = 8 * l + 8 * e
      <4>1. g.LogStart = l + e BY <2>6, <2>7, <3>2 DEF AfterFMMU, Maps
      <4> QED BY <3>2, <4>1 DEF Maps, FirstBit
    <3>6. c.app = 8 * l + 8 * (e + x - z) + j BY <1>5, <2>6, <2>8, <3>4
    <3>7. c.app = FirstBit(g) + 8 * (x - z) + j BY <3>5, <3>6
    <3>8. c.app = FirstBit(g) + 8 * (sms[i].start - sms[p + 1].start) + j
      BY <2>7, <3>3, <3>7
    <3> QED BY <1>5, <2>1, <2>4, <3>1, <3>2, <3>8, <1>8
  <2> QED BY <2>10, <2>11
<1>10. CASE ~(area.bits > 7)
  <2>1. n = 0 /\ area.bits > 0 /\ j < area.bits
    <3>1. n \in Nat /\ j \in Nat /\ area.bits \in Nat /\ 8 * n + j < area.bits
      BY <1>1, <1>4, <1>5
    <3> QED BY <1>10, <3>1
  <2>2. i = 1
    <3>1. BytesBefore(sms, i) = 0 BY <1>4, <2>1
    <3> QED BY <1>1, <3>1, BytesBeforeTypes
  <2>3. sms # <<>> BY <1>1, <2>2
  <2>4. PICK f \in fs : /\ fs = {f} /\ f.PhysStart = sms[1].start
                        /\ LastBit(f) = FirstBit(f) + area.bits - 1
    BY <1>2, <1>10, <2>1, <2>3 DEF Shape, BitShape
  <2>5. Pointer(s, d) = FirstBit(f) BY <1>6, <2>4
  <2>6. PICK a \in Int, x \in Nat : a = FirstBit(f) /\ x = sms[1].start
    <3>1. FirstBit(f) \in Int BY <1>7, FMMUBitTypes
    <3>2. f.PhysStart \in Nat BY <1>7 DEF FMMUs
    <3> QED BY <2>4, <3>1, <3>2
  <2>7. c.app = a + j /\ c.bit = 8 * x + j BY <1>5, <2>1, <2>2, <2>5, <2>6
  <2>8. c.app \in FMMUBits(f) BY <1>1, <2>1, <2>4, <2>6, <2>7 DEF FMMUBits
  <2>9. MemoryBit(f, c.app) = c.bit BY <2>4, <2>6, <2>7 DEF MemoryBit
  <2> QED BY <2>8, <2>9
<1> QED BY <1>9, <1>10

-----------------------------------------------------------------------------
(***************************************************************************)
(* What the exchange takes from the map once it is there.                  *)
(***************************************************************************)
\* A step of the exchange leaves the map alone.
LEMMA NextMaps == [Next]_vars => [MapNext]_mapvars
BY DEF Next, vars, PDNext, WriteOutputs, BeginSend, SendDatagram, Pass, Lose, BeginReceive,
       ReceiveNext, EndReceive

\* And the map is never touched again.
LEMMA MapStays == Mapped /\ [MapNext]_mapvars => UNCHANGED mapvars
BY DEF Mapped, MapNext, create_mappings, config_map_group, config_overlap_map_group, CallCreate,
       StartFMMU, JoinSM, PlaceFMMU, EndCreate, SkipSlave, AccountSlave, EndOutputs, EndInputs,
       SkipOverlapped, EndSlaveOutputs, EndSlaveInputs, EndOverlapped, CloseSegment, ToMap

MappedTypes ==
  /\ overlap \in BOOLEAN /\ grp.Obytes \in Nat /\ grp.Ibytes \in Nat
  /\ grp.Isegment \in Segments /\ grp.Ioffset \in Nat
  /\ IOsegment \in [Segments -> Nat] /\ currentsegment \in Segments /\ 0 \in Segments
  /\ grp.Ioffset <= IOsegment[grp.Isegment]

\* A logical bit belongs to one FMMU, and outputs are below Obytes.
Apart ==
  /\ \A f, g \in FMMU, b \in Int :
       b \in FMMUBits(f) /\ b \in FMMUBits(g) /\ (f.dir = g.dir \/ ~overlap) => f = g
  /\ \A f \in FMMU, b \in Int :
       b \in FMMUBits(f) => /\ f.dir = "out" => b < 8 * grp.Obytes
                            /\ f.dir = "in" /\ ~overlap => b >= 8 * grp.Obytes

LEMMA MapFacts ==
  ASSUME Inv, Layout, Mapped
  PROVE  MappedTypes /\ Apart
<1>1. /\ overlap \in BOOLEAN /\ grp.Obytes \in Nat /\ grp.Ibytes \in Nat
      /\ grp.Isegment \in Segments /\ grp.Ioffset \in Nat
      /\ IOsegment \in [Segments -> Nat] /\ currentsegment \in Segments
  BY ListTypes DEF Inv, TypeOK
<1>2. 0 \in Segments BY SegmentAssumption DEF Segments
<1>3. grp.Ioffset <= IOsegment[grp.Isegment]
  <2>1. CASE overlap
    <3>1. grp.Ioffset = 0 BY <2>1 DEF Layout, OutputsEnd, Mapped
    <3>2. IOsegment[grp.Isegment] \in Nat BY <1>1
    <3> QED BY <3>1, <3>2
  <2>2. CASE ~overlap
    <3>1. /\ dir = "in" /\ grp.Isegment <= currentsegment
          /\ IOsegment[currentsegment] = segmentsize
      BY <2>2 DEF Inv, SegmentInv, InputStart, Closed, Mapped
    <3>2. grp.Isegment < currentsegment \/ grp.Isegment = currentsegment
      BY <1>1, <3>1 DEF Segments
    <3> QED BY <2>2, <3>1, <3>2 DEF Layout, OffsetWithin
  <2> QED BY <2>1, <2>2
<1>4. \A f \in FMMU : FirstBit(f) \in Int /\ LastBit(f) \in Int /\ f.dir \in Dirs
  BY FMMUBitTypes DEF Inv, TypeOK, FMMUs
<1>5. ASSUME NEW f \in FMMU, NEW g \in FMMU, NEW b \in Int,
             b \in FMMUBits(f), b \in FMMUBits(g), f.dir = g.dir \/ ~overlap
      PROVE  f = g
  <2>1. FirstBit(f) <= b /\ b <= LastBit(f) /\ FirstBit(g) <= b /\ b <= LastBit(g)
    BY <1>4, <1>5 DEF FMMUBits
  <2>2. ~(LastBit(f) < FirstBit(g)) /\ ~(LastBit(g) < FirstBit(f)) BY <1>4, <2>1
  <2> QED BY <1>5, <2>2 DEF Inv, Placed, Disjoint
<1>6. ASSUME NEW f \in FMMU, NEW b \in Int, b \in FMMUBits(f)
      PROVE  /\ f.dir = "out" => b < 8 * grp.Obytes
             /\ f.dir = "in" /\ ~overlap => b >= 8 * grp.Obytes
  <2>1. FirstBit(f) <= b /\ b <= LastBit(f) BY <1>4, <1>6 DEF FMMUBits
  <2>2. f.dir = "out" => LastBit(f) < 8 * grp.Obytes
    <3>1. CASE overlap
      <4>1. Below(8 * grp.Obytes, {"out"}) BY <3>1 DEF Layout, OutputsEnd, Mapped
      <4> QED BY <4>1 DEF Below
    <3>2. CASE ~overlap
      <4>1. dir = "in" BY <3>2 DEF Inv, SegmentInv, Closed, Mapped
      <4> QED BY <3>2, <4>1 DEF Inv, Placed, Below
    <3> QED BY <3>1, <3>2
  <2>3. f.dir = "in" /\ ~overlap => FirstBit(f) >= 8 * grp.Obytes
    BY DEF Inv, Placed, SegmentInv, Closed, Mapped
  <2> QED BY <1>1, <1>4, <2>1, <2>2, <2>3
<1> QED BY <1>1, <1>2, <1>3, <1>5, <1>6 DEF MappedTypes, Apart

\* The bits of the process data of all slaves.
LEMMA CellHome ==
  ASSUME Inv, Layout, Mapped, NEW d \in Dirs, ~overlap \/ d = "out", NEW c \in AllCells(d)
  PROVE  \E f \in FMMU : /\ c.slave = f.slave /\ f.dir = d /\ c.dir = d
                         /\ c.app \in FMMUBits(f) /\ c.bit = MemoryBit(f, c.app)
<1>1. PICK s \in 1 .. N : c \in Cells(s, d) BY DEF AllCells
<1> QED BY <1>1, CellLies DEF Inv, Layout

LEMMA AppTypes ==
  ASSUME Inv, NEW f \in FMMU, NEW b \in FMMUBits(f)
  PROVE  b \in Int
<1>1. FirstBit(f) \in Int /\ LastBit(f) \in Int BY FMMUBitTypes DEF Inv, TypeOK
<1> QED BY <1>1 DEF FMMUBits

LEMMA OneCell ==
  ASSUME Inv, Layout, Mapped, NEW c \in AllCells("out"), NEW e \in AllCells("out"), c.app = e.app
  PROVE  c.slave = e.slave /\ c.bit = e.bit /\ c.app \in Int /\ c.app < 8 * grp.Obytes
<1>1. "out" \in Dirs BY DEF Dirs
<1>2. PICK f \in FMMU : /\ c.slave = f.slave /\ f.dir = "out" /\ c.app \in FMMUBits(f)
                        /\ c.bit = MemoryBit(f, c.app)
  BY <1>1, CellHome
<1>3. PICK g \in FMMU : /\ e.slave = g.slave /\ g.dir = "out" /\ e.app \in FMMUBits(g)
                        /\ e.bit = MemoryBit(g, e.app)
  BY <1>1, CellHome
<1>4. c.app \in Int BY <1>2, AppTypes
<1>5. f = g /\ c.app < 8 * grp.Obytes BY <1>2, <1>3, <1>4, MapFacts DEF Apart
<1> QED BY <1>2, <1>3, <1>4, <1>5

LEMMA CellsFrame ==
  ASSUME UNCHANGED <<slavelist, FMMU, overlap, grp>>
  PROVE  \A d : AllCells(d)' = AllCells(d)
BY DEF AllCells, Cells, Pointer, FMMUsOf, N
-----------------------------------------------------------------------------
(***************************************************************************)
(* A step of the exchange once the map is there.                           *)
(***************************************************************************)
Ready == Inv /\ Layout /\ Mapped /\ Exchanged

LEMMA HomeFrame ==
  ASSUME UNCHANGED <<FMMU, overlap>>, \A b \in DOMAIN IOmap' : AtHome(b, IOmap'[b])
  PROVE  ImageAtHome'
BY DEF ImageAtHome, AtHome, Fits, FMMUBits, FirstBit, LastBit, MemoryBit, Value, NoValue

LEMMA StackFrame ==
  ASSUME UNCHANGED <<blockLRW, overlap, grp, FMMU>>, NEW S, idxstack' \in Seq(S),
         \A i \in DOMAIN idxstack' :
           InOrder(idxstack'[i]) /\ Carries(idxstack'[i]) /\ Faithful(idxstack'[i], IOmap')
  PROVE  Stacked'
<1> SUFFICES ASSUME NEW i \in DOMAIN idxstack' PROVE Kept(idxstack[i])'
  BY DEF Stacked
<1>1. InOrder(idxstack[i])'
  <2>1. InOrder(idxstack'[i]) OBVIOUS
  <2> QED BY <2>1 DEF InOrder
<1>2. Carries(idxstack[i])'
  <2>1. Carries(idxstack'[i]) OBVIOUS
  <2> QED BY <2>1 DEF Carries, AtHome, Fits, FMMUBits, FirstBit, LastBit, MemoryBit, Value, NoValue
<1>3. Faithful(idxstack[i], IOmap)'
  <2>1. Faithful(idxstack'[i], IOmap') OBVIOUS
  <2> QED BY <2>1 DEF Faithful, NoValue, Value
<1> QED BY <1>1, <1>2, <1>3 DEF Kept

\* Bits of the IOmap below the end of the outputs stay as they are.
LowStays == \A b \in Int : b < 8 * grp.Obytes => Read(b)' = Read(b)

LEMMA OutputsFrame ==
  ASSUME UNCHANGED <<slavelist, FMMU, overlap, grp, version>>,
         Ready, LateWrites \/ LowStays
  PROVE  OutputsKept'
<1> SUFFICES ASSUME ~LateWrites, LowStays, NEW c \in AllCells("out")
             PROVE  Read(c.app)' = Outputs(c.slave, c.bit, version)
  BY CellsFrame DEF OutputsKept, Outputs, NoValue, Value
<1>1. c.app \in Int /\ c.app < 8 * grp.Obytes BY OneCell DEF Ready
<1>2. Read(c.app) = Outputs(c.slave, c.bit, version) BY DEF OutputsKept, Ready, Exchanged
<1> QED BY <1>1, <1>2 DEF LowStays
LEMMA BitTypes ==
  ASSUME NEW g, InOrder(g)
  PROVE  \A b \in DOMAIN g.bits : b \in Int
BY DEF InOrder

LEMMA SameStack ==
  ASSUME Ready, UNCHANGED <<blockLRW, overlap, grp, FMMU, idxstack>>, LowStays
  PROVE  Stacked'
<1>1. PICK S : idxstack \in Seq(S) BY DEF Ready, Exchanged, Stacked
<1>2. ASSUME NEW i \in DOMAIN idxstack PROVE Faithful(idxstack[i], IOmap')
  <2>1. InOrder(idxstack[i]) /\ Faithful(idxstack[i], IOmap)
    BY DEF Ready, Exchanged, Stacked, Kept
  <2>2. \A b \in DOMAIN idxstack[i].bits : b \in Int BY <2>1, BitTypes
  <2> QED BY <2>1, <2>2 DEF Faithful, LowStays, Read
<1>3. \A i \in DOMAIN idxstack : InOrder(idxstack[i]) /\ Carries(idxstack[i])
  BY DEF Ready, Exchanged, Stacked, Kept
<1> QED BY <1>1, <1>2, <1>3, StackFrame

\* One datagram of the stack becomes h.
LEMMA Replaced ==
  ASSUME Ready, UNCHANGED <<blockLRW, overlap, grp, FMMU, IOmap>>,
         NEW i \in DOMAIN idxstack, NEW h, idxstack' = [idxstack EXCEPT ![i] = h],
         InOrder(h), Carries(h), Faithful(h, IOmap)
  PROVE  Stacked'
<1>1. PICK S : idxstack \in Seq(S) BY DEF Ready, Exchanged, Stacked
<1>2. idxstack' \in Seq(S \cup {h})
  <2>1. idxstack \in Seq(S \cup {h}) BY <1>1, SeqMonotonic
  <2> QED BY <2>1, ExceptSeq
<1>3. \A k \in DOMAIN idxstack' :
        k \in DOMAIN idxstack /\ idxstack'[k] = IF k = i THEN h ELSE idxstack[k]
  OBVIOUS
<1>4. \A k \in DOMAIN idxstack :
        InOrder(idxstack[k]) /\ Carries(idxstack[k]) /\ Faithful(idxstack[k], IOmap)
  BY DEF Ready, Exchanged, Stacked, Kept
<1>5. ASSUME NEW k \in DOMAIN idxstack'
      PROVE  InOrder(idxstack'[k]) /\ Carries(idxstack'[k]) /\ Faithful(idxstack'[k], IOmap')
  <2>1. IOmap' = IOmap OBVIOUS
  <2>2. CASE k = i
    <3>1. idxstack'[k] = h BY <1>3, <2>2
    <3> QED BY <2>1, <3>1
  <2>3. CASE k # i
    <3>1. idxstack'[k] = idxstack[k] /\ k \in DOMAIN idxstack BY <1>3, <2>3
    <3> QED BY <1>4, <2>1, <3>1
  <2> QED BY <2>2, <2>3
<1> QED BY <1>2, <1>5, StackFrame

LEMMA Pushed ==
  ASSUME Ready, UNCHANGED <<blockLRW, overlap, grp, FMMU, IOmap>>,
         NEW h, pushindex(h), InOrder(h), Carries(h), Faithful(h, IOmap)
  PROVE  Stacked'
<1>1. PICK S : idxstack \in Seq(S) BY DEF Ready, Exchanged, Stacked
<1>2. CASE idxstack' = idxstack
  <2>1. LowStays BY DEF LowStays, Read, NoValue, Value
  <2> QED BY <1>2, <2>1, SameStack
<1>3. CASE idxstack' = Append(idxstack, h)
  <2>1. idxstack \in Seq(S \cup {h}) BY <1>1, SeqMonotonic
  <2>2. idxstack' \in Seq(S \cup {h}) BY <1>3, <2>1, AppendProperties
  <2>3. \A k \in DOMAIN idxstack' :
          IF k \in DOMAIN idxstack THEN idxstack'[k] = idxstack[k] ELSE idxstack'[k] = h
    <3>1. /\ Len(idxstack) \in Nat /\ DOMAIN idxstack = 1 .. Len(idxstack)
          /\ Len(idxstack') = Len(idxstack) + 1 /\ DOMAIN idxstack' = 1 .. Len(idxstack')
          /\ \A k \in 1 .. Len(idxstack) : idxstack'[k] = idxstack[k]
          /\ idxstack'[Len(idxstack) + 1] = h
      BY <1>3, <2>1, <2>2, AppendProperties, LenProperties
    <3> QED BY <3>1
  <2>4. \A k \in DOMAIN idxstack :
          InOrder(idxstack[k]) /\ Carries(idxstack[k]) /\ Faithful(idxstack[k], IOmap)
    BY DEF Ready, Exchanged, Stacked, Kept
  <2>5. ASSUME NEW k \in DOMAIN idxstack'
        PROVE  InOrder(idxstack'[k]) /\ Carries(idxstack'[k]) /\ Faithful(idxstack'[k], IOmap')
    <3>1. IOmap' = IOmap OBVIOUS
    <3>2. CASE k \in DOMAIN idxstack
      <4>1. idxstack'[k] = idxstack[k] BY <2>3, <3>2
      <4> QED BY <2>4, <3>1, <3>2, <4>1
    <3>3. CASE k \notin DOMAIN idxstack
      <4>1. idxstack'[k] = h BY <2>3, <3>3
      <4> QED BY <3>1, <4>1
    <3> QED BY <3>2, <3>3
  <2> QED BY <2>2, <2>5, StackFrame
<1> QED BY <1>2, <1>3 DEF pushindex
LEMMA WriteOutputsKeeps == Ready /\ WriteOutputs => Exchanged'
<1> SUFFICES ASSUME Ready, WriteOutputs PROVE Exchanged'
  OBVIOUS
<1> USE DEF Ready, Exchanged
<1> DEFINE cells == AllCells("out")
           places == {c.app : c \in cells}
           owner(b) == CHOOSE c \in cells : c.app = b
<1>1. /\ stage = "app" \/ (stage = "sent" /\ (blockLRW \/ LateWrites))
      /\ version' = version + 1
      /\ IOmap' = [b \in places \cup DOMAIN IOmap |->
                     IF b \in places
                       THEN Value(owner(b).slave, "out", owner(b).bit, version') ELSE IOmap[b]]
      /\ UNCHANGED <<mapvars, hasdc, stage, sendlocals, idxstack, pulled, memory, counter,
                     exchange, sent, missed>>
  BY DEF WriteOutputs
<1> HIDE DEF places, owner
<1>2. \A b \in places : owner(b) \in cells /\ owner(b).app = b BY DEF places, owner
<1> HIDE DEF cells
<1>3. Quiet' BY <1>1 DEF Quiet, Mapped
<1>4. Stages' BY <1>1 DEF Stages, sendlocals
<1>5. Reached' BY <1>1 DEF Reached, sendlocals
<1>6. ImageAtHome'
  <2> SUFFICES ASSUME NEW b \in DOMAIN IOmap' PROVE AtHome(b, IOmap'[b])
    BY <1>1, HomeFrame
  <2>1. CASE b \in places
    <3>1. IOmap'[b] = Value(owner(b).slave, "out", owner(b).bit, version') BY <1>1, <2>1
    <3>2. PICK f \in FMMU : /\ owner(b).slave = f.slave /\ f.dir = "out" /\ b \in FMMUBits(f)
                            /\ owner(b).bit = MemoryBit(f, b)
      <4>1. owner(b) \in AllCells("out") /\ owner(b).app = b BY <1>2, <2>1 DEF cells
      <4> QED BY <4>1, CellHome DEF Dirs
    <3>3. \A g \in FMMU : b \in FMMUBits(g) /\ (overlap => g.dir = "out") => g = f
      <4>1. b \in Int BY <3>2, AppTypes
      <4> QED BY <3>2, <4>1, MapFacts DEF Apart
    <3>4. Fits(IOmap'[b], f, b) BY <3>1, <3>2 DEF Fits, Value
    <3> QED BY <3>3, <3>4 DEF AtHome
  <2>2. CASE b \notin places
    <3>1. b \in DOMAIN IOmap /\ IOmap'[b] = IOmap[b] BY <1>1, <2>2
    <3> QED BY <3>1 DEF ImageAtHome
  <2> QED BY <2>1, <2>2
<1>7. OutputsKept'
  <2> SUFFICES ASSUME NEW c \in cells
               PROVE  Read(c.app)' = Outputs(c.slave, c.bit, version)'
    BY <1>1, CellsFrame DEF OutputsKept, cells
  <2>1. c.app \in places BY DEF places
  <2>2. owner(c.app).slave = c.slave /\ owner(c.app).bit = c.bit
    BY <1>2, <2>1, OneCell DEF cells
  <2>3. Read(c.app)' = Value(c.slave, "out", c.bit, version')
    BY <1>1, <2>1, <2>2 DEF Read, Value
  <2>4. version' # 0 BY <1>1 DEF Stages
  <2> QED BY <2>3, <2>4 DEF Outputs, Value
<1>8. Stacked'
  <2>1. PICK S : idxstack \in Seq(S) BY DEF Stacked
  <2>2. \A i \in DOMAIN idxstack : Kept(idxstack[i]) BY DEF Stacked
  <2>3. ASSUME NEW i \in DOMAIN idxstack PROVE Faithful(idxstack[i], IOmap')
    <3>1. stage # "app" BY <2>3 DEF Stages
    <3>2. blockLRW \/ LateWrites BY <1>1, <3>1
    <3> QED BY <2>2, <3>2 DEF Kept, InOrder, Faithful
  <2> QED BY <1>1, <2>1, <2>2, <2>3, StackFrame DEF Kept
<1>9. MemoryAtHome' BY <1>1 DEF MemoryAtHome, Value, NoValue
<1> QED BY <1>3, <1>4, <1>5, <1>6, <1>7, <1>8, <1>9

\* The IOmap, the memory, the outputs and the map are not touched.
LEMMA QuietFrame ==
  ASSUME Ready, UNCHANGED <<mapvars, IOmap, memory, version>>
  PROVE  Quiet' /\ ImageAtHome' /\ MemoryAtHome' /\ OutputsKept' /\ LowStays
<1>1. LowStays BY DEF LowStays, Read, NoValue, Value
<1>2. Quiet' BY DEF Ready, Exchanged, Quiet, Mapped
<1>3. ImageAtHome'
  <2>1. \A b \in DOMAIN IOmap' : AtHome(b, IOmap'[b]) BY DEF Ready, Exchanged, ImageAtHome
  <2> QED BY <2>1, HomeFrame
<1>4. MemoryAtHome' BY DEF Ready, Exchanged, MemoryAtHome, Value, NoValue
<1>5. OutputsKept' BY <1>1, OutputsFrame
<1> QED BY <1>1, <1>2, <1>3, <1>4, <1>5

LEMMA BeginSendKeeps == Ready /\ BeginSend => Exchanged'
<1> SUFFICES ASSUME Ready, BeginSend PROVE Exchanged'
  OBVIOUS
<1>1. UNCHANGED <<mapvars, IOmap, memory, version, idxstack, pulled>> /\ stage = "app"
  BY DEF BeginSend
<1>2. Quiet' /\ ImageAtHome' /\ MemoryAtHome' /\ OutputsKept' /\ Stacked'
  BY <1>1, QuietFrame, SameStack
<1>3. MappedTypes BY MapFacts DEF Ready
<1>4. Stages /\ idxstack = <<>> BY <1>1 DEF Ready, Exchanged, Stages
<1>5. Stages' /\ Reached'
  <2>1. CASE IOmapSize = 0
    BY <1>1, <1>4, <2>1 DEF BeginSend, Stages, Reached, Commands
  <2>2. CASE IOmapSize # 0 /\ ~blockLRW
    <3>1. /\ stage' = "LRW" /\ LogAdr' = 0 /\ segment' = 0 /\ data' = 0
          /\ inputoffset' = IF overlap THEN grp.Obytes ELSE 0
      BY <1>3, <2>2 DEF BeginSend, StartLRW, MappedTypes
    <3>2. length' \in Int BY <1>3, <2>2 DEF BeginSend, StartLRW, MappedTypes, IOmapSize
    <3> QED BY <1>1, <1>3, <1>4, <2>2, <3>1, <3>2 DEF Stages, Reached, MappedTypes
  <2>3. CASE IOmapSize # 0 /\ blockLRW /\ grp.Ibytes > 0
    <3>1. StartLRD BY <2>3 DEF BeginSend
    <3> QED BY <1>1, <1>3, <1>4, <2>3, <3>1 DEF StartLRD, Stages, Reached, MappedTypes
  <2>4. CASE IOmapSize # 0 /\ blockLRW /\ ~(grp.Ibytes > 0)
    <3>1. StartLWR BY <2>4 DEF BeginSend
    <3> QED BY <1>1, <1>3, <1>4, <2>4, <3>1 DEF StartLWR, Stages, Reached, MappedTypes
  <2> QED BY <2>1, <2>2, <2>3, <2>4
<1> QED BY <1>2, <1>5 DEF Exchanged
LEMMA SegmentLengthTypes ==
  ASSUME Ready, NEW command \in Commands, stage = command
  PROVE  SegmentLength(command) \in Int /\ (command # "LWR" => SegmentLength(command) >= 0)
<1>1. MappedTypes BY MapFacts DEF Ready
<1>2. segment \in Segments /\ length \in Int BY DEF Ready, Exchanged, Stages
<1>3. IOsegment[segment] \in Nat BY <1>1, <1>2 DEF MappedTypes
<1>4. CASE command = "LRD" /\ segment = grp.Isegment
  <2>1. grp.Ioffset \in Nat /\ grp.Ioffset <= IOsegment[segment] BY <1>1, <1>4 DEF MappedTypes
  <2>2. SegmentLength(command) = IOsegment[segment] - grp.Ioffset
    BY <1>4 DEF SegmentLength
  <2> QED BY <1>3, <2>1, <2>2
<1>5. CASE ~(command = "LRD" /\ segment = grp.Isegment)
  <2>1. SegmentLength(command) = length \/ SegmentLength(command) = IOsegment[segment]
    BY <1>5 DEF SegmentLength
  <2>2. command # "LWR" => SegmentLength(command) = IOsegment[segment]
    BY <1>5 DEF SegmentLength
  <2> QED BY <1>2, <1>3, <2>1, <2>2
<1> QED BY <1>4, <1>5

\* A datagram takes from the image what it puts there, or the inputs of a slave.
LEMMA DatagramKept ==
  ASSUME Ready, NEW command \in Commands, stage = command
  PROVE  LET g == Datagram(command) IN InOrder(g) /\ Carries(g) /\ Faithful(g, IOmap)
<1> DEFINE g == Datagram(command)
           n == SegmentLength(command)
           to == data + (IF command = "LRW" THEN inputoffset ELSE 0)
<1>1. n \in Int BY SegmentLengthTypes
<1>2. /\ LogAdr \in Int /\ data = LogAdr
      /\ command \in {"LRD", "LWR"} => blockLRW
      /\ command = "LRW" => /\ ~blockLRW /\ LogAdr >= 0
                            /\ inputoffset = IF overlap THEN grp.Obytes ELSE 0
      /\ command = "LRD" => LogAdr >= grp.Obytes
  BY DEF Ready, Exchanged, Stages, Reached, Commands
<1>3. grp.Obytes \in Nat BY MapFacts DEF Ready, MappedTypes
<1>4. /\ g.command = command /\ g.LogAdr = LogAdr /\ g.length = n /\ g.data = to
      /\ g = [command |-> g.command, LogAdr |-> g.LogAdr, length |-> g.length, data |-> g.data,
              dc |-> g.dc, bits |-> g.bits, wkc |-> g.wkc, status |-> g.status]
      /\ DOMAIN g.bits = 8 * LogAdr .. 8 * (LogAdr + n) - 1
      /\ \A b \in DOMAIN g.bits :
           g.bits[b] = IF command = "LRD" THEN NoValue ELSE Read(8 * (data - LogAdr) + b)
  BY DEF Datagram
<1> HIDE DEF g, n, to
<1>5. to \in Int /\ (~overlap => to = LogAdr)
      /\ (overlap /\ command # "LWR" => to >= grp.Obytes)
  BY <1>2, <1>3 DEF to, Commands
<1>6. InOrder(g) BY <1>1, <1>2, <1>4, <1>5 DEF InOrder
<1>7. \A b \in DOMAIN g.bits : g.bits[b] = IF command = "LRD" THEN NoValue ELSE Read(b)
  <2> SUFFICES ASSUME NEW b \in DOMAIN g.bits
               PROVE  g.bits[b] = IF command = "LRD" THEN NoValue ELSE Read(b)
    OBVIOUS
  <2>1. b \in Int BY <1>6, BitTypes
  <2>2. 8 * (data - LogAdr) + b = b BY <1>2, <2>1
  <2> QED BY <1>4, <2>2
<1>8. Carries(g)
  <2> SUFFICES ASSUME NEW b \in DOMAIN g.bits PROVE AtHome(b, g.bits[b])
    BY DEF Carries
  <2>1. CASE g.bits[b] = NoValue BY <2>1 DEF AtHome, Fits
  <2>2. CASE b \in DOMAIN IOmap /\ g.bits[b] = IOmap[b]
    BY <2>2 DEF Ready, Exchanged, ImageAtHome
  <2> QED BY <1>7, <2>1, <2>2 DEF Read
<1>9. Faithful(g, IOmap) BY <1>4, <1>7 DEF Faithful, Read
<1> QED BY <1>6, <1>8, <1>9 DEF g

LEMMA SendDatagramKeeps ==
  ASSUME Ready, NEW command \in Commands, SendDatagram(command)
  PROVE  Exchanged'
<1> DEFINE n == SegmentLength(command)
<1>1. /\ UNCHANGED <<mapvars, IOmap, memory, version, pulled>> /\ stage = command
      /\ pushindex(Datagram(command))
  BY DEF SendDatagram, history
<1>2. Quiet' /\ ImageAtHome' /\ MemoryAtHome' /\ OutputsKept' BY <1>1, QuietFrame
<1>3. Stacked'
  <2>1. /\ InOrder(Datagram(command)) /\ Carries(Datagram(command))
        /\ Faithful(Datagram(command), IOmap)
    BY <1>1, DatagramKept
  <2> QED BY <1>1, <2>1, Pushed
<1>4. n \in Int /\ (command # "LWR" => n >= 0) BY <1>1, SegmentLengthTypes
<1>5. Stages /\ Reached BY DEF Ready, Exchanged
<1>6. MappedTypes BY MapFacts DEF Ready
<1>7. Stages' /\ Reached'
  <2> HIDE DEF n
  <2>1. CASE length # n /\ segment + 1 < Last + 1
    <3>1. /\ segment' = segment + 1 /\ length' = length - n /\ LogAdr' = LogAdr + n
          /\ data' = data + n /\ UNCHANGED <<stage, inputoffset>>
      BY <2>1 DEF SendDatagram, n
    <3>2. segment' \in Segments
      <4>1. segment \in Nat /\ currentsegment \in Nat /\ currentsegment <= EC_MAXIOSEGMENTS - 1
        BY <1>5, <1>6, SegmentAssumption DEF Stages, MappedTypes, Segments
      <4> QED BY <2>1, <3>1, <4>1, SegmentAssumption DEF Last, Segments
    <3>3. Stages' BY <1>1, <1>4, <1>5, <3>1, <3>2 DEF Stages, Commands
    <3>4. Reached'
      <4>1. LogAdr \in Int /\ data = LogAdr /\ grp.Obytes \in Nat
        BY <1>1, <1>5, <1>6 DEF Stages, Reached, MappedTypes
      <4> QED BY <1>1, <1>4, <1>5, <3>1, <4>1 DEF Reached, Commands
    <3> QED BY <3>3, <3>4
  <2>2. CASE ~(length # n /\ segment + 1 < Last + 1) /\ command = "LRD" /\ grp.Obytes > 0
    <3>1. StartLWR BY <2>2 DEF SendDatagram, n
    <3> QED BY <1>1, <1>5, <1>6, <2>2, <3>1 DEF StartLWR, Stages, Reached, MappedTypes
  <2>3. CASE ~(length # n /\ segment + 1 < Last + 1) /\ ~(command = "LRD" /\ grp.Obytes > 0)
    <3>1. stage' = "sent" /\ LogAdr' = 0 /\ length' = 0 /\ segment' = 0
      BY <2>3 DEF SendDatagram, n
    <3> QED BY <1>1, <1>5, <1>6, <3>1 DEF Stages, Reached, MappedTypes, Commands
  <2> QED BY <2>1, <2>2, <2>3
<1> QED BY <1>2, <1>3, <1>7 DEF Exchanged
\* What the slaves put into a datagram is theirs, and above the outputs unless these overlap.
LEMMA InsertedKept ==
  ASSUME Ready, NEW g, Kept(g), g.status = "wire", NEW part, NEW n,
         NEW h, h = [g EXCEPT !.bits = Inserted(g, part), !.status = "back", !.wkc = n]
  PROVE  InOrder(h) /\ Carries(h) /\ Faithful(h, IOmap)
<1> DEFINE readers == {f \in Addressed(g) :
                        f.programmed /\ f.dir = "in" /\ <<f.slave, "in">> \in part}
           chosen(b) == CHOOSE f \in readers : b \in FMMUBits(f)
<1>1. InOrder(g) /\ Carries(g) /\ Faithful(g, IOmap) BY DEF Kept
<1>2. /\ h.command = g.command /\ h.LogAdr = g.LogAdr /\ h.length = g.length /\ h.data = g.data
      /\ h.dc = g.dc /\ h.wkc = n /\ h.status = "back" /\ h.bits = Inserted(g, part)
      /\ h = [command |-> g.command, LogAdr |-> g.LogAdr, length |-> g.length, data |-> g.data,
              dc |-> g.dc, bits |-> Inserted(g, part), wkc |-> n, status |-> "back"]
  BY <1>1 DEF InOrder
<1>3. h.bits = [b \in DOMAIN g.bits |->
                  IF \E f \in readers : b \in FMMUBits(f)
                    THEN Value(chosen(b).slave, "in", MemoryBit(chosen(b), b), exchange)
                    ELSE g.bits[b]]
  BY <1>2 DEF Inserted
<1>4. DOMAIN h.bits = DOMAIN g.bits BY <1>3
<1>5. \A b \in DOMAIN h.bits :
        IF \E f \in readers : b \in FMMUBits(f)
          THEN h.bits[b] = Value(chosen(b).slave, "in", MemoryBit(chosen(b), b), exchange)
          ELSE h.bits[b] = g.bits[b]
  BY <1>3
<1>6. \A f \in readers : f \in FMMU /\ f.dir = "in" BY DEF Addressed
<1>7. \A b : (\E f \in readers : b \in FMMUBits(f)) =>
               chosen(b) \in readers /\ b \in FMMUBits(chosen(b))
  OBVIOUS
<1> HIDE DEF readers, chosen
<1>8. InOrder(h) BY <1>1, <1>2, <1>4 DEF InOrder
<1>9. \A b \in DOMAIN h.bits : b \in Int BY <1>8, BitTypes
<1>10. Carries(h)
  <2> SUFFICES ASSUME ~overlap, NEW b \in DOMAIN h.bits PROVE AtHome(b, h.bits[b])
    BY <1>2 DEF Carries
  <2>1. CASE \E f \in readers : b \in FMMUBits(f)
    <3>1. PICK f \in FMMU : f = chosen(b) /\ b \in FMMUBits(f) /\ f.dir = "in"
      BY <1>6, <1>7, <2>1
    <3>2. h.bits[b] = Value(f.slave, f.dir, MemoryBit(f, b), exchange)
      BY <1>5, <2>1, <3>1
    <3>3. \A k \in FMMU : b \in FMMUBits(k) => k = f
      BY <1>9, <3>1, MapFacts DEF Ready, Apart
    <3>4. Fits(h.bits[b], f, b) BY <3>2 DEF Fits, Value
    <3> QED BY <3>3, <3>4 DEF AtHome
  <2>2. CASE ~(\E f \in readers : b \in FMMUBits(f))
    <3>1. h.bits[b] = g.bits[b] BY <1>5, <2>2
    <3> QED BY <1>1, <1>4, <3>1 DEF Carries
  <2> QED BY <2>1, <2>2
<1>11. Faithful(h, IOmap)
  <2> SUFFICES ASSUME ~LateWrites, ~overlap, h.command = "LRW",
                      NEW b \in DOMAIN h.bits, b < 8 * grp.Obytes
               PROVE  h.bits[b] = IF b \in DOMAIN IOmap THEN IOmap[b] ELSE NoValue
    BY DEF Faithful
  <2>1. ~(\E f \in readers : b \in FMMUBits(f))
    <3>1. \A f \in FMMU : b \in FMMUBits(f) /\ f.dir = "in" => b >= 8 * grp.Obytes
      BY <1>9, MapFacts DEF Ready, Apart
    <3>2. b \in Int /\ grp.Obytes \in Nat BY <1>9, MapFacts DEF Ready, MappedTypes
    <3>3. ~(b >= 8 * grp.Obytes) BY <3>2
    <3> QED BY <1>6, <3>1, <3>3
  <2>2. h.bits[b] = g.bits[b] BY <1>5, <2>1
  <2> QED BY <1>1, <1>2, <1>4, <2>2 DEF Faithful
<1> QED BY <1>8, <1>10, <1>11

\* What the slaves take from a datagram on its way to them is theirs.
LEMMA LatchedAtHome ==
  ASSUME Ready, NEW g, Kept(g), g.status = "wire", NEW part, memory' = Latched(g, part)
  PROVE  MemoryAtHome'
<1> DEFINE writers == {f \in Addressed(g) :
                        f.programmed /\ f.dir = "out" /\ <<f.slave, "out">> \in part}
           taken == UNION {{<<f, b>> : b \in FMMUBits(f) \cap DOMAIN g.bits} : f \in writers}
           place(t) == <<t[1].slave, MemoryBit(t[1], t[2])>>
           places == {place(t) : t \in taken}
           source(m) == CHOOSE t \in taken : place(t) = m
<1>1. memory' = [m \in places \cup DOMAIN memory |->
                   IF m \in places THEN g.bits[source(m)[2]] ELSE memory[m]]
  BY DEF Latched
<1>2. \A f \in writers : f \in FMMU /\ f.dir = "out" BY DEF Addressed
<1>3. \A t \in taken : \E f \in writers : \E b \in FMMUBits(f) \cap DOMAIN g.bits : t = <<f, b>>
  BY Zenon
<1> HIDE DEF writers
<1>4. \A m \in places : source(m) \in taken /\ place(source(m)) = m
  <2> HIDE DEF taken
  <2> SUFFICES ASSUME NEW m \in places PROVE \E t \in taken : place(t) = m
    OBVIOUS
  <2> QED OBVIOUS
<1> HIDE DEF taken, places, source
<1> SUFFICES ASSUME NEW m \in DOMAIN memory'
             PROVE  memory'[m] \in {NoValue, Value(m[1], "out", m[2], memory'[m].age)}
  BY DEF MemoryAtHome, Value, NoValue
<1>5. CASE m \in places
  <2>1. PICK f \in FMMU : \E b \in FMMUBits(f) \cap DOMAIN g.bits :
          source(m) = <<f, b>> /\ f.dir = "out"
    BY <1>2, <1>3, <1>4, <1>5
  <2>2. PICK b \in FMMUBits(f) \cap DOMAIN g.bits : source(m) = <<f, b>> /\ f.dir = "out"
    BY <2>1
  <2>3. source(m)[2] = b /\ m = <<f.slave, MemoryBit(f, b)>>
    <3>1. <<f, b>>[1] = f /\ <<f, b>>[2] = b OBVIOUS
    <3> QED BY <1>4, <1>5, <2>2, <3>1
  <2>4. memory'[m] = g.bits[b] BY <1>1, <1>5, <2>3
  <2>5. AtHome(b, g.bits[b]) BY <2>2 DEF Kept, Carries
  <2>6. Fits(g.bits[b], f, b) BY <2>2, <2>5 DEF AtHome
  <2>7. m[1] = f.slave /\ m[2] = MemoryBit(f, b) BY <2>3
  <2> QED BY <2>2, <2>4, <2>6, <2>7 DEF Fits
<1>6. CASE m \notin places
  <2>1. m \in DOMAIN memory /\ memory'[m] = memory[m] BY <1>1, <1>6
  <2> QED BY <2>1 DEF Ready, Exchanged, MemoryAtHome
<1> QED BY <1>5, <1>6

LEMMA ExchangeFrame ==
  ASSUME Ready, UNCHANGED <<mapvars, stage, sendlocals, pulled, IOmap, version>>,
         stage # "app", Stacked', MemoryAtHome'
  PROVE  Exchanged'
<1>1. LowStays BY DEF LowStays, Read, NoValue, Value
<1>2. Quiet' BY DEF Ready, Exchanged, Quiet, Mapped
<1>3. ImageAtHome'
  <2>1. \A b \in DOMAIN IOmap' : AtHome(b, IOmap'[b]) BY DEF Ready, Exchanged, ImageAtHome
  <2> QED BY <2>1, HomeFrame
<1>4. OutputsKept' BY <1>1, OutputsFrame
<1>5. Stages' /\ Reached' BY DEF Ready, Exchanged, Stages, Reached, sendlocals
<1> QED BY <1>2, <1>3, <1>4, <1>5 DEF Exchanged

LEMMA PassKeeps ==
  ASSUME Ready, NEW i \in DOMAIN idxstack, Pass(i)
  PROVE  Exchanged'
<1> DEFINE g == idxstack[i]
<1>1. PICK part \in SUBSET Sides({f \in Addressed(g) : f.programmed}) :
        /\ idxstack' = [idxstack EXCEPT ![i] =
             [g EXCEPT !.bits = Inserted(g, part), !.status = "back",
                       !.wkc = SumOver(g.command, part)]]
        /\ memory' = Latched(g, part)
  BY DEF Pass
<1>2. /\ g.status = "wire"
      /\ UNCHANGED <<mapvars, stage, sendlocals, pulled, IOmap, version>>
  BY DEF Pass
<1>3. Kept(g) /\ stage # "app"
  <2>1. idxstack # <<>> BY DEF Ready
  <2> QED BY <2>1 DEF Ready, Exchanged, Stacked, Stages
<1>4. PICK h : h = [g EXCEPT !.bits = Inserted(g, part), !.status = "back",
                             !.wkc = SumOver(g.command, part)]
  OBVIOUS
<1> HIDE DEF g
<1>5. InOrder(h) /\ Carries(h) /\ Faithful(h, IOmap) BY <1>2, <1>3, <1>4, InsertedKept
<1>6. Stacked'
  <2>1. idxstack' = [idxstack EXCEPT ![i] = h] BY <1>1, <1>4
  <2> QED BY <1>2, <1>5, <2>1, Replaced
<1>7. MemoryAtHome' BY <1>1, <1>2, <1>3, LatchedAtHome
<1> QED BY <1>2, <1>3, <1>6, <1>7, ExchangeFrame

LEMMA LoseKeeps ==
  ASSUME Ready, NEW i \in DOMAIN idxstack, Lose(i)
  PROVE  Exchanged'
<1>1. PICK g : g = idxstack[i] OBVIOUS
<1>2. PICK h : h = [g EXCEPT !.status = "lost"] OBVIOUS
<1>3. /\ idxstack' = [idxstack EXCEPT ![i] = h]
      /\ UNCHANGED <<mapvars, stage, sendlocals, pulled, IOmap, memory, version>>
  BY <1>1, <1>2 DEF Lose
<1>4. Kept(g) /\ stage # "app"
  <2>1. idxstack # <<>> OBVIOUS
  <2> QED BY <1>1, <2>1 DEF Ready, Exchanged, Stacked, Stages
<1>5. /\ h.command = g.command /\ h.LogAdr = g.LogAdr /\ h.length = g.length /\ h.data = g.data
      /\ h.dc = g.dc /\ h.wkc = g.wkc /\ h.status = "lost" /\ h.bits = g.bits
      /\ h = [command |-> g.command, LogAdr |-> g.LogAdr, length |-> g.length, data |-> g.data,
              dc |-> g.dc, bits |-> g.bits, wkc |-> g.wkc, status |-> "lost"]
  BY <1>2, <1>4 DEF Kept, InOrder
<1>6. InOrder(h) BY <1>4, <1>5 DEF Kept, InOrder
<1>7. Carries(h) BY <1>4, <1>5 DEF Kept, Carries
<1>8. Faithful(h, IOmap) BY <1>4, <1>5 DEF Kept, Faithful
<1>9. Stacked' BY <1>3, <1>6, <1>7, <1>8, Replaced
<1>10. MemoryAtHome' BY <1>3 DEF Ready, Exchanged, MemoryAtHome, Value, NoValue
<1> QED BY <1>3, <1>4, <1>9, <1>10, ExchangeFrame
LEMMA BeginReceiveKeeps == Ready /\ BeginReceive => Exchanged'
<1> SUFFICES ASSUME Ready, BeginReceive PROVE Exchanged'
  OBVIOUS
<1>1. UNCHANGED <<mapvars, IOmap, memory, version, idxstack, sendlocals, pulled>>
      /\ stage' = "receive"
  BY DEF BeginReceive, history
<1>2. Quiet' /\ ImageAtHome' /\ MemoryAtHome' /\ OutputsKept' /\ Stacked'
  BY <1>1, QuietFrame, SameStack
<1>3. Stages' /\ Reached'
  BY <1>1 DEF Ready, Exchanged, Stages, Reached, Commands, sendlocals
<1> QED BY <1>2, <1>3 DEF Exchanged

\* An answer goes to its place in the image; outputs it brings back are what they were.
LEMMA CopiedAtHome ==
  ASSUME Ready, NEW g, Kept(g), g.command # "LWR", UNCHANGED <<FMMU, overlap>>, IOmap' = Copied(g)
  PROVE  ImageAtHome' /\ (~LateWrites => LowStays)
<1> DEFINE area == 8 * g.data .. 8 * (g.data + g.length) - 1
<1>1. /\ InOrder(g) /\ Carries(g) /\ Faithful(g, IOmap)
      /\ g.LogAdr \in Int /\ g.length \in Int /\ g.data \in Int
      /\ DOMAIN g.bits = 8 * g.LogAdr .. 8 * (g.LogAdr + g.length) - 1
      /\ ~overlap => g.data = g.LogAdr
      /\ g.command = "LRD" => g.LogAdr >= grp.Obytes
      /\ overlap => g.data >= grp.Obytes
  BY DEF Kept, InOrder
<1>2. MappedTypes /\ grp.Obytes \in Nat BY MapFacts DEF Ready, MappedTypes
<1>3. IOmap' = [b \in area \cup DOMAIN IOmap |->
                  IF b \in area THEN g.bits[b - 8 * (g.data - g.LogAdr)] ELSE IOmap[b]]
  BY DEF Copied
<1>4. \A b \in area : /\ b \in Int
                      /\ overlap \/ g.command = "LRD" => b >= 8 * grp.Obytes
                      /\ ~overlap => b \in DOMAIN g.bits /\ b - 8 * (g.data - g.LogAdr) = b
  <2> SUFFICES ASSUME NEW b \in area
               PROVE  /\ b \in Int
                      /\ overlap \/ g.command = "LRD" => b >= 8 * grp.Obytes
                      /\ ~overlap => b \in DOMAIN g.bits /\ b - 8 * (g.data - g.LogAdr) = b
    OBVIOUS
  <2>1. PICK to \in Int, a \in Int, l \in Int, o \in Nat :
          to = g.data /\ a = g.LogAdr /\ l = g.length /\ o = grp.Obytes
    BY <1>1, <1>2
  <2>2. b \in Int /\ 8 * to <= b /\ b <= 8 * (to + l) - 1 BY <2>1
  <2>3. overlap \/ g.command = "LRD" => to >= o BY <1>1, <2>1
  <2>4. overlap \/ g.command = "LRD" => b >= 8 * o
    <3>1. to >= o => b >= 8 * o BY <2>2
    <3> QED BY <2>3, <3>1
  <2>5. ~overlap => b \in DOMAIN g.bits /\ b - 8 * (g.data - g.LogAdr) = b
    <3> SUFFICES ASSUME ~overlap PROVE b \in DOMAIN g.bits /\ b - 8 * (g.data - g.LogAdr) = b
      OBVIOUS
    <3>1. to = a BY <1>1, <2>1
    <3>2. b \in 8 * a .. 8 * (a + l) - 1 /\ b - 8 * (to - a) = b BY <2>2, <3>1
    <3> QED BY <1>1, <2>1, <3>2
  <2> QED BY <2>1, <2>2, <2>4, <2>5
<1>5. \A b \in DOMAIN IOmap' :
        IF b \in area THEN IOmap'[b] = g.bits[b - 8 * (g.data - g.LogAdr)]
        ELSE b \in DOMAIN IOmap /\ IOmap'[b] = IOmap[b]
  <2> HIDE DEF area
  <2> QED BY <1>3
<1>6. DOMAIN IOmap' = area \cup DOMAIN IOmap BY <1>3
<1> HIDE DEF area
<1>7. ImageAtHome'
  <2> SUFFICES ASSUME NEW b \in DOMAIN IOmap' PROVE AtHome(b, IOmap'[b])
    BY HomeFrame
  <2>1. CASE b \notin area
    <3>1. b \in DOMAIN IOmap /\ IOmap'[b] = IOmap[b] BY <1>5, <2>1
    <3> QED BY <3>1 DEF Ready, Exchanged, ImageAtHome
  <2>2. CASE b \in area /\ ~overlap
    <3>1. b \in DOMAIN g.bits /\ IOmap'[b] = g.bits[b] BY <1>4, <1>5, <2>2
    <3> QED BY <1>1, <2>2, <3>1 DEF Carries
  <2>3. CASE b \in area /\ overlap
    <3>1. b \in Int /\ b >= 8 * grp.Obytes BY <1>4, <2>3
    <3>2. \A f \in FMMU : ~(b \in FMMUBits(f) /\ f.dir = "out")
      <4>1. \A f \in FMMU : b \in FMMUBits(f) /\ f.dir = "out" => b < 8 * grp.Obytes
        BY <3>1, MapFacts DEF Ready, Apart
      <4>2. ~(b < 8 * grp.Obytes) BY <1>2, <3>1
      <4> QED BY <4>1, <4>2
    <3> QED BY <2>3, <3>2 DEF AtHome
  <2> QED BY <2>1, <2>2, <2>3
<1>8. ASSUME ~LateWrites, NEW b \in Int, b < 8 * grp.Obytes PROVE Read(b)' = Read(b)
  <2>1. CASE b \notin area
    <3>1. (b \in DOMAIN IOmap') <=> (b \in DOMAIN IOmap) BY <1>6, <2>1
    <3>2. b \in DOMAIN IOmap => IOmap'[b] = IOmap[b] BY <1>5, <1>6, <2>1
    <3> QED BY <3>1, <3>2 DEF Read, NoValue, Value
  <2>2. CASE b \in area
    <3>1. ~(b >= 8 * grp.Obytes) BY <1>2, <1>8
    <3>2. ~overlap /\ g.command # "LRD" BY <1>4, <2>2, <3>1
    <3>3. g.command = "LRW" BY <1>1, <3>2 DEF InOrder, Commands
    <3>4. b \in DOMAIN g.bits /\ IOmap'[b] = g.bits[b] /\ b \in DOMAIN IOmap'
      BY <1>4, <1>5, <1>6, <2>2, <3>2
    <3>5. g.bits[b] = Read(b) BY <1>1, <1>8, <3>2, <3>3, <3>4 DEF Faithful, Read
    <3>6. Read(b)' = IOmap'[b] BY <3>4 DEF Read
    <3> QED BY <3>4, <3>5, <3>6
  <2> QED BY <2>1, <2>2
<1> QED BY <1>7, <1>8 DEF LowStays

LEMMA ReceiveNextKeeps == Ready /\ ReceiveNext => Exchanged'
<1> SUFFICES ASSUME Ready, ReceiveNext PROVE Exchanged'
  OBVIOUS
<1>1. PICK g : g = idxstack[pulled + 1] OBVIOUS
<1>2. /\ stage = "receive" /\ pulled < Len(idxstack) /\ pulled' = pulled + 1
      /\ UNCHANGED <<mapvars, stage, sendlocals, idxstack, memory, version>>
      /\ IOmap' = IOmap \/ (IOmap' = Copied(g) /\ g.command # "LWR")
  BY <1>1 DEF ReceiveNext, TakeAnswer, pullindex, history
<1>3. Exchanged BY DEF Ready
<1>4. Kept(g)
  <2>1. PICK S : idxstack \in Seq(S) BY <1>3 DEF Exchanged, Stacked
  <2>2. pulled \in Nat BY <1>3 DEF Exchanged, Stages
  <2>3. pulled + 1 \in DOMAIN idxstack
    <3>1. Len(idxstack) \in Nat /\ DOMAIN idxstack = 1 .. Len(idxstack) BY <2>1, LenProperties
    <3> QED BY <1>2, <2>2, <3>1
  <2> QED BY <1>1, <1>3, <2>3 DEF Exchanged, Stacked
<1>5. ImageAtHome' /\ (~LateWrites => LowStays)
  <2>1. CASE IOmap' = IOmap
    <3>1. LowStays BY <2>1 DEF LowStays, Read, NoValue, Value
    <3>2. \A b \in DOMAIN IOmap' : AtHome(b, IOmap'[b]) BY <1>3, <2>1 DEF Exchanged, ImageAtHome
    <3>3. ImageAtHome' BY <1>2, <3>2, HomeFrame
    <3> QED BY <3>1, <3>3
  <2>2. CASE IOmap' = Copied(g) /\ g.command # "LWR"
    BY <1>2, <1>4, <2>2, CopiedAtHome
  <2> QED BY <1>2, <2>1, <2>2
<1>6. OutputsKept' BY <1>2, <1>5, OutputsFrame
<1>7. Stacked'
  <2>1. CASE LateWrites
    <3>1. PICK S : idxstack \in Seq(S) BY <1>3 DEF Exchanged, Stacked
    <3>2. \A i \in DOMAIN idxstack : Kept(idxstack[i]) BY <1>3 DEF Exchanged, Stacked
    <3>3. \A i \in DOMAIN idxstack : Faithful(idxstack[i], IOmap') BY <2>1 DEF Faithful
    <3> QED BY <1>2, <3>1, <3>2, <3>3, StackFrame DEF Kept
  <2>2. CASE ~LateWrites BY <1>2, <1>5, <2>2, SameStack
  <2> QED BY <2>1, <2>2
<1>8. MemoryAtHome' BY <1>2, <1>3 DEF Exchanged, MemoryAtHome, Value, NoValue
<1>9. Quiet' BY <1>2 DEF Ready, Quiet, Mapped
<1>10. Stages' /\ Reached'
  BY <1>2, <1>3 DEF Exchanged, Stages, Reached, Commands, sendlocals
<1> QED BY <1>5, <1>6, <1>7, <1>8, <1>9, <1>10 DEF Exchanged

LEMMA EndReceiveKeeps == Ready /\ EndReceive => Exchanged'
<1> SUFFICES ASSUME Ready, EndReceive PROVE Exchanged'
  OBVIOUS
<1>1. /\ UNCHANGED <<mapvars, IOmap, memory, version, sendlocals>>
      /\ stage' = "app" /\ idxstack' = <<>> /\ pulled' = 0
  BY DEF EndReceive, clearindex, history
<1>2. Quiet' /\ ImageAtHome' /\ MemoryAtHome' /\ OutputsKept' BY <1>1, QuietFrame
<1>3. Stacked'
  <2>1. idxstack' \in Seq({}) /\ DOMAIN idxstack' = {} BY <1>1
  <2> QED BY <2>1 DEF Stacked
<1>4. Stages' /\ Reached'
  BY <1>1 DEF Ready, Exchanged, Stages, Reached, Commands, sendlocals
<1> QED BY <1>2, <1>3, <1>4 DEF Exchanged
\* Before the group is mapped there is nothing to keep.
LEMMA MappingKeeps ==
  ASSUME Inv, Exchanged, ~Mapped, [MapNext]_mapvars, Inv', UNCHANGED pdvars
  PROVE  Exchanged'
<1> USE DEF pdvars, sendlocals, counter, history
<1>1. /\ stage = "app" /\ IOmap = <<>> /\ memory = <<>> /\ version = 0 /\ idxstack = <<>>
  BY DEF Exchanged, Quiet, Stages
<1>2. UNCHANGED <<stage, IOmap, memory, version, idxstack, LogAdr, data, length, segment, pulled>>
  OBVIOUS
<1>3. Quiet' BY <1>1, <1>2 DEF Quiet
<1>4. Stages' /\ Reached' BY <1>1, <1>2 DEF Exchanged, Stages, Reached, Commands
<1>5. Stacked'
  <2>1. idxstack' \in Seq({}) /\ DOMAIN idxstack' = {} BY <1>1, <1>2
  <2> QED BY <2>1 DEF Stacked
<1>6. ImageAtHome' /\ MemoryAtHome'
  <2>1. DOMAIN IOmap' = {} /\ DOMAIN memory' = {} BY <1>1, <1>2
  <2> QED BY <2>1 DEF ImageAtHome, MemoryAtHome
<1>7. OutputsKept'
  <2> SUFFICES ASSUME NEW c \in AllCells("out")'
               PROVE  (Read(c.app) = Outputs(c.slave, c.bit, version))'
    BY DEF OutputsKept
  <2>1. DOMAIN IOmap' = {} BY <1>1, <1>2
  <2> QED BY <1>1, <1>2, <2>1 DEF Read, Outputs
<1> QED BY <1>3, <1>4, <1>5, <1>6, <1>7 DEF Exchanged

LEMMA ExchangedInitially == Init => Exchanged
<1> SUFFICES ASSUME Init PROVE Exchanged
  OBVIOUS
<1>1. /\ ~Mapped /\ stage = "app" /\ IOmap = <<>> /\ memory = <<>> /\ version = 0 /\ idxstack = <<>>
      /\ segment = 0 /\ LogAdr = 0 /\ length = 0 /\ pulled = 0
  BY DEF Init, MapInit, PDInit, Mapped
<1>2. 0 \in Segments BY SegmentAssumption DEF Segments
<1>3. Stages /\ Reached BY <1>1, <1>2 DEF Stages, Reached, Commands
<1>4. Stacked
  <2>1. idxstack \in Seq({}) /\ DOMAIN idxstack = {} BY <1>1
  <2> QED BY <2>1 DEF Stacked
<1>5. ImageAtHome /\ MemoryAtHome
  <2>1. DOMAIN IOmap = {} /\ DOMAIN memory = {} BY <1>1
  <2> QED BY <2>1 DEF ImageAtHome, MemoryAtHome
<1> QED BY <1>1, <1>3, <1>4, <1>5 DEF Exchanged, Quiet, OutputsKept

\* The steps of the exchange, each by its lemma.
LEMMA ExchangeKeeps == Ready /\ PDNext => Exchanged'
BY WriteOutputsKeeps, BeginSendKeeps, SendDatagramKeeps, PassKeeps, LoseKeeps, BeginReceiveKeeps,
   ReceiveNextKeeps, EndReceiveKeeps DEF PDNext

LEMMA StutterKeeps == Ready /\ UNCHANGED vars => Exchanged'
<1> SUFFICES ASSUME Ready, UNCHANGED vars PROVE Exchanged'
  OBVIOUS
<1> USE DEF vars, pdvars, sendlocals, history
<1>1. UNCHANGED <<mapvars, IOmap, memory, version, sendlocals, idxstack, stage, pulled>>
  OBVIOUS
<1>2. Quiet' /\ ImageAtHome' /\ MemoryAtHome' /\ OutputsKept' /\ Stacked'
  BY <1>1, QuietFrame, SameStack
<1>3. Stages' /\ Reached' BY <1>1 DEF Ready, Exchanged, Stages, Reached
<1> QED BY <1>2, <1>3 DEF Exchanged

LEMMA ExchangedInductive ==
  Inv /\ Inv' /\ Layout /\ Exchanged /\ [Next]_vars => Exchanged'
<1> SUFFICES ASSUME Inv, Inv', Layout, Exchanged, [Next]_vars PROVE Exchanged'
  OBVIOUS
<1>1. CASE Mapped
  <2>1. Ready BY <1>1 DEF Ready
  <2>2. UNCHANGED mapvars BY <1>1, NextMaps, MapStays
  <2>3. CASE MapNext /\ UNCHANGED pdvars
    <3>1. UNCHANGED vars BY <2>2, <2>3 DEF vars
    <3> QED BY <2>1, <3>1, StutterKeeps
  <2>4. CASE PDNext BY <2>1, <2>4, ExchangeKeeps
  <2>5. CASE UNCHANGED vars BY <2>1, <2>5, StutterKeeps
  <2> QED BY <2>3, <2>4, <2>5 DEF Next
<1>2. CASE ~Mapped
  <2>1. UNCHANGED pdvars
    <3>1. CASE PDNext
      <4>1. stage = "app" /\ idxstack = <<>> BY <1>2 DEF Exchanged, Quiet, Stages
      <4>2. DOMAIN idxstack = {} BY <4>1
      <4> QED BY <1>2, <3>1, <4>1, <4>2
        DEF PDNext, WriteOutputs, BeginSend, SendDatagram, Commands, BeginReceive, ReceiveNext,
            EndReceive
    <3> QED BY <3>1 DEF Next, vars
  <2>2. [MapNext]_mapvars BY NextMaps
  <2> QED BY <1>2, <2>1, <2>2, MappingKeeps
<1> QED BY <1>1, <1>2

-----------------------------------------------------------------------------
(***************************************************************************)
(* No bit ends up at another bit's place.                                  *)
(***************************************************************************)
LEMMA Invariant ==
  ASSUME OneGap
  PROVE  Spec => [](Inv /\ Ties /\ Layout /\ Exchanged)
<1>1. Init => Inv /\ Ties /\ Layout /\ Exchanged
  BY Initial, TiesInitially, LayoutInitially, ExchangedInitially DEF Init
<1>2. Inv /\ Ties /\ Layout /\ Exchanged /\ [Next]_vars => (Inv /\ Ties /\ Layout /\ Exchanged)'
  BY OneGap, NextMaps, Inductive, TiesInductive, LayoutInductive, ExchangedInductive
<1> QED BY <1>1, <1>2, PTL DEF Spec

\* Outputs and inputs keep to their bits, in the IOmap and in the slaves, for any group
\* whose SMs connect but for one gap, any segments and any losses.
LEMMA InPlace == Inv /\ Layout /\ Exchanged /\ ~LateWrites => BitsInPlace
<1> SUFFICES ASSUME Inv, Layout, Exchanged, ~LateWrites PROVE BitsInPlace
  OBVIOUS
<1>1. ASSUME Mapped, ~overlap, NEW c \in AllCells("in")
      PROVE  Read(c.app) \in {NoValue, Value(c.slave, "in", c.bit, Read(c.app).age)}
  <2>1. PICK f \in FMMU : /\ c.slave = f.slave /\ f.dir = "in" /\ c.app \in FMMUBits(f)
                          /\ c.bit = MemoryBit(f, c.app)
    BY <1>1, CellHome DEF Dirs
  <2>2. CASE c.app \in DOMAIN IOmap
    <3>1. AtHome(c.app, IOmap[c.app]) BY <2>2 DEF Exchanged, ImageAtHome
    <3>2. Fits(IOmap[c.app], f, c.app) BY <1>1, <2>1, <3>1 DEF AtHome
    <3> QED BY <2>1, <2>2, <3>2 DEF Fits, Read
  <2>3. CASE c.app \notin DOMAIN IOmap BY <2>3 DEF Read
  <2> QED BY <2>2, <2>3
<1>2. \A m \in DOMAIN memory :
        memory[m] \in {NoValue, Value(m[1], "out", m[2], memory[m].age)}
  BY DEF Exchanged, MemoryAtHome
<1>3. ASSUME Mapped, NEW c \in AllCells("out")
      PROVE  Read(c.app) = Outputs(c.slave, c.bit, version)
  BY <1>3 DEF Exchanged, OutputsKept
<1> QED BY <1>1, <1>2, <1>3 DEF BitsInPlace

(***************************************************************************)
(* BitsInPlace holds whatever is lost or absent (ec_receive_processdata    *)
(* copies an answer to the data pointer that ec_send_processdata pushed),  *)
(* as long as the application keeps off its outputs between the two.       *)
(***************************************************************************)
THEOREM NoBitStrays ==
  ASSUME OneGap, ~LateWrites
  PROVE  Spec => []BitsInPlace
<1>1. Inv /\ Ties /\ Layout /\ Exchanged => BitsInPlace BY ~LateWrites, InPlace
<1> QED BY <1>1, Invariant, OneGap, PTL
(***************************************************************************)
(* An application that writes its outputs while they are on their way      *)
(* (between ec_send_processdata and ec_receive_processdata) may find them  *)
(* overwritten by what an LRW brings back, but still no bit strays.        *)
(***************************************************************************)
THEOREM LateWritesStayHome ==
  ASSUME OneGap
  PROVE  Spec => [](ImageAtHome /\ MemoryAtHome)
<1>1. Inv /\ Ties /\ Layout /\ Exchanged => ImageAtHome /\ MemoryAtHome BY DEF Exchanged
<1> QED BY <1>1, Invariant, OneGap, PTL

(***************************************************************************)
(* Exchanging process data leaves the map alone (ecx_send_processdata only *)
(* reads what ecx_config_map_group set up), so that what is shown above    *)
(* of the mapping functions holds while the group is operated.             *)
(***************************************************************************)
THEOREM ExchangeImplementsMap == Spec => MapSpec
<1>1. Init => MapInit BY DEF Init
<1> QED BY <1>1, NextMaps, PTL DEF Spec, MapSpec
=============================================================================
