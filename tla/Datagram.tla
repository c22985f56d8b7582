-------------------------------- MODULE Datagram --------------------------------
(***************************************************************************)
(* ethercatbase.c: how a datagram is set up in an Ethernet frame, how more *)
(* are added to it, and what each primitive takes from the frame that      *)
(* comes back.                                                             *)
(*                                                                         *)
(* A frame maps the offsets at which the code writes a header, a datum or  *)
(* a working counter to what it writes there; the index of the datagrams   *)
(* is left out, a header is the one from its command on, and a datum is a  *)
(* sequence of double words, each the set of its bits that are 1.          *)
(***************************************************************************)
EXTENDS Integers, SequencesExt

CONSTANT PointerSize   \* sizeof(DCtime), the address of the time, not the time

ASSUME PointerSizeAssumption == PointerSize \in {4, 8}

ETH_HEADERSIZE == 14
EC_HEADERSIZE == 12
EC_ELENGTHSIZE == 2
EC_WKCSIZE == 2

Zero == {}
Size(data) == 4 * Len(data)
Cell(cells, at, none) == IF at \in DOMAIN cells THEN cells[at] ELSE none

writedatagramdata(com, data) ==
  IF com \in {"NOP", "APRD", "FPRD", "BRD", "LRD"} THEN [i \in DOMAIN data |-> Zero] ELSE data

setupdatagram(com, ADP, ADO, data) ==
  LET datum == ETH_HEADERSIZE + EC_HEADERSIZE
  IN  [elength |-> EC_HEADERSIZE + Size(data),
       header  |-> ETH_HEADERSIZE + EC_ELENGTHSIZE :>
                     [command |-> com, ADP |-> ADP, ADO |-> ADO,
                      dlength |-> Size(data), follows |-> FALSE],
       datum   |-> datum :> writedatagramdata(com, data),
       wkc     |-> datum + Size(data) :> 0,
       length  |-> ETH_HEADERSIZE + EC_HEADERSIZE + EC_WKCSIZE + Size(data)]

\* The flag that another datagram follows goes to the first header of the frame;
\* the caller of a third one has set it in the second with more.
AddAt(frame, at, com, more, ADP, ADO, data) ==
  LET datum == at + EC_HEADERSIZE - EC_ELENGTHSIZE
      first == ETH_HEADERSIZE + EC_ELENGTHSIZE
  IN  [elength |-> frame.elength + EC_HEADERSIZE + Size(data),
       header  |-> at :> [command |-> com, ADP |-> ADP, ADO |-> ADO,
                          dlength |-> Size(data), follows |-> more]
                   @@ [frame.header EXCEPT ![first].follows = TRUE],
       datum   |-> datum :> writedatagramdata(com, data) @@ frame.datum,
       wkc     |-> datum + Size(data) :> 0 @@ frame.wkc,
       length  |-> at + EC_HEADERSIZE - EC_ELENGTHSIZE + EC_WKCSIZE + Size(data)]

adddatagram(frame, com, more, ADP, ADO, data) ==
  AddAt(frame, frame.length, com, more, ADP, ADO, data)
\* Where the datum added to a frame will be found in the received one.
RxOffset(frame) == frame.length + EC_HEADERSIZE - EC_ELENGTHSIZE - ETH_HEADERSIZE

-----------------------------------------------------------------------------
(***************************************************************************)
(* The primitives: the frame of each, and what it takes from the answer:   *)
(* "nothing", the "datum", the datum "if_command" says that the frame is   *)
(* its own, several data, or the datum, the counter and the time.  length  *)
(* stands for what the caller's buffer holds when the call is made.        *)
(***************************************************************************)
Call(op, frame, takes, offsets) ==
  [op |-> op, frame |-> frame, takes |-> takes, offsets |-> offsets]

BWR(ADO, data) == Call("BWR", setupdatagram("BWR", 0, ADO, data), "nothing", <<>>)
BRD(ADO, data) == Call("BRD", setupdatagram("BRD", 0, ADO, data), "datum", <<>>)
APRD(ADP, ADO, data) == Call("APRD", setupdatagram("APRD", ADP, ADO, data), "datum", <<>>)
ARMW(ADP, ADO, data) == Call("ARMW", setupdatagram("ARMW", ADP, ADO, data), "datum", <<>>)
FRMW(ADP, ADO, data) == Call("FRMW", setupdatagram("FRMW", ADP, ADO, data), "datum", <<>>)
FPRD(ADP, ADO, data) == Call("FPRD", setupdatagram("FPRD", ADP, ADO, data), "datum", <<>>)
APWR(ADP, ADO, data) == Call("APWR", setupdatagram("APWR", ADP, ADO, data), "nothing", <<>>)
FPWR(ADP, ADO, data) == Call("FPWR", setupdatagram("FPWR", ADP, ADO, data), "nothing", <<>>)
LRW(LogAdr, data) == Call("LRW", setupdatagram("LRW", 0, LogAdr, data), "if_command", <<>>)
LRD(LogAdr, data) == Call("LRD", setupdatagram("LRD", 0, LogAdr, data), "if_command", <<>>)
LWR(LogAdr, data) == Call("LWR", setupdatagram("LWR", 0, LogAdr, data), "nothing", <<>>)

\* A process data datagram and one that spreads the time of the reference clock.
LRWDC(LogAdr, data, DCrs, DCtime) ==
  LET first == setupdatagram("LRW", 0, LogAdr, data)
      DCtE  == SubSeq(DCtime, 1, PointerSize \div 4)
  IN  Call("LRWDC", adddatagram(first, "FRMW", FALSE, DCrs, "DCSYSTIME", DCtE),
           "and_time", <<RxOffset(first)>>)

\* ethercatmain.c: the AL status of several slaves in one frame.
FPRD_multi(configlst, data) ==
  LET n == Len(configlst)
      built[slcnt \in 1..n] ==
        IF slcnt = 1
          THEN [frame |-> setupdatagram("FPRD", configlst[1], "ALSTAT", data),
                sldatapos |-> <<EC_HEADERSIZE>>]
          ELSE LET sofar == built[slcnt - 1]
               IN  [frame |-> adddatagram(sofar.frame, "FPRD", slcnt < n, configlst[slcnt],
                                          "ALSTAT", data),
                    sldatapos |-> Append(sofar.sldatapos, RxOffset(sofar.frame))]
  IN  Call("FPRD_multi", built[n].frame, "all", built[n].sldatapos)

-----------------------------------------------------------------------------
(***************************************************************************)
(* Received frames are kept without their Ethernet header: an offset into  *)
(* the receive buffer is one into the frame less ETH_HEADERSIZE.           *)
(***************************************************************************)
RxDatum(frame, at) == Cell(frame.datum, ETH_HEADERSIZE + at, <<>>)
RxCount(frame, at) == Cell(frame.wkc, ETH_HEADERSIZE + at, 0)
RxCommand(frame) == frame.header[ETH_HEADERSIZE + EC_ELENGTHSIZE].command
\* The counter ecx_inframe returns: the two bytes elength points at.
wkcOf(frame) == RxCount(frame, frame.elength)

\* What a primitive does with its answer: the counter it returns and the data it
\* copies out, none when it copies nothing.
Taken(call, rxbuf, wkc) ==
  LET datum == RxDatum(rxbuf, EC_HEADERSIZE)
      mine  == wkc > 0 /\ RxCommand(rxbuf) = "LRW"
  IN  CASE call.takes = "nothing" -> [wkc |-> wkc, data |-> <<>>]
        [] call.takes = "datum" ->
             [wkc |-> wkc, data |-> IF wkc > 0 THEN <<datum>> ELSE <<>>]
        [] call.takes = "if_command" ->
             [wkc |-> wkc,
              data |-> IF wkc > 0 /\ RxCommand(rxbuf) = call.op THEN <<datum>> ELSE <<>>]
        [] call.takes = "and_time" ->
             IF mine
               THEN [wkc |-> RxCount(rxbuf, EC_HEADERSIZE + Size(datum)),
                     data |-> <<datum, RxDatum(rxbuf, call.offsets[1])>>]
               ELSE [wkc |-> wkc, data |-> <<>>]
        [] call.takes = "all" ->
             [wkc |-> wkc,
              data |-> IF wkc >= 0
                         THEN [i \in DOMAIN call.offsets |-> RxDatum(rxbuf, call.offsets[i])]
                         ELSE <<>>]

-----------------------------------------------------------------------------
(***************************************************************************)
(* The slaves a frame passes, external to the master: what each does with  *)
(* the datagrams of a frame.  A slave is                                   *)
(*   [station, memory: what is written at each offset, pos, in, out],      *)
(* pos its place in the logical datum, in and out its process data.        *)
(***************************************************************************)
Here(slave, h) ==
  \/ h.command \in {"APRD", "APWR", "ARMW"} /\ h.ADP = 0
  \/ h.command \in {"FPRD", "FPWR", "FRMW"} /\ h.ADP = slave.station
  \/ h.command \in {"BRD", "BWR", "LRD", "LWR", "LRW"}

Reading(slave, h) == Here(slave, h) /\ h.command \in {"APRD", "FPRD", "BRD", "ARMW", "FRMW"}
Writing(slave, h) == \/ Here(slave, h) /\ h.command \in {"APWR", "FPWR", "BWR"}
                     \/ ~Here(slave, h) /\ h.command \in {"ARMW", "FRMW"}

Read(slave, h, data) ==
  [i \in DOMAIN data |-> slave.memory[h.ADO][i] \union (IF h.command = "BRD" THEN data[i] ELSE {})]
Written(slave, h, data) ==
  [i \in DOMAIN slave.memory[h.ADO] |->
     IF i \in DOMAIN data THEN data[i] ELSE slave.memory[h.ADO][i]]

\* A slave takes the datagram at an offset of the frame.
TakeDatagram(s, at) ==
  LET h     == s.frame.header[at]
      datum == at + EC_HEADERSIZE - EC_ELENGTHSIZE
      count == datum + h.dlength
      data  == s.frame.datum[datum]
      n == CASE Reading(s.slave, h) \/ Writing(s.slave, h) -> 1
             [] h.command = "LRW" -> 3
             [] h.command \in {"LRD", "LWR"} -> 1
             [] OTHER -> 0
  IN  [slave |->
         CASE Writing(s.slave, h) -> [s.slave EXCEPT !.memory[h.ADO] = Written(s.slave, h, data)]
           [] h.command \in {"LWR", "LRW"} -> [s.slave EXCEPT !.out = data[s.slave.pos]]
           [] OTHER -> s.slave,
       frame |->
         [s.frame EXCEPT
            !.wkc[count] = @ + n,
            !.header[at].ADP =
              IF h.command \in {"APRD", "APWR", "ARMW", "BRD", "BWR"} THEN @ + 1 ELSE @,
            !.datum[datum] =
              CASE Reading(s.slave, h) -> Read(s.slave, h, data)
                [] h.command \in {"LRD", "LRW"} -> [data EXCEPT ![s.slave.pos] = s.slave.in]
                [] OTHER -> data]]

\* The datagrams of a frame as a slave finds them: each after the counter of the one
\* before.  A header where nothing was written is no datagram.
DatagramsFrom(frame, first) ==
  LET after(at) == at + EC_HEADERSIZE - EC_ELENGTHSIZE + frame.header[at].dlength + EC_WKCSIZE
      from[at \in DOMAIN frame.header] ==
        IF frame.header[at].follows /\ after(at) \in DOMAIN frame.header
          THEN <<at>> \o from[after(at)]
          ELSE <<at>>
  IN  from[first]

Pass(slave, frame) ==
  FoldLeft(TakeDatagram, [slave |-> slave, frame |-> frame],
           DatagramsFrom(frame, ETH_HEADERSIZE + EC_ELENGTHSIZE))

\* A frame passes the slaves of a sequence, in its order.
PassAll(slaves, frame, order) ==
  LET one(s, i) == LET p == Pass(s.slaves[i], s.frame)
                   IN  [slaves |-> [s.slaves EXCEPT ![i] = p.slave], frame |-> p.frame]
  IN  FoldLeft(one, [slaves |-> slaves, frame |-> frame], order)
================================================================================
