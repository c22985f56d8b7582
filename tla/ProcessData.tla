----------------------------- MODULE ProcessData -----------------------------
(***************************************************************************)
(* The cyclic exchange of process data (soem/ethercatmain.c) over the      *)
(* image that IOMap lays out: ecx_main_send_processdata sends one datagram *)
(* per segment, LRW or LRD and LWR, and remembers each on idxstack;        *)
(* ecx_receive_processdata_group takes the answers in that order, copies   *)
(* them into the IOmap and adds up the working counter.                    *)
(*                                                                         *)
(* Of the frame driver this module uses what NicDrv shows: an answer taken *)
(* is the one to the frame sent, and waiting for it ends.  The slaves      *)
(* execute the FMMUs they were given: a datagram on its way meets all, any *)
(* or none of them, and may be lost before or after.                       *)
(*                                                                         *)
(* Data is followed bit by bit.  A value says which bit of which slave's   *)
(* memory it belongs to and how old it is: the write of the application or *)
(* the exchange it comes from.                                             *)
(***************************************************************************)
EXTENDS IOMap, Integers, FiniteSets

CONSTANTS
  Exchanging,    \* the groups of which process data is exchanged
  EC_MAXBUF,     \* entries of idxstack
  MaxExchanges,  \* bound: exchanges in one behaviour
  LateWrites     \* whether the application writes outputs between send and
                 \* receive even when they come back in an LRW

ASSUME StackAssumption == Exchanging \subseteq Groups /\ EC_MAXBUF \in Nat \ {0}
ASSUME ExchangeAssumption == MaxExchanges \in Nat /\ LateWrites \in BOOLEAN

Commands == {"LRD", "LWR", "LRW"}
EC_NOFRAME == -1

VARIABLES
  hasdc,            \* whether the group has distributed clocks
  stage,            \* what the EtherCAT thread is doing
  LogAdr, data, length, segment, inputoffset,   \* locals of send
  first,            \* local of send: the clock's datagram is still to be added
  idxstack, pulled, \* the datagrams sent, with what became of each
  IOmap,            \* bit -> value, for the bits written so far
  memory,           \* the slaves' output bits -> value
  wkc, valid_wkc,   \* locals of receive
  result,           \* what the last receive returned
  exchange, version,  \* exchanges begun, writes of the application
  sent,             \* history: the version this exchange sends
  missed            \* history: something of this exchange did not take place

sendlocals == <<LogAdr, data, length, segment, inputoffset, first>>
counter == <<wkc, valid_wkc, result>>
history == <<exchange, version, sent, missed>>
pdvars == <<hasdc, stage, sendlocals, idxstack, pulled, IOmap, memory, counter, history>>
vars == <<mapvars, pdvars>>

-----------------------------------------------------------------------------
(***************************************************************************)
(* Where a bit of process data lives.                                      *)
(***************************************************************************)
FMMUsOf(s, d) == {f \in FMMU : f.slave = s /\ f.dir = d}

\* slavelist[].outputs and inputs with their start bits: the first FMMU.
Pointer(s, d) ==
  LET f == CHOOSE g \in FMMUsOf(s, d) : \A h \in FMMUsOf(s, d) : g.LogStart <= h.LogStart IN
  FirstBit(f) + IF overlap /\ d = "in" THEN 8 * grp.Obytes ELSE 0

\* How many bytes the SMs before SM i have.
BytesBefore(sms, i) == Cardinality(UNION {{k} \X (1 .. sms[k].len) : k \in 1 .. i - 1})

\* The process data of slave s: bit "bit" of its memory is bit "app" of the
\* IOmap, reckoned from the pointer as applications do.
Cells(s, d) ==
  LET area == slavelist[s][d]
      before == [i \in DOMAIN area.sms |-> 8 * BytesBefore(area.sms, i)] IN
  UNION {{[slave |-> s, dir |-> d, bit |-> 8 * area.sms[i].start + j,
           app |-> Pointer(s, d) + before[i] + j] :
            j \in {b \in 0 .. 8 * area.sms[i].len - 1 : before[i] + b < area.bits}} :
         i \in DOMAIN area.sms}

AllCells(d) == UNION {Cells(s, d) : s \in 1 .. N}

Value(s, d, bit, age) == [slave |-> s, dir |-> d, bit |-> bit, age |-> age]
NoValue == Value(0, "out", 0, 0)

\* The memory bit of the slave that FMMU f ties to logical bit b.
MemoryBit(f, b) == 8 * f.PhysStart + b - FirstBit(f)

FMMUBits(f) == FirstBit(f) .. LastBit(f)

IOmapSize == grp.Obytes + grp.Ibytes   \* what the mapping functions return

Exchanges == [slaves |-> slavelist, overlap |-> overlap, blockLRW |-> blockLRW] \in Exchanging

PDInit ==
  /\ hasdc \in IF Exchanges THEN BOOLEAN ELSE {FALSE}
  /\ stage = "app"
  /\ LogAdr = 0 /\ data = 0 /\ length = 0 /\ segment = 0 /\ inputoffset = 0 /\ first = FALSE
  /\ idxstack = <<>> /\ pulled = 0
  /\ IOmap = <<>> /\ memory = <<>>
  /\ wkc = 0 /\ valid_wkc = FALSE /\ result = EC_NOFRAME
  /\ exchange = 0 /\ version = 0 /\ sent = 0 /\ missed = FALSE

-----------------------------------------------------------------------------
(***************************************************************************)
(* The application.                                                        *)
(***************************************************************************)
WriteOutputs ==
  /\ Mapped /\ Exchanges
  /\ stage = "app" \/ (stage = "sent" /\ (blockLRW \/ LateWrites))
  /\ version <= exchange
  /\ version' = version + 1
  /\ LET cells == AllCells("out")
         places == {c.app : c \in cells}
         owner(b) == CHOOSE c \in cells : c.app = b IN
     IOmap' = [b \in places \cup DOMAIN IOmap |->
                 IF b \in places THEN Value(owner(b).slave, "out", owner(b).bit, version') ELSE IOmap[b]]
  /\ UNCHANGED <<mapvars, hasdc, stage, sendlocals, idxstack, pulled, memory, counter,
                 exchange, sent, missed>>

-----------------------------------------------------------------------------
(***************************************************************************)
(* ecx_main_send_processdata.                                              *)
(***************************************************************************)
StartLWRWithin ==
  /\ stage' = "LWR"
  /\ LogAdr' = 0 /\ length' = grp.Obytes /\ segment' = 0
  /\ UNCHANGED <<data, inputoffset>>

StartLWR ==
  /\ stage' = "LWR"
  /\ LogAdr' = 0 /\ data' = 0 /\ length' = grp.Obytes /\ segment' = 0
  /\ UNCHANGED inputoffset

StartLRD ==
  /\ stage' = "LRD"
  /\ LogAdr' = grp.Obytes /\ data' = grp.Obytes /\ length' = grp.Ibytes
  /\ segment' = grp.Isegment
  /\ UNCHANGED inputoffset

StartLRW ==
  /\ stage' = "LRW"
  /\ LogAdr' = 0 /\ segment' = 0
  /\ data' = IF grp.Obytes > 0 THEN 0 ELSE grp.Obytes
  /\ length' = IF ~overlap THEN IOmapSize
               ELSE IF grp.Obytes > grp.Ibytes THEN grp.Obytes ELSE grp.Ibytes
  /\ inputoffset' = IF overlap /\ grp.Obytes > 0 THEN grp.Obytes ELSE 0

BeginSend ==
  /\ Mapped /\ Exchanges /\ stage = "app" /\ exchange < MaxExchanges
  /\ IF IOmapSize = 0 THEN stage' = "sent" /\ UNCHANGED <<LogAdr, data, length, segment, inputoffset>>
     ELSE IF ~blockLRW THEN StartLRW
     ELSE IF grp.Ibytes > 0 THEN StartLRD ELSE StartLWR
  /\ first' = hasdc
  /\ exchange' = exchange + 1
  /\ sent' = version
  /\ missed' = FALSE
  /\ result' = EC_NOFRAME
  /\ UNCHANGED <<mapvars, hasdc, idxstack, pulled, IOmap, memory, wkc, valid_wkc, version>>

\* The length of the next datagram.
SegmentLength(command) ==
  IF command = "LRD" /\ segment = grp.Isegment THEN IOsegment[segment] - grp.Ioffset
  ELSE IF command = "LWR" /\ length - IOsegment[segment] < 0 THEN length
  ELSE IOsegment[segment]

Read(bit) == IF bit \in DOMAIN IOmap THEN IOmap[bit] ELSE NoValue

\* One turn of a segment loop: an index, a datagram with the data (zeros for
\* LRD), out with it, and its data pointer on the stack.
Datagram(command) ==
  LET sublength == SegmentLength(command)
      bits == [b \in 8 * LogAdr .. 8 * (LogAdr + sublength) - 1 |->
                 IF command = "LRD" THEN NoValue ELSE Read(8 * (data - LogAdr) + b)] IN
  [command |-> command, LogAdr |-> LogAdr, length |-> sublength,
   data |-> data + (IF command = "LRW" THEN inputoffset ELSE 0),
   dc |-> first, bits |-> bits, wkc |-> 0, status |-> "wire"]

\* ecx_pushindex, ecx_pullindex and ecx_clearindex: a full stack drops what is pushed.
pushindex(g) ==
  idxstack' = IF Len(idxstack) < EC_MAXBUF THEN Append(idxstack, g) ELSE idxstack
pullindex == pulled < Len(idxstack) /\ pulled' = pulled + 1
clearindex == idxstack' = <<>> /\ pulled' = 0

SendDatagram(command) ==
  /\ stage = command
  /\ pushindex(Datagram(command))
  /\ first' = FALSE
  /\ IF length # SegmentLength(command) /\ segment + 1 < Last + 1
       THEN /\ segment' = segment + 1
            /\ length' = length - SegmentLength(command)
            /\ LogAdr' = LogAdr + SegmentLength(command)
            /\ data' = data + SegmentLength(command)
            /\ UNCHANGED <<stage, inputoffset>>
       ELSE IF command = "LRD" /\ grp.Obytes > 0 THEN StartLWR
       ELSE /\ stage' = "sent"
            /\ LogAdr' = 0 /\ data' = 0 /\ length' = 0 /\ segment' = 0 /\ inputoffset' = 0
  /\ UNCHANGED <<mapvars, hasdc, pulled, IOmap, memory, counter, history>>

-----------------------------------------------------------------------------
(***************************************************************************)
(* The wire and the slaves.                                                *)
(***************************************************************************)
Directions(command) ==
  CASE command = "LRD" -> {"in"} [] command = "LWR" -> {"out"} [] OTHER -> Dirs

\* FMMUs that datagram g addresses, programmed or not.
Addressed(g) ==
  {f \in FMMU : f.dir \in Directions(g.command) /\ FMMUBits(f) \cap DOMAIN g.bits # {}}

Sides(fmmus) == {<<f.slave, f.dir>> : f \in fmmus}

\* Slaves insert their inputs (dated with the exchange) into datagram g ...
Inserted(g, part) ==
  LET readers == {f \in Addressed(g) : f.programmed /\ f.dir = "in" /\ <<f.slave, "in">> \in part} IN
  [b \in DOMAIN g.bits |->
     IF \E f \in readers : b \in FMMUBits(f)
       THEN LET f == CHOOSE f \in readers : b \in FMMUBits(f) IN
            Value(f.slave, "in", MemoryBit(f, b), exchange)
       ELSE g.bits[b]]

\* ... and take their outputs from it.
Latched(g, part) ==
  LET writers == {f \in Addressed(g) : f.programmed /\ f.dir = "out" /\ <<f.slave, "out">> \in part}
      taken == UNION {{<<f, b>> : b \in FMMUBits(f) \cap DOMAIN g.bits} : f \in writers}
      place(t) == <<t[1].slave, MemoryBit(t[1], t[2])>>
      places == {place(t) : t \in taken} IN
  [m \in places \cup DOMAIN memory |->
     IF m \in places THEN g.bits[(CHOOSE t \in taken : place(t) = m)[2]] ELSE memory[m]]

\* What a slave adds to the working counter of a datagram: 1 for its inputs, 1
\* for its outputs, but 2 for outputs in an LRW.
SumOver(command, part) ==
  Cardinality(part) +
    IF command = "LRW" THEN Cardinality({side \in part : side[2] = "out"}) ELSE 0

\* Datagram i passes the slaves; of the sides that can, some take part.
Pass(i) ==
  /\ idxstack[i].status = "wire"
  /\ LET g == idxstack[i] IN
     \E part \in SUBSET Sides({f \in Addressed(g) : f.programmed}) :
       /\ idxstack' = [idxstack EXCEPT ![i] =
            [g EXCEPT !.bits = Inserted(g, part), !.status = "back",
                      !.wkc = SumOver(g.command, part)]]
       /\ memory' = Latched(g, part)
       /\ missed' = (missed \/ part # Sides(Addressed(g)))
  /\ UNCHANGED <<mapvars, hasdc, stage, sendlocals, pulled, IOmap, counter, exchange, version,
                 sent>>

\* The datagram is lost, before the slaves or on its way back.
Lose(i) ==
  /\ idxstack[i].status \in {"wire", "back"}
  /\ idxstack' = [idxstack EXCEPT ![i].status = "lost"]
  /\ missed' = TRUE
  /\ UNCHANGED <<mapvars, hasdc, stage, sendlocals, pulled, IOmap, memory, counter, exchange,
                 version, sent>>

-----------------------------------------------------------------------------
(***************************************************************************)
(* ecx_receive_processdata_group.                                          *)
(***************************************************************************)
BeginReceive ==
  /\ stage = "sent"
  /\ stage' = "receive"
  /\ wkc' = 0 /\ valid_wkc' = FALSE
  /\ UNCHANGED <<mapvars, hasdc, sendlocals, idxstack, pulled, IOmap, memory, result, history>>

\* The data area of an answer goes where its data pointer says.
Copied(g) ==
  LET area == 8 * g.data .. 8 * (g.data + g.length) - 1 IN
  [b \in area \cup DOMAIN IOmap |->
     IF b \in area THEN g.bits[b - 8 * (g.data - g.LogAdr)] ELSE IOmap[b]]

\* LWR counts double, as outputs do in an LRW; the datagram with the clock's
\* is the first one and sets the counter.
WkcWith(g) ==
  LET own == IF g.command = "LWR" THEN 2 * g.wkc ELSE g.wkc IN
  IF g.dc THEN own ELSE wkc + own

KeepDcData(g) ==
  /\ IOmap' = IF g.command = "LWR" \/ g.dc THEN IOmap ELSE Copied(g)
  /\ wkc' = WkcWith(g) /\ valid_wkc' = TRUE

TakeAnswer(g) ==
  /\ IOmap' = IF g.command = "LWR" THEN IOmap ELSE Copied(g)
  /\ wkc' = WkcWith(g) /\ valid_wkc' = TRUE

\* ecx_waitinframe for the next datagram on the stack: its answer, or nothing.
ReceiveNext ==
  /\ stage = "receive" /\ pullindex
  /\ LET g == idxstack[pulled + 1] IN
       /\ g.status # "wire"
       /\ IF g.status = "back" THEN TakeAnswer(g) ELSE UNCHANGED <<IOmap, wkc, valid_wkc>>
  /\ UNCHANGED <<mapvars, hasdc, stage, sendlocals, idxstack, memory, result, history>>

EndReceive ==
  /\ stage = "receive" /\ pulled = Len(idxstack)
  /\ stage' = "app"
  /\ clearindex
  /\ result' = IF valid_wkc THEN wkc ELSE EC_NOFRAME
  /\ UNCHANGED <<mapvars, hasdc, sendlocals, IOmap, memory, wkc, valid_wkc, history>>

-----------------------------------------------------------------------------
PDNext ==
  \/ WriteOutputs \/ BeginSend
  \/ \E command \in Commands : SendDatagram(command)
  \/ \E i \in DOMAIN idxstack : Pass(i) \/ Lose(i)
  \/ BeginReceive \/ ReceiveNext \/ EndReceive

Init == MapInit /\ PDInit

Next == (MapNext /\ UNCHANGED pdvars) \/ PDNext

Spec == Init /\ [][Next]_vars

-----------------------------------------------------------------------------
\* What an application compares the result of ec_receive_processdata with.
ExpectedWKC == 2 * outputsWKC + inputsWKC

Returned == stage = "app" /\ exchange > 0

Outputs(s, bit, age) == IF age = 0 THEN NoValue ELSE Value(s, "out", bit, age)

\* A slave counts in a direction as soon as one of its FMMUs works there.
Consistent ==
  \A f, g \in FMMU : f.slave = g.slave /\ f.dir = g.dir => f.programmed = g.programmed

(***************************************************************************)
(* The working counter tells the truth.  As expected, it proves the        *)
(* exchange: every slave has all outputs of this exchange and all inputs   *)
(* in the IOmap are of this exchange (unless a slave with several FMMUs    *)
(* missed the programming of some only).  And an exchange in which         *)
(* everything took place returns it.                                       *)
(***************************************************************************)
ExpectedMeansExchanged ==
  Returned =>
    /\ Consistent /\ result = ExpectedWKC =>
         /\ \A c \in AllCells("in") : Read(c.app) = Value(c.slave, "in", c.bit, exchange)
         /\ \A c \in AllCells("out") :
              /\ <<c.slave, c.bit>> \in DOMAIN memory
              /\ memory[<<c.slave, c.bit>>] = Outputs(c.slave, c.bit, sent)
    /\ ~missed /\ IOmapSize > 0 => result = ExpectedWKC

(***************************************************************************)
(* Whatever is lost or absent, no bit ever ends up at another bit's place, *)
(* neither in the IOmap nor in a slave (in an overlapping map the inputs   *)
(* of an absent slave become the outputs that its datagram brings back),   *)
(* and receiving leaves the outputs as the application wrote them.         *)
(***************************************************************************)
BitsInPlace ==
  /\ \A c \in (IF Mapped /\ ~overlap THEN AllCells("in") ELSE {}) :
       Read(c.app) \in {NoValue, Value(c.slave, "in", c.bit, Read(c.app).age)}
  /\ \A m \in DOMAIN memory :
       memory[m] \in {NoValue, Value(m[1], "out", m[2], memory[m].age)}
  /\ \A c \in (IF Mapped THEN AllCells("out") ELSE {}) :
       Read(c.app) = Outputs(c.slave, c.bit, version)
=============================================================================
