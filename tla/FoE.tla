---------------------------------- MODULE FoE ----------------------------------
(***************************************************************************)
(* ecx_FOEread and ecx_FOEwrite of soem/ethercatfoe.c.                     *)
(*                                                                         *)
(* A packet that is full asks for another one; a shorter one, be it empty, *)
(* is the last.  The slave numbers its packets from 1, acknowledges those  *)
(* of the master by their number (the write request as number 0), answers  *)
(* "busy" instead of taking a packet, and what is out of turn with an      *)
(* error.                                                                  *)
(***************************************************************************)
EXTENDS MailboxClient

CONSTANTS
  Files,      \* names of the files of the slave
  Delivered,  \* their sizes as delivered
  Sizes,      \* sizes of a file that is written
  Buffers,    \* sizes of the parameter buffer of a read
  maxdata,    \* data in a full packet: mbx_l - 12, and that of the slave
  MaxBusy     \* bound: packets the slave is too busy for

ASSUME FOEAssumption ==
  /\ Delivered \in [Files -> Nat] /\ Sizes \subseteq Nat /\ Buffers \subseteq Nat
  /\ maxdata \in Nat \ {0} /\ MaxBusy \in Nat

VARIABLES
  files,      \* contents
  foe,        \* the transfer the slave serves
  busy        \* packets it was too busy for

foeslave == <<files, foe, busy>>

NoTransfer == [dir |-> "none", name |-> "none", data |-> <<>>, packet |-> 0]

\* What call c writes, call 0 being the delivery of the slave.
Written(c, f, size) == [i \in 1 .. size |-> <<c, f, i>>]

FOEInit ==
  /\ files = [f \in Files |-> Written(0, f, Delivered[f])]
  /\ foe = NoTransfer /\ busy = 0

FOEMessage(op, number, name, data) ==
  [proto |-> "FoE", op |-> op, number |-> number, name |-> name, data |-> data]

Packet(data, k) == SubSeq(data, (k - 1) * maxdata + 1, SmallerOf(k * maxdata, Len(data)))

-----------------------------------------------------------------------------
(***************************************************************************)
(* The slave.                                                              *)
(***************************************************************************)
FOEAnswer(op, number, data) == Answer(<<FOEMessage(op, number, "none", data)>>)

FOERefuse == FOEAnswer("error", 0, <<>>) /\ foe' = NoTransfer /\ UNCHANGED <<files, busy>>

ServeRead(m) ==
  /\ m.op = "read"
  /\ LET data == files[m.name] IN
       /\ FOEAnswer("data", 1, Packet(data, 1))
       /\ foe' = [dir |-> "up", name |-> m.name, data |-> data, packet |-> 1]
  /\ UNCHANGED <<files, busy>>

ServeAck(m) ==
  /\ m.op = "ack" /\ foe.dir = "up" /\ m.number = foe.packet
  /\ LET k == foe.packet + 1 IN
       IF Len(foe.data) >= foe.packet * maxdata
         THEN FOEAnswer("data", k, Packet(foe.data, k)) /\ foe' = [foe EXCEPT !.packet = k]
         ELSE Answer(<<>>) /\ foe' = NoTransfer
  /\ UNCHANGED <<files, busy>>

ServeWrite(m) ==
  /\ m.op = "write"
  /\ FOEAnswer("ack", 0, <<>>)
  /\ foe' = [dir |-> "down", name |-> m.name, data |-> <<>>, packet |-> 0]
  /\ UNCHANGED <<files, busy>>

ServeData(m) ==
  /\ m.op = "data" /\ foe.dir = "down" /\ m.number = foe.packet + 1
  /\ FOEAnswer("ack", m.number, <<>>)
  /\ LET data == foe.data \o m.data IN
       IF Len(m.data) = maxdata
         THEN foe' = [foe EXCEPT !.packet = m.number, !.data = data] /\ UNCHANGED files
         ELSE foe' = NoTransfer /\ files' = [files EXCEPT ![foe.name] = data]
  /\ UNCHANGED busy

TooBusy(m) ==
  /\ m.op \in {"write", "data"} /\ busy < MaxBusy /\ busy' = busy + 1
  /\ FOEAnswer("busy", 0, <<>>)
  /\ UNCHANGED <<files, foe>>

OutOfTurn(m) ==
  \/ m.op = "ack" /\ ~(foe.dir = "up" /\ m.number = foe.packet)
  \/ m.op = "data" /\ ~(foe.dir = "down" /\ m.number = foe.packet + 1)

ServeFOE ==
  /\ Arrived("FoE")
  /\ LET m == toSlave[1] IN
       \/ ServeRead(m) \/ ServeAck(m) \/ ServeWrite(m) \/ ServeData(m) \/ TooBusy(m)
       \/ (OutOfTurn(m) \/ m.op \in {"read", "write"}) /\ FOERefuse

-----------------------------------------------------------------------------
(***************************************************************************)
(* The calls.                                                              *)
(***************************************************************************)
CallFOEread ==
  \E f \in Files, size \in Buffers : Begin([fn |-> "FOEread", name |-> f, size |-> size], TRUE)

CallFOEwrite ==
  \E f \in Files, size \in Sizes : Begin([fn |-> "FOEwrite", name |-> f, size |-> size], TRUE)

ReadRequest == SendRequest("FOEread", FOEMessage("read", 0, call.name, <<>>))
WriteRequest == SendRequest("FOEwrite", FOEMessage("write", 0, call.name, <<>>))

IsFOE == Call("FOEread") \/ Call("FOEwrite")

\* The request is placed, or a packet or the acknowledge of one.
FOESent ==
  /\ pc = "sent" /\ IsFOE
  /\ \/ wkc > 0 /\ CallMbxreceive(1, "answer") /\ Same
     \/ wkc <= 0 /\ Return(0) /\ Same

\* The acknowledge of the last packet is sent.
FOEReadSent == pc = "last" /\ Call("FOEread") /\ Return(wkc) /\ Same

IsFOEMessage(m, op) == m.proto = "FoE" /\ m.op = op

\* A packet that comes in turn and fits the buffer.
Expected(m) ==
  /\ IsFOEMessage(m, "data") /\ m.number = n + 1
  /\ Len(buf) + Len(m.data) <= call.size

FOEReadAnswer ==
  /\ pc = "answer" /\ Call("FOEread")
  /\ \/ /\ wkc > 0 /\ Expected(got[1])
        /\ buf' = buf \o got[1].data /\ n' = n + 1
        /\ CallMbxsend(FOEMessage("ack", got[1].number, "none", <<>>),
                       IF Len(got[1].data) = maxdata THEN "sent" ELSE "last")
        /\ UNCHANGED <<slipped, stale>>
     \/ (wkc > 0 => ~Expected(got[1])) /\ Return(0) /\ Same

DueWithoutFinalZero == call.size > n * maxdata

\* Data is left, or the last packet was full: "EOF is defined as packetsize < full
\* packetsize".
Due == call.size > 0 /\ call.size >= n * maxdata

FOEWriteAnswer ==
  /\ pc = "answer" /\ Call("FOEwrite")
  /\ \/ /\ wkc > 0 /\ IsFOEMessage(got[1], "ack") /\ got[1].number = n
        /\ \/ /\ Due
              /\ n' = n + 1
              /\ CallMbxsend(FOEMessage("data", n + 1, "none",
                                        Packet(Written(calls, call.name, call.size), n + 1)), "sent")
              /\ UNCHANGED <<buf, slipped, stale>>
           \/ ~Due /\ Return(1) /\ Same
     \* what is prepared for a packet to be sent again comes to nothing: the loop ends
     \/ /\ wkc > 0 /\ IsFOEMessage(got[1], "busy")
        /\ Return(1) /\ slipped' = TRUE /\ UNCHANGED <<buf, n, stale>>
     \/ /\ wkc > 0 => ~(IsFOEMessage(got[1], "ack") /\ got[1].number = n)
        /\ wkc > 0 => ~IsFOEMessage(got[1], "busy")
        /\ Return(0) /\ Same

FOE ==
  /\ CallFOEread \/ CallFOEwrite \/ ReadRequest \/ WriteRequest \/ FOESent \/ FOEReadSent
       \/ FOEReadAnswer \/ FOEWriteAnswer
  /\ UNCHANGED foeslave

-----------------------------------------------------------------------------
\* A read of a file that reports success has the whole file, in order, unless an
\* earlier request or first packet was still under way.
FOEReadTrue ==
  Success("FOEread") /\ {<<"FoE", "data", 1>>, <<"FoE", "request", 0>>} \cap stale = {} =>
    buf = files[call.name]

\* The slave has the file that was written if the call reports success and the slave
\* was never busy; an empty file is never ended. An acknowledge names a number, not a
\* file: those that earlier writes left behind would be taken for this one's.
FOEWriteTrue ==
  /\ Success("FOEwrite") /\ ~slipped /\ call.size > 0
  /\ \A s \in stale : s[1] = "FoE" => s[2] \notin {"ack", "request"}
  => files[call.name] = Written(calls, call.name, call.size)

\* Success means the file was read or written, however often messages were lost.
FOETrue == FOEReadTrue /\ FOEWriteTrue
=============================================================================
