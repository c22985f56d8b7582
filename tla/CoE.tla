--------------------------------- MODULE CoE ---------------------------------
(***************************************************************************)
(* ecx_SDOread and ecx_SDOwrite of soem/ethercatcoe.c over the mailbox of  *)
(* one slave, expedited and segmented.  The application makes one call     *)
(* after the other.                                                        *)
(*                                                                         *)
(* An object of one chunk fits a mailbox; a larger one takes one chunk in  *)
(* the first message and one in every segment.  A chunk is the number of   *)
(* the call that wrote it.  An answer that fits but is not expedited       *)
(* differs in layout only.  The slave serves one transfer at a time,       *)
(* checks toggle bits and the size of what it is sent, and drops a request *)
(* with the counter of the one before.                                     *)
(***************************************************************************)
EXTENDS Mailbox

CONSTANTS
  Objects,
  Index,      \* of an object; objects of one index have different subindices
  Chunks,     \* size of an object
  MaxCalls    \* bound: calls of the application

ASSUME ObjectAssumption == Index \in [Objects -> Nat] /\ Chunks \in [Objects -> Nat \ {0}]
ASSUME CallsAssumption == MaxCalls \in Nat

VARIABLES
  \* the slave
  mem, server, lastcnt,
  served,     \* requests served: the number of the latest answer
  \* the call
  fn, obj,
  toggle,     \* of the segment under way
  next,       \* the chunk to be sent
  got,        \* parameter buffer, as far as filled
  success,    \* the call returned a positive working counter
  \* history
  calls,
  slipped,    \* a mailbox function of this call failed and the call went on
  suspect     \* indices of calls that failed or slipped

device == <<mem, server, lastcnt, served>>
locals == <<fn, obj, toggle, next, got, success, calls, slipped, suspect>>
vars == <<slavembx, mastermbx, historymbx, device, locals>>

Idle == [dir |-> "none", obj |-> 0, toggle |-> FALSE, data |-> <<>>]

Init ==
  /\ MailboxInit
  /\ mem = [o \in Objects |-> [k \in 1 .. Chunks[o] |-> 0]]
  /\ server = Idle /\ lastcnt = 0 /\ served = 0
  /\ fn = "none" /\ obj \in Objects /\ toggle = FALSE /\ next = 1 /\ got = <<>>
  /\ success = FALSE /\ calls = 0 /\ slipped = FALSE /\ suspect = {}

-----------------------------------------------------------------------------
(***************************************************************************)
(* The slave's SDO server.                                                 *)
(***************************************************************************)
Answer(type, o, data, more) ==
  queue' = Append(queue, [type |-> type, obj |-> o, data |-> data, more |-> more,
                          number |-> served + 1])

Abort(o) == Answer("abort", o, <<>>, FALSE) /\ server' = Idle /\ UNCHANGED mem

Store(o, data) == mem' = [mem EXCEPT ![o] = data]

ServeUpload(m) ==
  /\ m.type = "upload"
  /\ Answer("value", m.obj, <<mem[m.obj][1]>>, Chunks[m.obj] > 1)
  /\ server' = IF Chunks[m.obj] = 1 THEN Idle
               ELSE [dir |-> "up", obj |-> m.obj, toggle |-> FALSE, data |-> Tail(mem[m.obj])]
  /\ UNCHANGED mem

InTurn(m, dir) == server.dir = dir /\ server.toggle = m.toggle

ServeUploadSegment(m) ==
  /\ m.type = "upload segment"
  /\ \/ /\ InTurn(m, "up")
        /\ Answer("segment", server.obj, <<Head(server.data)>>, Len(server.data) > 1)
        /\ server' = IF Len(server.data) = 1 THEN Idle
                     ELSE [server EXCEPT !.toggle = ~@, !.data = Tail(@)]
        /\ UNCHANGED mem
     \/ ~InTurn(m, "up") /\ Abort(m.obj)

ServeDownload(m) ==
  /\ m.type = "download"
  /\ Answer("stored", m.obj, <<>>, m.more)
  /\ IF m.more THEN /\ server' = [dir |-> "down", obj |-> m.obj, toggle |-> FALSE, data |-> m.data]
                    /\ UNCHANGED mem
               ELSE Store(m.obj, m.data) /\ server' = Idle

ServeDownloadSegment(m) ==
  LET data == server.data \o m.data
      accepted == InTurn(m, "down") /\ (m.more <=> Len(data) < Chunks[server.obj]) IN
  /\ m.type = "download segment"
  /\ \/ /\ accepted
        /\ Answer("segment stored", server.obj, <<>>, m.more)
        /\ IF m.more THEN server' = [server EXCEPT !.toggle = ~@, !.data = data] /\ UNCHANGED mem
           ELSE Store(server.obj, data) /\ server' = Idle
     \/ ~accepted /\ Abort(m.obj)

\* The slave takes a request when the answer to the one before is in the mailbox.
Take ==
  /\ sm0 # <<>> /\ queue = <<>> /\ repeat = ack
  /\ sm0' = <<>>
  /\ LET m == sm0[1] IN
       IF m.cnt # 0 /\ m.cnt = lastcnt
         THEN UNCHANGED <<queue, device, executed>>
         ELSE /\ ServeUpload(m) \/ ServeUploadSegment(m) \/ ServeDownload(m)
                   \/ ServeDownloadSegment(m)
              /\ lastcnt' = m.cnt /\ served' = served + 1
              /\ executed' = (executed \/ sm0 = MbxOut)
  /\ UNCHANGED <<sm1, backup, repeat, ack, mastermbx, faults, emergencies, latest, abandoned, locals>>

-----------------------------------------------------------------------------
(***************************************************************************)
(* The call.                                                               *)
(***************************************************************************)
\* "Empty slave out mailbox if something is in. Timeout set to 0"
Call(f, o) ==
  /\ pc = "idle" /\ calls < MaxCalls /\ calls' = calls + 1
  /\ fn' = f /\ obj' = o
  /\ toggle' = FALSE /\ next' = 1 /\ got' = <<>> /\ success' = FALSE /\ slipped' = FALSE
  /\ CallMbxreceive(0, "request")
  /\ UNCHANGED <<device, suspect>>

\* What a write sends: chunk k with the number of the call.
Request(type, k) ==
  [type |-> type, obj |-> obj, toggle |-> toggle, cnt |-> mbx_cnt',
   data |-> IF fn = "write" THEN <<calls>> ELSE <<>>,
   more |-> fn = "write" /\ k < Chunks[obj]]

SendRequest ==
  /\ pc = "request"
  /\ mbx_cnt' = ec_nextmbxcnt(mbx_cnt)
  /\ CallMbxsend(Request(IF fn = "write" THEN "download" ELSE "upload", 1), "sent")
  /\ UNCHANGED <<device, locals>>

Return(result) ==
  /\ pc' = "idle" /\ success' = (result > 0)
  /\ suspect' = IF result > 0 /\ ~slipped THEN suspect ELSE suspect \cup {Index[obj]}
  /\ toggle' = FALSE /\ MbxIn' = <<>> /\ wkc' = 0
  /\ UNCHANGED <<slavembx, historymbx, mbx_cnt, return, expired, MbxOut, want,
                 device, fn, obj, calls, slipped>>

Sent ==
  /\ pc = "sent"
  /\ \/ wkc > 0 /\ CallMbxreceive(1, "answer") /\ UNCHANGED <<device, locals>>
     \/ wkc <= 0 /\ Return(0) /\ UNCHANGED <<next, got>>

\* The first answer, recognised by its index and, by a write, its subindex.
SameIndex(m) == m.type \in {"value", "stored"} /\ Index[m.obj] = Index[obj]
IsAnyAnswer(m) == m.type \in {"value", "stored"}
IsReadAnswer(m) == SameIndex(m)
IsWriteAnswer(m) == SameIndex(m) /\ m.obj = obj

Stay == UNCHANGED <<slavembx, historymbx, mbx_cnt, return, expired, MbxOut, MbxIn, want, wkc,
                    device, fn, obj, calls, suspect, success>>

FirstAnswer ==
  /\ pc = "answer" /\ wkc > 0
  /\ LET m == MbxIn[1] IN
       \/ /\ fn = "read" /\ IsReadAnswer(m)
          /\ got' = m.data
          /\ IF m.more /\ m.type = "value"
               THEN pc' = "segment" /\ Stay /\ UNCHANGED <<toggle, slipped>>
               ELSE Return(1)
          /\ UNCHANGED next
       \/ fn = "read" /\ Return(0) /\ UNCHANGED <<next, got>>   \* the value is too large
       \/ /\ fn = "write" /\ IsWriteAnswer(m)
          /\ IF Chunks[obj] > 1
               THEN pc' = "segment" /\ next' = 2 /\ Stay /\ UNCHANGED <<toggle, slipped>>
               ELSE Return(1) /\ UNCHANGED next
          /\ UNCHANGED got
       \/ /\ fn = "write" /\ ~IsWriteAnswer(m)
          /\ Return(0) /\ UNCHANGED <<next, got>>

NoAnswer == pc = "answer" /\ wkc <= 0 /\ Return(0) /\ UNCHANGED <<next, got>>

-----------------------------------------------------------------------------
(***************************************************************************)
(* The segments.  A mailbox function that fails does not end the loop.     *)
(***************************************************************************)
SendSegment ==
  /\ pc = "segment"
  /\ mbx_cnt' = ec_nextmbxcnt(mbx_cnt)
  /\ CallMbxsend(Request(IF fn = "write" THEN "download segment" ELSE "upload segment", next),
                 "segment sent")
  /\ UNCHANGED <<device, locals>>

\* The end of a turn of the loop; the last segment of a write ends the loop.
Turn(result) ==
  IF fn = "write" /\ next = Chunks[obj]
    THEN Return(result) /\ UNCHANGED next
    ELSE /\ pc' = "segment"
         /\ toggle' = ~toggle
         /\ next' = IF fn = "write" THEN next + 1 ELSE next
         /\ slipped' = (slipped \/ result <= 0)
         /\ Stay

SegmentSent ==
  /\ pc = "segment sent"
  /\ \/ wkc > 0 /\ CallMbxreceive(1, "segment answer") /\ UNCHANGED <<device, locals>>
     \/ wkc <= 0 /\ Turn(0) /\ UNCHANGED got

IsSegmentAnswer(m) == m.type = IF fn = "write" THEN "segment stored" ELSE "segment"

SegmentAnswer ==
  /\ pc = "segment answer"
  /\ \/ wkc <= 0 /\ Turn(0) /\ UNCHANGED got
     \/ /\ wkc > 0 /\ IsSegmentAnswer(MbxIn[1])
        /\ got' = got \o MbxIn[1].data
        /\ IF fn = "read" /\ ~MbxIn[1].more THEN Return(1) /\ UNCHANGED next ELSE Turn(1)
     \/ wkc > 0 /\ ~IsSegmentAnswer(MbxIn[1]) /\ Return(0) /\ UNCHANGED <<next, got>>

SDO == \/ SendRequest \/ Sent \/ FirstAnswer \/ NoAnswer
       \/ SendSegment \/ SegmentSent \/ SegmentAnswer

-----------------------------------------------------------------------------
Next ==
  \/ \E o \in Objects : Call("read", o) \/ Call("write", o)
  \/ SDO
  \/ mailbox /\ UNCHANGED <<device, locals>>
  \/ slave /\ UNCHANGED <<device, locals>>
  \/ Take

Spec == Init /\ [][Next]_vars

-----------------------------------------------------------------------------

\* The mailbox functions and the slave implement the channel of MailboxChannel:
\* however often ecx_mbxsend writes a message the slave takes it once, and
\* ecx_mbxreceive returns the slave's answers in their order and once, unless a
\* call gave up while it asked for a repetition.
Answers(messages) == SelectSeq(messages, LAMBDA m : m.type # "emergency")
Taken == sm0 # <<>> /\ sm0[1].cnt # 0 /\ sm0[1].cnt = lastcnt
Unreturned == SelectSeq(Answers(backup), LAMBDA m : m.number > latest /\ backup # sm1)

Channel == INSTANCE MailboxChannel WITH
  offered <- IF pc \in {"empty", "write"} /\ ~executed /\ sm0 # MbxOut THEN MbxOut ELSE <<>>,
  toSlave <- IF Taken THEN <<>> ELSE sm0,
  toMaster <- Unreturned \o Answers(sm1) \o Answers(queue),
  got <- MbxIn,
  old <- Answers(backup),
  doubt <- abandoned

IsChannel == Channel!ChannelSpec

Returned(f) == pc = "idle" /\ fn = f /\ success

\* A read that reports success has all of the object as the slave holds it,
\* if no segment of it slipped and no earlier call for that index failed.
ReadTrue ==
  Returned("read") /\ ~slipped /\ Index[obj] \notin suspect => got = mem[obj]

\* So does a write: the slave then holds what was written.
WriteTrue ==
  Returned("write") /\ ~slipped /\ Index[obj] \notin suspect =>
    mem[obj] = [k \in 1 .. Chunks[obj] |-> calls]

=============================================================================
