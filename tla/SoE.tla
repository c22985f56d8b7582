---------------------------------- MODULE SoE ----------------------------------
(***************************************************************************)
(* ecx_SoEread and ecx_SoEwrite of soem/ethercatsoe.c.                     *)
(*                                                                         *)
(* A value that does not fit a message travels in fragments marked         *)
(* incomplete but for the last one.  The slave sends those of an answer by *)
(* itself; of a write it learns the IDN with the last fragment only, where *)
(* the others have the count of fragments left, and it takes a count that  *)
(* does not go down for the beginning of another write.                    *)
(***************************************************************************)
EXTENDS MailboxClient

CONSTANTS
  Elements,     \* what can be read and written: a drive, flags and an IDN
  Drive,        \* drive and flags of an element
  Delivery,     \* size of the value of an element at first
  ValueSizes,   \* sizes of values that are written
  ValueBuffers, \* sizes of the parameter buffer of a read
  maxvalue      \* data that fits a message: mbx_l less the header

ASSUME SOEAssumption ==
  /\ Delivery \in [Elements -> Nat \ {0}] /\ ValueSizes \subseteq Nat \ {0}
  /\ ValueBuffers \subseteq Nat /\ maxvalue \in Nat \ {0}

VARIABLES
  values,       \* of the elements of the slave
  writing       \* fragments of a write it has so far, and how many are left

soeslave == <<values, writing>>

NoWrite == [data |-> <<>>, left |-> 0]

Value(c, e, size) == [i \in 1 .. size |-> <<c, e, i>>]

SOEInit ==
  /\ values = [e \in Elements |-> Value(0, e, Delivery[e])]
  /\ writing = NoWrite

SOEMessage(op, drive, element, data, left, incomplete) ==
  [proto |-> "SoE", op |-> op, number |-> 0, drive |-> drive, element |-> element, data |-> data,
   left |-> left, incomplete |-> incomplete]

Piece(data, k) == SubSeq(data, (k - 1) * maxvalue + 1, SmallerOf(k * maxvalue, Len(data)))

-----------------------------------------------------------------------------
(***************************************************************************)
(* The slave.                                                              *)
(***************************************************************************)
Pieces(m, data) ==
  LET count == (Len(data) + maxvalue - 1) \div maxvalue IN
  [k \in 1 .. count |->
     SOEMessage("value", m.drive, m.element, Piece(data, k), count - k, k < count)]

SOEReply(m, op) == Answer(<<SOEMessage(op, m.drive, m.element, <<>>, 0, FALSE)>>)

ServeSOERead(m) ==
  /\ m.op = "read"
  /\ \/ Answer(Pieces(m, values[m.element]))
     \/ SOEReply(m, "read error")
  /\ UNCHANGED soeslave

ServeSOEWrite(m) ==
  /\ m.op = "write"
  /\ LET data == IF m.left >= writing.left /\ m.left > 0 THEN m.data ELSE writing.data \o m.data IN
       \/ /\ m.incomplete
          /\ writing' = [data |-> data, left |-> m.left]
          /\ Answer(<<>>) /\ UNCHANGED values
       \/ /\ ~m.incomplete
          /\ writing' = NoWrite
          /\ values' = [values EXCEPT ![m.element] = data] /\ SOEReply(m, "written")
       \/ writing' = NoWrite /\ UNCHANGED values /\ SOEReply(m, "write error")

ServeSOE == Arrived("SoE") /\ (ServeSOERead(toSlave[1]) \/ ServeSOEWrite(toSlave[1]))

-----------------------------------------------------------------------------
(***************************************************************************)
(* The calls.                                                              *)
(***************************************************************************)
CallSOE ==
  \E e \in Elements :
    \/ \E s \in ValueBuffers : Begin([fn |-> "SoEread", element |-> e, size |-> s], TRUE)
    \/ \E s \in ValueSizes : Begin([fn |-> "SoEwrite", element |-> e, size |-> s], TRUE)

SOERequest ==
  SendRequest("SoEread", SOEMessage("read", Drive[call.element], call.element, <<>>, 0, FALSE))

SOEReadSent ==
  /\ pc = "sent" /\ Call("SoEread")
  /\ \/ wkc > 0 /\ CallMbxreceive(1, "answer") /\ Same
     \/ wkc <= 0 /\ Return(0) /\ Same

\* An answer is told by its drive and flags, not by its IDN.
Of(m, op) == m.proto = "SoE" /\ m.op = op /\ m.drive = Drive[call.element]

\* A value larger than the buffer is cut off.
SOEReadAnswer ==
  /\ pc = "answer" /\ Call("SoEread")
  /\ \/ /\ wkc > 0 => ~Of(got[1], "value")
        /\ Return(0) /\ Same
     \/ /\ wkc > 0 /\ Of(got[1], "value")
        /\ LET data == buf \o got[1].data IN buf' = SubSeq(data, 1, SmallerOf(call.size, Len(data)))
        /\ IF got[1].incomplete THEN CallMbxreceive(1, "answer") ELSE Return(1)
        /\ UNCHANGED <<n, slipped, stale>>

\* The next fragment of a write, whether or not the one before was sent.
NextLeft == call.size - n * maxvalue

SendSOEFragment(clean) ==
  LET more == NextLeft > maxvalue IN
  /\ n' = n + 1
  /\ stale' = IF n > 0 THEN stale
              ELSE UnderWay \cup (IF writing = NoWrite THEN {} ELSE {<<"SoE", "partial", 0>>})
  /\ slipped' = (slipped \/ ~clean)
  /\ CallMbxsend(SOEMessage("write", Drive[call.element], call.element,
                            Piece(Value(calls, call.element, call.size), n + 1),
                            IF more THEN NextLeft \div maxvalue ELSE 0, more),
                 IF more THEN "sent" ELSE "last")
  /\ UNCHANGED buf

SOEWriteFirst == pc = "start" /\ Call("SoEwrite") /\ SendSOEFragment(TRUE)

\* ecx_mbxempty between two fragments: an answer is looked for when the slave does
\* not take the fragment in time.
SOEWriteSent ==
  /\ pc = "sent" /\ Call("SoEwrite")
  /\ \/ wkc <= 0 /\ SendSOEFragment(FALSE)
     \/ wkc > 0 /\ toSlave = <<>> /\ SendSOEFragment(TRUE)
     \/ /\ wkc > 0 /\ toSlave # <<>>
        /\ CallMbxreceive(1, "early answer") /\ Same

SOEWriteLast ==
  /\ pc = "last" /\ Call("SoEwrite")
  /\ \/ wkc > 0 /\ CallMbxreceive(1, "answer") /\ Same
     \/ wkc <= 0 /\ Return(0) /\ Same

IsAnySOE(m) == m.proto = "SoE"
IsWritten(m) == Of(m, "written")

SOEWriteAnswer ==
  /\ pc \in {"answer", "early answer"} /\ Call("SoEwrite")
  /\ \/ wkc > 0 /\ IsWritten(got[1]) /\ Return(1) /\ Same
     \/ wkc > 0 /\ ~IsWritten(got[1]) /\ Return(0) /\ Same
     \/ wkc <= 0 /\ pc = "answer" /\ Return(0) /\ Same
     \/ wkc <= 0 /\ pc = "early answer" /\ SendSOEFragment(FALSE)

SOE ==
  /\ \/ CallSOE \/ SOERequest \/ SOEReadSent \/ SOEReadAnswer \/ SOEWriteFirst \/ SOEWriteSent
     \/ SOEWriteLast \/ SOEWriteAnswer
  /\ UNCHANGED soeslave

-----------------------------------------------------------------------------
\* A read that reports success has the value of the element, as much of it as the
\* buffer takes, and after a write that does the slave has the value; unless an
\* earlier request or answer was still under way, an earlier write had stopped half
\* way, or a fragment of this one slipped. The fragments of an answer have no number:
\* a repetition that a read given up had asked for would bring one of them twice.
SOETrue ==
  (\A s \in stale : s[1] # "SoE") =>
    /\ Success("SoEread") /\ ~doubt =>
         LET v == values[call.element] IN buf = SubSeq(v, 1, SmallerOf(call.size, Len(v)))
    /\ Success("SoEwrite") /\ ~slipped =>
         values[call.element] = Value(calls, call.element, call.size)
=============================================================================
