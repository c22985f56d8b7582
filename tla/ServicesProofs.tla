----------------------------- MODULE ServicesProofs -----------------------------
(***************************************************************************)
(* Proofs that a file transfer that reports success has moved the file     *)
(* (FOETrue), and a read or write over SoE the value (SOETrue), whatever   *)
(* the calls of the other protocols, the slave and the channel do.         *)
(***************************************************************************)
EXTENDS Services, SequenceTheorems, WellFoundedInduction, TLAPS

-----------------------------------------------------------------------------
(***************************************************************************)
(* Sequences.                                                              *)
(***************************************************************************)
Elems(s) == {s[i] : i \in 1 .. Len(s)}
IsList(s) == s \in Seq(Elems(s))

\* What is in a Seq is a list.
LEMMA ListOfSeq ==
  ASSUME NEW S, NEW s \in Seq(S)
  PROVE  IsList(s) /\ Elems(s) \subseteq S
<1>1. Elems(s) \subseteq S  BY DEF Elems
<1>2. s \in [1 .. Len(s) -> Elems(s)]  BY DEF Elems
<1>3. Len(s) \in Nat  OBVIOUS
<1> QED  BY <1>1, <1>2, <1>3, IsASeq DEF IsList

\* Length and places of a list.
LEMMA ListPlaces ==
  ASSUME NEW s, IsList(s)
  PROVE  /\ Len(s) \in Nat /\ DOMAIN s = 1 .. Len(s)
         /\ \A i \in 1 .. Len(s) : s[i] \in Elems(s)
         /\ ToSet(s) = Elems(s)
         /\ s # <<>> => Len(s) >= 1
BY DEF IsList, Elems, ToSet

\* A list that is joined to another.
LEMMA ListJoined ==
  ASSUME NEW s, NEW t, IsList(s), IsList(t)
  PROVE  /\ IsList(s \o t) /\ Len(s \o t) = Len(s) + Len(t)
         /\ \A i \in 1 .. Len(s) : (s \o t)[i] = s[i]
         /\ \A i \in 1 .. Len(t) : (s \o t)[Len(s) + i] = t[i]
         /\ \A i \in Len(s) + 1 .. Len(s \o t) : (s \o t)[i] = t[i - Len(s)]
<1> DEFINE S == Elems(s) \cup Elems(t)
<1>1. s \in Seq(S) /\ t \in Seq(S)  BY SeqMonotonic DEF IsList
<1>2. s \o t \in Seq(S)  BY <1>1, ConcatProperties
<1>3. IsList(s \o t)  BY <1>2, ListOfSeq
<1> QED  BY <1>1, <1>3, ConcatProperties

\* What is left of a list from place k on.
LEMMA ListFrom ==
  ASSUME NEW s, IsList(s), NEW k \in 1 .. Len(s) + 1
  PROVE  LET t == SubSeq(s, k, Len(s)) IN
         /\ IsList(t) /\ Len(t) = Len(s) + 1 - k
         /\ \A i \in 1 .. Len(t) : t[i] = s[k + i - 1] /\ k + i - 1 \in 1 .. Len(s)
<1> DEFINE t == SubSeq(s, k, Len(s))
<1>1. Len(s) \in Nat  BY ListPlaces
<1>2. \A i \in k .. Len(s) : s[i] \in Elems(s)  BY <1>1 DEF Elems
<1>3. /\ t \in Seq(Elems(s)) /\ Len(t) = IF k <= Len(s) THEN Len(s) - k + 1 ELSE 0
      /\ \A i \in 1 .. Len(s) - k + 1 : t[i] = s[k + i - 1]
  BY <1>1, <1>2, SubSeqProperties
<1>4. IsList(t)  BY <1>3, ListOfSeq
<1> HIDE DEF t
<1>5. Len(t) = Len(s) + 1 - k  BY <1>1, <1>3
<1>6. \A i \in 1 .. Len(t) : t[i] = s[k + i - 1] /\ k + i - 1 \in 1 .. Len(s)
  BY <1>1, <1>3, <1>5
<1> QED  BY <1>4, <1>5, <1>6 DEF t

\* The tail of a list is what is left from its second place on.
LEMMA ListTail ==
  ASSUME NEW s, IsList(s), s # <<>>
  PROVE  Tail(s) = SubSeq(s, 2, Len(s)) /\ 2 \in 1 .. Len(s) + 1
BY TailIsSubSeq, ListPlaces DEF IsList

\* A list of one.
LEMMA ListOfOne ==
  ASSUME NEW m
  PROVE  IsList(<<m>>) /\ Len(<<m>>) = 1 /\ <<m>>[1] = m /\ <<m>> # <<>>
<1>1. <<m>> \in Seq({m})  OBVIOUS
<1> QED  BY <1>1, ListOfSeq

LEMMA ListEmpty == IsList(<<>>) /\ Len(<<>>) = 0
<1>1. <<>> \in Seq({})  OBVIOUS
<1> QED  BY <1>1, ListOfSeq

\* A function on the numbers up to c is a list.
LEMMA ListOfFunction ==
  ASSUME NEW c \in Nat, NEW f, NEW S, f \in [1 .. c -> S]
  PROVE  IsList(f) /\ Len(f) = c
<1>1. f \in Seq(S) /\ Len(f) = c  BY IsASeq
<1> QED  BY <1>1, ListOfSeq

-----------------------------------------------------------------------------
(***************************************************************************)
(* Types.                                                                  *)
(***************************************************************************)
Octet == Nat \X Files \X Nat

FOEMessages ==
  [proto : {"FoE"}, op : {"read", "write", "data", "ack", "error", "busy"}, number : Nat,
   name : Files \cup {"none"}, data : Seq(Octet)]

IsTransfer(m) == m \in FOEMessages /\ (m.op \in {"read", "write"} => m.name \in Files)

Foreign(m) ==
  \/ m.proto \in {"EoE", "CoE"}
  \/ m.proto = "SoE" /\ m.element \in Elements /\ IsList(m.data)

IsMessage(m) == IsTransfer(m) \/ Foreign(m)

\* No message, or one.
Slot(s) == s # <<>> => s = <<s[1]>> /\ IsMessage(s[1])

ChannelOK ==
  /\ Slot(offered) /\ Slot(toSlave) /\ Slot(got) /\ Slot(old)
  /\ IsList(toMaster) /\ \A i \in 1 .. Len(toMaster) : IsMessage(toMaster[i])
  /\ pc = "send" => offered # <<>>
  /\ return # "send"

FOECall == Call("FOEread") \/ Call("FOEwrite")
SOECall == Call("SoEread") \/ Call("SoEwrite")

CallOK ==
  /\ n \in Nat /\ calls \in Nat
  /\ FOECall => call.name \in Files /\ call.size \in Nat
  /\ SOECall => call.element \in Elements /\ call.size \in Nat

FilesOK ==
  /\ files \in [Files -> Seq(Octet)]
  /\ foe \in [dir : {"none", "up", "down"}, name : Files \cup {"none"}, data : Seq(Octet),
              packet : Nat]
  /\ foe.dir = "down" => foe.name \in Files

OthersOK ==
  /\ IsList(sending) /\ \A i \in 1 .. Len(sending) : sending[i].proto = "EoE"
  /\ values = [e \in Elements |-> values[e]] /\ \A e \in Elements : IsList(values[e])
  /\ IsList(writing.data)

\* The request is made.
Asked == pc # "start" /\ ~(pc = "receive" /\ return = "start")

\* The places of a transfer.
PlaceOK ==
  FOECall =>
    /\ pc \in {"idle", "start", "send", "sent", "receive", "answer", "last"}
    /\ pc = "send" => return \in {"sent", "last"}
    /\ pc = "receive" => return \in {"start", "answer"}
    /\ Call("FOEwrite") => pc # "last" /\ (pc = "send" => return = "sent")
    /\ ~Asked => n = 0 /\ buf = <<>>
    /\ pc = "answer" /\ wkc > 0 => got # <<>> /\ got = old

TypeOK == ChannelOK /\ CallOK /\ FilesOK /\ OthersOK /\ PlaceOK

\* A message is of FoE or not.
LEMMA Kinds ==
  ASSUME NEW m
  PROVE  /\ IsTransfer(m) => m.proto = "FoE"
         /\ Foreign(m) => m.proto # "FoE"
         /\ IsMessage(m) => (m.proto = "FoE" <=> IsTransfer(m))
BY DEF IsTransfer, Foreign, IsMessage, FOEMessages

-----------------------------------------------------------------------------
(***************************************************************************)
(* What calls of the other protocols do.                                   *)
(***************************************************************************)
\* A call hands over message m, or it does not.
Places(m) ==
  /\ offered' = <<m>> /\ UNCHANGED <<toSlave, toMaster, got, old, doubt>>
  /\ pc' = "send" /\ UNCHANGED <<call, calls>>

Quiet ==
  /\ got' = <<>> /\ UNCHANGED <<offered, toSlave, toMaster, old, doubt>>
  /\ pc' # "send" /\ UNCHANGED <<call, calls>>

NewCall ==
  /\ got' = <<>> /\ UNCHANGED <<offered, toSlave, toMaster, old, doubt>>
  /\ pc' # "send" /\ calls' = calls + 1

OtherCall ==
  /\ call'.fn \notin {"FOEread", "FOEwrite"}
  /\ Quiet \/ NewCall \/ (\E m : Foreign(m) /\ Places(m))
  /\ n' \in Nat
  /\ SOECall' => call'.element \in Elements /\ call'.size \in Nat

LEMMA Returns ==
  /\ \A r : Return(r) => Quiet
  /\ \A t, p : CallMbxreceive(t, p) => Quiet
  /\ \A m, p : CallMbxsend(m, p) => Places(m)
BY DEF Return, CallMbxreceive, CallMbxsend, Quiet, Places

\* The first turn of a call.
LEMMA Begins ==
  ASSUME NEW c, NEW clears \in BOOLEAN, Begin(c, clears)
  PROVE  /\ NewCall /\ call' = c /\ n' = 0 /\ buf' = <<>> /\ stale' = {} /\ slipped' = FALSE
         /\ result' = 0
         /\ pc' = (IF clears THEN "receive" ELSE "start") /\ return' = "start"
BY DEF Begin, NewCall


\* Another protocol's call begins.
LEMMA OtherBegins ==
  ASSUME NEW c, NEW clears \in BOOLEAN, Begin(c, clears), c.fn \notin {"FOEread", "FOEwrite"},
         c.fn \in {"SoEread", "SoEwrite"} => c.element \in Elements /\ c.size \in Nat
  PROVE  OtherCall
<1>1. NewCall /\ call' = c /\ n' = 0  BY Begins
<1>2. SOECall' => c.fn \in {"SoEread", "SoEwrite"}  BY <1>1 DEF SOECall, Call
<1> QED  BY <1>1, <1>2 DEF OtherCall

LEMMA PieceIsList ==
  ASSUME NEW s, NEW k \in Nat, IsList(s)
  PROVE  IsList(Piece(s, k))
<1> DEFINE a == (k - 1) * maxvalue + 1
           b == SmallerOf(k * maxvalue, Len(s))
<1>1. maxvalue \in Nat /\ Len(s) \in Nat  BY SOEAssumption, ListPlaces
<1>2. k * maxvalue \in Nat /\ (k - 1) * maxvalue \in Int  BY <1>1
<1>3. a \in Int /\ b \in Int  BY <1>1, <1>2 DEF SmallerOf
<1> HIDE DEF a, b
<1>4. SubSeq(s, a, b) \in Seq({s[i] : i \in a .. b})  BY <1>3, SubSeqProperties
<1> QED  BY <1>4, ListOfSeq DEF Piece, a, b

LEMMA EOEIsOther ==
  ASSUME TypeOK, EOE
  PROVE  OtherCall
<1> USE DEF TypeOK, CallOK, OtherCall, SOECall, Call
<1>1. CASE CallEOE
  <2>1. ASSUME NEW z \in SendSizes, NEW p \in Ports,
               Begin([fn |-> "EOEsend", size |-> z, port |-> p], FALSE)
        PROVE  OtherCall
    BY <2>1, OtherBegins
  <2>2. ASSUME NEW z \in FrameBuffers, NEW p \in Ports,
               Begin([fn |-> "EOErecv", size |-> z, port |-> p], FALSE)
        PROVE  OtherCall
    BY <2>2, OtherBegins
  <2>3. ASSUME NEW P, Begin([fn |-> "EOEsetIp", params |-> P], TRUE)
        PROVE  OtherCall
    BY <2>3, OtherBegins
  <2>4. ASSUME Begin([fn |-> "EOEgetIp"], TRUE)  PROVE OtherCall
    BY <2>4, OtherBegins
  <2> QED  BY <1>1, <2>1, <2>2, <2>3, <2>4 DEF CallEOE
<1>2. CASE SendEOEFragment
  <2>1. PICK m, p : CallMbxsend(m, p) /\ m.proto = "EoE" /\ Call("EOEsend") /\ n' = n + 1
    BY <1>2 DEF SendEOEFragment, Fragment
  <2> QED  BY <2>1, Returns DEF Places, Foreign
<1>3. CASE EOEsent
  BY <1>3, Returns DEF EOEsent, Same, Quiet
<1>4. CASE EOErecv
  BY <1>4, Returns DEF EOErecv, Same, Quiet
<1>5. CASE EOEreceived
  <2>1. Quiet /\ Call("EOErecv")
    BY <1>5, Returns DEF EOEreceived
  <2>2. n' \in Nat
    BY <1>5 DEF EOEreceived, Same
  <2> QED  BY <2>1, <2>2 DEF Quiet
<1>6. CASE SetIpRequest
  <2>1. PICK m, p : CallMbxsend(m, p) /\ m.proto = "EoE" /\ Call("EOEsetIp") /\ n' = n
    BY <1>6 DEF SetIpRequest, SendRequest, EOEMessage
  <2> QED  BY <2>1, Returns DEF Places, Foreign
<1>7. CASE GetIpRequest
  <2>1. PICK m, p : CallMbxsend(m, p) /\ m.proto = "EoE" /\ Call("EOEgetIp") /\ n' = n
    BY <1>7 DEF GetIpRequest, SendRequest, EOEMessage
  <2> QED  BY <2>1, Returns DEF Places, Foreign
<1>8. CASE IpSent
  BY <1>8, Returns DEF IpSent, IsIp, Same, Quiet
<1>9. CASE IpSet
  BY <1>9, Returns DEF IpSet, Same, Quiet
<1>10. CASE IpGot
  BY <1>10, Returns DEF IpGot, Quiet
<1> QED
  BY <1>1, <1>2, <1>3, <1>4, <1>5, <1>6, <1>7, <1>8, <1>9, <1>10 DEF EOE

\* A fragment of a write of SoE.
LEMMA SOEFragment ==
  ASSUME TypeOK, NEW clean \in BOOLEAN, SendSOEFragment(clean), Call("SoEwrite")
  PROVE  OtherCall
<1>1. PICK p, q, r : CallMbxsend(SOEMessage("write", Drive[call.element], call.element,
                       Piece(Value(calls, call.element, call.size), n + 1), q, r), p)
  BY DEF SendSOEFragment
<1>2. call.element \in Elements /\ call.size \in Nat /\ n + 1 \in Nat /\ n' = n + 1
  BY DEF TypeOK, CallOK, SOECall, SendSOEFragment
<1> DEFINE v == Value(calls, call.element, call.size)
           m == SOEMessage("write", Drive[call.element], call.element, Piece(v, n + 1), q, r)
<1>3. IsList(v)
  BY <1>2, ListOfFunction,
     v \in [1 .. call.size -> {<<calls, call.element, i>> : i \in 1 .. call.size}] DEF Value
<1>4. IsList(Piece(v, n + 1))  BY <1>2, <1>3, PieceIsList
<1> HIDE DEF v
<1>5. Foreign(m)  BY <1>2, <1>4 DEF Foreign, SOEMessage
<1>6. Places(m)  BY <1>1, Returns DEF v
<1> HIDE DEF m
<1> QED  BY <1>2, <1>5, <1>6 DEF OtherCall, Places, SOECall, Call

LEMMA SOEIsOther ==
  ASSUME TypeOK, SOE
  PROVE  OtherCall
<1> USE DEF TypeOK, CallOK, OtherCall, SOECall, Call
<1>1. CASE CallSOE
  <2>1. ASSUME NEW e \in Elements, NEW z \in ValueBuffers,
               Begin([fn |-> "SoEread", element |-> e, size |-> z], TRUE)
        PROVE  OtherCall
    BY <2>1, OtherBegins, SOEAssumption
  <2>2. ASSUME NEW e \in Elements, NEW z \in ValueSizes,
               Begin([fn |-> "SoEwrite", element |-> e, size |-> z], TRUE)
        PROVE  OtherCall
    BY <2>2, OtherBegins, SOEAssumption
  <2> QED  BY <1>1, <2>1, <2>2 DEF CallSOE
<1>2. CASE SOERequest
  <2> DEFINE m == SOEMessage("read", Drive[call.element], call.element, <<>>, 0, FALSE)
  <2>1. PICK p : CallMbxsend(m, p) /\ Call("SoEread") /\ n' = n
    BY <1>2 DEF SOERequest, SendRequest
  <2>2. Foreign(m)  BY <2>1, ListEmpty DEF Foreign, SOEMessage
  <2>3. Places(m)  BY <2>1, Returns
  <2> HIDE DEF m
  <2> QED  BY <2>1, <2>2, <2>3 DEF Places
<1>3. CASE SOEReadSent
  BY <1>3, Returns DEF SOEReadSent, Same, Quiet
<1>4. CASE SOEReadAnswer
  BY <1>4, Returns DEF SOEReadAnswer, Same, Quiet
<1>5. CASE SOEWriteFirst
  BY <1>5, SOEFragment DEF SOEWriteFirst
<1>6. CASE SOEWriteSent
  <2>1. CASE SendSOEFragment(FALSE) \/ SendSOEFragment(TRUE)
    BY <1>6, <2>1, SOEFragment DEF SOEWriteSent
  <2>2. CASE CallMbxreceive(1, "early answer") /\ Same
    BY <1>6, <2>2, Returns DEF SOEWriteSent, Same, Quiet
  <2> QED  BY <1>6, <2>1, <2>2 DEF SOEWriteSent
<1>7. CASE SOEWriteLast
  BY <1>7, Returns DEF SOEWriteLast, Same, Quiet
<1>8. CASE SOEWriteAnswer
  <2>1. CASE SendSOEFragment(FALSE)
    BY <1>8, <2>1, SOEFragment DEF SOEWriteAnswer
  <2>2. CASE \E r : Return(r) /\ Same
    BY <1>8, <2>2, Returns DEF SOEWriteAnswer, Same, Quiet
  <2> QED  BY <1>8, <2>1, <2>2 DEF SOEWriteAnswer
<1> QED
  BY <1>1, <1>2, <1>3, <1>4, <1>5, <1>6, <1>7, <1>8 DEF SOE

\* What sends a message of CoE.
LEMMA COERequest ==
  ASSUME TypeOK, NEW fn, NEW m, SendRequest(fn, m), m.proto = "CoE",
         fn \notin {"FOEread", "FOEwrite", "SoEread", "SoEwrite"}
  PROVE  OtherCall
<1>1. PICK p : CallMbxsend(m, p) /\ Call(fn) /\ n' = n
  BY DEF SendRequest
<1>2. Places(m)  BY <1>1, Returns
<1> QED  BY <1>1, <1>2 DEF Places, Foreign, OtherCall, TypeOK, CallOK, SOECall, Call

LEMMA COEIsOther ==
  ASSUME TypeOK, COE
  PROVE  OtherCall
<1> DEFINE COEcalls == {"readODlist", "readODdescription", "readOE", "RxPDO", "TxPDO"}
<1>0. \A r : EndOfEntry(r) => Quiet /\ n' \in Nat
  BY Returns DEF EndOfEntry, TypeOK, CallOK
<1>1. CASE CallCOE
  <2>1. ASSUME Begin([fn |-> "readODlist"], TRUE)  PROVE OtherCall
    BY <2>1, OtherBegins
  <2>2. ASSUME NEW o, Begin([fn |-> "readODdescription", object |-> o], TRUE)  PROVE OtherCall
    BY <2>2, OtherBegins
  <2>3. ASSUME NEW o, Begin([fn |-> "readOE", object |-> o], TRUE)  PROVE OtherCall
    BY <2>3, OtherBegins
  <2>4. ASSUME NEW p, NEW z, Begin([fn |-> "RxPDO", number |-> p, size |-> z], TRUE)
        PROVE  OtherCall
    BY <2>4, OtherBegins
  <2>5. ASSUME NEW p, NEW z, Begin([fn |-> "TxPDO", number |-> p, size |-> z], TRUE)
        PROVE  OtherCall
    BY <2>5, OtherBegins
  <2> QED  BY <1>1, <2>1, <2>2, <2>3, <2>4, <2>5 DEF CallCOE
<1>m. \A op, what, d, left : COEMessage(op, what, d, left).proto = "CoE"
  BY DEF COEMessage
<1>2. CASE ListRequest
  BY <1>2, <1>m, COERequest DEF ListRequest
<1>3. CASE DescriptionRequest
  <2> DEFINE m == COEMessage("get od", <<call.object>>, <<>>, 0)
  <2>1. m.proto = "CoE"  BY <1>m
  <2>2. SendRequest("readODdescription", m)  BY <1>3 DEF DescriptionRequest
  <2> HIDE DEF m
  <2> QED  BY <2>1, <2>2, COERequest
<1>4. CASE EntryRequest
  <2> DEFINE m == COEMessage("get oe", <<call.object, n>>, <<>>, 0)
  <2>1. m.proto = "CoE"  BY <1>m
  <2>2. SendRequest("readOE", m)  BY <1>4 DEF EntryRequest
  <2> HIDE DEF m
  <2> QED  BY <2>1, <2>2, COERequest
<1>5. CASE TxPDORequest
  <2> DEFINE m == COEMessage("txpdo rr", <<call.number>>, <<>>, 0)
  <2>1. m.proto = "CoE"  BY <1>m
  <2>2. SendRequest("TxPDO", m)  BY <1>5 DEF TxPDORequest
  <2> HIDE DEF m
  <2> QED  BY <2>1, <2>2, COERequest
<1>6. CASE RxPDO
  BY <1>6, COERequest DEF RxPDO, COEMessage
<1>7. CASE COESent \/ RxPDOSent \/ NoResponse \/ ListFragment \/ Description \/ Entry \/ PDOReceived
  <2>1. call.fn \in COEcalls
    BY <1>7 DEF COESent, IsCOE, RxPDOSent, NoResponse, ListFragment, Description, Entry,
       PDOReceived, GotResponse, Call
  <2>2. Quiet /\ n' \in Nat
    BY <1>7, <1>0, Returns DEF COESent, RxPDOSent, NoResponse, ListFragment, Description, Entry,
       PDOReceived, Same, TypeOK, CallOK
  <2> QED  BY <2>1, <2>2 DEF OtherCall, Quiet, SOECall, Call
<1> QED
  BY <1>1, <1>2, <1>3, <1>4, <1>5, <1>6, <1>7 DEF COE

-----------------------------------------------------------------------------
(***************************************************************************)
(* What the slave does for the other protocols.                            *)
(***************************************************************************)
\* It may take a message, and sends some, of other protocols than FoE.
Speaks(ms) ==
  /\ IsList(ms) /\ \A i \in 1 .. Len(ms) : Foreign(ms[i])
  /\ toMaster' = toMaster \o ms
  /\ \/ UNCHANGED toSlave
     \/ toSlave' = <<>> /\ toSlave # <<>> /\ toSlave[1].proto # "FoE"
  /\ UNCHANGED <<offered, got, old, doubt, client>>

LEMMA SmallestNumber ==
  ASSUME NEW T \in SUBSET Nat, T # {}
  PROVE  \E k \in T : \A m \in T : k <= m
<1>1. IsWellFoundedOn(OpToRel(<, Nat), Nat)  BY NatLessThanWellFounded
<1>2. PICK k \in T : \A m \in T : <<m, k>> \notin OpToRel(<, Nat)  BY <1>1, WFMin
<1>3. ASSUME NEW m \in T  PROVE k <= m
  <2>1. <<m, k>> \in Nat \X Nat  OBVIOUS
  <2> QED  BY <1>2, <2>1 DEF OpToRel
<1> QED  BY <1>3

LEMMA Answers ==
  ASSUME NEW proto \in {"EoE", "SoE", "CoE"}, Arrived(proto), NEW ms, Answer(ms),
         IsList(ms), \A i \in 1 .. Len(ms) : Foreign(ms[i])
  PROVE  Speaks(ms)
BY DEF Arrived, Answer, Speaks

LEMMA AnswersOne ==
  ASSUME NEW proto \in {"EoE", "SoE", "CoE"}, Arrived(proto), NEW m, Answer(<<m>>), Foreign(m)
  PROVE  \E ms : Speaks(ms)
<1>1. IsList(<<m>>) /\ \A i \in 1 .. Len(<<m>>) : Foreign(<<m>>[i])  BY ListOfOne
<1> QED  BY <1>1, Answers

LEMMA AnswersNothing ==
  ASSUME NEW proto \in {"EoE", "SoE", "CoE"}, Arrived(proto), Answer(<<>>)
  PROVE  \E ms : Speaks(ms)
<1>1. IsList(<<>>) /\ \A i \in 1 .. Len(<<>>) : Foreign(<<>>[i])  BY ListEmpty
<1> QED  BY <1>1, Answers

\* The last fragment of a frame can be found.
LEMMA LastFragment ==
  ASSUME NEW whole, IsList(whole), NEW no, NEW port, NEW time
  PROVE  \E i \in 0 .. Len(whole) :
           /\ Fragment(whole, i, no, port, time).last
           /\ \A j \in 0 .. i - 1 : ~Fragment(whole, j, no, port, time).last
<1> DEFINE F(i) == Fragment(whole, i, no, port, time)
           T == {i \in 0 .. Len(whole) : F(i).last}
<1>1. Len(whole) \in Nat  BY ListPlaces
<1>2. Step \in Nat /\ Step >= 1
  <2>1. BLOCK \in Nat \ {0} /\ fragmentsize \in Nat /\ fragmentsize >= BLOCK  BY EOEAssumption
  <2>2. fragmentsize \div BLOCK \in Nat /\ fragmentsize \div BLOCK >= 1  BY <2>1
  <2>3. ASSUME NEW a \in Nat, a >= 1, NEW b \in Nat, b >= 1  PROVE a * b \in Nat /\ a * b >= 1
    BY <2>3
  <2> QED  BY <2>1, <2>2, <2>3 DEF Step
<1>3. Len(whole) \in T
  <2>1. F(Len(whole)).last <=> Len(whole) - Len(whole) * Step <= fragmentsize
    BY DEF Fragment
  <2>2. ASSUME NEW a \in Nat, NEW b \in Nat, b >= 1  PROVE a - a * b <= 0
    BY <2>2
  <2>3. fragmentsize \in Nat  BY EOEAssumption
  <2>4. Len(whole) - Len(whole) * Step <= 0 /\ Len(whole) * Step \in Nat  BY <1>1, <1>2, <2>2
  <2> QED  BY <1>1, <2>1, <2>3, <2>4
<1>4. T \in SUBSET Nat /\ T # {}  BY <1>1, <1>3
<1>5. PICK k \in T : \A m \in T : k <= m
  <2> HIDE DEF T
  <2> QED  BY <1>4, SmallestNumber
<1>6. \A j \in 0 .. k - 1 : ~F(j).last
  <2> SUFFICES ASSUME NEW j \in 0 .. k - 1, F(j).last  PROVE FALSE
    OBVIOUS
  <2>1. j \in T  BY <1>1, <1>5
  <2> HIDE DEF T, F
  <2> QED  BY <1>1, <1>4, <1>5, <2>1
<1> QED  BY <1>5, <1>6

LEMMA FragmentIsForeign ==
  ASSUME NEW d, NEW k, NEW no, NEW port, NEW time
  PROVE  Fragment(d, k, no, port, time).proto = "EoE"
BY DEF Fragment

LEMMA Sends ==
  ASSUME TypeOK, SendFragment
  PROVE  /\ \E ms : Speaks(ms) /\ \A i \in 1 .. Len(ms) : ms[i].proto = "EoE"
         /\ IsList(sending') /\ \A i \in 1 .. Len(sending') : sending'[i].proto = "EoE"
<1>0. IsList(sending) /\ \A i \in 1 .. Len(sending) : sending[i].proto = "EoE"
  BY DEF TypeOK, OthersOK
<1>1. ASSUME NEW m, m.proto = "EoE", toMaster' = Append(toMaster, m)
      PROVE  \E ms : Speaks(ms) /\ \A i \in 1 .. Len(ms) : ms[i].proto = "EoE"
  <2>1. toMaster' = toMaster \o <<m>>
    <3>1. IsList(toMaster)  BY DEF TypeOK, ChannelOK
    <3>2. toMaster \in Seq(Elems(toMaster) \cup {m}) /\ m \in Elems(toMaster) \cup {m}
      BY <3>1, SeqMonotonic DEF IsList
    <3> QED  BY <1>1, <3>2, AppendIsConcat
  <2>2. IsList(<<m>>) /\ \A i \in 1 .. Len(<<m>>) : <<m>>[i].proto = "EoE"
    BY <1>1, ListOfOne
  <2>3. UNCHANGED <<toSlave, offered, got, old, doubt, client>>  BY DEF SendFragment
  <2>4. Speaks(<<m>>)  BY <2>1, <2>2, <2>3 DEF Speaks, Foreign
  <2> QED  BY <2>2, <2>4
<1>2. CASE sending # <<>>
  <2>1. toMaster' = Append(toMaster, Head(sending)) /\ sending' = Tail(sending)
    BY <1>2 DEF SendFragment
  <2>2. Head(sending) = sending[1] /\ 1 \in 1 .. Len(sending)
    BY <1>0, <1>2, ListPlaces
  <2>3. IsList(sending') /\ \A i \in 1 .. Len(sending') : sending'[i].proto = "EoE"
    <3>1. sending' = SubSeq(sending, 2, Len(sending)) /\ 2 \in 1 .. Len(sending) + 1
      BY <1>0, <1>2, <2>1, ListTail
    <3>2. /\ IsList(sending')
          /\ \A i \in 1 .. Len(sending') :
               sending'[i] = sending[2 + i - 1] /\ 2 + i - 1 \in 1 .. Len(sending)
      BY <1>0, <3>1, ListFrom
    <3> QED  BY <1>0, <3>2
  <2> QED  BY <1>0, <1>1, <2>1, <2>2, <2>3
<1>3. CASE sending = <<>>
  <2>1. PICK size \in FrameSizes, port \in Ports, time \in BOOLEAN :
          LET k == Cardinality(frames) + 1
              data == Octets("slave", k, size)
              whole == IF time THEN data \o TimeStamp(k) ELSE data
              F(i) == Fragment(whole, i, k % FrameNos, port, time)
              last == CHOOSE i \in 0 .. Len(whole) : F(i).last /\ \A j \in 0 .. i - 1 : ~F(j).last IN
          /\ toMaster' = Append(toMaster, F(0))
          /\ sending' = [i \in 1 .. last |-> F(i)]
    BY <1>3 DEF SendFragment
  <2> DEFINE k == Cardinality(frames) + 1
             data == Octets("slave", k, size)
             whole == IF time THEN data \o TimeStamp(k) ELSE data
             F(i) == Fragment(whole, i, k % FrameNos, port, time)
             last == CHOOSE i \in 0 .. Len(whole) : F(i).last /\ \A j \in 0 .. i - 1 : ~F(j).last
  <2>2. toMaster' = Append(toMaster, F(0)) /\ sending' = [i \in 1 .. last |-> F(i)]
    BY <2>1
  <2>3. IsList(data) /\ IsList(TimeStamp(k))
    <3>1. size \in Nat /\ Stamp \in Nat  BY EOEAssumption
    <3>2. data \in [1 .. size -> {<<"slave", k, i>> : i \in 1 .. size}]  BY DEF Octets
    <3>3. TimeStamp(k) \in [1 .. Stamp -> {<<"time", k, i>> : i \in 1 .. Stamp}]  BY DEF TimeStamp
    <3> HIDE DEF k, data
    <3> QED  BY <3>1, <3>2, <3>3, ListOfFunction
  <2>4. IsList(whole)
    <3> HIDE DEF k, data
    <3> QED  BY <2>3, ListJoined
  <2> HIDE DEF whole
  <2>5. last \in 0 .. Len(whole)
    BY <2>4, LastFragment
  <2>6. last \in Nat  BY <2>4, <2>5, ListPlaces
  <2>7. \A i : F(i).proto = "EoE"  BY FragmentIsForeign
  <2> HIDE DEF last, F
  <2>8. sending' \in [1 .. last -> {F(i) : i \in 1 .. last}]  BY <2>2
  <2>9. IsList(sending') /\ Len(sending') = last  BY <2>6, <2>8, ListOfFunction
  <2> QED  BY <1>1, <2>2, <2>7, <2>9
<1> QED  BY <1>2, <1>3


LEMMA EOEServes ==
  ASSUME TypeOK, ServeEOE
  PROVE  (\E ms : Speaks(ms)) /\ sending' = sending
<1>1. Arrived("EoE") /\ sending' = sending
  BY DEF ServeEOE, ServeFragment, ServeSetIp, ServeGetIp
<1>2. Answer(<<>>) \/ \E m : m.proto = "EoE" /\ Answer(<<m>>)
  BY DEF ServeEOE, ServeFragment, ServeSetIp, ServeGetIp, EOEMessage
<1> QED  BY <1>1, <1>2, AnswersOne, AnswersNothing DEF Foreign

\* A message of SoE that arrived.
LEMMA SOEArrived ==
  ASSUME TypeOK, Arrived("SoE")
  PROVE  toSlave[1].element \in Elements /\ IsList(toSlave[1].data)
<1>1. toSlave[1].proto = "SoE" /\ IsMessage(toSlave[1])
  BY DEF Arrived, TypeOK, ChannelOK, Slot
<1> QED  BY <1>1, Kinds DEF IsMessage, Foreign

LEMMA PiecesAreForeign ==
  ASSUME NEW m, m.element \in Elements, NEW data, IsList(data)
  PROVE  IsList(Pieces(m, data)) /\ \A i \in 1 .. Len(Pieces(m, data)) : Foreign(Pieces(m, data)[i])
<1> DEFINE count == (Len(data) + maxvalue - 1) \div maxvalue
           M(k) == SOEMessage("value", m.drive, m.element, Piece(data, k), count - k, k < count)
<1>1. count \in Nat
  <2>1. Len(data) \in Nat /\ maxvalue \in Nat \ {0}  BY SOEAssumption, ListPlaces
  <2> QED  BY <2>1
<1>2. Pieces(m, data) = [k \in 1 .. count |-> M(k)]  BY DEF Pieces
<1>3. \A k \in Nat : Foreign(M(k))
  BY PieceIsList DEF Foreign, SOEMessage
<1> HIDE DEF count, M
<1>4. Pieces(m, data) \in [1 .. count -> {M(k) : k \in 1 .. count}]  BY <1>2
<1>5. IsList(Pieces(m, data)) /\ Len(Pieces(m, data)) = count  BY <1>1, <1>4, ListOfFunction
<1> QED  BY <1>1, <1>2, <1>3, <1>5

LEMMA SOEServes ==
  ASSUME TypeOK, ServeSOE
  PROVE  /\ \E ms : Speaks(ms)
         /\ values' = [e \in Elements |-> values'[e]] /\ \A e \in Elements : IsList(values'[e])
         /\ IsList(writing'.data)
<1> DEFINE m == toSlave[1]
<1>0. /\ Arrived("SoE") /\ m.element \in Elements /\ IsList(m.data)
      /\ values = [e \in Elements |-> values[e]] /\ \A e \in Elements : IsList(values[e])
      /\ IsList(writing.data)
  BY SOEArrived DEF ServeSOE, TypeOK, OthersOK
<1>r. \A op : SOEReply(m, op) => \E ms : Speaks(ms)
  <2> SUFFICES ASSUME NEW op, SOEReply(m, op)  PROVE \E ms : Speaks(ms)
    OBVIOUS
  <2> DEFINE a == SOEMessage(op, m.drive, m.element, <<>>, 0, FALSE)
  <2>1. Foreign(a)  BY <1>0, ListEmpty DEF Foreign, SOEMessage
  <2>2. Answer(<<a>>)  BY DEF SOEReply
  <2> HIDE DEF a
  <2> QED  BY <1>0, <2>1, <2>2, AnswersOne
<1>1. CASE ServeSOERead(m)
  <2>1. UNCHANGED <<values, writing>>  BY <1>1 DEF ServeSOERead, soeslave
  <2>2. CASE Answer(Pieces(m, values[m.element]))
    <3>1. IsList(values[m.element])  BY <1>0
    <3>2. /\ IsList(Pieces(m, values[m.element]))
          /\ \A i \in 1 .. Len(Pieces(m, values[m.element])) :
               Foreign(Pieces(m, values[m.element])[i])
      BY <1>0, <3>1, PiecesAreForeign
    <3>3. Speaks(Pieces(m, values[m.element]))  BY <1>0, <2>2, <3>2, Answers
    <3> QED  BY <1>0, <2>1, <3>3
  <2>3. CASE SOEReply(m, "read error")
    BY <1>0, <1>r, <2>1, <2>3
  <2> QED  BY <1>1, <2>2, <2>3 DEF ServeSOERead
<1>2. CASE ServeSOEWrite(m)
  <2> DEFINE data == IF m.left >= writing.left /\ m.left > 0 THEN m.data ELSE writing.data \o m.data
  <2>1. IsList(data)  BY <1>0, ListJoined
  <2> HIDE DEF data
  <2>2. \/ writing' = [data |-> data, left |-> m.left] /\ Answer(<<>>) /\ UNCHANGED values
        \/ /\ writing' = NoWrite
           /\ values' = [values EXCEPT ![m.element] = data] /\ SOEReply(m, "written")
        \/ writing' = NoWrite /\ UNCHANGED values /\ SOEReply(m, "write error")
    BY <1>2 DEF ServeSOEWrite, data
  <2>3. IsList(writing'.data)
    <3>1. CASE writing' = [data |-> data, left |-> m.left]  BY <2>1, <3>1
    <3>2. CASE writing' = NoWrite  BY <3>2, ListEmpty DEF NoWrite
    <3> QED  BY <2>2, <3>1, <3>2
  <2>4. values' = [e \in Elements |-> values'[e]] /\ \A e \in Elements : IsList(values'[e])
    <3>1. CASE UNCHANGED values  BY <1>0, <3>1
    <3>2. CASE values' = [values EXCEPT ![m.element] = data]
      <4>1. values' = [e \in Elements |-> IF e = m.element THEN data ELSE values[e]]
        BY <1>0, <3>2
      <4> HIDE DEF m
      <4> QED  BY <1>0, <2>1, <4>1
    <3> QED  BY <2>2, <3>1, <3>2
  <2>5. \E ms : Speaks(ms)
    <3>1. CASE Answer(<<>>)  BY <1>0, <3>1, AnswersNothing
    <3>2. CASE \E op : SOEReply(m, op)  BY <1>r, <3>2
    <3> QED  BY <2>2, <3>1, <3>2
  <2> QED  BY <2>3, <2>4, <2>5
<1> QED  BY <1>1, <1>2 DEF ServeSOE

LEMMA COEServes ==
  ASSUME TypeOK, ServeCOE
  PROVE  \E ms : Speaks(ms)
<1>1. \A op, what, d, left : Foreign(COEMessage(op, what, d, left))
  BY DEF Foreign, COEMessage
<1>2. Arrived("CoE")  BY DEF ServeCOE
<1>3. \/ Answer(ListFragments) \/ Answer(<<>>)
      \/ \E op, what, d, left : Answer(<<COEMessage(op, what, d, left)>>)
  BY DEF ServeCOE
<1>4. CASE Answer(ListFragments)
  <2> DEFINE count == (Len(Dictionary) + PerFragment - 1) \div PerFragment
             M(k) == COEMessage("list", <<>>,
                       SubSeq(Dictionary, (k - 1) * PerFragment + 1,
                              SmallerOf(k * PerFragment, Len(Dictionary))),
                       count - k)
  <2>1. count \in Nat
    <3>1. Len(Dictionary) \in Nat /\ PerFragment \in Nat \ {0}  BY InfoAssumption
    <3> QED  BY <3>1
  <2>2. ListFragments = [k \in 1 .. count |-> M(k)]  BY DEF ListFragments
  <2>3. \A k : Foreign(M(k))  BY <1>1
  <2> HIDE DEF count, M
  <2>4. ListFragments \in [1 .. count -> {M(k) : k \in 1 .. count}]  BY <2>2
  <2>5. IsList(ListFragments) /\ Len(ListFragments) = count  BY <2>1, <2>4, ListOfFunction
  <2>6. \A i \in 1 .. Len(ListFragments) : Foreign(ListFragments[i])  BY <2>2, <2>3, <2>5
  <2> QED  BY <1>2, <1>4, <2>5, <2>6, Answers
<1>5. CASE Answer(<<>>)  BY <1>2, <1>5, AnswersNothing
<1>6. CASE \E op, what, d, left : Answer(<<COEMessage(op, what, d, left)>>)
  BY <1>1, <1>2, <1>6, AnswersOne
<1> QED  BY <1>3, <1>4, <1>5, <1>6

\* No call comes back to ecx_mbxsend.
LEMMA OtherReturns ==
  ASSUME EOE \/ SOE \/ COE
  PROVE  return' # "send"
<1>1. ASSUME NEW c, NEW clears, Begin(c, clears)  PROVE return' # "send"
  BY <1>1 DEF Begin
<1>2. \A r : Return(r) => return' # "send"  BY DEF Return
<1>3. \A t, p : CallMbxreceive(t, p) /\ p # "send" => return' # "send"  BY DEF CallMbxreceive
<1>4. \A m, p : CallMbxsend(m, p) /\ p # "send" => return' # "send"  BY DEF CallMbxsend
<1>5. \A clean : SendSOEFragment(clean) => return' # "send"  BY <1>4 DEF SendSOEFragment
<1>6. \A r : EndOfEntry(r) => return' # "send"  BY <1>2, <1>3 DEF EndOfEntry
<1>7. \A fn, m : SendRequest(fn, m) => return' # "send"  BY <1>4 DEF SendRequest
<1>8. CASE EOE
  BY <1>1, <1>2, <1>3, <1>4, <1>7, <1>8 DEF EOE, CallEOE, SendEOEFragment, EOEsent, EOErecv,
     EOEreceived, SetIpRequest, GetIpRequest, IpSent, IpSet, IpGot
<1>9. CASE SOE
  BY <1>1, <1>2, <1>3, <1>5, <1>7, <1>9 DEF SOE, CallSOE, SOERequest, SOEReadSent, SOEReadAnswer,
     SOEWriteFirst, SOEWriteSent, SOEWriteLast, SOEWriteAnswer
<1>10. CASE COE
  BY <1>1, <1>2, <1>3, <1>6, <1>7, <1>10 DEF COE, CallCOE, ListRequest, DescriptionRequest,
     EntryRequest, TxPDORequest, RxPDO, COESent, RxPDOSent, NoResponse, ListFragment, Description,
     Entry, PDOReceived
<1> QED  BY <1>8, <1>9, <1>10

-----------------------------------------------------------------------------
(***************************************************************************)
(* The steps of Services, as a file transfer sees them.                    *)
(***************************************************************************)
LEMMA Steps ==
  ASSUME TypeOK, [Next]_vars
  PROVE  \/ (\E ms : Speaks(ms)) /\ UNCHANGED foeslave /\ OthersOK'
         \/ OtherCall /\ return' # "send" /\ UNCHANGED foeslave /\ OthersOK'
         \/ EOEHook /\ UNCHANGED foeslave /\ OthersOK'
         \/ (Mbxsend \/ Mbxreceive \/ Repeat) /\ UNCHANGED foeslave /\ OthersOK'
         \/ ServeFOE /\ OthersOK'
         \/ FOE /\ OthersOK'
         \/ UNCHANGED vars
<1>0. UNCHANGED <<sending, values, writing>> => OthersOK'
  BY DEF TypeOK, OthersOK
<1>1. CASE UseFOE
  BY <1>0, <1>1 DEF UseFOE, eoeslave, soeslave
<1>2. CASE UseEOE
  <2>1. UNCHANGED <<foeslave, values, writing>>  BY <1>2 DEF UseEOE, soeslave
  <2>2. CASE EOE
    <3>1. UNCHANGED sending  BY <2>2 DEF EOE, eoeslave
    <3> QED  BY <1>0, <2>1, <2>2, <3>1, EOEIsOther, OtherReturns
  <2>3. CASE ServeEOE  BY <1>0, <2>1, <2>3, EOEServes
  <2>4. CASE EOEHook
    <3>1. UNCHANGED sending  BY <2>4 DEF EOEHook, eoeslave
    <3> QED  BY <1>0, <2>1, <2>4, <3>1
  <2>5. CASE Frame
    <3>1. SendFragment  BY <2>5 DEF Frame
    <3> QED  BY <2>1, <3>1, Sends DEF TypeOK, OthersOK
  <2> QED  BY <1>2, <2>2, <2>3, <2>4, <2>5 DEF UseEOE
<1>3. CASE UseSOE
  <2>1. UNCHANGED <<foeslave, sending>>  BY <1>3 DEF UseSOE, eoeslave
  <2>2. CASE SOE
    <3>1. UNCHANGED <<values, writing>>  BY <2>2 DEF SOE, soeslave
    <3> QED  BY <1>0, <2>1, <2>2, <3>1, SOEIsOther, OtherReturns
  <2>3. CASE ServeSOE  BY <2>1, <2>3, SOEServes DEF TypeOK, OthersOK
  <2> QED  BY <1>3, <2>2, <2>3 DEF UseSOE
<1>4. CASE UseCOE
  <2>1. UNCHANGED <<foeslave, sending, values, writing>>  BY <1>4 DEF UseCOE, eoeslave, soeslave
  <2>2. CASE COE  BY <1>0, <2>1, <2>2, COEIsOther, OtherReturns
  <2>3. CASE ServeCOE  BY <1>0, <2>1, <2>3, COEServes
  <2> QED  BY <1>4, <2>2, <2>3 DEF UseCOE
<1>5. CASE UseMailbox
  BY <1>0, <1>5 DEF UseMailbox, services, eoeslave, soeslave
<1> QED  BY <1>1, <1>2, <1>3, <1>4, <1>5 DEF Next

\* What a receive that returns a message does: those before it are lost.
LEMMA Receives ==
  ASSUME TypeOK, Mbxreceive, wkc' > 0
  PROVE  \E k \in 1 .. Len(toMaster) :
           /\ got' = <<toMaster[k]>> /\ old' = <<toMaster[k]>> /\ toMaster[k] = toMaster[1]
           /\ toMaster' = SubSeq(toMaster, k + 1, Len(toMaster))
           /\ UNCHANGED <<offered, toSlave, doubt>>
<1>0. ~(wkc' = 0)  OBVIOUS
<1>1. /\ toMaster # <<>> /\ got' = <<toMaster[1]>> /\ Fetch /\ UNCHANGED doubt
  BY <1>0, Zenon DEF Mbxreceive
<1>2. PICK k \in DOMAIN toMaster :
        /\ old' = <<toMaster[k]>>
        /\ \/ toMaster' = From(k + 1) /\ got' = old'
           \/ toMaster' \in {From(k), From(k + 1)} /\ got' = <<>>
  BY <1>1 DEF Fetch
<1>3. got' # <<>>  BY <1>1
<1>4. k \in 1 .. Len(toMaster)  BY ListPlaces DEF TypeOK, ChannelOK
<1>5. toMaster[k] = toMaster[1]
  <2>1. <<toMaster[1]>> = <<toMaster[k]>>  BY <1>1, <1>2, <1>3
  <2> QED  BY <2>1
<1> QED  BY <1>1, <1>2, <1>3, <1>4, <1>5 DEF From, Fetch

\* And one that does not: at most the message at the head is gone.
LEMMA ReceivesNothing ==
  ASSUME TypeOK, Mbxreceive, ~(wkc' > 0)
  PROVE  /\ offered' = offered /\ toSlave' = toSlave
         /\ got' = <<>> \/ (toMaster # <<>> /\ got' = <<toMaster[1]>>)
         /\ toMaster' = toMaster \/ (toMaster # <<>> /\ toMaster' = Tail(toMaster))
         /\ old' = <<>> \/ old' = old \/ (toMaster # <<>> /\ old' = <<toMaster[1]>>)
<1>0. ~(wkc' = 1)  OBVIOUS
<1>1. CASE Clear
  <2>1. /\ offered' = offered /\ toSlave' = toSlave /\ toMaster' = toMaster /\ old' = old
        /\ got' = <<>>
    BY <1>1 DEF Clear
  <2> QED  BY <2>1
<1>2. CASE toMaster # <<>> /\ toMaster' = Tail(toMaster) /\ old' = <<toMaster[1]>> /\ Fetch
  <2>1. offered' = offered /\ toSlave' = toSlave /\ (got' = <<>> \/ got' = old')
    BY <1>2 DEF Fetch
  <2> QED  BY <1>2, <2>1
<1>3. CASE UNCHANGED toMaster /\ old' = <<>> /\ Lose
  <2>1. offered' = offered /\ toSlave' = toSlave /\ got' = <<>>
    BY <1>3 DEF Lose
  <2> QED  BY <1>3, <2>1
<1> QED  BY <1>0, <1>1, <1>2, <1>3, Zenon DEF Mbxreceive

-----------------------------------------------------------------------------
(***************************************************************************)
(* Types are kept.                                                         *)
(***************************************************************************)
LEMMA InitTypes == Init => TypeOK
<1> SUFFICES ASSUME Init  PROVE TypeOK
  OBVIOUS
<1>1. ChannelOK
  BY ListEmpty DEF Init, ClientInit, ChannelInit, ChannelOK, Slot
<1>2. CallOK  BY DEF Init, ClientInit, CallOK, FOECall, SOECall, Call
<1>3. FilesOK
  <2>1. ASSUME NEW f \in Files  PROVE Written(0, f, Delivered[f]) \in Seq(Octet)
    <3>1. Delivered[f] \in Nat  BY FOEAssumption
    <3>2. Written(0, f, Delivered[f]) \in [1 .. Delivered[f] -> Octet]
      BY <3>1 DEF Written, Octet
    <3> QED  BY <3>1, <3>2, IsASeq
  <2> QED  BY <2>1 DEF Init, FOEInit, FilesOK, NoTransfer
<1>4. OthersOK
  <2>1. ASSUME NEW e \in Elements  PROVE IsList(Value(0, e, Delivery[e]))
    <3>1. Delivery[e] \in Nat  BY SOEAssumption
    <3>2. Value(0, e, Delivery[e]) \in [1 .. Delivery[e] -> {<<0, e, i>> : i \in 1 .. Delivery[e]}]
      BY DEF Value
    <3> QED  BY <3>1, <3>2, ListOfFunction
  <2>2. IsList(sending) /\ Len(sending) = 0  BY ListEmpty DEF Init, EOEInit
  <2>3. IsList(writing.data)  BY ListEmpty DEF Init, SOEInit, NoWrite
  <2> QED  BY <2>1, <2>2, <2>3 DEF Init, SOEInit, OthersOK
<1>5. PlaceOK  BY DEF Init, ClientInit, PlaceOK, FOECall, Call
<1> QED  BY <1>1, <1>2, <1>3, <1>4, <1>5 DEF TypeOK

LEMMA JoinedMessages ==
  ASSUME NEW s, NEW t, IsList(s), IsList(t),
         \A i \in 1 .. Len(s) : IsMessage(s[i]), \A i \in 1 .. Len(t) : IsMessage(t[i])
  PROVE  IsList(s \o t) /\ \A i \in 1 .. Len(s \o t) : IsMessage((s \o t)[i])
<1> DEFINE u == s \o t
<1>1. /\ IsList(u) /\ Len(u) = Len(s) + Len(t)
      /\ \A i \in 1 .. Len(s) : u[i] = s[i]
      /\ \A i \in Len(s) + 1 .. Len(u) : u[i] = t[i - Len(s)]
  BY ListJoined
<1>2. Len(s) \in Nat /\ Len(t) \in Nat  BY ListPlaces
<1> HIDE DEF u
<1>3. ASSUME NEW i \in 1 .. Len(u)  PROVE IsMessage(u[i])
  <2>1. CASE i \in 1 .. Len(s)  BY <1>1, <2>1
  <2>2. CASE i \in Len(s) + 1 .. Len(u)
    <3>1. i - Len(s) \in 1 .. Len(t)  BY <1>1, <1>2, <2>2
    <3> QED  BY <1>1, <2>2, <3>1
  <2> QED  BY <1>1, <1>2, <2>1, <2>2
<1> QED  BY <1>1, <1>3 DEF u

LEMMA MessagesLeft ==
  ASSUME NEW s, IsList(s), \A i \in 1 .. Len(s) : IsMessage(s[i]), NEW k \in 1 .. Len(s) + 1
  PROVE  LET t == SubSeq(s, k, Len(s)) IN IsList(t) /\ \A i \in 1 .. Len(t) : IsMessage(t[i])
<1> DEFINE t == SubSeq(s, k, Len(s))
<1>1. /\ IsList(t)
      /\ \A i \in 1 .. Len(t) : t[i] = s[k + i - 1] /\ k + i - 1 \in 1 .. Len(s)
  BY ListFrom
<1> HIDE DEF t
<1>2. \A i \in 1 .. Len(t) : IsMessage(t[i])  BY <1>1
<1> QED  BY <1>1, <1>2 DEF t

LEMMA SpeakTypes ==
  ASSUME TypeOK, NEW ms, Speaks(ms), UNCHANGED foeslave, OthersOK'
  PROVE  TypeOK'
<1>1. ChannelOK'
  <2>1. IsList(toMaster) /\ \A i \in 1 .. Len(toMaster) : IsMessage(toMaster[i])
    BY DEF TypeOK, ChannelOK
  <2>2. IsList(ms) /\ \A i \in 1 .. Len(ms) : IsMessage(ms[i])
    BY DEF Speaks, IsMessage
  <2>3. IsList(toMaster') /\ \A i \in 1 .. Len(toMaster') : IsMessage(toMaster'[i])
    BY <2>1, <2>2, JoinedMessages DEF Speaks
  <2> QED  BY <2>3 DEF TypeOK, ChannelOK, Speaks, Slot, client
<1>2. CallOK'  BY DEF TypeOK, CallOK, FOECall, SOECall, Call, Speaks, client
<1>3. FilesOK'  BY DEF TypeOK, FilesOK, foeslave
<1>4. PlaceOK'
  BY DEF TypeOK, PlaceOK, FOECall, Call, Asked, Speaks, client
<1> QED  BY <1>1, <1>2, <1>3, <1>4 DEF TypeOK

LEMMA OtherTypes ==
  ASSUME TypeOK, OtherCall, return' # "send", UNCHANGED foeslave, OthersOK'
  PROVE  TypeOK'
<1>1. ChannelOK'
  <2>1. CASE Quiet \/ NewCall
    BY <2>1 DEF TypeOK, ChannelOK, Quiet, NewCall, Slot
  <2>2. CASE \E m : Foreign(m) /\ Places(m)
    <3>1. PICK m : Foreign(m) /\ Places(m)  BY <2>2
    <3> QED  BY <3>1 DEF TypeOK, ChannelOK, Places, Slot, IsMessage
  <2> QED  BY <2>1, <2>2 DEF OtherCall
<1>2. CallOK'
  <2>1. calls' \in Nat  BY DEF OtherCall, Quiet, NewCall, Places, TypeOK, CallOK
  <2> QED  BY <2>1 DEF OtherCall, CallOK, FOECall, Call
<1>3. FilesOK'  BY DEF TypeOK, FilesOK, foeslave
<1>4. PlaceOK'  BY DEF OtherCall, PlaceOK, FOECall, Call
<1> QED  BY <1>1, <1>2, <1>3, <1>4 DEF TypeOK

LEMMA HookTypes ==
  ASSUME TypeOK, EOEHook, UNCHANGED foeslave, OthersOK'
  PROVE  TypeOK'
<1>1. ChannelOK'
  <2>1. /\ IsList(toMaster) /\ \A i \in 1 .. Len(toMaster) : IsMessage(toMaster[i])
        /\ toMaster # <<>>
    BY DEF TypeOK, ChannelOK, EOEHook
  <2>2. IsList(toMaster') /\ \A i \in 1 .. Len(toMaster') : IsMessage(toMaster'[i])
    BY <2>1, MessagesLeft, ListTail DEF EOEHook
  <2>3. IsMessage(toMaster[1])  BY <2>1, ListPlaces
  <2>4. pc' # "send"  BY DEF EOEHook, TypeOK, ChannelOK
  <2> QED  BY <2>2, <2>3, <2>4 DEF TypeOK, ChannelOK, EOEHook, Slot
<1>2. CallOK'  BY DEF TypeOK, CallOK, FOECall, SOECall, Call, EOEHook
<1>3. FilesOK'  BY DEF TypeOK, FilesOK, foeslave
<1>4. PlaceOK'
  BY DEF TypeOK, PlaceOK, FOECall, Call, Asked, EOEHook
<1> QED  BY <1>1, <1>2, <1>3, <1>4 DEF TypeOK


LEMMA MailboxTypes ==
  ASSUME TypeOK, Mbxsend \/ Mbxreceive \/ Repeat, UNCHANGED foeslave, OthersOK'
  PROVE  TypeOK'
<1>0. CallOK' /\ FilesOK' /\ UNCHANGED <<call, n, calls, buf>> /\ return' # "send"
  BY DEF TypeOK, CallOK, FilesOK, foeslave, FOECall, SOECall, Call, Mbxsend, Mbxreceive, Repeat,
     ChannelOK
<1>1. CASE Mbxsend
  <2>1. /\ pc = "send" /\ pc' = return /\ UNCHANGED <<toMaster, got, old, return>>
        /\ \/ toSlave' = offered /\ offered' = <<>>
           \/ UNCHANGED toSlave /\ offered' = <<>>
    BY <1>1 DEF Mbxsend, Deliver, Offer
  <2>2. ChannelOK'  BY <1>0, <2>1 DEF TypeOK, ChannelOK, Slot
  <2>3. PlaceOK'  BY <1>0, <2>1 DEF TypeOK, PlaceOK, FOECall, Call, Asked
  <2> QED  BY <1>0, <2>2, <2>3 DEF TypeOK
<1>2. CASE Mbxreceive
  <2>0. /\ pc = "receive" /\ pc' = return /\ UNCHANGED return
        /\ IsList(toMaster) /\ \A i \in 1 .. Len(toMaster) : IsMessage(toMaster[i])
    BY <1>2 DEF Mbxreceive, TypeOK, ChannelOK
  <2>1. CASE wkc' > 0
    <3>1. PICK k \in 1 .. Len(toMaster) :
            /\ got' = <<toMaster[k]>> /\ old' = <<toMaster[k]>>
            /\ toMaster' = SubSeq(toMaster, k + 1, Len(toMaster))
            /\ UNCHANGED <<offered, toSlave, doubt>>
      BY <1>2, <2>1, Receives
    <3>2. k + 1 \in 1 .. Len(toMaster) + 1  BY <2>0, ListPlaces
    <3>3. IsList(toMaster') /\ \A i \in 1 .. Len(toMaster') : IsMessage(toMaster'[i])
      BY <2>0, <3>1, <3>2, MessagesLeft
    <3>4. ChannelOK'  BY <1>0, <2>0, <3>1, <3>3 DEF TypeOK, ChannelOK, Slot
    <3>5. PlaceOK'  BY <1>0, <2>0, <3>1 DEF TypeOK, PlaceOK, FOECall, Call, Asked
    <3> QED  BY <1>0, <3>4, <3>5 DEF TypeOK
  <2>2. CASE ~(wkc' > 0)
    <3>1. /\ offered' = offered /\ toSlave' = toSlave
          /\ got' = <<>> \/ (toMaster # <<>> /\ got' = <<toMaster[1]>>)
          /\ toMaster' = toMaster \/ (toMaster # <<>> /\ toMaster' = Tail(toMaster))
          /\ old' = <<>> \/ old' = old \/ (toMaster # <<>> /\ old' = <<toMaster[1]>>)
      BY <1>2, <2>2, ReceivesNothing
    <3>2. toMaster # <<>> => IsMessage(toMaster[1])  BY <2>0, ListPlaces
    <3>3. IsList(toMaster') /\ \A i \in 1 .. Len(toMaster') : IsMessage(toMaster'[i])
      BY <2>0, <3>1, ListTail, MessagesLeft
    <3>4. ChannelOK'  BY <1>0, <2>0, <3>1, <3>2, <3>3 DEF TypeOK, ChannelOK, Slot
    <3>5. PlaceOK'  BY <1>0, <2>0, <2>2 DEF TypeOK, PlaceOK, FOECall, Call, Asked
    <3> QED  BY <1>0, <3>4, <3>5 DEF TypeOK
  <2> QED  BY <2>1, <2>2
<1>3. CASE Repeat
  <2>0. /\ old # <<>> /\ toMaster' = old \o toMaster
        /\ UNCHANGED <<offered, toSlave, got, old, pc, return, wkc>>
    BY <1>3 DEF Repeat, Again
  <2>1. IsList(toMaster) /\ \A i \in 1 .. Len(toMaster) : IsMessage(toMaster[i])
    BY DEF TypeOK, ChannelOK
  <2>2. PICK m : old = <<m>> /\ IsMessage(m)  BY <2>0 DEF TypeOK, ChannelOK, Slot
  <2>3. IsList(old) /\ \A i \in 1 .. Len(old) : IsMessage(old[i])  BY <2>2, ListOfOne
  <2>4. IsList(toMaster') /\ \A i \in 1 .. Len(toMaster') : IsMessage(toMaster'[i])
    BY <2>0, <2>1, <2>3, JoinedMessages
  <2>5. ChannelOK'  BY <1>0, <2>0, <2>4 DEF TypeOK, ChannelOK, Slot
  <2>6. PlaceOK'  BY <1>0, <2>0 DEF TypeOK, PlaceOK, FOECall, Call, Asked
  <2> QED  BY <1>0, <2>5, <2>6 DEF TypeOK
<1> QED  BY <1>1, <1>2, <1>3

-----------------------------------------------------------------------------
(***************************************************************************)
(* Packets.                                                                *)
(***************************************************************************)
\* Packet k + 1 is what follows the k full ones: with a full packet k + 1 of them are
\* there, with a shorter one the file is whole.
LEMMA PacketJoins ==
  ASSUME NEW S, NEW data \in Seq(S), NEW k \in Nat
  PROVE  /\ k * maxdata \in Nat /\ (k + 1) * maxdata = k * maxdata + maxdata
         /\ Packet(data, k + 1) \in Seq(S)
         /\ k * maxdata <= Len(data) =>
              LET some == SubSeq(data, 1, k * maxdata) IN
              IF Len(Packet(data, k + 1)) = maxdata
                THEN /\ (k + 1) * maxdata <= Len(data)
                     /\ some \o Packet(data, k + 1) = SubSeq(data, 1, (k + 1) * maxdata)
                ELSE /\ (k + 1) * maxdata > Len(data)
                     /\ some \o Packet(data, k + 1) = data
<1> DEFINE a == k * maxdata
           b == SmallerOf(a + maxdata, Len(data))
           some == SubSeq(data, 1, a)
           p == Packet(data, k + 1)
<1>1. Len(data) \in Nat /\ maxdata \in Nat /\ maxdata > 0  BY FOEAssumption
<1>2. a \in Nat /\ (k + 1) * maxdata = a + maxdata /\ ((k + 1) - 1) * maxdata = a  BY <1>1
<1> HIDE DEF a
<1>3. p = SubSeq(data, a + 1, b)
  <2>1. p = SubSeq(data, ((k + 1) - 1) * maxdata + 1, SmallerOf((k + 1) * maxdata, Len(data)))
    BY DEF Packet
  <2> QED  BY <1>2, <2>1
<1>4. b \in Nat /\ b <= Len(data)  BY <1>1, <1>2 DEF SmallerOf
<1>5. \A i \in a + 1 .. b : data[i] \in S  BY <1>1, <1>2, <1>4
<1> HIDE DEF p, b
<1>6. p \in Seq(S) /\ Len(p) = IF a + 1 <= b THEN b - a ELSE 0
  <2>1. a + 1 \in Int /\ b \in Int  BY <1>2, <1>4
  <2>2. /\ SubSeq(data, a + 1, b) \in Seq(S)
        /\ Len(SubSeq(data, a + 1, b)) = IF a + 1 <= b THEN b - (a + 1) + 1 ELSE 0
    BY <1>5, <2>1, SubSeqProperties
  <2> QED  BY <1>2, <1>3, <1>4, <2>2
<1>7. ASSUME a <= Len(data)
      PROVE  IF Len(p) = maxdata
               THEN a + maxdata <= Len(data) /\ some \o p = SubSeq(data, 1, a + maxdata)
               ELSE a + maxdata > Len(data) /\ some \o p = data
  <2>1. some \o p = SubSeq(data, 1, b)
    <3>1. a <= b  BY <1>1, <1>2, <1>7 DEF SmallerOf, b
    <3>2. 1 \in 1 .. a + 1 /\ a \in 1 - 1 .. b /\ b \in a .. Len(data)  BY <1>1, <1>2, <1>4, <3>1
    <3> QED  BY <1>2, <1>3, <1>4, <3>1, ConcatAdjacentSubSeq
  <2>2. CASE a + maxdata <= Len(data)
    <3>1. b = a + maxdata  BY <1>1, <1>2, <2>2 DEF SmallerOf, b
    <3>2. Len(p) = maxdata  BY <1>1, <1>2, <1>6, <3>1
    <3> QED  BY <2>1, <2>2, <3>1, <3>2
  <2>3. CASE a + maxdata > Len(data)
    <3>1. b = Len(data)  BY <1>1, <1>2, <2>3 DEF SmallerOf, b
    <3>2. Len(p) # maxdata  BY <1>1, <1>2, <1>6, <1>7, <2>3, <3>1
    <3>3. SubSeq(data, 1, Len(data)) = data  BY SubSeqFull
    <3> QED  BY <2>1, <2>3, <3>1, <3>2, <3>3
  <2> QED  BY <1>1, <1>2, <2>2, <2>3
<1> HIDE DEF some
<1> QED  BY <1>2, <1>6, <1>7 DEF a, some, p

\* What a call writes.
LEMMA WrittenType ==
  ASSUME NEW c \in Nat, NEW f \in Files, NEW size \in Nat
  PROVE  Written(c, f, size) \in Seq(Octet) /\ Len(Written(c, f, size)) = size
<1>1. Written(c, f, size) \in [1 .. size -> Octet]  BY DEF Written, Octet
<1> QED  BY <1>1, IsASeq


LEMMA MessageType ==
  ASSUME NEW op \in {"data", "ack", "error", "busy"}, NEW number \in Nat, NEW data \in Seq(Octet)
  PROVE  IsTransfer(FOEMessage(op, number, "none", data))
BY DEF IsTransfer, FOEMessage, FOEMessages

LEMMA RequestType ==
  ASSUME NEW op \in {"read", "write"}, NEW name \in Files
  PROVE  IsTransfer(FOEMessage(op, 0, name, <<>>))
BY DEF IsTransfer, FOEMessage, FOEMessages

\* The message of FoE that the slave takes.
LEMMA TransferArrived ==
  ASSUME TypeOK, ServeFOE
  PROVE  /\ toSlave # <<>> /\ toSlave[1].proto = "FoE" /\ IsTransfer(toSlave[1])
         /\ toSlave[1].op \in {"read", "write", "data", "ack", "error", "busy"}
         /\ toSlave[1].number \in Nat /\ toSlave[1].data \in Seq(Octet)
         /\ toSlave[1].op \in {"read", "write"} => toSlave[1].name \in Files
<1>1. toSlave # <<>> /\ toSlave[1].proto = "FoE"  BY DEF ServeFOE, Arrived
<1>2. IsMessage(toSlave[1])  BY <1>1 DEF TypeOK, ChannelOK, Slot
<1>3. IsTransfer(toSlave[1])  BY <1>1, <1>2, Kinds
<1> QED  BY <1>1, <1>3 DEF IsTransfer, FOEMessages

LEMMA ServeTypes ==
  ASSUME TypeOK, ServeFOE, OthersOK'
  PROVE  TypeOK'
<1> DEFINE m == toSlave[1]
<1>0. /\ toSlave # <<>> /\ m.number \in Nat /\ m.data \in Seq(Octet)
      /\ m.op \in {"read", "write"} => m.name \in Files
  BY TransferArrived
<1>1. FilesOK  BY DEF TypeOK
<1> HIDE DEF m
<1>2. ASSUME \/ Answer(<<>>)
             \/ \E op \in {"data", "ack", "error", "busy"}, number \in Nat, data \in Seq(Octet) :
                  FOEAnswer(op, number, data)
      PROVE  ChannelOK' /\ CallOK' /\ PlaceOK'
  <2>1. PICK ms : Answer(ms) /\ IsList(ms) /\ \A i \in 1 .. Len(ms) : IsMessage(ms[i])
    <3>1. CASE Answer(<<>>)
      <4>1. IsList(<<>>) /\ \A i \in 1 .. Len(<<>>) : IsMessage(<<>>[i])  BY ListEmpty
      <4> QED  BY <3>1, <4>1
    <3>2. ASSUME NEW op \in {"data", "ack", "error", "busy"}, NEW number \in Nat,
                 NEW data \in Seq(Octet), FOEAnswer(op, number, data)
          PROVE  \E ms : Answer(ms) /\ IsList(ms) /\ \A i \in 1 .. Len(ms) : IsMessage(ms[i])
      <4> DEFINE a == FOEMessage(op, number, "none", data)
      <4>1. IsMessage(a)  BY MessageType DEF IsMessage
      <4>2. Answer(<<a>>)  BY <3>2 DEF FOEAnswer
      <4> HIDE DEF a
      <4>3. IsList(<<a>>) /\ \A i \in 1 .. Len(<<a>>) : IsMessage(<<a>>[i])  BY <4>1, ListOfOne
      <4> QED  BY <4>2, <4>3
    <3> QED  BY <1>2, <3>1, <3>2
  <2>2. IsList(toMaster) /\ \A i \in 1 .. Len(toMaster) : IsMessage(toMaster[i])
    BY DEF TypeOK, ChannelOK
  <2>3. IsList(toMaster') /\ \A i \in 1 .. Len(toMaster') : IsMessage(toMaster'[i])
    BY <2>1, <2>2, JoinedMessages DEF Answer
  <2>4. ChannelOK'  BY <2>1, <2>3 DEF TypeOK, ChannelOK, Answer, Slot, client
  <2>5. CallOK'  BY <2>1 DEF TypeOK, CallOK, FOECall, SOECall, Call, Answer, client
  <2>6. PlaceOK'  BY <2>1 DEF TypeOK, PlaceOK, FOECall, Call, Asked, Answer, client
  <2> QED  BY <2>4, <2>5, <2>6
<1>e. <<>> \in Seq(Octet) /\ 0 \in Nat  OBVIOUS
<1>3. CASE ServeRead(m)
  <2> DEFINE data == files[m.name]
  <2>1. data \in Seq(Octet) /\ m.name \in Files  BY <1>0, <1>1, <1>3 DEF ServeRead, FilesOK
  <2>2. Packet(data, 1) \in Seq(Octet)
    <3>1. Packet(data, 0 + 1) \in Seq(Octet)  BY <2>1, PacketJoins
    <3> QED  BY <3>1
  <2>3. FOEAnswer("data", 1, Packet(data, 1))  BY <1>3 DEF ServeRead
  <2>4. ChannelOK' /\ CallOK' /\ PlaceOK'  BY <1>2, <2>2, <2>3
  <2>5. FilesOK'  BY <1>1, <1>3, <2>1 DEF ServeRead, FilesOK
  <2> QED  BY <2>4, <2>5 DEF TypeOK
<1>4. CASE ServeAck(m)
  <2>1. foe.data \in Seq(Octet) /\ foe.packet \in Nat  BY <1>1 DEF FilesOK
  <2>2. Packet(foe.data, foe.packet + 1) \in Seq(Octet)  BY <2>1, PacketJoins
  <2>3. ChannelOK' /\ CallOK' /\ PlaceOK'
    <3>1. Answer(<<>>) \/ FOEAnswer("data", foe.packet + 1, Packet(foe.data, foe.packet + 1))
      BY <1>4 DEF ServeAck
    <3> QED  BY <1>2, <2>1, <2>2, <3>1
  <2>4. FilesOK'
    <3>1. CASE foe' = [foe EXCEPT !.packet = foe.packet + 1] /\ UNCHANGED files
      <4>1. foe' \in [dir : {"none", "up", "down"}, name : Files \cup {"none"},
                      data : Seq(Octet), packet : Nat]
        <5>1. PICK k \in Nat : k = foe.packet + 1  BY <2>1
        <5>2. foe' = [foe EXCEPT !.packet = k]  BY <3>1, <5>1
        <5> QED  BY <1>1, <5>2 DEF FilesOK
      <4>2. foe'.dir = foe.dir /\ foe'.name = foe.name  BY <1>1, <3>1 DEF FilesOK
      <4> QED  BY <1>1, <3>1, <4>1, <4>2 DEF FilesOK
    <3>2. CASE foe' = NoTransfer /\ UNCHANGED files
      BY <1>1, <1>e, <3>2 DEF FilesOK, NoTransfer
    <3> QED  BY <1>4, <3>1, <3>2 DEF ServeAck
  <2> QED  BY <2>3, <2>4 DEF TypeOK
<1>5. CASE ServeWrite(m)
  <2>1. ChannelOK' /\ CallOK' /\ PlaceOK'  BY <1>2, <1>5, <1>e DEF ServeWrite
  <2>2. FilesOK'  BY <1>0, <1>1, <1>5 DEF ServeWrite, FilesOK
  <2> QED  BY <2>1, <2>2 DEF TypeOK
<1>6. CASE ServeData(m)
  <2> DEFINE data == foe.data \o m.data
  <2>1. data \in Seq(Octet)  BY <1>0, <1>1 DEF FilesOK
  <2>2. ChannelOK' /\ CallOK' /\ PlaceOK'  BY <1>0, <1>2, <1>6, <1>e DEF ServeData
  <2> HIDE DEF data
  <2>3. FilesOK'
    <3>1. foe.name \in Files  BY <1>1, <1>6 DEF ServeData, FilesOK
    <3>2. \/ foe' = [foe EXCEPT !.packet = m.number, !.data = data] /\ UNCHANGED files
          \/ foe' = NoTransfer /\ files' = [files EXCEPT ![foe.name] = data]
      BY <1>6 DEF ServeData, data
    <3>3. CASE foe' = [foe EXCEPT !.packet = m.number, !.data = data] /\ UNCHANGED files
      <4>1. foe' \in [dir : {"none", "up", "down"}, name : Files \cup {"none"},
                      data : Seq(Octet), packet : Nat]
        BY <1>0, <1>1, <2>1, <3>3 DEF FilesOK
      <4>2. foe'.dir = foe.dir /\ foe'.name = foe.name  BY <1>1, <3>3 DEF FilesOK
      <4> QED  BY <1>1, <3>3, <4>1, <4>2 DEF FilesOK
    <3>4. CASE foe' = NoTransfer /\ files' = [files EXCEPT ![foe.name] = data]
      BY <1>1, <1>e, <2>1, <3>1, <3>4 DEF FilesOK, NoTransfer
    <3> QED  BY <3>2, <3>3, <3>4
  <2> QED  BY <2>2, <2>3 DEF TypeOK
<1>7. CASE TooBusy(m)
  <2>1. ChannelOK' /\ CallOK' /\ PlaceOK'  BY <1>2, <1>7, <1>e DEF TooBusy
  <2>2. FilesOK'  BY <1>1, <1>7 DEF TooBusy, FilesOK
  <2> QED  BY <2>1, <2>2 DEF TypeOK
<1>8. CASE FOERefuse
  <2>1. ChannelOK' /\ CallOK' /\ PlaceOK'  BY <1>2, <1>8, <1>e DEF FOERefuse
  <2>2. FilesOK'  BY <1>1, <1>8 DEF FOERefuse, FilesOK, NoTransfer
  <2> QED  BY <2>1, <2>2 DEF TypeOK
<1> QED  BY <1>3, <1>4, <1>5, <1>6, <1>7, <1>8 DEF ServeFOE, m

\* A message of FoE that a call was given.
LEMMA GotTransfer ==
  ASSUME TypeOK, FOECall, pc = "answer", wkc > 0, got[1].proto = "FoE"
  PROVE  /\ IsTransfer(got[1]) /\ got[1].number \in Nat /\ got[1].data \in Seq(Octet)
         /\ got = old /\ got = <<got[1]>>
<1>1. got # <<>> /\ got = old  BY DEF TypeOK, PlaceOK
<1>2. IsMessage(got[1]) /\ got = <<got[1]>>  BY <1>1 DEF TypeOK, ChannelOK, Slot
<1>3. IsTransfer(got[1])  BY <1>2, Kinds
<1> QED  BY <1>1, <1>2, <1>3 DEF IsTransfer, FOEMessages

\* What a step of a transfer does to the channel.
LEMMA TransferSteps ==
  ASSUME TypeOK, FOE
  PROVE  /\ UNCHANGED <<files, foe, toSlave, toMaster, old, doubt>>
         /\ return' # "send"
         /\ \/ pc' # "send" /\ UNCHANGED offered /\ got' = <<>>
            \/ pc' = "send" /\ UNCHANGED got /\ \E m : IsTransfer(m) /\ offered' = <<m>>
<1>0. UNCHANGED <<files, foe>>  BY DEF FOE, foeslave
<1>1. \A r : Return(r) => /\ UNCHANGED <<toSlave, toMaster, old, doubt, offered>>
                          /\ return' # "send" /\ pc' # "send" /\ got' = <<>>
  BY DEF Return
<1>2. CallMbxreceive(1, "answer") =>
        /\ UNCHANGED <<toSlave, toMaster, old, doubt, offered>>
        /\ return' # "send" /\ pc' # "send" /\ got' = <<>>
  BY DEF CallMbxreceive
<1>3. ASSUME NEW m, NEW p, CallMbxsend(m, p), IsTransfer(m), p # "send"
      PROVE  /\ UNCHANGED <<toSlave, toMaster, old, doubt, got>>
             /\ return' # "send" /\ pc' = "send" /\ offered' = <<m>>
  BY <1>3 DEF CallMbxsend
<1>4. CASE CallFOEread \/ CallFOEwrite
  <2>1. PICK c : Begin(c, TRUE)  BY <1>4 DEF CallFOEread, CallFOEwrite
  <2> QED  BY <1>0, <2>1, Begins DEF NewCall
<1>5. CASE ReadRequest
  <2> DEFINE m == FOEMessage("read", 0, call.name, <<>>)
  <2>1. Call("FOEread") /\ CallMbxsend(m, "sent")  BY <1>5 DEF ReadRequest, SendRequest
  <2>2. IsTransfer(m)  BY <2>1, RequestType DEF TypeOK, CallOK, FOECall
  <2> HIDE DEF m
  <2> QED  BY <1>0, <1>3, <2>1, <2>2
<1>6. CASE WriteRequest
  <2> DEFINE m == FOEMessage("write", 0, call.name, <<>>)
  <2>1. Call("FOEwrite") /\ CallMbxsend(m, "sent")  BY <1>6 DEF WriteRequest, SendRequest
  <2>2. IsTransfer(m)  BY <2>1, RequestType DEF TypeOK, CallOK, FOECall
  <2> HIDE DEF m
  <2> QED  BY <1>0, <1>3, <2>1, <2>2
<1>7. CASE FOESent \/ FOEReadSent
  BY <1>0, <1>1, <1>2, <1>7 DEF FOESent, FOEReadSent
<1>8. CASE FOEReadAnswer
  <2>1. CASE \E r : Return(r)  BY <1>0, <1>1, <2>1
  <2>2. CASE /\ wkc > 0 /\ Expected(got[1])
             /\ CallMbxsend(FOEMessage("ack", got[1].number, "none", <<>>),
                            IF Len(got[1].data) = maxdata THEN "sent" ELSE "last")
    <3> DEFINE m == FOEMessage("ack", got[1].number, "none", <<>>)
    <3>1. got[1].number \in Nat
      BY <1>8, <2>2, GotTransfer DEF FOEReadAnswer, Expected, IsFOEMessage, FOECall
    <3>e. <<>> \in Seq(Octet)  OBVIOUS
    <3>2. IsTransfer(m)  BY <3>1, <3>e, MessageType
    <3> HIDE DEF m
    <3>3. CallMbxsend(m, IF Len(got[1].data) = maxdata THEN "sent" ELSE "last")  BY <2>2 DEF m
    <3> QED  BY <1>0, <1>3, <3>2, <3>3
  <2> QED  BY <1>8, <2>1, <2>2 DEF FOEReadAnswer
<1>9. CASE FOEWriteAnswer
  <2>1. CASE \E r : Return(r)  BY <1>0, <1>1, <2>1
  <2>2. CASE CallMbxsend(FOEMessage("data", n + 1, "none",
                           Packet(Written(calls, call.name, call.size), n + 1)), "sent")
    <3> DEFINE m == FOEMessage("data", n + 1, "none",
                      Packet(Written(calls, call.name, call.size), n + 1))
    <3>1. call.name \in Files /\ call.size \in Nat /\ calls \in Nat /\ n \in Nat
      BY <1>9 DEF FOEWriteAnswer, TypeOK, CallOK, FOECall
    <3>2. Packet(Written(calls, call.name, call.size), n + 1) \in Seq(Octet)
      BY <3>1, WrittenType, PacketJoins
    <3>3. IsTransfer(m)  BY <3>1, <3>2, MessageType
    <3> HIDE DEF m
    <3>4. CallMbxsend(m, "sent")  BY <2>2 DEF m
    <3> QED  BY <1>0, <1>3, <3>3, <3>4
  <2> QED  BY <1>9, <2>1, <2>2 DEF FOEWriteAnswer
<1> QED  BY <1>4, <1>5, <1>6, <1>7, <1>8, <1>9 DEF FOE

LEMMA TransferTypes ==
  ASSUME TypeOK, FOE, OthersOK'
  PROVE  TypeOK'
<1>1. /\ UNCHANGED <<files, foe, toSlave, toMaster, old, doubt>> /\ return' # "send"
      /\ \/ pc' # "send" /\ UNCHANGED offered /\ got' = <<>>
         \/ pc' = "send" /\ UNCHANGED got /\ \E m : IsTransfer(m) /\ offered' = <<m>>
  BY TransferSteps
<1>2. ChannelOK'
  <2>1. Slot(offered')
    <3>1. CASE UNCHANGED offered  BY <3>1 DEF TypeOK, ChannelOK
    <3>2. CASE \E m : IsTransfer(m) /\ offered' = <<m>>  BY <3>2 DEF Slot, IsMessage
    <3> QED  BY <1>1, <3>1, <3>2
  <2>2. pc' = "send" => offered' # <<>>  BY <1>1
  <2> QED  BY <1>1, <2>1, <2>2 DEF TypeOK, ChannelOK, Slot
<1>3. FilesOK'  BY <1>1 DEF TypeOK, FilesOK
<1>4. CallOK' /\ PlaceOK'
  <2>1. CASE CallFOEread \/ CallFOEwrite
    <3>1. PICK c : /\ Begin(c, TRUE) /\ c.fn \in {"FOEread", "FOEwrite"}
                   /\ c.name \in Files /\ c.size \in Nat
      <4>1. ASSUME NEW f \in Files, NEW z \in Buffers,
                   Begin([fn |-> "FOEread", name |-> f, size |-> z], TRUE)
            PROVE  \E c : /\ Begin(c, TRUE) /\ c.fn \in {"FOEread", "FOEwrite"}
                          /\ c.name \in Files /\ c.size \in Nat
        <5> DEFINE c == [fn |-> "FOEread", name |-> f, size |-> z]
        <5>1. c.fn = "FOEread" /\ c.name = f /\ c.size = z  OBVIOUS
        <5>2. z \in Nat  BY FOEAssumption
        <5>3. Begin(c, TRUE)  BY <4>1
        <5> HIDE DEF c
        <5> QED  BY <5>1, <5>2, <5>3
      <4>2. ASSUME NEW f \in Files, NEW z \in Sizes,
                   Begin([fn |-> "FOEwrite", name |-> f, size |-> z], TRUE)
            PROVE  \E c : /\ Begin(c, TRUE) /\ c.fn \in {"FOEread", "FOEwrite"}
                          /\ c.name \in Files /\ c.size \in Nat
        <5> DEFINE c == [fn |-> "FOEwrite", name |-> f, size |-> z]
        <5>1. c.fn = "FOEwrite" /\ c.name = f /\ c.size = z  OBVIOUS
        <5>2. z \in Nat  BY FOEAssumption
        <5>3. Begin(c, TRUE)  BY <4>2
        <5> HIDE DEF c
        <5> QED  BY <5>1, <5>2, <5>3
      <4> QED  BY <2>1, <4>1, <4>2 DEF CallFOEread, CallFOEwrite
    <3>2. /\ call' = c /\ n' = 0 /\ buf' = <<>> /\ calls' = calls + 1 /\ got' = <<>>
          /\ pc' = "receive" /\ return' = "start"
      BY <3>1, Begins DEF NewCall
    <3> QED
      BY <3>1, <3>2 DEF TypeOK, CallOK, PlaceOK, FOECall, SOECall, Call, Asked
  <2>2. CASE ReadRequest \/ WriteRequest
    <3>1. /\ UNCHANGED <<call, calls, n, buf>> /\ pc' = "send" /\ return' = "sent"
      BY <2>2 DEF ReadRequest, WriteRequest, SendRequest, CallMbxsend
    <3> QED
      BY <3>1 DEF TypeOK, CallOK, PlaceOK, FOECall, SOECall, Call, Asked
  <2>3. CASE FOESent \/ FOEReadSent
    <3>1. /\ UNCHANGED <<call, calls, n, buf>>
          /\ pc' = "idle" \/ (pc' = "receive" /\ return' = "answer")
      BY <2>3 DEF FOESent, FOEReadSent, CallMbxreceive, Return, Same
    <3> QED
      BY <3>1 DEF TypeOK, CallOK, PlaceOK, FOECall, SOECall, Call, Asked
  <2>4. CASE FOEReadAnswer
    <3>1. /\ UNCHANGED <<call, calls>> /\ n' \in {n, n + 1} /\ Call("FOEread")
          /\ pc' = "idle" \/ (pc' = "send" /\ return' \in {"sent", "last"})
      BY <2>4 DEF FOEReadAnswer, CallMbxsend, Return, Same
    <3> QED
      BY <3>1 DEF TypeOK, CallOK, PlaceOK, FOECall, SOECall, Call, Asked
  <2>5. CASE FOEWriteAnswer
    <3>1. /\ UNCHANGED <<call, calls>> /\ n' \in {n, n + 1} /\ Call("FOEwrite")
          /\ pc' = "idle" \/ (pc' = "send" /\ return' = "sent")
      BY <2>5 DEF FOEWriteAnswer, CallMbxsend, Return, Same
    <3> QED
      BY <3>1 DEF TypeOK, CallOK, PlaceOK, FOECall, SOECall, Call, Asked
  <2> QED  BY <2>1, <2>2, <2>3, <2>4, <2>5 DEF FOE
<1> QED  BY <1>2, <1>3, <1>4 DEF TypeOK


LEMMA TypesKept == TypeOK /\ [Next]_vars => TypeOK'
<1> SUFFICES ASSUME TypeOK, [Next]_vars  PROVE TypeOK'
  OBVIOUS
<1>1. CASE UNCHANGED vars
  BY <1>1 DEF vars, channel, client, services, foeslave, eoeslave, soeslave, TypeOK, ChannelOK,
     Slot, CallOK, FilesOK, OthersOK, PlaceOK, Asked, FOECall, SOECall, Call
<1> QED
  BY <1>1, Steps, SpeakTypes, OtherTypes, HookTypes, MailboxTypes, ServeTypes, TransferTypes

-----------------------------------------------------------------------------
(***************************************************************************)
(* The invariant.  From its request on, and until a mailbox function fails *)
(* it, a call knows what may be under way.                                 *)
(***************************************************************************)
Alive ==
  \/ pc = "send"
  \/ pc = "receive" /\ return = "answer"
  \/ pc \in {"sent", "answer", "last"} /\ wkc > 0

\* What may still reach the slave, and the call.
Going ==
  (IF pc = "send" THEN {offered[1]} ELSE {}) \cup (IF toSlave # <<>> THEN {toSlave[1]} ELSE {})
Fetched == IF old # <<>> /\ (doubt \/ pc = "answer") THEN {old[1]} ELSE {}
Coming == Elems(toMaster) \cup Fetched

IsData(m) == IsFOEMessage(m, "data")
IsAck(m) == IsFOEMessage(m, "ack")

\* A read: the slave sends packet n + 1 of the file next, or has sent it.
CleanRead ==
  Call("FOEread") /\ Asked /\ {<<"FoE", "data", 1>>, <<"FoE", "request", 0>>} \cap stale = {}

File == files[call.name]

ReadGoing ==
  \A m \in Going : m.proto = "FoE" =>
    \/ m.op = "read" /\ m.name = call.name
    \/ m.op = "ack" /\ 1 <= m.number /\ m.number <= n

ReadServed ==
  n >= 1 \/ (\E m \in Coming : IsData(m) /\ m.number = 1) => (foe.dir = "up" => foe.data = File)

ReadComing ==
  \A m \in Coming : IsData(m) =>
    /\ m.number = n + 1 => m.data = Packet(File, n + 1)
    /\ n >= 1 => m.number <= n + 1

\* Packets of an earlier read come before the first one of this.
ReadOrder ==
  n = 0 =>
    /\ \A i, j \in 1 .. Len(toMaster) :
         i < j /\ IsData(toMaster[i]) /\ toMaster[i].number = 1 /\ IsData(toMaster[j]) =>
           toMaster[j].number = 1
    /\ \A m \in Fetched, i \in 1 .. Len(toMaster) :
         IsData(m) /\ m.number = 1 /\ IsData(toMaster[i]) => toMaster[i].number = 1

ReadBuffer ==
  IF pc = "last" \/ (pc = "send" /\ return = "last")
    THEN buf = File
    ELSE n * maxdata <= Len(File) /\ buf = SubSeq(File, 1, n * maxdata)

ReadOK ==
  CleanRead =>
    /\ ReadGoing
    /\ Alive => ReadServed /\ ReadComing /\ ReadOrder /\ ReadBuffer
    /\ pc = "idle" /\ result > 0 => buf = File

\* A write: the slave has the first k packets, or the file if they are all.
CleanWrite ==
  /\ Call("FOEwrite") /\ Asked /\ call.size > 0
  /\ \A s \in stale : s[1] = "FoE" => s[2] \notin {"ack", "request"}

Content == Written(calls, call.name, call.size)

Has(k) ==
  IF k * maxdata <= call.size
    THEN foe = [dir |-> "down", name |-> call.name, data |-> SubSeq(Content, 1, k * maxdata),
                packet |-> k]
    ELSE File = Content

WriteGoing ==
  \A m \in Going : m.proto = "FoE" =>
    \/ n = 0 /\ m.op = "write" /\ m.name = call.name
    \/ /\ n >= 1 /\ m.op = "data" /\ m.number = n /\ m.data = Packet(Content, n)
       /\ (n - 1) * maxdata <= call.size /\ Has(n - 1)

WriteAlone == pc = "send" /\ toSlave # <<>> => toSlave[1].proto # "FoE"

WriteComing ==
  \A m \in Coming : IsAck(m) =>
    /\ m.number <= n
    /\ m.number = n => Has(n) /\ \A g \in Going : g.proto # "FoE"

WriteOK ==
  CleanWrite =>
    /\ Alive => WriteGoing /\ WriteAlone /\ WriteComing
    /\ pc = "idle" /\ result > 0 /\ ~slipped =>
         File = Content /\ \A g \in Going : g.proto # "FoE"


-----------------------------------------------------------------------------
(***************************************************************************)
(* Steps of the channel and of other protocols add nothing to what a       *)
(* transfer sends and gets.                                                *)
(***************************************************************************)
Ends == pc = "last" \/ (pc = "send" /\ return = "last")

Passes ==
  /\ UNCHANGED <<call, calls, n, buf, stale, slipped, result, files, foe>>
  /\ pc' = "idle" => pc = "idle"
  /\ Asked' => Asked
  /\ \A g \in Going' : g.proto = "FoE" => g \in Going
  /\ WriteAlone => WriteAlone'
  /\ Alive' =>
       /\ Alive /\ (Ends' <=> Ends)
       /\ \A m \in Coming' : m.proto = "FoE" => m \in Coming
       /\ ReadOrder => ReadOrder'

\* The slave's other messages.
LEMMA SpeakPasses ==
  ASSUME TypeOK, NEW ms, Speaks(ms), UNCHANGED foeslave
  PROVE  Passes
<1>0. /\ IsList(toMaster) /\ IsList(ms) /\ \A i \in 1 .. Len(ms) : Foreign(ms[i])
      /\ toMaster' = toMaster \o ms
      /\ UNCHANGED <<offered, got, old, doubt, pc, return, wkc, n>>
  BY DEF TypeOK, ChannelOK, Speaks, client
<1>1. /\ Len(toMaster) \in Nat /\ Len(ms) \in Nat /\ Len(toMaster') = Len(toMaster) + Len(ms)
      /\ \A i \in 1 .. Len(toMaster) : toMaster'[i] = toMaster[i]
      /\ \A i \in Len(toMaster) + 1 .. Len(toMaster') : toMaster'[i] = ms[i - Len(toMaster)]
  BY <1>0, ListJoined, ListPlaces
<1>2. ASSUME NEW i \in 1 .. Len(toMaster'), toMaster'[i].proto = "FoE"
      PROVE  i \in 1 .. Len(toMaster) /\ toMaster'[i] = toMaster[i]
  <2>1. CASE i \in 1 .. Len(toMaster)  BY <1>1, <2>1
  <2>2. CASE i \in Len(toMaster) + 1 .. Len(toMaster')
    <3>1. i - Len(toMaster) \in 1 .. Len(ms)  BY <1>1, <2>2
    <3>2. Foreign(toMaster'[i])  BY <1>0, <1>1, <2>2, <3>1
    <3> QED  BY <1>2, <3>2, Kinds
  <2> QED  BY <1>1, <2>1, <2>2
<1>3. \A g \in Going' : g \in Going
  BY <1>0 DEF Going, Speaks
<1>4. Fetched' = Fetched  BY <1>0 DEF Fetched
<1>5. \A m \in Coming' : m.proto = "FoE" => m \in Coming
  BY <1>2, <1>4 DEF Coming, Elems
<1>6. ReadOrder => ReadOrder'
  <2>1. \A i \in 1 .. Len(toMaster') : IsData(toMaster'[i]) =>
          i \in 1 .. Len(toMaster) /\ toMaster'[i] = toMaster[i]
    BY <1>2 DEF IsData, IsFOEMessage
  <2> SUFFICES ASSUME ReadOrder, n = 0  PROVE ReadOrder'
    BY <1>0 DEF ReadOrder
  <2>2. ASSUME NEW i \in 1 .. Len(toMaster'), NEW j \in 1 .. Len(toMaster'), i < j,
               IsData(toMaster'[i]), toMaster'[i].number = 1, IsData(toMaster'[j])
        PROVE  toMaster'[j].number = 1
    BY <2>1, <2>2 DEF ReadOrder
  <2>3. ASSUME NEW m \in Fetched, NEW i \in 1 .. Len(toMaster'),
               IsData(m), m.number = 1, IsData(toMaster'[i])
        PROVE  toMaster'[i].number = 1
    BY <2>1, <2>3 DEF ReadOrder
  <2> QED  BY <1>0, <1>4, <2>2, <2>3 DEF ReadOrder, IsData, IsFOEMessage
<1>7. /\ UNCHANGED <<call, calls, n, buf, stale, slipped, result, files, foe>>
      /\ (Asked' <=> Asked) /\ (Alive' <=> Alive) /\ (Ends' <=> Ends)
  BY DEF Speaks, client, foeslave, Asked, Alive, Ends
<1>8. WriteAlone => WriteAlone'
  BY <1>0 DEF WriteAlone, Speaks
<1> QED  BY <1>0, <1>3, <1>5, <1>6, <1>7, <1>8 DEF Passes

\* What is left of the messages from some place on, the one before it being fetched.
LEMMA OrderLeft ==
  ASSUME TypeOK, ReadOrder, UNCHANGED n,
         NEW k \in 1 .. Len(toMaster) + 1, toMaster' = SubSeq(toMaster, k, Len(toMaster)),
         \A m \in Fetched' : m.proto = "FoE" =>
           \E i \in 1 .. Len(toMaster) : i < k /\ m = toMaster[i]
  PROVE  ReadOrder'
<1>0. /\ IsList(toMaster) /\ Len(toMaster) \in Nat
  BY ListPlaces DEF TypeOK, ChannelOK
<1>1. /\ Len(toMaster') = Len(toMaster) + 1 - k
      /\ \A i \in 1 .. Len(toMaster') :
           toMaster'[i] = toMaster[k + i - 1] /\ k + i - 1 \in 1 .. Len(toMaster)
  BY <1>0, ListFrom
<1>2. \A m : IsData(m) => m.proto = "FoE"  BY DEF IsData, IsFOEMessage
<1> SUFFICES ASSUME n = 0  PROVE ReadOrder'
  BY DEF ReadOrder
<1>3. ASSUME NEW i \in 1 .. Len(toMaster'), NEW j \in 1 .. Len(toMaster'), i < j,
             IsData(toMaster'[i]), toMaster'[i].number = 1, IsData(toMaster'[j])
      PROVE  toMaster'[j].number = 1
  <2>1. /\ k + i - 1 \in 1 .. Len(toMaster) /\ k + j - 1 \in 1 .. Len(toMaster)
        /\ k + i - 1 < k + j - 1
    BY <1>0, <1>1, <1>3
  <2> QED  BY <1>1, <1>3, <2>1 DEF ReadOrder
<1>4. ASSUME NEW m \in Fetched', NEW i \in 1 .. Len(toMaster'),
             IsData(m), m.number = 1, IsData(toMaster'[i])
      PROVE  toMaster'[i].number = 1
  <2>1. PICK l \in 1 .. Len(toMaster) : l < k /\ m = toMaster[l]  BY <1>2, <1>4
  <2>2. k + i - 1 \in 1 .. Len(toMaster) /\ l < k + i - 1  BY <1>0, <1>1, <2>1
  <2> QED  BY <1>1, <1>4, <2>1, <2>2 DEF ReadOrder
<1> QED  BY <1>3, <1>4 DEF ReadOrder, IsData, IsFOEMessage

\* What is left of a list is of it.
LEMMA ElemsLeft ==
  ASSUME NEW s, IsList(s), NEW k \in 1 .. Len(s) + 1
  PROVE  Elems(SubSeq(s, k, Len(s))) \subseteq Elems(s)
<1> DEFINE t == SubSeq(s, k, Len(s))
<1>1. \A i \in 1 .. Len(t) : t[i] = s[k + i - 1] /\ k + i - 1 \in 1 .. Len(s)  BY ListFrom
<1> HIDE DEF t
<1>2. Elems(t) \subseteq Elems(s)  BY <1>1 DEF Elems
<1> QED  BY <1>2 DEF t

\* The hook takes frames only.
LEMMA HookPasses ==
  ASSUME TypeOK, FOECall, EOEHook, UNCHANGED foeslave
  PROVE  Passes
<1>0. /\ pc = "receive" /\ toMaster # <<>> /\ toMaster[1].proto = "EoE"
      /\ toMaster' = toMaster \/ toMaster' = Tail(toMaster)
      /\ old' = <<toMaster[1]>> /\ wkc' = 0
      /\ pc' = return \/ pc' = pc
      /\ UNCHANGED <<offered, toSlave, return, n>>
  BY DEF EOEHook, Hooked
<1>1. return \in {"start", "answer"}  BY <1>0 DEF TypeOK, PlaceOK
<1>2. IsList(toMaster) /\ Len(toMaster) \in Nat /\ Len(toMaster) >= 1
  BY <1>0, ListPlaces DEF TypeOK, ChannelOK
<1>3. \E k \in 1 .. Len(toMaster) + 1 : toMaster' = SubSeq(toMaster, k, Len(toMaster))
  <2>1. toMaster = SubSeq(toMaster, 1, Len(toMaster))  BY <1>2, SubSeqFull DEF IsList
  <2>2. Tail(toMaster) = SubSeq(toMaster, 2, Len(toMaster))  BY <1>0, <1>2, ListTail
  <2>3. 1 \in 1 .. Len(toMaster) + 1 /\ 2 \in 1 .. Len(toMaster) + 1  BY <1>2
  <2> QED  BY <1>0, <2>1, <2>2, <2>3
<1>4. \A m \in Fetched' : m.proto # "FoE"
  <2>1. old'[1] = toMaster[1]  BY <1>0
  <2>2. \A m \in Fetched' : m = old'[1]  BY DEF Fetched
  <2> QED  BY <1>0, <2>1, <2>2
<1>5. ReadOrder => ReadOrder'  BY <1>0, <1>3, <1>4, OrderLeft
<1>6. \A m \in Coming' : m.proto = "FoE" => m \in Coming
  BY <1>2, <1>3, <1>4, ElemsLeft DEF Coming
<1>7. \A g \in Going' : g \in Going  BY <1>0, <1>1 DEF Going
<1>8. UNCHANGED <<call, calls, n, buf, stale, slipped, result, files, foe>>
  BY DEF EOEHook, foeslave
<1>9. /\ pc' # "idle" /\ (Asked' => Asked) /\ (Alive' => Alive) /\ ~Ends /\ ~Ends' /\ WriteAlone'
  BY <1>0, <1>1 DEF Asked, Alive, Ends, WriteAlone
<1> QED  BY <1>5, <1>6, <1>7, <1>8, <1>9 DEF Passes

LEMMA MailboxPasses ==
  ASSUME TypeOK, FOECall, Mbxsend \/ Mbxreceive \/ Repeat, UNCHANGED foeslave
  PROVE  Passes
<1>0. UNCHANGED <<call, calls, n, buf, stale, slipped, result, files, foe, return>>
  BY DEF foeslave, Mbxsend, Mbxreceive, Repeat
<1>1. IsList(toMaster) /\ Len(toMaster) \in Nat  BY ListPlaces DEF TypeOK, ChannelOK
<1>2. CASE Mbxsend
  <2>1. /\ pc = "send" /\ pc' = return /\ return \in {"sent", "last"} /\ offered # <<>>
        /\ UNCHANGED <<toMaster, got, old, doubt>>
        /\ UNCHANGED toSlave \/ toSlave' = offered
    BY <1>2 DEF Mbxsend, Deliver, Offer, TypeOK, ChannelOK, PlaceOK
  <2>2. \A g \in Going' : g \in Going  BY <2>1 DEF Going
  <2>3. Fetched' \subseteq Fetched  BY <2>1 DEF Fetched
  <2>4. \A m \in Coming' : m \in Coming  BY <2>1, <2>3 DEF Coming
  <2>5. ReadOrder => ReadOrder'
    BY <1>0, <2>1, <2>3 DEF ReadOrder, IsData, IsFOEMessage
  <2>6. /\ pc' # "idle" /\ Asked /\ WriteAlone' /\ Alive /\ (Ends' <=> Ends)
    BY <1>0, <2>1 DEF Asked, Alive, Ends, WriteAlone
  <2> QED  BY <1>0, <2>2, <2>4, <2>5, <2>6 DEF Passes
<1>3. CASE Mbxreceive
  <2>1. /\ pc = "receive" /\ pc' = return /\ return \in {"start", "answer"}
    BY <1>3 DEF Mbxreceive, TypeOK, PlaceOK
  <2>2. pc' # "idle" /\ (Asked' => Asked) /\ WriteAlone' /\ ~Ends /\ ~Ends'
    BY <1>0, <2>1 DEF Asked, WriteAlone, Ends
  <2>3. UNCHANGED <<offered, toSlave>>
    <3>1. CASE wkc' > 0  BY <1>3, <3>1, Receives
    <3> QED  BY <1>3, <3>1, ReceivesNothing
  <2>4. \A g \in Going' : g \in Going  BY <2>1, <2>3 DEF Going
  <2>5. CASE ~Alive'  BY <1>0, <2>2, <2>4, <2>5 DEF Passes
  <2>6. CASE Alive'
    <3>1. pc' = "answer" /\ wkc' > 0 /\ Alive  BY <1>0, <2>1, <2>6 DEF Alive
    <3>2. PICK k \in 1 .. Len(toMaster) :
            /\ old' = <<toMaster[k]>>
            /\ toMaster' = SubSeq(toMaster, k + 1, Len(toMaster))
      BY <1>3, <3>1, Receives
    <3>3. k + 1 \in 1 .. Len(toMaster) + 1 /\ k < k + 1  BY <1>1
    <3>4. \A m \in Fetched' : m = toMaster[k]
      <4>1. old'[1] = toMaster[k]  BY <3>2
      <4>2. \A m \in Fetched' : m = old'[1]  BY DEF Fetched
      <4> QED  BY <4>1, <4>2
    <3>5. ReadOrder => ReadOrder'  BY <1>0, <3>2, <3>3, <3>4, OrderLeft
    <3>6. \A m \in Coming' : m \in Coming
      <4>1. Elems(toMaster') \subseteq Elems(toMaster)  BY <1>1, <3>2, <3>3, ElemsLeft
      <4>2. toMaster[k] \in Elems(toMaster)  BY DEF Elems
      <4> QED  BY <3>4, <4>1, <4>2 DEF Coming
    <3> QED  BY <1>0, <2>2, <2>4, <3>1, <3>5, <3>6 DEF Passes
  <2> QED  BY <2>5, <2>6
<1>4. CASE Repeat
  <2>1. /\ doubt /\ old # <<>> /\ toMaster' = old \o toMaster
        /\ UNCHANGED <<offered, toSlave, got, old, doubt, pc, wkc>>
    BY <1>4 DEF Repeat, Again
  <2>2. PICK o : old = <<o>>  BY <2>1 DEF TypeOK, ChannelOK, Slot
  <2>3. Fetched = {o} /\ Fetched' = {o}
    <3>1. old[1] = o  BY <2>2
    <3> QED  BY <2>1, <3>1 DEF Fetched
  <2>4. /\ Len(toMaster') = 1 + Len(toMaster) /\ toMaster'[1] = o
        /\ \A i \in 2 .. Len(toMaster') : toMaster'[i] = toMaster[i - 1]
    <3>1. IsList(old) /\ Len(old) = 1 /\ old[1] = o  BY <2>2, ListOfOne
    <3>2. /\ Len(toMaster') = 1 + Len(toMaster) /\ toMaster'[1] = o
          /\ \A i \in 1 + 1 .. Len(toMaster') : toMaster'[i] = toMaster[i - 1]
      <4>1. 1 \in 1 .. Len(old)  BY <3>1
      <4>2. /\ Len(toMaster') = Len(old) + Len(toMaster)
            /\ \A i \in 1 .. Len(old) : toMaster'[i] = old[i]
            /\ \A i \in Len(old) + 1 .. Len(toMaster') : toMaster'[i] = toMaster[i - Len(old)]
        BY <1>1, <2>1, <3>1, ListJoined
      <4> QED  BY <3>1, <4>1, <4>2
    <3>3. 1 + 1 = 2  OBVIOUS
    <3> QED  BY <3>2, <3>3
  <2>5. \A i \in 1 .. Len(toMaster') :
          toMaster'[i] = o \/ (i - 1 \in 1 .. Len(toMaster) /\ toMaster'[i] = toMaster[i - 1])
    <3>1. \A i \in 1 .. Len(toMaster') :
            i = 1 \/ (i \in 2 .. Len(toMaster') /\ i - 1 \in 1 .. Len(toMaster))
      BY <1>1, <2>4
    <3> QED  BY <2>4, <3>1
  <2>6. \A m \in Coming' : m \in Coming
    BY <2>3, <2>5 DEF Coming, Elems
  <2>7. ReadOrder => ReadOrder'
    <3> SUFFICES ASSUME ReadOrder, n = 0  PROVE ReadOrder'
      BY <1>0 DEF ReadOrder
    <3>1. \A i \in 1 .. Len(toMaster) :
            IsData(o) /\ o.number = 1 /\ IsData(toMaster[i]) => toMaster[i].number = 1
      BY <2>3 DEF ReadOrder
    <3>2. ASSUME NEW i \in 1 .. Len(toMaster'), NEW j \in 1 .. Len(toMaster'), i < j,
                 IsData(toMaster'[i]), toMaster'[i].number = 1, IsData(toMaster'[j])
          PROVE  toMaster'[j].number = 1
      <4>1. j - 1 \in 1 .. Len(toMaster) /\ toMaster'[j] = toMaster[j - 1]
        BY <1>1, <2>4, <3>2
      <4>2. CASE toMaster'[i] = o  BY <3>1, <3>2, <4>1, <4>2
      <4>3. CASE i - 1 \in 1 .. Len(toMaster) /\ toMaster'[i] = toMaster[i - 1]
        <5>1. i - 1 < j - 1  BY <3>2
        <5> QED  BY <3>2, <4>1, <4>3, <5>1 DEF ReadOrder
      <4> QED  BY <2>5, <4>2, <4>3
    <3>3. ASSUME NEW m \in Fetched', NEW i \in 1 .. Len(toMaster'),
                 IsData(m), m.number = 1, IsData(toMaster'[i])
          PROVE  toMaster'[i].number = 1
      BY <2>3, <2>5, <3>1, <3>3
    <3> QED  BY <3>2, <3>3 DEF ReadOrder, IsData, IsFOEMessage
  <2>8. \A g \in Going' : g \in Going  BY <2>1 DEF Going
  <2>9. /\ UNCHANGED pc /\ (Asked' <=> Asked) /\ (Alive' <=> Alive) /\ (Ends' <=> Ends)
        /\ (WriteAlone => WriteAlone')
    BY <1>0, <2>1 DEF Asked, Alive, Ends, WriteAlone
  <2> QED  BY <1>0, <2>6, <2>7, <2>8, <2>9 DEF Passes
<1> QED  BY <1>2, <1>3, <1>4

-----------------------------------------------------------------------------
(***************************************************************************)
(* Such steps keep what a transfer knows.                                  *)
(***************************************************************************)
LEMMA ReadPasses ==
  ASSUME ReadOK, Passes
  PROVE  ReadOK'
<1>0. /\ UNCHANGED <<call, calls, n, buf, stale, slipped, result, files, foe>>
      /\ pc' = "idle" => pc = "idle"
      /\ Asked' => Asked
      /\ \A g \in Going' : g.proto = "FoE" => g \in Going
      /\ Alive' =>
           /\ Alive /\ (Ends' <=> Ends)
           /\ \A m \in Coming' : m.proto = "FoE" => m \in Coming
           /\ ReadOrder => ReadOrder'
  BY DEF Passes
<1>1. ASSUME CleanRead'
      PROVE  /\ ReadGoing'
             /\ Alive' => ReadServed' /\ ReadComing' /\ ReadOrder' /\ ReadBuffer'
             /\ pc' = "idle" /\ result' > 0 => buf' = File'
  <2>1. CleanRead  BY <1>0, <1>1 DEF CleanRead, Call
  <2>2. ReadGoing'  BY <1>0, <2>1 DEF ReadOK, ReadGoing
  <2>3. ASSUME Alive'
        PROVE  ReadServed' /\ ReadComing' /\ ReadOrder' /\ ReadBuffer'
    <3>1. ReadServed /\ ReadComing /\ ReadOrder /\ ReadBuffer  BY <1>0, <2>1, <2>3 DEF ReadOK
    <3>2. \A m \in Coming' : IsData(m) => m \in Coming
      BY <1>0, <2>3 DEF IsData, IsFOEMessage
    <3>3. File' = File  BY <1>0 DEF File
    <3>4. ReadServed'
      <4>1. CASE n' >= 1 \/ \E m \in Coming' : IsData(m) /\ m.number = 1
        <5>1. foe.dir = "up" => foe.data = File
          BY <1>0, <3>1, <3>2, <4>1 DEF ReadServed
        <5> QED  BY <1>0, <3>3, <5>1 DEF ReadServed
      <4> QED  BY <4>1 DEF ReadServed, IsData, IsFOEMessage
    <3>5. ReadComing'
      <4>1. ASSUME NEW m \in Coming', IsData(m)
            PROVE  /\ m.number = n' + 1 => m.data = Packet(File', n' + 1)
                   /\ n' >= 1 => m.number <= n' + 1
        <5>1. m \in Coming  BY <3>2, <4>1
        <5>2. /\ m.number = n + 1 => m.data = Packet(File, n + 1)
              /\ n >= 1 => m.number <= n + 1
          BY <3>1, <4>1, <5>1 DEF ReadComing
        <5> QED  BY <1>0, <3>3, <5>2
      <4> QED  BY <4>1 DEF ReadComing, IsData, IsFOEMessage, Packet
    <3>6. ReadBuffer'
      BY <1>0, <2>3, <3>1, <3>3 DEF ReadBuffer, Ends
    <3> QED  BY <1>0, <2>3, <3>1, <3>4, <3>5, <3>6
  <2>4. pc' = "idle" /\ result' > 0 => buf' = File'
    BY <1>0, <2>1 DEF ReadOK, File
  <2> QED  BY <2>2, <2>3, <2>4
<1> QED  BY <1>1 DEF ReadOK

LEMMA WritePasses ==
  ASSUME WriteOK, Passes
  PROVE  WriteOK'
<1>0. /\ UNCHANGED <<call, calls, n, buf, stale, slipped, result, files, foe>>
      /\ pc' = "idle" => pc = "idle"
      /\ Asked' => Asked
      /\ \A g \in Going' : g.proto = "FoE" => g \in Going
      /\ WriteAlone => WriteAlone'
      /\ Alive' => Alive /\ \A m \in Coming' : m.proto = "FoE" => m \in Coming
  BY DEF Passes
<1>1. /\ File' = File /\ Content' = Content /\ (\A k : Has(k)' <=> Has(k))
  BY <1>0 DEF File, Content, Written, Has
<1>2. ASSUME CleanWrite'
      PROVE  /\ Alive' => WriteGoing' /\ WriteAlone' /\ WriteComing'
             /\ pc' = "idle" /\ result' > 0 /\ ~slipped' =>
                  File' = Content' /\ \A g \in Going' : g.proto # "FoE"
  <2>1. CleanWrite  BY <1>0, <1>2 DEF CleanWrite, Call
  <2>2. ASSUME Alive'
        PROVE  WriteGoing' /\ WriteAlone' /\ WriteComing'
    <3>1. WriteGoing /\ WriteAlone /\ WriteComing  BY <1>0, <2>1, <2>2 DEF WriteOK
    <3>2. WriteGoing'
      BY <1>0, <1>1, <3>1 DEF WriteGoing
    <3>3. WriteComing'
      BY <1>0, <1>1, <2>2, <3>1 DEF WriteComing, IsAck, IsFOEMessage
    <3> QED  BY <1>0, <3>1, <3>2, <3>3
  <2>3. pc' = "idle" /\ result' > 0 /\ ~slipped' =>
          File' = Content' /\ \A g \in Going' : g.proto # "FoE"
    BY <1>0, <1>1, <2>1 DEF WriteOK
  <2> QED  BY <2>2, <2>3
<1> QED  BY <1>2 DEF WriteOK

\* A call of another protocol is none of these.
LEMMA OtherKeeps ==
  ASSUME ~FOECall'
  PROVE  ReadOK' /\ WriteOK'
BY DEF FOECall, Call, ReadOK, WriteOK, CleanRead, CleanWrite


-----------------------------------------------------------------------------
(***************************************************************************)
(* The slave serves a transfer.                                            *)
(***************************************************************************)
\* Its answer is the last of what comes; the first packet keeps the order.
LEMMA AnswerOrder ==
  ASSUME TypeOK, ReadOrder, NEW ms, IsList(ms), toMaster' = toMaster \o ms,
         \A i \in 1 .. Len(ms) : n = 0 /\ IsData(ms[i]) => ms[i].number = 1,
         UNCHANGED <<n, old, doubt, pc>>
  PROVE  ReadOrder'
<1>1. IsList(toMaster) /\ Len(toMaster) \in Nat /\ Len(ms) \in Nat
  BY ListPlaces DEF TypeOK, ChannelOK
<1>2. /\ Len(toMaster') = Len(toMaster) + Len(ms)
      /\ \A i \in 1 .. Len(toMaster) : toMaster'[i] = toMaster[i]
      /\ \A i \in Len(toMaster) + 1 .. Len(toMaster') : toMaster'[i] = ms[i - Len(toMaster)]
  BY <1>1, ListJoined
<1>3. Fetched' = Fetched  BY DEF Fetched
<1> SUFFICES ASSUME n = 0  PROVE ReadOrder'
  BY DEF ReadOrder
<1>4. \A i \in Len(toMaster) + 1 .. Len(toMaster') :
        IsData(toMaster'[i]) => toMaster'[i].number = 1
  <2>1. \A i \in Len(toMaster) + 1 .. Len(toMaster') : i - Len(toMaster) \in 1 .. Len(ms)
    BY <1>1, <1>2
  <2> QED  BY <1>2, <2>1
<1>5. ASSUME NEW i \in 1 .. Len(toMaster'), NEW j \in 1 .. Len(toMaster'), i < j,
             IsData(toMaster'[i]), toMaster'[i].number = 1, IsData(toMaster'[j])
      PROVE  toMaster'[j].number = 1
  <2>1. CASE j \in 1 .. Len(toMaster)
    <3>1. i \in 1 .. Len(toMaster)  BY <1>1, <1>5, <2>1
    <3> QED  BY <1>2, <1>5, <2>1, <3>1 DEF ReadOrder
  <2>2. CASE j \in Len(toMaster) + 1 .. Len(toMaster')  BY <1>4, <1>5, <2>2
  <2> QED  BY <1>1, <1>2, <2>1, <2>2
<1>6. ASSUME NEW m \in Fetched', NEW i \in 1 .. Len(toMaster'),
             IsData(m), m.number = 1, IsData(toMaster'[i])
      PROVE  toMaster'[i].number = 1
  <2>1. CASE i \in 1 .. Len(toMaster)  BY <1>2, <1>3, <1>6, <2>1 DEF ReadOrder
  <2>2. CASE i \in Len(toMaster) + 1 .. Len(toMaster')  BY <1>4, <1>6, <2>2
  <2> QED  BY <1>1, <1>2, <2>1, <2>2
<1> QED  BY <1>5, <1>6 DEF ReadOrder, IsData, IsFOEMessage

\* What comes after an answer.
LEMMA AnswerComes ==
  ASSUME TypeOK, NEW ms, IsList(ms), Answer(ms)
  PROVE  /\ toSlave' = <<>> /\ toMaster' = toMaster \o ms
         /\ UNCHANGED <<offered, got, old, doubt, pc, return, wkc, call, calls, n, buf, result,
                        slipped, stale>>
         /\ \A m \in Coming' : m \in Coming \/ \E i \in 1 .. Len(ms) : m = ms[i]
         /\ \A g \in Going' : pc = "send" /\ g \in Going
<1>1. /\ toSlave' = <<>> /\ toMaster' = toMaster \o ms
      /\ UNCHANGED <<offered, got, old, doubt, pc, return, wkc, call, calls, n, buf, result,
                     slipped, stale>>
  BY DEF Answer, client
<1>2. IsList(toMaster) /\ Len(toMaster) \in Nat /\ Len(ms) \in Nat
  BY ListPlaces DEF TypeOK, ChannelOK
<1>3. /\ Len(toMaster') = Len(toMaster) + Len(ms)
      /\ \A i \in 1 .. Len(toMaster) : toMaster'[i] = toMaster[i]
      /\ \A i \in Len(toMaster) + 1 .. Len(toMaster') : toMaster'[i] = ms[i - Len(toMaster)]
  BY <1>1, <1>2, ListJoined
<1>4. \A i \in 1 .. Len(toMaster') :
        \/ i \in 1 .. Len(toMaster)
        \/ i \in Len(toMaster) + 1 .. Len(toMaster') /\ i - Len(toMaster) \in 1 .. Len(ms)
  BY <1>2, <1>3
<1>5. Fetched' = Fetched  BY <1>1 DEF Fetched
<1>6. \A m \in Coming' : m \in Coming \/ \E i \in 1 .. Len(ms) : m = ms[i]
  BY <1>3, <1>4, <1>5 DEF Coming, Elems
<1>7. \A g \in Going' : pc = "send" /\ g \in Going  BY <1>1 DEF Going
<1> QED  BY <1>1, <1>6, <1>7

\* One message, or none.
LEMMA AnswerOfOne ==
  ASSUME TypeOK, NEW a, Answer(<<a>>)
  PROVE  /\ IsList(<<a>>) /\ \A i \in 1 .. Len(<<a>>) : <<a>>[i] = a
         /\ \A m \in Coming' : m \in Coming \/ m = a
<1>1. IsList(<<a>>) /\ \A i \in 1 .. Len(<<a>>) : <<a>>[i] = a  BY ListOfOne
<1> QED  BY <1>1, AnswerComes

LEMMA AnswerOfNone ==
  ASSUME TypeOK, Answer(<<>>)
  PROVE  /\ IsList(<<>>) /\ Len(<<>>) = 0
         /\ \A m \in Coming' : m \in Coming
<1>1. IsList(<<>>) /\ Len(<<>>) = 0 /\ ~(\E i \in 1 .. Len(<<>>) : TRUE)  BY ListEmpty
<1> QED  BY <1>1, AnswerComes

LEMMA ServeKeepsRead ==
  ASSUME TypeOK, ReadOK, ServeFOE
  PROVE  ReadOK'
<1> DEFINE m == toSlave[1]
<1>1. /\ toSlave # <<>> /\ m.proto = "FoE" /\ m \in Going
      /\ m.number \in Nat
  BY TransferArrived DEF Going
<1>2. \/ ServeRead(m) \/ ServeAck(m) \/ ServeWrite(m) \/ ServeData(m) \/ TooBusy(m)
      \/ FOERefuse
  BY DEF ServeFOE
<1> HIDE DEF m
<1>3. /\ UNCHANGED <<pc, return, wkc, call, calls, n, buf, result, slipped, stale>>
      /\ UNCHANGED <<offered, got, old, doubt>> /\ toSlave' = <<>>
  BY <1>2 DEF ServeRead, ServeAck, ServeWrite, ServeData, TooBusy, FOERefuse, FOEAnswer, Answer,
     client
<1> SUFFICES ASSUME CleanRead'
             PROVE  /\ ReadGoing'
                    /\ Alive' => ReadServed' /\ ReadComing' /\ ReadOrder' /\ ReadBuffer'
                    /\ pc' = "idle" /\ result' > 0 => buf' = File'
  BY DEF ReadOK
<1>4. CleanRead  BY <1>3 DEF CleanRead, Call, Asked
<1>5. \/ m.op = "read" /\ m.name = call.name
      \/ m.op = "ack" /\ 1 <= m.number /\ m.number <= n
  BY <1>1, <1>4 DEF ReadOK, ReadGoing
<1>6. ServeRead(m) \/ ServeAck(m) \/ FOERefuse
  BY <1>2, <1>5 DEF ServeWrite, ServeData, TooBusy
<1>7. UNCHANGED files /\ File' = File
  BY <1>3, <1>6 DEF ServeRead, ServeAck, FOERefuse, File
<1>8. \A g \in Going' : g \in Going  BY <1>3 DEF Going
<1>9. ReadGoing'  BY <1>3, <1>4, <1>8 DEF ReadOK, ReadGoing
<1>10. pc' = "idle" /\ result' > 0 => buf' = File'  BY <1>3, <1>4, <1>7 DEF ReadOK
<1>11. ASSUME Alive'
       PROVE  ReadServed' /\ ReadComing' /\ ReadOrder' /\ ReadBuffer'
  <2>1. ReadServed /\ ReadComing /\ ReadOrder /\ ReadBuffer
    BY <1>3, <1>4, <1>11 DEF ReadOK, Alive
  <2>2. ReadBuffer'  BY <1>3, <1>7, <2>1 DEF ReadBuffer
  <2>3. n \in Nat  BY DEF TypeOK, CallOK
  <2>4. ASSUME foe'.dir = "up" => foe'.data = File
        PROVE  ReadServed'
    BY <1>7, <2>4 DEF ReadServed
  <2>5. ASSUME \A c \in Coming' : IsData(c) =>
                 \/ c \in Coming
                 \/ /\ c.number = n + 1 => c.data = Packet(File, n + 1)
                    /\ n >= 1 => c.number <= n + 1
        PROVE  ReadComing'
    <3>1. \A c \in Coming' : IsData(c) =>
            /\ c.number = n + 1 => c.data = Packet(File, n + 1)
            /\ n >= 1 => c.number <= n + 1
      BY <2>1, <2>5 DEF ReadComing
    <3> QED  BY <1>3, <1>7, <3>1 DEF ReadComing, IsData, IsFOEMessage, Packet
  <2>6. CASE ServeRead(m)
    <3> DEFINE a == FOEMessage("data", 1, "none", Packet(File, 1))
    <3>1. m.name = call.name  BY <1>5, <2>6 DEF ServeRead
    <3>2. Answer(<<a>>) /\ foe'.data = File
      BY <2>6, <3>1 DEF ServeRead, FOEAnswer, File
    <3>3. a.number = 1 /\ a.data = Packet(File, 1)  BY DEF FOEMessage
    <3> HIDE DEF a
    <3>4. ReadServed'  BY <2>4, <3>2
    <3>5. ReadComing'
      <4>1. \A c \in Coming' : c \in Coming \/ c = a  BY <3>2, AnswerOfOne
      <4>2. a.number = n + 1 => n = 0 /\ a.data = Packet(File, n + 1)
        <5>1. a.number = n + 1 => n = 0  BY <2>3, <3>3
        <5> QED  BY <3>3, <5>1
      <4>3. n >= 1 => a.number <= n + 1  BY <2>3, <3>3
      <4> QED  BY <2>5, <4>1, <4>2, <4>3
    <3>6. ReadOrder'
      <4>1. IsList(<<a>>) /\ \A i \in 1 .. Len(<<a>>) : <<a>>[i] = a  BY <3>2, AnswerOfOne
      <4>2. toMaster' = toMaster \o <<a>>  BY <3>2, <4>1, AnswerComes
      <4> QED  BY <1>3, <2>1, <3>3, <4>1, <4>2, AnswerOrder
    <3> QED  BY <2>2, <3>4, <3>5, <3>6
  <2>7. CASE ServeAck(m) /\ n >= 1 /\ foe.dir = "up" /\ foe.data = File /\ foe.packet <= n
    <3> DEFINE k == foe.packet + 1
               a == FOEMessage("data", k, "none", Packet(foe.data, k))
    <3>0. foe.packet \in Nat  BY DEF TypeOK, FilesOK
    <3>1. CASE Answer(<<a>>) /\ foe' = [foe EXCEPT !.packet = k]
      <4>1. foe'.data = File  BY <2>7, <3>1 DEF TypeOK, FilesOK
      <4>2. a.number = k /\ a.data = Packet(File, k)  BY <2>7 DEF FOEMessage
      <4>3. k <= n + 1  BY <2>3, <2>7, <3>0
      <4> HIDE DEF a, k
      <4>4. ReadServed'  BY <2>4, <4>1
      <4>5. ReadComing'
        <5>1. \A c \in Coming' : c \in Coming \/ c = a  BY <3>1, AnswerOfOne
        <5> QED  BY <2>5, <4>2, <4>3, <5>1
      <4>6. ReadOrder'
        <5>1. n' # 0  BY <1>3, <2>3, <2>7
        <5> QED  BY <5>1 DEF ReadOrder
      <4> QED  BY <2>2, <4>4, <4>5, <4>6
    <3>2. CASE Answer(<<>>) /\ foe' = NoTransfer
      <4>1. ReadServed'  BY <2>4, <3>2 DEF NoTransfer
      <4>2. ReadComing'
        <5>1. \A c \in Coming' : c \in Coming  BY <3>2, AnswerOfNone
        <5> QED  BY <2>5, <5>1
      <4>3. ReadOrder'
        <5>1. n' # 0  BY <1>3, <2>3, <2>7
        <5> QED  BY <5>1 DEF ReadOrder
      <4> QED  BY <2>2, <4>1, <4>2, <4>3
    <3> QED  BY <2>7, <3>1, <3>2 DEF ServeAck, FOEAnswer
  <2>8. CASE FOERefuse
    <3> DEFINE a == FOEMessage("error", 0, "none", <<>>)
    <3>1. Answer(<<a>>) /\ foe' = NoTransfer  BY <2>8 DEF FOERefuse, FOEAnswer
    <3>2. ~IsData(a)  BY DEF IsData, IsFOEMessage, FOEMessage
    <3> HIDE DEF a
    <3>3. ReadServed'  BY <2>4, <3>1 DEF NoTransfer
    <3>4. ReadComing'
      <4>1. \A c \in Coming' : c \in Coming \/ c = a  BY <3>1, AnswerOfOne
      <4> QED  BY <2>5, <3>2, <4>1
    <3>5. ReadOrder'
      <4>1. IsList(<<a>>) /\ \A i \in 1 .. Len(<<a>>) : <<a>>[i] = a  BY <3>1, AnswerOfOne
      <4>2. toMaster' = toMaster \o <<a>>  BY <3>1, <4>1, AnswerComes
      <4> QED  BY <1>3, <2>1, <3>2, <4>1, <4>2, AnswerOrder
    <3> QED  BY <2>2, <3>3, <3>4, <3>5
  <2>9. ServeAck(m) => n >= 1 /\ foe.dir = "up" /\ foe.data = File /\ foe.packet <= n
    <3> SUFFICES ASSUME ServeAck(m)
                 PROVE  n >= 1 /\ foe.dir = "up" /\ foe.data = File /\ foe.packet <= n
      OBVIOUS
    <3>1. m.op = "ack" /\ foe.dir = "up" /\ m.number = foe.packet  BY DEF ServeAck
    <3>2. 1 <= m.number /\ m.number <= n  BY <1>5, <3>1
    <3>3. n >= 1  BY <1>1, <2>3, <3>2
    <3> QED  BY <2>1, <3>1, <3>2, <3>3 DEF ReadServed
  <2> QED  BY <1>6, <2>6, <2>7, <2>8, <2>9
<1> QED  BY <1>9, <1>10, <1>11


LEMMA ServeKeepsWrite ==
  ASSUME TypeOK, WriteOK, ServeFOE
  PROVE  WriteOK'
<1> DEFINE m == toSlave[1]
<1>1. /\ toSlave # <<>> /\ m.proto = "FoE" /\ m \in Going
      /\ m.number \in Nat /\ m.data \in Seq(Octet)
  BY TransferArrived DEF Going
<1>2. \/ ServeRead(m) \/ ServeAck(m) \/ ServeWrite(m) \/ ServeData(m) \/ TooBusy(m)
      \/ FOERefuse
  BY DEF ServeFOE
<1>3. /\ UNCHANGED <<pc, return, wkc, call, calls, n, buf, result, slipped, stale>>
      /\ UNCHANGED <<offered, got, old, doubt>> /\ toSlave' = <<>>
  BY <1>2 DEF ServeRead, ServeAck, ServeWrite, ServeData, TooBusy, FOERefuse, FOEAnswer, Answer,
     client
<1>s. WriteAlone /\ pc = "send" /\ toSlave # <<>> => m.proto # "FoE"  BY DEF WriteAlone
<1> HIDE DEF m
<1> SUFFICES ASSUME CleanWrite'
             PROVE  /\ Alive' => WriteGoing' /\ WriteAlone' /\ WriteComing'
                    /\ pc' = "idle" /\ result' > 0 /\ ~slipped' =>
                         File' = Content' /\ \A g \in Going' : g.proto # "FoE"
  BY DEF WriteOK
<1>4. CleanWrite  BY <1>3 DEF CleanWrite, Call, Asked
<1>5. ~(pc' = "idle" /\ result' > 0 /\ ~slipped')  BY <1>1, <1>3, <1>4 DEF WriteOK
<1>6. ASSUME Alive'
      PROVE  WriteGoing' /\ WriteAlone' /\ WriteComing'
  <2>1. WriteGoing /\ WriteAlone /\ WriteComing  BY <1>3, <1>4, <1>6 DEF WriteOK, Alive
  <2>2. pc # "send"  BY <1>1, <1>s, <2>1
  <2>3. Going' = {}  BY <1>3, <2>2 DEF Going
  <2>4. WriteGoing' /\ WriteAlone'  BY <1>3, <2>3 DEF WriteGoing, WriteAlone
  <2>5. /\ n \in Nat /\ calls \in Nat /\ call.name \in Files /\ call.size \in Nat
    BY <1>4 DEF TypeOK, CallOK, FOECall, CleanWrite
  <2>6. /\ Content \in Seq(Octet) /\ Len(Content) = call.size /\ Content' = Content
    BY <1>3, <2>5, WrittenType DEF Content, Written
  <2>7. \/ n = 0 /\ m.op = "write" /\ m.name = call.name
        \/ /\ n >= 1 /\ m.op = "data" /\ m.number = n /\ m.data = Packet(Content, n)
           /\ (n - 1) * maxdata <= call.size /\ Has(n - 1)
    BY <1>1, <2>1 DEF WriteGoing
  <2>8. \A c \in Coming : IsAck(c) => c.number <= n /\ c.number # n
    BY <1>1, <2>1 DEF WriteComing
  <2>9. ASSUME \A c \in Coming' : IsAck(c) => c \in Coming \/ (c.number = n /\ Has(n)')
        PROVE  WriteComing'
    <3>1. \A c \in Coming' : IsAck(c) => c.number <= n /\ (c.number = n => Has(n)')
      BY <2>5, <2>8, <2>9
    <3> QED  BY <1>3, <2>3, <3>1 DEF WriteComing, IsAck, IsFOEMessage, Has
  <2>10. CASE ServeWrite(m)
    <3> DEFINE a == FOEMessage("ack", 0, "none", <<>>)
    <3>1. n = 0 /\ m.name = call.name  BY <2>7, <2>10 DEF ServeWrite
    <3>2. /\ Answer(<<a>>)
          /\ foe' = [dir |-> "down", name |-> call.name, data |-> <<>>, packet |-> 0]
      BY <2>10, <3>1 DEF ServeWrite, FOEAnswer
    <3>3. a.number = n  BY <3>1 DEF FOEMessage
    <3> HIDE DEF a
    <3>4. Has(n)'
      <4>1. 0 * maxdata = 0 /\ 0 <= call.size  BY <2>5, FOEAssumption
      <4>2. SubSeq(Content, 1, 0) = <<>>  BY <2>6
      <4> QED  BY <1>3, <2>6, <3>1, <3>2, <4>1, <4>2 DEF Has
    <3>5. \A c \in Coming' : c \in Coming \/ c = a  BY <3>2, AnswerOfOne
    <3> QED  BY <2>4, <2>9, <3>3, <3>4, <3>5
  <2>11. CASE ServeData(m)
    <3> DEFINE k == n - 1
               a == FOEMessage("ack", m.number, "none", <<>>)
               data == foe.data \o m.data
    <3>1. /\ n >= 1 /\ m.number = n /\ m.data = Packet(Content, n)
          /\ k * maxdata <= call.size /\ Has(k)
      BY <2>7, <2>11 DEF ServeData
    <3>2. k \in Nat /\ k + 1 = n  BY <2>5, <3>1
    <3>3. a.number = n  BY <3>1 DEF FOEMessage
    <3>4. Answer(<<a>>)  BY <2>11 DEF ServeData, FOEAnswer
    <3>5. foe = [dir |-> "down", name |-> call.name, data |-> SubSeq(Content, 1, k * maxdata),
                 packet |-> k]
      BY <3>1 DEF Has
    <3>6. data = SubSeq(Content, 1, k * maxdata) \o Packet(Content, k + 1)
      BY <3>1, <3>2, <3>5
    <3>7. IF Len(m.data) = maxdata
            THEN n * maxdata <= call.size /\ data = SubSeq(Content, 1, n * maxdata)
            ELSE n * maxdata > call.size /\ data = Content
      <4>1. k * maxdata <= Len(Content)  BY <2>6, <3>1
      <4>2. IF Len(Packet(Content, k + 1)) = maxdata
              THEN /\ (k + 1) * maxdata <= Len(Content)
                   /\ SubSeq(Content, 1, k * maxdata) \o Packet(Content, k + 1)
                        = SubSeq(Content, 1, (k + 1) * maxdata)
              ELSE /\ (k + 1) * maxdata > Len(Content)
                   /\ SubSeq(Content, 1, k * maxdata) \o Packet(Content, k + 1) = Content
        BY <2>6, <3>2, <4>1, PacketJoins
      <4> QED  BY <2>6, <3>1, <3>2, <3>6, <4>2
    <3>8. IF Len(m.data) = maxdata
            THEN foe' = [foe EXCEPT !.packet = m.number, !.data = data]
            ELSE files' = [files EXCEPT ![foe.name] = data]
      BY <2>11 DEF ServeData
    <3> HIDE DEF a, k, data
    <3>9. Has(n)'
      <4>1. CASE Len(m.data) = maxdata
        <5>1. foe' = [dir |-> "down", name |-> call.name, data |-> data, packet |-> n]
          BY <3>1, <3>5, <3>8, <4>1
        <5> QED  BY <1>3, <2>6, <3>7, <4>1, <5>1 DEF Has
      <4>2. CASE Len(m.data) # maxdata
        <5>1. foe.name = call.name  BY <3>5
        <5>2. files'[call.name] = Content  BY <2>5, <3>7, <3>8, <4>2, <5>1 DEF TypeOK, FilesOK
        <5>3. n * maxdata > call.size  BY <3>7, <4>2
        <5>4. ~(n * maxdata <= call.size)
          <6>1. n * maxdata \in Nat  BY <2>5, <2>6, PacketJoins
          <6> QED  BY <2>5, <5>3, <6>1
        <5>5. File' = Content'  BY <1>3, <2>6, <5>2 DEF File
        <5> QED  BY <1>3, <5>4, <5>5 DEF Has
      <4> QED  BY <4>1, <4>2
    <3>10. \A c \in Coming' : c \in Coming \/ c = a  BY <3>4, AnswerOfOne
    <3> QED  BY <2>4, <2>9, <3>3, <3>9, <3>10
  <2>12. CASE TooBusy(m) \/ FOERefuse
    <3>1. PICK op \in {"busy", "error"} : FOEAnswer(op, 0, <<>>)
      BY <2>12 DEF TooBusy, FOERefuse
    <3> DEFINE a == FOEMessage(op, 0, "none", <<>>)
    <3>2. Answer(<<a>>)  BY <3>1 DEF FOEAnswer
    <3>3. ~IsAck(a)  BY DEF IsAck, IsFOEMessage, FOEMessage
    <3> HIDE DEF a
    <3>4. \A c \in Coming' : c \in Coming \/ c = a  BY <3>2, AnswerOfOne
    <3> QED  BY <2>4, <2>9, <3>3, <3>4
  <2>13. ~ServeRead(m) /\ ~ServeAck(m)  BY <2>7 DEF ServeRead, ServeAck
  <2> QED  BY <1>2, <2>10, <2>11, <2>12, <2>13
<1> QED  BY <1>5, <1>6

-----------------------------------------------------------------------------
(***************************************************************************)
(* The steps of a transfer.                                                *)
(***************************************************************************)
\* A call that returns sends nothing more.
LEMMA ReturnQuiets ==
  ASSUME NEW r, Return(r)
  PROVE  /\ pc' = "idle" /\ ~Alive' /\ result' = r
         /\ UNCHANGED <<call, calls>> /\ \A g \in Going' : g \in Going
  BY DEF Return, Alive, Going

\* What was under way when the request was made.
LEMMA NothingStale ==
  ASSUME TypeOK, pc # "answer", UNCHANGED <<toSlave, toMaster, old, doubt>>, pc' # "answer"
  PROVE  /\ \A m \in Coming' : <<m.proto, m.op, m.number>> \in UnderWay
         /\ toSlave # <<>> => <<toSlave[1].proto, "request", 0>> \in UnderWay
<1>1. ToSet(toMaster) = Elems(toMaster)  BY ListPlaces DEF TypeOK, ChannelOK
<1>2. Fetched' \subseteq IF doubt THEN ToSet(old) ELSE {}
  <2>1. ASSUME old # <<>>  PROVE old[1] \in ToSet(old)
    <3>1. PICK o : old = <<o>>  BY <2>1 DEF TypeOK, ChannelOK, Slot
    <3> QED  BY <3>1 DEF ToSet
  <2> QED  BY <2>1 DEF Fetched
<1>3. ASSUME toSlave # <<>>  PROVE toSlave[1] \in ToSet(toSlave)
  <2>1. PICK o : toSlave = <<o>>  BY <1>3 DEF TypeOK, ChannelOK, Slot
  <2> QED  BY <2>1 DEF ToSet
<1>4. \A m \in Coming' : m \in ToSet(toMaster) \cup (IF doubt THEN ToSet(old) ELSE {})
  BY <1>1, <1>2 DEF Coming
<1> QED  BY <1>3, <1>4 DEF UnderWay


LEMMA RequestsRead ==
  ASSUME TypeOK, ReadRequest, UNCHANGED foeslave
  PROVE  ReadOK' /\ WriteOK'
<1> DEFINE r == FOEMessage("read", 0, call.name, <<>>)
<1>1. /\ pc = "start" /\ Call("FOEread") /\ offered' = <<r>> /\ pc' = "send" /\ return' = "sent"
      /\ stale' = (IF n = 0 THEN UnderWay ELSE stale)
      /\ UNCHANGED <<toSlave, toMaster, got, old, doubt, call, n, buf, result, files, foe>>
  BY DEF ReadRequest, SendRequest, CallMbxsend, foeslave
<1>2. n = 0 /\ buf = <<>>  BY <1>1 DEF TypeOK, PlaceOK, FOECall, Asked
<1>3. r.proto = "FoE" /\ r.op = "read" /\ r.name = call.name  BY DEF FOEMessage
<1> HIDE DEF r
<1>4. WriteOK'  BY <1>1 DEF WriteOK, CleanWrite, Call
<1> SUFFICES ASSUME CleanRead'  PROVE ReadOK'
  BY <1>4 DEF ReadOK
<1>5. <<"FoE", "data", 1>> \notin UnderWay /\ <<"FoE", "request", 0>> \notin UnderWay
  BY <1>1, <1>2 DEF CleanRead
<1>6. /\ \A m \in Coming' : <<m.proto, m.op, m.number>> \in UnderWay
      /\ toSlave # <<>> => <<toSlave[1].proto, "request", 0>> \in UnderWay
  BY <1>1, NothingStale
<1>7. toSlave # <<>> => toSlave[1].proto # "FoE"  BY <1>5, <1>6
<1>8. \A m \in Coming' : ~(m.proto = "FoE" /\ m.op = "data" /\ m.number = 1)  BY <1>5, <1>6
<1>9. \A m \in Coming' : ~(IsData(m) /\ m.number = 1)  BY <1>8 DEF IsData, IsFOEMessage
<1>10. ReadGoing'
  <2>1. \A g \in Going' : g = r \/ g.proto # "FoE"  BY <1>1, <1>7 DEF Going
  <2> QED  BY <1>1, <1>3, <2>1 DEF ReadGoing
<1>11. ReadServed'  BY <1>1, <1>2, <1>9 DEF ReadServed, IsData, IsFOEMessage
<1>12. ReadComing'  BY <1>1, <1>2, <1>9 DEF ReadComing, IsData, IsFOEMessage
<1>13. ReadOrder'
  <2>1. \A i \in 1 .. Len(toMaster') : toMaster'[i] \in Coming'  BY DEF Coming, Elems
  <2>2. \A m \in Fetched' : m \in Coming'  BY DEF Coming
  <2> QED  BY <1>9, <2>1, <2>2 DEF ReadOrder, IsData, IsFOEMessage
<1>14. ReadBuffer'
  <2>1. call.name \in Files  BY <1>1 DEF TypeOK, CallOK, FOECall
  <2>2. File \in Seq(Octet) /\ File' = File  BY <1>1, <2>1 DEF TypeOK, FilesOK, File
  <2>3. 0 * maxdata = 0 /\ 0 <= Len(File) /\ SubSeq(File, 1, 0) = <<>>
    BY <2>2, FOEAssumption
  <2> QED  BY <1>1, <1>2, <2>2, <2>3 DEF ReadBuffer
<1>15. pc' # "idle"  BY <1>1
<1> QED  BY <1>10, <1>11, <1>12, <1>13, <1>14, <1>15 DEF ReadOK

LEMMA RequestsWrite ==
  ASSUME TypeOK, WriteRequest, UNCHANGED foeslave
  PROVE  ReadOK' /\ WriteOK'
<1> DEFINE r == FOEMessage("write", 0, call.name, <<>>)
<1>1. /\ pc = "start" /\ Call("FOEwrite") /\ offered' = <<r>> /\ pc' = "send" /\ return' = "sent"
      /\ stale' = (IF n = 0 THEN UnderWay ELSE stale)
      /\ UNCHANGED <<toSlave, toMaster, got, old, doubt, call, n, buf, result>>
  BY DEF WriteRequest, SendRequest, CallMbxsend
<1>2. n = 0  BY <1>1 DEF TypeOK, PlaceOK, FOECall, Asked
<1>3. r.proto = "FoE" /\ r.op = "write" /\ r.name = call.name  BY DEF FOEMessage
<1> HIDE DEF r
<1>4. ReadOK'  BY <1>1 DEF ReadOK, CleanRead, Call
<1> SUFFICES ASSUME CleanWrite'  PROVE WriteOK'
  BY <1>4 DEF WriteOK
<1>5. \A s \in UnderWay : s[1] = "FoE" => s[2] \notin {"ack", "request"}
  BY <1>1, <1>2 DEF CleanWrite
<1>6. /\ \A m \in Coming' : <<m.proto, m.op, m.number>> \in UnderWay
      /\ toSlave # <<>> => <<toSlave[1].proto, "request", 0>> \in UnderWay
  BY <1>1, NothingStale
<1>7. toSlave # <<>> => toSlave[1].proto # "FoE"
  <2>1. \A p : <<p, "request", 0>>[1] = p /\ <<p, "request", 0>>[2] = "request"  OBVIOUS
  <2> QED  BY <1>5, <1>6, <2>1
<1>8. \A m \in Coming' : ~IsAck(m)
  <2>1. \A p, o, k : <<p, o, k>>[1] = p /\ <<p, o, k>>[2] = o  OBVIOUS
  <2>2. \A m \in Coming' : m.proto = "FoE" => m.op # "ack"  BY <1>5, <1>6, <2>1
  <2> QED  BY <2>2 DEF IsAck, IsFOEMessage
<1>9. WriteGoing'
  <2>1. \A g \in Going' : g = r \/ g.proto # "FoE"  BY <1>1, <1>7 DEF Going
  <2> QED  BY <1>1, <1>2, <1>3, <2>1 DEF WriteGoing
<1>10. WriteAlone'  BY <1>1, <1>7 DEF WriteAlone
<1>11. WriteComing'  BY <1>8 DEF WriteComing, IsAck, IsFOEMessage
<1>12. pc' # "idle"  BY <1>1
<1> QED  BY <1>9, <1>10, <1>11, <1>12 DEF WriteOK


\* The message is sent: the call waits for the answer, or gives up.
LEMMA SentKeeps ==
  ASSUME TypeOK, ReadOK, WriteOK, FOESent, UNCHANGED foeslave
  PROVE  ReadOK' /\ WriteOK'
<1>0. pc = "sent" /\ Same /\ UNCHANGED <<files, foe>>  BY DEF FOESent, foeslave
<1>1. CASE wkc > 0 /\ CallMbxreceive(1, "answer")
  <2>1. /\ pc' = "receive" /\ return' = "answer"
        /\ UNCHANGED <<offered, toSlave, toMaster, old, doubt, call, calls, result, wkc>>
    BY <1>1 DEF CallMbxreceive
  <2>2. /\ UNCHANGED <<call, calls, n, buf, stale, slipped, result, files, foe>>
        /\ pc' # "idle" /\ Asked /\ Alive /\ ~Ends /\ ~Ends' /\ WriteAlone'
    BY <1>0, <1>1, <2>1 DEF Same, Asked, Alive, Ends, WriteAlone
  <2>3. \A g \in Going' : g \in Going  BY <1>0, <2>1 DEF Going
  <2>4. Fetched' \subseteq Fetched  BY <1>0, <2>1 DEF Fetched
  <2>5. \A m \in Coming' : m \in Coming  BY <2>1, <2>4 DEF Coming
  <2>6. ReadOrder => ReadOrder'
    BY <2>1, <2>2, <2>4 DEF ReadOrder, IsData, IsFOEMessage
  <2>7. Passes  BY <2>2, <2>3, <2>5, <2>6 DEF Passes
  <2> QED  BY <2>7, ReadPasses, WritePasses
<1>2. CASE Return(0)
  <2>1. pc' = "idle" /\ ~Alive' /\ result' = 0 /\ UNCHANGED call /\ \A g \in Going' : g \in Going
    BY <1>2, ReturnQuiets
  <2>2. Asked  BY <1>0 DEF Asked
  <2>3. ReadOK'
    <3> SUFFICES ASSUME CleanRead'  PROVE ReadGoing'
      BY <2>1 DEF ReadOK
    <3>1. CleanRead  BY <1>0, <2>1, <2>2 DEF CleanRead, Call, Same
    <3> QED  BY <1>0, <2>1, <3>1 DEF ReadOK, ReadGoing, Same
  <2>4. WriteOK'  BY <2>1 DEF WriteOK
  <2> QED  BY <2>3, <2>4
<1> QED  BY <1>1, <1>2 DEF FOESent

LEMMA LastSentKeeps ==
  ASSUME TypeOK, ReadOK, FOEReadSent, UNCHANGED foeslave
  PROVE  ReadOK' /\ WriteOK'
<1>0. pc = "last" /\ Call("FOEread") /\ Return(wkc) /\ Same /\ UNCHANGED <<files, foe>>
  BY DEF FOEReadSent, foeslave
<1>1. pc' = "idle" /\ ~Alive' /\ result' = wkc /\ UNCHANGED call /\ \A g \in Going' : g \in Going
  BY <1>0, ReturnQuiets
<1>2. WriteOK'  BY <1>0, <1>1 DEF WriteOK, CleanWrite, Call
<1> SUFFICES ASSUME CleanRead'  PROVE ReadGoing' /\ (wkc > 0 => buf' = File')
  BY <1>1, <1>2 DEF ReadOK
<1>3. CleanRead  BY <1>0, <1>1 DEF CleanRead, Call, Same, Asked
<1>4. ReadGoing'  BY <1>0, <1>1, <1>3 DEF ReadOK, ReadGoing, Same
<1>5. ASSUME wkc > 0  PROVE buf' = File'
  <2>1. ReadBuffer  BY <1>0, <1>3, <1>5 DEF ReadOK, Alive
  <2> QED  BY <1>0, <1>1, <2>1 DEF ReadBuffer, File, Same
<1> QED  BY <1>4, <1>5

\* A packet comes: it is the next of the file.
LEMMA ReadAnswerKeeps ==
  ASSUME TypeOK, ReadOK, FOEReadAnswer, UNCHANGED foeslave
  PROVE  ReadOK' /\ WriteOK'
<1>0. pc = "answer" /\ Call("FOEread") /\ UNCHANGED <<call, files, foe, stale>>
  BY DEF FOEReadAnswer, foeslave, CallMbxsend, Return, Same
<1>1. WriteOK'  BY <1>0 DEF WriteOK, CleanWrite, Call
<1> SUFFICES ASSUME CleanRead'  PROVE ReadOK'
  BY <1>1 DEF ReadOK
<1>2. CleanRead  BY <1>0 DEF CleanRead, Asked, Call
<1>3. CASE Return(0) /\ Same
  <2>1. pc' = "idle" /\ ~Alive' /\ result' = 0 /\ \A g \in Going' : g \in Going
    BY <1>3, ReturnQuiets
  <2>2. ReadGoing'  BY <1>0, <1>2, <1>3, <2>1 DEF ReadOK, ReadGoing, Same
  <2> QED  BY <2>1, <2>2 DEF ReadOK
<1>4. CASE ~(Return(0) /\ Same)
  <2> DEFINE g == got[1]
             a == FOEMessage("ack", g.number, "none", <<>>)
             place == IF Len(g.data) = maxdata THEN "sent" ELSE "last"
  <2>1. /\ wkc > 0 /\ Expected(g)
        /\ buf' = buf \o g.data /\ n' = n + 1 /\ CallMbxsend(a, place)
    BY <1>4 DEF FOEReadAnswer
  <2>2. /\ offered' = <<a>> /\ pc' = "send" /\ return' = place
        /\ UNCHANGED <<toSlave, toMaster, old, doubt>>
    BY <2>1 DEF CallMbxsend
  <2>3. a.proto = "FoE" /\ a.op = "ack" /\ a.number = g.number  BY DEF FOEMessage
  <2> HIDE DEF a
  <2>4. IsData(g) /\ g.number = n + 1  BY <2>1 DEF Expected, IsData
  <2>5. old # <<>> /\ old[1] = g  BY <1>0, <2>1 DEF TypeOK, PlaceOK, FOECall
  <2> HIDE DEF g
  <2>6. g \in Fetched /\ g \in Coming  BY <1>0, <2>5 DEF Fetched, Coming
  <2>7. n \in Nat /\ call.name \in Files  BY <1>0 DEF TypeOK, CallOK, FOECall
  <2>8. ReadServed /\ ReadComing /\ ReadOrder /\ ReadBuffer
    BY <1>0, <1>2, <2>1 DEF ReadOK, Alive
  <2>9. File \in Seq(Octet) /\ File' = File
    BY <1>0, <2>7 DEF TypeOK, FilesOK, File
  <2>10. g.data = Packet(File, n + 1)  BY <2>4, <2>6, <2>8 DEF ReadComing
  <2>11. n * maxdata <= Len(File) /\ buf = SubSeq(File, 1, n * maxdata)
    BY <1>0, <2>8 DEF ReadBuffer
  <2>12. ReadBuffer'
    <3>1. IF Len(Packet(File, n + 1)) = maxdata
            THEN /\ (n + 1) * maxdata <= Len(File)
                 /\ SubSeq(File, 1, n * maxdata) \o Packet(File, n + 1)
                      = SubSeq(File, 1, (n + 1) * maxdata)
            ELSE /\ (n + 1) * maxdata > Len(File)
                 /\ SubSeq(File, 1, n * maxdata) \o Packet(File, n + 1) = File
      BY <2>7, <2>9, <2>11, PacketJoins
    <3>2. CASE Len(g.data) = maxdata
      <4>1. return' = "sent"  BY <2>2, <3>2
      <4>2. /\ n' * maxdata <= Len(File) /\ buf' = SubSeq(File, 1, n' * maxdata)
        BY <2>1, <2>10, <2>11, <3>1, <3>2
      <4> QED  BY <2>2, <2>9, <4>1, <4>2 DEF ReadBuffer
    <3>3. CASE Len(g.data) # maxdata
      <4>1. return' = "last"  BY <2>2, <3>3
      <4>2. buf' = File  BY <2>1, <2>10, <2>11, <3>1, <3>3
      <4> QED  BY <2>2, <2>9, <4>1, <4>2 DEF ReadBuffer
    <3> QED  BY <3>2, <3>3
  <2>13. ReadGoing'
    <3>1. \A h \in Going' : h = a \/ h \in Going  BY <1>0, <2>2 DEF Going
    <3>2. ReadGoing  BY <1>2 DEF ReadOK
    <3>3. ASSUME NEW h \in Going', h.proto = "FoE"
          PROVE  \/ h.op = "read" /\ h.name = call'.name
                 \/ h.op = "ack" /\ 1 <= h.number /\ h.number <= n'
      <4>1. CASE h = a  BY <2>1, <2>3, <2>4, <2>7, <4>1
      <4>2. CASE h \in Going /\ h.op = "read" /\ h.name = call.name  BY <1>0, <4>2
      <4>3. CASE h \in Going /\ h.op = "ack" /\ 1 <= h.number /\ h.number <= n
        <5>1. h.number \in Nat
          <6>1. h = toSlave[1] /\ toSlave # <<>>  BY <1>0, <4>3 DEF Going
          <6>2. IsMessage(h)  BY <6>1 DEF TypeOK, ChannelOK, Slot
          <6> QED  BY <3>3, <6>2, Kinds DEF IsTransfer, FOEMessages
        <5> QED  BY <2>1, <2>7, <4>3, <5>1
      <4> QED  BY <3>1, <3>2, <3>3, <4>1, <4>2, <4>3 DEF ReadGoing
    <3> QED  BY <3>3 DEF ReadGoing
  <2>14. ReadServed'
    <3>1. n >= 1 \/ \E m \in Coming : IsData(m) /\ m.number = 1
      BY <2>4, <2>6, <2>7
    <3> QED  BY <1>0, <2>8, <2>9, <3>1 DEF ReadServed
  <2>15. \A m \in Coming' : m = g \/ \E i \in 1 .. Len(toMaster) : m = toMaster[i]
    <3>1. \A m \in Fetched' : m = g  BY <2>2, <2>5 DEF Fetched
    <3> QED  BY <2>2, <3>1 DEF Coming, Elems
  <2>16. ReadComing'
    <3>1. ASSUME NEW m \in Coming', IsData(m)
          PROVE  m.number # n' + 1 /\ m.number <= n' + 1
      <4>1. CASE n = 0
        <5>1. g.number = 1  BY <2>4, <4>1
        <5>2. m.number = 1  BY <2>4, <2>6, <2>8, <2>15, <3>1, <4>1, <5>1 DEF ReadOrder
        <5> QED  BY <2>1, <4>1, <5>2
      <4>2. CASE n >= 1
        <5>1. m \in Coming  BY <2>6, <2>15 DEF Coming, Elems
        <5>2. m.number <= n + 1  BY <2>8, <3>1, <4>2, <5>1 DEF ReadComing
        <5>3. m.number \in Nat
          <6>1. IsMessage(m)
            BY <1>0, <2>5, <2>15 DEF TypeOK, ChannelOK, Slot
          <6>2. m.proto = "FoE"  BY <3>1 DEF IsData, IsFOEMessage
          <6> QED  BY <6>1, <6>2, Kinds DEF IsTransfer, FOEMessages
        <5> QED  BY <2>1, <2>7, <5>2, <5>3
      <4> QED  BY <2>7, <4>1, <4>2
    <3> QED  BY <3>1 DEF ReadComing, IsData, IsFOEMessage
  <2>17. ReadOrder'
    <3>1. n' # 0  BY <2>1, <2>7
    <3> QED  BY <3>1 DEF ReadOrder
  <2> QED  BY <2>2, <2>12, <2>13, <2>14, <2>16, <2>17 DEF ReadOK
<1> QED  BY <1>3, <1>4

\* An acknowledge comes: the slave has what was sent.
LEMMA WriteAnswerKeeps ==
  ASSUME TypeOK, WriteOK, FOEWriteAnswer, UNCHANGED foeslave
  PROVE  ReadOK' /\ WriteOK'
<1>0. pc = "answer" /\ Call("FOEwrite") /\ UNCHANGED <<call, calls, files, foe, stale>>
  BY DEF FOEWriteAnswer, foeslave, CallMbxsend, Return, Same
<1>1. ReadOK'  BY <1>0 DEF ReadOK, CleanRead, Call
<1> SUFFICES ASSUME CleanWrite'  PROVE WriteOK'
  BY <1>1 DEF WriteOK
<1>2. CleanWrite  BY <1>0 DEF CleanWrite, Asked, Call
<1>3. File' = File /\ Content' = Content /\ (\A k : Has(k)' <=> Has(k))
  BY <1>0 DEF File, Content, Written, Has
<1>4. /\ n \in Nat /\ calls \in Nat /\ call.name \in Files /\ call.size \in Nat
  BY <1>0 DEF TypeOK, CallOK, FOECall
<1>5. CASE Return(0)
  <2>1. pc' = "idle" /\ ~Alive' /\ result' = 0  BY <1>5, ReturnQuiets
  <2> QED  BY <2>1 DEF WriteOK
<1>6. CASE Return(1) /\ slipped'
  <2>1. pc' = "idle" /\ ~Alive'  BY <1>6, ReturnQuiets
  <2> QED  BY <1>6, <2>1 DEF WriteOK
<1>7. ASSUME wkc > 0, IsFOEMessage(got[1], "ack"), got[1].number = n
      PROVE  Has(n) /\ (\A g \in Going : g.proto # "FoE") /\ WriteComing
  <2>1. old # <<>> /\ old[1] = got[1]  BY <1>0, <1>7 DEF TypeOK, PlaceOK, FOECall
  <2>2. got[1] \in Coming  BY <1>0, <2>1 DEF Coming, Fetched
  <2>3. WriteComing  BY <1>0, <1>2, <1>7 DEF WriteOK, Alive
  <2> QED  BY <1>7, <2>2, <2>3 DEF WriteComing, IsAck
<1>8. CASE wkc > 0 /\ IsFOEMessage(got[1], "ack") /\ got[1].number = n /\ ~Due /\ Return(1)
  <2>1. pc' = "idle" /\ ~Alive' /\ \A g \in Going' : g \in Going  BY <1>8, ReturnQuiets
  <2>2. call.size > 0  BY <1>2 DEF CleanWrite
  <2>3. ~(n * maxdata <= call.size)
    <3>1. n * maxdata \in Nat  BY <1>4, FOEAssumption
    <3> QED  BY <1>4, <1>8, <2>2, <3>1 DEF Due
  <2>4. File = Content  BY <1>7, <1>8, <2>3 DEF Has
  <2>5. \A g \in Going' : g.proto # "FoE"  BY <1>7, <1>8, <2>1
  <2> QED  BY <1>3, <2>1, <2>4, <2>5 DEF WriteOK
<1>9. CASE /\ wkc > 0 /\ IsFOEMessage(got[1], "ack") /\ got[1].number = n /\ Due /\ n' = n + 1
           /\ CallMbxsend(FOEMessage("data", n + 1, "none", Packet(Content, n + 1)), "sent")
  <2> DEFINE d == FOEMessage("data", n + 1, "none", Packet(Content, n + 1))
  <2>1. /\ offered' = <<d>> /\ pc' = "send"
        /\ UNCHANGED <<toSlave, toMaster, old, doubt>>
    BY <1>9 DEF CallMbxsend
  <2>2. d.proto = "FoE" /\ d.op = "data" /\ d.number = n' /\ d.data = Packet(Content', n')
    BY <1>3, <1>9 DEF FOEMessage, Packet
  <2> HIDE DEF d
  <2>3. Has(n) /\ (\A g \in Going : g.proto # "FoE") /\ WriteComing  BY <1>7, <1>9
  <2>4. toSlave # <<>> => toSlave[1].proto # "FoE"  BY <2>3 DEF Going
  <2>5. \A g \in Going' : g = d \/ g.proto # "FoE"  BY <2>1, <2>4 DEF Going
  <2>6. WriteGoing'
    <3>1. n' >= 1 /\ n' - 1 = n  BY <1>4, <1>9
    <3>2. (n' - 1) * maxdata <= call.size
      <4>1. n * maxdata \in Nat  BY <1>4, FOEAssumption
      <4>2. n * maxdata <= call.size  BY <1>4, <1>9, <4>1 DEF Due
      <4> QED  BY <3>1, <4>2
    <3>3. Has(n - 1)'
      <4>1. \A k : k = n => Has(k)'  BY <1>3, <2>3
      <4> QED  BY <3>1, <4>1
    <3> QED  BY <1>0, <2>2, <2>5, <3>1, <3>2, <3>3 DEF WriteGoing
  <2>7. WriteAlone'  BY <2>1, <2>4 DEF WriteAlone
  <2>8. WriteComing'
    <3>1. Fetched' \subseteq Fetched  BY <1>0, <2>1 DEF Fetched
    <3>2. \A m \in Coming' : m \in Coming  BY <2>1, <3>1 DEF Coming
    <3>3. ASSUME NEW m \in Coming', IsAck(m)  PROVE m.number <= n' /\ m.number # n'
      <4>1. m \in Coming /\ m.number <= n  BY <2>3, <3>2, <3>3 DEF WriteComing
      <4>2. m.number \in Nat
        <5>1. IsMessage(m)
          <6>1. CASE m \in Fetched  BY <6>1 DEF Fetched, TypeOK, ChannelOK, Slot
          <6>2. CASE m \in Elems(toMaster)  BY <6>2 DEF Elems, TypeOK, ChannelOK
          <6> QED  BY <4>1, <6>1, <6>2 DEF Coming
        <5>2. m.proto = "FoE"  BY <3>3 DEF IsAck, IsFOEMessage
        <5> QED  BY <5>1, <5>2, Kinds DEF IsTransfer, FOEMessages
      <4> QED  BY <1>4, <1>9, <4>1, <4>2
    <3> QED  BY <3>3 DEF WriteComing, IsAck, IsFOEMessage
  <2> QED  BY <2>1, <2>6, <2>7, <2>8 DEF WriteOK
<1> QED  BY <1>5, <1>6, <1>8, <1>9 DEF FOEWriteAnswer, Content

LEMMA TransferKeeps ==
  ASSUME TypeOK, ReadOK, WriteOK, FOE
  PROVE  ReadOK' /\ WriteOK'
<1>1. CASE CallFOEread \/ CallFOEwrite
  <2>1. \E c : Begin(c, TRUE)  BY <1>1 DEF CallFOEread, CallFOEwrite
  <2>2. pc' = "receive" /\ return' = "start"  BY <2>1, Begins
  <2> QED  BY <2>2 DEF ReadOK, WriteOK, CleanRead, CleanWrite, Asked
<1>2. UNCHANGED foeslave  BY DEF FOE
<1> QED
  BY <1>1, <1>2, RequestsRead, RequestsWrite, SentKeeps, LastSentKeeps, ReadAnswerKeeps,
     WriteAnswerKeeps DEF FOE

-----------------------------------------------------------------------------
(***************************************************************************)
(* The theorem.                                                            *)
(***************************************************************************)
TransferInv == TypeOK /\ ReadOK /\ WriteOK

LEMMA NoTransferYet ==
  ASSUME ~FOECall
  PROVE  ReadOK /\ WriteOK
BY DEF FOECall, Call, ReadOK, WriteOK, CleanRead, CleanWrite

LEMMA TransferInvKept == TransferInv /\ [Next]_vars => TransferInv'
<1> SUFFICES ASSUME TypeOK, ReadOK, WriteOK, [Next]_vars  PROVE TransferInv'
  BY DEF TransferInv
<1>1. TypeOK'  BY TypesKept
<1>2. CASE ~FOECall'  BY <1>1, <1>2, OtherKeeps DEF TransferInv
<1>3. CASE FOECall'
  <2> SUFFICES ReadOK' /\ WriteOK'
    BY <1>1 DEF TransferInv
  <2>1. ASSUME Passes  PROVE ReadOK' /\ WriteOK'  BY <2>1, ReadPasses, WritePasses
  <2>2. CASE (\E ms : Speaks(ms)) /\ UNCHANGED foeslave  BY <2>1, <2>2, SpeakPasses
  <2>3. CASE EOEHook /\ UNCHANGED foeslave
    <3>1. FOECall  BY <1>3, <2>3 DEF EOEHook, FOECall, Call
    <3> QED  BY <2>1, <2>3, <3>1, HookPasses
  <2>4. CASE (Mbxsend \/ Mbxreceive \/ Repeat) /\ UNCHANGED foeslave
    <3>1. FOECall  BY <1>3, <2>4 DEF Mbxsend, Mbxreceive, Repeat, FOECall, Call
    <3> QED  BY <2>1, <2>4, <3>1, MailboxPasses
  <2>5. CASE ServeFOE  BY <2>5, ServeKeepsRead, ServeKeepsWrite
  <2>6. CASE FOE  BY <2>6, TransferKeeps
  <2>7. CASE UNCHANGED vars
    <3>1. UNCHANGED <<offered, toSlave, toMaster, old, doubt, pc, return, wkc, call, calls, n, buf,
                      stale, slipped, result, files, foe>>
      BY <2>7 DEF vars, channel, client, services, foeslave
    <3>2. Passes
      BY <3>1 DEF Passes, Asked, Alive, Ends, Going, Coming, Fetched, Elems, WriteAlone, ReadOrder,
         IsData, IsFOEMessage
    <3> QED  BY <2>1, <3>2
  <2>8. ~OtherCall  BY <1>3 DEF OtherCall, FOECall, Call
  <2> QED  BY <2>2, <2>3, <2>4, <2>5, <2>6, <2>7, <2>8, Steps
<1> QED  BY <1>2, <1>3

\* A file transfer that reports success has moved the whole file, in order: what a read
\* returns is the file of the slave, what a write sent is in it. Between them the calls of
\* other protocols, frames of the slave, lost and repeated messages may do what they will;
\* only what an earlier transfer left under way may spoil it (FOETrue of module FoE).
THEOREM TransfersTrue == Spec => []FOETrue
<1>1. Init => TransferInv
  <2> SUFFICES ASSUME Init  PROVE TransferInv
    OBVIOUS
  <2>1. ~FOECall  BY DEF Init, ClientInit, FOECall, Call
  <2> QED  BY <2>1, InitTypes, NoTransferYet DEF TransferInv
<1>2. TransferInv => FOETrue
  <2> SUFFICES ASSUME TransferInv  PROVE FOETrue
    OBVIOUS
  <2>1. FOEReadTrue
    BY DEF TransferInv, FOEReadTrue, Success, ReadOK, CleanRead, Asked, File
  <2>2. FOEWriteTrue
    BY DEF TransferInv, FOEWriteTrue, Success, WriteOK, CleanWrite, Asked, File, Content
  <2> QED  BY <2>1, <2>2 DEF FOETrue
<1> QED  BY <1>1, <1>2, TransferInvKept, PTL DEF Spec

-----------------------------------------------------------------------------
(***************************************************************************)
(* Values of a drive: where a call of SoE is, and what other protocols do. *)
(***************************************************************************)
\* The places of a call of SoE. A write that has more fragments to send is part of the way.
Partway ==
  \/ pc = "send" /\ return = "sent"
  \/ pc \in {"sent", "early answer"}
  \/ pc = "receive" /\ return = "early answer"

SOEPlaceOK ==
  SOECall =>
    /\ pc \in {"idle", "start", "send", "sent", "receive", "answer", "early answer", "last"}
    /\ pc = "send" => return \in {"sent", "last"}
    /\ pc = "receive" => return \in {"start", "answer", "early answer"}
    /\ ~Asked => n = 0 /\ buf = <<>>
    /\ Call("SoEwrite") /\ Asked =>
         /\ n >= 1 /\ (n = 1 \/ (n - 1) * maxvalue < call.size)
         /\ Partway => n * maxvalue < call.size
    /\ Call("SoEread") =>
         pc \notin {"early answer", "last"} /\ return \notin {"early answer", "last"}

\* The slave says something of another protocol than SoE.
Utters(ms) ==
  /\ IsList(ms) /\ \A i \in 1 .. Len(ms) : ms[i].proto # "SoE"
  /\ toMaster' = toMaster \o ms
  /\ \/ UNCHANGED toSlave
     \/ toSlave' = <<>> /\ toSlave # <<>> /\ toSlave[1].proto # "SoE"
  /\ UNCHANGED <<offered, got, old, doubt, client>>

\* An answer of another protocol is such an utterance.
LEMMA Utterance ==
  ASSUME NEW proto, proto # "SoE", Arrived(proto)
  PROVE  /\ \A ms : Answer(ms) /\ IsList(ms) /\ (\A i \in 1 .. Len(ms) : ms[i].proto # "SoE") =>
              Utters(ms)
         /\ \A m : Answer(<<m>>) /\ m.proto # "SoE" => \E ms : Utters(ms)
         /\ Answer(<<>>) => \E ms : Utters(ms)
<1>1. \A ms : Answer(ms) /\ IsList(ms) /\ (\A i \in 1 .. Len(ms) : ms[i].proto # "SoE") =>
        Utters(ms)
  BY DEF Arrived, Answer, Utters
<1>2. ASSUME NEW m, Answer(<<m>>), m.proto # "SoE"  PROVE \E ms : Utters(ms)
  <2>1. IsList(<<m>>) /\ \A i \in 1 .. Len(<<m>>) : <<m>>[i].proto # "SoE"  BY <1>2, ListOfOne
  <2> QED  BY <1>1, <1>2, <2>1
<1>3. ASSUME Answer(<<>>)  PROVE \E ms : Utters(ms)
  <2>1. IsList(<<>>) /\ \A i \in 1 .. Len(<<>>) : <<>>[i].proto # "SoE"  BY ListEmpty
  <2> QED  BY <1>1, <1>3, <2>1
<1> QED  BY <1>1, <1>2, <1>3

\* So is a frame of the slave,
LEMMA FrameUtters ==
  ASSUME TypeOK, SendFragment
  PROVE  \E ms : Utters(ms)
<1>1. PICK ms : Speaks(ms) /\ \A i \in 1 .. Len(ms) : ms[i].proto = "EoE"  BY Sends
<1> QED  BY <1>1 DEF Speaks, Utters, SendFragment

\* an answer of FoE,
LEMMA FOEUtters ==
  ASSUME ServeFOE
  PROVE  \E ms : Utters(ms)
<1>1. Arrived("FoE")  BY DEF ServeFOE
<1>2. Answer(<<>>) \/ \E m : m.proto = "FoE" /\ Answer(<<m>>)
  <2>1. \A op, k, d : FOEAnswer(op, k, d) => \E m : m.proto = "FoE" /\ Answer(<<m>>)
    BY DEF FOEAnswer, FOEMessage
  <2> QED  BY <2>1 DEF ServeFOE, ServeRead, ServeAck, ServeWrite, ServeData, TooBusy, FOERefuse
<1> QED  BY <1>1, <1>2, Utterance

\* of EoE,
LEMMA EOEUtters ==
  ASSUME ServeEOE
  PROVE  \E ms : Utters(ms)
<1>1. Arrived("EoE")  BY DEF ServeEOE, ServeFragment, ServeSetIp, ServeGetIp
<1>2. Answer(<<>>) \/ \E m : m.proto = "EoE" /\ Answer(<<m>>)
  BY DEF ServeEOE, ServeFragment, ServeSetIp, ServeGetIp, EOEMessage
<1> QED  BY <1>1, <1>2, Utterance

\* and of CoE.
LEMMA COEUtters ==
  ASSUME ServeCOE
  PROVE  \E ms : Utters(ms)
<1>1. Arrived("CoE")  BY DEF ServeCOE
<1>2. \/ Answer(ListFragments) \/ Answer(<<>>)
      \/ \E m : m.proto = "CoE" /\ Answer(<<m>>)
  BY DEF ServeCOE, COEMessage
<1>3. IsList(ListFragments) /\ \A i \in 1 .. Len(ListFragments) : ListFragments[i].proto # "SoE"
  <2> DEFINE count == (Len(Dictionary) + PerFragment - 1) \div PerFragment
             M(k) == COEMessage("list", <<>>,
                       SubSeq(Dictionary, (k - 1) * PerFragment + 1,
                              SmallerOf(k * PerFragment, Len(Dictionary))),
                       count - k)
  <2>1. count \in Nat
    <3>1. Len(Dictionary) \in Nat /\ PerFragment \in Nat \ {0}  BY InfoAssumption
    <3> QED  BY <3>1
  <2>2. ListFragments = [k \in 1 .. count |-> M(k)]  BY DEF ListFragments
  <2>3. \A k : M(k).proto # "SoE"  BY DEF COEMessage
  <2> HIDE DEF count, M
  <2>4. ListFragments \in [1 .. count -> {M(k) : k \in 1 .. count}]  BY <2>2
  <2>5. IsList(ListFragments) /\ Len(ListFragments) = count  BY <2>1, <2>4, ListOfFunction
  <2> QED  BY <2>2, <2>3, <2>5
<1> QED  BY <1>1, <1>2, <1>3, Utterance

\* A call of another protocol is not one of SoE.
LEMMA NotOfSOE ==
  ASSUME EOE \/ FOE \/ COE
  PROVE  ~SOECall'
<1>1. ASSUME NEW c, NEW clears, Begin(c, clears), c.fn \notin {"SoEread", "SoEwrite"}
      PROVE  ~SOECall'
  BY <1>1 DEF Begin, SOECall, Call
<1>2. ASSUME UNCHANGED call, ~SOECall  PROVE ~SOECall'
  BY <1>2 DEF SOECall, Call
<1>3. \A r : Return(r) => UNCHANGED call  BY DEF Return
<1>4. \A t, p : CallMbxreceive(t, p) => UNCHANGED call  BY DEF CallMbxreceive
<1>5. \A m, p : CallMbxsend(m, p) => UNCHANGED call  BY DEF CallMbxsend
<1>6. \A r : EndOfEntry(r) => UNCHANGED call  BY <1>3, <1>4 DEF EndOfEntry
<1>7. \A fn, m : SendRequest(fn, m) => Call(fn) /\ UNCHANGED call  BY <1>5 DEF SendRequest
<1>8. CASE EOE
  <2>1. CASE CallEOE
    BY <1>1, <2>1 DEF CallEOE
  <2>2. CASE SendEOEFragment \/ SetIpRequest \/ GetIpRequest
    <3>1. UNCHANGED call /\ ~SOECall
      BY <2>2 DEF SendEOEFragment, SetIpRequest, GetIpRequest, SendRequest, CallMbxsend, SOECall,
         Call
    <3> QED  BY <1>2, <3>1
  <2>3. CASE EOEsent \/ EOErecv \/ EOEreceived
    <3>1. UNCHANGED call /\ ~SOECall
      BY <1>3, <1>4, <2>3 DEF EOEsent, EOErecv, EOEreceived, SOECall, Call
    <3> QED  BY <1>2, <3>1
  <2>4. CASE IpSent \/ IpSet \/ IpGot
    <3>1. UNCHANGED call /\ ~SOECall
      BY <1>3, <1>4, <2>4 DEF IpSent, IpSet, IpGot, IsIp, SOECall, Call
    <3> QED  BY <1>2, <3>1
  <2> QED  BY <1>8, <2>1, <2>2, <2>3, <2>4 DEF EOE
<1>9. CASE FOE
  <2>1. CASE CallFOEread \/ CallFOEwrite
    BY <1>1, <2>1 DEF CallFOEread, CallFOEwrite
  <2>2. CASE ~(CallFOEread \/ CallFOEwrite)
    <3>1. UNCHANGED call /\ ~SOECall
      BY <1>3, <1>4, <1>5, <1>7, <1>9, <2>2 DEF FOE, ReadRequest, WriteRequest, FOESent, IsFOE,
         FOEReadSent, FOEReadAnswer, FOEWriteAnswer, SOECall, Call
    <3> QED  BY <1>2, <3>1
  <2> QED  BY <2>1, <2>2
<1>10. CASE COE
  <2>1. CASE CallCOE
    BY <1>1, <2>1 DEF CallCOE
  <2>2. CASE ListRequest \/ DescriptionRequest \/ EntryRequest \/ TxPDORequest \/ RxPDO
    <3>1. UNCHANGED call /\ ~SOECall
      BY <2>2 DEF ListRequest, DescriptionRequest, EntryRequest, TxPDORequest, RxPDO, SendRequest,
         CallMbxsend, SOECall, Call
    <3> QED  BY <1>2, <3>1
  <2>3. CASE COESent \/ RxPDOSent \/ NoResponse
    <3>1. UNCHANGED call /\ ~SOECall
      BY <1>3, <1>4, <1>6, <2>3 DEF COESent, IsCOE, RxPDOSent, NoResponse, SOECall, Call
    <3> QED  BY <1>2, <3>1
  <2>4. CASE ListFragment \/ Description \/ Entry \/ PDOReceived
    <3>1. UNCHANGED call /\ ~SOECall
      BY <1>3, <1>4, <1>6, <2>4 DEF ListFragment, Description, Entry, PDOReceived, GotResponse,
         SOECall, Call
    <3> QED  BY <1>2, <3>1
  <2> QED  BY <1>10, <2>1, <2>2, <2>3, <2>4 DEF COE
<1> QED  BY <1>8, <1>9, <1>10

\* What a step is to a call of SoE.
LEMMA SOESteps ==
  ASSUME TypeOK, [Next]_vars
  PROVE  \/ (\E ms : Utters(ms)) /\ UNCHANGED soeslave
         \/ EOEHook /\ UNCHANGED soeslave
         \/ (Mbxsend \/ Mbxreceive \/ Repeat) /\ UNCHANGED soeslave
         \/ ServeSOE
         \/ SOE
         \/ UNCHANGED vars
         \/ ~SOECall'
<1>1. CASE UseFOE
  BY <1>1, FOEUtters, NotOfSOE DEF UseFOE
<1>2. CASE UseEOE
  BY <1>2, EOEUtters, FrameUtters, NotOfSOE DEF UseEOE, Frame
<1>3. CASE UseSOE
  BY <1>3 DEF UseSOE
<1>4. CASE UseCOE
  BY <1>4, COEUtters, NotOfSOE DEF UseCOE
<1>5. CASE UseMailbox
  BY <1>5 DEF UseMailbox, services
<1> QED  BY <1>1, <1>2, <1>3, <1>4, <1>5 DEF Next

\* Where the functions of the mailbox lead.
LEMMA SOECalls ==
  /\ \A r : Return(r) => pc' = "idle" /\ return' = "idle" /\ UNCHANGED call
  /\ \A t, p : CallMbxreceive(t, p) => pc' = "receive" /\ return' = p /\ UNCHANGED call
  /\ \A m, p : CallMbxsend(m, p) => pc' = "send" /\ return' = p /\ UNCHANGED call
BY DEF Return, CallMbxreceive, CallMbxsend

\* What sending the next fragment of a write does.
LEMMA FragmentSent ==
  ASSUME NEW clean, SendSOEFragment(clean), Call("SoEwrite"), n \in Nat, call.size \in Nat
  PROVE  /\ n' = n + 1 /\ n' \in Nat
         /\ UNCHANGED <<call, calls, buf, result, toSlave, toMaster, got, old, doubt>>
         /\ slipped' = (slipped \/ ~clean)
         /\ pc' = "send"
         /\ return' = (IF n' * maxvalue < call.size THEN "sent" ELSE "last")
<1>1. /\ n' = n + 1 /\ slipped' = (slipped \/ ~clean) /\ UNCHANGED buf
      /\ \E m : CallMbxsend(m, IF NextLeft > maxvalue THEN "sent" ELSE "last")
  BY DEF SendSOEFragment
<1>2. /\ pc' = "send" /\ return' = (IF NextLeft > maxvalue THEN "sent" ELSE "last")
      /\ UNCHANGED <<call, calls, result, toSlave, toMaster, got, old, doubt>>
  BY <1>1 DEF CallMbxsend
<1>3. NextLeft > maxvalue <=> n' * maxvalue < call.size
  <2>1. maxvalue \in Nat  BY SOEAssumption
  <2>2. n * maxvalue \in Nat /\ (n + 1) * maxvalue = n * maxvalue + maxvalue  BY <2>1
  <2> QED  BY <1>1, <2>1, <2>2 DEF NextLeft
<1> QED  BY <1>1, <1>2, <1>3

\* The call's own steps keep its places,
LEMMA SOEPlaces ==
  ASSUME TypeOK, SOEPlaceOK, SOE
  PROVE  SOEPlaceOK'
<1>0. SOECall => n \in Nat /\ call.size \in Nat  BY DEF TypeOK, CallOK
<1>1. CASE CallSOE
  <2>1. PICK c : Begin(c, TRUE)  BY <1>1 DEF CallSOE
  <2>2. /\ n' = 0 /\ buf' = <<>> /\ pc' = "receive" /\ return' = "start"
    BY <2>1, Begins
  <2> QED  BY <2>2 DEF SOEPlaceOK, Asked
<1>2. CASE SOERequest
  <2>1. pc = "start" /\ Call("SoEread") /\ pc' = "send" /\ return' = "sent" /\ UNCHANGED <<call, n>>
    BY <1>2 DEF SOERequest, SendRequest, CallMbxsend
  <2> QED  BY <2>1 DEF SOEPlaceOK, Asked, Call, SOECall
<1>3. CASE SOEReadSent
  <2>1. /\ Call("SoEread") /\ UNCHANGED <<call, n, buf>>
        /\ \/ pc' = "receive" /\ return' = "answer"
           \/ pc' = "idle" /\ return' = "idle"
    BY <1>3, SOECalls DEF SOEReadSent, Same
  <2> QED  BY <2>1 DEF SOEPlaceOK, Asked, Call, SOECall
<1>4. CASE SOEReadAnswer
  <2>1. /\ Call("SoEread") /\ UNCHANGED call
        /\ \/ pc' = "receive" /\ return' = "answer"
           \/ pc' = "idle" /\ return' = "idle"
    BY <1>4, SOECalls DEF SOEReadAnswer
  <2> QED  BY <2>1 DEF SOEPlaceOK, Asked, Call, SOECall
<1>5. ASSUME NEW clean, SendSOEFragment(clean), Call("SoEwrite"), pc = "start" \/ Partway
      PROVE  SOEPlaceOK'
  <2>1. n \in Nat /\ call.size \in Nat  BY <1>0, <1>5 DEF SOECall
  <2>2. /\ n' = n + 1 /\ n' \in Nat /\ UNCHANGED call /\ pc' = "send"
        /\ return' = (IF n' * maxvalue < call.size THEN "sent" ELSE "last")
    BY <1>5, <2>1, FragmentSent
  <2>3. n' = 1 \/ (n' - 1) * maxvalue < call.size
    <3>1. n = 0 \/ n * maxvalue < call.size
      BY <1>5 DEF SOEPlaceOK, Asked, SOECall, Partway
    <3>2. n' - 1 = n  BY <2>1, <2>2
    <3> QED  BY <2>1, <2>2, <3>1, <3>2
  <2>4. n' >= 1 /\ SOECall  BY <1>5, <2>1, <2>2 DEF SOECall
  <2>5. Partway' => n' * maxvalue < call.size  BY <2>2 DEF Partway
  <2>6. /\ pc' = "send" /\ return' \in {"sent", "last"} /\ Call("SoEwrite")' /\ ~Call("SoEread")'
    BY <1>5, <2>2 DEF Call
  <2> QED  BY <2>2, <2>3, <2>4, <2>5, <2>6 DEF SOEPlaceOK, Asked
<1>6. CASE SOEWriteFirst
  BY <1>5, <1>6 DEF SOEWriteFirst
<1>7. CASE SOEWriteSent
  <2>1. CASE CallMbxreceive(1, "early answer") /\ Same
    <3>1. /\ Call("SoEwrite") /\ UNCHANGED <<call, n>> /\ pc = "sent" /\ pc' = "receive"
          /\ return' = "early answer"
      BY <1>7, <2>1, SOECalls DEF SOEWriteSent, Same
    <3> QED  BY <3>1 DEF SOEPlaceOK, Asked, Partway, Call, SOECall
  <2> QED  BY <1>5, <1>7, <2>1 DEF SOEWriteSent, Partway
<1>8. CASE SOEWriteLast
  <2>1. /\ Call("SoEwrite") /\ UNCHANGED <<call, n>> /\ pc = "last"
        /\ \/ pc' = "receive" /\ return' = "answer"
           \/ pc' = "idle" /\ return' = "idle"
    BY <1>8, SOECalls DEF SOEWriteLast, Same
  <2> QED  BY <2>1 DEF SOEPlaceOK, Asked, Partway, Call, SOECall
<1>9. CASE SOEWriteAnswer
  <2>1. CASE \E r : Return(r) /\ Same
    <3>1. /\ Call("SoEwrite") /\ UNCHANGED <<call, n>> /\ pc \in {"answer", "early answer"}
          /\ pc' = "idle" /\ return' = "idle"
      BY <1>9, <2>1, SOECalls DEF SOEWriteAnswer, Same
    <3> QED  BY <3>1 DEF SOEPlaceOK, Asked, Partway, Call, SOECall
  <2>2. CASE SendSOEFragment(FALSE)
    <3>1. CASE pc = "early answer"  BY <1>5, <1>9, <2>2, <3>1 DEF SOEWriteAnswer, Partway
    <3>2. CASE pc # "early answer"
      <4>1. Return(1) \/ Return(0)  BY <1>9, <3>2 DEF SOEWriteAnswer
      <4> QED  BY <1>9, <2>1, <3>2, <4>1 DEF SOEWriteAnswer
    <3> QED  BY <3>1, <3>2
  <2> QED  BY <1>9, <2>1, <2>2 DEF SOEWriteAnswer
<1> QED  BY <1>1, <1>2, <1>3, <1>4, <1>6, <1>7, <1>8, <1>9 DEF SOE

\* and so does a step that returns from a function of the mailbox or stays,
LEMMA MovePlaces ==
  ASSUME SOEPlaceOK, UNCHANGED <<call, n, buf, return>>,
         pc' = pc \/ (pc \in {"send", "receive"} /\ pc' = return)
  PROVE  SOEPlaceOK'
<1>1. CASE pc' = pc  BY <1>1 DEF SOEPlaceOK, SOECall, Asked, Partway, Call
<1>2. CASE pc \in {"send", "receive"} /\ pc' = return
  BY <1>2 DEF SOEPlaceOK, SOECall, Asked, Partway, Call
<1> QED  BY <1>1, <1>2

\* so that every step does.
LEMMA SOEPlacesKept ==
  ASSUME TypeOK, SOEPlaceOK, [Next]_vars
  PROVE  SOEPlaceOK'
<1>1. CASE \E ms : Utters(ms)
  BY <1>1, MovePlaces DEF Utters, client
<1>2. CASE EOEHook
  BY <1>2, MovePlaces DEF EOEHook
<1>3. CASE Mbxsend
  BY <1>3, MovePlaces DEF Mbxsend
<1>4. CASE Mbxreceive
  BY <1>4, MovePlaces DEF Mbxreceive
<1>5. CASE Repeat
  BY <1>5, MovePlaces DEF Repeat
<1>6. CASE ServeSOE
  <2>1. UNCHANGED client
    BY <1>6 DEF ServeSOE, ServeSOERead, ServeSOEWrite, SOEReply, Answer
  <2> QED  BY <2>1, MovePlaces DEF client
<1>7. CASE UNCHANGED vars  BY <1>7, MovePlaces DEF vars, client
<1>8. CASE ~SOECall'  BY <1>8 DEF SOEPlaceOK
<1> QED  BY <1>1, <1>2, <1>3, <1>4, <1>5, <1>6, <1>7, <1>8, SOESteps, SOEPlaces

-----------------------------------------------------------------------------
(***************************************************************************)
(* Steps that leave what a call of SoE sends and gets as it is.            *)
(***************************************************************************)
Listening ==
  \/ pc = "send"
  \/ pc = "receive" /\ return \in {"answer", "early answer"}
  \/ pc \in {"sent", "last"} /\ wkc > 0
Answered == pc \in {"answer", "early answer"} /\ wkc > 0

IsSOE(m, op) == m.proto = "SoE" /\ m.op = op
Pending == \E g \in Going : g.proto = "SoE"
Fresh == doubt /\ old # <<>> => old[1].proto # "SoE"
Alone == pc = "send" /\ toSlave # <<>> => toSlave[1].proto # "SoE"
NothingOfSOE == \A s \in stale : s[1] # "SoE"

\* The messages of SoE that come stay the same, d places earlier.
Shifted(d) ==
  /\ \A i \in 1 .. Len(toMaster') : toMaster'[i].proto = "SoE" =>
       i + d \in 1 .. Len(toMaster) /\ toMaster'[i] = toMaster[i + d]
  /\ \A j \in 1 .. Len(toMaster) : toMaster[j].proto = "SoE" =>
       j - d \in 1 .. Len(toMaster') /\ toMaster'[j - d] = toMaster[j]

\* A step that adds nothing to what a call of SoE sends and gets.
Spares ==
  /\ UNCHANGED <<call, calls, n, buf, stale, slipped, result, values, writing>>
  /\ pc' = "idle" => pc = "idle"
  /\ Asked' => Asked
  /\ doubt => doubt'
  /\ \A g \in Going' : g.proto = "SoE" => g \in Going
  /\ Listening' =>
       Listening /\ (Alone => Alone') /\ \A g \in Going : g.proto = "SoE" => g \in Going'
  /\ Answered' => Answered /\ got' = got
  /\ Fresh /\ (Listening' \/ Answered') => Fresh' /\ \E d \in Int : Shifted(d)

\* What stays the same is shifted by nothing.
LEMMA NotShifted ==
  ASSUME TypeOK, toMaster' = toMaster
  PROVE  Shifted(0)
<1>1. Len(toMaster) \in Nat  BY ListPlaces DEF TypeOK, ChannelOK
<1> QED  BY <1>1 DEF Shifted

\* What the slave says of another protocol spares a call of SoE,
LEMMA UtterSpares ==
  ASSUME TypeOK, NEW ms, Utters(ms), UNCHANGED soeslave
  PROVE  Spares
<1>0. /\ IsList(toMaster) /\ IsList(ms) /\ \A i \in 1 .. Len(ms) : ms[i].proto # "SoE"
      /\ toMaster' = toMaster \o ms
      /\ UNCHANGED <<offered, got, old, doubt, pc, return, wkc>>
  BY DEF TypeOK, ChannelOK, Utters, client
<1>1. /\ Len(toMaster) \in Nat /\ Len(ms) \in Nat /\ Len(toMaster') = Len(toMaster) + Len(ms)
      /\ \A i \in 1 .. Len(toMaster) : toMaster'[i] = toMaster[i]
      /\ \A i \in Len(toMaster) + 1 .. Len(toMaster') : toMaster'[i] = ms[i - Len(toMaster)]
  BY <1>0, ListJoined, ListPlaces
<1>2. ASSUME NEW i \in 1 .. Len(toMaster'), toMaster'[i].proto = "SoE"
      PROVE  i \in 1 .. Len(toMaster) /\ toMaster'[i] = toMaster[i]
  <2>1. CASE i \in 1 .. Len(toMaster)  BY <1>1, <2>1
  <2>2. CASE i \in Len(toMaster) + 1 .. Len(toMaster')
    <3>1. i - Len(toMaster) \in 1 .. Len(ms)  BY <1>1, <2>2
    <3> QED  BY <1>0, <1>1, <1>2, <2>2, <3>1
  <2> QED  BY <1>1, <2>1, <2>2
<1>3. Shifted(0)  BY <1>1, <1>2 DEF Shifted
<1>4. /\ \A g \in Going' : g \in Going
      /\ \A g \in Going : g.proto = "SoE" => g \in Going'
  BY <1>0 DEF Going, Utters
<1>5. /\ UNCHANGED <<call, calls, n, buf, stale, slipped, result, values, writing>>
      /\ (Asked' <=> Asked) /\ (Listening' <=> Listening) /\ (Answered' <=> Answered)
      /\ (Fresh' <=> Fresh)
  BY DEF Utters, client, soeslave, Asked, Listening, Answered, Fresh
<1>6. Alone => Alone'  BY <1>0 DEF Alone, Utters
<1> QED  BY <1>0, <1>3, <1>4, <1>5, <1>6 DEF Spares

\* the hook that takes a frame does,
LEMMA HookSpares ==
  ASSUME TypeOK, SOEPlaceOK, SOECall, EOEHook, UNCHANGED soeslave
  PROVE  Spares
<1>0. /\ pc = "receive" /\ toMaster # <<>> /\ toMaster[1].proto = "EoE"
      /\ toMaster' = toMaster \/ toMaster' = Tail(toMaster)
      /\ old' = <<toMaster[1]>> /\ wkc' = 0
      /\ pc' = return \/ pc' = pc
      /\ UNCHANGED <<offered, toSlave, doubt, return>>
  BY DEF EOEHook, Hooked
<1>1. return \in {"start", "answer", "early answer"}  BY <1>0 DEF SOEPlaceOK
<1>2. IsList(toMaster) /\ Len(toMaster) \in Nat /\ Len(toMaster) >= 1
  BY <1>0, ListPlaces DEF TypeOK, ChannelOK
<1>3. \E d \in Int : Shifted(d)
  <2>1. CASE toMaster' = toMaster  BY <2>1, NotShifted
  <2>2. CASE toMaster' = Tail(toMaster)
    <3>1. toMaster' = SubSeq(toMaster, 2, Len(toMaster)) /\ 2 \in 1 .. Len(toMaster) + 1
      BY <1>0, <1>2, <2>2, ListTail
    <3>2. /\ Len(toMaster') = Len(toMaster) + 1 - 2
          /\ \A i \in 1 .. Len(toMaster') :
               toMaster'[i] = toMaster[2 + i - 1] /\ 2 + i - 1 \in 1 .. Len(toMaster)
      BY <1>2, <3>1, ListFrom
    <3>3. \A i \in 1 .. Len(toMaster') : 2 + i - 1 = i + 1  BY <1>2, <3>2
    <3>4. ASSUME NEW j \in 1 .. Len(toMaster), toMaster[j].proto = "SoE"
          PROVE  j - 1 \in 1 .. Len(toMaster') /\ toMaster'[j - 1] = toMaster[j]
      <4>1. j # 1  BY <1>0, <3>4
      <4>2. j - 1 \in 1 .. Len(toMaster') /\ 2 + (j - 1) - 1 = j  BY <1>2, <3>2, <4>1
      <4> QED  BY <3>2, <4>2
    <3>5. Shifted(1)  BY <3>2, <3>3, <3>4 DEF Shifted
    <3> QED  BY <3>5
  <2> QED  BY <1>0, <2>1, <2>2
<1>4. Fresh'
  <2>1. old'[1] = toMaster[1]  BY <1>0
  <2> QED  BY <1>0, <2>1 DEF Fresh
<1>5. Going' = Going  BY <1>0, <1>1 DEF Going
<1>6. UNCHANGED <<call, calls, n, buf, stale, slipped, result, values, writing>>
  BY DEF EOEHook, soeslave
<1>7. /\ pc' # "idle" /\ (Asked' => Asked) /\ (Listening' => Listening) /\ ~Answered' /\ Alone'
  <2>1. pc' \in {"receive", "start", "answer", "early answer"}  BY <1>0, <1>1
  <2>2. pc' # "idle" /\ Alone'  BY <2>1 DEF Alone
  <2>3. ~(wkc' > 0)  BY <1>0
  <2>4. (Asked' => Asked) /\ ~Answered'  BY <1>0, <2>3 DEF Asked, Answered
  <2>5. Listening' => Listening  BY <1>0, <2>1, <2>3 DEF Listening
  <2> QED  BY <2>2, <2>4, <2>5
<1> QED  BY <1>0, <1>3, <1>4, <1>5, <1>6, <1>7 DEF Spares

\* the functions of the mailbox do that return no message,
LEMMA MailboxSpares ==
  ASSUME TypeOK, SOEPlaceOK, SOECall, Mbxsend \/ (Mbxreceive /\ ~Answered') \/ Repeat,
         UNCHANGED soeslave
  PROVE  Spares
<1>0. UNCHANGED <<call, calls, n, buf, stale, slipped, result, values, writing, return>>
  BY DEF soeslave, Mbxsend, Mbxreceive, Repeat
<1>1. IsList(toMaster) /\ Len(toMaster) \in Nat  BY ListPlaces DEF TypeOK, ChannelOK
<1>2. CASE Mbxsend
  <2>1. /\ pc = "send" /\ pc' = return /\ return \in {"sent", "last"} /\ offered # <<>>
        /\ UNCHANGED <<toMaster, got, old, doubt>>
        /\ \/ wkc' = 0 /\ UNCHANGED toSlave
           \/ wkc' \in {0, 1} /\ toSlave = <<>> /\ toSlave' = offered
    BY <1>2 DEF Mbxsend, Deliver, Offer, TypeOK, ChannelOK, SOEPlaceOK
  <2>2. \A g \in Going' : g \in Going  BY <2>1 DEF Going
  <2>3. /\ pc' # "idle" /\ Asked /\ Alone' /\ ~Answered' /\ Listening
        /\ Listening' => wkc' = 1
    <3>1. pc' \in {"sent", "last"}  BY <2>1
    <3>2. pc' # "idle" /\ Asked /\ Alone' /\ ~Answered' /\ Listening
      BY <2>1, <3>1 DEF Asked, Alone, Answered, Listening
    <3>3. Listening' => wkc' > 0  BY <3>1 DEF Listening
    <3>4. wkc' = 0 \/ wkc' = 1  BY <2>1
    <3> QED  BY <3>2, <3>3, <3>4
  <2>4. ASSUME Listening'  PROVE \A g \in Going : g \in Going'
    <3>1. toSlave = <<>> /\ toSlave' = offered  BY <2>1, <2>3, <2>4
    <3> QED  BY <2>1, <3>1 DEF Going
  <2>5. Shifted(0) /\ (Fresh' <=> Fresh)  BY <2>1, NotShifted DEF Fresh
  <2> QED  BY <1>0, <2>1, <2>2, <2>3, <2>4, <2>5 DEF Spares
<1>3. CASE Mbxreceive /\ ~Answered'
  <2>1. /\ pc = "receive" /\ pc' = return /\ return \in {"start", "answer", "early answer"}
        /\ doubt => doubt'
    <3>1. /\ pc = "receive" /\ pc' = return /\ return \in {"start", "answer", "early answer"}
      BY <1>3 DEF Mbxreceive, SOEPlaceOK
    <3>2. doubt' = doubt \/ doubt' \in {doubt, TRUE}  BY <1>3 DEF Mbxreceive
    <3>3. doubt => doubt'  BY <3>2, Zenon
    <3> QED  BY <3>1, <3>3
  <2>2. /\ pc' # "idle" /\ (Asked' => Asked) /\ ~Listening'
    BY <1>0, <2>1 DEF Asked, Listening
  <2>3. UNCHANGED <<offered, toSlave>>
    <3>1. CASE wkc' > 0  BY <1>3, <3>1, Receives
    <3> QED  BY <1>3, <3>1, ReceivesNothing
  <2>4. \A g \in Going' : g \in Going  BY <2>1, <2>3 DEF Going
  <2> QED  BY <1>0, <1>3, <2>1, <2>2, <2>4 DEF Spares
<1>4. CASE Repeat
  <2>1. /\ doubt /\ old # <<>> /\ toMaster' = old \o toMaster
        /\ UNCHANGED <<offered, toSlave, got, old, doubt, pc, wkc>>
    BY <1>4 DEF Repeat, Again
  <2>2. PICK o : old = <<o>>  BY <2>1 DEF TypeOK, ChannelOK, Slot
  <2>3. /\ Len(toMaster') = 1 + Len(toMaster) /\ toMaster'[1] = o
        /\ \A i \in 1 .. Len(toMaster) : toMaster'[1 + i] = toMaster[i]
    <3>1. IsList(old) /\ Len(old) = 1 /\ old[1] = o  BY <2>2, ListOfOne
    <3>2. 1 \in 1 .. Len(old)  BY <3>1
    <3>3. /\ Len(toMaster') = Len(old) + Len(toMaster)
          /\ \A i \in 1 .. Len(old) : toMaster'[i] = old[i]
          /\ \A i \in Len(old) + 1 .. Len(toMaster') : toMaster'[i] = toMaster[i - Len(old)]
      BY <1>1, <2>1, <3>1, ListJoined
    <3>4. ASSUME NEW i \in 1 .. Len(toMaster)  PROVE toMaster'[1 + i] = toMaster[i]
      <4>1. 1 + i \in Len(old) + 1 .. Len(toMaster') /\ (1 + i) - Len(old) = i
        BY <1>1, <3>1, <3>3
      <4> QED  BY <3>3, <4>1
    <3> QED  BY <3>1, <3>2, <3>3, <3>4
  <2>4. ASSUME Fresh  PROVE Shifted(-1)
    <3>1. o.proto # "SoE"
      <4>1. old[1] = o  BY <2>2
      <4> QED  BY <2>1, <2>4, <4>1 DEF Fresh
    <3>2. ASSUME NEW i \in 1 .. Len(toMaster'), toMaster'[i].proto = "SoE"
          PROVE  i + (-1) \in 1 .. Len(toMaster) /\ toMaster'[i] = toMaster[i + (-1)]
      <4>1. i # 1  BY <2>3, <3>1, <3>2
      <4>2. i + (-1) \in 1 .. Len(toMaster) /\ 1 + (i + (-1)) = i  BY <1>1, <2>3, <4>1
      <4>3. toMaster'[1 + (i + (-1))] = toMaster[i + (-1)]  BY <2>3, <4>2
      <4> QED  BY <4>2, <4>3
    <3>3. ASSUME NEW j \in 1 .. Len(toMaster)
          PROVE  j - (-1) \in 1 .. Len(toMaster') /\ toMaster'[j - (-1)] = toMaster[j]
      <4>1. j - (-1) = 1 + j /\ 1 + j \in 1 .. Len(toMaster')  BY <1>1, <2>3
      <4> QED  BY <2>3, <4>1
    <3> QED  BY <3>2, <3>3 DEF Shifted
  <2>5. Going' = Going  BY <2>1 DEF Going
  <2>6. /\ (Asked' <=> Asked) /\ (Listening' <=> Listening) /\ (Answered' <=> Answered)
        /\ (Fresh' <=> Fresh) /\ (Alone' <=> Alone)
    BY <1>0, <2>1 DEF Asked, Listening, Answered, Fresh, Alone
  <2>7. -1 \in Int  OBVIOUS
  <2> QED  BY <1>0, <2>1, <2>4, <2>5, <2>6, <2>7 DEF Spares
<1> QED  BY <1>2, <1>3, <1>4

\* and a step that changes nothing does.
LEMMA StutterSpares ==
  ASSUME TypeOK, UNCHANGED vars
  PROVE  Spares
<1>1. UNCHANGED <<offered, toSlave, toMaster, got, old, doubt, pc, return, wkc, call, calls, n, buf,
                  stale, slipped, result, values, writing>>
  BY DEF vars, channel, client, services, soeslave
<1>2. Shifted(0)  BY <1>1, NotShifted
<1>3. /\ Going' = Going /\ (Asked' <=> Asked) /\ (Listening' <=> Listening)
      /\ (Answered' <=> Answered) /\ (Fresh' <=> Fresh) /\ (Alone' <=> Alone)
  BY <1>1 DEF Going, Asked, Listening, Answered, Fresh, Alone
<1> QED  BY <1>1, <1>2, <1>3 DEF Spares

-----------------------------------------------------------------------------
(***************************************************************************)
(* Lists that are cut, joined and made of pieces.                          *)
(***************************************************************************)
\* Joining two lists leaves the beginning of the first.
LEMMA FirstOfJoined ==
  ASSUME NEW S, NEW s \in Seq(S), NEW t \in Seq(S), NEW z \in 0 .. Len(s)
  PROVE  SubSeq(s \o t, 1, z) = SubSeq(s, 1, z)
<1> DEFINE u == s \o t
           a == SubSeq(u, 1, z)
           b == SubSeq(s, 1, z)
<1>1. Len(s) \in Nat /\ Len(t) \in Nat  OBVIOUS
<1>2. /\ u \in Seq(S) /\ Len(u) = Len(s) + Len(t)
      /\ \A i \in 1 .. Len(s) + Len(t) : u[i] = IF i <= Len(s) THEN s[i] ELSE t[i - Len(s)]
  BY ConcatProperties
<1> HIDE DEF u
<1>3. ASSUME NEW i \in 1 .. z  PROVE u[i] = s[i] /\ u[i] \in S /\ s[i] \in S
  <2>1. i \in 1 .. Len(s) /\ i \in 1 .. Len(s) + Len(t) /\ i <= Len(s)  BY <1>1
  <2>2. s[i] \in S  BY <2>1, ElementOfSeq
  <2> QED  BY <1>2, <2>1, <2>2
<1>4. a \in Seq(S) /\ Len(a) = z /\ \A i \in 1 .. z : a[i] = u[i]
  <2>1. /\ a \in Seq(S) /\ Len(a) = IF 1 <= z THEN z - 1 + 1 ELSE 0
        /\ \A i \in 1 .. z - 1 + 1 : a[i] = u[1 + i - 1]
    BY <1>1, <1>3, SubSeqProperties
  <2> HIDE DEF a
  <2> QED  BY <1>1, <2>1
<1>5. b \in Seq(S) /\ Len(b) = z /\ \A i \in 1 .. z : b[i] = s[i]
  <2>1. /\ b \in Seq(S) /\ Len(b) = IF 1 <= z THEN z - 1 + 1 ELSE 0
        /\ \A i \in 1 .. z - 1 + 1 : b[i] = s[1 + i - 1]
    BY <1>1, <1>3, SubSeqProperties
  <2> HIDE DEF b
  <2> QED  BY <1>1, <2>1
<1> HIDE DEF a, b
<1>6. a = b  BY <1>3, <1>4, <1>5, SeqEqual
<1> QED  BY <1>6 DEF a, b, u

\* What of a value fits the buffer.
Cut(s) == SubSeq(s, 1, SmallerOf(call.size, Len(s)))

\* What is cut off need not be joined before.
LEMMA CutJoined ==
  ASSUME call.size \in Nat, NEW s, NEW t, IsList(s), IsList(t)
  PROVE  Cut(Cut(s) \o t) = Cut(s \o t)
<1> DEFINE S == Elems(s) \cup Elems(t)
           z == call.size
<1>1. s \in Seq(S) /\ t \in Seq(S)  BY SeqMonotonic DEF IsList
<1> HIDE DEF S
<1>2. Len(s) \in Nat /\ Len(t) \in Nat  BY <1>1
<1>3. CASE z >= Len(s)
  <2>1. SmallerOf(z, Len(s)) = Len(s)  BY <1>2, <1>3 DEF SmallerOf
  <2>2. Cut(s) = s  BY <1>1, <2>1, SubSeqFull DEF Cut
  <2> QED  BY <2>2
<1>4. CASE z < Len(s)
  <2> DEFINE c == SubSeq(s, 1, z)
  <2>1. Cut(s) = c  BY <1>2, <1>4 DEF Cut, SmallerOf
  <2>2. c \in Seq(S) /\ Len(c) = z
    <3>1. \A i \in 1 .. z : s[i] \in S  BY <1>1, <1>2, <1>4
    <3>2. c \in Seq(S) /\ Len(c) = IF 1 <= z THEN z - 1 + 1 ELSE 0  BY <3>1, SubSeqProperties
    <3> HIDE DEF c
    <3> QED  BY <3>2
  <2>3. Cut(s \o t) = c
    <3>1. Len(s \o t) = Len(s) + Len(t)  BY <1>1, ConcatProperties
    <3>2. SmallerOf(z, Len(s \o t)) = z  BY <1>2, <1>4, <3>1 DEF SmallerOf
    <3>3. SubSeq(s \o t, 1, z) = c  BY <1>1, <1>2, <1>4, FirstOfJoined
    <3> QED  BY <3>2, <3>3 DEF Cut
  <2>4. Cut(c \o t) = c
    <3> HIDE DEF c
    <3>1. Len(c \o t) = z + Len(t)  BY <1>1, <2>2, ConcatProperties
    <3>2. SmallerOf(z, Len(c \o t)) = z  BY <1>2, <3>1 DEF SmallerOf
    <3>3. SubSeq(c \o t, 1, z) = SubSeq(c, 1, z)  BY <1>1, <2>2, FirstOfJoined
    <3>4. SubSeq(c, 1, z) = c  BY <2>2, SubSeqFull
    <3> QED  BY <3>2, <3>3, <3>4 DEF Cut
  <2> QED  BY <2>1, <2>3, <2>4
<1> QED  BY <1>2, <1>3, <1>4

\* Piece k + 1 is what follows the k full ones.
LEMMA PieceJoins ==
  ASSUME NEW s, IsList(s), NEW k \in Nat, k * maxvalue <= Len(s)
  PROVE  /\ k * maxvalue \in Nat /\ (k + 1) * maxvalue = k * maxvalue + maxvalue
         /\ (k + 1) * maxvalue <= Len(s) =>
              SubSeq(s, 1, k * maxvalue) \o Piece(s, k + 1) = SubSeq(s, 1, (k + 1) * maxvalue)
         /\ (k + 1) * maxvalue >= Len(s) => SubSeq(s, 1, k * maxvalue) \o Piece(s, k + 1) = s
<1> DEFINE a == k * maxvalue
           b == SmallerOf(a + maxvalue, Len(s))
<1>1. Len(s) \in Nat /\ maxvalue \in Nat  BY SOEAssumption, ListPlaces
<1>2. a \in Nat /\ (k + 1) * maxvalue = a + maxvalue /\ ((k + 1) - 1) * maxvalue = a  BY <1>1
<1>3. a <= Len(s)  OBVIOUS
<1> HIDE DEF a
<1>4. Piece(s, k + 1) = SubSeq(s, a + 1, b)  BY <1>2 DEF Piece
<1>5. b \in Nat /\ b <= Len(s) /\ a <= b  BY <1>1, <1>2, <1>3 DEF SmallerOf
<1>6. SubSeq(s, 1, a) \o SubSeq(s, a + 1, b) = SubSeq(s, 1, b)
  <2>1. 1 \in 1 .. Len(s) + 1 /\ a \in 1 - 1 .. Len(s) /\ b \in a .. Len(s)
    BY <1>1, <1>2, <1>3, <1>5
  <2>2. s \in Seq(Elems(s))  BY DEF IsList
  <2> HIDE DEF b
  <2> QED  BY <2>1, <2>2, ConcatAdjacentSubSeq
<1>7. a + maxvalue <= Len(s) => b = a + maxvalue  BY <1>1, <1>2 DEF SmallerOf
<1>8. a + maxvalue >= Len(s) => b = Len(s)  BY <1>1, <1>2 DEF SmallerOf
<1>9. SubSeq(s, 1, Len(s)) = s  BY SubSeqFull DEF IsList
<1> HIDE DEF b
<1> QED  BY <1>2, <1>4, <1>6, <1>7, <1>8, <1>9 DEF a

\* The number of pieces.
LEMMA PieceCount ==
  ASSUME NEW size \in Nat
  PROVE  LET count == (size + maxvalue - 1) \div maxvalue IN
         count \in Nat /\ \A k \in Nat : k < count <=> k * maxvalue < size
<1> DEFINE m == maxvalue
           a == size + m - 1
           f == a \div m
<1>1. m \in Nat /\ m > 0  BY SOEAssumption
<1> HIDE DEF m
<1>2. a \in Nat  BY <1>1
<1>3. f \in Nat /\ f * m <= a /\ a < f * m + m
  <2> HIDE DEF a
  <2> QED  BY <1>1, <1>2
<1> HIDE DEF f
<1>4. ASSUME NEW k \in Nat  PROVE k < f <=> k * m < size
  <2>1. ASSUME NEW x \in Nat, NEW y \in Nat, x <= y  PROVE x * m <= y * m
    BY <1>1, <2>1
  <2>2. k * m \in Nat /\ f * m \in Nat /\ (k + 1) * m = k * m + m  BY <1>1, <1>3
  <2>3. CASE k < f
    <3>1. k + 1 <= f  BY <1>3, <2>3
    <3>2. (k + 1) * m <= f * m  BY <1>3, <2>1, <3>1
    <3> QED  BY <1>1, <1>3, <2>2, <2>3, <3>2
  <2>4. CASE f <= k
    <3>1. f * m <= k * m  BY <1>3, <2>1, <2>4
    <3> QED  BY <1>1, <1>3, <2>2, <2>4, <3>1
  <2> QED  BY <1>3, <2>3, <2>4
<1> QED  BY <1>3, <1>4 DEF f, m

\* The count of fragments left goes down by one.
LEMMA LeftGoesDown ==
  ASSUME NEW a \in Nat, a > maxvalue
  PROVE  /\ a \div maxvalue \in Nat /\ a \div maxvalue >= 1
         /\ (a - maxvalue) \div maxvalue = a \div maxvalue - 1
<1>1. maxvalue \in Nat /\ maxvalue > 0  BY SOEAssumption
<1> QED  BY <1>1

-----------------------------------------------------------------------------
(***************************************************************************)
(* Parts of a value and fragments of a write under way.                    *)
(***************************************************************************)
\* A read: the parts of the value come one after the other.
Request == SOEMessage("read", Drive[call.element], call.element, <<>>, 0, FALSE)
SlaveValue == values[call.element]
Count == (Len(SlaveValue) + maxvalue - 1) \div maxvalue
Part(k) ==
  SOEMessage("value", Drive[call.element], call.element, Piece(SlaveValue, k), Count - k, k < Count)

\* Part j is at place i, those between k and j are before it, and no later one is.
PartAt(k, j, i) ==
  /\ toMaster[i] = Part(j)
  /\ \A h \in k + 1 .. j - 1 : \E l \in 1 .. i - 1 : toMaster[l] = Part(h)
  /\ \A l \in 1 .. i - 1 : IsSOE(toMaster[l], "value") => toMaster[l].left > Count - j

InOrder(k) ==
  \A i \in 1 .. Len(toMaster) : IsSOE(toMaster[i], "value") =>
    \E j \in k + 1 .. Count : PartAt(k, j, i)

NoValue == \A i \in 1 .. Len(toMaster) : ~IsSOE(toMaster[i], "value")

Gathered(k) == k * maxvalue <= Len(SlaveValue) /\ buf = Cut(SubSeq(SlaveValue, 1, k * maxvalue))

CleanValueRead == Call("SoEread") /\ Asked /\ NothingOfSOE /\ ~doubt

ValueComes ==
  /\ Alone /\ \A g \in Going : g.proto = "SoE" => g = Request
  /\ \E k \in 0 .. Count : Gathered(k) /\ InOrder(k) /\ (Pending => k = 0 /\ NoValue)

PartGot ==
  /\ ~Pending
  /\ \E k \in 0 .. Count - 1 : got[1] = Part(k + 1) /\ Gathered(k) /\ InOrder(k + 1)

ValueReadOK ==
  CleanValueRead =>
    /\ Listening => ValueComes
    /\ Answered /\ IsSOE(got[1], "value") => PartGot
    /\ pc = "idle" /\ result > 0 => ~Pending /\ buf = Cut(SlaveValue)

\* A write: the slave holds the first k fragments, or the value if they are all.
NewValue == Value(calls, call.element, call.size)
LeftAt(k) ==
  IF k >= 1 /\ k * maxvalue < call.size THEN (call.size - (k - 1) * maxvalue) \div maxvalue ELSE 0
Frag(k) ==
  SOEMessage("write", Drive[call.element], call.element, Piece(NewValue, k), LeftAt(k),
             k * maxvalue < call.size)

Holds(k) ==
  IF k = 0 \/ k * maxvalue < call.size
    THEN writing = [data |-> SubSeq(NewValue, 1, k * maxvalue), left |-> LeftAt(k)]
    ELSE SlaveValue = NewValue

\* Of what comes, an error is among the first i.
Broken(i) == \E l \in 1 .. i : IsSOE(toMaster[l], "write error")

CleanValueWrite == Call("SoEwrite") /\ Asked /\ NothingOfSOE /\ ~slipped

ValueGoes ==
  /\ Fresh /\ Alone /\ \A g \in Going : g.proto = "SoE" => g = Frag(n)
  /\ Broken(Len(toMaster)) \/ Holds(IF Pending THEN n - 1 ELSE n)
  /\ \A i \in 1 .. Len(toMaster) : IsSOE(toMaster[i], "written") =>
       ~Pending /\ n * maxvalue >= call.size /\ (SlaveValue = NewValue \/ Broken(i))

ValueWritten == SlaveValue = NewValue /\ ~Pending

ValueWriteOK ==
  CleanValueWrite =>
    /\ Listening => ValueGoes
    /\ Answered /\ IsSOE(got[1], "written") => ValueWritten
    /\ pc = "idle" /\ result > 0 => ValueWritten

\* A step that spares it keeps what is known of a read,
LEMMA SparesRead ==
  ASSUME TypeOK, ValueReadOK, Spares
  PROVE  ValueReadOK'
<1>0. /\ UNCHANGED <<call, n, buf, stale, result, values>>
      /\ pc' = "idle" => pc = "idle"
      /\ Asked' => Asked
      /\ doubt => doubt'
      /\ \A g \in Going' : g.proto = "SoE" => g \in Going
  BY DEF Spares
<1> SUFFICES ASSUME CleanValueRead'  PROVE ValueReadOK'
  BY DEF ValueReadOK
<1>1. CleanValueRead /\ Fresh
  BY <1>0 DEF CleanValueRead, NothingOfSOE, Call, Fresh
<1>2. /\ SlaveValue' = SlaveValue /\ Count' = Count /\ Request' = Request
      /\ \A k : Part(k)' = Part(k)
      /\ \A k : Gathered(k)' <=> Gathered(k)
  BY <1>0 DEF SlaveValue, Count, Request, SOEMessage, Part, Piece, Gathered, Cut
<1>3. Pending' => Pending  BY <1>0 DEF Pending
<1>4. ASSUME NEW d \in Int, Shifted(d), NEW k \in Int, InOrder(k)
      PROVE  InOrder(k)'
  <2> SUFFICES ASSUME NEW i \in 1 .. Len(toMaster'), IsSOE(toMaster'[i], "value")
               PROVE  \E j \in k + 1 .. Count : PartAt(k, j, i)'
    BY <1>2 DEF InOrder, IsSOE
  <2>1. i + d \in 1 .. Len(toMaster) /\ toMaster'[i] = toMaster[i + d]
    BY <1>4 DEF Shifted, IsSOE
  <2>2. PICK j \in k + 1 .. Count : PartAt(k, j, i + d)
    BY <1>4, <2>1 DEF InOrder
  <2>3. ASSUME NEW h \in k + 1 .. j - 1
        PROVE  \E l \in 1 .. i - 1 : toMaster'[l] = Part(h)
    <3>1. PICK l \in 1 .. (i + d) - 1 : toMaster[l] = Part(h)  BY <2>2 DEF PartAt
    <3>2. toMaster[l].proto = "SoE"  BY <3>1 DEF Part, SOEMessage
    <3>3. Len(toMaster) \in Nat /\ Len(toMaster') \in Nat  BY <2>1
    <3>4. l \in 1 .. Len(toMaster)  BY <2>1
    <3>5. l - d \in 1 .. Len(toMaster') /\ toMaster'[l - d] = toMaster[l]
      BY <1>4, <3>2, <3>4 DEF Shifted
    <3>6. l - d \in 1 .. i - 1  BY <1>4, <2>1, <3>5
    <3> QED  BY <3>1, <3>5, <3>6
  <2>4. ASSUME NEW l \in 1 .. i - 1, IsSOE(toMaster'[l], "value")
        PROVE  toMaster'[l].left > Count - j
    <3>1. l \in 1 .. Len(toMaster')  OBVIOUS
    <3>2. l + d \in 1 .. Len(toMaster) /\ toMaster'[l] = toMaster[l + d]
      BY <1>4, <2>4, <3>1 DEF Shifted, IsSOE
    <3>3. l + d \in 1 .. (i + d) - 1  BY <1>4, <2>1, <3>2
    <3> QED  BY <2>2, <2>4, <3>2, <3>3 DEF PartAt
  <2>5. toMaster'[i] = Part(j)  BY <2>1, <2>2 DEF PartAt
  <2>6. PartAt(k, j, i)'  BY <1>2, <2>3, <2>4, <2>5 DEF PartAt, IsSOE
  <2> QED  BY <2>6
<1>5. ASSUME Listening'  PROVE ValueComes'
  <2>1. /\ Listening /\ (Alone => Alone') /\ \A g \in Going : g.proto = "SoE" => g \in Going'
    BY <1>5 DEF Spares
  <2>2. PICK d \in Int : Shifted(d)  BY <1>1, <1>5 DEF Spares
  <2>3. ValueComes  BY <1>1, <2>1 DEF ValueReadOK
  <2>4. PICK k \in 0 .. Count : Gathered(k) /\ InOrder(k) /\ (Pending => k = 0 /\ NoValue)
    BY <2>3 DEF ValueComes
  <2>5. InOrder(k)'  BY <1>4, <2>2, <2>4
  <2>6. NoValue => NoValue'
    BY <2>2 DEF NoValue, Shifted, IsSOE
  <2>7. Alone' /\ \A g \in Going' : g.proto = "SoE" => g = Request'
    BY <1>0, <1>2, <2>1, <2>3 DEF ValueComes
  <2> QED  BY <1>2, <1>3, <2>4, <2>5, <2>6, <2>7 DEF ValueComes
<1>6. ASSUME Answered', IsSOE(got[1], "value")'  PROVE PartGot'
  <2>1. Answered /\ got' = got  BY <1>6 DEF Spares
  <2>2. PICK d \in Int : Shifted(d)  BY <1>1, <1>6 DEF Spares
  <2>3. PartGot  BY <1>1, <1>6, <2>1 DEF ValueReadOK, IsSOE
  <2>4. PICK k \in 0 .. Count - 1 : got[1] = Part(k + 1) /\ Gathered(k) /\ InOrder(k + 1)
    BY <2>3 DEF PartGot
  <2>5. InOrder(k + 1)'  BY <1>4, <2>2, <2>4
  <2>6. got'[1] = Part(k + 1)' /\ Gathered(k)'  BY <1>2, <2>1, <2>4
  <2> QED  BY <1>2, <1>3, <2>3, <2>4, <2>5, <2>6 DEF PartGot
<1>7. ASSUME pc' = "idle", result' > 0  PROVE ~Pending' /\ buf' = Cut(SlaveValue)'
  <2>1. ~Pending /\ buf = Cut(SlaveValue)  BY <1>0, <1>1, <1>7 DEF ValueReadOK
  <2>2. Cut(SlaveValue)' = Cut(SlaveValue)  BY <1>0, <1>2 DEF Cut
  <2> QED  BY <1>0, <1>3, <2>1, <2>2
<1> QED  BY <1>5, <1>6, <1>7 DEF ValueReadOK

\* and of a write.
LEMMA SparesWrite ==
  ASSUME TypeOK, ValueWriteOK, Spares
  PROVE  ValueWriteOK'
<1>0. /\ UNCHANGED <<call, calls, n, buf, stale, slipped, result, values, writing>>
      /\ pc' = "idle" => pc = "idle"
      /\ Asked' => Asked
      /\ \A g \in Going' : g.proto = "SoE" => g \in Going
  BY DEF Spares
<1> SUFFICES ASSUME CleanValueWrite'  PROVE ValueWriteOK'
  BY DEF ValueWriteOK
<1>1. CleanValueWrite
  BY <1>0 DEF CleanValueWrite, NothingOfSOE, Call
<1>2. /\ SlaveValue' = SlaveValue /\ NewValue' = NewValue
      /\ \A k : Frag(k)' = Frag(k)
      /\ \A k : Holds(k)' <=> Holds(k)
  BY <1>0 DEF SlaveValue, NewValue, Value, Frag, SOEMessage, Piece, LeftAt, Holds
<1>3. Pending' => Pending  BY <1>0 DEF Pending
<1>4. ASSUME Listening'  PROVE ValueGoes'
  <2>1. /\ Listening /\ (Alone => Alone') /\ \A g \in Going : g.proto = "SoE" => g \in Going'
    BY <1>4 DEF Spares
  <2>2. ValueGoes  BY <1>1, <2>1 DEF ValueWriteOK
  <2>3. PICK d \in Int : Shifted(d)  BY <1>4, <2>2 DEF Spares, ValueGoes
  <2>4. Fresh' /\ Alone'  BY <1>4, <2>1, <2>2 DEF Spares, ValueGoes
  <2>5. Pending' <=> Pending  BY <1>3, <2>1 DEF Pending
  <2>6. \A g \in Going' : g.proto = "SoE" => g = Frag(n)'
    BY <1>0, <1>2, <2>2 DEF ValueGoes
  <2>7. ASSUME Broken(Len(toMaster))  PROVE Broken(Len(toMaster))'
    <3>1. PICK l \in 1 .. Len(toMaster) : IsSOE(toMaster[l], "write error")
      BY <2>7 DEF Broken
    <3>2. l - d \in 1 .. Len(toMaster') /\ toMaster'[l - d] = toMaster[l]
      BY <2>3, <3>1 DEF Shifted, IsSOE
    <3> QED  BY <3>1, <3>2 DEF Broken, IsSOE
  <2>8. Broken(Len(toMaster))' \/ Holds(IF Pending THEN n - 1 ELSE n)'
    BY <1>0, <1>2, <2>2, <2>5, <2>7 DEF ValueGoes
  <2>9. ASSUME NEW i \in 1 .. Len(toMaster'), IsSOE(toMaster'[i], "written")
        PROVE  ~Pending' /\ n' * maxvalue >= call'.size /\ (SlaveValue' = NewValue' \/ Broken(i)')
    <3>1. i + d \in 1 .. Len(toMaster) /\ toMaster'[i] = toMaster[i + d]
      BY <2>3, <2>9 DEF Shifted, IsSOE
    <3>2. /\ ~Pending /\ n * maxvalue >= call.size
          /\ SlaveValue = NewValue \/ Broken(i + d)
      BY <2>2, <2>9, <3>1 DEF ValueGoes
    <3>3. ASSUME Broken(i + d)  PROVE Broken(i)'
      <4>1. PICK l \in 1 .. i + d : IsSOE(toMaster[l], "write error")
        BY <3>3 DEF Broken
      <4>2. l \in 1 .. Len(toMaster)  BY <3>1
      <4>3. l - d \in 1 .. Len(toMaster') /\ toMaster'[l - d] = toMaster[l]
        BY <2>3, <4>1, <4>2 DEF Shifted, IsSOE
      <4>4. l - d \in 1 .. i  BY <2>3, <3>1, <4>3
      <4> QED  BY <4>1, <4>3, <4>4 DEF Broken, IsSOE
    <3> QED  BY <1>0, <1>2, <2>5, <3>2, <3>3
  <2> QED  BY <2>4, <2>6, <2>8, <2>9 DEF ValueGoes, IsSOE
<1>5. ASSUME ValueWritten  PROVE ValueWritten'
  BY <1>2, <1>3, <1>5 DEF ValueWritten
<1>6. ASSUME Answered', IsSOE(got[1], "written")'  PROVE ValueWritten'
  <2>1. Answered /\ got' = got  BY <1>6 DEF Spares
  <2> QED  BY <1>1, <1>5, <1>6, <2>1 DEF ValueWriteOK, IsSOE
<1>7. ASSUME pc' = "idle", result' > 0  PROVE ValueWritten'
  BY <1>0, <1>1, <1>5, <1>7 DEF ValueWriteOK
<1> QED  BY <1>4, <1>6, <1>7 DEF ValueWriteOK

-----------------------------------------------------------------------------
(***************************************************************************)
(* A message of the drive is received.                                     *)
(***************************************************************************)
\* Parts differ by the count of those left.
LEMMA PartsDiffer ==
  ASSUME TypeOK, SOECall
  PROVE  /\ Count \in Nat /\ IsList(SlaveValue) /\ Len(SlaveValue) \in Nat
         /\ \A k : /\ IsSOE(Part(k), "value") /\ Part(k).left = Count - k
                   /\ Part(k).incomplete = (k < Count) /\ Part(k).data = Piece(SlaveValue, k)
         /\ \A k \in Nat : k < Count <=> k * maxvalue < Len(SlaveValue)
<1>1. IsList(SlaveValue)  BY DEF TypeOK, OthersOK, CallOK, SlaveValue
<1>2. Len(SlaveValue) \in Nat  BY <1>1, ListPlaces
<1>3. Count \in Nat /\ \A k \in Nat : k < Count <=> k * maxvalue < Len(SlaveValue)
  BY <1>2, PieceCount DEF Count
<1>4. \A k : /\ IsSOE(Part(k), "value") /\ Part(k).left = Count - k
             /\ Part(k).incomplete = (k < Count) /\ Part(k).data = Piece(SlaveValue, k)
  BY DEF IsSOE, Part, SOEMessage
<1> QED  BY <1>1, <1>2, <1>3, <1>4

\* The first part that comes is the next one, and those behind it come after it.
LEMMA NextPart ==
  ASSUME TypeOK, SOECall, NEW k \in 0 .. Count, InOrder(k), NEW p \in 1 .. Len(toMaster),
         toMaster[p] = toMaster[1], IsSOE(toMaster[1], "value"), UNCHANGED <<call, values>>,
         toMaster' = SubSeq(toMaster, p + 1, Len(toMaster))
  PROVE  k \in 0 .. Count - 1 /\ toMaster[1] = Part(k + 1) /\ InOrder(k + 1)'
<1>0. /\ Count \in Nat /\ Count' = Count
      /\ \A j : IsSOE(Part(j), "value") /\ Part(j).left = Count - j /\ Part(j)' = Part(j)
  <2>1. \A j : Part(j)' = Part(j)  BY DEF Part, SlaveValue, SOEMessage, Piece, Count
  <2>2. Count' = Count  BY DEF Count, SlaveValue
  <2> QED  BY <2>1, <2>2, PartsDiffer
<1>1. IsList(toMaster) /\ Len(toMaster) \in Nat  BY ListPlaces DEF TypeOK, ChannelOK
<1>2. 1 \in 1 .. Len(toMaster)  BY <1>1
<1>3. PICK j \in k + 1 .. Count : PartAt(k, j, 1)  BY <1>2 DEF InOrder
<1>4. j = k + 1
  <2>1. ~(k + 1 \in k + 1 .. j - 1)  BY <1>3 DEF PartAt
  <2> QED  BY <2>1
<1>5. toMaster[1] = Part(k + 1) /\ k \in 0 .. Count - 1  BY <1>0, <1>3, <1>4 DEF PartAt
<1>6. ASSUME NEW i \in 2 .. Len(toMaster), NEW h \in k + 1 .. Count, PartAt(k, h, i)
      PROVE  h > k + 1
  <2>1. 1 \in 1 .. i - 1  OBVIOUS
  <2>2. toMaster[1].left > Count - h  BY <1>6, <2>1 DEF PartAt
  <2>3. Count - (k + 1) > Count - h  BY <1>0, <1>5, <2>2
  <2> QED  BY <1>0, <2>3
<1>7. p = 1
  <2> SUFFICES ASSUME p # 1  PROVE FALSE
    OBVIOUS
  <2>1. p \in 2 .. Len(toMaster)  BY <1>1
  <2>2. PICK h \in k + 1 .. Count : PartAt(k, h, p)  BY DEF InOrder
  <2>3. h > k + 1  BY <1>6, <2>1, <2>2
  <2>4. Part(h) = Part(k + 1)  BY <1>5, <2>2 DEF PartAt
  <2>5. Count - h = Count - (k + 1)  BY <1>0, <2>4
  <2> QED  BY <1>0, <2>3, <2>5
<1>8. /\ Len(toMaster') = Len(toMaster) - 1
      /\ \A i \in 1 .. Len(toMaster') :
           toMaster'[i] = toMaster[i + 1] /\ i + 1 \in 2 .. Len(toMaster)
  <2>1. 2 \in 1 .. Len(toMaster) + 1  BY <1>1, <1>7
  <2>2. toMaster' = SubSeq(toMaster, 2, Len(toMaster))
    <3>1. p + 1 = 2  BY <1>7
    <3> QED  BY <3>1
  <2>3. /\ Len(toMaster') = Len(toMaster) + 1 - 2
        /\ \A i \in 1 .. Len(toMaster') :
             toMaster'[i] = toMaster[2 + i - 1] /\ 2 + i - 1 \in 1 .. Len(toMaster)
    <3> DEFINE t == SubSeq(toMaster, 2, Len(toMaster))
    <3>1. /\ Len(t) = Len(toMaster) + 1 - 2
          /\ \A i \in 1 .. Len(t) : t[i] = toMaster[2 + i - 1] /\ 2 + i - 1 \in 1 .. Len(toMaster)
      BY <1>1, <2>1, ListFrom
    <3> HIDE DEF t
    <3>2. toMaster' = t  BY <2>2 DEF t
    <3> QED  BY <3>1, <3>2
  <2>4. \A i \in 1 .. Len(toMaster') : 2 + i - 1 = i + 1 /\ i + 1 \in 2 .. Len(toMaster)
    BY <1>1, <2>3
  <2> QED  BY <1>1, <2>3, <2>4
<1>9. ASSUME NEW i \in 1 .. Len(toMaster'), IsSOE(toMaster'[i], "value")
      PROVE  \E h \in k + 2 .. Count : PartAt(k + 1, h, i)'
  <2>1. toMaster'[i] = toMaster[i + 1] /\ i + 1 \in 2 .. Len(toMaster)  BY <1>8
  <2>2. i + 1 \in 1 .. Len(toMaster)  BY <2>1
  <2>3. PICK h \in k + 1 .. Count : PartAt(k, h, i + 1)  BY <1>9, <2>1, <2>2 DEF InOrder
  <2>4. h > k + 1  BY <1>6, <2>1, <2>3
  <2>5. ASSUME NEW g \in k + 2 .. h - 1
        PROVE  \E l \in 1 .. i - 1 : toMaster'[l] = Part(g)
    <3>1. PICK l \in 1 .. (i + 1) - 1 : toMaster[l] = Part(g)
      <4>1. g \in k + 1 .. h - 1  OBVIOUS
      <4> QED  BY <2>3, <4>1 DEF PartAt
    <3>2. l # 1
      <4>1. Part(g) # Part(k + 1)
        <5>1. Count - g # Count - (k + 1)  BY <1>0
        <5> QED  BY <1>0, <5>1
      <4> QED  BY <1>5, <3>1, <4>1
    <3>3. l - 1 \in 1 .. i - 1 /\ l - 1 \in 1 .. Len(toMaster') /\ (l - 1) + 1 = l
      BY <1>1, <1>8, <3>2
    <3>4. toMaster'[l - 1] = toMaster[(l - 1) + 1]  BY <1>8, <3>3
    <3> QED  BY <3>1, <3>3, <3>4
  <2>6. ASSUME NEW l \in 1 .. i - 1, IsSOE(toMaster'[l], "value")
        PROVE  toMaster'[l].left > Count - h
    <3>1. l \in 1 .. Len(toMaster') /\ l + 1 \in 1 .. (i + 1) - 1  OBVIOUS
    <3>2. toMaster'[l] = toMaster[l + 1]  BY <1>8, <3>1
    <3> QED  BY <2>3, <2>6, <3>1, <3>2 DEF PartAt
  <2>7. h \in k + 2 .. Count /\ toMaster'[i] = Part(h)
    BY <2>1, <2>3, <2>4 DEF PartAt
  <2>8. (k + 1) + 1 = k + 2  OBVIOUS
  <2>9. \A g \in (k + 1) + 1 .. h - 1 : \E l \in 1 .. i - 1 : toMaster'[l] = Part(g)
    BY <2>5, <2>8
  <2>10. PartAt(k + 1, h, i)'  BY <1>0, <2>6, <2>7, <2>9 DEF PartAt, IsSOE
  <2> QED  BY <2>7, <2>10
<1>10. InOrder(k + 1)'
  <2>1. (k + 1) + 1 = k + 2  OBVIOUS
  <2> QED  BY <1>0, <1>9, <2>1 DEF InOrder, IsSOE
<1> QED  BY <1>5, <1>10

\* A message of the slave is received.
LEMMA ReceiveKeepsSOE ==
  ASSUME TypeOK, SOEPlaceOK, ValueReadOK, ValueWriteOK, SOECall, Mbxreceive, Answered',
         UNCHANGED soeslave
  PROVE  ValueReadOK' /\ ValueWriteOK'
<1>0. /\ pc = "receive" /\ pc' = return /\ wkc' > 0
      /\ UNCHANGED <<call, calls, n, buf, stale, slipped, result, values, writing, return>>
  BY DEF Mbxreceive, Answered, soeslave
<1>1. /\ return \in {"answer", "early answer"} /\ Asked /\ Asked' /\ Listening /\ ~Listening'
      /\ pc' # "idle"
  BY <1>0 DEF Answered, Asked, Listening
<1>2. PICK p \in 1 .. Len(toMaster) :
        /\ got' = <<toMaster[p]>> /\ old' = <<toMaster[p]>> /\ toMaster[p] = toMaster[1]
        /\ toMaster' = SubSeq(toMaster, p + 1, Len(toMaster))
        /\ UNCHANGED <<offered, toSlave, doubt>>
  BY <1>0, Receives
<1>3. IsList(toMaster) /\ Len(toMaster) \in Nat  BY ListPlaces DEF TypeOK, ChannelOK
<1>4. 1 \in 1 .. Len(toMaster) /\ got'[1] = toMaster[1]  BY <1>2, <1>3
<1>5. Going' = Going /\ (Pending' <=> Pending)
  <2>1. Going' = Going  BY <1>0, <1>1, <1>2 DEF Going
  <2> QED  BY <2>1 DEF Pending
<1>6. /\ SlaveValue' = SlaveValue /\ NewValue' = NewValue /\ Count' = Count
      /\ \A k : Part(k)' = Part(k)
      /\ \A k : Gathered(k)' <=> Gathered(k)
  BY <1>0 DEF SlaveValue, NewValue, Value, Count, SOEMessage, Part, Piece, Gathered, Cut
<1>7. ASSUME CleanValueRead', IsSOE(got[1], "value")'  PROVE PartGot'
  <2>1. CleanValueRead  BY <1>0, <1>1, <1>2, <1>7 DEF CleanValueRead, NothingOfSOE, Call
  <2>2. ValueComes  BY <1>1, <2>1 DEF ValueReadOK
  <2>3. PICK k \in 0 .. Count : Gathered(k) /\ InOrder(k) /\ (Pending => k = 0 /\ NoValue)
    BY <2>2 DEF ValueComes
  <2>4. IsSOE(toMaster[1], "value")  BY <1>4, <1>7 DEF IsSOE
  <2>5. ~Pending  BY <1>4, <2>3, <2>4 DEF NoValue
  <2>6. k \in 0 .. Count - 1 /\ toMaster[1] = Part(k + 1) /\ InOrder(k + 1)'
    BY <1>0, <1>2, <2>3, <2>4, NextPart
  <2> QED  BY <1>4, <1>5, <1>6, <2>3, <2>5, <2>6 DEF PartGot
<1>8. ASSUME CleanValueWrite', IsSOE(got[1], "written")'  PROVE ValueWritten'
  <2>1. CleanValueWrite  BY <1>0, <1>1, <1>8 DEF CleanValueWrite, NothingOfSOE, Call
  <2>2. ValueGoes  BY <1>1, <2>1 DEF ValueWriteOK
  <2>3. IsSOE(toMaster[1], "written")  BY <1>4, <1>8 DEF IsSOE
  <2>4. ~Pending /\ (SlaveValue = NewValue \/ Broken(1))  BY <1>4, <2>2, <2>3 DEF ValueGoes
  <2>5. ~Broken(1)
    <3>1. \A l \in 1 .. 1 : l = 1  OBVIOUS
    <3> QED  BY <2>3, <3>1 DEF Broken, IsSOE
  <2> QED  BY <1>5, <1>6, <2>4, <2>5 DEF ValueWritten
<1>9. ValueReadOK'  BY <1>1, <1>7 DEF ValueReadOK
<1>10. ValueWriteOK'  BY <1>1, <1>8 DEF ValueWriteOK
<1> QED  BY <1>9, <1>10

-----------------------------------------------------------------------------
(***************************************************************************)
(* The drive serves a read or a write.                                     *)
(***************************************************************************)
\* The slave takes the message of SoE; nothing of SoE is under way to it then.
LEMMA Served ==
  ASSUME TypeOK, ServeSOE
  PROVE  /\ Pending /\ toSlave[1] \in Going /\ toSlave[1].proto = "SoE" /\ toSlave # <<>>
         /\ Alone => ~Pending'
         /\ Alone' /\ toSlave' = <<>>
         /\ UNCHANGED <<offered, got, old, doubt, client>>
         /\ (Asked' <=> Asked) /\ (Listening' <=> Listening) /\ (Answered' <=> Answered)
<1>1. /\ toSlave # <<>> /\ toSlave[1].proto = "SoE" /\ toSlave' = <<>>
      /\ UNCHANGED <<offered, got, old, doubt, client>>
  BY DEF ServeSOE, Arrived, ServeSOERead, ServeSOEWrite, SOEReply, Answer
<1>2. Pending /\ toSlave[1] \in Going  BY <1>1 DEF Pending, Going
<1>3. UNCHANGED <<pc, return, wkc>>  BY <1>1 DEF client
<1>4. Alone => ~Pending'
  <2>1. Alone => pc # "send"  BY <1>1 DEF Alone
  <2> QED  BY <1>1, <1>3, <2>1 DEF Pending, Going
<1>5. Alone'  BY <1>1 DEF Alone
<1>6. (Asked' <=> Asked) /\ (Listening' <=> Listening) /\ (Answered' <=> Answered)
  BY <1>1, <1>3 DEF Asked, Listening, Answered
<1> QED  BY <1>1, <1>2, <1>4, <1>5, <1>6

\* One more message of the slave.
LEMMA OneMore ==
  ASSUME TypeOK, NEW m, toMaster' = toMaster \o <<m>>
  PROVE  /\ Len(toMaster) \in Nat /\ Len(toMaster') = Len(toMaster) + 1
         /\ toMaster'[Len(toMaster) + 1] = m
         /\ \A i \in 1 .. Len(toMaster) : toMaster'[i] = toMaster[i]
         /\ \A i \in 1 .. Len(toMaster') : i \in 1 .. Len(toMaster) \/ i = Len(toMaster) + 1
<1>1. IsList(toMaster) /\ Len(toMaster) \in Nat  BY ListPlaces DEF TypeOK, ChannelOK
<1>2. IsList(<<m>>) /\ Len(<<m>>) = 1 /\ <<m>>[1] = m  BY ListOfOne
<1> DEFINE t == <<m>>
<1> HIDE DEF t
<1>3. IsList(t) /\ Len(t) = 1 /\ t[1] = m /\ toMaster' = toMaster \o t  BY <1>2 DEF t
<1>4. /\ Len(toMaster') = Len(toMaster) + Len(t)
      /\ \A i \in 1 .. Len(toMaster) : toMaster'[i] = toMaster[i]
      /\ \A i \in Len(toMaster) + 1 .. Len(toMaster') : toMaster'[i] = t[i - Len(toMaster)]
  BY <1>1, <1>3, ListJoined
<1>5. /\ Len(toMaster) + 1 \in Len(toMaster) + 1 .. Len(toMaster')
      /\ (Len(toMaster) + 1) - Len(toMaster) = 1
  BY <1>1, <1>3, <1>4
<1> QED  BY <1>1, <1>3, <1>4, <1>5

\* What the drive answers to a read are the parts of the value, or an error.
LEMMA ServeKeepsValueRead ==
  ASSUME TypeOK, SOEPlaceOK, ValueReadOK, ServeSOE
  PROVE  ValueReadOK'
<1> DEFINE m == toSlave[1]
<1>0. /\ Pending /\ m \in Going /\ m.proto = "SoE" /\ toSlave # <<>>
      /\ Alone => ~Pending'
      /\ Alone' /\ toSlave' = <<>>
      /\ UNCHANGED <<offered, got, old, doubt, client>>
      /\ (Asked' <=> Asked) /\ (Listening' <=> Listening) /\ (Answered' <=> Answered)
  BY Served
<1>1. UNCHANGED <<pc, call, n, buf, stale, result>>  BY <1>0 DEF client
<1> SUFFICES ASSUME CleanValueRead'  PROVE ValueReadOK'
  BY DEF ValueReadOK
<1>2. CleanValueRead  BY <1>0, <1>1 DEF CleanValueRead, NothingOfSOE, Call
<1>3. SOECall  BY <1>2 DEF CleanValueRead, SOECall
<1>4. ~(Answered /\ IsSOE(got[1], "value")) /\ ~(pc = "idle" /\ result > 0)
  BY <1>0, <1>2 DEF ValueReadOK, PartGot
<1>5. ~(Answered' /\ IsSOE(got[1], "value")') /\ ~(pc' = "idle" /\ result' > 0)
  BY <1>0, <1>1, <1>4 DEF IsSOE
<1>6. ASSUME Listening  PROVE ValueComes'
  <2>1. ValueComes  BY <1>2, <1>6 DEF ValueReadOK
  <2>2. m = Request /\ ~Pending'  BY <1>0, <2>1 DEF ValueComes
  <2>3. m.op = "read" /\ m.drive = Drive[call.element] /\ m.element = call.element
    BY <2>2 DEF Request, SOEMessage
  <2>4. Gathered(0) /\ NoValue  BY <1>0, <2>1 DEF ValueComes
  <2> HIDE DEF m
  <2>5. ServeSOERead(m)  BY <2>3 DEF ServeSOE, ServeSOEWrite, m
  <2>6. UNCHANGED <<values, writing>>  BY <2>5 DEF ServeSOERead, soeslave
  <2>7. /\ SlaveValue' = SlaveValue /\ Count' = Count /\ (\A k : Part(k)' = Part(k))
        /\ Gathered(0)' /\ Count \in Nat
    <3>1. SlaveValue' = SlaveValue /\ Count' = Count /\ (\A k : Part(k)' = Part(k))
      BY <1>1, <2>6 DEF SlaveValue, Count, SOEMessage, Part, Piece
    <3>2. Gathered(0)'  BY <1>1, <2>4, <3>1 DEF Gathered, Cut
    <3> QED  BY <1>3, <3>1, <3>2, PartsDiffer
  <2>8. IsList(toMaster) /\ Len(toMaster) \in Nat  BY ListPlaces DEF TypeOK, ChannelOK
  <2>9. CASE SOEReply(m, "read error")
    <3> DEFINE a == SOEMessage("read error", m.drive, m.element, <<>>, 0, FALSE)
    <3>1. toMaster' = toMaster \o <<a>>  BY <2>9 DEF SOEReply, Answer
    <3>2. ~IsSOE(a, "value")  BY DEF IsSOE, SOEMessage
    <3> HIDE DEF a
    <3>3. NoValue'  BY <2>4, <3>1, <3>2, OneMore DEF NoValue, IsSOE
    <3>4. InOrder(0)'  BY <3>3 DEF InOrder, NoValue, IsSOE
    <3>5. 0 \in 0 .. Count'  BY <2>7
    <3>6. \A g \in Going' : g.proto # "SoE"  BY <2>2 DEF Pending
    <3> QED  BY <1>0, <2>2, <2>7, <3>4, <3>5, <3>6 DEF ValueComes
  <2>10. CASE Answer(Pieces(m, values[m.element]))
    <3> DEFINE P == [k \in 1 .. Count |-> Part(k)]
    <3>1. Pieces(m, values[m.element]) = P
      BY <2>3 DEF Pieces, Count, Part, SlaveValue
    <3>2. IsList(P) /\ Len(P) = Count /\ \A k \in 1 .. Count : P[k] = Part(k)
      <4>1. P \in [1 .. Count -> {Part(k) : k \in 1 .. Count}]  OBVIOUS
      <4> QED  BY <2>7, <4>1, ListOfFunction
    <3>3. toMaster' = toMaster \o P  BY <2>10, <3>1 DEF Answer
    <3> HIDE DEF P
    <3>4. /\ Len(toMaster') = Len(toMaster) + Count
          /\ \A i \in 1 .. Len(toMaster) : toMaster'[i] = toMaster[i]
          /\ \A i \in Len(toMaster) + 1 .. Len(toMaster') : toMaster'[i] = P[i - Len(toMaster)]
      BY <2>8, <3>2, <3>3, ListJoined
    <3>5. ASSUME NEW i \in 1 .. Len(toMaster'), IsSOE(toMaster'[i], "value")
          PROVE  i - Len(toMaster) \in 1 .. Count /\ toMaster'[i] = Part(i - Len(toMaster))
      <4>1. ~(i \in 1 .. Len(toMaster))  BY <2>4, <3>4, <3>5 DEF NoValue, IsSOE
      <4>2. i \in Len(toMaster) + 1 .. Len(toMaster')  BY <2>7, <2>8, <3>4, <4>1
      <4>3. i - Len(toMaster) \in 1 .. Count  BY <2>7, <2>8, <3>4, <4>2
      <4> QED  BY <3>2, <3>4, <4>2, <4>3
    <3>6. InOrder(0)'
      <4> SUFFICES ASSUME NEW i \in 1 .. Len(toMaster'), IsSOE(toMaster'[i], "value")
                   PROVE  \E j \in 0 + 1 .. Count : PartAt(0, j, i)'
        BY <2>7 DEF InOrder, IsSOE
      <4>1. PICK j \in 0 + 1 .. Count : j = i - Len(toMaster) /\ toMaster'[i] = Part(j)
        <5>1. i - Len(toMaster) \in 0 + 1 .. Count  BY <3>5
        <5> QED  BY <3>5, <5>1
      <4>2. ASSUME NEW h \in 0 + 1 .. j - 1  PROVE \E l \in 1 .. i - 1 : toMaster'[l] = Part(h)
        <5>1. /\ Len(toMaster) + h \in Len(toMaster) + 1 .. Len(toMaster')
              /\ Len(toMaster) + h \in 1 .. i - 1 /\ (Len(toMaster) + h) - Len(toMaster) = h
              /\ h \in 1 .. Count
          BY <2>7, <2>8, <3>4, <4>1
        <5>2. toMaster'[Len(toMaster) + h] = Part(h)  BY <3>2, <3>4, <5>1
        <5> QED  BY <5>1, <5>2
      <4>3. ASSUME NEW l \in 1 .. i - 1, IsSOE(toMaster'[l], "value")
            PROVE  toMaster'[l].left > Count - j
        <5>1. l \in 1 .. Len(toMaster')  BY <2>7, <2>8, <3>4
        <5>2. l - Len(toMaster) \in 1 .. Count /\ toMaster'[l] = Part(l - Len(toMaster))
          BY <3>5, <4>3, <5>1
        <5>3. toMaster'[l].left = Count - (l - Len(toMaster))
          BY <1>3, <5>2, PartsDiffer
        <5> QED  BY <2>7, <2>8, <4>1, <5>2, <5>3
      <4>4. PartAt(0, j, i)'  BY <2>7, <4>1, <4>2, <4>3 DEF PartAt, IsSOE
      <4> QED  BY <4>1, <4>4
    <3>7. 0 \in 0 .. Count'  BY <2>7
    <3>8. \A g \in Going' : g.proto # "SoE"  BY <2>2 DEF Pending
    <3> QED  BY <1>0, <2>2, <2>7, <3>6, <3>7, <3>8 DEF ValueComes
  <2> QED  BY <2>5, <2>9, <2>10 DEF ServeSOERead
<1> QED  BY <1>0, <1>5, <1>6 DEF ValueReadOK

\* An empty list joined to another.
LEMMA NothingJoined ==
  ASSUME NEW s, IsList(s)
  PROVE  s \o <<>> = s /\ <<>> \o s = s
<1>1. s \in Seq(Elems(s))  BY DEF IsList
<1> QED  BY <1>1, ConcatEmptySeq

\* The value that is written, and its fragments.
LEMMA WriteFragment ==
  ASSUME TypeOK, SOECall
  PROVE  /\ IsList(NewValue) /\ Len(NewValue) = call.size /\ call.size \in Nat
         /\ \A k : /\ Frag(k).proto = "SoE" /\ Frag(k).op = "write"
                   /\ Frag(k).element = call.element
                   /\ Frag(k).data = Piece(NewValue, k) /\ Frag(k).left = LeftAt(k)
                   /\ Frag(k).incomplete = (k * maxvalue < call.size)
<1>1. call.size \in Nat  BY DEF TypeOK, CallOK
<1>2. IsList(NewValue) /\ Len(NewValue) = call.size
  <2> DEFINE E(i) == <<calls, call.element, i>>
  <2>1. NewValue = [i \in 1 .. call.size |-> E(i)]  BY DEF NewValue, Value
  <2> HIDE DEF E
  <2>2. NewValue \in [1 .. call.size -> {E(i) : i \in 1 .. call.size}]  BY <2>1
  <2> QED  BY <1>1, <2>2, ListOfFunction
<1>3. \A k : /\ Frag(k).proto = "SoE" /\ Frag(k).op = "write" /\ Frag(k).element = call.element
             /\ Frag(k).data = Piece(NewValue, k) /\ Frag(k).left = LeftAt(k)
             /\ Frag(k).incomplete = (k * maxvalue < call.size)
  BY DEF Frag, SOEMessage
<1> QED  BY <1>1, <1>2, <1>3

\* A slave that holds the fragments before the next takes the next for their continuation.
LEMMA NextFragment ==
  ASSUME TypeOK, SOECall, NEW k \in Nat, k = 0 \/ k * maxvalue < call.size, Holds(k)
  PROVE  LET m == Frag(k + 1)
             data == IF m.left >= writing.left /\ m.left > 0 THEN m.data ELSE writing.data \o m.data
         IN  /\ m.incomplete => data = SubSeq(NewValue, 1, (k + 1) * maxvalue)
             /\ ~m.incomplete => data = NewValue
<1> DEFINE m == Frag(k + 1)
<1>1. /\ IsList(NewValue) /\ Len(NewValue) = call.size /\ call.size \in Nat
      /\ m.data = Piece(NewValue, k + 1) /\ m.left = LeftAt(k + 1)
      /\ m.incomplete = ((k + 1) * maxvalue < call.size)
  BY WriteFragment
<1>2. writing.data = SubSeq(NewValue, 1, k * maxvalue) /\ writing.left = LeftAt(k)
  BY DEF Holds
<1> HIDE DEF m
<1>3. maxvalue \in Nat /\ maxvalue > 0  BY SOEAssumption
<1>4. k * maxvalue <= Len(NewValue)
  <2>1. CASE k = 0
    <3>1. k * maxvalue = 0  BY <1>3, <2>1
    <3> QED  BY <1>1, <3>1
  <2>2. CASE k * maxvalue < call.size
    <3>1. k * maxvalue \in Nat  BY <1>3
    <3> QED  BY <1>1, <2>2, <3>1
  <2> QED  BY <2>1, <2>2
<1>5. /\ k * maxvalue \in Nat /\ (k + 1) * maxvalue = k * maxvalue + maxvalue
      /\ (k + 1) * maxvalue <= Len(NewValue) =>
           writing.data \o m.data = SubSeq(NewValue, 1, (k + 1) * maxvalue)
      /\ (k + 1) * maxvalue >= Len(NewValue) => writing.data \o m.data = NewValue
  BY <1>1, <1>2, <1>4, PieceJoins
<1> DEFINE data == IF m.left >= writing.left /\ m.left > 0 THEN m.data ELSE writing.data \o m.data
<1>8. ASSUME data = writing.data \o m.data
      PROVE  /\ m.incomplete => data = SubSeq(NewValue, 1, (k + 1) * maxvalue)
             /\ ~m.incomplete => data = NewValue
  <2>1. (k + 1) * maxvalue < call.size \/ (k + 1) * maxvalue >= call.size
    BY <1>1, <1>3, <1>5
  <2>2. (k + 1) * maxvalue < call.size => (k + 1) * maxvalue <= Len(NewValue)
    BY <1>1, <1>3, <1>5
  <2> HIDE DEF data
  <2> QED  BY <1>1, <1>5, <1>8, <2>1, <2>2
<1>6. CASE k = 0
  <2>1. k * maxvalue = 0  BY <1>3, <1>6
  <2>2. writing.data = <<>>
    <3>1. NewValue \in Seq(Elems(NewValue))  BY <1>1 DEF IsList
    <3>2. SubSeq(NewValue, 1, 0) = <<>>  BY <3>1, SubSeqEmpty
    <3> QED  BY <1>2, <2>1, <3>2
  <2>3. IsList(m.data)
    <3>1. k + 1 \in Nat  OBVIOUS
    <3> QED  BY <1>1, <3>1, PieceIsList
  <2>4. writing.data \o m.data = m.data  BY <2>2, <2>3, NothingJoined
  <2> QED  BY <1>8, <2>4 DEF m
<1>7. CASE k # 0
  <2>1. k >= 1 /\ k * maxvalue < call.size  BY <1>7
  <2>2. ~(m.left >= writing.left /\ m.left > 0)
    <3>1. CASE (k + 1) * maxvalue < call.size
      <4> DEFINE a == call.size - (k - 1) * maxvalue
      <4>1. k * maxvalue = (k - 1) * maxvalue + maxvalue /\ (k - 1) * maxvalue \in Nat
        BY <1>3, <2>1
      <4>2. a \in Nat /\ a > maxvalue /\ a - maxvalue = call.size - k * maxvalue
        BY <1>1, <1>3, <1>5, <2>1, <4>1
      <4>3. writing.left = a \div maxvalue  BY <1>2, <2>1 DEF LeftAt
      <4>4. m.left = (a - maxvalue) \div maxvalue
        <5>1. k + 1 >= 1 /\ (k + 1) - 1 = k  BY <2>1
        <5> QED  BY <1>1, <3>1, <4>2, <5>1 DEF LeftAt
      <4> HIDE DEF a
      <4>5. a \div maxvalue \in Nat /\ (a - maxvalue) \div maxvalue = a \div maxvalue - 1
        BY <4>2, LeftGoesDown
      <4> QED  BY <4>3, <4>4, <4>5
    <3>2. CASE ~((k + 1) * maxvalue < call.size)
      <4>1. m.left = 0  BY <1>1, <3>2 DEF LeftAt
      <4> QED  BY <4>1
    <3> QED  BY <3>1, <3>2
  <2> QED  BY <1>8, <2>2 DEF m
<1> QED  BY <1>6, <1>7

\* What it makes of a fragment continues what it holds, ends in the value, or is an error.
LEMMA ServeKeepsValueWrite ==
  ASSUME TypeOK, SOEPlaceOK, ValueWriteOK, ServeSOE
  PROVE  ValueWriteOK'
<1> DEFINE m == toSlave[1]
<1>0. /\ Pending /\ m \in Going /\ m.proto = "SoE" /\ toSlave # <<>>
      /\ Alone => ~Pending'
      /\ Alone' /\ toSlave' = <<>>
      /\ UNCHANGED <<offered, got, old, doubt, client>>
      /\ (Asked' <=> Asked) /\ (Listening' <=> Listening) /\ (Answered' <=> Answered)
  BY Served
<1>1. UNCHANGED <<pc, call, calls, n, buf, stale, slipped, result>>  BY <1>0 DEF client
<1> SUFFICES ASSUME CleanValueWrite'  PROVE ValueWriteOK'
  BY DEF ValueWriteOK
<1>2. CleanValueWrite
  BY <1>0, <1>1 DEF CleanValueWrite, NothingOfSOE, Call
<1>3. SOECall  BY <1>2 DEF CleanValueWrite, SOECall
<1>4. ~(Answered /\ IsSOE(got[1], "written")) /\ ~(pc = "idle" /\ result > 0)
  BY <1>0, <1>2 DEF ValueWriteOK, ValueWritten
<1>5. ~(Answered' /\ IsSOE(got[1], "written")') /\ ~(pc' = "idle" /\ result' > 0)
  BY <1>0, <1>1, <1>4 DEF IsSOE
<1>6. ASSUME Listening  PROVE ValueGoes'
  <2>1. ValueGoes  BY <1>2, <1>6 DEF ValueWriteOK
  <2>2. m = Frag(n) /\ ~Pending' /\ Fresh  BY <1>0, <2>1 DEF ValueGoes
  <2>3. PICK k \in Nat : n = k + 1 /\ (k = 0 \/ k * maxvalue < call.size)
    <3>1. n \in Nat /\ n >= 1 /\ (n = 1 \/ (n - 1) * maxvalue < call.size)
      BY <1>2 DEF TypeOK, CallOK, SOEPlaceOK, SOECall, CleanValueWrite
    <3>2. n - 1 \in Nat /\ n = (n - 1) + 1 /\ (n = 1 => n - 1 = 0)  BY <3>1
    <3> QED  BY <3>1, <3>2
  <2>4. /\ m.op = "write" /\ m.element = call.element /\ m.left = LeftAt(n)
        /\ m.incomplete = (n * maxvalue < call.size)
    BY <1>3, <2>2, WriteFragment
  <2> HIDE DEF m
  <2>5. ServeSOEWrite(m)  BY <2>4 DEF ServeSOE, ServeSOERead, m
  <2>6. /\ NewValue' = NewValue /\ (\A j : LeftAt(j)' = LeftAt(j))
        /\ maxvalue \in Nat /\ n \in Nat /\ n # 0 /\ call.size \in Nat
    <3>1. NewValue' = NewValue /\ (\A j : LeftAt(j)' = LeftAt(j))
      BY <1>1 DEF NewValue, Value, LeftAt
    <3> QED  BY <1>3, <2>3, <3>1, SOEAssumption DEF TypeOK, CallOK
  <2>7. \A i \in 1 .. Len(toMaster) : ~IsSOE(toMaster[i], "written")
    BY <1>0, <2>1 DEF ValueGoes
  <2>8. Broken(Len(toMaster)) \/ Holds(k)
    <3>1. n - 1 = k  BY <2>3
    <3> QED  BY <1>0, <2>1, <3>1 DEF ValueGoes
  <2>9. Fresh' /\ \A g \in Going' : g.proto # "SoE"
    BY <1>0, <2>2 DEF Pending, Fresh
  <2> DEFINE data == IF m.left >= writing.left /\ m.left > 0 THEN m.data ELSE writing.data \o m.data
  <2>10. Holds(k) => /\ m.incomplete => data = SubSeq(NewValue, 1, n * maxvalue)
                     /\ ~m.incomplete => data = NewValue
    BY <1>3, <2>2, <2>3, NextFragment
  <2>11. IsList(toMaster) /\ Len(toMaster) \in Nat  BY ListPlaces DEF TypeOK, ChannelOK
  <2>12. CASE /\ m.incomplete /\ writing' = [data |-> data, left |-> m.left] /\ Answer(<<>>)
              /\ UNCHANGED values
    <3>1. toMaster' = toMaster  BY <2>11, <2>12, NothingJoined DEF Answer
    <3>2. Holds(k) => Holds(n)'
      <4> HIDE DEF data
      <4>1. Holds(k) => writing' = [data |-> SubSeq(NewValue, 1, n * maxvalue), left |-> LeftAt(n)]
        BY <2>4, <2>10, <2>12
      <4> QED  BY <1>1, <2>4, <2>6, <2>12, <4>1 DEF Holds
    <3>3. Broken(Len(toMaster)) => Broken(Len(toMaster))'  BY <3>1 DEF Broken, IsSOE
    <3>4. \A i \in 1 .. Len(toMaster') : ~IsSOE(toMaster[i], "written")'
      BY <2>7, <3>1 DEF IsSOE
    <3> QED  BY <1>0, <1>1, <2>2, <2>8, <2>9, <3>2, <3>3, <3>4 DEF ValueGoes
  <2>13. CASE /\ ~m.incomplete /\ values' = [values EXCEPT ![m.element] = data]
              /\ SOEReply(m, "written")
    <3> DEFINE a == SOEMessage("written", m.drive, m.element, <<>>, 0, FALSE)
    <3>1. toMaster' = toMaster \o <<a>>  BY <2>13 DEF SOEReply, Answer
    <3> HIDE DEF a
    <3>2. /\ Len(toMaster') = Len(toMaster) + 1
          /\ \A i \in 1 .. Len(toMaster) : toMaster'[i] = toMaster[i]
          /\ \A i \in 1 .. Len(toMaster') : i \in 1 .. Len(toMaster) \/ i = Len(toMaster) + 1
      BY <3>1, OneMore
    <3>3. n * maxvalue >= call.size /\ ~(n * maxvalue < call.size)
      <4>1. n * maxvalue \in Nat  BY <2>6
      <4>2. ~(n * maxvalue < call.size)  BY <2>4, <2>13, Zenon
      <4> QED  BY <2>6, <4>1, <4>2
    <3>4. Holds(k) => SlaveValue' = NewValue
      <4>1. SlaveValue' = data
        <5>1. call.element \in DOMAIN values
          BY <1>3 DEF TypeOK, CallOK, OthersOK
        <5> QED  BY <1>1, <2>4, <2>13, <5>1 DEF SlaveValue
      <4> QED  BY <2>10, <2>13, <4>1
    <3>5. Broken(Len(toMaster)) => Broken(Len(toMaster))'
      <4>1. ASSUME NEW l \in 1 .. Len(toMaster), IsSOE(toMaster[l], "write error")
            PROVE  l \in 1 .. Len(toMaster') /\ IsSOE(toMaster'[l], "write error")
        <5>1. l \in 1 .. Len(toMaster') /\ toMaster'[l] = toMaster[l]  BY <2>11, <3>2
        <5> QED  BY <4>1, <5>1
      <4> QED  BY <4>1 DEF Broken, IsSOE
    <3>6. Holds(n)' <=> SlaveValue' = NewValue
      BY <1>1, <2>6, <3>3 DEF Holds
    <3>7. \A i \in 1 .. Len(toMaster') : IsSOE(toMaster[i], "written")' => i = Len(toMaster')
      BY <2>7, <3>2 DEF IsSOE
    <3>8. Broken(Len(toMaster)) \/ SlaveValue' = NewValue  BY <2>8, <3>4
    <3>9. ASSUME NEW i \in 1 .. Len(toMaster'), IsSOE(toMaster[i], "written")'
          PROVE  (n * maxvalue >= call.size)' /\ (SlaveValue' = NewValue' \/ Broken(i)')
      <4>1. i = Len(toMaster')  BY <3>7, <3>9
      <4> QED  BY <1>1, <2>6, <3>3, <3>5, <3>8, <4>1
    <3> QED  BY <1>0, <1>1, <2>2, <2>9, <3>5, <3>6, <3>8, <3>9 DEF ValueGoes
  <2>14. CASE SOEReply(m, "write error")
    <3> DEFINE a == SOEMessage("write error", m.drive, m.element, <<>>, 0, FALSE)
    <3>1. toMaster' = toMaster \o <<a>>  BY <2>14 DEF SOEReply, Answer
    <3>2. IsSOE(a, "write error") /\ ~IsSOE(a, "written")  BY DEF SOEMessage, IsSOE
    <3> HIDE DEF a
    <3>3. /\ Len(toMaster') = Len(toMaster) + 1 /\ toMaster'[Len(toMaster) + 1] = a
          /\ \A i \in 1 .. Len(toMaster) : toMaster'[i] = toMaster[i]
          /\ \A i \in 1 .. Len(toMaster') : i \in 1 .. Len(toMaster) \/ i = Len(toMaster) + 1
      BY <3>1, OneMore
    <3>4. \A i \in 1 .. Len(toMaster') : ~IsSOE(toMaster[i], "written")'
      BY <2>7, <3>2, <3>3 DEF IsSOE
    <3>5. Broken(Len(toMaster))'
      <4>1. Len(toMaster) + 1 \in 1 .. Len(toMaster')  BY <2>11, <3>3
      <4> QED  BY <3>2, <3>3, <4>1 DEF Broken, IsSOE
    <3> QED  BY <1>0, <1>1, <2>2, <2>9, <3>4, <3>5 DEF ValueGoes
  <2> QED  BY <2>5, <2>12, <2>13, <2>14 DEF ServeSOEWrite
<1> QED  BY <1>0, <1>5, <1>6 DEF ValueWriteOK

-----------------------------------------------------------------------------
(***************************************************************************)
(* The steps of a read.                                                    *)
(***************************************************************************)
\* Nothing of SoE is under way.
LEMMA NoneUnderWay ==
  ASSUME TypeOK, \A s \in UnderWay : s[1] # "SoE"
  PROVE  /\ \A i \in 1 .. Len(toMaster) : toMaster[i].proto # "SoE"
         /\ toSlave # <<>> => toSlave[1].proto # "SoE"
         /\ Fresh
<1>1. /\ ToSet(toMaster) = Elems(toMaster)
      /\ \A i \in 1 .. Len(toMaster) : toMaster[i] \in Elems(toMaster)
  BY ListPlaces DEF TypeOK, ChannelOK
<1>2. ASSUME NEW s, Slot(s), s # <<>>  PROVE s[1] \in ToSet(s)
  <2>1. PICK o : s = <<o>>  BY <1>2 DEF Slot
  <2> QED  BY <2>1 DEF ToSet
<1>3. (old # <<>> => old[1] \in ToSet(old)) /\ (toSlave # <<>> => toSlave[1] \in ToSet(toSlave))
  BY <1>2 DEF TypeOK, ChannelOK
<1>4. /\ \A m \in ToSet(toMaster) : <<m.proto, m.op, m.number>> \in UnderWay
      /\ doubt => \A m \in ToSet(old) : <<m.proto, m.op, m.number>> \in UnderWay
      /\ \A m \in ToSet(toSlave) : <<m.proto, "request", 0>> \in UnderWay
  BY Zenon DEF UnderWay
<1>5. \A p, o, k : <<p, o, k>>[1] = p  OBVIOUS
<1>6. /\ \A m \in ToSet(toMaster) : m.proto # "SoE"
      /\ \A m \in ToSet(toSlave) : m.proto # "SoE"
  BY <1>4, <1>5
<1>7. doubt => \A m \in ToSet(old) : m.proto # "SoE"  BY <1>4, <1>5
<1>8. Fresh  BY <1>3, <1>7 DEF Fresh
<1> QED  BY <1>1, <1>3, <1>6, <1>8

\* A step that only waits for what is under way.
LEMMA Waits ==
  ASSUME pc # "send", pc' # "send",
         UNCHANGED <<call, calls, n, buf, toSlave, toMaster, old, doubt, values, writing>>
  PROVE  /\ (Pending' <=> Pending)
         /\ ValueComes => ValueComes'
         /\ ValueGoes => ValueGoes'
         /\ ValueWritten => ValueWritten'
<1>1. Going' = Going /\ Alone' /\ (Fresh' <=> Fresh)  BY DEF Going, Alone, Fresh
<1>2. Pending' <=> Pending  BY <1>1 DEF Pending
<1>3. /\ SlaveValue' = SlaveValue /\ NewValue' = NewValue /\ Count' = Count /\ Request' = Request
      /\ (\A k : Part(k)' = Part(k)) /\ (\A k : Frag(k)' = Frag(k))
      /\ (\A k : Gathered(k)' <=> Gathered(k)) /\ (\A k : Holds(k)' <=> Holds(k))
  BY DEF SlaveValue, NewValue, Value, Count, Request, SOEMessage, Part, Piece, Frag, LeftAt,
     Gathered, Cut, Holds
<1>4. ValueComes => ValueComes'
  <2>1. \A k : InOrder(k)' <=> InOrder(k)  BY <1>3 DEF InOrder, PartAt, IsSOE
  <2>2. NoValue' <=> NoValue  BY DEF NoValue, IsSOE
  <2> QED  BY <1>1, <1>2, <1>3, <2>1, <2>2 DEF ValueComes
<1>5. ValueGoes => ValueGoes'
  <2>1. (Broken(Len(toMaster))' <=> Broken(Len(toMaster))) /\ \A i : Broken(i)' <=> Broken(i)
    BY DEF Broken, IsSOE
  <2> QED  BY <1>1, <1>2, <1>3, <2>1 DEF ValueGoes, IsSOE
<1>6. ValueWritten => ValueWritten'  BY <1>2, <1>3 DEF ValueWritten
<1> QED  BY <1>2, <1>4, <1>5, <1>6

\* Nothing is read yet.
LEMMA ReadBegins ==
  ASSUME TypeOK, SOECall, buf = <<>>, call.size \in Nat
  PROVE  Gathered(0) /\ 0 \in 0 .. Count
<1>1. Count \in Nat /\ IsList(SlaveValue) /\ Len(SlaveValue) \in Nat  BY PartsDiffer
<1>2. 0 * maxvalue = 0  BY SOEAssumption
<1>3. SubSeq(SlaveValue, 1, 0) = <<>> /\ SubSeq(<<>>, 1, 0) = <<>>
  BY <1>1, ListEmpty, SubSeqEmpty DEF IsList
<1>4. Len(<<>>) = 0 /\ SmallerOf(call.size, 0) = 0  BY ListEmpty DEF SmallerOf
<1>5. Cut(<<>>) = <<>>  BY <1>3, <1>4 DEF Cut
<1>6. Cut(SubSeq(SlaveValue, 1, 0 * maxvalue)) = <<>>
  <2>1. SubSeq(SlaveValue, 1, 0 * maxvalue) = <<>>  BY <1>2, <1>3
  <2> QED  BY <1>5, <2>1
<1>7. 0 * maxvalue <= Len(SlaveValue)  BY <1>1, <1>2
<1> QED  BY <1>1, <1>6, <1>7 DEF Gathered

\* The request of a read is alone,
LEMMA RequestKeepsSOE ==
  ASSUME TypeOK, SOEPlaceOK, SOERequest, UNCHANGED soeslave
  PROVE  ValueReadOK' /\ ValueWriteOK'
<1>1. /\ pc = "start" /\ Call("SoEread") /\ offered' = <<Request>>
      /\ pc' = "send" /\ return' = "sent"
      /\ stale' = (IF n = 0 THEN UnderWay ELSE stale)
      /\ UNCHANGED <<toSlave, toMaster, got, old, doubt, call, n, buf, result, values, writing>>
  BY DEF SOERequest, SendRequest, CallMbxsend, soeslave, Request
<1>2. n = 0 /\ buf = <<>> /\ SOECall /\ call.size \in Nat
  BY <1>1 DEF SOEPlaceOK, SOECall, Asked, TypeOK, CallOK
<1>3. ValueWriteOK'  BY <1>1 DEF ValueWriteOK, CleanValueWrite, Call
<1> SUFFICES ASSUME CleanValueRead'  PROVE ValueComes'
  BY <1>1, <1>3 DEF ValueReadOK, Answered
<1>4. /\ \A i \in 1 .. Len(toMaster) : toMaster[i].proto # "SoE"
      /\ toSlave # <<>> => toSlave[1].proto # "SoE"
  <2>1. \A s \in UnderWay : s[1] # "SoE"  BY <1>1, <1>2 DEF CleanValueRead, NothingOfSOE
  <2> QED  BY <2>1, NoneUnderWay
<1>5. Alone'  BY <1>1, <1>4 DEF Alone
<1>6. Request' = Request  BY <1>1 DEF Request, SOEMessage
<1>7. \A g \in Going' : g = Request \/ g.proto # "SoE"  BY <1>1, <1>4 DEF Going
<1>8. NoValue' /\ InOrder(0)'  BY <1>1, <1>4 DEF NoValue, InOrder, IsSOE
<1>9. Gathered(0)' /\ (0 \in 0 .. Count)'
  <2>1. Gathered(0) /\ 0 \in 0 .. Count  BY <1>2, ReadBegins
  <2> QED  BY <1>1, <2>1 DEF Gathered, Count, SlaveValue, Cut
<1> QED  BY <1>5, <1>6, <1>7, <1>8, <1>9 DEF ValueComes

\* its answer is waited for,
LEMMA ReadSentKeepsSOE ==
  ASSUME TypeOK, SOEPlaceOK, ValueReadOK, SOEReadSent, UNCHANGED soeslave
  PROVE  ValueReadOK' /\ ValueWriteOK'
<1>1. /\ pc = "sent" /\ Call("SoEread")
      /\ UNCHANGED <<call, calls, n, buf, stale, toSlave, toMaster, old, doubt, values, writing>>
  BY DEF SOEReadSent, Same, CallMbxreceive, Return, soeslave
<1>2. ValueWriteOK'  BY <1>1 DEF ValueWriteOK, CleanValueWrite, Call
<1>3. CASE wkc > 0 /\ CallMbxreceive(1, "answer")
  <2>1. pc' = "receive"  BY <1>3 DEF CallMbxreceive
  <2>2. Listening /\ ~Answered'  BY <1>1, <1>3, <2>1 DEF Listening, Answered
  <2>3. CleanValueRead' => CleanValueRead
    BY <1>1 DEF CleanValueRead, NothingOfSOE, Call, Asked
  <2>4. ValueComes => ValueComes'  BY <1>1, <2>1, Waits
  <2> QED  BY <1>2, <2>1, <2>2, <2>3, <2>4 DEF ValueReadOK
<1>4. CASE Return(0)
  <2>1. pc' = "idle" /\ ~(result' > 0)  BY <1>4 DEF Return
  <2> QED  BY <1>2, <2>1 DEF ValueReadOK, Listening, Answered
<1> QED  BY <1>3, <1>4 DEF SOEReadSent

\* and each part is joined to those before.
LEMMA ReadAnswerKeepsSOE ==
  ASSUME TypeOK, SOEPlaceOK, ValueReadOK, SOEReadAnswer, UNCHANGED soeslave
  PROVE  ValueReadOK' /\ ValueWriteOK'
<1>1. /\ pc = "answer" /\ Call("SoEread")
      /\ UNCHANGED <<call, calls, n, stale, toSlave, toMaster, old, doubt, values, writing>>
  BY DEF SOEReadAnswer, Same, CallMbxreceive, Return, soeslave
<1>2. ValueWriteOK'  BY <1>1 DEF ValueWriteOK, CleanValueWrite, Call
<1>3. CASE Return(0)
  <2>1. pc' = "idle" /\ ~(result' > 0)  BY <1>3 DEF Return
  <2> QED  BY <1>2, <2>1 DEF ValueReadOK, Listening, Answered
<1>4. CASE /\ wkc > 0 /\ Of(got[1], "value") /\ buf' = Cut(buf \o got[1].data)
           /\ IF got[1].incomplete THEN CallMbxreceive(1, "answer") ELSE Return(1)
  <2> SUFFICES ASSUME CleanValueRead'  PROVE ValueReadOK'
    BY <1>2 DEF ValueReadOK
  <2>1. CleanValueRead
    BY <1>1 DEF CleanValueRead, NothingOfSOE, Call, Asked
  <2>2. Answered /\ IsSOE(got[1], "value")  BY <1>1, <1>4 DEF Answered, Of, IsSOE
  <2>3. PartGot  BY <2>1, <2>2 DEF ValueReadOK
  <2>4. PICK k \in 0 .. Count - 1 : got[1] = Part(k + 1) /\ Gathered(k) /\ InOrder(k + 1)
    BY <2>3 DEF PartGot
  <2>5. SOECall /\ call.size \in Nat  BY <1>1 DEF SOECall, TypeOK, CallOK
  <2>6. /\ Count \in Nat /\ IsList(SlaveValue) /\ Len(SlaveValue) \in Nat
        /\ got[1].incomplete = (k + 1 < Count) /\ got[1].data = Piece(SlaveValue, k + 1)
        /\ (k + 1 < Count <=> (k + 1) * maxvalue < Len(SlaveValue))
        /\ k \in Nat /\ k + 1 \in Nat
    <3>1. Count \in Nat /\ IsList(SlaveValue) /\ Len(SlaveValue) \in Nat  BY <2>5, PartsDiffer
    <3>2. k \in Nat /\ k + 1 \in Nat  BY <2>4, <3>1
    <3>3. k + 1 < Count <=> (k + 1) * maxvalue < Len(SlaveValue)  BY <2>5, <3>2, PartsDiffer
    <3>4. /\ Part(k + 1).incomplete = (k + 1 < Count)
          /\ Part(k + 1).data = Piece(SlaveValue, k + 1)
      BY <2>5, PartsDiffer
    <3>5. got[1] = Part(k + 1)  BY <2>4
    <3> QED  BY <3>1, <3>2, <3>3, <3>4, <3>5
  <2> DEFINE s == SubSeq(SlaveValue, 1, k * maxvalue)
             t == Piece(SlaveValue, k + 1)
  <2>7. /\ k * maxvalue \in Nat /\ (k + 1) * maxvalue = k * maxvalue + maxvalue
        /\ (k + 1) * maxvalue <= Len(SlaveValue) =>
             s \o t = SubSeq(SlaveValue, 1, (k + 1) * maxvalue)
        /\ (k + 1) * maxvalue >= Len(SlaveValue) => s \o t = SlaveValue
    BY <2>4, <2>6, PieceJoins DEF Gathered
  <2>8. IsList(s) /\ IsList(t)
    <3>1. IsList(t)  BY <2>6, PieceIsList
    <3>2. IsList(s)
      <4>1. k * maxvalue <= Len(SlaveValue)  BY <2>4 DEF Gathered
      <4>2. \A i \in 1 .. k * maxvalue : SlaveValue[i] \in Elems(SlaveValue)
        BY <2>6, <2>7, <4>1, ListPlaces
      <4>3. s \in Seq(Elems(SlaveValue))  BY <2>7, <4>2, SubSeqProperties
      <4> QED  BY <4>3, ListOfSeq
    <3> QED  BY <3>1, <3>2
  <2> HIDE DEF s, t
  <2>9. buf = Cut(s) /\ got[1].data = t  BY <2>4, <2>6 DEF Gathered, s, t
  <2>10. buf' = Cut(s \o t)  BY <1>4, <2>5, <2>8, <2>9, CutJoined
  <2>11. maxvalue \in Nat  BY SOEAssumption
  <2>12. pc' # "send" /\ Going' = Going
    <3>1. pc' # "send"  BY <1>4 DEF CallMbxreceive, Return
    <3> QED  BY <1>1, <3>1 DEF Going
  <2>13. ~Pending'  BY <2>3, <2>12 DEF PartGot, Pending
  <2>14. /\ SlaveValue' = SlaveValue /\ Count' = Count /\ (\A j : Part(j)' = Part(j))
         /\ \A d : Cut(d)' = Cut(d)
    BY <1>1 DEF SlaveValue, Count, SOEMessage, Part, Piece, Cut
  <2>15. CASE got[1].incomplete
    <3>1. pc' = "receive" /\ ~Answered' /\ pc' # "idle"
      BY <1>4, <2>15 DEF CallMbxreceive, Answered
    <3>2. Gathered(k + 1)'
      <4>1. (k + 1) * maxvalue <= Len(SlaveValue)
        <5>1. (k + 1) * maxvalue < Len(SlaveValue)  BY <2>6, <2>15
        <5>2. (k + 1) * maxvalue \in Nat  BY <2>7, <2>11
        <5> QED  BY <2>6, <5>1, <5>2
      <4>2. buf' = Cut(SubSeq(SlaveValue, 1, (k + 1) * maxvalue))  BY <2>7, <2>10, <4>1
      <4>3. (Cut(SubSeq(SlaveValue, 1, (k + 1) * maxvalue)))' =
              Cut(SubSeq(SlaveValue, 1, (k + 1) * maxvalue))
        BY <1>1, <2>14 DEF Cut
      <4> QED  BY <2>14, <4>1, <4>2, <4>3 DEF Gathered
    <3>3. InOrder(k + 1)'  BY <1>1, <2>4, <2>14 DEF InOrder, PartAt, IsSOE
    <3>4. k + 1 \in 0 .. Count'  BY <2>6, <2>14
    <3>5. Alone' /\ \A g \in Going' : g.proto # "SoE"  BY <2>12, <2>13 DEF Alone, Pending
    <3> QED  BY <2>13, <3>1, <3>2, <3>3, <3>4, <3>5 DEF ValueReadOK, ValueComes
  <2>16. CASE ~got[1].incomplete
    <3>1. pc' = "idle" /\ ~Answered' /\ ~Listening'
      BY <1>4, <2>16 DEF Return, Answered, Listening
    <3>2. (k + 1) * maxvalue >= Len(SlaveValue)
      <4>1. ~((k + 1) * maxvalue < Len(SlaveValue))  BY <2>6, <2>16
      <4> QED  BY <2>6, <2>7, <2>11, <4>1
    <3>3. buf' = Cut(SlaveValue)'
      <4>1. buf' = Cut(SlaveValue)  BY <2>7, <2>10, <3>2
      <4> QED  BY <1>1, <2>14, <4>1 DEF Cut
    <3> QED  BY <2>13, <3>1, <3>3 DEF ValueReadOK
  <2> QED  BY <2>15, <2>16
<1> QED  BY <1>3, <1>4 DEF SOEReadAnswer, Cut

-----------------------------------------------------------------------------
(***************************************************************************)
(* The steps of a write.                                                   *)
(***************************************************************************)
\* What a call that writes sends.
LEMMA FragmentOffered ==
  ASSUME TypeOK, NEW clean, SendSOEFragment(clean), Call("SoEwrite"), UNCHANGED soeslave
  PROVE  /\ offered' = <<Frag(n + 1)>> /\ pc' = "send" /\ n' = n + 1 /\ n \in Nat
         /\ slipped' = (slipped \/ ~clean)
         /\ stale' = IF n > 0 THEN stale
                     ELSE UnderWay
                          \cup (IF writing = NoWrite THEN {} ELSE {<<"SoE", "partial", 0>>})
         /\ UNCHANGED <<call, calls, toSlave, toMaster, old, doubt, values, writing>>
         /\ NewValue' = NewValue /\ SlaveValue' = SlaveValue
         /\ (\A k : Frag(k)' = Frag(k)) /\ (\A k : Holds(k)' <=> Holds(k))
<1>0. n \in Nat /\ call.size \in Nat  BY DEF TypeOK, CallOK, SOECall
<1>1. /\ pc' = "send" /\ n' = n + 1 /\ slipped' = (slipped \/ ~clean)
      /\ stale' = IF n > 0 THEN stale
                  ELSE UnderWay \cup (IF writing = NoWrite THEN {} ELSE {<<"SoE", "partial", 0>>})
      /\ UNCHANGED <<call, calls, toSlave, toMaster, old, doubt, values, writing>>
  BY DEF SendSOEFragment, CallMbxsend, soeslave
<1> DEFINE more == NextLeft > maxvalue
           left == IF more THEN NextLeft \div maxvalue ELSE 0
<1>2. offered' = <<SOEMessage("write", Drive[call.element], call.element, Piece(NewValue, n + 1),
                              left, more)>>
  BY DEF SendSOEFragment, CallMbxsend, NewValue
<1>3. more = ((n + 1) * maxvalue < call.size)
  <2>1. maxvalue \in Nat  BY SOEAssumption
  <2>2. n * maxvalue \in Nat /\ (n + 1) * maxvalue = n * maxvalue + maxvalue  BY <1>0, <2>1
  <2> QED  BY <1>0, <2>1, <2>2 DEF NextLeft
<1>4. left = LeftAt(n + 1)
  <2>1. n + 1 >= 1 /\ (n + 1) - 1 = n  BY <1>0
  <2>2. NextLeft = call.size - ((n + 1) - 1) * maxvalue  BY <2>1 DEF NextLeft
  <2> QED  BY <1>3, <2>1, <2>2 DEF LeftAt
<1> HIDE DEF more, left
<1>5. offered' = <<Frag(n + 1)>>  BY <1>2, <1>3, <1>4 DEF Frag
<1>6. /\ NewValue' = NewValue /\ SlaveValue' = SlaveValue
      /\ (\A k : Frag(k)' = Frag(k)) /\ (\A k : Holds(k)' <=> Holds(k))
  BY <1>1 DEF NewValue, Value, SlaveValue, Frag, SOEMessage, Piece, LeftAt, Holds
<1> QED  BY <1>0, <1>1, <1>5, <1>6

\* A fragment of a clean write that is sent when the one before has been taken.
LEMMA FragmentKeepsSOE ==
  ASSUME TypeOK, SOEPlaceOK, ValueWriteOK, NEW clean \in BOOLEAN, SendSOEFragment(clean),
         Call("SoEwrite"), UNCHANGED soeslave,
         clean => pc = "start" \/ (pc = "sent" /\ wkc > 0 /\ toSlave = <<>>)
  PROVE  ValueReadOK' /\ ValueWriteOK'
<1>1. /\ offered' = <<Frag(n + 1)>> /\ pc' = "send" /\ n' = n + 1 /\ n \in Nat
      /\ slipped' = (slipped \/ ~clean)
      /\ stale' = IF n > 0 THEN stale
                  ELSE UnderWay \cup (IF writing = NoWrite THEN {} ELSE {<<"SoE", "partial", 0>>})
      /\ UNCHANGED <<call, calls, toSlave, toMaster, old, doubt, values, writing>>
      /\ NewValue' = NewValue /\ SlaveValue' = SlaveValue
      /\ (\A k : Frag(k)' = Frag(k)) /\ (\A k : Holds(k)' <=> Holds(k))
  BY FragmentOffered
<1>2. ValueReadOK'  BY <1>1 DEF ValueReadOK, CleanValueRead, Call
<1> SUFFICES ASSUME CleanValueWrite'  PROVE ValueGoes'
  BY <1>1, <1>2 DEF ValueWriteOK, Answered
<1>3. clean /\ ~slipped
  <2>1. ~slipped'  BY DEF CleanValueWrite
  <2> QED  BY <1>1, <2>1, Zenon
<1>4. SOECall /\ call.size \in Nat  BY DEF SOECall, TypeOK, CallOK
<1>5. /\ toSlave # <<>> => toSlave[1].proto # "SoE"
      /\ Fresh
      /\ Broken(Len(toMaster)) \/ Holds(n)
      /\ \A i \in 1 .. Len(toMaster) : ~IsSOE(toMaster[i], "written")
  <2>1. CASE pc = "start"
    <3>1. n = 0  BY <1>4, <2>1 DEF SOEPlaceOK, Asked
    <3>2. /\ \A s \in UnderWay : s[1] # "SoE"
          /\ writing = NoWrite
      <4>1. \A s \in stale' : s[1] # "SoE"  BY DEF CleanValueWrite, NothingOfSOE
      <4>2. <<"SoE", "partial", 0>>[1] = "SoE"  OBVIOUS
      <4>3. stale' = UnderWay \cup (IF writing = NoWrite THEN {} ELSE {<<"SoE", "partial", 0>>})
        BY <1>1, <3>1
      <4>4. <<"SoE", "partial", 0>> \notin stale'  BY <4>1, <4>2
      <4>5. writing = NoWrite  BY <4>3, <4>4
      <4> QED  BY <4>1, <4>3, <4>5
    <3>3. Holds(0)
      <4>1. IsList(NewValue)  BY <1>4, WriteFragment
      <4>2. SubSeq(NewValue, 1, 0) = <<>>  BY <4>1, SubSeqEmpty DEF IsList
      <4>3. 0 * maxvalue = 0 /\ LeftAt(0) = 0  BY SOEAssumption DEF LeftAt
      <4>4. SubSeq(NewValue, 1, 0 * maxvalue) = <<>>  BY <4>2, <4>3
      <4> QED  BY <3>2, <4>3, <4>4 DEF Holds, NoWrite
    <3> QED  BY <3>1, <3>2, <3>3, NoneUnderWay DEF IsSOE
  <2>2. CASE pc = "sent" /\ wkc > 0 /\ toSlave = <<>>
    <3>1. n >= 1 /\ n * maxvalue < call.size /\ n > 0
      <4>1. Asked /\ Partway  BY <2>2 DEF Asked, Partway
      <4>2. n >= 1 /\ n * maxvalue < call.size  BY <1>4, <4>1 DEF SOEPlaceOK
      <4> QED  BY <1>1, <4>2
    <3>2. CleanValueWrite
      BY <1>1, <1>3, <2>2, <3>1 DEF CleanValueWrite, NothingOfSOE, Asked
    <3>3. Listening /\ ~Pending  BY <2>2 DEF Listening, Pending, Going
    <3>4. ValueGoes  BY <3>2, <3>3 DEF ValueWriteOK
    <3>5. ~(n * maxvalue >= call.size)
      <4>1. n * maxvalue \in Nat  BY <1>1, SOEAssumption
      <4> QED  BY <1>4, <3>1, <4>1
    <3> QED  BY <2>2, <3>3, <3>4, <3>5 DEF ValueGoes
  <2> QED  BY <1>3, <2>1, <2>2
<1>6. Alone' /\ Fresh'  BY <1>1, <1>5 DEF Alone, Fresh
<1>7. Frag(n + 1).proto = "SoE"  BY <1>4, WriteFragment
<1>8. Going' = {Frag(n + 1)} \cup (IF toSlave # <<>> THEN {toSlave[1]} ELSE {})
  BY <1>1 DEF Going
<1>9. Pending' /\ \A g \in Going' : g.proto = "SoE" => g = Frag(n)'
  <2>1. Pending'  BY <1>7, <1>8 DEF Pending
  <2>2. \A g \in Going' : g.proto = "SoE" => g = Frag(n + 1)  BY <1>5, <1>8
  <2>3. Frag(n)' = Frag(n + 1)
    <3>1. Frag(n)' = Frag(n')
      BY <1>1 DEF Frag, SOEMessage, Piece, LeftAt, NewValue, Value
    <3> QED  BY <1>1, <3>1
  <2> QED  BY <2>1, <2>2, <2>3
<1>10. Broken(Len(toMaster))' \/ (Holds(IF Pending THEN n - 1 ELSE n))'
  <2>1. Broken(Len(toMaster)) => Broken(Len(toMaster))'  BY <1>1 DEF Broken, IsSOE
  <2>2. (Holds(IF Pending THEN n - 1 ELSE n))' <=> Holds(n)
    <3>1. (IF Pending' THEN n' - 1 ELSE n') = n  BY <1>1, <1>9
    <3> QED  BY <1>1, <1>9, <3>1 DEF Holds, NewValue, Value, SlaveValue, LeftAt
  <2> QED  BY <1>5, <2>1, <2>2
<1>11. \A i \in 1 .. Len(toMaster') : ~IsSOE(toMaster[i], "written")'
  BY <1>1, <1>5 DEF IsSOE
<1> QED  BY <1>6, <1>9, <1>10, <1>11 DEF ValueGoes

\* The rest of a write.
LEMMA WriteKeepsSOE ==
  ASSUME TypeOK, SOEPlaceOK, ValueWriteOK,
         SOEWriteFirst \/ SOEWriteSent \/ SOEWriteLast \/ SOEWriteAnswer, UNCHANGED soeslave
  PROVE  ValueReadOK' /\ ValueWriteOK'
<1>1. Call("SoEwrite")
  BY DEF SOEWriteFirst, SOEWriteSent, SOEWriteLast, SOEWriteAnswer
<1>2. CASE \/ SendSOEFragment(FALSE)
           \/ SendSOEFragment(TRUE) /\ (pc = "start" \/ (pc = "sent" /\ wkc > 0 /\ toSlave = <<>>))
  BY <1>1, <1>2, FragmentKeepsSOE
<1>3. CASE Same /\ \/ /\ pc \in {"sent", "last"} /\ wkc > 0
                      /\ \E p \in {"answer", "early answer"} : CallMbxreceive(1, p)
                   \/ pc \in {"last", "answer", "early answer"} /\ Return(0)
                   \/ /\ pc \in {"answer", "early answer"} /\ wkc > 0 /\ IsWritten(got[1])
                      /\ Return(1)
  <2>1. UNCHANGED <<call, calls, n, buf, stale, slipped, toSlave, toMaster, old, doubt, values,
                    writing>>
    BY <1>3 DEF Same, CallMbxreceive, Return, soeslave
  <2>2. ValueReadOK'  BY <1>1, <2>1 DEF ValueReadOK, CleanValueRead, Call
  <2>3. Asked /\ pc # "send" /\ pc # "idle"  BY <1>3 DEF Asked
  <2>4. CleanValueWrite' => CleanValueWrite
    BY <2>1, <2>3 DEF CleanValueWrite, NothingOfSOE, Call
  <2>5. CASE /\ pc \in {"sent", "last"} /\ wkc > 0
             /\ \E p \in {"answer", "early answer"} : CallMbxreceive(1, p)
    <3>1. pc' = "receive" /\ Listening /\ ~Answered'
      BY <2>5 DEF CallMbxreceive, Listening, Answered
    <3>2. ValueGoes => ValueGoes'  BY <2>1, <2>3, <3>1, Waits
    <3> QED  BY <2>2, <2>4, <3>1, <3>2 DEF ValueWriteOK
  <2>6. CASE Return(0)
    <3>1. pc' = "idle" /\ ~(result' > 0)  BY <2>6 DEF Return
    <3> QED  BY <2>2, <3>1 DEF ValueWriteOK, Listening, Answered
  <2>7. CASE pc \in {"answer", "early answer"} /\ wkc > 0 /\ IsWritten(got[1]) /\ Return(1)
    <3>1. pc' = "idle" /\ ~Listening' /\ ~Answered'
      BY <2>7 DEF Return, Listening, Answered
    <3>2. Answered /\ IsSOE(got[1], "written")  BY <2>7 DEF Answered, IsWritten, Of, IsSOE
    <3>3. ValueWritten => ValueWritten'  BY <2>1, <2>3, <3>1, Waits
    <3> QED  BY <2>2, <2>4, <3>1, <3>2, <3>3 DEF ValueWriteOK
  <2> QED  BY <1>3, <2>5, <2>6, <2>7
<1>4. CASE SOEWriteFirst  BY <1>2, <1>4 DEF SOEWriteFirst
<1>5. CASE SOEWriteSent  BY <1>2, <1>3, <1>5 DEF SOEWriteSent
<1>6. CASE SOEWriteLast  BY <1>3, <1>6 DEF SOEWriteLast
<1>7. CASE SOEWriteAnswer  BY <1>2, <1>3, <1>7 DEF SOEWriteAnswer
<1> QED  BY <1>4, <1>5, <1>6, <1>7

\* Every step of a call of SoE.
LEMMA SOEKeeps ==
  ASSUME TypeOK, SOEPlaceOK, ValueReadOK, ValueWriteOK, SOE
  PROVE  ValueReadOK' /\ ValueWriteOK'
<1>1. UNCHANGED soeslave  BY DEF SOE
<1>2. CASE CallSOE
  <2>1. PICK c : Begin(c, TRUE)  BY <1>2 DEF CallSOE
  <2>2. pc' = "receive" /\ return' = "start"  BY <2>1, Begins
  <2> QED  BY <2>2 DEF ValueReadOK, CleanValueRead, ValueWriteOK, CleanValueWrite, Asked
<1> QED
  BY <1>1, <1>2, RequestKeepsSOE, ReadSentKeepsSOE, ReadAnswerKeepsSOE, WriteKeepsSOE DEF SOE

ValueInv == TypeOK /\ SOEPlaceOK /\ ValueReadOK /\ ValueWriteOK

\* The inductive invariant.
LEMMA ValueInvKept == ValueInv /\ [Next]_vars => ValueInv'
<1> SUFFICES ASSUME TypeOK, SOEPlaceOK, ValueReadOK, ValueWriteOK, [Next]_vars  PROVE ValueInv'
  BY DEF ValueInv
<1>1. TypeOK' /\ SOEPlaceOK'  BY TypesKept, SOEPlacesKept
<1> SUFFICES ValueReadOK' /\ ValueWriteOK'
  BY <1>1 DEF ValueInv
<1>2. ASSUME Spares  PROVE ValueReadOK' /\ ValueWriteOK'  BY <1>2, SparesRead, SparesWrite
<1>3. CASE ~SOECall'
  BY <1>3 DEF SOECall, ValueReadOK, CleanValueRead, ValueWriteOK, CleanValueWrite
<1>4. CASE SOECall'
  <2>1. CASE (\E ms : Utters(ms)) /\ UNCHANGED soeslave  BY <1>2, <2>1, UtterSpares
  <2>2. CASE EOEHook /\ UNCHANGED soeslave
    <3>1. SOECall  BY <1>4, <2>2 DEF EOEHook, SOECall, Call
    <3> QED  BY <1>2, <2>2, <3>1, HookSpares
  <2>3. CASE (Mbxsend \/ Mbxreceive \/ Repeat) /\ UNCHANGED soeslave
    <3>1. SOECall  BY <1>4, <2>3 DEF Mbxsend, Mbxreceive, Repeat, SOECall, Call
    <3>2. CASE Mbxreceive /\ Answered'  BY <2>3, <3>1, <3>2, ReceiveKeepsSOE
    <3>3. CASE Mbxsend \/ (Mbxreceive /\ ~Answered') \/ Repeat
      BY <1>2, <2>3, <3>1, <3>3, MailboxSpares
    <3> QED  BY <2>3, <3>2, <3>3
  <2>4. CASE ServeSOE  BY <2>4, ServeKeepsValueRead, ServeKeepsValueWrite
  <2>5. CASE SOE  BY <2>5, SOEKeeps
  <2>6. CASE UNCHANGED vars  BY <1>2, <2>6, StutterSpares
  <2> QED  BY <1>4, <2>1, <2>2, <2>3, <2>4, <2>5, <2>6, SOESteps
<1> QED  BY <1>3, <1>4

\* A read over SoE that reports success has returned the value of the drive's element, as
\* much of it as the buffer takes, and after a write that does the drive has the value:
\* whatever was lost, whatever came for other protocols, and however the fragments of the
\* value and of its answer were interleaved with them (SOETrue of module SoE).
THEOREM ValuesTrue == Spec => []SOETrue
<1>1. Init => ValueInv
  <2> SUFFICES ASSUME Init  PROVE ValueInv
    OBVIOUS
  <2>1. ~SOECall  BY DEF Init, ClientInit, SOECall, Call
  <2> QED
    BY <2>1, InitTypes DEF ValueInv, SOEPlaceOK, SOECall, ValueReadOK, CleanValueRead, ValueWriteOK,
       CleanValueWrite
<1>2. ValueInv => SOETrue
  <2> SUFFICES ASSUME ValueInv, NothingOfSOE  PROVE
        /\ Success("SoEread") /\ ~doubt =>
             LET v == values[call.element] IN buf = SubSeq(v, 1, SmallerOf(call.size, Len(v)))
        /\ Success("SoEwrite") /\ ~slipped =>
             values[call.element] = Value(calls, call.element, call.size)
    BY DEF SOETrue, NothingOfSOE
  <2>1. ASSUME Success("SoEread"), ~doubt  PROVE buf = Cut(SlaveValue)
    <3>1. CleanValueRead  BY <2>1 DEF CleanValueRead, Success, Asked
    <3> QED  BY <2>1, <3>1 DEF ValueInv, ValueReadOK, Success
  <2>2. ASSUME Success("SoEwrite"), ~slipped  PROVE SlaveValue = NewValue
    <3>1. CleanValueWrite  BY <2>2 DEF CleanValueWrite, Success, Asked
    <3> QED  BY <2>2, <3>1 DEF ValueInv, ValueWriteOK, ValueWritten, Success
  <2> QED  BY <2>1, <2>2 DEF Cut, SlaveValue, NewValue
<1> QED  BY <1>1, <1>2, ValueInvKept, PTL DEF Spec
=============================================================================
