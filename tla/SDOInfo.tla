--------------------------------- MODULE SDOInfo ---------------------------------
(***************************************************************************)
(* The services of soem/ethercatcoe.c beside the SDO transfers: the object *)
(* dictionary (ecx_readODlist, ecx_readODdescription, ecx_readOEsingle,    *)
(* ecx_readOE) and process data by mailbox (ecx_RxPDO, ecx_TxPDO).         *)
(*                                                                         *)
(* Of a description the model keeps what it describes.  The list of        *)
(* objects comes in fragments the slave sends by itself.                   *)
(***************************************************************************)
EXTENDS MailboxClient

CONSTANTS
  Dictionary,    \* the objects of the slave, in their order
  MaxSub,        \* highest subindex of an object
  PerFragment,   \* objects in a fragment of the list
  EC_MAXODLIST,  \* objects the master's list holds, 1024
  MaxFragments,  \* fragments ecx_readODlist reads at most, 129
  PDOnumbers,
  PDOsizes,      \* of the data the application has for a PDO, and the largest the slave has
  PDObuffers,    \* sizes of the parameter buffer of ecx_TxPDO
  maxpdo         \* data that fits a message: mbx_l - 8

ASSUME InfoAssumption ==
  /\ Dictionary \in Seq(ToSet(Dictionary)) /\ MaxSub \in [ToSet(Dictionary) -> Nat]
  /\ PerFragment \in Nat \ {0}
  /\ EC_MAXODLIST \in Nat /\ MaxFragments \in Nat \ {0} /\ maxpdo \in Nat
  /\ PDOsizes \subseteq Nat /\ PDObuffers \subseteq Nat

VARIABLES
  txpdos,  \* data of the slave's TxPDOs, by number
  rxpdos   \* data it was sent for its RxPDOs

coeslave == <<txpdos, rxpdos>>

PDOData(c, number, size) == [i \in 1 .. size |-> <<c, number, i>>]

COEInit ==
  /\ txpdos = [p \in PDOnumbers |-> PDOData(0, p, Max(PDOsizes))]
  /\ rxpdos = [p \in PDOnumbers |-> <<>>]

COEMessage(op, what, data, left) ==
  [proto |-> "CoE", op |-> op, number |-> 0, what |-> what, data |-> data, left |-> left]

-----------------------------------------------------------------------------
(***************************************************************************)
(* The slave.                                                              *)
(***************************************************************************)
ListFragments ==
  LET size == Len(Dictionary)
      count == (size + PerFragment - 1) \div PerFragment IN
  [k \in 1 .. count |->
     COEMessage("list", <<>>,
                SubSeq(Dictionary, (k - 1) * PerFragment + 1, SmallerOf(k * PerFragment, size)),
                count - k)]

ServeCOE ==
  /\ Arrived("CoE")
  /\ LET m == toSlave[1] IN
       \/ m.op = "get list" /\ Answer(ListFragments) /\ UNCHANGED coeslave
       \/ m.op = "get od" /\ Answer(<<COEMessage("od", m.what, <<>>, 0)>>) /\ UNCHANGED coeslave
       \/ m.op = "get oe" /\ Answer(<<COEMessage("oe", m.what, <<>>, 0)>>) /\ UNCHANGED coeslave
       \/ /\ m.op = "txpdo rr"
          /\ Answer(<<COEMessage("txpdo", m.what, txpdos[m.what[1]], 0)>>) /\ UNCHANGED coeslave
       \/ /\ m.op # "rxpdo"
          /\ Answer(<<COEMessage("error", <<>>, <<>>, 0)>>) /\ UNCHANGED coeslave
       \/ /\ m.op = "rxpdo"
          /\ Answer(<<>>) /\ rxpdos' = [rxpdos EXCEPT ![m.what[1]] = m.data] /\ UNCHANGED txpdos

-----------------------------------------------------------------------------
(***************************************************************************)
(* The calls.                                                              *)
(***************************************************************************)
CallCOE ==
  \/ Begin([fn |-> "readODlist"], TRUE)
  \/ \E o \in ToSet(Dictionary) :
       \/ Begin([fn |-> "readODdescription", object |-> o], TRUE)
       \/ Begin([fn |-> "readOE", object |-> o], TRUE)
  \/ \E p \in PDOnumbers :
       \/ \E s \in PDOsizes : Begin([fn |-> "RxPDO", number |-> p, size |-> s], TRUE)
       \/ \E s \in PDObuffers : Begin([fn |-> "TxPDO", number |-> p, size |-> s], TRUE)

ListRequest == SendRequest("readODlist", COEMessage("get list", <<>>, <<>>, 0))

DescriptionRequest ==
  SendRequest("readODdescription", COEMessage("get od", <<call.object>>, <<>>, 0))

EntryRequest == SendRequest("readOE", COEMessage("get oe", <<call.object, n>>, <<>>, 0))

TxPDORequest == SendRequest("TxPDO", COEMessage("txpdo rr", <<call.number>>, <<>>, 0))

\* "limit transfer": what does not fit is cut off.
RxPDO ==
  SendRequest("RxPDO", COEMessage("rxpdo", <<call.number>>,
                PDOData(calls, call.number, SmallerOf(call.size, maxpdo)), 0))

RxPDOSent == pc = "sent" /\ Call("RxPDO") /\ Return(wkc) /\ Same

IsCOE == call.fn \in {"readODlist", "readODdescription", "readOE", "TxPDO"}

\* The end of a call, or of one subindex of ecx_readOE: "for each entry found in
\* ODlist", whether or not the one before was read.
EndOfEntry(r) ==
  IF Call("readOE") /\ n < MaxSub[call.object]
    THEN /\ CallMbxreceive(0, "start")
         /\ n' = n + 1 /\ slipped' = (slipped \/ r <= 0) /\ UNCHANGED stale
    ELSE Return(r) /\ UNCHANGED <<n, slipped, stale>>

COESent ==
  /\ pc = "sent" /\ IsCOE
  /\ \/ wkc > 0 /\ CallMbxreceive(1, "answer") /\ Same
     \/ wkc <= 0 /\ EndOfEntry(0) /\ UNCHANGED buf

Response ==
  [readODlist |-> "list", readODdescription |-> "od", readOE |-> "oe", TxPDO |-> "txpdo"][call.fn]

IsResponse(m) == m.proto = "CoE" /\ m.op = Response

NoResponse ==
  /\ pc = "answer" /\ IsCOE
  /\ wkc > 0 => ~IsResponse(got[1])
  /\ EndOfEntry(0) /\ UNCHANGED buf

GotResponse(fn) == pc = "answer" /\ Call(fn) /\ wkc > 0 /\ IsResponse(got[1])

Untrimmed(data) == data
\* "trim to maximum number of ODlist entries defined"
Trim(data) == SubSeq(data, 1, SmallerOf(Len(data), EC_MAXODLIST - Len(buf)))

ListFragment ==
  /\ GotResponse("readODlist")
  /\ buf' = buf \o Trim(got[1].data)
  /\ n' = n + 1
  /\ IF got[1].left > 0 /\ n' < MaxFragments THEN CallMbxreceive(1, "answer") ELSE Return(1)
  /\ UNCHANGED <<slipped, stale>>

\* Neither index nor subindex of a description is compared.
Description ==
  /\ GotResponse("readODdescription")
  /\ buf' = <<[of |-> <<call.object>>, read |-> got[1].what]>>
  /\ EndOfEntry(1)

Entry ==
  /\ GotResponse("readOE")
  /\ buf' = Append(buf, [of |-> <<call.object, n>>, read |-> got[1].what])
  /\ EndOfEntry(1)

PDOReceived ==
  /\ GotResponse("TxPDO")
  /\ IF Len(got[1].data) <= call.size THEN buf' = got[1].data /\ Return(1)
                                      ELSE Return(0) /\ UNCHANGED buf
  /\ UNCHANGED <<n, slipped, stale>>

COE ==
  /\ \/ CallCOE \/ ListRequest \/ DescriptionRequest \/ EntryRequest \/ TxPDORequest \/ RxPDO
     \/ COESent \/ RxPDOSent \/ NoResponse \/ ListFragment \/ Description \/ Entry \/ PDOReceived
  /\ UNCHANGED coeslave

-----------------------------------------------------------------------------
ListHolds == SubSeq(Dictionary, 1,
               SmallerOf(SmallerOf(Len(Dictionary), EC_MAXODLIST), PerFragment * MaxFragments))

\* What a read of the dictionary reports is what the slave has: the list in its order,
\* as far as the master's list and the number of fragments go; descriptions of what was
\* asked for, of all entries if their number is that of the object; PDO data of the
\* number asked for; unless an earlier request or answer was still under way. A list
\* and the entries of an object are several answers that nothing tells apart: they are
\* right unless a repetition, which a read given up had asked for, may bring one again.
DictionaryTrue ==
  (\A s \in stale : s[1] # "CoE") =>
    /\ Success("readODlist") /\ ~doubt => buf = ListHolds
    /\ Success("readODdescription") => \A d \in ToSet(buf) : d.read = d.of
    /\ Success("readOE") /\ ~doubt /\ Len(buf) = MaxSub[call.object] + 1 =>
         \A d \in ToSet(buf) : d.read = d.of
    /\ Success("TxPDO") => buf = txpdos[call.number]
=============================================================================
