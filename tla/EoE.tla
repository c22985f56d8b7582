---------------------------------- MODULE EoE ----------------------------------
(***************************************************************************)
(* ecx_EOEsend, ecx_EOErecv, ecx_EOEsetIp, ecx_EOEgetIp and                *)
(* ecx_EOEreadfragment of soem/ethercateoe.c.                              *)
(*                                                                         *)
(* A frame travels in fragments; the first announces its size, time stamp  *)
(* included, in blocks of BLOCK octets, the others say where they belong.  *)
(* The slave sends frames of its own accord and puts those of the master   *)
(* together as ecx_EOEreadfragment does.  An octet is the frame it belongs *)
(* to and its place in it.                                                 *)
(***************************************************************************)
EXTENDS MailboxClient

CONSTANTS
  BLOCK,        \* octets in a block, 32
  Stamp,        \* octets of a time stamp, 4
  fragmentsize, \* octets that fit a message: mbx_l - 10
  FrameSizes,   \* of the frames of the slave
  SendSizes,    \* of the frames of the application
  FrameBuffers, \* sizes of the buffer of ecx_EOErecv
  FrameNos,     \* frame numbers are taken modulo this, 16
  Ports,
  Params,       \* IP parameters
  MaxFrames     \* bound: frames the slave sends

ASSUME EOEAssumption ==
  /\ BLOCK \in Nat \ {0} /\ Stamp \in Nat /\ FrameNos \in Nat \ {0} /\ MaxFrames \in Nat
  /\ fragmentsize \in Nat /\ fragmentsize >= BLOCK
  /\ FrameSizes \subseteq Nat /\ SendSizes \subseteq Nat /\ FrameBuffers \subseteq Nat

VARIABLES
  \* the master
  txframeno,   \* number of the frame sent last, for all calls
  rxframeno,   \* number of the frame ecx_EOErecv puts together
  rx,          \* what the hook puts together: fragment, size, frame number, octets
  handed,      \* the frame the hook handed over last
  \* the slave
  sending,     \* fragments of its frame that are still to be sent
  frames,      \* the frames it has sent
  srx,         \* what it puts together
  taken,       \* the frame it received last
  ip           \* its parameters

eoehook == <<rx, handed>>
eoemaster == <<txframeno, rxframeno>>
eoeslave == <<sending, frames, srx, taken, ip>>

Nothing == [fragment |-> 0, size |-> 0, no |-> 0, data |-> <<>>]
NoFrame == <<>>

EOEInit ==
  /\ txframeno = 0 /\ rxframeno = 0 /\ rx = Nothing /\ handed = NoFrame
  /\ sending = <<>> /\ frames = {} /\ srx = Nothing /\ taken = NoFrame
  /\ ip = [p \in Params |-> 0]

EOEMessage(op, f) ==
  [proto |-> "EoE", op |-> op, number |-> 0, no |-> 0, offset |-> 0, last |-> TRUE, time |-> FALSE,
   port |-> 0, data |-> <<>>, ip |-> f]

\* The octets of a frame of the master (its call) or of the slave (its count), and
\* the time stamp the slave may append.
Octets(sender, k, size) == [i \in 1 .. size |-> <<sender, k, i>>]
TimeStamp(k) == [i \in 1 .. Stamp |-> <<"time", k, i>>]

Blocks(size) == (size + BLOCK - 1) \div BLOCK

\* "Adjust to even 32-octect blocks"
Step == (fragmentsize \div BLOCK) * BLOCK

\* Fragment k of a frame.
Fragment(data, k, no, port, time) ==
  LET from == k * Step
      last == Len(data) - from <= fragmentsize
      to == IF last THEN Len(data) ELSE from + Step IN
  [proto |-> "EoE", op |-> "fragment", number |-> k, no |-> no,
   offset |-> IF k = 0 THEN Blocks(Len(data)) ELSE from \div BLOCK,
   last |-> last, time |-> time /\ last, port |-> port, data |-> SubSeq(data, from + 1, to),
   ip |-> <<>>]

-----------------------------------------------------------------------------
(***************************************************************************)
(* ecx_EOEreadfragment: what is put together, and the frame if there is    *)
(* one.                                                                    *)
(***************************************************************************)
ContinuesAny(r, m) == r.fragment = m.number

\* Inside a frame, a fragment of the same frame that comes next.
Continues(r, m) == r.fragment = m.number /\ r.no = m.no /\ Len(r.data) = m.offset * BLOCK

\* What to go on from: a new frame wherever one begins, or the frame under way.
Base(r, m) ==
  IF m.number = 0
    THEN [fragment |-> 0, size |-> m.offset * BLOCK, no |-> m.no, data |-> <<>>]
    ELSE r

Fits(r, m, size) ==
  Len(r.data) + Len(m.data) <= r.size /\ Len(r.data) + Len(m.data) <= size

Stored(r, m, size) ==
  IF Fits(r, m, size) THEN [r EXCEPT !.data = @ \o m.data, !.fragment = @ + 1] ELSE r

Trimmed(data, m) == SubSeq(data, 1, Len(data) - IF m.time THEN Stamp ELSE 0)

readfragment(r, m, size) ==
  IF m.number # 0 /\ ~Continues(r, m)
    THEN [rx |-> Nothing, frame |-> NoFrame]
    ELSE LET s == Stored(Base(r, m), m, size) IN
         IF m.last THEN [rx |-> Nothing, frame |-> <<Trimmed(s.data, m)>>]
                   ELSE [rx |-> s, frame |-> NoFrame]

\* The buffer of the hook and of the slave holds every frame.
MaxSize == Max(FrameSizes \cup SendSizes) + Stamp

\* The hook in ecx_mbxreceive; the application gives the fragments to
\* ecx_EOEreadfragment and reports them handled, so that the loop reads on.  It may
\* find the mailbox empty and ask for a repetition: then the fragment comes again.
EOEHook ==
  /\ pc = "receive" /\ toMaster # <<>> /\ Hooked(toMaster[1])
  /\ LET f == readfragment(rx, toMaster[1], MaxSize) IN
       rx' = f.rx /\ handed' = (IF f.frame = NoFrame THEN handed ELSE f.frame)
  /\ toMaster' \in {toMaster, Tail(toMaster)} /\ old' = <<toMaster[1]>> /\ got' = <<>>
  /\ wkc' = 0
  /\ \/ expired /\ pc' = return
     \/ ~expired /\ UNCHANGED pc
  /\ UNCHANGED <<offered, toSlave, doubt, EOEhook, return, expired, call, buf, n, result, calls,
                 faults, slipped, stale, eoemaster, eoeslave>>

-----------------------------------------------------------------------------
(***************************************************************************)
(* The slave.                                                              *)
(***************************************************************************)
\* It sends the next fragment of its frame, or begins a new one.
SendFragment ==
  /\ Len(toMaster) < 2
  /\ \/ /\ sending # <<>>
        /\ toMaster' = Append(toMaster, Head(sending)) /\ sending' = Tail(sending)
        /\ UNCHANGED frames
     \/ /\ sending = <<>> /\ Cardinality(frames) < MaxFrames
        /\ \E size \in FrameSizes, port \in Ports, time \in BOOLEAN :
             LET k == Cardinality(frames) + 1
                 data == Octets("slave", k, size)
                 whole == IF time THEN data \o TimeStamp(k) ELSE data
                 F(i) == Fragment(whole, i, k % FrameNos, port, time)
                 last == CHOOSE i \in 0 .. Len(whole) :
                           F(i).last /\ \A j \in 0 .. i - 1 : ~F(j).last IN
               /\ toMaster' = Append(toMaster, F(0)) /\ frames' = frames \cup {data}
               /\ sending' = [i \in 1 .. last |-> F(i)]
  /\ UNCHANGED <<offered, toSlave, got, old, doubt, client, srx, taken, ip, eoehook, eoemaster>>

ServeFragment(m) ==
  /\ m.op = "fragment"
  /\ LET f == readfragment(srx, m, MaxSize) IN
       srx' = f.rx /\ taken' = (IF f.frame = NoFrame THEN taken ELSE f.frame)
  /\ Answer(<<>>) /\ UNCHANGED <<sending, frames, ip>>

ServeSetIp(m) ==
  /\ m.op = "setIp"
  /\ \/ /\ ip' = [p \in Params |-> IF p \in DOMAIN m.ip[1] THEN m.ip[1][p] ELSE ip[p]]
        /\ Answer(<<EOEMessage("set", <<>>)>>)
     \/ Answer(<<EOEMessage("refused", <<>>)>>) /\ UNCHANGED ip
  /\ UNCHANGED <<sending, frames, srx, taken>>

ServeGetIp(m) ==
  /\ m.op = "getIp"
  /\ Answer(<<EOEMessage("ip", <<ip>>)>>)
  /\ UNCHANGED <<sending, frames, srx, taken, ip>>

ServeEOE ==
  /\ Arrived("EoE")
  /\ ServeFragment(toSlave[1]) \/ ServeSetIp(toSlave[1]) \/ ServeGetIp(toSlave[1])
  /\ UNCHANGED <<eoehook, eoemaster>>

-----------------------------------------------------------------------------
(***************************************************************************)
(* The calls.                                                              *)
(***************************************************************************)
CallEOE ==
  \/ \E s \in SendSizes, p \in Ports : Begin([fn |-> "EOEsend", size |-> s, port |-> p], FALSE)
  \/ \E s \in FrameBuffers, p \in Ports : Begin([fn |-> "EOErecv", size |-> s, port |-> p], FALSE)
  \/ \E P \in SUBSET Params \ {{}} : Begin([fn |-> "EOEsetIp", params |-> P], TRUE)
  \/ Begin([fn |-> "EOEgetIp"], TRUE)

\* ecx_EOEsend
SendEOEFragment ==
  /\ Call("EOEsend")
  /\ pc = "start" \/ (pc = "sent" /\ wkc > 0)
  /\ n' = n + 1 /\ txframeno' = IF n = 0 THEN (txframeno + 1) % FrameNos ELSE txframeno
  /\ LET f == Fragment(Octets("master", calls, call.size), n, txframeno', call.port, FALSE) IN
       CallMbxsend(f, IF f.last THEN "last" ELSE "sent")
  /\ UNCHANGED <<buf, slipped, stale, rxframeno>>

EOEsent ==
  /\ Call("EOEsend")
  /\ \/ pc = "last" /\ Return(wkc)
     \/ pc = "sent" /\ wkc <= 0 /\ Return(wkc)
  /\ Same /\ UNCHANGED eoemaster

\* ecx_EOErecv; a fragment that does not fit is passed over.
EOErecv ==
  /\ pc = "start" /\ Call("EOErecv") /\ CallMbxreceive(1, "answer")
  /\ Same /\ UNCHANGED eoemaster

FirstRight(m) == m.offset * BLOCK <= call.size /\ m.port = call.port

InPlace(m) ==
  /\ m.number \in {0, n}
  /\ IF n = 0 THEN FirstRight(m)
              ELSE m.no = rxframeno /\ Len(buf) = m.offset * BLOCK

EOEreceived ==
  /\ pc = "answer" /\ Call("EOErecv")
  /\ \/ /\ wkc > 0 => ~(got[1].proto = "EoE" /\ InPlace(got[1]))
        /\ Return(0) /\ Same /\ UNCHANGED eoemaster
     \/ /\ wkc > 0 /\ got[1].proto = "EoE" /\ InPlace(got[1])
        /\ LET m == got[1]
               fits == Len(buf) + Len(m.data) <= call.size
               data == IF fits THEN buf \o m.data ELSE buf IN
             /\ slipped' = (slipped \/ m.op # "fragment")
             /\ rxframeno' = IF n = 0 THEN m.no ELSE rxframeno
             /\ n' = IF fits THEN n + 1 ELSE n
             /\ IF m.last THEN buf' = Trimmed(data, m) /\ Return(1)
                          ELSE buf' = data /\ CallMbxreceive(1, "answer")
        /\ UNCHANGED <<stale, txframeno>>

\* ecx_EOEsetIp, ecx_EOEgetIp
IsIp == Call("EOEsetIp") \/ Call("EOEgetIp")

SetIpRequest ==
  /\ SendRequest("EOEsetIp", EOEMessage("setIp", <<[p \in call.params |-> calls]>>))
  /\ UNCHANGED eoemaster

GetIpRequest ==
  SendRequest("EOEgetIp", EOEMessage("getIp", <<>>)) /\ UNCHANGED eoemaster

IpSent ==
  /\ pc = "sent" /\ IsIp
  /\ \/ wkc > 0 /\ CallMbxreceive(1, "answer")
     \/ wkc <= 0 /\ Return(0)
  /\ Same /\ UNCHANGED eoemaster

IsEOE(m, op) == m.proto = "EoE" /\ m.op = op

\* "EOE_INIT_RESP" and success, or an error.
IpSet ==
  /\ pc = "answer" /\ Call("EOEsetIp")
  /\ Return(IF wkc > 0 /\ IsEOE(got[1], "set") THEN 1 ELSE 0)
  /\ Same /\ UNCHANGED eoemaster

IpGot ==
  /\ pc = "answer" /\ Call("EOEgetIp")
  /\ \/ /\ wkc > 0 => ~IsEOE(got[1], "ip")
        /\ Return(0) /\ UNCHANGED buf
     \/ /\ wkc > 0 /\ IsEOE(got[1], "ip")
        /\ Return(1) /\ buf' = got[1].ip
  /\ UNCHANGED <<n, slipped, stale, eoemaster>>

EOE ==
  /\ \/ CallEOE /\ UNCHANGED eoemaster
     \/ SendEOEFragment \/ EOEsent \/ EOErecv \/ EOEreceived
     \/ SetIpRequest \/ GetIpRequest \/ IpSent \/ IpSet \/ IpGot
  /\ UNCHANGED <<eoehook, eoeslave>>

-----------------------------------------------------------------------------
\* A frame that is handed over, by ecx_EOErecv or by the hook, is one the slave sent,
\* whole and unmixed, whatever fragments were lost or came again; unless ecx_EOErecv
\* took a late answer to ecx_EOEsetIp or ecx_EOEgetIp for a fragment.
FramesWhole ==
  /\ Success("EOErecv") /\ ~slipped => buf \in frames
  /\ ToSet(handed) \subseteq frames

\* The frame of ecx_EOEsend has reached the slave when the call reports success, or
\* will when the slave takes what is under way.
SentWhole ==
  Success("EOEsend") /\ toSlave = <<>> => taken = <<Octets("master", calls, call.size)>>

\* The parameters read are those of the slave, and those written are its own, unless
\* an earlier request or answer was still under way.
IpTrue ==
  /\ Success("EOEgetIp") /\ {<<"EoE", "request", 0>>, <<"EoE", "ip", 0>>} \cap stale = {} =>
       buf = <<ip>>
  /\ Success("EOEsetIp") /\ {<<"EoE", "request", 0>>, <<"EoE", "set", 0>>} \cap stale = {} =>
       \A p \in call.params : ip[p] = calls

\* Frames are whole both ways, and parameters are the slave's.
EOETrue == FramesWhole /\ SentWhole /\ IpTrue
=============================================================================
