-------------------------------- MODULE SocketNic -------------------------------
(***************************************************************************)
(* linux/nicdrv.c: one index of a port and of its redundant partner, whose *)
(* frames wait in the receive queue of a socket until some thread calls    *)
(* recv.  A port is a record of what it keeps for each of the two stacks:  *)
(*   [rxbufstat, rxbuf, rxsa, queue].                                      *)
(***************************************************************************)
EXTENDS Datagram

EC_NOFRAME == -1
Stacks == {"primary", "secondary"}
\* The source address each stack sends with, by which the master knows a frame's way.
RX == [stack \in Stacks |-> IF stack = "primary" THEN "RX_PRIM" ELSE "RX_SEC"]

setupnic(rxsa, nothing) ==
  [rxbufstat |-> [stack \in Stacks |-> "EMPTY"],
   rxbuf     |-> [stack \in Stacks |-> nothing],
   rxsa      |-> rxsa,
   queue     |-> [stack \in Stacks |-> <<>>]]

\* What the sockets still hold goes with them.
closenic(nic) == [nic EXCEPT !.queue = [stack \in Stacks |-> <<>>]]

WithStatus(nic, stacks, status) ==
  [nic EXCEPT !.rxbufstat = [stack \in Stacks |-> IF stack \in stacks THEN status ELSE @[stack]]]
InUse(double) == IF double THEN Stacks ELSE {"primary"}

getindex(nic, double) == WithStatus(nic, InUse(double), "ALLOC")
setbufstat(nic, double, status) == WithStatus(nic, InUse(double), status)

\* Before and after the frame goes out.
outframe(nic, stack) == WithStatus(nic, {stack}, "TX")
SendFailed(nic, stack) == WithStatus(nic, {stack}, "EMPTY")

\* The kernel puts a frame into the queue of its socket.
Arrives(nic, stack, packet) == [nic EXCEPT !.queue[stack] = Append(@, packet)]

\* There is something to recv.
recvpkt(nic, stack) == nic.queue[stack] # <<>>

\* ecx_inframe when the frame it asks for was filed by another thread, or is read.
inframeFiled(nic, stack) ==
  [nic |-> WithStatus(nic, {stack}, "COMPLETE"), wkc |-> wkcOf(nic.rxbuf[stack])]
inframeRead(nic, stack) ==
  LET packet == Head(nic.queue[stack])
  IN  [nic |-> [WithStatus(nic, {stack}, "COMPLETE") EXCEPT
                  !.queue[stack] = Tail(@),
                  !.rxbuf[stack] = packet.frame,
                  !.rxsa[stack] = packet.sa],
       wkc |-> wkcOf(packet.frame)]

\* ecx_inframe of a thread that asks for another index and reads this one's frame:
\* it files the frame if someone waits for it, and drops it if not.  Where the
\* frame came from is noted after the frame has been marked as received.
Files(nic, stack) ==
  LET packet == Head(nic.queue[stack])
      read   == [nic EXCEPT !.queue[stack] = Tail(@)]
  IN  IF nic.rxbufstat[stack] = "TX"
        THEN [WithStatus(read, {stack}, "RCVD") EXCEPT !.rxbuf[stack] = packet.frame]
        ELSE read
NotesRoute(nic, stack, sa) == [nic EXCEPT !.rxsa[stack] = sa]

-----------------------------------------------------------------------------
(***************************************************************************)
(* ecx_waitinframe_red: what the ways of the two frames tell.              *)
(***************************************************************************)
Route(nic, stack, wkc) == IF wkc > EC_NOFRAME THEN nic.rxsa[stack] ELSE "none"

\* The line is whole: each stack has the other's frame.
Crossed(primrx, secrx) == primrx = "RX_SEC" /\ secrx = "RX_PRIM"
\* The line is broken: the frame, or the part of it that came back, goes out again
\* over the secondary stack.
Broken(primrx, secrx) == primrx \in {"none", "RX_PRIM"} /\ secrx = "RX_SEC"
\* A bug the comparison must find: the frame as it was is sent a second time.
SentAgain(primrx, secrx, tx, rxbuf) == tx
Resent(primrx, secrx, tx, rxbuf) ==
  IF primrx = "RX_PRIM" /\ secrx = "RX_SEC" THEN rxbuf ELSE tx

\* The answer of the secondary stack becomes that of the primary.
LeftInPlace(nic) == nic
CopySecondary(nic) == [nic EXCEPT !.rxbuf["primary"] = nic.rxbuf["secondary"]]

\* ecx_srconfirm goes round again.
Again(wkc) == wkc <= EC_NOFRAME

-----------------------------------------------------------------------------
(***************************************************************************)
(* intime/nicdrv.c: one stack, whose frames wait in a ring of receive      *)
(* buffers until hpeGetReceiveBuffer asks for them.  What it has for a     *)
(* second stack does not compile and is left out.                          *)
(***************************************************************************)
hpeSetupnic(rxsa, nothing) == setupnic(rxsa, nothing)
hpeClosenic(nic) == [nic EXCEPT !.queue["primary"] = <<>>]
hpeSetbufstat(nic, status) == WithStatus(nic, {"primary"}, status)

\* The transmitter is free, takes the buffer, and is started.
hpeOutframe(nic) == WithStatus(nic, {"primary"}, "TX")
\* It stays busy or does not take the buffer: the status is as it was, that of the
\* attempt before or of the allocation; or it does not start.
hpeRefused(nic) == {nic, WithStatus(nic, {"primary"}, "EMPTY")}

hpeRecvpkt(nic) == nic.queue["primary"] # <<>>
hpeInframe(nic) ==
  IF nic.rxbufstat["primary"] = "RCVD" THEN inframeFiled(nic, "primary")
                                       ELSE inframeRead(nic, "primary")

\* ecx_waitinframe_red asks the one stack until it has the frame.
hpeMissing(wkc) == IF wkc <= EC_NOFRAME THEN {"primary"} ELSE {}

\* ecx_srconfirm sends once, although its comment says that it tries again.
hpeAgain(wkc) == FALSE
================================================================================
