---------------------------------- MODULE MuxNic --------------------------------
(***************************************************************************)
(* vxworks/nicdrv.c: the same index and the same two stacks, whose frames  *)
(* the network task hands to a message queue of one place for each index.  *)
(* A port has the shape of SocketNic's, its queue that message queue.      *)
(***************************************************************************)
EXTENDS Datagram

S == INSTANCE SocketNic

\* Both ports are set up alike, and the message queues are made empty.
setupnic(rxsa, nothing) == S!setupnic(rxsa, nothing)
\* The messages that are left are freed with their queues.
closenic(nic) == [nic EXCEPT !.queue = [stack \in S!Stacks |-> <<>>]]

\* Only the port is marked, not its redundant partner.
getindex(nic, double) == S!WithStatus(nic, {"primary"}, "ALLOC")
setbufstat(nic, double, status) == S!WithStatus(nic, S!InUse(double), status)

\* An abandoned frame is taken out of the queue and its buffer used for the new
\* one: out of the primary's queue, whichever stack is sent on.
outfram_send(nic) == [nic EXCEPT !.queue["primary"] = IF @ = <<>> THEN @ ELSE Tail(@)]
Abandons(nic) == nic.queue["primary"] # <<>>

outframe(nic, stack) == outfram_send(S!WithStatus(nic, {stack}, "TX"))
outframe_red(nic) == outfram_send(S!WithStatus(nic, {"secondary"}, "TX"))
SendFailed(nic, stack) == S!WithStatus(outfram_send(nic), {stack}, "EMPTY")

\* The network task passes on a frame that someone expects; one that still waits in
\* the queue gives way to it.
mux_rx_callback(nic, stack, packet) ==
  IF nic.rxbufstat[stack] = "TX" THEN [nic EXCEPT !.queue[stack] = <<packet>>] ELSE nic

recvpkt(nic, stack) == nic.queue[stack] # <<>>
inframe(nic, stack) ==
  LET packet == Head(nic.queue[stack])
  IN  [nic |-> [S!WithStatus(nic, {stack}, "COMPLETE") EXCEPT
                  !.queue[stack] = Tail(@),
                  !.rxbuf[stack] = packet.frame,
                  !.rxsa[stack] = packet.sa],
       wkc |-> wkcOf(packet.frame)]

\* The ways of the two frames decide as they do in the other drivers: keep what the
\* primary stack has, take the secondary's, or send again over the secondary.
waitinframe_red(primrx, secrx) ==
  CASE S!Crossed(primrx, secrx) -> "crossed"
    [] S!Broken(primrx, secrx)  -> "broken"
    [] OTHER                    -> "as_is"
srconfirm(wkc) == S!Again(wkc)
================================================================================
