------------------------------- MODULE NetHook -------------------------------
(***************************************************************************)
(* The Ethernet hook of the RT-Thread port (oshw/rt-thread/netdev_hook.c): *)
(* a ring of HOOK_RX_BUFSIZE frames filled by _netif_input, which lwIP's   *)
(* receive thread calls, and emptied by net_recv, which the EtherCAT       *)
(* thread calls; install_hook and uninstall_hook put the two functions in  *)
(* front of the driver's.  Nothing locks the ring.  lwIP's thread has a    *)
(* higher priority than the EtherCAT threads (rtconfig.h) and does not     *)
(* block inside _netif_input, so on the single core a call of _netif_input *)
(* is one step, and it can come between any two accesses net_recv makes to *)
(* the shared variables: each of those is a step of its own.               *)
(***************************************************************************)
EXTENDS Naturals, Sequences

CONSTANTS
  HOOK_RX_BUFSIZE, \* slots of the ring
  Windows,         \* how many frames may be under way at most: sent and not
                   \* read back, on the wire or in the ring
  MaxFrames,       \* bound: frames sent in one behaviour
  MaxInstalls,     \* bound: install_hook calls in one behaviour
  Reinstall        \* whether install_hook may be called while installed

ASSUME SizeAssumption == HOOK_RX_BUFSIZE \in Nat \ {0}
ASSUME WindowsAssumption == Windows \subseteq Nat /\ Windows # {}
ASSUME BoundsAssumption == MaxFrames \in Nat /\ MaxInstalls \in Nat
ASSUME ReinstallAssumption == Reinstall \in BOOLEAN

Slots == 0 .. HOOK_RX_BUFSIZE - 1
Frames == 1 .. MaxFrames     \* frames, numbered in the order they arrive
NoFrame == 0

\* Who handles a frame of the device: lwIP's own function or the hook.
Handlers == {"lwip", "hook"}
Netifs == {"null", "netif"}

RecvSteps == {"idle", "compare", "copy", "advance", "test", "clear"}

VARIABLES
  netfrmbuf,     \* the ring's slots (netfrmbuf_cnt goes with them)
  netfrm_head,
  netfrm_tail,
  netfrm_full,
  pc,            \* where the EtherCAT thread is in net_recv
  data,          \* what net_recv has copied out
  netif,         \* the static pointer of netdev_hook.c
  dev_input,     \* netif->input and netif->linkoutput of the device
  input,         \* the saved functions input and link_output
  installs,      \* install_hook calls so far (bounds the model)
  window,        \* most frames under way at once in this behaviour
  outstanding,   \* frames on the wire
  arrived,       \* frames that reached _netif_input so far
  pending,       \* history: frames stored and not read yet
  last           \* history: the last frame read

ring == <<netfrmbuf, netfrm_head, netfrm_tail, netfrm_full>>
hook == <<netif, dev_input, input, installs>>
wire == <<window, outstanding, arrived>>
vars == <<ring, pc, data, hook, wire, pending, last>>

TypeOK ==
  /\ netfrmbuf \in [Slots -> Frames \cup {NoFrame}]
  /\ netfrm_head \in Slots /\ netfrm_tail \in Slots
  /\ netfrm_full \in BOOLEAN
  /\ pc \in RecvSteps
  /\ data \in Frames \cup {NoFrame}
  /\ netif \in Netifs
  /\ dev_input \in Handlers /\ input \in Handlers
  /\ installs \in 0 .. MaxInstalls
  /\ window \in Windows /\ outstanding \in 0 .. MaxFrames /\ arrived \in 0 .. MaxFrames
  /\ pending \in Seq(Frames)
  /\ last \in Frames \cup {NoFrame}

Init ==
  /\ netfrmbuf = [s \in Slots |-> NoFrame]
  /\ netfrm_head = 0 /\ netfrm_tail = 0 /\ netfrm_full = FALSE
  /\ pc = "idle" /\ data = NoFrame
  /\ netif = "null" /\ dev_input = "lwip" /\ input = "lwip"
  /\ installs = 0
  /\ window \in Windows /\ outstanding = 0 /\ arrived = 0
  /\ pending = <<>> /\ last = NoFrame

Inc(s) == IF s + 1 = HOOK_RX_BUFSIZE THEN 0 ELSE s + 1   \* (s + 1) % HOOK_RX_BUFSIZE

-----------------------------------------------------------------------------
(***************************************************************************)
(* install_hook and uninstall_hook.  rt_device_find fails when the name is *)
(* wrong: install_hook then leaves everything but the ring as it was.      *)
(* When the hook is installed already, install_hook prints that it must be *)
(* uninstalled first and goes on with a pointer it never set; the outcome  *)
(* modelled is the one where that pointer is still the device found last   *)
(* time (with any other value the system is lost at once).                 *)
(***************************************************************************)
ResetRing ==
  /\ netfrm_head' = 0 /\ netfrm_tail' = 0 /\ netfrm_full' = FALSE
  /\ pending' = <<>>
  /\ UNCHANGED netfrmbuf

install_hook(found) ==
  /\ pc = "idle" /\ installs < MaxInstalls
  /\ netif = "null" \/ Reinstall
  /\ installs' = installs + 1
  /\ ResetRing
  /\ IF found \/ netif # "null"
       THEN /\ netif' = "netif"
            /\ input' = dev_input
            /\ dev_input' = "hook"
       ELSE UNCHANGED <<netif, input, dev_input>>
  /\ UNCHANGED <<pc, data, wire, last>>

uninstall_hook ==
  /\ pc = "idle" /\ netif # "null"
  /\ dev_input' = input
  /\ netif' = "null"
  /\ pending' = <<>>
  /\ UNCHANGED <<ring, pc, data, input, installs, wire, last>>

-----------------------------------------------------------------------------
(***************************************************************************)
(* The wire and the Ethernet thread.                                       *)
(***************************************************************************)
\* net_send hands the frame to the device unless the pbuf pool is empty.
net_send(pbuf) ==
  /\ netif = "netif" /\ pc = "idle"
  /\ outstanding + Len(pending) < window
  /\ arrived + outstanding < MaxFrames
  /\ outstanding' = IF pbuf THEN outstanding + 1 ELSE outstanding
  /\ UNCHANGED <<ring, pc, data, hook, window, arrived, pending, last>>

LoseFrame ==
  /\ outstanding > 0
  /\ outstanding' = outstanding - 1
  /\ UNCHANGED <<ring, pc, data, hook, window, arrived, pending, last>>

StoreAlways(f) ==
  /\ netfrmbuf' = [netfrmbuf EXCEPT ![netfrm_tail] = f]
  /\ netfrm_tail' = Inc(netfrm_tail)
  /\ netfrm_full' = (netfrm_full \/ netfrm_tail' = netfrm_head)
  /\ pending' = Append(pending, f)

Store(f) ==
  IF netfrm_full
    THEN UNCHANGED <<netfrmbuf, netfrm_tail, netfrm_full, pending>>
    ELSE /\ netfrmbuf' = [netfrmbuf EXCEPT ![netfrm_tail] = f]
         /\ netfrm_tail' = Inc(netfrm_tail)
         /\ netfrm_full' = (netfrm_tail' = netfrm_head)
         /\ pending' = Append(pending, f)

\* A frame comes back.  The hook keeps EtherCAT frames while the ring is not
\* marked full; without the hook the frame goes to lwIP alone.
_netif_input ==
  /\ outstanding > 0
  /\ outstanding' = outstanding - 1
  /\ arrived' = arrived + 1
  /\ IF dev_input = "hook"
       THEN Store(arrived')
       ELSE UNCHANGED <<netfrmbuf, netfrm_tail, netfrm_full, pending>>
  /\ UNCHANGED <<netfrm_head, pc, data, hook, window, last>>

-----------------------------------------------------------------------------
(***************************************************************************)
(* net_recv, one access to the shared variables at a time.                 *)
(***************************************************************************)
Goto(from, to) == pc = from /\ pc' = to

FullUnread ==
  /\ netif = "netif"
  /\ Goto("idle", "compare")
  /\ UNCHANGED <<ring, data, hook, wire, pending, last>>

RecvReadFull ==
  /\ netif = "netif"
  /\ Goto("idle", IF netfrm_full THEN "copy" ELSE "compare")
  /\ UNCHANGED <<ring, data, hook, wire, pending, last>>

RecvCompare ==
  /\ Goto("compare", IF netfrm_tail = netfrm_head THEN "idle" ELSE "copy")
  /\ UNCHANGED <<ring, data, hook, wire, pending, last>>

RecvCopy ==
  /\ Goto("copy", "advance")
  /\ data' = netfrmbuf[netfrm_head]
  /\ UNCHANGED <<ring, hook, wire, pending, last>>

AdvanceToTail ==
  /\ Goto("advance", "test")
  /\ netfrm_head' = netfrm_tail
  /\ last' = data
  /\ pending' = <<>>
  /\ UNCHANGED <<netfrmbuf, netfrm_tail, netfrm_full, data, hook, wire>>

RecvAdvance ==
  /\ Goto("advance", "test")
  /\ netfrm_head' = Inc(netfrm_head)
  /\ last' = data
  /\ pending' = Tail(pending)
  /\ UNCHANGED <<netfrmbuf, netfrm_tail, netfrm_full, data, hook, wire>>

RecvTest ==
  /\ Goto("test", IF netfrm_tail = netfrm_head THEN "clear" ELSE "idle")
  /\ UNCHANGED <<ring, data, hook, wire, pending, last>>

\* The ring now counts as empty, whatever has been stored since the test.
RecvClear ==
  /\ Goto("clear", "idle")
  /\ netfrm_full' = FALSE
  /\ pending' = IF netfrm_tail = netfrm_head THEN <<>> ELSE pending
  /\ UNCHANGED <<netfrmbuf, netfrm_head, netfrm_tail, data, hook, wire, last>>

net_recv ==
  RecvReadFull \/ RecvCompare \/ RecvCopy \/ RecvAdvance \/ RecvTest \/ RecvClear

-----------------------------------------------------------------------------
Next ==
  \/ \E found \in BOOLEAN : install_hook(found)
  \/ uninstall_hook
  \/ \E pbuf \in BOOLEAN : net_send(pbuf)
  \/ LoseFrame
  \/ _netif_input
  \/ net_recv

Spec == Init /\ [][Next]_vars

\* The driver polls net_recv in a loop while it waits for answers.
FairSpec == Spec /\ WF_vars(net_recv)

-----------------------------------------------------------------------------
\* Whatever the interleaving, net_recv returns stored frames in the order they
\* came in and each at most once (netfrm_head, netfrm_tail and netfrm_full
\* against the queue they stand for).
Queue == INSTANCE RxQueue 
           WITH Capacity <- HOOK_RX_BUFSIZE, open <- netif = "netif", q <- pending

RingIsQueue == Queue!Spec

\* While net_recv copies a frame out, the Ethernet thread does not write that
\* slot: the copy is never a mix of two frames.
NoTornCopy == [][pc = "copy" => netfrmbuf'[netfrm_head] = netfrmbuf[netfrm_head]]_vars

\* The frames that net_recv can still reach.
Reachable ==
  IF netfrm_head = netfrm_tail
    THEN IF netfrm_full THEN HOOK_RX_BUFSIZE ELSE 0
    ELSE IF netfrm_tail > netfrm_head THEN netfrm_tail - netfrm_head
         ELSE netfrm_tail + HOOK_RX_BUFSIZE - netfrm_head

\* A master that keeps fewer frames under way than the ring has slots loses no
\* stored frame, not even in the window between net_recv's test for "empty"
\* and its netfrm_full = 0.
NothingForgotten ==
  [][window < HOOK_RX_BUFSIZE /\ netif' = netif
       => Len(pending') >= Len(pending) - (IF last' # last THEN 1 ELSE 0)]_vars

\* Between two net_recv calls the ring's counters account for every stored
\* frame, full ring included.
CountersAgree == pc = "idle" /\ netif = "netif" => Len(pending) = Reachable

\* A ring that refused frames accepts them again once the driver has polled
\* it empty (netfrm_full is cleared on no other occasion).
RingReopens == (netfrm_full /\ netif = "netif") ~> (~netfrm_full \/ netif = "null")
=============================================================================
