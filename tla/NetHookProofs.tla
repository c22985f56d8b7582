---------------------------- MODULE NetHookProofs ----------------------------
(***************************************************************************)
(* Proofs about NetHook for every ring size, every number of frames and    *)
(* every window, as long as install_hook is not called on an installed     *)
(* hook.                                                                   *)
(***************************************************************************)
EXTENDS NetHook, TLAPS

\* The slot i places behind the slot head.
At(head, i) == IF head + i >= HOOK_RX_BUFSIZE THEN head + i - HOOK_RX_BUFSIZE
               ELSE head + i

HookInv ==
  /\ netif = "null" => /\ dev_input = "lwip"
                       /\ pc = "idle"
                       /\ pending = <<>>
  /\ netif = "netif" => dev_input = "hook" /\ input = "lwip"

\* The slots from netfrm_head on hold the pending frames and netfrm_tail is
\* the slot behind them.
ContentInv ==
  /\ Len(pending) <= HOOK_RX_BUFSIZE
  /\ \A i \in 1 .. Len(pending) : netfrmbuf[At(netfrm_head, i - 1)] = pending[i]
  /\ netfrm_tail = At(netfrm_head, Len(pending))

\* A full ring is marked full; only while net_recv finishes a read can an
\* empty one still be marked.
FullInv ==
  /\ Len(pending) = HOOK_RX_BUFSIZE => netfrm_full
  /\ pc \notin {"test", "clear"} => (netfrm_full => Len(pending) > 0)

ReadInv ==
  /\ pc \in {"copy", "advance"} => Len(pending) > 0
  /\ pc = "advance" => data = pending[1]

RingInv == netif = "netif" => ContentInv /\ FullInv /\ ReadInv

FrameInv == arrived + outstanding <= MaxFrames

Inv == TypeOK /\ FrameInv /\ HookInv /\ RingInv

LEMMA IncInSlots == ASSUME NEW s \in Slots PROVE Inc(s) \in Slots
BY SizeAssumption DEF Inc, Slots

LEMMA AtInSlots ==
  ASSUME NEW head \in Slots, NEW i \in 0 .. HOOK_RX_BUFSIZE
  PROVE  At(head, i) \in Slots
BY SizeAssumption DEF At, Slots

\* The slots of a ring's worth of frames are distinct.
LEMMA AtInjective ==
  ASSUME NEW head \in Slots,
         NEW i \in 0 .. HOOK_RX_BUFSIZE - 1, NEW j \in 0 .. HOOK_RX_BUFSIZE - 1,
         At(head, i) = At(head, j)
  PROVE  i = j
BY SizeAssumption DEF At, Slots

\* netfrm_tail meets head when the ring is empty or full, only then.
LEMMA TailMeetsHead ==
  ASSUME NEW head \in Slots, NEW n \in 0 .. HOOK_RX_BUFSIZE
  PROVE  At(head, n) = head <=> n = 0 \/ n = HOOK_RX_BUFSIZE
BY SizeAssumption DEF At, Slots

LEMMA AtInc ==
  ASSUME NEW head \in Slots, NEW i \in 0 .. HOOK_RX_BUFSIZE - 1
  PROVE  Inc(At(head, i)) = At(head, i + 1)
BY SizeAssumption DEF At, Slots, Inc

LEMMA InitInv == Init => Inv
<1>. SUFFICES ASSUME Init PROVE Inv
  OBVIOUS
<1>1. pending \in Seq(Frames) /\ Len(pending) = 0
  BY DEF Init
<1>2. 0 \in Slots
  BY SizeAssumption DEF Slots
<1>3. TypeOK
  BY <1>1, <1>2, SizeAssumption, BoundsAssumption
     DEF Init, TypeOK, Frames, NoFrame, Handlers, Netifs, RecvSteps
<1>4. FrameInv /\ HookInv /\ RingInv
  BY BoundsAssumption DEF Init, FrameInv, HookInv, RingInv
<1>5. QED BY <1>3, <1>4 DEF Inv

\* What every step leaves of the types and of the hook's state.
LEMMA InstallKeepsInv ==
  ASSUME Inv, Reinstall = FALSE, NEW found \in BOOLEAN, install_hook(found)
  PROVE  Inv'
<1>. USE SizeAssumption, BoundsAssumption
<1>1. TypeOK' /\ FrameInv'
  <2>1. /\ netfrmbuf' = netfrmbuf /\ netfrm_head' \in Slots /\ netfrm_tail' \in Slots
        /\ netfrm_full' \in BOOLEAN /\ pending' = <<>>
    <3>1. netfrmbuf' = netfrmbuf /\ netfrm_head' = 0 /\ netfrm_tail' = 0 /\ pending' = <<>>
      BY DEF install_hook, ResetRing
    <3>2. netfrm_full' = FALSE
      BY Zenon DEF install_hook, ResetRing
    <3>3. 0 \in Slots /\ FALSE \in BOOLEAN
      BY DEF Slots
    <3>4. QED BY <3>1, <3>2, <3>3, Zenon
  <2>2. /\ netif' \in Netifs /\ dev_input' \in Handlers /\ input' \in Handlers
        /\ installs' \in 0 .. MaxInstalls
    BY DEF Inv, TypeOK, install_hook, Netifs, Handlers
  <2>3. UNCHANGED <<pc, data, window, outstanding, arrived, last>>
    BY DEF install_hook, wire
  <2>4. QED BY <2>1, <2>2, <2>3 DEF Inv, TypeOK, FrameInv
<1>2. HookInv'
  BY DEF Inv, TypeOK, HookInv, install_hook, ResetRing, Netifs
<1>3. RingInv'
  BY DEF Inv, RingInv, ContentInv, FullInv, ReadInv, At, install_hook, ResetRing, Slots
<1>4. QED BY <1>1, <1>2, <1>3 DEF Inv

LEMMA UninstallKeepsInv ==
  ASSUME Inv, uninstall_hook
  PROVE  Inv'
<1>1. TypeOK' /\ FrameInv'
  BY DEF Inv, TypeOK, FrameInv, uninstall_hook, ring, wire, Netifs, Frames
<1>2. HookInv' /\ RingInv'
  BY DEF Inv, TypeOK, HookInv, RingInv, uninstall_hook, Netifs
<1>3. QED BY <1>1, <1>2 DEF Inv

\* Steps of the wire that do not touch the ring.
LEMMA WireKeepsInv ==
  ASSUME Inv,
         LoseFrame \/ (\E pbuf \in BOOLEAN : net_send(pbuf)) \/ UNCHANGED vars
  PROVE  Inv'
<1>1. UNCHANGED <<ring, pc, data, hook, window, arrived, pending, last>>
  BY DEF LoseFrame, net_send, vars, wire
<1>2. outstanding' \in 0 .. MaxFrames /\ arrived + outstanding' <= MaxFrames
  BY BoundsAssumption DEF Inv, TypeOK, FrameInv, LoseFrame, net_send, vars, wire
<1>3. TypeOK' /\ FrameInv'
  BY <1>1, <1>2 DEF Inv, TypeOK, FrameInv, ring, hook
<1>4. HookInv' /\ RingInv'
  BY <1>1 DEF Inv, HookInv, RingInv, ContentInv, FullInv, ReadInv, At, ring, hook
<1>5. QED BY <1>3, <1>4 DEF Inv

\* A frame that comes in keeps the ring in order: the slot it is written to is
\* none of those still to be read.
LEMMA InputKeepsInv ==
  ASSUME Inv, _netif_input
  PROVE  Inv'
<1>. USE SizeAssumption, BoundsAssumption
<1>. DEFINE n == Len(pending)
<1>1. /\ netfrm_head \in Slots /\ netfrm_tail \in Slots /\ pending \in Seq(Frames)
      /\ netfrmbuf \in [Slots -> Frames \cup {NoFrame}] /\ n \in Nat
  BY DEF Inv, TypeOK
<1>2. /\ UNCHANGED <<netfrm_head, pc, data, netif, dev_input, input, installs, window, last>>
      /\ arrived' \in Frames /\ arrived' \in 0 .. MaxFrames
      /\ outstanding' \in 0 .. MaxFrames
      /\ arrived' + outstanding' <= MaxFrames
  BY DEF Inv, TypeOK, FrameInv, _netif_input, hook, Frames
<1>3. CASE dev_input = "hook" /\ ~netfrm_full
  <2>1. /\ netfrmbuf' = [netfrmbuf EXCEPT ![netfrm_tail] = arrived']
        /\ netfrm_tail' = Inc(netfrm_tail)
        /\ netfrm_full' = (netfrm_tail' = netfrm_head)
        /\ pending' = Append(pending, arrived')
    BY <1>3 DEF _netif_input, Store
  <2>2. netif = "netif"
    BY <1>3 DEF Inv, TypeOK, HookInv, Netifs
  <2>3. n < HOOK_RX_BUFSIZE /\ netfrm_tail = At(netfrm_head, n)
    BY <1>1, <1>3, <2>2 DEF Inv, RingInv, ContentInv, FullInv
  <2>4. /\ pending' \in Seq(Frames) /\ Len(pending') = n + 1
        /\ pending'[n + 1] = arrived'
        /\ \A i \in 1 .. n : pending'[i] = pending[i]
    BY <1>1, <1>2, <2>1
  <2>5. netfrm_tail' = At(netfrm_head, n + 1) /\ netfrm_tail' \in Slots
    BY <1>1, <2>1, <2>3, AtInc, IncInSlots
  <2>6. \A i \in 0 .. HOOK_RX_BUFSIZE : At(netfrm_head', i) = At(netfrm_head, i)
    BY <1>2 DEF At
  <2>7. ASSUME NEW i \in 1 .. n + 1 PROVE netfrmbuf'[At(netfrm_head, i - 1)] = pending'[i]
    <3>1. CASE i = n + 1
      BY <3>1, <1>1, <2>1, <2>3, <2>4
    <3>2. CASE i # n + 1
      <4>1. i \in 1 .. n /\ i - 1 \in 0 .. HOOK_RX_BUFSIZE - 1 /\ n \in 0 .. HOOK_RX_BUFSIZE - 1
            /\ i - 1 # n
        BY <3>2, <1>1, <2>3
      <4>2. At(netfrm_head, i - 1) \in Slots /\ At(netfrm_head, i - 1) # netfrm_tail
        BY <4>1, <1>1, <2>3, AtInSlots, AtInjective
      <4>3. netfrmbuf[At(netfrm_head, i - 1)] = pending[i]
        BY <4>1, <2>2 DEF Inv, RingInv, ContentInv
      <4>4. QED BY <4>1, <4>2, <4>3, <1>1, <2>1, <2>4
    <3>3. QED BY <3>1, <3>2
  <2>8. ContentInv'
    <3>1. Len(pending') <= HOOK_RX_BUFSIZE
      BY <1>1, <2>3, <2>4
    <3>2. netfrm_tail' = At(netfrm_head', Len(pending'))
      <4>1. At(netfrm_head', n + 1) = At(netfrm_head, n + 1)
        BY <1>1, <2>3, <2>6
      <4>2. At(netfrm_head', Len(pending')) = At(netfrm_head', n + 1)
        BY <2>4
      <4>3. QED BY <4>1, <4>2, <2>5
    <3>3. ASSUME NEW i \in 1 .. Len(pending') PROVE netfrmbuf'[At(netfrm_head', i - 1)] = pending'[i]
      <4>1. i \in 1 .. n + 1 /\ i - 1 \in 0 .. HOOK_RX_BUFSIZE
        BY <1>1, <2>3, <2>4
      <4>2. At(netfrm_head', i - 1) = At(netfrm_head, i - 1)
        BY <4>1, <2>6
      <4>3. QED BY <4>1, <4>2, <2>7
    <3>4. QED BY <3>1, <3>2, <3>3 DEF ContentInv
  <2>9. FullInv'
    <3>0. n + 1 \in 0 .. HOOK_RX_BUFSIZE /\ n + 1 # 0
      BY <1>1, <2>3
    <3>1. n + 1 = HOOK_RX_BUFSIZE <=> netfrm_tail' = netfrm_head
      BY <3>0, <1>1, <2>5, TailMeetsHead
    <3>2. netfrm_full' <=> netfrm_tail' = netfrm_head
      BY <2>1, Zenon
    <3>3. QED BY <3>0, <3>1, <3>2, <2>4 DEF FullInv
  <2>10. ReadInv'
    BY <1>1, <1>2, <2>2, <2>4 DEF Inv, RingInv, ReadInv
  <2>11. TypeOK'
    BY <1>1, <1>2, <2>1, <2>4, <2>5 DEF Inv, TypeOK
  <2>12. QED
    BY <1>2, <2>2, <2>8, <2>9, <2>10, <2>11 DEF Inv, FrameInv, HookInv, RingInv
<1>4. CASE ~(dev_input = "hook" /\ ~netfrm_full)
  <2>1. UNCHANGED <<netfrmbuf, netfrm_tail, netfrm_full, pending>>
    BY <1>4 DEF _netif_input, Store
  <2>2. QED
    BY <1>2, <2>1
       DEF Inv, TypeOK, FrameInv, HookInv, RingInv, ContentInv, FullInv, ReadInv, At
<1>5. QED BY <1>3, <1>4

\* Where the ring's ends are, while the hook is in place.
LEMMA RingEnds ==
  ASSUME Inv, netif = "netif"
  PROVE  /\ Len(pending) \in 0 .. HOOK_RX_BUFSIZE
         /\ netfrm_tail = At(netfrm_head, Len(pending))
         /\ netfrm_tail = netfrm_head <=> Len(pending) = 0 \/ Len(pending) = HOOK_RX_BUFSIZE
<1>1. Len(pending) \in 0 .. HOOK_RX_BUFSIZE /\ netfrm_tail = At(netfrm_head, Len(pending))
  BY SizeAssumption DEF Inv, TypeOK, RingInv, ContentInv
<1>2. netfrm_head \in Slots
  BY DEF Inv, TypeOK
<1>3. At(netfrm_head, Len(pending)) = netfrm_head
        <=> Len(pending) = 0 \/ Len(pending) = HOOK_RX_BUFSIZE
  BY <1>1, <1>2, TailMeetsHead
<1>4. QED BY <1>1, <1>3

\* net_recv runs only while the hook is in place.
LEMMA RecvWhileHooked ==
  ASSUME Inv, net_recv
  PROVE  netif = "netif" /\ UNCHANGED <<hook, wire>>
<1>1. pc # "idle" \/ netif = "netif"
  BY DEF net_recv, RecvReadFull, RecvCompare, RecvCopy, RecvAdvance, RecvTest, RecvClear, Goto
<1>2. netif = "netif"
  BY <1>1 DEF Inv, TypeOK, HookInv, Netifs
<1>3. UNCHANGED <<hook, wire>>
  BY DEF net_recv, RecvReadFull, RecvCompare, RecvCopy, RecvAdvance, RecvTest, RecvClear
<1>4. QED BY <1>2, <1>3

\* The steps of net_recv that only look.
LEMMA LookKeepsInv ==
  ASSUME Inv, netif = "netif", RecvReadFull \/ RecvCompare \/ RecvTest
  PROVE  Inv'
<1>1. UNCHANGED <<ring, data, hook, wire, pending, last>> /\ pc' \in RecvSteps
  BY DEF RecvReadFull, RecvCompare, RecvTest, Goto, RecvSteps
<1>2. pc' = "copy" => Len(pending) > 0
  <2>1. CASE RecvReadFull
    BY <2>1 DEF Inv, RingInv, FullInv, RecvReadFull, Goto
  <2>2. CASE RecvCompare
    <3>1. pc' = "copy" => netfrm_tail # netfrm_head
      BY <2>2 DEF RecvCompare, Goto
    <3>2. QED BY <3>1, RingEnds
  <2>3. CASE RecvTest
    BY <2>3 DEF RecvTest, Goto
  <2>4. QED BY <2>1, <2>2, <2>3
<1>3. pc' # "advance"
  BY DEF RecvReadFull, RecvCompare, RecvTest, Goto
<1>4. pc' \notin {"test", "clear"} => (netfrm_full => Len(pending) > 0)
  <2>1. CASE RecvReadFull \/ RecvCompare
    BY <2>1 DEF Inv, RingInv, FullInv, RecvReadFull, RecvCompare, Goto
  <2>2. CASE RecvTest
    <3>1. pc' # "clear" => netfrm_tail # netfrm_head
      BY <2>2 DEF RecvTest, Goto
    <3>2. QED BY <3>1, RingEnds
  <2>3. QED BY <2>1, <2>2
<1>5. TypeOK' /\ FrameInv' /\ HookInv'
  BY <1>1 DEF Inv, TypeOK, FrameInv, HookInv, ring, hook, wire
<1>6. ContentInv' /\ FullInv' /\ ReadInv'
  BY <1>1, <1>2, <1>3, <1>4 DEF Inv, RingInv, ContentInv, FullInv, ReadInv, ring
<1>7. QED BY <1>5, <1>6 DEF Inv, RingInv

LEMMA CopyKeepsInv ==
  ASSUME Inv, netif = "netif", RecvCopy
  PROVE  Inv'
<1>1. /\ UNCHANGED <<ring, hook, wire, pending, last>>
      /\ pc = "copy" /\ pc' = "advance" /\ data' = netfrmbuf[netfrm_head]
  BY DEF RecvCopy, Goto
<1>2. netfrmbuf[netfrm_head] = pending[1] /\ Len(pending) > 0
  <2>1. Len(pending) > 0 /\ Len(pending) \in 0 .. HOOK_RX_BUFSIZE
    BY <1>1, RingEnds DEF Inv, RingInv, ReadInv
  <2>2. At(netfrm_head, 0) = netfrm_head
    BY SizeAssumption DEF Inv, TypeOK, At, Slots
  <2>3. 1 \in 1 .. Len(pending) /\ 1 - 1 = 0
    BY <2>1
  <2>4. netfrmbuf[At(netfrm_head, 1 - 1)] = pending[1]
    BY <2>3 DEF Inv, RingInv, ContentInv
  <2>5. QED BY <2>1, <2>2, <2>3, <2>4
<1>3. TypeOK'
  BY <1>1 DEF Inv, TypeOK, ring, hook, wire, RecvSteps
<1>4. FrameInv' /\ HookInv'
  BY <1>1 DEF Inv, FrameInv, HookInv, hook, wire
<1>5. ContentInv' /\ FullInv' /\ ReadInv'
  BY <1>1, <1>2 DEF Inv, RingInv, ContentInv, FullInv, ReadInv, ring
<1>6. QED BY <1>3, <1>4, <1>5 DEF Inv, RingInv

LEMMA AdvanceKeepsInv ==
  ASSUME Inv, netif = "netif", RecvAdvance
  PROVE  Inv' /\ data = Head(pending) /\ pending # <<>>
<1>. DEFINE n == Len(pending)
<1>1. /\ UNCHANGED <<netfrmbuf, netfrm_tail, netfrm_full, data, hook, wire>>
      /\ pc = "advance" /\ pc' = "test"
      /\ netfrm_head' = Inc(netfrm_head)
      /\ last' = data
      /\ pending' = Tail(pending)
  BY DEF RecvAdvance, Goto
<1>2. /\ netfrm_head \in Slots /\ netfrm_head' \in Slots
      /\ pending \in Seq(Frames) /\ n \in 1 .. HOOK_RX_BUFSIZE
  <2>1. netfrm_head \in Slots /\ pending \in Seq(Frames) /\ n > 0 /\ n \in Nat
    BY <1>1 DEF Inv, TypeOK, RingInv, ReadInv
  <2>2. n \in 1 .. HOOK_RX_BUFSIZE
    BY <2>1, RingEnds
  <2>3. QED BY <1>1, <2>1, <2>2, IncInSlots
<1>3. /\ pending' \in Seq(Frames) /\ Len(pending') = n - 1
      /\ \A i \in 1 .. n - 1 : pending'[i] = pending[i + 1]
      /\ data = Head(pending) /\ pending # <<>>
  BY <1>1, <1>2 DEF Inv, RingInv, ReadInv
<1>4. \A i \in 0 .. HOOK_RX_BUFSIZE - 1 : At(netfrm_head', i) = At(netfrm_head, i + 1)
  BY <1>1, <1>2, SizeAssumption DEF At, Inc, Slots
<1>5. ContentInv'
  <2>1. netfrm_tail' = At(netfrm_head', Len(pending'))
    <3>1. netfrm_tail = At(netfrm_head, n)
      BY RingEnds
    <3>2. n - 1 \in 0 .. HOOK_RX_BUFSIZE - 1 /\ (n - 1) + 1 = n
      BY <1>2, SizeAssumption
    <3>3. At(netfrm_head', n - 1) = At(netfrm_head, (n - 1) + 1)
      BY <3>2, <1>4
    <3>4. QED BY <3>1, <3>2, <3>3, <1>1, <1>3
  <2>2. ASSUME NEW i \in 1 .. Len(pending')
        PROVE  netfrmbuf'[At(netfrm_head', i - 1)] = pending'[i]
    <3>1. /\ i \in 1 .. n - 1 /\ i + 1 \in 1 .. n
          /\ i - 1 \in 0 .. HOOK_RX_BUFSIZE - 1 /\ (i - 1) + 1 = i /\ (i + 1) - 1 = i
      BY <1>2, <1>3, SizeAssumption
    <3>2. At(netfrm_head', i - 1) = At(netfrm_head, (i - 1) + 1)
      BY <3>1, <1>4
    <3>3. netfrmbuf[At(netfrm_head, (i + 1) - 1)] = pending[i + 1]
      BY <3>1 DEF Inv, RingInv, ContentInv
    <3>4. QED BY <3>1, <3>2, <3>3, <1>1, <1>3
  <2>3. Len(pending') <= HOOK_RX_BUFSIZE
    BY <1>2, <1>3, SizeAssumption
  <2>4. QED BY <2>1, <2>2, <2>3 DEF ContentInv
<1>6. FullInv' /\ ReadInv'
  BY <1>1, <1>2, <1>3 DEF FullInv, ReadInv
<1>7. TypeOK'
  BY <1>1, <1>2, <1>3 DEF Inv, TypeOK, hook, wire, RecvSteps
<1>8. FrameInv' /\ HookInv'
  BY <1>1, <1>2 DEF Inv, FrameInv, HookInv, hook, wire
<1>9. QED BY <1>3, <1>5, <1>6, <1>7, <1>8 DEF Inv, RingInv

LEMMA ClearKeepsInv ==
  ASSUME Inv, netif = "netif", RecvClear
  PROVE  /\ Inv' /\ last' = last
         /\ pending' = pending \/ (pending' = <<>> /\ Len(pending) = HOOK_RX_BUFSIZE)
<1>1. /\ UNCHANGED <<netfrmbuf, netfrm_head, netfrm_tail, data, hook, wire, last>>
      /\ pc = "clear" /\ pc' = "idle"
      /\ pending' = IF netfrm_tail = netfrm_head THEN <<>> ELSE pending
  BY DEF RecvClear, Goto
<1>2. netfrm_full' = FALSE
  BY Zenon DEF RecvClear
<1>3. ~netfrm_full' /\ netfrm_full' \in BOOLEAN
  BY <1>2
<1>4. pending \in Seq(Frames) /\ netfrm_head \in Slots
  BY DEF Inv, TypeOK
<1>5. pending' \in Seq(Frames) /\ Len(pending') < HOOK_RX_BUFSIZE
  <2>1. CASE netfrm_tail = netfrm_head
    BY <1>1, <2>1, SizeAssumption
  <2>2. CASE netfrm_tail # netfrm_head
    BY <1>1, <1>4, <2>2, RingEnds, SizeAssumption
  <2>3. QED BY <2>1, <2>2
<1>6. ContentInv'
  <2>1. CASE netfrm_tail = netfrm_head
    <3>1. At(netfrm_head, 0) = netfrm_head
      BY <1>4, SizeAssumption DEF At, Slots
    <3>2. pending' = <<>> /\ Len(pending') = 0
      BY <1>1, <2>1
    <3>3. QED BY <1>1, <2>1, <3>1, <3>2, SizeAssumption DEF ContentInv
  <2>2. CASE netfrm_tail # netfrm_head
    BY <1>1, <2>2 DEF Inv, RingInv, ContentInv
  <2>3. QED BY <2>1, <2>2
<1>7. FullInv' /\ ReadInv'
  BY <1>1, <1>3, <1>5 DEF FullInv, ReadInv
<1>8. TypeOK'
  BY <1>1, <1>3, <1>5 DEF Inv, TypeOK, hook, wire, RecvSteps
<1>9. FrameInv' /\ HookInv'
  BY <1>1 DEF Inv, FrameInv, HookInv, hook, wire
<1>10. pending' = pending \/ (pending' = <<>> /\ Len(pending) = HOOK_RX_BUFSIZE)
  <2>1. CASE netfrm_tail = netfrm_head
    <3>1. Len(pending) = 0 => pending = <<>>
      BY <1>4
    <3>2. Len(pending) = 0 \/ Len(pending) = HOOK_RX_BUFSIZE
      BY <2>1, RingEnds
    <3>3. pending' = <<>>
      BY <2>1 DEF RecvClear
    <3>4. QED BY <3>1, <3>2, <3>3
  <2>2. CASE netfrm_tail # netfrm_head
    BY <2>2 DEF RecvClear
  <2>3. QED BY <2>1, <2>2
<1>11. QED BY <1>1, <1>6, <1>7, <1>8, <1>9, <1>10 DEF Inv, RingInv

LEMMA NextKeepsInv ==
  ASSUME Inv, Reinstall = FALSE, [Next]_vars
  PROVE  Inv'
<1>1. CASE \E found \in BOOLEAN : install_hook(found)
  BY <1>1, InstallKeepsInv
<1>2. CASE uninstall_hook
  BY <1>2, UninstallKeepsInv
<1>3. CASE LoseFrame \/ (\E pbuf \in BOOLEAN : net_send(pbuf)) \/ UNCHANGED vars
  BY <1>3, WireKeepsInv
<1>4. CASE _netif_input
  BY <1>4, InputKeepsInv
<1>5. CASE net_recv
  <2>1. netif = "netif"
    BY <1>5, RecvWhileHooked
  <2>2. QED
    BY <1>5, <2>1, LookKeepsInv, CopyKeepsInv, AdvanceKeepsInv, ClearKeepsInv DEF net_recv
<1>6. QED BY <1>1, <1>2, <1>3, <1>4, <1>5 DEF Next

\* The inductive invariant: the ring's slots hold the frames still to be read,
\* in order, whatever step of net_recv the Ethernet thread comes in at.
THEOREM InvHolds == ASSUME Reinstall = FALSE PROVE Spec => []Inv
<1>1. Inv /\ [Next]_vars => Inv'
  BY NextKeepsInv
<1>2. QED BY InitInv, <1>1, PTL DEF Spec

\* The ring's indices stay inside the ring (netfrm_head, netfrm_tail).
THEOREM TypeCorrect == ASSUME Reinstall = FALSE PROVE Spec => []TypeOK
<1>1. Inv => TypeOK
  BY DEF Inv
<1>2. QED BY <1>1, InvHolds, PTL

\* Between two calls of net_recv the ring's counters and its full mark account
\* for exactly the frames still to be read.
THEOREM CountersCorrect == ASSUME Reinstall = FALSE PROVE Spec => []CountersAgree
<1>1. ASSUME Inv PROVE CountersAgree
  <2>. SUFFICES ASSUME pc = "idle", netif = "netif" PROVE Len(pending) = Reachable
    BY DEF CountersAgree
  <2>1. netfrm_head \in Slots /\ netfrm_tail \in Slots
    BY <1>1 DEF Inv, TypeOK
  <2>2. netfrm_tail = netfrm_head => (netfrm_full <=> Len(pending) # 0)
    BY <1>1, RingEnds, SizeAssumption DEF Inv, RingInv, FullInv
  <2>3. QED
    BY <1>1, <2>1, <2>2, RingEnds, SizeAssumption DEF Reachable, At, Slots
<1>2. QED BY <1>1, InvHolds, PTL

\* net_recv never hands out a copy that the Ethernet thread was writing.
THEOREM NoTornCopyHolds == ASSUME Reinstall = FALSE PROVE Spec => NoTornCopy
<1>1. ASSUME Inv, Next, pc = "copy"
      PROVE  netfrmbuf'[netfrm_head] = netfrmbuf[netfrm_head]
  <2>1. CASE _netif_input
    <3>1. CASE dev_input = "hook" /\ ~netfrm_full
      <4>1. netfrmbuf' = [netfrmbuf EXCEPT ![netfrm_tail] = arrived']
        BY <2>1, <3>1 DEF _netif_input, Store
      <4>2. netif = "netif"
        BY <1>1, <3>1 DEF Inv, TypeOK, HookInv, Netifs
      <4>3. Len(pending) # 0 /\ Len(pending) # HOOK_RX_BUFSIZE
        BY <1>1, <3>1, <4>2, SizeAssumption DEF Inv, TypeOK, RingInv, FullInv, ReadInv
      <4>4. netfrm_tail # netfrm_head
        BY <1>1, <4>2, <4>3, RingEnds
      <4>5. QED BY <1>1, <4>1, <4>4 DEF Inv, TypeOK
    <3>2. CASE ~(dev_input = "hook" /\ ~netfrm_full)
      BY <2>1, <3>2 DEF _netif_input, Store
    <3>3. QED BY <3>1, <3>2
  <2>2. CASE ~_netif_input
    BY <1>1, <2>2
       DEF Next, install_hook, ResetRing, uninstall_hook, net_send, LoseFrame, net_recv,
           RecvReadFull, RecvCompare, RecvCopy, RecvAdvance, RecvTest, RecvClear, ring
  <2>3. QED BY <2>1, <2>2
<1>2. Inv /\ [Next]_vars => [pc = "copy" => netfrmbuf'[netfrm_head] = netfrmbuf[netfrm_head]]_vars
  BY <1>1
<1>3. QED BY <1>2, InvHolds, PTL DEF Spec, NoTornCopy

\* The ring implements the queue RxQueue: frames come out in the order they
\* came in, each at most once, and only a full ring is ever lost.
THEOREM RingImplementsQueue == ASSUME Reinstall = FALSE PROVE Spec => RingIsQueue
<1>1. Init => Queue!Init
  BY DEF Init, Queue!Init
<1>2. ASSUME Inv, [Next]_vars
      PROVE  [Queue!Next]_<<netif = "netif", pending, last>>
  <2>1. ASSUME NEW found \in BOOLEAN, install_hook(found)
        PROVE  Queue!Open \/ UNCHANGED <<netif = "netif", pending, last>>
    <3>1. netif = "null" /\ pending' = <<>> /\ last' = last /\ pending = <<>>
      BY <1>2, <2>1, Reinstall = FALSE DEF install_hook, ResetRing, Inv, HookInv
    <3>2. netif' = "netif" \/ netif' = netif
      BY <2>1 DEF install_hook
    <3>3. QED BY <3>1, <3>2 DEF Queue!Open
  <2>2. ASSUME uninstall_hook PROVE Queue!Close
    BY <1>2, <2>2 DEF uninstall_hook, Inv, TypeOK, Netifs, Queue!Close
  <2>3. CASE LoseFrame \/ (\E pbuf \in BOOLEAN : net_send(pbuf)) \/ UNCHANGED vars
    BY <2>3 DEF LoseFrame, net_send, vars, hook
  <2>4. ASSUME _netif_input
        PROVE  (\E f \in Frames : Queue!Put(f)) \/ UNCHANGED <<netif = "netif", pending, last>>
    <3>1. CASE dev_input = "hook" /\ ~netfrm_full
      <4>1. netif = "netif" /\ netif' = netif /\ last' = last
        BY <1>2, <2>4, <3>1 DEF Inv, TypeOK, HookInv, Netifs, _netif_input, hook
      <4>2. Len(pending) < HOOK_RX_BUFSIZE
        BY <1>2, <3>1, <4>1, RingEnds, SizeAssumption DEF Inv, RingInv, FullInv
      <4>3. pending' = Append(pending, arrived')
        BY <2>4, <3>1 DEF _netif_input, Store
      <4>4. arrived' \in Frames
        BY <1>2, <2>4, BoundsAssumption DEF Inv, TypeOK, FrameInv, _netif_input, Frames
      <4>5. QED BY <4>1, <4>2, <4>3, <4>4 DEF Queue!Put
    <3>2. CASE ~(dev_input = "hook" /\ ~netfrm_full)
      BY <2>4, <3>2 DEF _netif_input, Store, hook
    <3>3. QED BY <3>1, <3>2
  <2>5. ASSUME net_recv
        PROVE  Queue!Get \/ Queue!Overrun \/ UNCHANGED <<netif = "netif", pending, last>>
    <3>1. netif = "netif" /\ netif' = netif
      BY <1>2, <2>5, RecvWhileHooked DEF hook
    <3>2. CASE RecvAdvance
      <4>1. data = Head(pending) /\ pending # <<>>
        BY <1>2, <3>1, <3>2, AdvanceKeepsInv
      <4>2. last' = data /\ pending' = Tail(pending)
        BY <3>2 DEF RecvAdvance
      <4>3. QED BY <3>1, <4>1, <4>2 DEF Queue!Get
    <3>3. CASE RecvClear
      BY <1>2, <3>1, <3>3, ClearKeepsInv DEF Queue!Overrun
    <3>4. CASE RecvReadFull \/ RecvCompare \/ RecvCopy \/ RecvTest
      BY <3>1, <3>4 DEF RecvReadFull, RecvCompare, RecvCopy, RecvTest
    <3>5. QED BY <2>5, <3>2, <3>3, <3>4 DEF net_recv
  <2>6. QED BY <1>2, <2>1, <2>2, <2>3, <2>4, <2>5 DEF Next, Queue!Next
<1>3. QED BY <1>1, <1>2, InvHolds, PTL DEF Spec, RingIsQueue, Queue!Spec

-----------------------------------------------------------------------------
(***************************************************************************)
(* No frame is forgotten.  Frames are read in the order they arrived, so   *)
(* that a read shows in `last', and all of those under way are within the  *)
(* window, so that the ring never fills up behind net_recv's back.         *)
(***************************************************************************)
OrderInv ==
  /\ last <= arrived
  /\ \A i \in 1 .. Len(pending) : last < pending[i] /\ pending[i] <= arrived
  /\ \A i \in 1 .. Len(pending) : \A j \in 1 .. Len(pending) : i < j => pending[i] < pending[j]

WindowInv == outstanding + Len(pending) <= window

LEMMA InitWindow == Init => OrderInv /\ WindowInv
<1>. SUFFICES ASSUME Init PROVE OrderInv /\ WindowInv
  OBVIOUS
<1>1. /\ Len(pending) = 0 /\ last = 0 /\ arrived = 0 /\ outstanding = 0
      /\ window \in Nat
  BY WindowsAssumption DEF Init, NoFrame
<1>2. QED BY <1>1 DEF OrderInv, WindowInv

\* A step that leaves the frames stored and read as they are, or forgets them.
LEMMA QuietKeepsWindow ==
  ASSUME Inv, OrderInv, WindowInv, arrived' = arrived, last' = last, window' = window,
         pending' = pending \/ pending' = <<>>,
         outstanding' + Len(pending') <= window \/ outstanding' \in 0 .. outstanding
  PROVE  OrderInv' /\ WindowInv'
<1>1. /\ pending \in Seq(Frames) /\ Len(pending) \in Nat /\ outstanding \in Nat /\ window \in Nat
      /\ last \in Nat /\ arrived \in Nat
  BY WindowsAssumption, BoundsAssumption DEF Inv, TypeOK, Frames, NoFrame
<1>2. CASE pending' = pending
  <2>1. OrderInv'
    BY <1>2 DEF OrderInv
  <2>2. WindowInv'
    BY <1>1, <1>2 DEF WindowInv
  <2>3. QED BY <2>1, <2>2
<1>3. CASE pending' = <<>>
  <2>1. Len(pending') = 0
    BY <1>3
  <2>2. OrderInv' /\ WindowInv'
    BY <1>1, <2>1 DEF OrderInv, WindowInv
  <2>3. QED BY <2>2
<1>4. QED BY <1>2, <1>3

LEMMA InputKeepsWindow ==
  ASSUME Inv, OrderInv, WindowInv, _netif_input
  PROVE  OrderInv' /\ WindowInv' /\ (pending' = pending \/ Len(pending') = Len(pending) + 1)
<1>1. /\ pending \in Seq(Frames) /\ Len(pending) \in Nat /\ outstanding \in Nat /\ window \in Nat
      /\ last \in Nat /\ arrived \in Nat
  BY WindowsAssumption, BoundsAssumption DEF Inv, TypeOK, Frames, NoFrame
<1>2. outstanding' = outstanding - 1 /\ arrived' = arrived + 1 /\ last' = last /\ window' = window
  BY DEF _netif_input
<1>3. arrived' \in Frames
  BY <1>1, <1>2, BoundsAssumption DEF Inv, TypeOK, FrameInv, _netif_input, Frames
<1>4. CASE pending' = pending
  <2>1. \A i \in 1 .. Len(pending) : pending[i] \in Nat
    BY <1>1, BoundsAssumption DEF Frames
  <2>2. OrderInv'
    BY <1>1, <1>2, <1>4, <2>1 DEF OrderInv
  <2>3. WindowInv'
    BY <1>1, <1>2, <1>4 DEF WindowInv
  <2>4. QED BY <1>4, <2>2, <2>3
<1>5. CASE pending' = Append(pending, arrived')
  <2>. DEFINE n == Len(pending)
  <2>1. /\ Len(pending') = n + 1 /\ pending'[n + 1] = arrived'
        /\ \A i \in 1 .. n : pending'[i] = pending[i] /\ pending[i] \in Nat
    BY <1>1, <1>3, <1>5, BoundsAssumption DEF Frames
  <2>2. ASSUME NEW i \in 1 .. n + 1
        PROVE  /\ last < pending'[i] /\ pending'[i] <= arrived'
               /\ i <= n => pending'[i] < arrived'
    BY <1>1, <1>2, <2>1 DEF OrderInv
  <2>3. ASSUME NEW i \in 1 .. n + 1, NEW j \in 1 .. n + 1, i < j
        PROVE  pending'[i] < pending'[j]
    <3>1. CASE j = n + 1
      BY <1>1, <2>1, <2>2, <2>3, <3>1
    <3>2. CASE j # n + 1
      BY <1>1, <2>1, <2>3, <3>2 DEF OrderInv
    <3>3. QED BY <3>1, <3>2
  <2>4. OrderInv'
    BY <1>1, <1>2, <2>1, <2>2, <2>3 DEF OrderInv
  <2>5. WindowInv'
    BY <1>1, <1>2, <2>1 DEF WindowInv
  <2>6. QED BY <2>1, <2>4, <2>5
<1>6. QED BY <1>4, <1>5 DEF _netif_input, Store

\* A read takes the oldest frame, which is not the one read before.
LEMMA AdvanceKeepsWindow ==
  ASSUME Inv, OrderInv, WindowInv, netif = "netif", RecvAdvance
  PROVE  OrderInv' /\ WindowInv' /\ last' # last /\ Len(pending') = Len(pending) - 1
<1>. DEFINE n == Len(pending)
<1>1. /\ pending \in Seq(Frames) /\ outstanding \in Nat /\ window \in Nat
      /\ last \in Nat /\ arrived \in Nat
  BY WindowsAssumption, BoundsAssumption DEF Inv, TypeOK, Frames, NoFrame
<1>2. /\ last' = Head(pending) /\ pending' = Tail(pending) /\ pending # <<>>
      /\ UNCHANGED <<outstanding, arrived, window>>
  BY AdvanceKeepsInv DEF RecvAdvance, wire
<1>3. /\ n \in Nat /\ n >= 1 /\ last' = pending[1] /\ Len(pending') = n - 1
      /\ \A i \in 1 .. n - 1 : pending'[i] = pending[i + 1]
      /\ \A i \in 1 .. n : pending[i] \in Nat
  BY <1>1, <1>2, BoundsAssumption DEF Frames
<1>4. last < last' /\ last' <= arrived'
  BY <1>2, <1>3 DEF OrderInv
<1>5. ASSUME NEW i \in 1 .. n - 1
      PROVE  last' < pending'[i] /\ pending'[i] <= arrived'
  <2>1. i + 1 \in 1 .. n /\ 1 \in 1 .. n /\ 1 < i + 1
    BY <1>3
  <2>2. pending[1] < pending[i + 1] /\ pending[i + 1] <= arrived
    BY <2>1 DEF OrderInv
  <2>3. QED BY <1>2, <1>3, <2>2
<1>6. ASSUME NEW i \in 1 .. n - 1, NEW j \in 1 .. n - 1, i < j
      PROVE  pending'[i] < pending'[j]
  <2>1. i + 1 \in 1 .. n /\ j + 1 \in 1 .. n /\ i + 1 < j + 1
    BY <1>3, <1>6
  <2>2. pending[i + 1] < pending[j + 1]
    BY <2>1 DEF OrderInv
  <2>3. QED BY <1>3, <2>2
<1>7. OrderInv'
  BY <1>3, <1>4, <1>5, <1>6 DEF OrderInv
<1>8. WindowInv'
  BY <1>1, <1>2, <1>3 DEF WindowInv
<1>9. last' # last
  BY <1>1, <1>3, <1>4
<1>10. QED BY <1>3, <1>7, <1>8, <1>9

\* What a step does to the frames stored; a master that keeps fewer of them under way
\* than the ring has slots loses none.
LEMMA NextKeepsWindow ==
  ASSUME Inv, OrderInv, WindowInv, Reinstall = FALSE, [Next]_vars
  PROVE  /\ OrderInv' /\ WindowInv'
         /\ window < HOOK_RX_BUFSIZE /\ netif' = netif
              => Len(pending') >= Len(pending) - (IF last' # last THEN 1 ELSE 0)
<1>0. Len(pending) \in Nat /\ outstanding \in Nat /\ window \in Nat
  BY WindowsAssumption DEF Inv, TypeOK
<1>1. ASSUME NEW found \in BOOLEAN, install_hook(found)
      PROVE  OrderInv' /\ WindowInv' /\ pending' = pending
  <2>1. pending' = <<>> /\ pending = <<>> /\ UNCHANGED <<window, outstanding, arrived, last>>
    BY <1>1, Reinstall = FALSE DEF install_hook, ResetRing, wire, Inv, HookInv
  <2>2. QED BY <2>1, <1>0, QuietKeepsWindow
<1>2. ASSUME uninstall_hook
      PROVE  OrderInv' /\ WindowInv' /\ netif' # netif
  <2>1. pending' = <<>> /\ netif' # netif /\ UNCHANGED <<window, outstanding, arrived, last>>
    BY <1>2 DEF uninstall_hook, wire
  <2>2. QED BY <2>1, <1>0, QuietKeepsWindow
<1>3. ASSUME LoseFrame \/ (\E pbuf \in BOOLEAN : net_send(pbuf)) \/ UNCHANGED vars
      PROVE  OrderInv' /\ WindowInv' /\ pending' = pending
  <2>1. UNCHANGED <<window, arrived, pending, last>>
    BY <1>3 DEF LoseFrame, net_send, vars, wire
  <2>2. outstanding' + Len(pending') <= window \/ outstanding' \in 0 .. outstanding
    BY <1>0, <1>3, <2>1 DEF LoseFrame, net_send, vars, wire, WindowInv
  <2>3. QED BY <2>1, <2>2, QuietKeepsWindow
<1>4. ASSUME _netif_input
      PROVE  OrderInv' /\ WindowInv' /\ (pending' = pending \/ Len(pending') = Len(pending) + 1)
  BY <1>4, InputKeepsWindow
<1>5. ASSUME net_recv
      PROVE  /\ OrderInv' /\ WindowInv'
             /\ \/ pending' = pending
                \/ last' # last /\ Len(pending') = Len(pending) - 1
                \/ Len(pending) = HOOK_RX_BUFSIZE
  <2>1. netif = "netif" /\ UNCHANGED <<window, outstanding, arrived>>
    BY <1>5, RecvWhileHooked DEF wire
  <2>2. CASE RecvReadFull \/ RecvCompare \/ RecvCopy \/ RecvTest
    <3>1. UNCHANGED <<pending, last>>
      BY <2>2 DEF RecvReadFull, RecvCompare, RecvCopy, RecvTest
    <3>2. QED BY <1>0, <2>1, <3>1, QuietKeepsWindow
  <2>3. CASE RecvAdvance
    BY <2>1, <2>3, AdvanceKeepsWindow
  <2>4. CASE RecvClear
    <3>1. last' = last /\ (pending' = pending \/ (pending' = <<>> /\ Len(pending) = HOOK_RX_BUFSIZE))
      BY <2>1, <2>4, ClearKeepsInv
    <3>2. QED BY <1>0, <2>1, <3>1, QuietKeepsWindow
  <2>5. QED BY <1>5, <2>2, <2>3, <2>4 DEF net_recv
<1>6. window < HOOK_RX_BUFSIZE => Len(pending) # HOOK_RX_BUFSIZE
  BY <1>0, SizeAssumption DEF WindowInv
<1>7. QED BY <1>0, <1>1, <1>2, <1>3, <1>4, <1>5, <1>6 DEF Next

\* A master that keeps fewer frames under way than the ring has slots loses no frame
\* that was stored, although net_recv marks the ring as not full in a step of its own.
THEOREM NothingIsForgotten == ASSUME Reinstall = FALSE PROVE Spec => NothingForgotten
<1>1. OrderInv /\ WindowInv /\ Inv /\ [Next]_vars => OrderInv' /\ WindowInv'
  BY NextKeepsWindow
<1>2. Spec => [](OrderInv /\ WindowInv)
  BY <1>1, InitWindow, InvHolds, PTL DEF Spec
<1>3. Inv /\ OrderInv /\ WindowInv /\ [Next]_vars
        => [window < HOOK_RX_BUFSIZE /\ netif' = netif
              => Len(pending') >= Len(pending) - (IF last' # last THEN 1 ELSE 0)]_vars
  BY NextKeepsWindow
<1>4. QED BY <1>2, <1>3, InvHolds, PTL DEF Spec, NothingForgotten
=============================================================================
