---------------------------------- MODULE Drivers -------------------------------
(***************************************************************************)
(* A call of a primitive with two network stacks: the frame goes out by    *)
(* the primary stack and a dummy by the secondary, and from the ways they  *)
(* come back by the master learns where the line is broken and reaches     *)
(* the slaves behind the break.  The stacks are those of linux/nicdrv.c    *)
(* (SocketNic) or of vxworks/nicdrv.c (MuxNic), whose transaction is the   *)
(* same, or the one stack of intime/nicdrv.c (SocketNic, at its end).      *)
(***************************************************************************)
EXTENDS Datagram, FiniteSets, FiniteSetsExt

CONSTANTS
  Requests,    \* the calls: [op, at, ado, data, time]
  Line0,       \* the slaves before the call
  MaxAttempts, \* bound: turns of ecx_srconfirm
  MaxFaults    \* bound: frames lost, sends refused and timers that expire early

ASSUME RequestsAssumption ==
  \A r \in Requests : {"op", "at", "ado", "data", "time"} \subseteq DOMAIN r
ASSUME BoundsAssumption == MaxAttempts \in Nat \ {0} /\ MaxFaults \in Nat

VARIABLES
  driver,   \* "linux", "vxworks" or "intime"
  double,   \* whether the redundant stack is there (ECT_RED_DOUBLE)
  cut,      \* the slave behind which the line is broken; N + 1: it is whole
  slaves,   \* the slaves
  request, call, \* what is asked and the frame and the ending of its primitive
  tx,       \* the frame in the transmit buffer
  nic,      \* the two stacks
  filing,   \* the way of a frame another thread files and has not noted yet
  wire,     \* the frames on their way to each stack
  wkc, wkc2,\* the counters of the two stacks
  pc,       \* where the call is
  attempts, \* turns of ecx_srconfirm
  faults,   \* what was spent of MaxFaults
  lost,     \* whether a frame was lost, refused, dropped or taken out of its queue,
  late,     \* a timer expired early,
  torn      \* or a frame was used before its way was noted, for the properties

master == <<driver, double, request, call>>
history == <<faults, lost, late, torn>>
vars == <<driver, double, cut, slaves, request, call, tx, nic, filing, wire,
          wkc, wkc2, pc, attempts, faults, lost, late, torn>>

Sock == INSTANCE SocketNic
Mux == INSTANCE MuxNic

N == Len(Line0)
Stacks == Sock!Stacks
EC_NOFRAME == Sock!EC_NOFRAME
Packet(stack, frame) == [sa |-> Sock!RX[stack], frame |-> frame]
txbuf2 == setupdatagram("BRD", 0, "TYPE", <<Zero>>)
Polled == driver # "vxworks"   \* frames wait until some thread asks for them

Build(r) ==
  CASE r.op = "BWR"  -> BWR(r.ado, r.data)
    [] r.op = "BRD"  -> BRD(r.ado, r.data)
    [] r.op = "APRD" -> APRD(1 - r.at, r.ado, r.data)
    [] r.op = "APWR" -> APWR(1 - r.at, r.ado, r.data)
    [] r.op = "ARMW" -> ARMW(1 - r.at, r.ado, r.data)
    [] r.op = "FPRD" -> FPRD(r.at, r.ado, r.data)
    [] r.op = "FPWR" -> FPWR(r.at, r.ado, r.data)
    [] r.op = "FRMW" -> FRMW(r.at, r.ado, r.data)
    [] r.op = "LRD"  -> LRD(0, r.data)
    [] r.op = "LWR"  -> LWR(0, r.data)
    [] r.op = "LRW"  -> LRW(0, r.data)
    [] r.op = "LRWDC" -> LRWDC(0, r.data, r.at, r.time)
    [] r.op = "FPRD_multi" -> FPRD_multi(r.at, r.data)

-----------------------------------------------------------------------------
(***************************************************************************)
(* The line.  Whole, it carries the frame of the primary stack past every  *)
(* slave to the secondary, and that of the secondary back untouched.       *)
(* Broken behind slave cut, it returns each frame to where it came from,   *)
(* past the slaves on its side; one whose side is empty is gone.           *)
(***************************************************************************)
Whole == cut = N + 1
UpTo(a, b) == [i \in 1..(b - a + 1) |-> a + i - 1]
WayOf(stack) ==
  IF stack = "primary"
    THEN IF Whole THEN [past |-> UpTo(1, N), to |-> {"secondary"}]
                  ELSE [past |-> UpTo(1, cut), to |-> IF cut > 0 THEN {"primary"} ELSE {}]
    ELSE IF Whole THEN [past |-> <<>>, to |-> {"primary"}]
                  ELSE [past |-> UpTo(cut + 1, N), to |-> IF cut < N THEN {"secondary"} ELSE {}]

\* A frame is sent and arrives, is lost behind some slave, or is refused.
Transmit(stack, packet, ready, refused, harmed) ==
  LET way == WayOf(stack)
      all == PassAll(slaves, packet.frame, way.past)
  IN  /\ \/ /\ nic' = ready
            /\ slaves' = all.slaves
            /\ wire' = [s \in Stacks |-> IF s \in way.to
                                           THEN Append(wire[s], [packet EXCEPT !.frame = all.frame])
                                           ELSE wire[s]]
            /\ lost' = (lost \/ harmed)
            /\ UNCHANGED faults
         \/ /\ faults < MaxFaults
            /\ nic' = ready
            /\ \E k \in 0..Len(way.past) :
                 slaves' = PassAll(slaves, packet.frame, SubSeq(way.past, 1, k)).slaves
            /\ lost' = TRUE
            /\ faults' = faults + 1
            /\ UNCHANGED wire
         \/ /\ faults < MaxFaults
            /\ nic' \in refused
            /\ lost' = TRUE
            /\ faults' = faults + 1
            /\ UNCHANGED <<slaves, wire>>
      /\ UNCHANGED <<late, torn, cut, filing>>

\* A frame that comes before its stack has been marked, the primary's frame on its way
\* to the secondary stack before the dummy is sent, finds nobody who expects it.
Expected(stack) == nic.rxbufstat[stack] = "TX"

Deliver(stack) ==
  /\ pc \notin {"done", "closed"}
  /\ wire[stack] # <<>>
  /\ wire' = [wire EXCEPT ![stack] = Tail(@)]
  /\ nic' = IF Polled THEN Sock!Arrives(nic, stack, Head(wire[stack]))
                     ELSE Mux!mux_rx_callback(nic, stack, Head(wire[stack]))
  /\ lost' = (lost \/ (~Polled /\ ~Expected(stack)))
  /\ UNCHANGED <<master, cut, slaves, tx, filing, wkc, wkc2, pc, attempts, faults, late, torn>>

\* Another thread of a driver that polls reads a frame of this index.
OtherFiles(stack) ==
  /\ Polled /\ pc \notin {"done", "closed"}
  /\ \A s \in Stacks : filing[s] = "none"
  /\ Sock!recvpkt(nic, stack)
  /\ nic' = Sock!Files(nic, stack)
  /\ filing' = [filing EXCEPT ![stack] = IF Expected(stack) THEN Head(nic.queue[stack]).sa
                                                            ELSE "none"]
  /\ lost' = (lost \/ ~Expected(stack))
  /\ UNCHANGED <<master, cut, slaves, tx, wire, wkc, wkc2, pc, attempts, faults, late, torn>>

OtherNotes(stack) ==
  /\ filing[stack] # "none"
  /\ nic' = Sock!NotesRoute(nic, stack, filing[stack])
  /\ filing' = [filing EXCEPT ![stack] = "none"]
  /\ UNCHANGED <<master, cut, slaves, tx, wire, wkc, wkc2, pc, attempts, history>>

-----------------------------------------------------------------------------
\* An index is taken, the datagram is set up.
Start ==
  /\ pc = "idle"
  /\ call' = Build(request)
  /\ tx' = call'.frame
  /\ nic' = IF Polled THEN Sock!getindex(nic, double) ELSE Mux!getindex(nic, double)
  /\ pc' = "out"
  /\ UNCHANGED <<driver, double, request, cut, slaves, filing, wire, wkc, wkc2, attempts, history>>

\* ecx_outframe_red: the frame over the primary stack, ...
OutPrimary ==
  /\ pc = "out"
  /\ Transmit("primary", Packet("primary", tx),
       CASE driver = "linux" -> Sock!outframe(nic, "primary")
         [] driver = "intime" -> Sock!hpeOutframe(nic)
         [] driver = "vxworks" -> Mux!outframe(nic, "primary"),
       CASE driver = "linux" -> {Sock!SendFailed(nic, "primary")}
         [] driver = "intime" -> Sock!hpeRefused(nic)
         [] driver = "vxworks" -> {Mux!SendFailed(nic, "primary")},
       ~Polled /\ Mux!Abandons(nic))
  /\ wkc' = EC_NOFRAME
  /\ wkc2' = IF double THEN EC_NOFRAME ELSE 0
  /\ attempts' = attempts + 1
  /\ pc' = IF double THEN "dummy" ELSE "wait"
  /\ UNCHANGED <<master, tx>>

\* ... and a dummy over the secondary.
OutDummy ==
  /\ pc = "dummy"
  /\ Transmit("secondary", Packet("secondary", txbuf2),
       IF Polled THEN Sock!outframe(nic, "secondary") ELSE Mux!outframe_red(nic),
       {IF Polled THEN Sock!SendFailed(nic, "secondary") ELSE Mux!SendFailed(nic, "secondary")},
       ~Polled /\ Mux!Abandons(nic))
  /\ pc' = "wait"
  /\ UNCHANGED <<master, tx, wkc, wkc2, attempts>>

\* ecx_inframe of the thread that waits; a socket is read under the lock that the
\* thread that files a frame holds.
Got(stack) ==
  IF ~Polled THEN Mux!inframe(nic, stack)
  ELSE IF driver = "intime" THEN Sock!hpeInframe(nic)
  ELSE IF nic.rxbufstat[stack] = "RCVD" THEN Sock!inframeFiled(nic, stack)
       ELSE Sock!inframeRead(nic, stack)
Arrived(stack) ==
  \/ ~Polled /\ Mux!recvpkt(nic, stack)
  \/ Polled /\ nic.rxbufstat[stack] = "RCVD"
  \/ /\ Polled /\ nic.rxbufstat[stack] # "RCVD"
     /\ IF driver = "intime" THEN Sock!hpeRecvpkt(nic) ELSE Sock!recvpkt(nic, stack)
     /\ \A s \in Stacks : filing[s] = "none"

Missing ==
  IF driver = "intime" THEN Sock!hpeMissing(wkc)
  ELSE {stack \in Stacks : (IF stack = "primary" THEN wkc ELSE wkc2) <= EC_NOFRAME}

Receive(stack) ==
  /\ pc = "wait" /\ stack \in Missing
  /\ Arrived(stack)
  /\ nic' = Got(stack).nic
  /\ IF stack = "primary" THEN wkc' = Got(stack).wkc /\ UNCHANGED wkc2
                          ELSE wkc2' = Got(stack).wkc /\ UNCHANGED wkc
  /\ pc' = IF Missing = {stack} THEN "decide" ELSE pc
  /\ torn' = (torn \/ filing[stack] # "none")
  /\ UNCHANGED <<master, cut, slaves, tx, filing, wire, attempts, faults, lost, late>>

\* A timer expires, early when a frame it waits for is still on its way.
Coming(stack) == wire[stack] # <<>> \/ nic.queue[stack] # <<>> \/ nic.rxbufstat[stack] = "RCVD"
Expires(stacks) ==
  IF \E s \in stacks : Coming(s)
    THEN faults < MaxFaults /\ faults' = faults + 1 /\ late' = TRUE
    ELSE UNCHANGED <<faults, late>>

WaitExpires ==
  /\ pc = "wait"
  /\ Expires(Missing)
  /\ pc' = "decide"
  /\ UNCHANGED <<master, cut, slaves, tx, nic, filing, wire, wkc, wkc2, attempts, lost, torn>>

\* ecx_waitinframe_red: the ways of the frames decide.
Verdict ==
  LET primrx == Sock!Route(nic, "primary", wkc)
      secrx  == Sock!Route(nic, "secondary", wkc2)
  IN  CASE ~double -> "as_is"
        [] double /\ ~Polled -> Mux!waitinframe_red(primrx, secrx)
        [] double /\ Polled ->
             IF Sock!Crossed(primrx, secrx) THEN "crossed"
             ELSE IF Sock!Broken(primrx, secrx) THEN "broken" ELSE "as_is"

Decide ==
  /\ pc = "decide"
  /\ \/ /\ Verdict = "crossed"
        /\ nic' = Sock!CopySecondary(nic)
        /\ wkc' = wkc2
        /\ pc' = "confirm"
        /\ UNCHANGED tx
     \/ /\ Verdict = "broken"
        /\ tx' = Sock!Resent(Sock!Route(nic, "primary", wkc), Sock!Route(nic, "secondary", wkc2),
                             tx, nic.rxbuf["primary"])
        /\ pc' = "resend"
        /\ UNCHANGED <<nic, wkc>>
     \/ /\ Verdict = "as_is"
        /\ pc' = "confirm"
        /\ UNCHANGED <<tx, nic, wkc>>
  /\ UNCHANGED <<master, cut, slaves, filing, wire, wkc2, attempts, history>>

Resend ==
  /\ pc = "resend"
  /\ Transmit("secondary", Packet("primary", tx),
       IF Polled THEN Sock!outframe(nic, "secondary") ELSE Mux!outframe(nic, "secondary"),
       {IF Polled THEN Sock!SendFailed(nic, "secondary") ELSE Mux!SendFailed(nic, "secondary")},
       FALSE)
  /\ pc' = "wait2"
  /\ UNCHANGED <<master, tx, wkc, wkc2, attempts>>

ReceiveResent ==
  /\ pc = "wait2"
  /\ Arrived("secondary")
  /\ nic' = Sock!CopySecondary(Got("secondary").nic)
  /\ wkc2' = Got("secondary").wkc
  /\ wkc' = wkc2'
  /\ torn' = (torn \/ filing["secondary"] # "none")
  /\ pc' = "confirm"
  /\ UNCHANGED <<master, cut, slaves, tx, filing, wire, attempts, faults, lost, late>>

ResentExpires ==
  /\ pc = "wait2"
  /\ Expires({"secondary"})
  /\ pc' = "confirm"
  /\ UNCHANGED <<master, cut, slaves, tx, nic, filing, wire, wkc, wkc2, attempts, lost, torn>>

\* ecx_srconfirm: once more while time is left (InTime tries once), or the call ends.
Retry ==
  /\ pc = "confirm"
  /\ CASE driver = "linux" -> Sock!Again(wkc)
       [] driver = "intime" -> Sock!hpeAgain(wkc)
       [] driver = "vxworks" -> Mux!srconfirm(wkc)
  /\ attempts < MaxAttempts
  /\ pc' = "out"
  /\ UNCHANGED <<master, cut, slaves, tx, nic, filing, wire, wkc, wkc2, attempts, history>>

End ==
  /\ pc = "confirm"
  /\ pc' = "done"
  /\ nic' = CASE driver = "linux" -> Sock!setbufstat(nic, double, "EMPTY")
              [] driver = "intime" -> Sock!hpeSetbufstat(nic, "EMPTY")
              [] driver = "vxworks" -> Mux!setbufstat(nic, double, "EMPTY")
  /\ UNCHANGED <<master, cut, slaves, tx, filing, wire, wkc, wkc2, attempts, history>>

Close ==
  /\ pc = "done"
  /\ pc' = "closed"
  /\ nic' = CASE driver = "linux" -> Sock!closenic(nic)
              [] driver = "intime" -> Sock!hpeClosenic(nic)
              [] driver = "vxworks" -> Mux!closenic(nic)
  /\ UNCHANGED <<master, cut, slaves, tx, filing, wire, wkc, wkc2, attempts, history>>

Init ==
  /\ driver \in {"linux", "vxworks", "intime"}
  /\ double \in IF driver = "intime" THEN {FALSE} ELSE BOOLEAN
  /\ cut \in IF double THEN 0..(N + 1) ELSE 0..N
  /\ slaves = Line0
  /\ request \in Requests
  /\ call = [op |-> "none"]
  /\ tx = txbuf2
  \* What an earlier call left: where its frames came from.
  /\ \E crossed \in BOOLEAN :
       LET rxsa == [stack \in Stacks |-> IF crossed THEN Sock!RX[CHOOSE s \in Stacks : s # stack]
                                                    ELSE Sock!RX[stack]]
       IN  nic = CASE driver = "linux" -> Sock!setupnic(rxsa, txbuf2)
                   [] driver = "intime" -> Sock!hpeSetupnic(rxsa, txbuf2)
                   [] driver = "vxworks" -> Mux!setupnic(rxsa, txbuf2)
  /\ filing = [stack \in Stacks |-> "none"]
  /\ wire = [stack \in Stacks |-> <<>>]
  /\ wkc = EC_NOFRAME /\ wkc2 = EC_NOFRAME
  /\ pc = "idle" /\ attempts = 0
  /\ faults = 0 /\ lost = FALSE /\ late = FALSE /\ torn = FALSE

Next ==
  \/ Start \/ OutPrimary \/ OutDummy \/ Decide \/ Resend \/ ReceiveResent
  \/ WaitExpires \/ ResentExpires \/ Retry \/ End \/ Close
  \/ \E stack \in Stacks :
       Deliver(stack) \/ OtherFiles(stack) \/ OtherNotes(stack) \/ Receive(stack)

Spec == Init /\ [][Next]_vars

-----------------------------------------------------------------------------
(***************************************************************************)
(* What the primitives promise, from the slaves as they were before the    *)
(* call: each takes part once, in the order of the line.                   *)
(***************************************************************************)
Asked(r) ==
  {i \in 1..N : CASE r.op \in {"APRD", "APWR", "ARMW"} -> i = r.at
                  [] r.op \in {"FPRD", "FPWR", "FRMW", "LRWDC"} -> Line0[i].station = r.at
                  [] r.op = "FPRD_multi" -> Line0[i].station \in Range(r.at)
                  [] OTHER -> TRUE}
Of(i, ado) == Line0[i].memory[ado]
Union(r) == [c \in DOMAIN r.data |-> UNION {Of(i, r.ado)[c] : i \in 1..N}]

\* The time a slave is given: that of the reference clock, or, before the frame has
\* reached it, the master's.
Given(r, i, ado, masters) == IF \E c \in Asked(r) : c < i THEN Of(Max(Asked(r)), ado) ELSE masters
Spread(r, ado, masters) ==
  [i \in 1..N |-> IF i \in Asked(r) THEN Line0[i]
                  ELSE [Line0[i] EXCEPT !.memory[ado] = Given(r, i, ado, masters)]]
InPlace(r, what(_)) == [p \in DOMAIN r.data |-> what(CHOOSE i \in 1..N : Line0[i].pos = p)]

PromisedSlaves(r) ==
  CASE r.op \in {"APWR", "FPWR", "BWR"} ->
         [i \in 1..N |-> IF i \in Asked(r) THEN [Line0[i] EXCEPT !.memory[r.ado] = r.data]
                                           ELSE Line0[i]]
    [] r.op \in {"ARMW", "FRMW"} -> Spread(r, r.ado, r.data)
    [] r.op \in {"LWR", "LRW"} -> [i \in 1..N |-> [Line0[i] EXCEPT !.out = r.data[Line0[i].pos]]]
    [] r.op = "LRWDC" ->
         [i \in 1..N |-> [Spread(r, "DCSYSTIME", r.time)[i] EXCEPT !.out = r.data[Line0[i].pos]]]
    [] OTHER -> Line0

PromisedCount(r) ==
  CASE r.op \in {"APRD", "APWR", "FPRD", "FPWR"} -> Cardinality(Asked(r))
    [] r.op = "FPRD_multi" -> 1
    [] r.op \in {"LRW", "LRWDC"} -> 3 * N
    [] OTHER -> N

PromisedData(r) ==
  LET the == CHOOSE i \in Asked(r) : TRUE
      ins == InPlace(r, LAMBDA i : Line0[i].in)
  IN  CASE r.op \in {"APRD", "FPRD", "ARMW", "FRMW"} -> <<Of(the, r.ado)>>
        [] r.op = "BRD" -> <<Union(r)>>
        [] r.op \in {"LRD", "LRW"} -> <<ins>>
        [] r.op = "LRWDC" -> <<ins, Of(the, "DCSYSTIME")>>
        [] r.op = "FPRD_multi" ->
             [k \in DOMAIN r.at |-> Of(CHOOSE i \in 1..N : Line0[i].station = r.at[k], "ALSTAT")]
        [] OTHER -> <<>>

Promised(r) == [wkc |-> PromisedCount(r), data |-> PromisedData(r)]
Result == Taken(call, nic.rxbuf["primary"], wkc)
Calm == ~lost /\ ~late /\ ~torn

\* A broken cable does not show: as long as no frame is lost and no timer expires too
\* early, a call that can reach the whole line, by one stack or by two and wherever
\* the line is broken, reaches every slave exactly once and in the order of the line,
\* and returns what the slaves held, with the counter of all of them.
LineLooksWhole ==
  pc = "done" /\ Calm /\ (double \/ cut = N) =>
    Result = Promised(request) /\ slaves = PromisedSlaves(request)

\* An answer is never the dummy's, and a full counter never a lie: whatever frames are
\* lost, a call that returns the counter of all its slaves returns what they held.
\* Left out are the calls whose counter says less: FPRD_multi counts its last slave
\* only, and a position is counted from the break when a frame is lost on a broken line
\* and the whole of it sent again over the secondary stack.
Counted(r) == r.op # "FPRD_multi" /\ (double /\ lost => r.op \notin {"APRD", "ARMW"})
FullCountIsTrue ==
  pc = "done" /\ ~late /\ ~torn /\ Counted(request) =>
    /\ Result.wkc <= PromisedCount(request)
    /\ Result.wkc = PromisedCount(request) => Result.data = PromisedData(request)
================================================================================
