-------------------------------- MODULE NicDrv --------------------------------
(***************************************************************************)
(* The frame driver of SOEM (oshw/<os>/nicdrv.c): every datagram the       *)
(* master sends gets an index into EC_MAXBUF receive buffers, and whichever *)
(* thread reads a frame off the port files it under that index.  A thread  *)
(* either confirms one frame at a time, repeating it until its time is up  *)
(* (ecx_srconfirm, all of ethercatbase.c), or sends a batch and then waits *)
(* for its answers in turn (the process data of ethercatmain.c).           *)
(*                                                                         *)
(* The ports differ in their locks: most hold getindex_mutex around the    *)
(* search for an index and rx_mutex around a read; the RT-Thread port      *)
(* takes rx_mutex for 10 ticks in ecx_getindex, ignores whether it got it, *)
(* and releases getindex_mutex.  They differ too in what they do when      *)
(* net_send refuses a frame.  The owner of an index changes its state      *)
(* without any mutex, so that it may give the index back while another     *)
(* thread that holds rx_mutex is about to mark it RCVD.                    *)
(*                                                                         *)
(* What lies behind net_send and net_recv (the wire, the device and the    *)
(* ring of NetHook) is the set transit of frames under way: any of them    *)
(* may come back, at any time, in any order, or never.  What nothing reads *)
(* any more (tempinbuf after a read, a receive buffer after                *)
(* ecx_setbufstat, a local at its function's end) the model forgets.       *)
(***************************************************************************)
EXTENDS Integers, Sequences, FiniteSets

CONSTANTS
  EC_MAXBUF,   \* receive buffers
  Threads,     \* the threads that may use the port
  NoThread,    \* the owner of a free mutex
  Setups,      \* the choices of a port, of the threads that use it, of those
               \* among them that exchange process data, and, bounds, of the
               \* transactions begun in one behaviour and of the times
               \* ecx_srconfirm sends a frame
  Wkcs,        \* working counters the answers may carry
  BatchSize,   \* frames of one process data exchange
  Lag,         \* a frame is gone once Lag newer transactions have begun
  MaxTries     \* bound: the most times of any setup

ASSUME BufAssumption == EC_MAXBUF \in Nat \ {0}
ASSUME BatchAssumption == BatchSize \in Nat \ {0}
ASSUME BoundsAssumption == MaxTries \in Nat \ {0} /\ Lag \in Nat \ {0}
ASSUME ThreadAssumption == NoThread \notin Threads /\ IsFiniteSet(Threads)
ASSUME WkcAssumption == Wkcs \subseteq Nat

Bufs == 0 .. EC_MAXBUF - 1
Txns == Nat \ {0}
NoTxn == 0
EC_NOFRAME == -1
EC_OTHERFRAME == -2

Mutexes == {"getindex_mutex", "rx_mutex"}

\* A port: the mutex ecx_getindex takes, whether it waits until it has it, and
\* the state it leaves a buffer in whose frame net_send refuses.  Every port
\* releases getindex_mutex after a search, and rx_mutex after a read.
rt_thread == [taken |-> "rx_mutex", patience |-> "10 ticks", refused |-> "TX"]
rtk       == [taken |-> "getindex_mutex", patience |-> "forever", refused |-> "TX"]
linux     == [taken |-> "getindex_mutex", patience |-> "forever", refused |-> "EMPTY"]

\* The other ports with such mutexes are in this like the Linux port (but for InTime's,
\* which does not mark a buffer at all when its transmitter stays busy).
macosx == linux
win32  == linux
rtems  == linux
intime == linux

Ports == {rt_thread, rtk, linux, macosx, win32, rtems, intime}

ASSUME SetupAssumption ==
  Setups \subseteq
    [port : Ports, users : SUBSET Threads, cyclic : SUBSET Threads,
     txns : Nat, tries : 1 .. MaxTries]

BufStates == {"EMPTY", "ALLOC", "TX", "RCVD", "COMPLETE"}
Ops == {"srconfirm", "processdata"}
Batch(o) == IF o = "srconfirm" THEN 1 ELSE BatchSize

Answers == [txn : Txns \cup {NoTxn}, wkc : Wkcs \cup {EC_NOFRAME}]
NoAnswer == [txn |-> NoTxn, wkc |-> EC_NOFRAME]
Frames == [idx : Bufs, txn : Txns, try : 1 .. MaxTries]
Received == [idx : Bufs, answer : Answers]
NothingReceived == [idx |-> 0, answer |-> NoAnswer]

VARIABLES
  setup,      \* the port and its users in this behaviour
  lastidx,    \* index found last
  rxbufstat,  \* state of each receive buffer
  rxbuf,      \* answer in each receive buffer
  tempinbuf,  \* the frame just read off the port
  mutex,      \* owner of each mutex and how often it holds it
  transit,    \* frames under way that may still arrive
  begun,      \* transactions begun so far (each with a claim of an index)
  planned,    \* transactions of the exchanges started so far (bounds the model)
  starved,    \* history: some index was taken that was in use
  lost,       \* history: indices marked RCVD that nobody held any more
  pc, op,     \* per thread: where it is, what it is doing
  idx, cnt,   \* per thread: ecx_getindex's search; ecx_inframe's idxf
  mine,       \* per thread: indices held, with the transaction each is for
  try,        \* per thread: how often the frame has been sent
  timer,      \* per thread: what has expired of the read and the outer timer
  wkc         \* per thread: result of the last read

bufs == <<rxbufstat, rxbuf>>
port == <<lastidx, bufs, tempinbuf, mutex>>
count == <<begun, planned, starved, lost>>
search == <<idx, cnt>>
work == <<op, mine, try>>
wait == <<timer, wkc>>
vars == <<setup, port, transit, count, pc, search, work, wait>>

Steps == {"idle", "take", "scan", "claim", "send", "refused", "check", "found",
          "lock", "recv", "match", "copy", "mark", "test", "use"}
Timers == {"running", "read", "all"}
Holding == [idx : Bufs, txn : Txns]

TypeOK ==
  /\ setup \in Setups
  /\ lastidx \in Bufs
  /\ rxbufstat \in [Bufs -> BufStates]
  /\ rxbuf \in [Bufs -> Answers]
  /\ tempinbuf \in Received
  /\ mutex \in [Mutexes -> [owner : Threads \cup {NoThread}, hold : Nat]]
  /\ transit \subseteq Frames
  /\ begun \in Nat /\ planned \in 0 .. setup.txns
  /\ starved \in BOOLEAN /\ lost \subseteq Bufs
  /\ pc \in [Threads -> Steps]
  /\ op \in [Threads -> Ops]
  /\ idx \in [Threads -> Bufs] /\ cnt \in [Threads -> 0 .. EC_MAXBUF]
  /\ mine \in [Threads -> Seq(Holding)]
  /\ try \in [Threads -> 1 .. MaxTries]
  /\ timer \in [Threads -> Timers]
  /\ wkc \in [Threads -> Wkcs \cup {EC_NOFRAME, EC_OTHERFRAME}]

\* ecx_setupnic
Init ==
  /\ setup \in Setups
  /\ lastidx = 0
  /\ rxbufstat = [i \in Bufs |-> "EMPTY"]
  /\ rxbuf = [i \in Bufs |-> NoAnswer]
  /\ tempinbuf = NothingReceived
  /\ mutex = [m \in Mutexes |-> [owner |-> NoThread, hold |-> 0]]
  /\ transit = {} /\ begun = 0 /\ planned = 0 /\ starved = FALSE /\ lost = {}
  /\ pc = [t \in Threads |-> "idle"] /\ op = [t \in Threads |-> "srconfirm"]
  /\ idx = [t \in Threads |-> 0] /\ cnt = [t \in Threads |-> 0]
  /\ mine = [t \in Threads |-> <<>>]
  /\ try = [t \in Threads |-> 1]
  /\ timer = [t \in Threads |-> "running"]
  /\ wkc = [t \in Threads |-> EC_NOFRAME]

Goto(t, from, to) == pc[t] = from /\ pc' = [pc EXCEPT ![t] = to]

-----------------------------------------------------------------------------
(***************************************************************************)
(* The mutexes: recursive, and released by their owner only (RT-Thread     *)
(* refuses anybody else's release).                                        *)
(***************************************************************************)
Free(t, m) == mutex[m].owner \in {NoThread, t}

Taken(t, m) == [mutex EXCEPT ![m] = [owner |-> t, hold |-> @.hold + 1]]

Released(t, m) ==
  IF mutex[m].owner # t THEN mutex
  ELSE IF mutex[m].hold = 1 THEN [mutex EXCEPT ![m] = [owner |-> NoThread, hold |-> 0]]
  ELSE [mutex EXCEPT ![m].hold = @ - 1]

\* Take m for good, or give up after 10 ticks and go on without it.
Lock(t, m) ==
  \/ Free(t, m) /\ mutex' = Taken(t, m)
  \/ setup.port.patience = "10 ticks" /\ ~Free(t, m) /\ UNCHANGED mutex

-----------------------------------------------------------------------------
(***************************************************************************)
(* ecx_getindex, a read or a write of rxbufstat at a time.                 *)
(***************************************************************************)
Begin(t) ==
  /\ t \in setup.users
  /\ Goto(t, "idle", "take")
  /\ \E o \in Ops : /\ o = "processdata" => t \in setup.cyclic
                    /\ planned + Batch(o) <= setup.txns
                    /\ planned' = planned + Batch(o)
                    /\ op' = [op EXCEPT ![t] = o]
  /\ mine' = [mine EXCEPT ![t] = <<>>]
  /\ try' = [try EXCEPT ![t] = 1]
  /\ UNCHANGED <<setup, port, transit, begun, starved, lost, search, wait>>

NextIdx(i) == IF i + 1 >= EC_MAXBUF THEN 0 ELSE i + 1

GetindexTake(t) ==
  /\ Goto(t, "take", "scan")
  /\ Lock(t, setup.port.taken)
  /\ idx' = [idx EXCEPT ![t] = NextIdx(lastidx)]
  /\ cnt' = [cnt EXCEPT ![t] = 0]
  /\ UNCHANGED <<setup, lastidx, bufs, tempinbuf, transit, count, work, wait>>

GetindexScan(t) ==
  /\ pc[t] = "scan"
  /\ IF rxbufstat[idx[t]] # "EMPTY" /\ cnt[t] < EC_MAXBUF
       THEN /\ idx' = [idx EXCEPT ![t] = NextIdx(@)]
            /\ cnt' = [cnt EXCEPT ![t] = @ + 1]
            /\ UNCHANGED pc
       ELSE pc' = [pc EXCEPT ![t] = "claim"] /\ UNCHANGED <<idx, cnt>>
  /\ UNCHANGED <<setup, port, transit, count, work, wait>>

\* The environment: a frame comes back until Lag newer transactions have begun
\* (n transactions have).
Timely(txn, n) == txn + Lag > n

\* A new transaction begins with an index for it; getindex_mutex is released.
BeginTxn(t) ==
  /\ Goto(t, "claim", "send")
  /\ begun' = begun + 1
  /\ mine' = [mine EXCEPT ![t] = Append(@, [idx |-> idx[t], txn |-> begun + 1])]
  /\ transit' = {f \in transit : Timely(f.txn, begun + 1)}
  /\ mutex' = Released(t, "getindex_mutex")
  /\ idx' = [idx EXCEPT ![t] = 0] /\ cnt' = [cnt EXCEPT ![t] = 0]
  /\ UNCHANGED <<setup, rxbuf, tempinbuf, planned, lost, op, try, wait>>

ClaimUnmarked(t) ==
  /\ BeginTxn(t)
  /\ lastidx' = idx[t]
  /\ UNCHANGED <<rxbufstat, starved>>

ClaimForgetsLast(t) ==
  /\ BeginTxn(t)
  /\ rxbufstat' = [rxbufstat EXCEPT ![idx[t]] = "ALLOC"]
  /\ UNCHANGED <<lastidx, starved>>

GetindexClaim(t) ==
  /\ BeginTxn(t)
  /\ rxbufstat' = [rxbufstat EXCEPT ![idx[t]] = "ALLOC"]
  /\ lastidx' = idx[t]
  /\ starved' = (starved \/ (cnt[t] = EC_MAXBUF /\ rxbufstat[idx[t]] # "EMPTY"))

-----------------------------------------------------------------------------
(***************************************************************************)
(* ecx_outframe.                                                           *)
(***************************************************************************)
\* A batch goes on with its next index, otherwise the waiting begins.
AfterSend(t) == IF Len(mine[t]) < Batch(op[t]) THEN "take" ELSE "check"

\* The buffer is marked TX, and the frame handed to net_send.  When arrives is
\* FALSE it never comes back: net_send failed, or the frame or its answer is lost
\* on the wire, in the device or in the ring.
Outframe(t, arrives) ==
  LET h == mine[t][Len(mine[t])] IN
  /\ Goto(t, "send", AfterSend(t))
  /\ arrives => Timely(h.txn, begun)
  /\ rxbufstat' = [rxbufstat EXCEPT ![h.idx] = "TX"]
  /\ transit' = IF arrives THEN transit \cup {[idx |-> h.idx, txn |-> h.txn, try |-> try[t]]}
                ELSE transit
  /\ timer' = [timer EXCEPT ![t] = "running"]
  /\ UNCHANGED <<setup, lastidx, rxbuf, tempinbuf, mutex, count, search, work, wkc>>

\* Where a refused frame has its index put back although it is still held.
OutframeRefused(t) ==
  /\ setup.port.refused = "EMPTY"
  /\ Goto(t, "send", "refused")
  /\ rxbufstat' = [rxbufstat EXCEPT ![mine[t][Len(mine[t])].idx] = "TX"]
  /\ timer' = [timer EXCEPT ![t] = "running"]
  /\ UNCHANGED <<setup, lastidx, rxbuf, tempinbuf, mutex, transit, count, search, work, wkc>>

OutframePutBack(t) ==
  /\ Goto(t, "refused", AfterSend(t))
  /\ rxbufstat' = [rxbufstat EXCEPT ![mine[t][Len(mine[t])].idx] = setup.port.refused]
  /\ UNCHANGED <<setup, lastidx, rxbuf, tempinbuf, mutex, transit, count, search, work, wait>>

-----------------------------------------------------------------------------
(***************************************************************************)
(* ecx_inframe for the index the thread waits for.                         *)
(***************************************************************************)
Mine(t) == Head(mine[t]).idx

\* The threads that hold index i: from the claim until ecx_setbufstat.
Holders(i) == {t \in Threads : \E k \in 1 .. Len(mine[t]) : mine[t][k].idx = i}

\* Somebody else may have filed the answer; this look takes no mutex, ...
InframeCheck(t) ==
  /\ Goto(t, "check", IF rxbufstat[Mine(t)] = "RCVD" THEN "found" ELSE "lock")
  /\ UNCHANGED <<setup, port, transit, count, search, work, wait>>

\* ... nor does taking what it found.
InframeTake(t) ==
  /\ Goto(t, "found", "use")
  /\ wkc' = [wkc EXCEPT ![t] = rxbuf[Mine(t)].wkc]
  /\ rxbufstat' = [rxbufstat EXCEPT ![Mine(t)] = "COMPLETE"]
  /\ UNCHANGED <<setup, lastidx, rxbuf, tempinbuf, mutex, transit, count, search, work, timer>>

InframeLock(t) ==
  /\ Goto(t, "lock", "recv")
  /\ Lock(t, "rx_mutex")
  /\ UNCHANGED <<setup, lastidx, bufs, tempinbuf, transit, count, search, work, wait>>

\* net_recv has nothing to give (yet).
InframeNothing(t) ==
  /\ Goto(t, "recv", "test")
  /\ wkc' = [wkc EXCEPT ![t] = EC_NOFRAME]
  /\ mutex' = Released(t, "rx_mutex")
  /\ UNCHANGED <<setup, lastidx, bufs, tempinbuf, transit, count, search, work, timer>>

InframeRecv(t) ==
  /\ Goto(t, "recv", "match")
  /\ \E f \in transit, w \in Wkcs :
       /\ tempinbuf' = [idx |-> f.idx, answer |-> [txn |-> f.txn, wkc |-> w]]
       /\ transit' = transit \ {f}
  /\ UNCHANGED <<setup, lastidx, bufs, mutex, count, search, work, wait>>

\* The frame read is wanted: it is the thread's own, or somebody waits for it.
WantedInUse(t, i) == i = Mine(t) \/ rxbufstat[i] # "EMPTY"

Wanted(t, i) == i = Mine(t) \/ rxbufstat[i] = "TX"

InframeMatch(t) ==
  /\ Goto(t, "match", "copy")
  /\ Wanted(t, tempinbuf.idx)
  /\ idx' = [idx EXCEPT ![t] = tempinbuf.idx]
  /\ UNCHANGED <<setup, port, transit, count, cnt, work, wait>>

InframeStore(t) ==
  /\ Goto(t, "copy", "mark")
  /\ rxbuf' = [rxbuf EXCEPT ![idx[t]] = tempinbuf.answer]
  /\ UNCHANGED <<setup, lastidx, rxbufstat, tempinbuf, mutex, transit, count, search, work,
                 wait>>

EndKeepsMutex(t, v) ==
  /\ wkc' = [wkc EXCEPT ![t] = v]
  /\ tempinbuf' = NothingReceived
  /\ idx' = [idx EXCEPT ![t] = 0]
  /\ UNCHANGED <<setup, lastidx, mutex, transit, begun, planned, starved, cnt, work, timer>>

\* The end of a read, with the result v.
EndRead(t, v) ==
  /\ wkc' = [wkc EXCEPT ![t] = v]
  /\ tempinbuf' = NothingReceived
  /\ mutex' = Released(t, "rx_mutex")
  /\ idx' = [idx EXCEPT ![t] = 0]
  /\ UNCHANGED <<setup, lastidx, transit, begun, planned, starved, cnt, work, timer>>

InframeStrange(t) ==
  /\ Goto(t, "match", "test")
  /\ ~Wanted(t, tempinbuf.idx)
  /\ EndRead(t, EC_OTHERFRAME)
  /\ UNCHANGED <<bufs, lost>>

InframeComplete(t) ==
  /\ Goto(t, "mark", "use")
  /\ idx[t] = Mine(t)
  /\ rxbufstat' = [rxbufstat EXCEPT ![Mine(t)] = "COMPLETE"]
  /\ EndRead(t, rxbuf[Mine(t)].wkc)
  /\ UNCHANGED <<rxbuf, lost>>

\* Somebody else's frame, whoever has the index now.
InframeFile(t) ==
  /\ Goto(t, "mark", "test")
  /\ idx[t] # Mine(t)
  /\ rxbufstat' = [rxbufstat EXCEPT ![idx[t]] = "RCVD"]
  /\ lost' = IF Holders(idx[t]) = {} THEN lost \cup {idx[t]} ELSE lost
  /\ EndRead(t, EC_OTHERFRAME)
  /\ UNCHANGED rxbuf

-----------------------------------------------------------------------------
(***************************************************************************)
(* ecx_waitinframe_red without a second port, ecx_srconfirm.               *)
(***************************************************************************)
\* The clock, as the loops see it when they look: the read timer has run out,
\* or (ecx_srconfirm) the outer one as well.
Expire(t) ==
  /\ pc[t] = "test"
  /\ \/ timer[t] = "running" /\ timer' = [timer EXCEPT ![t] = "read"]
     \/ timer[t] # "all" /\ op[t] = "srconfirm" /\ timer' = [timer EXCEPT ![t] = "all"]
  /\ UNCHANGED <<setup, port, transit, count, pc, search, work, wkc>>

PollAgain(t) ==
  /\ timer[t] = "running"
  /\ Goto(t, "test", "check")
  /\ UNCHANGED <<setup, port, transit, count, search, work, wait>>

Resend(t) ==
  /\ op[t] = "srconfirm" /\ timer[t] = "read"
  /\ try[t] < setup.tries
  /\ Goto(t, "test", "send")
  /\ try' = [try EXCEPT ![t] = @ + 1]
  /\ UNCHANGED <<setup, port, transit, count, search, op, mine, wait>>

\* No answer: the result is EC_NOFRAME, or EC_OTHERFRAME after somebody else's.
GiveUp(t) ==
  /\ timer[t] = IF op[t] = "srconfirm" THEN "all" ELSE "read"
  /\ Goto(t, "test", "use")
  /\ UNCHANGED <<setup, port, transit, count, search, work, wait>>

\* The caller copies the answer out of rxbuf and gives the index back.
Finish(t) ==
  /\ Goto(t, "use", IF Len(mine[t]) > 1 THEN "check" ELSE "idle")
  /\ rxbuf' = [rxbuf EXCEPT ![Mine(t)] = NoAnswer]
  /\ mine' = [mine EXCEPT ![t] = Tail(@)]
  /\ timer' = [timer EXCEPT ![t] = "running"]
  /\ wkc' = [wkc EXCEPT ![t] = EC_NOFRAME]
  /\ UNCHANGED <<setup, lastidx, tempinbuf, mutex, transit, count, search, op, try>>

Setbufstat(t) == Finish(t) /\ rxbufstat' = [rxbufstat EXCEPT ![Mine(t)] = "EMPTY"]

-----------------------------------------------------------------------------
Unblocked(t) ==
  \/ GetindexScan(t) \/ GetindexClaim(t)
  \/ \E arrives \in BOOLEAN : Outframe(t, arrives)
  \/ OutframeRefused(t) \/ OutframePutBack(t)
  \/ InframeCheck(t) \/ InframeTake(t) \/ InframeNothing(t) \/ InframeRecv(t)
  \/ InframeMatch(t) \/ InframeStrange(t)
  \/ InframeStore(t) \/ InframeComplete(t) \/ InframeFile(t)
  \/ PollAgain(t) \/ Resend(t) \/ GiveUp(t)
  \/ Setbufstat(t)

Next ==
  \E t \in Threads :
    Begin(t) \/ GetindexTake(t) \/ InframeLock(t) \/ Unblocked(t) \/ Expire(t)

Spec == Init /\ [][Next]_vars

\* Every thread is scheduled, a loop that looks at its timer again and again
\* finds it expired, and a mutex that keeps coming free is handed to whoever
\* waits for it.
FairSpec ==
  /\ Spec
  /\ \A t \in Threads : /\ WF_vars(Unblocked(t)) /\ SF_vars(Expire(t))
                        /\ SF_vars(GetindexTake(t)) /\ SF_vars(InframeLock(t))

-----------------------------------------------------------------------------
\* The frames the users of the port can have under way at a time: one for each
\* thread, or a batch for one that exchanges process data.
Slots == {p \in setup.users \X (1 .. BatchSize) : p[2] = 1 \/ p[1] \in setup.cyclic}

\* The buffers are enough: one for each slot, one for each transaction that may
\* begin before a frame is gone (Lag, and while one thread reads it those of the
\* other slots), and those that are lost for good.
Enough == 2 * Cardinality(Slots) + Lag + Cardinality(lost) <= EC_MAXBUF + 2

\* As long as an index is free for every call of ecx_getindex no two threads ever
\* hold the same one, and one is free as long as the buffers are enough.
IndexExclusive ==
  /\ ~starved => \A i \in Bufs : \A t, u \in Holders(i) : t = u
  /\ Enough => ~starved

\* As long as the buffers are enough the answer a thread gets to use answers the
\* frame it sent, however many frames were lost, late, repeated or read by another
\* thread, and although that thread may test, copy and mark (ecx_inframe) while the
\* index is given back and others are taken.
AnswerIsMine ==
  Enough =>
    \A t \in Threads : pc[t] = "use" /\ wkc[t] > EC_NOFRAME
                         => rxbuf[Mine(t)].txn = Head(mine[t]).txn
                            /\ rxbuf[Mine(t)].wkc = wkc[t]

\* An answer that was read for a thread that still waits is not dropped or
\* overwritten, unless its index was taken by force: only what its owner does next
\* ends RCVD.
ReceivedStays ==
  [][\A i \in Bufs :
         /\ Holders(i) # {} /\ ~starved' /\ rxbufstat[i] = "RCVD"
         /\ rxbufstat'[i] # "RCVD" \/ rxbuf'[i] # rxbuf[i]
       => \E t \in Holders(i) : /\ pc[t] \in {"found", "copy", "mark", "send", "use"}
                                /\ pc'[t] # pc[t]]_vars

\* Every exchange ends, whatever is lost.
ExchangesEnd == \A t \in Threads : pc[t] = "take" ~> pc[t] = "idle"
=============================================================================
