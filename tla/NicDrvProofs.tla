---------------------------- MODULE NicDrvProofs ----------------------------
(***************************************************************************)
(* Proofs about NicDrv for any number of buffers, threads, transactions    *)
(* and tries, on a port whose locks work, one that waits for               *)
(* getindex_mutex or one with a single user, and which leaves a frame's    *)
(* index alone when net_send refuses the frame.                            *)
(***************************************************************************)
EXTENDS NicDrv, FiniteSetTheorems, TLAPS

Disciplined ==
  \A s \in Setups : s.port.refused = "TX" /\ (s.port = rtk \/ \A t, u \in s.users : t = u)

Busy(t) ==
  pc[t] \in {"send", "check", "found", "lock", "recv", "match", "copy", "mark", "test", "use"}

Searching(t) == pc[t] \in {"scan", "claim"}

\* The thread has a frame in tempinbuf.
Reading(t) == pc[t] \in {"match", "copy", "mark"}

\* A thread with something to send or to wait for holds an index; only users run;
\* no frame is refused in a way that puts its index back.
StepInv ==
  /\ \A t \in Threads : Busy(t) => Len(mine[t]) > 0
  /\ \A t \in Threads : pc[t] # "idle" => t \in setup.users
  /\ \A t \in Threads : pc[t] # "refused"

\* Who looks for an index owns getindex_mutex, and who reads rx_mutex, if the port
\* waits for its mutexes.
MutexInv ==
  /\ \A m \in Mutexes : mutex[m].owner # NoThread => mutex[m].hold > 0
  /\ setup.port = rtk =>
       \A t \in Threads : /\ Searching(t) => mutex["getindex_mutex"].owner = t
                          /\ pc[t] = "recv" \/ Reading(t) => mutex["rx_mutex"].owner = t

\* A thread that reads has a frame, and files it under the index the frame carries.
ReadInv ==
  /\ \A t \in Threads : Reading(t) => tempinbuf.answer.txn \in Txns
  /\ \A t \in Threads : pc[t] \in {"copy", "mark"} => idx[t] = tempinbuf.idx

Held(t, k) == mine[t][k].idx

IsHeld(i) == \E t \in Threads : \E k \in 1 .. Len(mine[t]) : Held(t, k) = i

\* Indices held are marked in rxbufstat, ...
Marked == \A t \in Threads : \A k \in 1 .. Len(mine[t]) : rxbufstat[Held(t, k)] # "EMPTY"

\* ... held once, ...
Once ==
  \A t, u \in Threads : \A k \in 1 .. Len(mine[t]), l \in 1 .. Len(mine[u]) :
    Held(t, k) = Held(u, l) => t = u /\ k = l

\* ... an index about to be taken is held by nobody, if the search found a free one
\* (it need not be EMPTY still: somebody may file a late answer under it), ...
Found == \A t \in Threads : pc[t] = "claim" /\ cnt[t] # EC_MAXBUF => ~IsHeld(idx[t])

\* ... what ecx_inframe found RCVD stays so, and what it found TX is not answered by
\* anybody else while it files its frame.
Filing ==
  /\ \A t \in Threads : pc[t] = "found" => rxbufstat[Mine(t)] = "RCVD"
  /\ \A t \in Threads : pc[t] \in {"copy", "mark"} /\ idx[t] # Mine(t) =>
       rxbufstat[idx[t]] \notin {"RCVD", "COMPLETE"}

IndexInv == ~starved => Marked /\ Once /\ Found /\ Filing

Inv == TypeOK /\ StepInv /\ MutexInv /\ ReadInv /\ IndexInv

\* What every behaviour's setup is: a port with a mutex it takes, and users among the threads.
LEMMA SetupTypes ==
  ASSUME setup \in Setups
  PROVE  /\ setup.port \in {rt_thread, rtk, linux} /\ setup.users \subseteq Threads
         /\ setup.port.taken \in Mutexes /\ setup.txns \in Nat /\ setup.tries \in 1 .. MaxTries
         /\ setup.port = rtk => /\ setup.port.patience # "10 ticks"
                                /\ setup.port.taken = "getindex_mutex"
<1>1. /\ setup.port \in {rt_thread, rtk, linux} /\ setup.users \subseteq Threads
      /\ setup.txns \in Nat /\ setup.tries \in 1 .. MaxTries
  BY SetupAssumption DEF Ports, macosx, win32, rtems, intime
<1>2. rt_thread.taken = "rx_mutex"
  BY DEF rt_thread
<1>3. rtk.taken = "getindex_mutex" /\ rtk.patience = "forever"
  BY DEF rtk
<1>4. linux.taken = "getindex_mutex"
  BY DEF linux
<1>5. setup.port.taken \in Mutexes
  BY <1>1, <1>2, <1>3, <1>4 DEF Mutexes
<1>6. QED BY <1>1, <1>3, <1>5

\* The search of ecx_getindex stays among the buffers.
LEMMA NextIdxInBufs == ASSUME NEW i \in Bufs PROVE NextIdx(i) \in Bufs
BY BufAssumption DEF NextIdx, Bufs

\* What taking and releasing a mutex does to the other threads' mutexes.
LEMMA TakenKeeps ==
  ASSUME TypeOK, NEW t \in Threads, NEW m \in Mutexes, Free(t, m), mutex' = Taken(t, m)
  PROVE  /\ mutex' \in [Mutexes -> [owner : Threads \cup {NoThread}, hold : Nat]]
         /\ mutex'[m].owner = t /\ mutex'[m].hold > 0
         /\ \A n \in Mutexes \ {m} : mutex'[n] = mutex[n]
         /\ \A n \in Mutexes, u \in Threads : mutex[n].owner = u => mutex'[n].owner = u
<1>1. mutex[m].hold \in Nat /\ mutex[m].owner \in {NoThread, t}
  BY DEF TypeOK, Free
<1>2. mutex' = [mutex EXCEPT ![m] = [owner |-> t, hold |-> mutex[m].hold + 1]]
  BY DEF Taken
<1>3. QED BY <1>1, <1>2, ThreadAssumption DEF TypeOK

\* Releasing a mutex leaves it to nobody else.
LEMMA ReleasedKeeps ==
  ASSUME TypeOK, MutexInv, NEW t \in Threads, NEW m \in Mutexes, mutex' = Released(t, m)
  PROVE  /\ mutex' \in [Mutexes -> [owner : Threads \cup {NoThread}, hold : Nat]]
         /\ \A n \in Mutexes : mutex'[n].owner # NoThread => mutex'[n].hold > 0
         /\ \A n \in Mutexes \ {m} : mutex'[n] = mutex[n]
         /\ \A n \in Mutexes, u \in Threads \ {t} : mutex[n].owner = u => mutex'[n].owner = u
<1>1. mutex[m] \in [owner : Threads \cup {NoThread}, hold : Nat]
  BY DEF TypeOK
<1>2. CASE mutex[m].owner # t
  BY <1>2 DEF Released, TypeOK, MutexInv
<1>3. CASE mutex[m].owner = t
  <2>1. mutex[m].hold > 0
    BY <1>3, ThreadAssumption DEF MutexInv
  <2>2. CASE mutex[m].hold = 1
    <3>1. mutex' = [mutex EXCEPT ![m] = [owner |-> NoThread, hold |-> 0]]
      BY <1>3, <2>2 DEF Released
    <3>2. mutex'[m] = [owner |-> NoThread, hold |-> 0]
      BY <3>1 DEF TypeOK
    <3>3. \A n \in Mutexes \ {m} : mutex'[n] = mutex[n]
      BY <3>1 DEF TypeOK
    <3>4. mutex' \in [Mutexes -> [owner : Threads \cup {NoThread}, hold : Nat]]
      BY <3>1 DEF TypeOK
    <3>5. QED BY <1>3, <3>2, <3>3, <3>4 DEF MutexInv
  <2>3. CASE mutex[m].hold # 1
    <3>1. mutex' = [mutex EXCEPT ![m] = [mutex[m] EXCEPT !.hold = mutex[m].hold - 1]]
      BY <1>3, <2>3 DEF Released
    <3>2. mutex[m].hold - 1 \in Nat /\ mutex[m].hold - 1 > 0
      BY <1>1, <2>1, <2>3
    <3>3. /\ mutex'[m] \in [owner : Threads \cup {NoThread}, hold : Nat]
          /\ mutex'[m].owner = t /\ mutex'[m].hold > 0
      <4>1. mutex'[m] = [mutex[m] EXCEPT !.hold = mutex[m].hold - 1]
        BY <3>1 DEF TypeOK
      <4>2. QED BY <1>1, <1>3, <3>2, <4>1
    <3>4. \A n \in Mutexes \ {m} : mutex'[n] = mutex[n]
      BY <3>1 DEF TypeOK
    <3>5. mutex' \in [Mutexes -> [owner : Threads \cup {NoThread}, hold : Nat]]
      BY <3>1, <3>3 DEF TypeOK
    <3>6. QED BY <1>3, <3>3, <3>4, <3>5 DEF MutexInv
  <2>4. QED BY <2>2, <2>3
<1>4. QED BY <1>2, <1>3

\* What a thread holds is the index of a buffer.
LEMMA HeldInBufs ==
  ASSUME mine \in [Threads -> Seq(Holding)],
         NEW t \in Threads, NEW k \in 1 .. Len(mine[t])
  PROVE  Held(t, k) \in Bufs
<1>1. mine[t] \in Seq(Holding)
  OBVIOUS
<1>2. mine[t][k] \in Holding
  BY <1>1
<1>3. QED BY <1>2 DEF Held, Holding

\* After ecx_setupnic the invariant holds.
LEMMA InitInv == Init => Inv
<1>. SUFFICES ASSUME Init PROVE Inv
  OBVIOUS
<1>0. 0 \in Bufs /\ NoAnswer \in Answers
  BY BufAssumption DEF Bufs, NoAnswer, Answers
<1>1. /\ setup \in Setups /\ lastidx \in Bufs
      /\ rxbufstat \in [Bufs -> BufStates] /\ rxbuf \in [Bufs -> Answers]
      /\ tempinbuf \in Received
  BY <1>0 DEF Init, BufStates, NothingReceived, Received
<1>2. mutex \in [Mutexes -> [owner : Threads \cup {NoThread}, hold : Nat]]
  BY DEF Init
<1>3. /\ transit \subseteq Frames /\ begun \in Nat /\ planned \in 0 .. setup.txns
      /\ starved \in BOOLEAN /\ lost \subseteq Bufs
  <2>1. setup.txns \in Nat
    BY <1>1, SetupTypes
  <2>2. transit \subseteq Frames /\ begun \in Nat /\ planned \in 0 .. setup.txns
    BY <2>1 DEF Init
  <2>3. starved \in BOOLEAN /\ lost \subseteq Bufs
    BY Zenon DEF Init
  <2>4. QED BY <2>2, <2>3
<1>4. pc \in [Threads -> Steps] /\ op \in [Threads -> Ops] /\ timer \in [Threads -> Timers]
  BY DEF Init, Steps, Ops, Timers
<1>5. /\ idx \in [Threads -> Bufs] /\ cnt \in [Threads -> 0 .. EC_MAXBUF]
      /\ try \in [Threads -> 1 .. MaxTries]
      /\ wkc \in [Threads -> Wkcs \cup {EC_NOFRAME, EC_OTHERFRAME}]
  BY BufAssumption, BoundsAssumption DEF Init, Bufs
<1>6. mine \in [Threads -> Seq(Holding)] /\ \A t \in Threads : Len(mine[t]) = 0
  BY DEF Init
<1>7. TypeOK
  BY <1>1, <1>2, <1>3, <1>4, <1>5, <1>6 DEF TypeOK
<1>8. StepInv /\ MutexInv /\ ReadInv
  BY DEF Init, StepInv, MutexInv, ReadInv, Busy, Searching, Reading
<1>9. IndexInv
  BY <1>6 DEF Init, IndexInv, Marked, Once, Found, Filing
<1>10. QED BY <1>7, <1>8, <1>9 DEF Inv

-----------------------------------------------------------------------------
\* With working locks one thread at a time looks for an index, ...
LEMMA OneSearch ==
  ASSUME Disciplined, Inv, NEW t \in Threads, NEW u \in Threads, Searching(t), Searching(u)
  PROVE  t = u
<1>1. t \in setup.users /\ u \in setup.users /\ setup \in Setups
  BY DEF Inv, TypeOK, StepInv, Searching
<1>2. CASE setup.port = rtk
  BY <1>2 DEF Inv, MutexInv
<1>3. CASE setup.port # rtk
  BY <1>1, <1>3 DEF Disciplined
<1>4. QED BY <1>2, <1>3

\* ... and one reads the port.
LEMMA OneReader ==
  ASSUME Disciplined, Inv, NEW t \in Threads, NEW u \in Threads,
         pc[t] = "recv" \/ Reading(t), pc[u] = "recv" \/ Reading(u)
  PROVE  t = u
<1>1. t \in setup.users /\ u \in setup.users /\ setup \in Setups
  BY DEF Inv, TypeOK, StepInv, Reading
<1>2. CASE setup.port = rtk
  BY <1>2 DEF Inv, MutexInv
<1>3. CASE setup.port # rtk
  BY <1>1, <1>3 DEF Disciplined
<1>4. QED BY <1>2, <1>3

\* The index a thread waits for.
LEMMA MineInBufs ==
  ASSUME TypeOK, NEW t \in Threads, Len(mine[t]) > 0
  PROVE  /\ Mine(t) \in Bufs /\ 1 \in 1 .. Len(mine[t]) /\ Mine(t) = Held(t, 1)
         /\ Head(mine[t]) = mine[t][1]
<1>1. mine[t] \in Seq(Holding) /\ Len(mine[t]) \in Nat
  BY DEF TypeOK
<1>2. 1 \in 1 .. Len(mine[t])
  BY <1>1
<1>3. Head(mine[t]) = mine[t][1]
  BY <1>1, <1>2
<1>4. Held(t, 1) \in Bufs
  BY <1>2, HeldInBufs DEF TypeOK
<1>5. QED BY <1>2, <1>3, <1>4 DEF Mine, Held

\* A step that frees no buffer keeps IndexInv, unless it ends a search; what it does to
\* the filing of frames is for each step to say.
LEMMA IndexKept ==
  ASSUME IndexInv, UNCHANGED <<mine, starved>>,
         rxbufstat \in [Bufs -> BufStates],
         mine \in [Threads -> Seq(Holding)], idx \in [Threads -> Bufs],
         ~starved => \A i \in Bufs : rxbufstat[i] # "EMPTY" => rxbufstat'[i] # "EMPTY",
         \A t \in Threads : pc'[t] = "claim" =>
           \/ pc[t] = "claim" /\ idx'[t] = idx[t] /\ cnt'[t] = cnt[t]
           \/ idx'[t] \in Bufs /\ (cnt'[t] = EC_MAXBUF \/ rxbufstat[idx'[t]] = "EMPTY"),
         ~starved => Filing'
  PROVE  IndexInv'
<1>. SUFFICES ASSUME ~starved' PROVE Marked' /\ Once' /\ Found' /\ Filing'
  BY DEF IndexInv
<1>1. Marked /\ Once /\ Found
  BY DEF IndexInv
<1>2. ASSUME NEW t \in Threads, NEW k \in 1 .. Len(mine[t]) PROVE Held(t, k) \in Bufs
  BY HeldInBufs
<1>3. Marked'
  BY <1>1, <1>2 DEF Marked, Held
<1>4. Once'
  BY <1>1 DEF Once, Held
<1>5. Found'
  <2>1. \A i : IsHeld(i)' <=> IsHeld(i)
    BY DEF IsHeld, Held
  <2>2. \A i : IsHeld(i) => rxbufstat[i] # "EMPTY"
    BY <1>1 DEF Marked, IsHeld
  <2>3. ASSUME NEW t \in Threads, pc'[t] = "claim", cnt'[t] # EC_MAXBUF
        PROVE  ~IsHeld(idx'[t])
    BY <1>1, <2>2, <2>3 DEF Found
  <2>4. ASSUME NEW t \in Threads PROVE IsHeld(idx[t])' <=> IsHeld(idx'[t])
    BY <2>1 DEF IsHeld, Held
  <2>5. QED BY <2>3, <2>4 DEF Found
<1>6. QED BY <1>3, <1>4, <1>5

\* Frames on their way into a buffer stay so while rxbufstat does.
LEMMA FilingKept ==
  ASSUME Filing, UNCHANGED rxbufstat,
         \A t \in Threads :
           /\ pc'[t] = "found" => pc[t] = "found" /\ mine'[t] = mine[t]
           /\ pc'[t] \in {"copy", "mark"} =>
                pc[t] \in {"copy", "mark"} /\ mine'[t] = mine[t] /\ idx'[t] = idx[t]
  PROVE  Filing'
BY DEF Filing, Mine

\* A step of thread t moves no other thread, and keeps those that run users.
LEMMA StepKept ==
  ASSUME TypeOK, StepInv, NEW t \in Threads, setup' = setup,
         NEW to \in Steps \ {"refused"}, pc' = [pc EXCEPT ![t] = to],
         to # "idle" => t \in setup.users,
         \A u \in Threads \ {t} : mine'[u] = mine[u],
         to \notin {"idle", "take", "scan", "claim"} => Len(mine'[t]) > 0
  PROVE  StepInv' /\ pc' \in [Threads -> Steps]
BY DEF TypeOK, StepInv, Busy

\* A thread that does not come to read leaves those that do as they are.
LEMMA ReadKept ==
  ASSUME TypeOK, ReadInv, NEW t \in Threads, NEW to, pc' = [pc EXCEPT ![t] = to],
         tempinbuf' = tempinbuf, \A u \in Threads \ {t} : idx'[u] = idx[u],
         to \notin {"match", "copy", "mark"}
  PROVE  ReadInv'
BY DEF TypeOK, ReadInv, Reading

\* Releasing a mutex leaves those the others own.
LEMMA ReleaseMutex ==
  ASSUME TypeOK, MutexInv, NEW t \in Threads, NEW m \in Mutexes, setup' = setup,
         NEW to, to \notin {"scan", "claim", "recv", "match", "copy", "mark"},
         pc' = [pc EXCEPT ![t] = to], mutex' = Released(t, m)
  PROVE  MutexInv' /\ mutex' \in [Mutexes -> [owner : Threads \cup {NoThread}, hold : Nat]]
<1>1. /\ mutex' \in [Mutexes -> [owner : Threads \cup {NoThread}, hold : Nat]]
      /\ \A n \in Mutexes : mutex'[n].owner # NoThread => mutex'[n].hold > 0
      /\ \A n \in Mutexes, u \in Threads \ {t} :
           mutex[n].owner = u => mutex'[n].owner = u
  BY ReleasedKeeps
<1>2. /\ \A u \in Threads \ {t} : pc'[u] = pc[u]
      /\ pc'[t] \notin {"scan", "claim", "recv", "match", "copy", "mark"}
  BY DEF TypeOK
<1>3. "rx_mutex" \in Mutexes /\ "getindex_mutex" \in Mutexes
  BY DEF Mutexes
<1>4. QED BY <1>1, <1>2, <1>3 DEF MutexInv, Searching, Reading

\* Who takes a mutex on a port that waits for it owns it then.
LEMMA LockMutex ==
  ASSUME TypeOK, MutexInv, NEW t \in Threads, NEW m \in Mutexes, setup' = setup,
         NEW to, to \notin {"match", "copy", "mark"}, pc' = [pc EXCEPT ![t] = to], Lock(t, m),
         setup.port = rtk /\ to \in {"scan", "claim"} => m = "getindex_mutex",
         to = "recv" => m = "rx_mutex"
  PROVE  MutexInv' /\ mutex' \in [Mutexes -> [owner : Threads \cup {NoThread}, hold : Nat]]
<1>1. /\ \A u \in Threads \ {t} : pc'[u] = pc[u]
      /\ pc'[t] = to
  BY DEF TypeOK
<1>2. CASE Free(t, m) /\ mutex' = Taken(t, m)
  <2>1. /\ mutex' \in [Mutexes -> [owner : Threads \cup {NoThread}, hold : Nat]]
        /\ mutex'[m].owner = t /\ mutex'[m].hold > 0
        /\ \A n \in Mutexes \ {m} : mutex'[n] = mutex[n]
        /\ \A n \in Mutexes, u \in Threads : mutex[n].owner = u => mutex'[n].owner = u
    BY <1>2, TakenKeeps
  <2>2. "rx_mutex" \in Mutexes /\ "getindex_mutex" \in Mutexes
    BY DEF Mutexes
  <2>3. \A n \in Mutexes : mutex'[n].owner # NoThread => mutex'[n].hold > 0
    BY <2>1 DEF MutexInv
  <2>4. ASSUME setup.port = rtk, NEW u \in Threads
        PROVE  /\ Searching(u)' => mutex'["getindex_mutex"].owner = u
               /\ pc'[u] = "recv" \/ Reading(u)' => mutex'["rx_mutex"].owner = u
    <3>1. CASE u = t
      BY <1>1, <2>1, <2>4, <3>1 DEF Searching, Reading
    <3>2. CASE u # t
      BY <1>1, <2>1, <2>2, <2>4, <3>2 DEF MutexInv, Searching, Reading
    <3>3. QED BY <3>1, <3>2
  <2>5. QED BY <2>1, <2>3, <2>4 DEF MutexInv
<1>3. CASE setup.port.patience = "10 ticks" /\ UNCHANGED mutex
  <2>1. setup.port # rtk
    BY <1>3, SetupTypes DEF TypeOK
  <2>2. QED BY <1>3, <2>1 DEF MutexInv, TypeOK
<1>4. QED BY <1>2, <1>3 DEF Lock

\* Moving on without a mutex.
LEMMA NoMutex ==
  ASSUME TypeOK, MutexInv, NEW t \in Threads, setup' = setup, mutex' = mutex,
         NEW to, pc' = [pc EXCEPT ![t] = to],
         to \in {"scan", "claim"} => Searching(t),
         to \in {"recv", "match", "copy", "mark"} => pc[t] = "recv" \/ Reading(t)
  PROVE  MutexInv'
BY DEF TypeOK, MutexInv, Searching, Reading

\* The start of an exchange.
LEMMA BeginKeepsInv ==
  ASSUME Inv, NEW t \in Threads, Begin(t)
  PROVE  Inv'
<1>1. PICK o \in Ops : /\ planned + Batch(o) <= setup.txns
                       /\ planned' = planned + Batch(o)
                       /\ op' = [op EXCEPT ![t] = o]
  BY DEF Begin
<1>2. /\ t \in setup.users /\ pc[t] = "idle"
      /\ pc' = [pc EXCEPT ![t] = "take"]
      /\ mine' = [mine EXCEPT ![t] = <<>>]
      /\ try' = [try EXCEPT ![t] = 1]
      /\ UNCHANGED <<setup, lastidx, rxbufstat, rxbuf, tempinbuf, mutex, transit, begun,
                     starved, lost, idx, cnt, timer, wkc>>
  BY DEF Begin, Goto, port, bufs, search, wait
<1>3. Batch(o) \in Nat /\ setup.txns \in Nat
  BY BatchAssumption, SetupTypes DEF Batch, Inv, TypeOK
<1>4. planned' \in 0 .. setup.txns
  BY <1>1, <1>3 DEF Inv, TypeOK
<1>5. StepInv' /\ pc' \in [Threads -> Steps]
  BY <1>2, StepKept DEF Inv, TypeOK, Steps
<1>6. TypeOK'
  BY <1>1, <1>2, <1>4, <1>5, BoundsAssumption DEF Inv, TypeOK
<1>7. MutexInv' /\ ReadInv'
  BY <1>2, NoMutex, ReadKept DEF Inv
<1>8. IndexInv'
  <2>. SUFFICES ASSUME ~starved' PROVE Marked' /\ Once' /\ Found' /\ Filing'
    BY DEF IndexInv
  <2>1. Marked /\ Once /\ Found /\ Filing
    BY <1>2 DEF Inv, IndexInv
  <2>2. /\ mine'[t] = <<>> /\ Len(mine'[t]) = 0
        /\ \A u \in Threads \ {t} : mine'[u] = mine[u] /\ pc'[u] = pc[u]
        /\ pc'[t] = "take"
    BY <1>2 DEF Inv, TypeOK
  <2>3. Marked' /\ Once'
    BY <1>2, <2>1, <2>2 DEF Marked, Once, Held
  <2>4. ASSUME NEW i, NEW u \in Threads, NEW k \in 1 .. Len(mine'[u]), mine'[u][k].idx = i
        PROVE  IsHeld(i)
    BY <2>2, <2>4 DEF IsHeld, Held
  <2>5. Found'
    <3>1. ASSUME NEW u \in Threads, pc'[u] = "claim", cnt'[u] # EC_MAXBUF
          PROVE  ~IsHeld(idx'[u])
      BY <1>2, <2>1, <2>2, <3>1 DEF Found
    <3>2. QED BY <2>4, <3>1 DEF Found, IsHeld, Held
  <2>6. Filing'
    BY <1>2, <2>1, <2>2, FilingKept
  <2>7. QED BY <2>3, <2>5, <2>6
<1>9. QED BY <1>5, <1>6, <1>7, <1>8 DEF Inv

\* The steps of one thread that touch neither the mutexes nor the indices held
\* nor rxbufstat nor a search: moving on, timers and tries.
LEMMA QuietKeepsInv ==
  ASSUME Inv, NEW t \in Threads,
         \/ PollAgain(t) \/ Resend(t) \/ GiveUp(t) \/ Expire(t) \/ InframeCheck(t)
  PROVE  Inv'
<1>1. /\ UNCHANGED <<setup, lastidx, rxbufstat, rxbuf, tempinbuf, mutex, transit, begun, planned,
                     starved, lost, op, idx, cnt, mine, wkc>>
      /\ pc[t] \in {"test", "check"}
  BY DEF PollAgain, Resend, GiveUp, Expire, InframeCheck, Goto, port, bufs, count, search,
         work, wait
<1>2. PICK to \in {"check", "send", "use", "test", "found", "lock"} :
        /\ pc' = [pc EXCEPT ![t] = to]
        /\ to = "found" => rxbufstat[Mine(t)] = "RCVD"
  BY DEF PollAgain, Resend, GiveUp, Expire, InframeCheck, Goto, Inv, TypeOK
<1>3. try' \in [Threads -> 1 .. MaxTries] /\ timer' \in [Threads -> Timers]
  <2>1. CASE PollAgain(t) \/ GiveUp(t) \/ InframeCheck(t)
    BY <2>1 DEF PollAgain, GiveUp, InframeCheck, Inv, TypeOK, work, wait
  <2>2. CASE Resend(t)
    <3>1. setup.tries \in 1 .. MaxTries
      BY SetupTypes DEF Inv, TypeOK
    <3>2. QED BY <2>2, <3>1, BoundsAssumption DEF Resend, Inv, TypeOK, wait
  <2>3. CASE Expire(t)
    BY <2>3 DEF Expire, Inv, TypeOK, Timers, work
  <2>4. QED BY <2>1, <2>2, <2>3
<1>4. StepInv' /\ pc' \in [Threads -> Steps]
  <2>1. Len(mine[t]) > 0 /\ t \in setup.users
    BY <1>1 DEF Inv, StepInv, Busy
  <2>2. QED BY <1>1, <1>2, <2>1, StepKept DEF Inv, Steps
<1>5. TypeOK'
  BY <1>1, <1>3, <1>4 DEF Inv, TypeOK
<1>6. MutexInv' /\ ReadInv'
  BY <1>1, <1>2, NoMutex, ReadKept DEF Inv
<1>7. ASSUME ~starved PROVE Filing'
  <2>1. Filing
    BY <1>7 DEF Inv, IndexInv
  <2>2. \A u \in Threads \ {t} : pc'[u] = pc[u]
    BY <1>2 DEF Inv, TypeOK
  <2>3. pc'[t] = to
    BY <1>2 DEF Inv, TypeOK
  <2>4. QED BY <1>1, <1>2, <2>1, <2>2, <2>3 DEF Filing, Mine
<1>8. IndexInv'
  <2>1. \A u \in Threads : pc'[u] = "claim" => pc[u] = "claim"
    BY <1>2 DEF Inv, TypeOK
  <2>2. QED BY <1>1, <1>7, <2>1, IndexKept DEF Inv, TypeOK
<1>9. QED BY <1>4, <1>5, <1>6, <1>8 DEF Inv

\* The first thread to lock getindex_mutex keeps the others out.
LEMMA TakeKeepsInv ==
  ASSUME Inv, NEW t \in Threads, GetindexTake(t)
  PROVE  Inv'
<1>1. /\ pc[t] = "take" /\ pc' = [pc EXCEPT ![t] = "scan"]
      /\ idx' = [idx EXCEPT ![t] = NextIdx(lastidx)]
      /\ cnt' = [cnt EXCEPT ![t] = 0]
      /\ Lock(t, setup.port.taken)
      /\ UNCHANGED <<setup, lastidx, rxbufstat, rxbuf, tempinbuf, transit, begun, planned,
                     starved, lost, op, mine, try, timer, wkc>>
  BY DEF GetindexTake, Goto, bufs, count, work, wait
<1>2. /\ setup.port.taken \in Mutexes
      /\ setup.port = rtk => setup.port.taken = "getindex_mutex"
  BY SetupTypes DEF Inv, TypeOK
<1>3. /\ mutex' \in [Mutexes -> [owner : Threads \cup {NoThread}, hold : Nat]]
      /\ MutexInv'
  BY <1>1, <1>2, LockMutex DEF Inv
<1>4. idx' \in [Threads -> Bufs] /\ cnt' \in [Threads -> 0 .. EC_MAXBUF]
  <2>1. NextIdx(lastidx) \in Bufs
    BY NextIdxInBufs DEF Inv, TypeOK
  <2>2. QED BY <1>1, <2>1, BufAssumption DEF Inv, TypeOK
<1>5. StepInv' /\ pc' \in [Threads -> Steps]
  <2>1. t \in setup.users
    BY <1>1 DEF Inv, StepInv
  <2>2. QED BY <1>1, <2>1, StepKept DEF Inv, Steps
<1>6. TypeOK'
  BY <1>1, <1>3, <1>4, <1>5 DEF Inv, TypeOK
<1>7. /\ \A u \in Threads \ {t} : pc'[u] = pc[u] /\ idx'[u] = idx[u] /\ cnt'[u] = cnt[u]
      /\ pc'[t] = "scan"
  BY <1>1 DEF Inv, TypeOK
<1>8. ReadInv'
  BY <1>1, <1>7, ReadKept DEF Inv
<1>9. ASSUME ~starved PROVE Filing'
  BY <1>1, <1>7, <1>9, FilingKept DEF Inv, IndexInv
<1>10. IndexInv'
  BY <1>1, <1>7, <1>9, IndexKept DEF Inv, TypeOK
<1>11. QED BY <1>3, <1>5, <1>6, <1>8, <1>10 DEF Inv

\* The search of ecx_getindex ends at a buffer nobody holds, or after a whole round.
LEMMA ScanKeepsInv ==
  ASSUME Inv, NEW t \in Threads, GetindexScan(t)
  PROVE  Inv'
<1>1. /\ pc[t] = "scan"
      /\ UNCHANGED <<setup, lastidx, rxbufstat, rxbuf, tempinbuf, mutex, transit, begun,
                     planned, starved, lost, op, mine, try, timer, wkc>>
  BY DEF GetindexScan, port, bufs, count, work, wait
<1>2. \/ /\ cnt[t] < EC_MAXBUF
         /\ idx' = [idx EXCEPT ![t] = NextIdx(idx[t])]
         /\ cnt' = [cnt EXCEPT ![t] = cnt[t] + 1]
         /\ pc' = pc
      \/ /\ rxbufstat[idx[t]] = "EMPTY" \/ ~(cnt[t] < EC_MAXBUF)
         /\ pc' = [pc EXCEPT ![t] = "claim"]
         /\ idx' = idx /\ cnt' = cnt
  BY DEF GetindexScan
<1>3. cnt[t] \in 0 .. EC_MAXBUF /\ idx[t] \in Bufs /\ NextIdx(idx[t]) \in Bufs
  BY NextIdxInBufs DEF Inv, TypeOK
<1>4. idx' \in [Threads -> Bufs] /\ cnt' \in [Threads -> 0 .. EC_MAXBUF]
  <2>1. idx \in [Threads -> Bufs] /\ cnt \in [Threads -> 0 .. EC_MAXBUF]
    BY DEF Inv, TypeOK
  <2>2. cnt[t] < EC_MAXBUF => cnt[t] + 1 \in 0 .. EC_MAXBUF
    BY <1>3, BufAssumption
  <2>3. QED BY <1>2, <1>3, <2>1, <2>2
<1>5. PICK to \in {"scan", "claim"} : pc' = [pc EXCEPT ![t] = to]
  BY <1>1, <1>2 DEF Inv, TypeOK
<1>6. StepInv' /\ pc' \in [Threads -> Steps]
  <2>1. t \in setup.users
    BY <1>1 DEF Inv, StepInv
  <2>2. QED BY <1>1, <1>5, <2>1, StepKept DEF Inv, Steps
<1>7. TypeOK'
  BY <1>1, <1>4, <1>6 DEF Inv, TypeOK
<1>8. /\ \A u \in Threads \ {t} : pc'[u] = pc[u] /\ idx'[u] = idx[u] /\ cnt'[u] = cnt[u]
      /\ pc'[t] \in {"scan", "claim"}
  BY <1>2, <1>5 DEF Inv, TypeOK
<1>9. MutexInv' /\ ReadInv'
  BY <1>1, <1>5, <1>8, NoMutex, ReadKept DEF Inv, Searching
<1>10. IndexInv'
  <2>1. ASSUME NEW u \in Threads, pc'[u] = "claim"
        PROVE  \/ pc[u] = "claim" /\ idx'[u] = idx[u] /\ cnt'[u] = cnt[u]
               \/ idx'[u] \in Bufs /\ (cnt'[u] = EC_MAXBUF \/ rxbufstat[idx'[u]] = "EMPTY")
    <3>1. CASE u = t
      <4>1. pc'[t] = "claim" /\ pc \in [Threads -> Steps]
        BY <2>1, <3>1 DEF Inv, TypeOK
      <4>2. pc' # pc
        BY <1>1, <4>1
      <4>3. /\ rxbufstat[idx[t]] = "EMPTY" \/ cnt[t] = EC_MAXBUF
            /\ idx' = idx /\ cnt' = cnt
        BY <1>2, <1>3, <4>2, BufAssumption
      <4>4. QED BY <1>3, <3>1, <4>3
    <3>2. CASE u # t
      BY <1>8, <2>1, <3>2
    <3>3. QED BY <3>1, <3>2
  <2>2. ASSUME ~starved PROVE Filing'
    BY <1>1, <1>8, <2>2, FilingKept DEF Inv, IndexInv
  <2>3. QED BY <1>1, <2>1, <2>2, IndexKept DEF Inv, TypeOK
<1>11. QED BY <1>6, <1>7, <1>9, <1>10 DEF Inv

\* ecx_getindex takes the index it found.
LEMMA ClaimKeepsInv ==
  ASSUME Disciplined, Inv, NEW t \in Threads, GetindexClaim(t)
  PROVE  Inv'
<1>. DEFINE h == [idx |-> idx[t], txn |-> begun + 1]
<1>1. /\ pc[t] = "claim" /\ pc' = [pc EXCEPT ![t] = "send"]
      /\ rxbufstat' = [rxbufstat EXCEPT ![idx[t]] = "ALLOC"]
      /\ lastidx' = idx[t] /\ begun' = begun + 1
      /\ mine' = [mine EXCEPT ![t] = Append(mine[t], h)]
      /\ transit' \subseteq transit
      /\ mutex' = Released(t, "getindex_mutex")
      /\ idx' = [idx EXCEPT ![t] = 0] /\ cnt' = [cnt EXCEPT ![t] = 0]
      /\ UNCHANGED <<setup, rxbuf, tempinbuf, planned, lost, op, try, timer, wkc>>
  BY DEF GetindexClaim, BeginTxn, Goto, wait
<1>2. starved' = (starved \/ (cnt[t] = EC_MAXBUF /\ rxbufstat[idx[t]] # "EMPTY"))
  BY DEF GetindexClaim
<1>3. /\ mine \in [Threads -> Seq(Holding)] /\ idx[t] \in Bufs /\ cnt[t] \in 0 .. EC_MAXBUF
      /\ pc \in [Threads -> Steps] /\ rxbufstat \in [Bufs -> BufStates]
      /\ idx \in [Threads -> Bufs] /\ cnt \in [Threads -> 0 .. EC_MAXBUF]
  BY DEF Inv, TypeOK
<1>4. starved' \in BOOLEAN
  BY <1>2, Zenon
<1>5. h \in Holding
  BY <1>3 DEF Holding, Txns, Inv, TypeOK
<1>6. /\ mine' \in [Threads -> Seq(Holding)]
      /\ Len(mine'[t]) = Len(mine[t]) + 1 /\ Len(mine[t]) \in Nat
      /\ mine'[t][Len(mine[t]) + 1] = h
      /\ \A k \in 1 .. Len(mine[t]) : mine'[t][k] = mine[t][k]
      /\ \A u \in Threads \ {t} : mine'[u] = mine[u]
  <2>1. mine[t] \in Seq(Holding) /\ mine'[t] = Append(mine[t], h)
    BY <1>1, <1>3
  <2>2. Append(mine[t], h) \in Seq(Holding)
    BY <1>5, <2>1
  <2>3. mine' \in [Threads -> Seq(Holding)] /\ \A u \in Threads \ {t} : mine'[u] = mine[u]
    BY <1>1, <1>3, <2>2
  <2>4. QED BY <1>5, <2>1, <2>3
<1>7. /\ \A u \in Threads \ {t} : pc'[u] = pc[u] /\ idx'[u] = idx[u] /\ cnt'[u] = cnt[u]
      /\ pc'[t] = "send"
  BY <1>1, <1>3
<1>8. /\ mutex' \in [Mutexes -> [owner : Threads \cup {NoThread}, hold : Nat]]
      /\ MutexInv' /\ ReadInv'
  BY <1>1, <1>7, ReleaseMutex, ReadKept DEF Inv, Mutexes
<1>9. StepInv' /\ pc' \in [Threads -> Steps]
  <2>1. t \in setup.users /\ Len(mine'[t]) > 0
    BY <1>1, <1>6 DEF Inv, StepInv
  <2>2. QED BY <1>1, <1>6, <2>1, StepKept DEF Inv, Steps
<1>10. TypeOK'
  <2>1. 0 \in Bufs /\ 0 \in 0 .. EC_MAXBUF
    BY BufAssumption DEF Bufs
  <2>2. /\ rxbufstat' \in [Bufs -> BufStates] /\ begun' \in Nat /\ transit' \subseteq Frames
        /\ idx' \in [Threads -> Bufs] /\ cnt' \in [Threads -> 0 .. EC_MAXBUF]
    BY <1>1, <2>1 DEF Inv, TypeOK, BufStates
  <2>3. QED BY <1>1, <1>3, <1>4, <1>6, <1>8, <1>9, <2>2 DEF Inv, TypeOK
<1>11. IndexInv'
  <2>. SUFFICES ASSUME ~starved' PROVE Marked' /\ Once' /\ Found' /\ Filing'
    BY DEF IndexInv
  <2>1. ~starved /\ (cnt[t] = EC_MAXBUF => rxbufstat[idx[t]] = "EMPTY")
    BY <1>2
  <2>2. Marked /\ Once /\ ~IsHeld(idx[t]) /\ Filing
    BY <1>1, <2>1 DEF Inv, IndexInv, Found, Marked, IsHeld
  <2>3. ASSUME NEW u \in Threads, NEW k \in 1 .. Len(mine[u])
        PROVE  /\ Held(u, k) \in Bufs /\ Held(u, k) # idx[t]
               /\ rxbufstat[Held(u, k)] # "EMPTY"
    BY <1>3, <2>2, <2>3, HeldInBufs DEF Marked, IsHeld
  <2>4. ASSUME NEW u \in Threads, NEW k \in 1 .. Len(mine'[u])
        PROVE  \/ u = t /\ k = Len(mine[t]) + 1 /\ mine'[u][k].idx = idx[t]
               \/ k \in 1 .. Len(mine[u]) /\ mine'[u][k].idx = Held(u, k)
    <3>1. CASE u = t /\ k = Len(mine[t]) + 1
      BY <1>6, <3>1
    <3>2. CASE u = t /\ k # Len(mine[t]) + 1
      <4>1. k \in 1 .. Len(mine[t])
        BY <1>6, <2>4, <3>2
      <4>2. QED BY <1>6, <3>2, <4>1 DEF Held
    <3>3. CASE u # t
      BY <1>6, <2>4, <3>3 DEF Held
    <3>4. QED BY <3>1, <3>2, <3>3
  <2>5. Marked'
    <3>1. ASSUME NEW u \in Threads, NEW k \in 1 .. Len(mine'[u])
          PROVE  rxbufstat'[mine'[u][k].idx] # "EMPTY"
      <4>1. CASE mine'[u][k].idx = idx[t]
        BY <1>1, <1>3, <4>1
      <4>2. CASE k \in 1 .. Len(mine[u]) /\ mine'[u][k].idx = Held(u, k)
        BY <1>1, <1>3, <2>3, <4>2
      <4>3. QED BY <2>4, <4>1, <4>2
    <3>2. QED BY <3>1 DEF Marked, Held
  <2>6. Once'
    <3>1. ASSUME NEW u \in Threads, NEW v \in Threads,
                 NEW k \in 1 .. Len(mine'[u]), NEW l \in 1 .. Len(mine'[v]),
                 mine'[u][k].idx = mine'[v][l].idx
          PROVE  u = v /\ k = l
      <4>1. CASE k \in 1 .. Len(mine[u]) /\ mine'[u][k].idx = Held(u, k)
                 /\ l \in 1 .. Len(mine[v]) /\ mine'[v][l].idx = Held(v, l)
        BY <2>2, <3>1, <4>1 DEF Once
      <4>2. CASE /\ u = t /\ k = Len(mine[t]) + 1 /\ mine'[u][k].idx = idx[t]
                 /\ v = t /\ l = Len(mine[t]) + 1
        BY <4>2
      <4>3. CASE k \in 1 .. Len(mine[u]) /\ mine'[u][k].idx = Held(u, k)
                 /\ mine'[v][l].idx = idx[t]
        BY <2>3, <3>1, <4>3
      <4>4. CASE l \in 1 .. Len(mine[v]) /\ mine'[v][l].idx = Held(v, l)
                 /\ mine'[u][k].idx = idx[t]
        BY <2>3, <3>1, <4>4
      <4>5. QED BY <2>4, <4>1, <4>2, <4>3, <4>4
    <3>2. QED BY <3>1 DEF Once, Held
  <2>7. Found'
    <3>1. \A u \in Threads : pc'[u] # "claim"
      BY <1>1, <1>7, OneSearch DEF Searching
    <3>2. QED BY <3>1 DEF Found
  <2>8. Filing'
    <3>1. ASSUME NEW u \in Threads, pc'[u] = "found" PROVE rxbufstat'[Mine(u)'] = "RCVD"
      <4>1. u # t /\ pc[u] = "found" /\ mine'[u] = mine[u]
        BY <1>6, <1>7, <3>1
      <4>2. Len(mine[u]) > 0
        BY <4>1 DEF Inv, StepInv, Busy
      <4>3. Mine(u) \in Bufs /\ 1 \in 1 .. Len(mine[u]) /\ Mine(u) = Held(u, 1)
        BY <4>2, MineInBufs DEF Inv
      <4>4. Mine(u)' = Mine(u) /\ Mine(u) # idx[t] /\ rxbufstat[Mine(u)] = "RCVD"
        BY <2>2, <2>3, <4>1, <4>3 DEF Filing, Mine
      <4>5. QED BY <1>1, <1>3, <4>3, <4>4
    <3>2. ASSUME NEW u \in Threads, pc'[u] \in {"copy", "mark"}, idx'[u] # Mine(u)'
          PROVE  rxbufstat'[idx'[u]] \notin {"RCVD", "COMPLETE"}
      <4>1. u # t /\ pc[u] \in {"copy", "mark"} /\ idx'[u] = idx[u] /\ Mine(u)' = Mine(u)
        BY <1>6, <1>7, <3>2 DEF Mine
      <4>2. rxbufstat[idx[u]] \notin {"RCVD", "COMPLETE"}
        BY <2>2, <3>2, <4>1 DEF Filing
      <4>3. QED BY <1>1, <1>3, <4>1, <4>2
    <3>3. QED BY <3>1, <3>2 DEF Filing
  <2>9. QED BY <2>5, <2>6, <2>7, <2>8
<1>12. QED BY <1>8, <1>9, <1>10, <1>11 DEF Inv

\* The states a thread sends from show that it holds the index it sends for.
LEMMA LastInBufs ==
  ASSUME TypeOK, NEW t \in Threads, Len(mine[t]) > 0
  PROVE  /\ Len(mine[t]) \in 1 .. Len(mine[t]) /\ mine[t][Len(mine[t])] \in Holding
         /\ mine[t][Len(mine[t])].idx = Held(t, Len(mine[t]))
         /\ Held(t, Len(mine[t])) \in Bufs
<1>1. mine[t] \in Seq(Holding) /\ Len(mine[t]) \in Nat
  BY DEF TypeOK
<1>2. Len(mine[t]) \in 1 .. Len(mine[t])
  BY <1>1
<1>3. mine[t][Len(mine[t])] \in Holding
  BY <1>1, <1>2
<1>4. QED BY <1>2, <1>3 DEF Held, Holding

\* A thread that gives the buffer of an index it holds another state, neither EMPTY nor
\* while it looks into it for an answer, leaves the others' filing as it is.
LEMMA OwnFiling ==
  ASSUME Inv, ~starved, NEW t \in Threads, NEW k \in 1 .. Len(mine[t]), NEW s \in BufStates,
         NEW to, pc' = [pc EXCEPT ![t] = to],
         to \notin {"found", "copy", "mark"},
         rxbufstat' = [rxbufstat EXCEPT ![Held(t, k)] = s],
         \A u \in Threads \ {t} : mine'[u] = mine[u] /\ idx'[u] = idx[u],
         s \notin {"RCVD", "COMPLETE"}
           \/ \A u \in Threads \ {t} : ~(pc[u] \in {"copy", "mark"} /\ idx[u] = Held(t, k))
  PROVE  Filing'
<1>1. /\ \A u \in Threads \ {t} : pc'[u] = pc[u]
      /\ pc'[t] \notin {"found", "copy", "mark"}
      /\ rxbufstat \in [Bufs -> BufStates]
  BY DEF Inv, TypeOK
<1>2. Filing /\ Once
  BY DEF Inv, IndexInv
<1>3. ASSUME NEW u \in Threads, pc'[u] = "found" PROVE rxbufstat'[Mine(u)'] = "RCVD"
  <2>1. u # t /\ pc[u] = "found" /\ mine'[u] = mine[u]
    BY <1>1, <1>3
  <2>2. Len(mine[u]) > 0
    BY <2>1 DEF Inv, StepInv, Busy
  <2>3. Mine(u) \in Bufs /\ 1 \in 1 .. Len(mine[u]) /\ Mine(u) = Held(u, 1)
    BY <2>2, MineInBufs DEF Inv
  <2>4. Mine(u) # Held(t, k)
    BY <1>2, <2>1, <2>3 DEF Once
  <2>5. Mine(u)' = Mine(u) /\ rxbufstat[Mine(u)] = "RCVD"
    BY <1>2, <2>1 DEF Filing, Mine
  <2>6. QED BY <1>1, <2>3, <2>4, <2>5
<1>4. ASSUME NEW u \in Threads, pc'[u] \in {"copy", "mark"}, idx'[u] # Mine(u)'
      PROVE  rxbufstat'[idx'[u]] \notin {"RCVD", "COMPLETE"}
  <2>1. u # t /\ pc[u] \in {"copy", "mark"} /\ idx'[u] = idx[u] /\ Mine(u)' = Mine(u)
    BY <1>1, <1>4 DEF Mine
  <2>2. rxbufstat[idx[u]] \notin {"RCVD", "COMPLETE"} /\ idx[u] \in Bufs
    BY <1>2, <1>4, <2>1 DEF Filing, Inv, TypeOK
  <2>3. rxbufstat'[idx[u]] = IF idx[u] = Held(t, k) THEN s ELSE rxbufstat[idx[u]]
    BY <1>1, <2>2
  <2>4. QED BY <2>1, <2>2, <2>3
<1>5. QED BY <1>3, <1>4 DEF Filing

\* ecx_outframe marks a buffer its thread holds.
LEMMA OutframeKeepsInv ==
  ASSUME Inv, NEW t \in Threads, NEW arrives \in BOOLEAN, Outframe(t, arrives)
  PROVE  Inv'
<1>. DEFINE n == Len(mine[t])
            h == mine[t][n]
<1>1. /\ pc[t] = "send"
      /\ rxbufstat' = [rxbufstat EXCEPT ![h.idx] = "TX"]
      /\ transit' \subseteq transit \cup {[idx |-> h.idx, txn |-> h.txn, try |-> try[t]]}
      /\ timer' = [timer EXCEPT ![t] = "running"]
      /\ UNCHANGED <<setup, lastidx, rxbuf, tempinbuf, mutex, begun, planned, starved, lost,
                     idx, cnt, op, mine, try, wkc>>
  BY DEF Outframe, Goto, count, search, work
<1>2. PICK to \in {"take", "check"} : pc' = [pc EXCEPT ![t] = to]
  BY DEF Outframe, Goto, AfterSend
<1>3. n > 0 /\ n \in 1 .. n /\ h \in Holding /\ h.idx = Held(t, n) /\ Held(t, n) \in Bufs
  BY <1>1, LastInBufs DEF Inv, StepInv, Busy
<1>4. StepInv' /\ pc' \in [Threads -> Steps]
  <2>1. t \in setup.users /\ Len(mine'[t]) > 0
    BY <1>1 DEF Inv, StepInv, Busy
  <2>2. QED BY <1>1, <1>2, <2>1, StepKept DEF Inv, Steps
<1>5. TypeOK'
  <2>1. [idx |-> h.idx, txn |-> h.txn, try |-> try[t]] \in Frames
    BY <1>3 DEF Holding, Frames, Inv, TypeOK
  <2>2. /\ rxbufstat' \in [Bufs -> BufStates] /\ transit' \subseteq Frames
        /\ timer' \in [Threads -> Timers]
    BY <1>1, <2>1 DEF Inv, TypeOK, BufStates, Timers
  <2>3. QED BY <1>1, <1>4, <2>2 DEF Inv, TypeOK
<1>6. MutexInv' /\ ReadInv'
  BY <1>1, <1>2, NoMutex, ReadKept DEF Inv
<1>7. IndexInv'
  <2>1. \A i \in Bufs : rxbufstat[i] # "EMPTY" => rxbufstat'[i] # "EMPTY"
    BY <1>1 DEF Inv, TypeOK
  <2>2. \A u \in Threads : pc'[u] = "claim" => pc[u] = "claim"
    BY <1>2 DEF Inv, TypeOK
  <2>3. ASSUME ~starved PROVE Filing'
    <3>1. "TX" \in BufStates /\ rxbufstat' = [rxbufstat EXCEPT ![Held(t, n)] = "TX"]
      BY <1>1, <1>3 DEF BufStates
    <3>2. n \in 1 .. Len(mine[t])
      BY <1>3
    <3>. HIDE DEF n
    <3>3. QED BY <1>1, <1>2, <2>3, <3>1, <3>2, OwnFiling
  <2>4. QED BY <1>1, <2>1, <2>2, <2>3, IndexKept DEF Inv, TypeOK
<1>8. QED BY <1>4, <1>5, <1>6, <1>7 DEF Inv

\* Taking rx_mutex, and releasing it with nothing read.
LEMMA PollKeepsInv ==
  ASSUME Inv, NEW t \in Threads, InframeLock(t) \/ InframeNothing(t)
  PROVE  Inv'
<1>1. /\ UNCHANGED <<setup, lastidx, rxbufstat, rxbuf, tempinbuf, transit, begun, planned,
                     starved, lost, idx, cnt, op, mine, try, timer>>
      /\ pc[t] \in {"lock", "recv"}
  BY DEF InframeLock, InframeNothing, Goto, bufs, count, search, work, wait
<1>2. PICK to \in {"recv", "test"} :
        /\ pc' = [pc EXCEPT ![t] = to]
        /\ \/ to = "recv" /\ Lock(t, "rx_mutex") /\ wkc' = wkc
           \/ to = "test" /\ mutex' = Released(t, "rx_mutex")
              /\ wkc' = [wkc EXCEPT ![t] = EC_NOFRAME]
  BY DEF InframeLock, InframeNothing, Goto, wait
<1>3. StepInv' /\ pc' \in [Threads -> Steps]
  <2>1. Len(mine[t]) > 0 /\ t \in setup.users
    BY <1>1 DEF Inv, StepInv, Busy
  <2>2. QED BY <1>1, <1>2, <2>1, StepKept DEF Inv, Steps
<1>4. MutexInv' /\ mutex' \in [Mutexes -> [owner : Threads \cup {NoThread}, hold : Nat]]
  <2>1. "rx_mutex" \in Mutexes
    BY DEF Mutexes
  <2>2. QED BY <1>1, <1>2, <2>1, LockMutex, ReleaseMutex DEF Inv
<1>5. TypeOK'
  BY <1>1, <1>2, <1>3, <1>4 DEF Inv, TypeOK
<1>6. ReadInv'
  BY <1>1, <1>2, ReadKept DEF Inv
<1>7. \A u \in Threads : pc'[u] \in {"claim", "found", "copy", "mark"} => pc'[u] = pc[u]
  BY <1>2 DEF Inv, TypeOK
<1>8. IndexInv'
  <2>1. ASSUME ~starved PROVE Filing'
    BY <1>1, <1>7, <2>1, FilingKept DEF Inv, IndexInv
  <2>2. QED BY <1>1, <1>7, <2>1, IndexKept DEF Inv, TypeOK
<1>9. QED BY <1>3, <1>4, <1>5, <1>6, <1>8 DEF Inv

\* A frame is read while nobody else has one.
LEMMA RecvKeepsInv ==
  ASSUME Disciplined, Inv, NEW t \in Threads, InframeRecv(t)
  PROVE  Inv'
<1>1. /\ UNCHANGED <<setup, lastidx, rxbufstat, rxbuf, mutex, begun, planned, starved, lost,
                     op, idx, cnt, mine, try, timer, wkc>>
      /\ pc[t] = "recv" /\ pc' = [pc EXCEPT ![t] = "match"]
  BY DEF InframeRecv, Goto, bufs, count, search, work, wait
<1>2. PICK f \in transit, w \in Wkcs :
        /\ tempinbuf' = [idx |-> f.idx, answer |-> [txn |-> f.txn, wkc |-> w]]
        /\ transit' = transit \ {f}
  BY DEF InframeRecv
<1>3. f \in Frames
  BY DEF Inv, TypeOK
<1>4. tempinbuf' \in Received /\ transit' \subseteq Frames /\ tempinbuf'.answer.txn \in Txns
  BY <1>2, <1>3 DEF Frames, Received, Answers, Inv, TypeOK
<1>5. StepInv' /\ pc' \in [Threads -> Steps]
  <2>1. Len(mine[t]) > 0 /\ t \in setup.users
    BY <1>1 DEF Inv, StepInv, Busy
  <2>2. QED BY <1>1, <2>1, StepKept DEF Inv, Steps
<1>6. TypeOK'
  BY <1>1, <1>4, <1>5 DEF Inv, TypeOK
<1>7. MutexInv'
  BY <1>1, NoMutex DEF Inv
<1>8. \A u \in Threads : pc'[u] \in {"claim", "found", "copy", "mark"} => pc'[u] = pc[u]
  BY <1>1 DEF Inv, TypeOK
<1>9. ReadInv'
  <2>1. \A u \in Threads : pc'[u] \notin {"copy", "mark"}
    BY <1>1, <1>8, OneReader DEF Reading
  <2>2. QED BY <1>4, <2>1 DEF ReadInv
<1>10. IndexInv'
  <2>1. ASSUME ~starved PROVE Filing'
    BY <1>1, <1>8, <2>1, FilingKept DEF Inv, IndexInv
  <2>2. QED BY <1>1, <1>8, <2>1, IndexKept DEF Inv, TypeOK
<1>11. QED BY <1>5, <1>6, <1>7, <1>9, <1>10 DEF Inv

\* The frame is wanted, and copied.
LEMMA StoreKeepsInv ==
  ASSUME Inv, NEW t \in Threads, InframeMatch(t) \/ InframeStore(t)
  PROVE  Inv'
<1>1. /\ UNCHANGED <<setup, lastidx, rxbufstat, tempinbuf, mutex, transit, begun, planned,
                     starved, lost, op, cnt, mine, try, timer, wkc>>
      /\ pc[t] \in {"match", "copy"}
  BY DEF InframeMatch, InframeStore, Goto, port, bufs, count, search, work, wait
<1>2. PICK to \in {"copy", "mark"} :
        /\ pc' = [pc EXCEPT ![t] = to]
        /\ to = "mark" => pc[t] = "copy"
        /\ \/ to = "copy" /\ Wanted(t, tempinbuf.idx) /\ rxbuf' = rxbuf
              /\ idx' = [idx EXCEPT ![t] = tempinbuf.idx]
           \/ to = "mark" /\ idx' = idx
              /\ rxbuf' = [rxbuf EXCEPT ![idx[t]] = tempinbuf.answer]
  BY DEF InframeMatch, InframeStore, Goto, port, bufs, search
<1>3. tempinbuf.idx \in Bufs /\ tempinbuf.answer \in Answers
  BY DEF Inv, TypeOK, Received
<1>4. StepInv' /\ pc' \in [Threads -> Steps]
  <2>1. Len(mine[t]) > 0 /\ t \in setup.users
    BY <1>1 DEF Inv, StepInv, Busy
  <2>2. QED BY <1>1, <1>2, <2>1, StepKept DEF Inv, Steps
<1>5. TypeOK'
  <2>1. idx' \in [Threads -> Bufs] /\ rxbuf' \in [Bufs -> Answers]
    BY <1>2, <1>3 DEF Inv, TypeOK
  <2>2. QED BY <1>1, <1>4, <2>1 DEF Inv, TypeOK
<1>6. MutexInv'
  BY <1>1, <1>2, NoMutex DEF Inv, Reading
<1>7. /\ \A u \in Threads \ {t} : pc'[u] = pc[u] /\ idx'[u] = idx[u]
      /\ pc'[t] = to /\ idx'[t] = tempinbuf.idx
  <2>1. \A u \in Threads \ {t} : pc'[u] = pc[u] /\ idx'[u] = idx[u]
    BY <1>2 DEF Inv, TypeOK
  <2>2. pc'[t] = to
    BY <1>2 DEF Inv, TypeOK
  <2>3. idx'[t] = tempinbuf.idx
    BY <1>2 DEF Inv, TypeOK, ReadInv
  <2>4. QED BY <2>1, <2>2, <2>3
<1>8. ReadInv'
  <2>1. tempinbuf.answer.txn \in Txns
    BY <1>1 DEF Inv, ReadInv, Reading
  <2>2. QED BY <1>1, <1>7, <2>1 DEF Inv, ReadInv
<1>9. IndexInv'
  <2>1. ASSUME ~starved PROVE Filing'
    <3>1. Filing
      BY <2>1 DEF Inv, IndexInv
    <3>2. ASSUME tempinbuf.idx # Mine(t)
          PROVE  rxbufstat[tempinbuf.idx] \notin {"RCVD", "COMPLETE"}
      <4>1. CASE to = "copy"
        BY <1>2, <3>2, <4>1 DEF Wanted
      <4>2. CASE to = "mark"
        <5>1. pc[t] = "copy" /\ idx[t] = tempinbuf.idx
          BY <1>2, <4>2 DEF Inv, ReadInv
        <5>2. QED BY <3>1, <3>2, <5>1 DEF Filing
      <4>3. QED BY <4>1, <4>2
    <3>3. \A u \in Threads : Mine(u)' = Mine(u)
      BY <1>1 DEF Mine
    <3>4. QED BY <1>1, <1>2, <1>7, <3>1, <3>2, <3>3 DEF Filing
  <2>2. \A u \in Threads : pc'[u] = "claim" => pc[u] = "claim" /\ u # t
    BY <1>7
  <2>3. QED BY <1>1, <1>7, <2>1, <2>2, IndexKept DEF Inv, TypeOK
<1>10. QED BY <1>4, <1>5, <1>6, <1>8, <1>9 DEF Inv

\* The end of a read: strange, somebody else's, or the thread's own.
LEMMA EndKeepsInv ==
  ASSUME Disciplined, Inv, NEW t \in Threads,
         InframeStrange(t) \/ InframeComplete(t) \/ InframeFile(t)
  PROVE  Inv'
<1>1. /\ pc[t] \in {"match", "mark"} /\ Reading(t)
      /\ tempinbuf' = NothingReceived
      /\ mutex' = Released(t, "rx_mutex")
      /\ idx' = [idx EXCEPT ![t] = 0]
      /\ UNCHANGED <<setup, lastidx, rxbuf, transit, begun, planned, starved, cnt, op, mine,
                     try, timer>>
  BY DEF InframeStrange, InframeComplete, InframeFile, Goto, EndRead, bufs, work, Reading
<1>2. Len(mine[t]) > 0 /\ t \in setup.users
  BY <1>1 DEF Inv, StepInv, Busy
<1>3. Mine(t) \in Bufs /\ 1 \in 1 .. Len(mine[t]) /\ Mine(t) = Held(t, 1) /\ idx[t] \in Bufs
  BY <1>2, MineInBufs DEF Inv, TypeOK
<1>4. PICK to \in {"test", "use"} :
        /\ pc' = [pc EXCEPT ![t] = to]
        /\ \/ rxbufstat' = rxbufstat
           \/ rxbufstat' = [rxbufstat EXCEPT ![Held(t, 1)] = "COMPLETE"]
           \/ rxbufstat' = [rxbufstat EXCEPT ![idx[t]] = "RCVD"]
  BY <1>3 DEF InframeStrange, InframeComplete, InframeFile, Goto, bufs
<1>5. wkc' \in [Threads -> Wkcs \cup {EC_NOFRAME, EC_OTHERFRAME}] /\ lost' \subseteq Bufs
  <2>1. rxbuf[Mine(t)].wkc \in Wkcs \cup {EC_NOFRAME}
    BY <1>3 DEF Inv, TypeOK, Answers
  <2>2. CASE InframeStrange(t)
    BY <2>2 DEF InframeStrange, EndRead, Inv, TypeOK
  <2>3. CASE InframeComplete(t)
    BY <2>1, <2>3 DEF InframeComplete, EndRead, Inv, TypeOK
  <2>4. CASE InframeFile(t)
    BY <1>3, <2>4 DEF InframeFile, EndRead, Inv, TypeOK
  <2>5. QED BY <2>2, <2>3, <2>4
<1>6. StepInv' /\ pc' \in [Threads -> Steps]
  BY <1>1, <1>2, <1>4, StepKept DEF Inv, Steps
<1>7. MutexInv' /\ mutex' \in [Mutexes -> [owner : Threads \cup {NoThread}, hold : Nat]]
  BY <1>1, <1>4, ReleaseMutex DEF Inv, Mutexes
<1>8. TypeOK'
  <2>1. 0 \in Bufs /\ NothingReceived \in Received
    BY BufAssumption DEF Bufs, NoAnswer, Answers, NothingReceived, Received
  <2>2. rxbufstat' \in [Bufs -> BufStates] /\ idx' \in [Threads -> Bufs]
    BY <1>1, <1>4, <2>1 DEF Inv, TypeOK, BufStates
  <2>3. QED BY <1>1, <1>5, <1>6, <1>7, <2>1, <2>2 DEF Inv, TypeOK
<1>9. /\ \A u \in Threads \ {t} : pc'[u] = pc[u] /\ idx'[u] = idx[u] /\ ~Reading(u)
      /\ pc'[t] \in {"test", "use"}
  <2>1. \A u \in Threads \ {t} : ~Reading(u)
    BY <1>1, OneReader
  <2>2. QED BY <1>1, <1>4, <2>1 DEF Inv, TypeOK
<1>10. \A u \in Threads : ~Reading(u)'
  BY <1>9 DEF Reading
<1>11. ReadInv'
  BY <1>10 DEF ReadInv, Reading
<1>12. ASSUME ~starved PROVE Filing'
  <2>1. Filing
    BY <1>12 DEF Inv, IndexInv
  <2>2. CASE rxbufstat' = rxbufstat
    BY <1>1, <1>9, <1>10, <2>1, <2>2, FilingKept DEF Reading
  <2>3. CASE rxbufstat' = [rxbufstat EXCEPT ![Held(t, 1)] = "COMPLETE"]
    <3>1. "COMPLETE" \in BufStates
      BY DEF BufStates
    <3>2. \A u \in Threads \ {t} : pc[u] \notin {"copy", "mark"}
      BY <1>9 DEF Reading
    <3>3. QED BY <1>1, <1>3, <1>4, <1>9, <1>12, <2>3, <3>1, <3>2, OwnFiling
  <2>4. CASE rxbufstat' = [rxbufstat EXCEPT ![idx[t]] = "RCVD"]
    <3>1. \A i \in Bufs : rxbufstat[i] = "RCVD" => rxbufstat'[i] = "RCVD"
      BY <2>4 DEF Inv, TypeOK
    <3>2. ASSUME NEW u \in Threads, pc'[u] = "found" PROVE rxbufstat'[Mine(u)'] = "RCVD"
      <4>1. u # t /\ pc[u] = "found" /\ Mine(u)' = Mine(u)
        BY <1>1, <1>9, <3>2 DEF Mine
      <4>2. Len(mine[u]) > 0
        BY <4>1 DEF Inv, StepInv, Busy
      <4>3. Mine(u) \in Bufs
        BY <4>2, MineInBufs DEF Inv
      <4>4. QED BY <2>1, <3>1, <4>1, <4>3 DEF Filing
    <3>3. QED BY <1>10, <3>2 DEF Filing, Reading
  <2>5. QED BY <1>4, <2>2, <2>3, <2>4
<1>13. IndexInv'
  <2>1. \A i \in Bufs : rxbufstat[i] # "EMPTY" => rxbufstat'[i] # "EMPTY"
    BY <1>4 DEF Inv, TypeOK
  <2>2. \A u \in Threads : pc'[u] = "claim" => pc[u] = "claim" /\ u # t
    BY <1>9
  <2>3. QED BY <1>1, <1>9, <1>12, <2>1, <2>2, IndexKept DEF Inv, TypeOK
<1>14. QED BY <1>6, <1>7, <1>8, <1>11, <1>13 DEF Inv

\* An answer that was found is taken while nobody files another under its index.
LEMMA FoundKeepsInv ==
  ASSUME Inv, NEW t \in Threads, InframeTake(t)
  PROVE  Inv'
<1>1. /\ pc[t] = "found" /\ pc' = [pc EXCEPT ![t] = "use"]
      /\ wkc' = [wkc EXCEPT ![t] = rxbuf[Mine(t)].wkc]
      /\ rxbufstat' = [rxbufstat EXCEPT ![Mine(t)] = "COMPLETE"]
      /\ UNCHANGED <<setup, lastidx, rxbuf, tempinbuf, mutex, transit, begun, planned, starved,
                     lost, idx, cnt, op, mine, try, timer>>
  BY DEF InframeTake, Goto, count, search, work
<1>2. Len(mine[t]) > 0 /\ t \in setup.users
  BY <1>1 DEF Inv, StepInv, Busy
<1>3. Mine(t) \in Bufs /\ 1 \in 1 .. Len(mine[t]) /\ Mine(t) = Held(t, 1)
  BY <1>2, MineInBufs DEF Inv
<1>4. StepInv' /\ pc' \in [Threads -> Steps]
  BY <1>1, <1>2, StepKept DEF Inv, Steps
<1>5. TypeOK'
  <2>1. rxbuf[Mine(t)].wkc \in Wkcs \cup {EC_NOFRAME}
    BY <1>3 DEF Inv, TypeOK, Answers
  <2>2. /\ rxbufstat' \in [Bufs -> BufStates]
        /\ wkc' \in [Threads -> Wkcs \cup {EC_NOFRAME, EC_OTHERFRAME}]
    BY <1>1, <2>1 DEF Inv, TypeOK, BufStates
  <2>3. QED BY <1>1, <1>4, <2>2 DEF Inv, TypeOK
<1>6. MutexInv' /\ ReadInv'
  BY <1>1, NoMutex, ReadKept DEF Inv
<1>7. IndexInv'
  <2>1. ASSUME ~starved PROVE Filing'
    <3>1. Filing /\ Once
      BY <2>1 DEF Inv, IndexInv
    <3>2. ASSUME NEW u \in Threads \ {t}, pc[u] \in {"copy", "mark"}, idx[u] = Held(t, 1)
          PROVE  FALSE
      <4>1. rxbufstat[idx[u]] = "RCVD"
        BY <1>1, <1>3, <3>1, <3>2 DEF Filing
      <4>2. idx[u] = Mine(u)
        BY <3>1, <3>2, <4>1 DEF Filing
      <4>3. 1 \in 1 .. Len(mine[u]) /\ Mine(u) = Held(u, 1)
        BY <3>2, MineInBufs DEF Inv, StepInv, Busy
      <4>4. QED BY <1>3, <3>1, <3>2, <4>2, <4>3 DEF Once
    <3>3. "COMPLETE" \in BufStates
      BY DEF BufStates
    <3>4. QED BY <1>1, <1>3, <2>1, <3>2, <3>3, OwnFiling
  <2>2. \A i \in Bufs : rxbufstat[i] # "EMPTY" => rxbufstat'[i] # "EMPTY"
    BY <1>1 DEF Inv, TypeOK
  <2>3. \A u \in Threads : pc'[u] = "claim" => pc[u] = "claim"
    BY <1>1 DEF Inv, TypeOK
  <2>4. QED BY <1>1, <2>1, <2>2, <2>3, IndexKept DEF Inv, TypeOK
<1>8. QED BY <1>4, <1>5, <1>6, <1>7 DEF Inv

\* An index given back is held by nobody else.
LEMMA FinishKeepsInv ==
  ASSUME Inv, NEW t \in Threads, Setbufstat(t)
  PROVE  Inv'
<1>. DEFINE n == Len(mine[t])
<1>1. /\ pc[t] = "use"
      /\ pc' = [pc EXCEPT ![t] = IF n > 1 THEN "check" ELSE "idle"]
      /\ rxbufstat' = [rxbufstat EXCEPT ![Mine(t)] = "EMPTY"]
      /\ rxbuf' = [rxbuf EXCEPT ![Mine(t)] = NoAnswer]
      /\ mine' = [mine EXCEPT ![t] = Tail(mine[t])]
      /\ timer' = [timer EXCEPT ![t] = "running"]
      /\ wkc' = [wkc EXCEPT ![t] = EC_NOFRAME]
      /\ UNCHANGED <<setup, lastidx, tempinbuf, mutex, transit, begun, planned, starved, lost,
                     idx, cnt, op, try>>
  BY DEF Setbufstat, Finish, Goto, count, search
<1>2. n > 0 /\ n \in Nat /\ mine[t] \in Seq(Holding) /\ t \in setup.users
  BY <1>1 DEF Inv, TypeOK, StepInv, Busy
<1>3. Mine(t) \in Bufs /\ 1 \in 1 .. n /\ Mine(t) = Held(t, 1)
  BY <1>2, MineInBufs DEF Inv
<1>4. /\ mine' \in [Threads -> Seq(Holding)] /\ Len(mine'[t]) = n - 1
      /\ \A k \in 1 .. n - 1 : mine'[t][k] = mine[t][k + 1]
      /\ \A u \in Threads \ {t} : mine'[u] = mine[u]
  <2>1. /\ Tail(mine[t]) \in Seq(Holding) /\ Len(Tail(mine[t])) = n - 1
        /\ \A k \in 1 .. n - 1 : Tail(mine[t])[k] = mine[t][k + 1]
    BY <1>2
  <2>2. mine'[t] = Tail(mine[t])
    BY <1>1 DEF Inv, TypeOK
  <2>3. mine' \in [Threads -> Seq(Holding)] /\ \A u \in Threads \ {t} : mine'[u] = mine[u]
    BY <1>1, <2>1 DEF Inv, TypeOK
  <2>4. QED BY <2>1, <2>2, <2>3
<1>5. PICK to \in {"check", "idle"} :
        pc' = [pc EXCEPT ![t] = to] /\ (to = "check" => n > 1)
  BY <1>1
<1>6. StepInv' /\ pc' \in [Threads -> Steps]
  <2>1. to = "check" => Len(mine'[t]) > 0
    BY <1>2, <1>4, <1>5
  <2>2. QED BY <1>1, <1>2, <1>4, <1>5, <2>1, StepKept DEF Inv, Steps
<1>7. TypeOK'
  <2>1. NoAnswer \in Answers
    BY DEF NoAnswer, Answers
  <2>2. /\ rxbufstat' \in [Bufs -> BufStates] /\ rxbuf' \in [Bufs -> Answers]
        /\ timer' \in [Threads -> Timers]
        /\ wkc' \in [Threads -> Wkcs \cup {EC_NOFRAME, EC_OTHERFRAME}]
    BY <1>1, <1>3, <2>1 DEF Inv, TypeOK, BufStates, Timers
  <2>3. QED BY <1>1, <1>4, <1>6, <2>2 DEF Inv, TypeOK
<1>8. MutexInv' /\ ReadInv'
  BY <1>1, <1>5, NoMutex, ReadKept DEF Inv
<1>9. IndexInv'
  <2>. SUFFICES ASSUME ~starved' PROVE Marked' /\ Once' /\ Found' /\ Filing'
    BY DEF IndexInv
  <2>1. Marked /\ Once /\ Found /\ ~starved
    BY <1>1 DEF Inv, IndexInv
  <2>2. ASSUME NEW u \in Threads, NEW k \in 1 .. Len(mine'[u])
        PROVE  LET j == IF u = t THEN k + 1 ELSE k
               IN  j \in 1 .. Len(mine[u]) /\ mine'[u][k] = mine[u][j]
    <3>1. CASE u = t
      BY <1>2, <1>4, <2>2, <3>1
    <3>2. CASE u # t
      BY <1>4, <2>2, <3>2
    <3>3. QED BY <3>1, <3>2
  <2>3. Once'
    <3>1. ASSUME NEW u \in Threads, NEW v \in Threads,
                 NEW k \in 1 .. Len(mine'[u]), NEW l \in 1 .. Len(mine'[v]),
                 mine'[u][k].idx = mine'[v][l].idx
          PROVE  u = v /\ k = l
      <4>. DEFINE j == IF u = t THEN k + 1 ELSE k
                  m == IF v = t THEN l + 1 ELSE l
      <4>1. j \in 1 .. Len(mine[u]) /\ mine'[u][k] = mine[u][j]
        BY <2>2
      <4>2. m \in 1 .. Len(mine[v]) /\ mine'[v][l] = mine[v][m]
        BY <2>2
      <4>3. u = v /\ j = m
        BY <2>1, <3>1, <4>1, <4>2 DEF Once, Held
      <4>4. k = l
        BY <4>3
      <4>5. QED BY <4>3, <4>4
    <3>2. QED BY <3>1 DEF Once, Held
  <2>4. Marked'
    <3>1. ASSUME NEW u \in Threads, NEW k \in 1 .. Len(mine'[u])
          PROVE  rxbufstat'[mine'[u][k].idx] # "EMPTY"
      <4>. DEFINE j == IF u = t THEN k + 1 ELSE k
      <4>1. j \in 1 .. Len(mine[u]) /\ mine'[u][k] = mine[u][j]
        BY <2>2
      <4>2. ~(u = t /\ j = 1)
        OBVIOUS
      <4>3. Held(u, j) # Mine(t)
        BY <1>3, <2>1, <4>1, <4>2 DEF Once
      <4>4. Held(u, j) \in Bufs /\ rxbufstat[Held(u, j)] # "EMPTY"
        BY <2>1, <4>1, HeldInBufs DEF Marked, Inv, TypeOK
      <4>5. mine'[u][k].idx = Held(u, j)
        BY <4>1 DEF Held
      <4>6. QED BY <1>1, <4>3, <4>4, <4>5 DEF Inv, TypeOK
    <3>2. QED BY <3>1 DEF Marked, Held
  <2>5. Found'
    <3>1. ASSUME NEW u \in Threads, pc'[u] = "claim", cnt'[u] # EC_MAXBUF,
                 NEW v \in Threads, NEW k \in 1 .. Len(mine'[v])
          PROVE  mine'[v][k].idx # idx'[u]
      <4>1. pc[u] = "claim"
        BY <1>5, <3>1 DEF Inv, TypeOK
      <4>2. ~IsHeld(idx[u]) /\ idx'[u] = idx[u]
        BY <1>1, <2>1, <3>1, <4>1 DEF Found
      <4>3. \E j \in 1 .. Len(mine[v]) : mine'[v][k] = mine[v][j]
        BY <2>2
      <4>4. QED BY <4>2, <4>3 DEF IsHeld, Held
    <3>2. QED BY <3>1 DEF Found, IsHeld, Held
  <2>6. Filing'
    <3>1. "EMPTY" \in BufStates
      BY DEF BufStates
    <3>2. rxbufstat' = [rxbufstat EXCEPT ![Held(t, 1)] = "EMPTY"] /\ 1 \in 1 .. Len(mine[t])
      BY <1>1, <1>3
    <3>3. \A u \in Threads \ {t} : mine'[u] = mine[u] /\ idx'[u] = idx[u]
      BY <1>1, <1>4
    <3>4. pc' = [pc EXCEPT ![t] = to] /\ to \notin {"found", "copy", "mark"}
      BY <1>5
    <3>5. "EMPTY" \notin {"RCVD", "COMPLETE"}
      OBVIOUS
    <3>. HIDE DEF n
    <3>6. QED BY <2>1, <3>1, <3>2, <3>3, <3>4, <3>5, OwnFiling
  <2>7. QED BY <2>3, <2>4, <2>5, <2>6
<1>10. QED BY <1>6, <1>7, <1>8, <1>9 DEF Inv

\* Every step of the specification is one of these.
Step(t) ==
  \/ Begin(t) \/ GetindexTake(t) \/ GetindexScan(t) \/ GetindexClaim(t)
  \/ \E arrives \in BOOLEAN : Outframe(t, arrives)
  \/ InframeCheck(t) \/ InframeTake(t) \/ InframeLock(t) \/ InframeNothing(t)
  \/ InframeRecv(t) \/ InframeMatch(t) \/ InframeStore(t)
  \/ InframeStrange(t) \/ InframeComplete(t) \/ InframeFile(t)
  \/ PollAgain(t) \/ Resend(t) \/ GiveUp(t) \/ Expire(t) \/ Setbufstat(t)

\* No frame is put back on such a port.
LEMMA NextIsStep ==
  ASSUME Disciplined, Inv, Next
  PROVE  \E t \in Threads : Step(t)
<1>1. PICK t \in Threads :
        Begin(t) \/ GetindexTake(t) \/ InframeLock(t) \/ Unblocked(t) \/ Expire(t)
  BY DEF Next
<1>2. ~OutframeRefused(t)
  BY DEF OutframeRefused, Disciplined, Inv, TypeOK
<1>3. ~OutframePutBack(t)
  BY DEF OutframePutBack, Goto, Inv, StepInv
<1>4. QED BY <1>1, <1>2, <1>3 DEF Unblocked, Step

\* Every step keeps the invariant.
LEMMA NextKeepsInv ==
  ASSUME Disciplined, Inv, [Next]_vars
  PROVE  Inv'
<1>1. ASSUME NEW t \in Threads, Step(t)
      PROVE  Inv'
  BY <1>1, BeginKeepsInv, TakeKeepsInv, ScanKeepsInv, ClaimKeepsInv, OutframeKeepsInv,
     PollKeepsInv, RecvKeepsInv, StoreKeepsInv, EndKeepsInv, FoundKeepsInv, QuietKeepsInv,
     FinishKeepsInv DEF Step
<1>2. CASE UNCHANGED vars
  <2>1. UNCHANGED <<setup, lastidx, rxbufstat, rxbuf, tempinbuf, mutex, transit, begun,
                    planned, starved, lost, pc, op, idx, cnt, mine, try, timer, wkc>>
    BY <1>2 DEF vars, port, bufs, count, search, work, wait
  <2>2. TypeOK' /\ StepInv' /\ MutexInv' /\ ReadInv'
    BY <2>1 DEF Inv, TypeOK, StepInv, MutexInv, ReadInv, Busy, Searching, Reading
  <2>3. ASSUME ~starved PROVE Filing'
    BY <2>1, <2>3 DEF Inv, IndexInv, Filing, Mine
  <2>4. IndexInv'
    BY <2>1, <2>3, IndexKept DEF Inv, TypeOK
  <2>5. QED BY <2>2, <2>4 DEF Inv
<1>3. QED BY <1>1, <1>2, NextIsStep

\* The inductive invariant.
THEOREM InvHolds == ASSUME Disciplined PROVE Spec => []Inv
<1>1. Inv /\ [Next]_vars => Inv'
  BY NextKeepsInv
<1>2. QED BY InitInv, <1>1, PTL DEF Spec

\* Indices stay in range, buffers and frames keep their form, and nobody waits
\* without holding an index (ecx_getindex to ecx_setbufstat).
THEOREM TypeCorrect == ASSUME Disciplined PROVE Spec => []TypeOK
<1>1. Inv => TypeOK
  BY DEF Inv
<1>2. QED BY <1>1, InvHolds, PTL

-----------------------------------------------------------------------------
\* A thread in the middle of an exchange holds the index it waits for.
LEMMA HoldsItsIndex ==
  ASSUME Inv, NEW t \in Threads, Busy(t)
  PROVE  /\ t \in Holders(Mine(t))
         /\ t \in Holders(mine[t][Len(mine[t])].idx)
<1>1. mine[t] \in Seq(Holding) /\ Len(mine[t]) > 0
  BY DEF Inv, TypeOK, StepInv
<1>2. 1 \in 1 .. Len(mine[t]) /\ Len(mine[t]) \in 1 .. Len(mine[t]) /\ Head(mine[t]) = mine[t][1]
  BY <1>1
<1>3. QED BY <1>2 DEF Holders, Mine

\* An index has holders when it is held.
LEMMA HeldByHolders == \A i : Holders(i) # {} <=> IsHeld(i)
BY DEF Holders, IsHeld, Held

\* What an owner, or the thread that files its answer, does to a buffer that is RCVD.
EndsRcvd(t, i) ==
  /\ t \in Holders(i) /\ pc[t] \in {"found", "copy", "mark", "send", "use"} /\ pc'[t] # pc[t]

\* The steps that write receive buffers, and the thread that writes one with an answer.
LEMMA WhoWrites ==
  ASSUME Inv, NEW t \in Threads, NEW i \in Bufs, Step(t),
         Holders(i) # {}, ~starved', rxbufstat[i] = "RCVD",
         rxbufstat'[i] # "RCVD" \/ rxbuf'[i] # rxbuf[i]
  PROVE  EndsRcvd(t, i)
<1>1. rxbufstat \in [Bufs -> BufStates] /\ rxbuf \in [Bufs -> Answers] /\ pc \in [Threads -> Steps]
  BY DEF Inv, TypeOK
<1>2. \A from, to : Goto(t, from, to) => pc[t] = from /\ pc'[t] = to
  BY <1>1 DEF Goto
<1>3. CASE \/ Begin(t) \/ GetindexTake(t) \/ InframeLock(t) \/ Expire(t) \/ GetindexScan(t)
           \/ InframeNothing(t) \/ InframeRecv(t) \/ PollAgain(t) \/ Resend(t) \/ GiveUp(t)
           \/ InframeCheck(t) \/ InframeMatch(t) \/ InframeStrange(t)
  <2>1. rxbufstat' = rxbufstat /\ rxbuf' = rxbuf
    BY <1>3 DEF Begin, GetindexTake, InframeLock, Expire, GetindexScan, InframeNothing,
                InframeRecv, PollAgain, Resend, GiveUp, InframeCheck, InframeMatch,
                InframeStrange, port, bufs
  <2>2. QED BY <2>1
<1>4. CASE GetindexClaim(t)
  <2>1. /\ rxbufstat' = [rxbufstat EXCEPT ![idx[t]] = "ALLOC"] /\ rxbuf' = rxbuf
        /\ starved' = (starved \/ (cnt[t] = EC_MAXBUF /\ rxbufstat[idx[t]] # "EMPTY"))
        /\ pc[t] = "claim"
    BY <1>2, <1>4 DEF GetindexClaim, BeginTxn
  <2>2. ~starved /\ ~(cnt[t] = EC_MAXBUF /\ rxbufstat[idx[t]] # "EMPTY")
    BY <2>1
  <2>3. CASE cnt[t] = EC_MAXBUF
    BY <1>1, <2>1, <2>2, <2>3
  <2>4. CASE cnt[t] # EC_MAXBUF
    <3>1. ~IsHeld(idx[t])
      BY <2>1, <2>2, <2>4 DEF Inv, IndexInv, Found
    <3>2. i # idx[t]
      BY <3>1, HeldByHolders
    <3>3. QED BY <1>1, <2>1, <3>2
  <2>5. QED BY <2>3, <2>4
<1>5. ASSUME NEW arrives \in BOOLEAN, Outframe(t, arrives)
      PROVE  EndsRcvd(t, i)
  <2>1. /\ rxbufstat' = [rxbufstat EXCEPT ![mine[t][Len(mine[t])].idx] = "TX"] /\ rxbuf' = rxbuf
        /\ pc[t] = "send" /\ pc'[t] # "send"
    BY <1>2, <1>5 DEF Outframe, AfterSend
  <2>2. i = mine[t][Len(mine[t])].idx
    BY <1>1, <2>1
  <2>3. QED BY <2>1, <2>2, HoldsItsIndex DEF Busy, EndsRcvd
<1>6. CASE InframeTake(t) \/ InframeComplete(t)
  <2>1. /\ rxbufstat' = [rxbufstat EXCEPT ![Mine(t)] = "COMPLETE"] /\ rxbuf' = rxbuf
        /\ pc[t] \in {"found", "mark"} /\ pc'[t] = "use"
    BY <1>2, <1>6 DEF InframeTake, InframeComplete
  <2>2. i = Mine(t)
    BY <1>1, <2>1
  <2>3. QED BY <2>1, <2>2, HoldsItsIndex DEF Busy, EndsRcvd
<1>7. CASE InframeStore(t)
  <2>1. /\ rxbuf' = [rxbuf EXCEPT ![idx[t]] = tempinbuf.answer] /\ rxbufstat' = rxbufstat
        /\ pc[t] = "copy" /\ pc'[t] = "mark" /\ ~starved
    BY <1>2, <1>7 DEF InframeStore, count
  <2>2. i = idx[t]
    BY <1>1, <2>1
  <2>3. i = Mine(t)
    BY <2>1, <2>2 DEF Inv, IndexInv, Filing
  <2>4. QED BY <2>1, <2>3, HoldsItsIndex DEF Busy, EndsRcvd
<1>8. CASE InframeFile(t)
  <2>1. rxbufstat' = [rxbufstat EXCEPT ![idx[t]] = "RCVD"] /\ rxbuf' = rxbuf
    BY <1>8 DEF InframeFile
  <2>2. QED BY <1>1, <2>1
<1>9. CASE Setbufstat(t)
  <2>1. /\ rxbufstat' = [rxbufstat EXCEPT ![Mine(t)] = "EMPTY"]
        /\ rxbuf' = [rxbuf EXCEPT ![Mine(t)] = NoAnswer]
        /\ pc[t] = "use" /\ pc'[t] # "use"
    BY <1>2, <1>9 DEF Setbufstat, Finish
  <2>2. i = Mine(t)
    BY <1>1, <2>1
  <2>3. QED BY <2>1, <2>2, HoldsItsIndex DEF Busy, EndsRcvd
<1>10. QED BY <1>3, <1>4, <1>5, <1>6, <1>7, <1>8, <1>9 DEF Step

\* With working locks an answer that one thread filed for another stays until its owner
\* takes the next step with that index, as long as no index is taken by force: neither a
\* thread that files a frame it found somebody waiting for a while ago (ecx_inframe), nor
\* one that takes an index, overwrites it.
THEOREM AnswersStay == ASSUME Disciplined PROVE Spec => ReceivedStays
<1>1. ASSUME Inv, Next, NEW i \in Bufs, Holders(i) # {}, ~starved', rxbufstat[i] = "RCVD",
             rxbufstat'[i] # "RCVD" \/ rxbuf'[i] # rxbuf[i]
      PROVE  \E t \in Holders(i) : /\ pc[t] \in {"found", "copy", "mark", "send", "use"}
                                   /\ pc'[t] # pc[t]
  <2>1. PICK t \in Threads : Step(t)
    BY <1>1, NextIsStep
  <2>2. EndsRcvd(t, i)
    BY <1>1, <2>1, WhoWrites
  <2>3. QED BY <2>2 DEF EndsRcvd
<1>2. Inv /\ [Next]_vars =>
        [\A i \in Bufs :
           /\ Holders(i) # {} /\ ~starved' /\ rxbufstat[i] = "RCVD"
           /\ rxbufstat'[i] # "RCVD" \/ rxbuf'[i] # rxbuf[i]
         => \E t \in Holders(i) : /\ pc[t] \in {"found", "copy", "mark", "send", "use"}
                                  /\ pc'[t] # pc[t]]_vars
  BY <1>1
<1>3. QED BY <1>2, InvHolds, PTL DEF Spec, ReceivedStays

-----------------------------------------------------------------------------
(***************************************************************************)
(* The answers.  The search for an index starts behind the one found last  *)
(* and passes only those in use, so that an index comes round again after  *)
(* as many searches as there are buffers, less those in use meanwhile: one *)
(* for each Slot, and those that are lost.  A frame may come until Lag     *)
(* newer transactions have begun; the thread that reads it may be slow, but *)
(* keeps rx_mutex, so that until it has filed the frame each other slot    *)
(* can take one new transaction, and none of these can end.                *)
(***************************************************************************)

\* The transactions that may begin before a frame has gone and been filed.
Reach == Lag + Cardinality(Slots) - 1

\* The buffers that may be in use while a thread looks for one.
Spare == Cardinality(Slots) - 1 + Cardinality(lost)

Used(i) == rxbufstat[i] # "EMPTY"

\* Steps from index i on to index j, round the buffers; the buffers in use so far away.
Dist(i, j) == IF j >= i THEN j - i ELSE j - i + EC_MAXBUF
Beyond(i, x) == {j \in Bufs : Used(j) /\ Dist(i, j) >= x}
Wrap(x) == IF x >= EC_MAXBUF THEN x - EC_MAXBUF ELSE x

\* Transaction m has index i still, or a frame of it may come, or is being read.
Live(i, m) ==
  \/ \E f \in transit : f.idx = i /\ f.txn = m
  \/ \E r \in Threads : Reading(r) /\ tempinbuf.idx = i /\ tempinbuf.answer.txn = m
  \/ \E t \in Threads : \E k \in 1 .. Len(mine[t]) : Held(t, k) = i /\ mine[t][k].txn = m

\* Every buffer in use is in a slot or lost; a thread that looks for one has a slot free.
SlotInv ==
  /\ \A i \in Bufs : Used(i) => i \in lost \/ IsHeld(i)
  /\ \A i \in lost : Used(i) /\ ~IsHeld(i)
  /\ \A t \in Threads :
       /\ Len(mine[t]) <= Batch(op[t])
       /\ pc[t] \in {"take", "scan", "claim"} => Len(mine[t]) < Batch(op[t])
       /\ pc[t] = "idle" => Len(mine[t]) = 0
       /\ op[t] = "processdata" => t \in setup.cyclic

\* Transaction x waits for an answer while thread r reads: somebody else has it, in a
\* buffer nothing was filed in, and has not come further than the wait for rx_mutex.
Waits(x, r) ==
  \E u \in Threads \ {r} : \E k \in 1 .. Len(mine[u]) :
    /\ mine[u][k].txn = x
    /\ rxbufstat[Held(u, k)] # "RCVD"
    /\ k = 1 => pc[u] \in {"take", "scan", "claim", "send", "check", "lock"}

\* Frames under way are recent; what has begun since the one just read was, waits.
OverlapInv ==
  /\ \A f \in transit : f.txn + Lag > begun
  /\ \A r \in Threads, x \in Txns :
       Reading(r) /\ tempinbuf.answer.txn + Lag <= x /\ x <= begun => Waits(x, r)

\* A search has passed cnt buffers, all in use when it looked, and ends at a free one.
SearchInv ==
  /\ ~starved
  /\ \A t \in Threads : Searching(t) =>
       /\ idx[t] = Wrap(lastidx + 1 + cnt[t])
       /\ cnt[t] + Cardinality(Beyond(NextIdx(lastidx), cnt[t])) <= Spare
       /\ pc[t] = "claim" => ~Used(idx[t])

\* Since m took i the searches went no further round than they began transactions, but
\* for buffers in use since before; c counts those that a search has passed so far.
Room(i, m, c) ==
  Dist(i, lastidx) + c + Cardinality(Beyond(i, Dist(i, lastidx) + c + 1)) <= begun - m + Spare

RoomInv ==
  \A i \in Bufs, m \in Txns : Live(i, m) =>
    /\ m + Reach > begun => Room(i, m, 0)
    /\ m + Reach > begun + 1 => \A t \in Threads : Searching(t) => Room(i, m, cnt[t])

\* An index that a late frame may carry belongs to the same transaction or to none.
OwnInv ==
  \A i \in Bufs, m \in Txns : Live(i, m) =>
    \A t \in Threads : \A k \in 1 .. Len(mine[t]) : Held(t, k) = i => mine[t][k].txn = m

\* What is filed, or about to be, under an index answers the frame of who holds it.
FiledInv ==
  /\ \A t \in Threads : \A k \in 1 .. Len(mine[t]) :
       rxbufstat[Held(t, k)] = "RCVD" => rxbuf[Held(t, k)].txn = mine[t][k].txn
  /\ \A t \in Threads : pc[t] = "mark" /\ IsHeld(idx[t]) => rxbuf[idx[t]] = tempinbuf.answer
  /\ \A t \in Threads : pc[t] = "test" => wkc[t] \in {EC_NOFRAME, EC_OTHERFRAME}
  /\ \A t \in Threads : pc[t] = "use" /\ wkc[t] > EC_NOFRAME =>
       /\ rxbufstat[Mine(t)] = "COMPLETE"
       /\ rxbuf[Mine(t)].txn = Head(mine[t]).txn /\ rxbuf[Mine(t)].wkc = wkc[t]

AnswerInv == SlotInv /\ OverlapInv /\ SearchInv /\ RoomInv /\ OwnInv /\ FiledInv

-----------------------------------------------------------------------------
\* What the assumptions say of the buffers and the bounds.
LEMMA BufFacts ==
  /\ EC_MAXBUF \in Nat /\ EC_MAXBUF > 0
  /\ \A i \in Bufs : i \in Nat /\ i < EC_MAXBUF
  /\ \A i \in Nat : i < EC_MAXBUF => i \in Bufs
  /\ BatchSize \in Nat /\ BatchSize > 0 /\ Lag \in Nat /\ Lag > 0
BY BufAssumption, BatchAssumption, BoundsAssumption DEF Bufs

\* The buffers in use are finitely many.
LEMMA BeyondFinite ==
  ASSUME NEW i, NEW x
  PROVE  IsFiniteSet(Beyond(i, x)) /\ Cardinality(Beyond(i, x)) \in Nat
<1>1. IsFiniteSet(Bufs) BY FS_Interval, BufFacts DEF Bufs
<1>2. Beyond(i, x) \in SUBSET Bufs BY DEF Beyond
<1>3. IsFiniteSet(Beyond(i, x)) BY <1>1, <1>2, FS_Subset
<1> QED BY <1>3, FS_CardinalityType

\* A search goes on past a buffer in use.
LEMMA BeyondNext ==
  ASSUME NEW i \in Bufs, NEW j \in Bufs, Used(j)
  PROVE  Cardinality(Beyond(i, Dist(i, j) + 1)) = Cardinality(Beyond(i, Dist(i, j))) - 1
<1> DEFINE x == Dist(i, j)
<1>1. x \in Int /\ \A k \in Bufs : Dist(i, k) \in Int /\ (Dist(i, k) = x => k = j)
  BY BufFacts DEF Dist
<1>2. \A k \in Bufs : Dist(i, k) >= x + 1 <=> Dist(i, k) >= x /\ k # j BY <1>1
<1>3. Beyond(i, x + 1) = Beyond(i, x) \ {j} BY <1>2 DEF Beyond
<1>4. j \in Beyond(i, x) BY <1>1 DEF Beyond
<1>5. Cardinality(Beyond(i, x) \ {j}) = Cardinality(Beyond(i, x)) - 1
  <2> HIDE DEF x
  <2> QED BY <1>4, BeyondFinite, FS_RemoveElement
<1> QED BY <1>3, <1>5

\* Where no buffer comes into use there are no more in use.
LEMMA BeyondLess ==
  ASSUME NEW i, NEW x, NEW y, Beyond(i, y)' \subseteq Beyond(i, x)
  PROVE  /\ Cardinality(Beyond(i, y)') <= Cardinality(Beyond(i, x))
         /\ Cardinality(Beyond(i, y)') \in Nat
<1>1. IsFiniteSet(Beyond(i, x)) BY BeyondFinite
<1>2. Beyond(i, y)' \in SUBSET Beyond(i, x) OBVIOUS
<1>3. IsFiniteSet(Beyond(i, y)') BY <1>1, <1>2, FS_Subset
<1> QED BY <1>1, <1>2, <1>3, FS_Subset, FS_CardinalityType

\* The slots are finitely many.
LEMMA SlotsFinite ==
  ASSUME setup \in Setups
  PROVE  IsFiniteSet(Slots) /\ Cardinality(Slots) \in Nat
<1>1. setup.users \in SUBSET Threads /\ IsFiniteSet(Threads) BY SetupTypes, ThreadAssumption
<1>2. IsFiniteSet(setup.users) BY <1>1, FS_Subset
<1>3. IsFiniteSet(1 .. BatchSize) BY FS_Interval, BufFacts
<1>4. IsFiniteSet(setup.users \X (1 .. BatchSize)) BY <1>2, <1>3, FS_Product
<1>5. Slots \in SUBSET (setup.users \X (1 .. BatchSize)) BY DEF Slots
<1>6. IsFiniteSet(Slots) BY <1>4, <1>5, FS_Subset
<1> QED BY <1>6, FS_CardinalityType

\* So are the buffers lost for good.
LEMMA LostFinite ==
  ASSUME NEW S, S \subseteq Bufs
  PROVE  IsFiniteSet(S) /\ Cardinality(S) \in Nat
<1>1. IsFiniteSet(Bufs) BY FS_Interval, BufFacts DEF Bufs
<1>2. S \in SUBSET Bufs OBVIOUS
<1>3. IsFiniteSet(S) BY <1>1, <1>2, FS_Subset
<1> QED BY <1>3, FS_CardinalityType

\* Enough, in the words of RoomInv: the searches cannot come round.
LEMMA EnoughMeans ==
  ASSUME TypeOK, Enough
  PROVE  Spare \in Int /\ Reach \in Int /\ Spare + Reach <= EC_MAXBUF
<1>1. Cardinality(Slots) \in Nat BY SlotsFinite DEF TypeOK
<1>2. Cardinality(lost) \in Nat BY LostFinite DEF TypeOK
<1> QED BY <1>1, <1>2, BufFacts DEF Enough, Spare, Reach

\* What a thread holds is in a slot, and so is what it looks for.
LEMMA InSlots ==
  ASSUME Inv, SlotInv, NEW t \in Threads
  PROVE  /\ \A k \in 1 .. Len(mine[t]) : <<t, k>> \in Slots
         /\ pc[t] \in {"take", "scan", "claim"} => <<t, Len(mine[t]) + 1>> \in Slots
         /\ pc[t] # "idle" => <<t, 1>> \in Slots
<1>1. Len(mine[t]) \in Nat
  BY DEF Inv, TypeOK
<1>2. ASSUME NEW k \in 1 .. Batch(op[t]), t \in setup.users
      PROVE  <<t, k>> \in Slots
  <2>1. Batch(op[t]) \in 1 .. BatchSize /\ (Batch(op[t]) = 1 \/ op[t] = "processdata")
    BY BufFacts DEF Batch, Inv, TypeOK, Ops
  <2>2. k \in 1 .. BatchSize /\ (k = 1 \/ t \in setup.cyclic)
    BY <1>2, <2>1, BufFacts DEF SlotInv
  <2> QED BY <1>2, <2>2 DEF Slots
<1>3. pc[t] # "idle" => t \in setup.users BY DEF Inv, StepInv
<1>4. Batch(op[t]) \in Nat /\ Batch(op[t]) > 0 BY BufFacts DEF Batch
<1>5. Len(mine[t]) <= Batch(op[t]) BY DEF SlotInv
<1>6. ASSUME NEW k \in 1 .. Len(mine[t]) PROVE <<t, k>> \in Slots
  <2>1. Len(mine[t]) > 0 BY <1>1, <1>6
  <2>2. pc[t] # "idle" BY <2>1 DEF SlotInv
  <2>3. k \in 1 .. Batch(op[t]) BY <1>1, <1>4, <1>5, <1>6
  <2> QED BY <1>2, <1>3, <2>2, <2>3
<1>7. ASSUME pc[t] \in {"take", "scan", "claim"} PROVE <<t, Len(mine[t]) + 1>> \in Slots
  <2>1. Len(mine[t]) < Batch(op[t]) BY <1>7 DEF SlotInv
  <2>2. Len(mine[t]) + 1 \in 1 .. Batch(op[t]) BY <1>1, <1>4, <2>1
  <2> QED BY <1>2, <1>3, <1>7, <2>2
<1>8. ASSUME pc[t] # "idle" PROVE <<t, 1>> \in Slots
  <2>1. 1 \in 1 .. Batch(op[t]) BY <1>4
  <2> QED BY <1>2, <1>3, <1>8, <2>1
<1> QED BY <1>6, <1>7, <1>8

\* While a thread looks for a buffer, one slot at least holds none.
LEMMA SlotsBound ==
  ASSUME Inv, SlotInv, NEW t \in Threads, pc[t] \in {"take", "scan", "claim"}
  PROVE  LET U == {i \in Bufs : Used(i)} IN IsFiniteSet(U) /\ Cardinality(U) <= Spare
<1> DEFINE U == {i \in Bufs : Used(i)}
           H == {i \in Bufs : IsHeld(i)}
           free == <<t, Len(mine[t]) + 1>>
           Taking == Slots \ {free}
           Holds(i, p) == p[1] \in Threads /\ p[2] \in 1 .. Len(mine[p[1]]) /\ Held(p[1], p[2]) = i
           f == [i \in H |-> CHOOSE p \in Taking : Holds(i, p)]
<1>1. \A u \in Threads : Len(mine[u]) \in Nat
  BY DEF Inv, TypeOK
<1>2. free \in Slots BY InSlots
<1>3. ASSUME NEW i \in H PROVE \E p \in Taking : Holds(i, p)
  <2>1. PICK u \in Threads : \E k \in 1 .. Len(mine[u]) : Held(u, k) = i
    BY <1>3 DEF IsHeld
  <2>2. PICK k \in 1 .. Len(mine[u]) : Held(u, k) = i BY <2>1
  <2>3. <<u, k>> \in Slots BY <2>2, InSlots
  <2>4. <<u, k>> # free BY <1>1, <2>2
  <2>5. Holds(i, <<u, k>>) BY <2>2
  <2> QED BY <2>3, <2>4, <2>5
<1>4. \A i \in H : f[i] \in Taking /\ Holds(i, f[i]) BY <1>3
<1>5. f \in Injection(H, Taking)
  <2>1. f \in [H -> Taking] BY <1>4
  <2>2. \A i, j \in H : f[i] = f[j] => i = j BY <1>4
  <2> HIDE DEF f, H, Taking
  <2> QED BY <2>1, <2>2 DEF Injection, IsInjective
<1>6. IsFiniteSet(Slots) /\ Cardinality(Slots) \in Nat BY SlotsFinite DEF Inv, TypeOK
<1>7. IsFiniteSet(Taking) /\ Cardinality(Taking) = Cardinality(Slots) - 1
  BY <1>2, <1>6, FS_RemoveElement
<1>8. U \in SUBSET (H \cup lost) BY DEF SlotInv
<1>9. IsFiniteSet(lost) /\ Cardinality(lost) \in Nat BY LostFinite DEF Inv, TypeOK
<1>10. Cardinality(H \cap lost) \in Nat
  <2>1. H \cap lost \subseteq Bufs OBVIOUS
  <2> QED BY <2>1, LostFinite
<1> HIDE DEF f, U, H, Taking, free
<1>11. IsFiniteSet(H) /\ Cardinality(H) <= Cardinality(Taking) /\ Cardinality(H) \in Nat
  BY <1>5, <1>7, FS_Injection, FS_CardinalityType
<1>12. IsFiniteSet(H \cup lost)
       /\ Cardinality(H \cup lost) = Cardinality(H) + Cardinality(lost) - Cardinality(H \cap lost)
  BY <1>9, <1>11, FS_Union
<1>13. IsFiniteSet(U) /\ Cardinality(U) <= Cardinality(H \cup lost) /\ Cardinality(U) \in Nat
  BY <1>8, <1>12, FS_Subset, FS_CardinalityType
<1>14. Cardinality(U) <= Spare
  BY <1>6, <1>7, <1>9, <1>10, <1>11, <1>12, <1>13 DEF Spare
<1> QED BY <1>13, <1>14 DEF U

\* A frame being read is no further behind than the slots of the other threads reach, and
\* the thread that looks for an index has one of these free.
LEMMA OverlapBound ==
  ASSUME Inv, SlotInv, OverlapInv, NEW r \in Threads, Reading(r)
  PROVE  /\ tempinbuf.answer.txn + Reach > begun
         /\ \A t \in Threads : Searching(t) => tempinbuf.answer.txn + Reach > begun + 1
<1>1. PICK x0 \in Txns : x0 = tempinbuf.answer.txn BY DEF Inv, ReadInv
<1>2. begun \in Nat /\ x0 \in Nat /\ x0 > 0 BY DEF Inv, TypeOK, Txns
<1>3. IsFiniteSet(Slots) /\ Cardinality(Slots) \in Nat BY SlotsFinite DEF Inv, TypeOK
<1>4. PICK reader \in Slots : reader = <<r, 1>> BY InSlots DEF Reading
<1>5. IsFiniteSet(Slots \ {reader}) /\ Cardinality(Slots \ {reader}) = Cardinality(Slots) - 1
  BY <1>3, <1>4, FS_RemoveElement
<1>6. Cardinality(Slots \ {reader}) \in Nat BY <1>5, FS_CardinalityType
<1> DEFINE X == (x0 + Lag) .. begun
<1>7. x0 + Lag \in Int BY <1>2, BufFacts
<1>8. Cardinality(X) = IF x0 + Lag > begun THEN 0 ELSE begun - (x0 + Lag) + 1
  BY <1>2, <1>7, FS_Interval
\* Each of these transactions has a slot of its own.
<1>9. ASSUME NEW T, T \subseteq Slots \ {reader},
             \A u \in Threads \ {r} : \A k \in 1 .. Len(mine[u]) : <<u, k>> \in T
      PROVE  Cardinality(X) <= Cardinality(T)
  <2> DEFINE Has(x, p) == /\ p[1] \in Threads /\ p[2] \in 1 .. Len(mine[p[1]])
                          /\ mine[p[1]][p[2]].txn = x
             f == [x \in X |-> CHOOSE p \in T : Has(x, p)]
  <2>1. ASSUME NEW x \in X PROVE \E p \in T : Has(x, p)
    <3>1. x \in Txns /\ tempinbuf.answer.txn + Lag <= x /\ x <= begun
      BY <1>1, <1>2, BufFacts DEF Txns
    <3>2. Waits(x, r) BY <3>1 DEF OverlapInv
    <3>3. PICK u \in Threads \ {r} : \E k \in 1 .. Len(mine[u]) : mine[u][k].txn = x
      BY <3>2 DEF Waits
    <3>4. PICK k \in 1 .. Len(mine[u]) : mine[u][k].txn = x BY <3>3
    <3>5. Has(x, <<u, k>>) /\ <<u, k>> \in T BY <1>9, <3>3, <3>4
    <3> QED BY <3>5
  <2>2. \A x \in X : f[x] \in T /\ Has(x, f[x]) BY <2>1
  <2>3. f \in Injection(X, T)
    <3>1. f \in [X -> T] BY <2>2
    <3>2. \A x, y \in X : f[x] = f[y] => x = y BY <2>2
    <3> HIDE DEF f, X
    <3> QED BY <3>1, <3>2 DEF Injection, IsInjective
  <2>4. IsFiniteSet(T)
    <3>1. T \in SUBSET (Slots \ {reader}) BY <1>9
    <3> QED BY <1>5, <3>1, FS_Subset
  <2> HIDE DEF f, X
  <2> QED BY <2>3, <2>4, FS_Injection
<1>10. ASSUME NEW u \in Threads \ {r}, NEW k \in 1 .. Len(mine[u])
       PROVE  <<u, k>> \in Slots \ {reader}
  BY <1>4, InSlots
<1>11. tempinbuf.answer.txn + Reach > begun
  <2>1. Cardinality(X) <= Cardinality(Slots) - 1 BY <1>5, <1>9, <1>10
  <2> QED BY <1>1, <1>2, <1>3, <1>5, <1>6, <1>8, <2>1, BufFacts DEF Reach
<1>12. ASSUME NEW t \in Threads, Searching(t)
       PROVE  tempinbuf.answer.txn + Reach > begun + 1
  <2>1. t # r BY <1>12 DEF Searching, Reading
  <2>2. PICK free \in Slots : free = <<t, Len(mine[t]) + 1>> BY <1>12, InSlots DEF Searching
  <2>3. free \in Slots \ {reader} BY <1>4, <2>1, <2>2
  <2> DEFINE T == (Slots \ {reader}) \ {free}
  <2>4. IsFiniteSet(T) /\ Cardinality(T) = Cardinality(Slots) - 2
    <3>1. PICK S : S = Slots \ {reader} OBVIOUS
    <3>2. IsFiniteSet(S) /\ Cardinality(S) = Cardinality(Slots) - 1 /\ free \in S
      BY <1>5, <2>3, <3>1
    <3>3. IsFiniteSet(S \ {free}) /\ Cardinality(S \ {free}) = Cardinality(S) - 1
      BY <3>2, FS_RemoveElement
    <3> QED BY <1>3, <3>1, <3>2, <3>3
  <2>5. Cardinality(T) \in Nat BY <2>4, FS_CardinalityType
  <2>6. ASSUME NEW u \in Threads \ {r}, NEW k \in 1 .. Len(mine[u]) PROVE <<u, k>> \in T
    <3>1. <<u, k>> # free
      <4>1. Len(mine[t]) \in Nat BY DEF Inv, TypeOK
      <4> QED BY <2>2, <4>1
    <3> QED BY <1>10, <3>1
  <2>7. Cardinality(X) <= Cardinality(T) BY <1>9, <2>6
  <2> HIDE DEF T
  <2> QED BY <1>1, <1>2, <1>3, <1>8, <2>4, <2>5, <2>7, BufFacts DEF Reach
<1> QED BY <1>11, <1>12

-----------------------------------------------------------------------------
\* A step of one thread leaves the others where they are.
LEMMA StepFrame ==
  ASSUME Inv, NEW t \in Threads, Step(t)
  PROVE  /\ setup' = setup
         /\ \A u \in Threads \ {t} :
              /\ pc'[u] = pc[u] /\ op'[u] = op[u] /\ wkc'[u] = wkc[u]
              /\ mine'[u] = mine[u] /\ idx'[u] = idx[u] /\ cnt'[u] = cnt[u]
<1> DEFINE Same(f) == \A u \in Threads \ {t} : f'[u] = f[u]
<1> USE DEF Goto, port, bufs, count, search, work, wait
<1>1. \A from, to : Goto(t, from, to) => Same(pc) BY DEF Inv, TypeOK
<1>2. /\ pc \in [Threads -> Steps] /\ op \in [Threads -> Ops] /\ idx \in [Threads -> Bufs]
      /\ cnt \in [Threads -> 0 .. EC_MAXBUF] /\ mine \in [Threads -> Seq(Holding)]
      /\ wkc \in [Threads -> Wkcs \cup {EC_NOFRAME, EC_OTHERFRAME}]
  BY DEF Inv, TypeOK
<1>3. CASE Begin(t)
  <2>1. /\ setup' = setup /\ UNCHANGED <<idx, cnt, wkc>> /\ mine' = [mine EXCEPT ![t] = <<>>]
        /\ pc' = [pc EXCEPT ![t] = "take"] /\ \E o : op' = [op EXCEPT ![t] = o]
    BY <1>3 DEF Begin
  <2> QED BY <1>2, <2>1
<1>4. CASE GetindexTake(t) BY <1>1, <1>2, <1>4 DEF GetindexTake
<1>5. CASE GetindexScan(t) BY <1>2, <1>5 DEF GetindexScan
<1>6. CASE GetindexClaim(t)
  <2>1. /\ setup' = setup /\ UNCHANGED <<op, wkc>> /\ \E s : mine' = [mine EXCEPT ![t] = s]
        /\ idx' = [idx EXCEPT ![t] = 0] /\ cnt' = [cnt EXCEPT ![t] = 0] /\ Same(pc)
    BY <1>1, <1>6 DEF GetindexClaim, BeginTxn
  <2> QED BY <1>2, <2>1
<1>7. ASSUME NEW arrives \in BOOLEAN, Outframe(t, arrives)
      PROVE  setup' = setup /\ Same(pc) /\ UNCHANGED <<op, wkc, mine, idx, cnt>>
  <2>1. Goto(t, "send", AfterSend(t)) BY <1>7 DEF Outframe
  <2> QED BY <1>1, <1>7, <2>1 DEF Outframe
<1>8. CASE InframeCheck(t)
  <2>1. Same(pc) BY <1>1, <1>8 DEF InframeCheck
  <2> QED BY <1>8, <2>1 DEF InframeCheck
<1>9. CASE InframeTake(t) BY <1>2, <1>9 DEF InframeTake
<1>10. CASE \/ InframeLock(t) \/ InframeNothing(t) \/ InframeRecv(t)
            \/ InframeMatch(t) \/ InframeStore(t)
  BY <1>2, <1>10 DEF InframeLock, InframeNothing, InframeRecv, InframeMatch, InframeStore
<1>11. CASE InframeStrange(t) \/ InframeComplete(t) \/ InframeFile(t)
  <2>1. /\ setup' = setup /\ UNCHANGED <<op, mine, cnt>> /\ idx' = [idx EXCEPT ![t] = 0]
        /\ \E v : wkc' = [wkc EXCEPT ![t] = v]
    BY <1>11 DEF InframeStrange, InframeComplete, InframeFile, EndRead
  <2>2. Same(pc) BY <1>1, <1>11 DEF InframeStrange, InframeComplete, InframeFile
  <2> QED BY <1>2, <2>1, <2>2
<1>12. CASE PollAgain(t) \/ Resend(t) \/ GiveUp(t) \/ Expire(t)
  BY <1>2, <1>12 DEF PollAgain, Resend, GiveUp, Expire
<1>13. CASE Setbufstat(t)
  <2>1. /\ setup' = setup /\ UNCHANGED <<op, idx, cnt>> /\ \E s : mine' = [mine EXCEPT ![t] = s]
        /\ wkc' = [wkc EXCEPT ![t] = EC_NOFRAME]
    BY <1>13 DEF Setbufstat, Finish
  <2>2. Same(pc) BY <1>1, <1>13 DEF Setbufstat, Finish
  <2> QED BY <1>2, <2>1, <2>2
<1> QED BY <1>3, <1>4, <1>5, <1>6, <1>7, <1>8, <1>9, <1>10, <1>11, <1>12, <1>13 DEF Step

\* Nobody else gets rx_mutex while a thread reads.
LEMMA LockWaits ==
  ASSUME Disciplined, Inv, NEW r \in Threads, Reading(r), NEW t \in Threads, InframeLock(t)
  PROVE  FALSE
<1>1. pc[t] = "lock" /\ Lock(t, "rx_mutex") BY DEF InframeLock, Goto
<1>2. t # r BY <1>1 DEF Reading
<1>3. CASE setup.port = rtk
  <2>1. mutex["rx_mutex"].owner = r BY <1>3 DEF Inv, MutexInv
  <2>2. ~Free(t, "rx_mutex") BY <1>2, <2>1, ThreadAssumption DEF Free
  <2>3. setup.port.patience # "10 ticks" BY <1>3, SetupTypes DEF Inv, TypeOK
  <2> QED BY <1>1, <2>2, <2>3 DEF Lock
<1>4. CASE setup.port # rtk
  <2>1. t \in setup.users /\ r \in setup.users /\ setup \in Setups
    BY <1>1 DEF Inv, TypeOK, StepInv, Reading
  <2> QED BY <1>2, <1>4, <2>1 DEF Disciplined
<1> QED BY <1>3, <1>4

\* The frame in tempinbuf stays as long as its thread reads.
LEMMA FrameStays ==
  ASSUME Disciplined, Inv, NEW t \in Threads, Step(t), ~InframeRecv(t),
         NEW r \in Threads, Reading(r)'
  PROVE  Reading(r) /\ tempinbuf' = tempinbuf
<1> USE DEF Goto, port, bufs, count, search, work, wait
<1>1. Reading(r)
  <2>1. CASE r # t BY <2>1, StepFrame DEF Reading
  <2>2. CASE r = t
    <3>1. pc'[t] \in {"match", "copy", "mark"} /\ pc \in [Threads -> Steps]
      BY <2>2 DEF Reading, Inv, TypeOK
    <3>2. ASSUME NEW arrives \in BOOLEAN, Outframe(t, arrives)
          PROVE  pc[t] \in {"match", "copy", "mark"}
      BY <3>1, <3>2 DEF Outframe, AfterSend
    <3>3. CASE \/ Begin(t) \/ GetindexTake(t) \/ GetindexScan(t) \/ GetindexClaim(t)
               \/ InframeCheck(t) \/ InframeTake(t) \/ InframeLock(t) \/ InframeNothing(t)
      BY <3>1, <3>3 DEF Begin, GetindexTake, GetindexScan, GetindexClaim, BeginTxn, InframeCheck,
                        InframeTake, InframeLock, InframeNothing
    <3>4. CASE InframeMatch(t) \/ InframeStore(t)
      BY <2>2, <3>4 DEF InframeMatch, InframeStore, Reading
    <3>5. CASE InframeStrange(t) \/ InframeComplete(t) \/ InframeFile(t)
      <4>1. pc'[t] \in {"test", "use"}
        BY <3>1, <3>5 DEF InframeStrange, InframeComplete, InframeFile
      <4> QED BY <3>1, <4>1
    <3>6. CASE PollAgain(t) \/ Resend(t) \/ GiveUp(t) \/ Expire(t)
      BY <3>1, <3>6 DEF PollAgain, Resend, GiveUp, Expire
    <3>7. CASE Setbufstat(t)
      BY <3>1, <3>7 DEF Setbufstat, Finish
    <3> QED BY <2>2, <3>2, <3>3, <3>4, <3>5, <3>6, <3>7 DEF Step, Reading
  <2> QED BY <2>1, <2>2
<1>2. ASSUME InframeStrange(t) \/ InframeComplete(t) \/ InframeFile(t) PROVE FALSE
  <2>1. Reading(t) /\ pc'[t] \in {"test", "use"}
    BY <1>2 DEF InframeStrange, InframeComplete, InframeFile, Reading, Inv, TypeOK
  <2>2. r = t BY <1>1, <2>1, OneReader
  <2> QED BY <2>1, <2>2 DEF Reading
<1>3. tempinbuf' = tempinbuf
  <2>1. ASSUME NEW arrives \in BOOLEAN, Outframe(t, arrives) PROVE tempinbuf' = tempinbuf
    BY <2>1 DEF Outframe
  <2>2. CASE \/ Begin(t) \/ GetindexTake(t) \/ GetindexScan(t) \/ GetindexClaim(t)
             \/ InframeCheck(t) \/ InframeTake(t) \/ InframeLock(t) \/ InframeNothing(t)
             \/ InframeMatch(t) \/ InframeStore(t) \/ PollAgain(t) \/ Resend(t) \/ GiveUp(t)
             \/ Expire(t) \/ Setbufstat(t)
    BY <2>2 DEF Begin, GetindexTake, GetindexScan, GetindexClaim, BeginTxn, InframeCheck,
                InframeTake, InframeLock, InframeNothing, InframeMatch, InframeStore, PollAgain,
                Resend, GiveUp, Expire, Setbufstat, Finish
  <2> QED BY <1>2, <2>1, <2>2 DEF Step
<1> QED BY <1>1, <1>3

\* Only the thread that reads marks a buffer RCVD.
LEMMA WhoFiles ==
  ASSUME Inv, NEW t \in Threads, Step(t), NEW i \in Bufs,
         rxbufstat[i] # "RCVD", rxbufstat'[i] = "RCVD"
  PROVE  InframeFile(t)
<1> USE DEF port, bufs
<1>1. rxbufstat \in [Bufs -> BufStates] BY DEF Inv, TypeOK
<1>2. ASSUME NEW arrives \in BOOLEAN, Outframe(t, arrives) PROVE FALSE
  BY <1>1, <1>2 DEF Outframe
<1>3. CASE \/ Begin(t) \/ GetindexTake(t) \/ GetindexScan(t) \/ InframeCheck(t)
           \/ InframeLock(t) \/ InframeNothing(t) \/ InframeRecv(t) \/ InframeMatch(t)
           \/ InframeStore(t) \/ InframeStrange(t) \/ PollAgain(t) \/ Resend(t) \/ GiveUp(t)
           \/ Expire(t)
  BY <1>3 DEF Begin, GetindexTake, GetindexScan, InframeCheck, InframeLock, InframeNothing,
              InframeRecv, InframeMatch, InframeStore, InframeStrange, PollAgain, Resend, GiveUp,
              Expire
<1>4. CASE InframeTake(t) \/ InframeComplete(t) \/ Setbufstat(t) \/ GetindexClaim(t)
  BY <1>1, <1>4 DEF InframeTake, InframeComplete, Setbufstat, GetindexClaim
<1> QED BY <1>2, <1>3, <1>4 DEF Step

\* What waits while r reads goes on waiting until r has read.
LEMMA WaitsOn ==
  ASSUME Disciplined, Inv, SlotInv, ~starved, NEW t \in Threads, Step(t),
         ~InframeRecv(t), NEW r \in Threads, Reading(r), Reading(r)', NEW x, Waits(x, r)
  PROVE  Waits(x, r)'
<1> USE DEF Goto, port, bufs, count, search, work, wait
<1>1. PICK u \in Threads \ {r} : \E k \in 1 .. Len(mine[u]) :
        /\ mine[u][k].txn = x
        /\ rxbufstat[Held(u, k)] # "RCVD"
        /\ k = 1 => pc[u] \in {"take", "scan", "claim", "send", "check", "lock"}
  BY DEF Waits
<1>2. PICK k \in 1 .. Len(mine[u]) :
        /\ mine[u][k].txn = x
        /\ rxbufstat[Held(u, k)] # "RCVD"
        /\ k = 1 => pc[u] \in {"take", "scan", "claim", "send", "check", "lock"}
  BY <1>1
<1>3. Held(u, k) \in Bufs BY HeldInBufs DEF Inv, TypeOK
<1>4. rxbufstat'[Held(u, k)] # "RCVD"
  <2>1. ASSUME InframeFile(t) PROVE FALSE
    <3>1. Reading(t) /\ pc'[t] = "test"
      BY <2>1 DEF InframeFile, Reading, Inv, TypeOK
    <3>2. t = r BY <3>1, OneReader
    <3> QED BY <3>1, <3>2 DEF Reading
  <2> QED BY <1>2, <1>3, <2>1, WhoFiles
<1>5. ASSUME NEW l \in 1 .. Len(mine'[u]), mine'[u][l] = mine[u][k],
             l = 1 => pc'[u] \in {"take", "scan", "claim", "send", "check", "lock"}
      PROVE  Waits(x, r)'
  BY <1>1, <1>2, <1>4, <1>5 DEF Waits, Held
<1>6. CASE u # t
  <2>1. mine'[u] = mine[u] /\ pc'[u] = pc[u] BY <1>6, StepFrame
  <2> QED BY <1>2, <1>5, <2>1
<1>7. CASE u = t
  <2>1. pc[t] \notin {"recv", "match", "copy", "mark"} BY <1>1, <1>7, OneReader DEF Reading
  <2>2. /\ mine \in [Threads -> Seq(Holding)] /\ pc \in [Threads -> Steps]
        /\ mine[t] \in Seq(Holding) /\ Len(mine[t]) \in Nat
        /\ k \in Nat /\ k >= 1 /\ k <= Len(mine[t])
    BY <1>2, <1>7 DEF Inv, TypeOK
  <2>3. ASSUME mine' = mine, k = 1 => pc'[t] \in {"take", "scan", "claim", "send", "check", "lock"}
        PROVE  Waits(x, r)'
    BY <1>2, <1>5, <1>7, <2>3
  <2>4. CASE Begin(t)
    <3>1. Len(mine[t]) = 0 BY <2>4 DEF Begin, SlotInv
    <3> QED BY <2>2, <3>1
  <2>5. CASE GetindexTake(t) \/ GetindexScan(t)
    <3>1. mine' = mine /\ pc'[t] \in {"scan", "claim"}
      BY <2>2, <2>5 DEF GetindexTake, GetindexScan
    <3> QED BY <2>3, <3>1
  <2>6. CASE GetindexClaim(t)
    <3>1. PICK h \in Holding : mine'[t] = Append(mine[t], h)
      <4>1. [idx |-> idx[t], txn |-> begun + 1] \in Holding BY DEF Inv, TypeOK, Holding, Txns
      <4> QED BY <2>2, <2>6, <4>1 DEF GetindexClaim, BeginTxn
    <3>2. pc'[t] = "send" BY <2>2, <2>6 DEF GetindexClaim, BeginTxn
    <3>3. k \in 1 .. Len(mine'[t]) /\ mine'[t][k] = mine[t][k] BY <2>2, <3>1
    <3> QED BY <1>5, <1>7, <3>2, <3>3
  <2>7. ASSUME NEW arrives \in BOOLEAN, Outframe(t, arrives) PROVE Waits(x, r)'
    <3>1. mine' = mine /\ pc'[t] \in {"take", "check"} BY <2>2, <2>7 DEF Outframe, AfterSend
    <3> QED BY <2>3, <3>1
  <2>8. CASE InframeCheck(t)
    <3>1. mine' = mine /\ pc'[t] = IF rxbufstat[Mine(t)] = "RCVD" THEN "found" ELSE "lock"
      BY <2>2, <2>8 DEF InframeCheck
    <3>2. k = 1 => Mine(t) = Held(t, k) BY <2>2, MineInBufs DEF Inv
    <3> QED BY <1>2, <1>7, <2>3, <3>1, <3>2
  <2>9. CASE InframeLock(t) BY <2>9, LockWaits
  <2>10. CASE \/ InframeTake(t) \/ PollAgain(t) \/ Resend(t) \/ GiveUp(t) \/ Expire(t)
    <3>1. mine' = mine /\ pc[t] \in {"found", "test"}
      BY <2>10 DEF InframeTake, PollAgain, Resend, GiveUp, Expire
    <3>2. k # 1 BY <1>2, <1>7, <3>1
    <3> QED BY <2>3, <3>1, <3>2
  <2>11. CASE \/ InframeNothing(t) \/ InframeMatch(t) \/ InframeStore(t) \/ InframeStrange(t)
              \/ InframeComplete(t) \/ InframeFile(t)
    BY <2>1, <2>11 DEF InframeNothing, InframeMatch, InframeStore, InframeStrange,
                       InframeComplete, InframeFile
  <2>12. CASE Setbufstat(t)
    <3>1. /\ pc[t] = "use" /\ mine'[t] = Tail(mine[t])
          /\ pc'[t] = IF Len(mine[t]) > 1 THEN "check" ELSE "idle"
      BY <2>2, <2>12 DEF Setbufstat, Finish
    <3>2. k # 1 BY <1>2, <1>7, <3>1
    <3>3. k - 1 \in 1 .. Len(Tail(mine[t])) /\ Tail(mine[t])[k - 1] = mine[t][k] BY <2>2, <3>2
    <3>4. pc'[t] = "check" BY <2>2, <3>1, <3>2
    <3> QED BY <1>5, <1>7, <3>1, <3>3, <3>4
  <2> QED BY <2>4, <2>5, <2>6, <2>7, <2>8, <2>9, <2>10, <2>11, <2>12 DEF Step
<1> QED BY <1>6, <1>7

\* Frames under way stay recent, and what begins while one is read waits.
LEMMA OverlapKept ==
  ASSUME Disciplined, Inv, SlotInv, OverlapInv, ~starved, NEW t \in Threads, Step(t)
  PROVE  OverlapInv'
<1> USE DEF Goto, port, bufs, count, search, work, wait
<1>1. begun' = IF GetindexClaim(t) THEN begun + 1 ELSE begun
  <2>1. CASE GetindexClaim(t) BY <2>1 DEF GetindexClaim, BeginTxn
  <2>2. ASSUME NEW arrives \in BOOLEAN, Outframe(t, arrives) PROVE begun' = begun
    BY <2>2 DEF Outframe
  <2>3. ASSUME \/ Begin(t) \/ GetindexTake(t) \/ GetindexScan(t) \/ InframeCheck(t)
               \/ InframeTake(t) \/ InframeLock(t) \/ InframeNothing(t) \/ InframeRecv(t)
               \/ InframeMatch(t) \/ InframeStore(t)
        PROVE  begun' = begun
    BY <2>3 DEF Begin, GetindexTake, GetindexScan, InframeCheck, InframeTake, InframeLock,
                InframeNothing, InframeRecv, InframeMatch, InframeStore
  <2>4. ASSUME InframeStrange(t) \/ InframeComplete(t) \/ InframeFile(t)
        PROVE  begun' = begun
    BY <2>4 DEF InframeStrange, InframeComplete, InframeFile, EndRead
  <2>5. ASSUME PollAgain(t) \/ Resend(t) \/ GiveUp(t) \/ Expire(t) \/ Setbufstat(t)
        PROVE  begun' = begun
    BY <2>5 DEF PollAgain, Resend, GiveUp, Expire, Setbufstat, Finish
  <2>6. ~GetindexClaim(t) => begun' = begun BY <2>2, <2>3, <2>4, <2>5 DEF Step
  <2> QED BY <2>1, <2>6
<1>2. ASSUME NEW f, f \in transit' PROVE f.txn + Lag > begun'
  <2>0. f \in transit => f.txn + Lag > begun BY DEF OverlapInv
  <2>1. CASE GetindexClaim(t)
    <3>1. Timely(f.txn, begun + 1) BY <1>2, <2>1 DEF GetindexClaim, BeginTxn
    <3> QED BY <1>1, <2>1, <3>1 DEF Timely
  <2>2. ASSUME NEW arrives \in BOOLEAN, Outframe(t, arrives) PROVE f.txn + Lag > begun
    <3>1. CASE f \in transit BY <2>0, <3>1
    <3>2. CASE f \notin transit
      <4>1. arrives /\ f.txn = mine[t][Len(mine[t])].txn
        BY <1>2, <2>2, <3>2 DEF Outframe
      <4> QED BY <2>2, <4>1 DEF Outframe, Timely
    <3> QED BY <3>1, <3>2
  <2>3. ASSUME \/ Begin(t) \/ GetindexTake(t) \/ GetindexScan(t) \/ InframeCheck(t)
               \/ InframeTake(t) \/ InframeLock(t) \/ InframeNothing(t) \/ InframeRecv(t)
               \/ InframeMatch(t) \/ InframeStore(t)
        PROVE  f.txn + Lag > begun
    <3>1. transit' \subseteq transit
      BY <2>3 DEF Begin, GetindexTake, GetindexScan, InframeCheck, InframeTake, InframeLock,
                  InframeNothing, InframeRecv, InframeMatch, InframeStore
    <3> QED BY <1>2, <2>0, <3>1
  <2>4. ASSUME InframeStrange(t) \/ InframeComplete(t) \/ InframeFile(t)
        PROVE  f.txn + Lag > begun
    <3>1. transit' = transit
      BY <2>4 DEF InframeStrange, InframeComplete, InframeFile, EndRead
    <3> QED BY <1>2, <2>0, <3>1
  <2>5. ASSUME PollAgain(t) \/ Resend(t) \/ GiveUp(t) \/ Expire(t) \/ Setbufstat(t)
        PROVE  f.txn + Lag > begun
    <3>1. transit' = transit
      BY <2>5 DEF PollAgain, Resend, GiveUp, Expire, Setbufstat, Finish
    <3> QED BY <1>2, <2>0, <3>1
  <2>6. ~GetindexClaim(t) => f.txn + Lag > begun BY <2>2, <2>3, <2>4, <2>5 DEF Step
  <2> QED BY <1>1, <2>1, <2>6
<1>3. ASSUME NEW r \in Threads, NEW x \in Txns, Reading(r)',
             tempinbuf'.answer.txn + Lag <= x, x <= begun'
      PROVE  Waits(x, r)'
  <2>0. begun \in Nat /\ x \in Nat BY DEF Inv, TypeOK, Txns
  <2>1. CASE InframeRecv(t)
    <3>1. PICK f \in transit :
            \E w : tempinbuf' = [idx |-> f.idx, answer |-> [txn |-> f.txn, wkc |-> w]]
      BY <2>1 DEF InframeRecv
    <3>2. tempinbuf'.answer.txn = f.txn /\ f.txn \in Nat
      BY <3>1 DEF Inv, TypeOK, Frames, Txns
    <3>3. f.txn + Lag > begun BY DEF OverlapInv
    <3>4. begun' = begun BY <2>1 DEF InframeRecv
    <3> QED BY <1>3, <2>0, <3>2, <3>3, <3>4, BufFacts
  <2>2. CASE ~InframeRecv(t)
    <3>1. Reading(r) /\ tempinbuf' = tempinbuf BY <1>3, <2>2, FrameStays
    <3>2. CASE x <= begun
      <4>1. Waits(x, r) BY <1>3, <3>1, <3>2 DEF OverlapInv
      <4> QED BY <1>3, <2>2, <3>1, <4>1, WaitsOn
    <3>3. CASE ~(x <= begun)
      <4>1. GetindexClaim(t) /\ x = begun + 1 BY <1>1, <1>3, <2>0, <3>3
      <4>2. PICK h \in Holding : h = [idx |-> idx[t], txn |-> begun + 1]
        <5>1. idx[t] \in Bufs BY DEF Inv, TypeOK
        <5>2. [idx |-> idx[t], txn |-> begun + 1] \in Holding BY <2>0, <5>1 DEF Holding, Txns
        <5> QED BY <5>2
      <4>3. /\ pc[t] = "claim" /\ pc'[t] = "send" /\ mine'[t] = Append(mine[t], h)
            /\ rxbufstat'[idx[t]] = "ALLOC"
        BY <4>1, <4>2 DEF GetindexClaim, BeginTxn, Inv, TypeOK
      <4>4. mine[t] \in Seq(Holding) /\ Len(mine[t]) \in Nat BY DEF Inv, TypeOK
      <4>5. PICK k \in Nat : k = Len(mine[t]) + 1 BY <4>4
      <4>6. k \in 1 .. Len(mine'[t]) /\ mine'[t][k] = h BY <4>3, <4>4, <4>5
      <4>7. t # r BY <3>1, <4>3 DEF Reading
      <4>8. /\ mine'[t][k].txn = x /\ rxbufstat'[mine'[t][k].idx] # "RCVD"
        BY <4>1, <4>2, <4>3, <4>6
      <4> QED BY <4>3, <4>6, <4>7, <4>8 DEF Waits, Held
    <3> QED BY <3>2, <3>3
  <2> QED BY <2>1, <2>2
<1> QED BY <1>2, <1>3 DEF OverlapInv

-----------------------------------------------------------------------------
\* The steps by which a thread neither looks for a buffer nor takes one.
Other(t) ==
  \/ Begin(t) \/ \E arrives \in BOOLEAN : Outframe(t, arrives)
  \/ InframeCheck(t) \/ InframeTake(t) \/ InframeLock(t) \/ InframeNothing(t)
  \/ InframeRecv(t) \/ InframeMatch(t) \/ InframeStore(t)
  \/ InframeStrange(t) \/ InframeComplete(t) \/ InframeFile(t)
  \/ PollAgain(t) \/ Resend(t) \/ GiveUp(t) \/ Expire(t) \/ Setbufstat(t)

\* What the steps leave alone by which a thread neither looks for a buffer nor takes one.
LEMMA OtherFrame ==
  ASSUME Inv, NEW t \in Threads, Other(t)
  PROVE  /\ UNCHANGED <<setup, lastidx, begun>> /\ starved' = starved /\ cnt' = cnt
         /\ ~Searching(t)
         /\ \A u \in Threads : Searching(u)' => Searching(u) /\ idx'[u] = idx[u]
<1> USE DEF Goto, port, bufs, count, search, work, wait
<1>0. pc \in [Threads -> Steps] BY DEF Inv, TypeOK
<1>1. ASSUME NEW arrives \in BOOLEAN, Outframe(t, arrives)
      PROVE  /\ UNCHANGED <<setup, lastidx, begun>> /\ starved' = starved /\ cnt' = cnt
             /\ pc[t] = "send" /\ pc'[t] \in {"take", "check"}
  BY <1>0, <1>1 DEF Outframe, AfterSend
<1>2. ASSUME Begin(t)
      PROVE  /\ UNCHANGED <<setup, lastidx, begun>> /\ starved' = starved /\ cnt' = cnt
             /\ pc[t] = "idle" /\ pc'[t] = "take"
  BY <1>0, <1>2 DEF Begin
<1>3. ASSUME InframeCheck(t) \/ InframeTake(t) \/ InframeLock(t)
      PROVE  /\ UNCHANGED <<setup, lastidx, begun>> /\ starved' = starved /\ cnt' = cnt
             /\ pc[t] \in {"check", "found", "lock"} /\ pc'[t] \in {"found", "lock", "use", "recv"}
  BY <1>0, <1>3 DEF InframeCheck, InframeTake, InframeLock
<1>4. ASSUME InframeNothing(t) \/ InframeRecv(t) \/ InframeMatch(t) \/ InframeStore(t)
      PROVE  /\ UNCHANGED <<setup, lastidx, begun>> /\ starved' = starved /\ cnt' = cnt
             /\ pc[t] \in {"recv", "match", "copy"} /\ pc'[t] \in {"test", "match", "copy", "mark"}
  BY <1>0, <1>4 DEF InframeNothing, InframeRecv, InframeMatch, InframeStore
<1>5. ASSUME InframeStrange(t) \/ InframeComplete(t) \/ InframeFile(t)
      PROVE  /\ UNCHANGED <<setup, lastidx, begun>> /\ starved' = starved /\ cnt' = cnt
             /\ pc[t] \in {"match", "mark"} /\ pc'[t] \in {"test", "use"}
  BY <1>0, <1>5 DEF InframeStrange, InframeComplete, InframeFile, EndRead
<1>6. ASSUME PollAgain(t) \/ Resend(t) \/ GiveUp(t) \/ Expire(t)
      PROVE  /\ UNCHANGED <<setup, lastidx, begun>> /\ starved' = starved /\ cnt' = cnt
             /\ pc[t] = "test" /\ pc'[t] \in {"check", "send", "use", "test"}
  BY <1>0, <1>6 DEF PollAgain, Resend, GiveUp, Expire
<1>7. ASSUME Setbufstat(t)
      PROVE  /\ UNCHANGED <<setup, lastidx, begun>> /\ starved' = starved /\ cnt' = cnt
             /\ pc[t] = "use" /\ pc'[t] \in {"check", "idle"}
  BY <1>0, <1>7 DEF Setbufstat, Finish
<1>8. /\ UNCHANGED <<setup, lastidx, begun>> /\ starved' = starved /\ cnt' = cnt
      /\ pc[t] \notin {"scan", "claim"} /\ pc'[t] \notin {"scan", "claim"}
  BY <1>1, <1>2, <1>3, <1>4, <1>5, <1>6, <1>7 DEF Other
<1>9. Step(t) BY DEF Other, Step
<1>10. ASSUME NEW u \in Threads, Searching(u)' PROVE Searching(u) /\ idx'[u] = idx[u]
  <2>1. u # t BY <1>8, <1>10 DEF Searching
  <2> QED BY <1>9, <1>10, <2>1, StepFrame DEF Searching
<1> QED BY <1>8, <1>10 DEF Searching

\* A late answer is marked in a buffer that is free, and takes it for good.
Spoils(t) ==
  LET i == idx[t] IN
  /\ InframeFile(t)
  /\ i \in Bufs /\ ~IsHeld(i) /\ i \notin lost /\ ~Used(i)
  /\ lost' = lost \cup {i}
  /\ \A j \in Bufs : Used(j)' <=> Used(j) \/ j = i

\* What they leave of the buffers in use, if they neither begin nor end with an index.
LEMMA OtherUsed ==
  ASSUME Inv, SlotInv, ~starved, NEW t \in Threads, Other(t), ~Begin(t), ~Setbufstat(t)
  PROVE  /\ mine' = mine /\ op' = op
         /\ Spoils(t) \/ (lost' = lost /\ \A j \in Bufs : Used(j)' <=> Used(j))
<1> USE DEF Goto, bufs, port, count, search, work, wait
<1>1. /\ \A u \in Threads : \A k \in 1 .. Len(mine[u]) : rxbufstat[Held(u, k)] # "EMPTY"
      /\ rxbufstat \in [Bufs -> BufStates]
  BY DEF Inv, IndexInv, Marked, TypeOK
<1>2. Busy(t) => /\ Mine(t) \in Bufs /\ 1 \in 1 .. Len(mine[t]) /\ Mine(t) = Held(t, 1)
                 /\ Len(mine[t]) \in 1 .. Len(mine[t])
  <2>1. Busy(t) => Len(mine[t]) > 0 /\ Len(mine[t]) \in Nat BY DEF Inv, TypeOK, StepInv
  <2> QED BY <2>1, MineInBufs DEF Inv
<1>3. ASSUME \/ InframeCheck(t) \/ InframeLock(t) \/ InframeNothing(t) \/ InframeRecv(t)
             \/ InframeMatch(t) \/ InframeStore(t)
      PROVE  mine' = mine /\ op' = op /\ lost' = lost /\ rxbufstat' = rxbufstat
  BY <1>3 DEF InframeCheck, InframeLock, InframeNothing, InframeRecv, InframeMatch, InframeStore
<1>4. ASSUME InframeStrange(t) \/ PollAgain(t) \/ Resend(t) \/ GiveUp(t) \/ Expire(t)
      PROVE  mine' = mine /\ op' = op /\ lost' = lost /\ rxbufstat' = rxbufstat
  BY <1>4 DEF InframeStrange, EndRead, PollAgain, Resend, GiveUp, Expire
<1>5. ASSUME mine' = mine, op' = op, lost' = lost, rxbufstat' = rxbufstat
      PROVE  mine' = mine /\ op' = op /\ lost' = lost /\ \A j \in Bufs : Used(j)' <=> Used(j)
  BY <1>5 DEF Used
<1>6. ASSUME NEW arrives \in BOOLEAN, Outframe(t, arrives)
      PROVE  mine' = mine /\ op' = op /\ lost' = lost /\ \A j \in Bufs : Used(j)' <=> Used(j)
  <2>1. /\ mine' = mine /\ op' = op /\ lost' = lost /\ pc[t] = "send"
        /\ rxbufstat' = [rxbufstat EXCEPT ![mine[t][Len(mine[t])].idx] = "TX"]
    BY <1>6 DEF Outframe
  <2>2. rxbufstat[mine[t][Len(mine[t])].idx] # "EMPTY" BY <1>1, <1>2, <2>1 DEF Held, Busy
  <2> QED BY <1>1, <2>1, <2>2 DEF Used
<1>7. ASSUME InframeTake(t) \/ InframeComplete(t)
      PROVE  mine' = mine /\ op' = op /\ lost' = lost /\ \A j \in Bufs : Used(j)' <=> Used(j)
  <2>1. /\ mine' = mine /\ op' = op /\ lost' = lost /\ pc[t] \in {"found", "mark"}
        /\ rxbufstat' = [rxbufstat EXCEPT ![Mine(t)] = "COMPLETE"]
    BY <1>7 DEF InframeTake, InframeComplete, EndRead
  <2>2. rxbufstat[Mine(t)] # "EMPTY" /\ Mine(t) \in Bufs BY <1>1, <1>2, <2>1 DEF Busy
  <2> QED BY <1>1, <2>1, <2>2 DEF Used
<1>8. ASSUME InframeFile(t)
      PROVE  /\ mine' = mine /\ op' = op
             /\ Spoils(t) \/ (lost' = lost /\ \A j \in Bufs : Used(j)' <=> Used(j))
  <2>1. /\ mine' = mine /\ op' = op
        /\ rxbufstat' = [rxbufstat EXCEPT ![idx[t]] = "RCVD"]
        /\ lost' = IF Holders(idx[t]) = {} THEN lost \cup {idx[t]} ELSE lost
    BY <1>8 DEF InframeFile, EndRead
  <2>2. idx[t] \in Bufs BY DEF Inv, TypeOK
  <2>3. \A j \in Bufs : Used(j)' <=> Used(j) \/ j = idx[t] BY <1>1, <2>1, <2>2 DEF Used
  <2>4. CASE IsHeld(idx[t])
    <3>1. Used(idx[t]) BY <1>1, <2>4 DEF IsHeld, Used
    <3>2. lost' = lost BY <2>1, <2>4, HeldByHolders
    <3> QED BY <2>1, <2>3, <3>1, <3>2
  <2>5. CASE ~IsHeld(idx[t])
    <3>1. lost' = lost \cup {idx[t]} BY <2>1, <2>5, HeldByHolders
    <3>2. CASE idx[t] \in lost
      <4>1. Used(idx[t]) BY <2>2, <3>2 DEF SlotInv
      <4>2. lost' = lost BY <3>1, <3>2
      <4> QED BY <2>1, <2>3, <4>1, <4>2
    <3>3. CASE idx[t] \notin lost
      <4>1. ~Used(idx[t]) BY <2>2, <2>5, <3>3 DEF SlotInv
      <4> QED BY <1>8, <2>1, <2>2, <2>3, <2>5, <3>1, <3>3, <4>1 DEF Spoils
    <3> QED BY <3>2, <3>3
  <2> QED BY <2>4, <2>5
<1> QED BY <1>3, <1>4, <1>5, <1>6, <1>7, <1>8 DEF Other

Entries == \A u \in Threads : \A k \in 1 .. Len(mine'[u]) :
             \E j \in 1 .. Len(mine[u]) : mine'[u][k] = mine[u][j]

\* Who may go on with a batch, or be done, has room for it, or holds nothing.
SlotOf(t) ==
  /\ Len(mine[t]) <= Batch(op[t])
  /\ pc[t] \in {"take", "scan", "claim"} => Len(mine[t]) < Batch(op[t])
  /\ pc[t] = "idle" => Len(mine[t]) = 0
  /\ op[t] = "processdata" => t \in setup.cyclic

\* They put no buffer to use but one that is lost.
LEMMA OtherSlots ==
  ASSUME Inv, SlotInv, ~starved, NEW t \in Threads, Other(t)
  PROVE  /\ Entries /\ SlotInv'
         /\ Spoils(t) \/ (lost' = lost /\ \A j \in Bufs : Used(j)' => Used(j))
<1>0. Step(t) BY DEF Other, Step
<1>1. ASSUME NEW u \in Threads \ {t} PROVE SlotOf(u)'
  <2>1. setup' = setup /\ pc'[u] = pc[u] /\ op'[u] = op[u] /\ mine'[u] = mine[u]
    BY <1>0, StepFrame
  <2>2. SlotOf(u) BY DEF SlotInv, SlotOf
  <2>3. Batch(op[u])' = Batch(op[u]) BY <2>1 DEF Batch
  <2> QED BY <2>1, <2>2, <2>3 DEF SlotOf
<1>2. ASSUME SlotOf(t)',
             \A i \in Bufs : Used(i)' => i \in lost' \/ IsHeld(i)',
             \A i \in lost' : Used(i)' /\ ~IsHeld(i)'
      PROVE  SlotInv'
  <2>1. \A u \in Threads : SlotOf(u)' BY <1>1, <1>2
  <2> QED BY <1>2, <2>1 DEF SlotInv, SlotOf
<1>3. CASE Begin(t)
  <2>1. PICK o \in Ops : op' = [op EXCEPT ![t] = o] /\ (o = "processdata" => t \in setup.cyclic)
    BY <1>3 DEF Begin
  <2>2. /\ pc[t] = "idle" /\ pc' = [pc EXCEPT ![t] = "take"] /\ mine' = [mine EXCEPT ![t] = <<>>]
        /\ UNCHANGED <<rxbufstat, setup, lost>>
    BY <1>3 DEF Begin, Goto, port, bufs
  <2>3. /\ mine'[t] = <<>> /\ Len(mine'[t]) = 0 /\ Len(mine[t]) = 0 /\ op'[t] = o
        /\ \A u \in Threads \ {t} : mine'[u] = mine[u]
        /\ pc'[t] = "take"
    BY <2>1, <2>2 DEF Inv, TypeOK, SlotInv
  <2>4. Entries BY <2>3 DEF Entries
  <2>5. \A i : IsHeld(i)' <=> IsHeld(i) BY <2>3 DEF IsHeld, Held
  <2>6. \A i : Used(i)' <=> Used(i) BY <2>2 DEF Used
  <2>7. SlotOf(t)'
    <3>1. Batch(op[t])' = Batch(o) BY <2>3 DEF Batch
    <3>2. Batch(o) \in Nat /\ Batch(o) > 0 BY BufFacts DEF Batch
    <3>3. o = "processdata" => t \in setup'.cyclic BY <2>1, <2>2
    <3> QED BY <2>3, <3>1, <3>2, <3>3 DEF SlotOf
  <2>8. SlotInv'
    <3>1. \A i \in Bufs : Used(i)' => i \in lost' \/ IsHeld(i)'
      BY <2>2, <2>5, <2>6 DEF SlotInv
    <3>2. \A i \in lost' : Used(i)' /\ ~IsHeld(i)' BY <2>2, <2>5, <2>6 DEF SlotInv
    <3> QED BY <1>2, <2>7, <3>1, <3>2
  <2> QED BY <2>2, <2>4, <2>6, <2>8
<1>4. CASE Setbufstat(t)
  <2> DEFINE n == Len(mine[t])
  <2>1. /\ pc[t] = "use" /\ pc' = [pc EXCEPT ![t] = IF n > 1 THEN "check" ELSE "idle"]
        /\ mine' = [mine EXCEPT ![t] = Tail(mine[t])]
        /\ rxbufstat' = [rxbufstat EXCEPT ![Mine(t)] = "EMPTY"]
        /\ UNCHANGED <<setup, op, lost>>
    BY <1>4 DEF Setbufstat, Finish, Goto, count
  <2>2. n > 0 /\ n \in Nat /\ mine[t] \in Seq(Holding)
    BY <2>1 DEF Inv, TypeOK, StepInv, Busy
  <2>3. Mine(t) \in Bufs /\ 1 \in 1 .. n /\ Mine(t) = Held(t, 1) BY <2>2, MineInBufs DEF Inv
  <2>4. /\ mine'[t] = Tail(mine[t]) /\ Len(mine'[t]) = n - 1
        /\ \A k \in 1 .. n - 1 : mine'[t][k] = mine[t][k + 1]
        /\ \A u \in Threads \ {t} : mine'[u] = mine[u]
        /\ pc'[t] \in {"check", "idle"} /\ (pc'[t] = "idle" => n = 1)
    <3>1. /\ Len(Tail(mine[t])) = n - 1 /\ \A k \in 1 .. n - 1 : Tail(mine[t])[k] = mine[t][k + 1]
      BY <2>2
    <3>2. /\ mine'[t] = Tail(mine[t])
          /\ \A u \in Threads \ {t} : mine'[u] = mine[u]
          /\ pc'[t] = IF n > 1 THEN "check" ELSE "idle"
      BY <2>1 DEF Inv, TypeOK
    <3>0. n > 0 /\ n \in Nat BY <2>2
    <3> HIDE DEF n
    <3>3. n > 1 \/ n = 1 BY <3>0
    <3>4. pc'[t] \in {"check", "idle"} /\ (pc'[t] = "idle" => n = 1) BY <3>2, <3>3
    <3> USE DEF n
    <3>5. mine'[t] = Tail(mine[t]) BY <3>2
    <3>6. Len(mine'[t]) = n - 1 /\ \A k \in 1 .. n - 1 : mine'[t][k] = mine[t][k + 1]
      BY <3>1, <3>5
    <3> QED BY <3>2, <3>4, <3>6
  <2>5. Entries
    <3> SUFFICES ASSUME NEW u \in Threads, NEW k \in 1 .. Len(mine'[u])
                 PROVE  \E j \in 1 .. Len(mine[u]) : mine'[u][k] = mine[u][j]
      BY DEF Entries
    <3>1. CASE u = t
      <4>1. k \in 1 .. n - 1 BY <2>4, <3>1
      <4>2. k + 1 \in 1 .. n /\ mine'[t][k] = mine[t][k + 1] BY <2>2, <2>4, <4>1
      <4> QED BY <3>1, <4>2
    <3>2. CASE u # t BY <2>4, <3>2
    <3> QED BY <3>1, <3>2
  <2>6. \A j \in Bufs : Used(j)' <=> Used(j) /\ j # Mine(t)
    BY <2>1, <2>3 DEF Used, Inv, TypeOK
  <2>7. \A i \in Bufs : Used(i)' => i \in lost' \/ IsHeld(i)'
    <3> SUFFICES ASSUME NEW i \in Bufs, Used(i)', i \notin lost PROVE IsHeld(i)'
      BY <2>1
    <3>1. PICK u \in Threads : \E k \in 1 .. Len(mine[u]) : Held(u, k) = i
      BY <2>6 DEF SlotInv, IsHeld
    <3>2. PICK k \in 1 .. Len(mine[u]) : Held(u, k) = i BY <3>1
    <3>3. CASE u = t
      <4>1. k # 1 BY <2>3, <2>6, <3>2, <3>3
      <4>2. k - 1 \in 1 .. n - 1 BY <2>2, <3>2, <3>3, <4>1
      <4>3. mine'[t][k - 1] = mine[t][k] BY <2>2, <2>4, <4>2
      <4> QED BY <2>4, <3>2, <3>3, <4>2, <4>3 DEF IsHeld, Held
    <3>4. CASE u # t BY <2>4, <3>2, <3>4 DEF IsHeld, Held
    <3> QED BY <3>3, <3>4
  <2>8. \A i \in lost' : Used(i)' /\ ~IsHeld(i)'
    <3> SUFFICES ASSUME NEW i \in lost PROVE Used(i)' /\ ~IsHeld(i)'
      BY <2>1
    <3>1. i \in Bufs /\ Used(i) /\ ~IsHeld(i) BY DEF SlotInv, Inv, TypeOK
    <3>2. i # Mine(t) BY <2>3, <3>1 DEF IsHeld
    <3>3. ~IsHeld(i)' BY <2>5, <3>1 DEF IsHeld, Held, Entries
    <3> QED BY <2>6, <3>1, <3>2, <3>3
  <2>9. SlotOf(t)'
    <3>1. Batch(op[t])' = Batch(op[t]) /\ Batch(op[t]) \in Nat BY <2>1, BufFacts DEF Batch
    <3>2. SlotOf(t) BY DEF SlotInv, SlotOf
    <3> QED BY <2>1, <2>2, <2>4, <3>1, <3>2 DEF SlotOf
  <2>10. SlotInv' BY <1>2, <2>7, <2>8, <2>9
  <2> QED BY <2>1, <2>5, <2>6, <2>10
<1>5. CASE ~Begin(t) /\ ~Setbufstat(t)
  <2>1. mine' = mine /\ op' = op BY <1>5, OtherUsed
  <2>2. Spoils(t) \/ (lost' = lost /\ \A j \in Bufs : Used(j)' <=> Used(j)) BY <1>5, OtherUsed
  <2>3. \A i : IsHeld(i)' <=> IsHeld(i) BY <2>1 DEF IsHeld, Held
  <2>4. Entries BY <2>1 DEF Entries
  <2>5. SlotOf(t)'
    <3> USE DEF Goto, work
    <3>0. pc \in [Threads -> Steps] BY DEF Inv, TypeOK
    <3>1. ASSUME NEW arrives \in BOOLEAN, Outframe(t, arrives)
          PROVE  /\ pc'[t] \in {"take", "check"}
                 /\ pc'[t] = "take" => Len(mine[t]) < Batch(op[t])
      BY <3>0, <3>1 DEF Outframe, AfterSend
    <3>2. ASSUME InframeCheck(t) \/ InframeTake(t) \/ InframeLock(t) \/ InframeNothing(t)
                 \/ InframeRecv(t) \/ InframeMatch(t) \/ InframeStore(t)
          PROVE  pc'[t] \notin {"take", "scan", "claim", "idle"}
      BY <3>0, <3>2 DEF InframeCheck, InframeTake, InframeLock, InframeNothing, InframeRecv,
                        InframeMatch, InframeStore
    <3>3. ASSUME InframeStrange(t) \/ InframeComplete(t) \/ InframeFile(t)
          PROVE  pc'[t] \notin {"take", "scan", "claim", "idle"}
      BY <3>0, <3>3 DEF InframeStrange, InframeComplete, InframeFile
    <3>4. ASSUME PollAgain(t) \/ Resend(t) \/ GiveUp(t) \/ Expire(t)
          PROVE  pc'[t] \notin {"take", "scan", "claim", "idle"}
      BY <3>0, <3>4 DEF PollAgain, Resend, GiveUp, Expire
    <3>5. /\ pc'[t] \notin {"scan", "claim", "idle"}
          /\ pc'[t] = "take" => Len(mine[t]) < Batch(op[t])
      BY <1>5, <3>1, <3>2, <3>3, <3>4 DEF Other
    <3>6. setup' = setup /\ Batch(op[t])' = Batch(op[t]) BY <1>0, <2>1, StepFrame DEF Batch
    <3>7. SlotOf(t) BY DEF SlotInv, SlotOf
    <3> QED BY <2>1, <3>5, <3>6, <3>7 DEF SlotOf
  <2>6. SlotInv'
    <3>1. \A i \in Bufs : Used(i)' => i \in lost' \/ IsHeld(i)'
      BY <2>2, <2>3 DEF SlotInv, Spoils
    <3>2. \A i \in lost' : Used(i)' /\ ~IsHeld(i)'
      <4>1. lost \subseteq Bufs BY DEF Inv, TypeOK
      <4> QED BY <2>2, <2>3, <4>1 DEF SlotInv, Spoils
    <3> QED BY <1>2, <2>5, <3>1, <3>2
  <2> QED BY <2>2, <2>4, <2>6
<1> QED BY <1>3, <1>4, <1>5

\* What comes back or is read was sent for an index that its thread holds, or was under way.
LEMMA OtherLive ==
  ASSUME Disciplined, Inv, SlotInv, ~starved, NEW t \in Threads, Other(t),
         NEW i, NEW m, Live(i, m)'
  PROVE  Live(i, m)
<1> USE DEF port, bufs, count, search, work, wait
<1>1. ASSUME NEW u \in Threads, NEW k \in 1 .. Len(mine'[u]), mine'[u][k].idx = i,
             mine'[u][k].txn = m
      PROVE  Live(i, m)
  <2>1. Entries BY OtherSlots
  <2>2. \E j \in 1 .. Len(mine[u]) : mine'[u][k] = mine[u][j] BY <2>1 DEF Entries
  <2> QED BY <1>1, <2>2 DEF Live, Held
<1>2. ASSUME NEW f, f \in transit', f.idx = i, f.txn = m PROVE Live(i, m)
  <2>1. CASE f \in transit BY <1>2, <2>1 DEF Live
  <2>2. CASE f \notin transit
    <3>1. ASSUME NEW arrives \in BOOLEAN, Outframe(t, arrives)
          PROVE  /\ Busy(t)
                 /\ f = [idx |-> mine[t][Len(mine[t])].idx, txn |-> mine[t][Len(mine[t])].txn,
                         try |-> try[t]]
      BY <1>2, <2>2, <3>1 DEF Outframe, Goto, Busy
    <3>2. ASSUME \/ Begin(t) \/ InframeCheck(t) \/ InframeTake(t) \/ InframeLock(t)
                 \/ InframeNothing(t) \/ InframeRecv(t) \/ InframeMatch(t) \/ InframeStore(t)
          PROVE  FALSE
      BY <1>2, <2>2, <3>2 DEF Begin, InframeCheck, InframeTake, InframeLock, InframeNothing,
                              InframeRecv, InframeMatch, InframeStore
    <3>3. ASSUME \/ InframeStrange(t) \/ InframeComplete(t) \/ InframeFile(t)
                 \/ PollAgain(t) \/ Resend(t) \/ GiveUp(t) \/ Expire(t) \/ Setbufstat(t)
          PROVE  FALSE
      BY <1>2, <2>2, <3>3 DEF InframeStrange, InframeComplete, InframeFile, EndRead, PollAgain,
                              Resend, GiveUp, Expire, Setbufstat, Finish
    <3>4. /\ Busy(t)
          /\ f = [idx |-> mine[t][Len(mine[t])].idx, txn |-> mine[t][Len(mine[t])].txn,
                  try |-> try[t]]
      BY <3>1, <3>2, <3>3 DEF Other
    <3>5. Len(mine[t]) \in 1 .. Len(mine[t]) BY <3>4 DEF Inv, TypeOK, StepInv
    <3> QED BY <1>2, <3>4, <3>5 DEF Live, Held
  <2> QED BY <2>1, <2>2
<1>3. ASSUME NEW r \in Threads, Reading(r)', tempinbuf'.idx = i, tempinbuf'.answer.txn = m
      PROVE  Live(i, m)
  <2>1. CASE InframeRecv(t)
    <3>1. PICK f \in transit :
            \E w : tempinbuf' = [idx |-> f.idx, answer |-> [txn |-> f.txn, wkc |-> w]]
      BY <2>1 DEF InframeRecv
    <3>2. f.idx = i /\ f.txn = m BY <1>3, <3>1
    <3> QED BY <3>2 DEF Live
  <2>2. CASE ~InframeRecv(t)
    <3>1. Step(t) BY DEF Other, Step
    <3>2. Reading(r) /\ tempinbuf' = tempinbuf BY <1>3, <2>2, <3>1, FrameStays
    <3> QED BY <1>3, <3>2 DEF Live
  <2> QED BY <2>1, <2>2
<1>4. \/ \E f \in transit' : f.idx = i /\ f.txn = m
      \/ \E r \in Threads : Reading(r)' /\ tempinbuf'.idx = i /\ tempinbuf'.answer.txn = m
      \/ \E u \in Threads : \E k \in 1 .. Len(mine'[u]) : mine'[u][k].idx = i /\ mine'[u][k].txn = m
  BY DEF Live, Held
<1> QED BY <1>1, <1>2, <1>3, <1>4

\* A buffer that is lost is one more in use, and one more to spare.
LEMMA UsedLost ==
  ASSUME Inv, SlotInv, ~starved, NEW t \in Threads, Other(t)
  PROVE  \E d \in {0, 1} :
           /\ Spare' = Spare + d /\ Spare \in Int
           /\ \A i, x : /\ Cardinality(Beyond(i, x)') <= Cardinality(Beyond(i, x)) + d
                        /\ Cardinality(Beyond(i, x)') \in Nat /\ Cardinality(Beyond(i, x)) \in Nat
<1>0. setup' = setup BY OtherFrame
<1>1. IsFiniteSet(lost) /\ Cardinality(lost) \in Nat BY LostFinite DEF Inv, TypeOK
<1>2. Cardinality(Slots) \in Nat /\ Slots' = Slots
  BY <1>0, SlotsFinite DEF Inv, TypeOK, Slots
<1>3. Spare \in Int BY <1>1, <1>2 DEF Spare
<1>4. CASE lost' = lost /\ \A j \in Bufs : Used(j)' => Used(j)
  <2>1. Spare' = Spare BY <1>2, <1>4 DEF Spare
  <2>2. ASSUME NEW i, NEW x
        PROVE  /\ Cardinality(Beyond(i, x)') <= Cardinality(Beyond(i, x))
               /\ Cardinality(Beyond(i, x)') \in Nat /\ Cardinality(Beyond(i, x)) \in Nat
    <3>1. Beyond(i, x)' \subseteq Beyond(i, x) BY <1>4 DEF Beyond, Dist
    <3> QED BY <3>1, BeyondLess, BeyondFinite
  <2>3. \A i, x : /\ Cardinality(Beyond(i, x)') <= Cardinality(Beyond(i, x)) + 0
                  /\ Cardinality(Beyond(i, x)') \in Nat /\ Cardinality(Beyond(i, x)) \in Nat
    BY <2>2
  <2>4. Spare' = Spare + 0 BY <1>3, <2>1
  <2> QED BY <1>3, <2>3, <2>4
<1>5. CASE Spoils(t)
  <2>1. PICK s : s = idx[t] OBVIOUS
  <2>2. /\ s \in Bufs /\ s \notin lost /\ ~Used(s) /\ lost' = lost \cup {s}
        /\ \A j \in Bufs : Used(j)' <=> Used(j) \/ j = s
    BY <1>5, <2>1 DEF Spoils
  <2>3. Cardinality(lost') = Cardinality(lost) + 1 BY <1>1, <2>2, FS_AddElement
  <2>4. Spare' = Spare + 1 BY <1>1, <1>2, <2>3 DEF Spare
  <2>5. ASSUME NEW i, NEW x
        PROVE  /\ Cardinality(Beyond(i, x)') <= Cardinality(Beyond(i, x)) + 1
               /\ Cardinality(Beyond(i, x)') \in Nat /\ Cardinality(Beyond(i, x)) \in Nat
    <3>1. PICK B : B = Beyond(i, x) OBVIOUS
    <3>2. IsFiniteSet(B) /\ Cardinality(B) \in Nat BY <3>1, BeyondFinite
    <3>3. Beyond(i, x)' \subseteq B \cup {s} BY <2>2, <3>1 DEF Beyond, Dist
    <3>4. PICK C : C = Beyond(i, x)' OBVIOUS
    <3>5. IsFiniteSet(B \cup {s}) /\ Cardinality(B \cup {s}) <= Cardinality(B) + 1
      <4>1. s \notin B BY <2>2, <3>1 DEF Beyond
      <4>2. IsFiniteSet(B \cup {s}) /\ Cardinality(B \cup {s}) = Cardinality(B) + 1
        BY <3>2, <4>1, FS_AddElement
      <4> QED BY <3>2, <4>2
    <3>6. C \in SUBSET (B \cup {s}) BY <3>3, <3>4
    <3>7. IsFiniteSet(C) /\ Cardinality(C) <= Cardinality(B \cup {s}) BY <3>5, <3>6, FS_Subset
    <3>8. Cardinality(C) \in Nat /\ Cardinality(B \cup {s}) \in Nat
      BY <3>5, <3>7, FS_CardinalityType
    <3> QED BY <3>1, <3>2, <3>4, <3>5, <3>7, <3>8
  <2> QED BY <1>3, <2>4, <2>5
<1> QED BY <1>4, <1>5, OtherSlots

-----------------------------------------------------------------------------
\* The buffer that a search looks at after c others.
LEMMA NextLooked ==
  ASSUME NEW l \in Bufs, NEW c \in Nat, c < EC_MAXBUF
  PROVE  /\ Wrap(l + 1 + c) \in Bufs /\ Dist(NextIdx(l), Wrap(l + 1 + c)) = c
         /\ NextIdx(l) \in Bufs
         /\ c + 1 < EC_MAXBUF => NextIdx(Wrap(l + 1 + c)) = Wrap(l + 1 + (c + 1))
         /\ \A i \in Bufs : Dist(i, l) + c + 1 < EC_MAXBUF =>
              Dist(i, Wrap(l + 1 + c)) = Dist(i, l) + c + 1
<1>1. l \in Nat /\ l < EC_MAXBUF /\ EC_MAXBUF \in Nat /\ EC_MAXBUF > 0 BY BufFacts
<1>2. Wrap(l + 1 + c) \in Nat /\ Wrap(l + 1 + c) < EC_MAXBUF BY <1>1 DEF Wrap
<1>3. Wrap(l + 1 + c) \in Bufs BY <1>2, BufFacts
<1>4. NextIdx(l) \in Bufs BY NextIdxInBufs
<1>5. Dist(NextIdx(l), Wrap(l + 1 + c)) = c BY <1>1 DEF Dist, NextIdx, Wrap
<1>6. c + 1 < EC_MAXBUF => NextIdx(Wrap(l + 1 + c)) = Wrap(l + 1 + (c + 1))
  BY <1>1 DEF NextIdx, Wrap
<1>7. ASSUME NEW i \in Bufs, Dist(i, l) + c + 1 < EC_MAXBUF
      PROVE  Dist(i, Wrap(l + 1 + c)) = Dist(i, l) + c + 1
  <2>1. i \in Nat /\ i < EC_MAXBUF BY BufFacts
  <2> QED BY <1>1, <1>7, <2>1 DEF Dist, Wrap
<1> QED BY <1>3, <1>4, <1>5, <1>6, <1>7

\* A search stays short of a whole round, and short of an index that may still be answered.
LEMMA SearchShort ==
  ASSUME Enough, Inv, AnswerInv, NEW t \in Threads, Searching(t)
  PROVE  /\ cnt[t] \in Nat /\ cnt[t] < EC_MAXBUF /\ idx[t] = Wrap(lastidx + 1 + cnt[t])
         /\ \A i \in Bufs, m \in Txns : Live(i, m) /\ m + Reach > begun + 1 =>
              /\ Dist(i, lastidx) + cnt[t] + 1 < EC_MAXBUF
              /\ Dist(i, idx[t]) = Dist(i, lastidx) + cnt[t] + 1
              /\ Dist(i, lastidx) \in Nat /\ i # idx[t]
<1>1. /\ lastidx \in Bufs /\ begun \in Nat /\ cnt[t] \in 0 .. EC_MAXBUF BY DEF Inv, TypeOK
<1>2. Spare \in Int /\ Reach \in Int /\ Spare + Reach <= EC_MAXBUF /\ Reach > 0
  <2>1. <<t, 1>> \in Slots /\ IsFiniteSet(Slots) /\ Cardinality(Slots) \in Nat
    BY InSlots, SlotsFinite DEF Searching, AnswerInv, Inv, TypeOK
  <2>2. Cardinality(Slots) # 0 BY <2>1, FS_EmptySet
  <2>3. Reach > 0 BY <2>1, <2>2, BufFacts DEF Reach
  <2> QED BY <2>3, EnoughMeans DEF Inv
<1>3. /\ idx[t] = Wrap(lastidx + 1 + cnt[t])
      /\ cnt[t] + Cardinality(Beyond(NextIdx(lastidx), cnt[t])) <= Spare
  BY DEF AnswerInv, SearchInv
<1>4. cnt[t] \in Nat /\ cnt[t] < EC_MAXBUF
  <2>1. PICK b \in Nat : b = Cardinality(Beyond(NextIdx(lastidx), cnt[t])) BY BeyondFinite
  <2> QED BY <1>1, <1>2, <1>3, <2>1, BufFacts
<1>5. ASSUME NEW i \in Bufs, NEW m \in Txns, Live(i, m), m + Reach > begun + 1
      PROVE  /\ Dist(i, lastidx) + cnt[t] + 1 < EC_MAXBUF
             /\ Dist(i, idx[t]) = Dist(i, lastidx) + cnt[t] + 1
             /\ Dist(i, lastidx) \in Nat /\ i # idx[t]
  <2>1. Room(i, m, cnt[t]) BY <1>5 DEF AnswerInv, RoomInv
  <2>2. PICK d \in Nat : d = Dist(i, lastidx) BY <1>1, BufFacts DEF Dist
  <2>3. PICK b \in Nat : b = Cardinality(Beyond(i, d + cnt[t] + 1)) BY BeyondFinite
  <2>4. d + cnt[t] + b <= begun - m + Spare BY <2>1, <2>2, <2>3 DEF Room
  <2>5. m \in Int BY DEF Txns
  <2>6. d + cnt[t] + 1 < EC_MAXBUF BY <1>1, <1>2, <1>4, <1>5, <2>4, <2>5, BufFacts
  <2>7. Dist(i, idx[t]) = d + cnt[t] + 1 BY <1>1, <1>3, <1>4, <2>2, <2>6, NextLooked
  <2>8. Dist(i, i) = 0 BY BufFacts DEF Dist
  <2> QED BY <1>4, <2>2, <2>6, <2>7, <2>8
<1> QED BY <1>3, <1>4, <1>5

\* The frame a thread reads is not for the index that another is about to take.
LEMMA ReadNotTaken ==
  ASSUME Enough, Inv, AnswerInv, NEW t \in Threads, Searching(t), NEW r \in Threads, Reading(r)
  PROVE  tempinbuf.idx # idx[t]
<1>1. tempinbuf.idx \in Bufs /\ tempinbuf.answer.txn \in Txns
  BY DEF Inv, TypeOK, Received, ReadInv
<1>2. Live(tempinbuf.idx, tempinbuf.answer.txn) BY DEF Live
<1>3. tempinbuf.answer.txn + Reach > begun + 1 BY OverlapBound DEF AnswerInv
<1> QED BY <1>1, <1>2, <1>3, SearchShort

\* A step of this kind keeps what is known of the searches and of who owns an index.
LEMMA OtherRoom ==
  ASSUME Disciplined, Enough, Inv, AnswerInv, NEW t \in Threads, Other(t)
  PROVE  SlotInv' /\ SearchInv' /\ RoomInv' /\ OwnInv'
<1> USE DEF AnswerInv
<1>0. ~starved /\ Step(t) BY DEF SearchInv, Other, Step
<1>1. /\ UNCHANGED <<setup, lastidx, begun>> /\ starved' = starved /\ cnt' = cnt
      /\ ~Searching(t)
      /\ \A u \in Threads : Searching(u)' => Searching(u) /\ idx'[u] = idx[u]
  BY OtherFrame
<1>2. /\ Entries /\ SlotInv'
      /\ Spoils(t) \/ (lost' = lost /\ \A j \in Bufs : Used(j)' => Used(j))
  BY <1>0, OtherSlots
<1>3. \A i, m : Live(i, m)' => Live(i, m) BY <1>0, OtherLive
<1>4. PICK d \in {0, 1} :
        /\ Spare' = Spare + d /\ Spare \in Int
        /\ \A i, x : /\ Cardinality(Beyond(i, x)') <= Cardinality(Beyond(i, x)) + d
                     /\ Cardinality(Beyond(i, x)') \in Nat /\ Cardinality(Beyond(i, x)) \in Nat
  BY <1>0, UsedLost
<1>5. lastidx \in Bufs /\ cnt \in [Threads -> 0 .. EC_MAXBUF] /\ begun \in Nat
      /\ idx \in [Threads -> Bufs]
  BY DEF Inv, TypeOK
<1>6. Reach' = Reach BY <1>1 DEF Reach, Slots
<1>7. ASSUME NEW u \in Threads, pc'[u] = "claim" PROVE ~Used(idx[u])'
  <2>1. Searching(u) /\ idx'[u] = idx[u] /\ u # t BY <1>1, <1>7 DEF Searching
  <2>2. pc[u] = "claim" BY <1>0, <1>7, <2>1, StepFrame
  <2>3. PICK i \in Bufs : i = idx[u] BY <1>5
  <2>4. ~Used(i) BY <2>1, <2>2, <2>3 DEF SearchInv
  <2>5. CASE Spoils(t)
    <3>1. pc[t] = "mark" /\ \A j \in Bufs : Used(j)' <=> Used(j) \/ j = idx[t]
      BY <2>5 DEF Spoils, InframeFile, Goto
    <3>2. idx[t] = tempinbuf.idx /\ Reading(t) BY <3>1 DEF Inv, ReadInv, Reading
    <3>3. idx[t] # i BY <2>1, <2>3, <3>2, ReadNotTaken
    <3>4. ~Used(i)' BY <2>4, <3>1, <3>3
    <3> QED BY <2>1, <2>3, <3>4 DEF Used
  <2>6. CASE lost' = lost /\ \A j \in Bufs : Used(j)' => Used(j)
    <3>1. ~Used(i)' BY <2>4, <2>6
    <3> QED BY <2>1, <2>3, <3>1 DEF Used
  <2> QED BY <1>2, <2>5, <2>6
<1>8. SearchInv'
  <2>1. ASSUME NEW u \in Threads, Searching(u)'
        PROVE  /\ idx'[u] = Wrap(lastidx' + 1 + cnt'[u])
               /\ cnt'[u] + Cardinality(Beyond(NextIdx(lastidx), cnt[u])') <= Spare'
               /\ pc'[u] = "claim" => ~Used(idx[u])'
    <3>1. /\ idx[u] = Wrap(lastidx + 1 + cnt[u])
          /\ cnt[u] + Cardinality(Beyond(NextIdx(lastidx), cnt[u])) <= Spare
      BY <1>1, <2>1 DEF SearchInv
    <3>2. idx'[u] = Wrap(lastidx' + 1 + cnt'[u]) BY <1>1, <2>1, <3>1 DEF Wrap
    <3>3. PICK c \in Int : c = cnt[u] BY <1>5
    <3>4. PICK i : i = NextIdx(lastidx) OBVIOUS
    <3>5. Beyond(NextIdx(lastidx), cnt[u])' = Beyond(i, c)'
      BY <1>1, <3>3, <3>4 DEF Beyond, Used, Dist, NextIdx
    <3>6. c + Cardinality(Beyond(i, c)) <= Spare BY <3>1, <3>3, <3>4
    <3>7. c + Cardinality(Beyond(i, c)') <= Spare + d BY <1>4, <3>6
    <3> QED BY <1>1, <1>4, <1>7, <3>2, <3>3, <3>5, <3>7
  <2> QED BY <1>0, <1>1, <2>1 DEF SearchInv
<1>9. ASSUME NEW i \in Bufs, NEW m \in Txns, NEW c \in Nat, Room(i, m, c)
      PROVE  Room(i, m, c)'
  <2>1. PICK e \in Int : e = Dist(i, lastidx) BY <1>5, BufFacts DEF Dist
  <2>2. e = Dist(i, lastidx)' BY <1>1, <2>1 DEF Dist
  <2>3. m \in Int BY DEF Txns
  <2>4. PICK x \in Int : x = e + c + 1 OBVIOUS
  <2>5. e + c + Cardinality(Beyond(i, x)) <= begun - m + Spare BY <1>9, <2>1, <2>4 DEF Room
  <2>6. /\ Cardinality(Beyond(i, x)') <= Cardinality(Beyond(i, x)) + d
        /\ Cardinality(Beyond(i, x)') \in Nat /\ Cardinality(Beyond(i, x)) \in Nat
    BY <1>4
  <2>7. e + c + Cardinality(Beyond(i, x)') <= begun - m + (Spare + d)
    BY <1>4, <1>5, <2>3, <2>5, <2>6
  <2> QED BY <1>1, <1>4, <2>2, <2>4, <2>7 DEF Room
<1>10. RoomInv'
  <2> SUFFICES ASSUME NEW i \in Bufs, NEW m \in Txns, Live(i, m)'
               PROVE  /\ m + Reach' > begun' => Room(i, m, 0)'
                      /\ m + Reach' > begun' + 1 =>
                           \A u \in Threads : Searching(u)' => Room(i, m, cnt[u])'
    BY DEF RoomInv
  <2>1. /\ m + Reach > begun => Room(i, m, 0)
        /\ m + Reach > begun + 1 => \A u \in Threads : Searching(u) => Room(i, m, cnt[u])
    BY <1>3 DEF RoomInv
  <2>2. m + Reach' > begun' => Room(i, m, 0)' BY <1>1, <1>6, <1>9, <2>1
  <2>3. ASSUME m + Reach' > begun' + 1, NEW u \in Threads, Searching(u)'
        PROVE  Room(i, m, cnt[u])'
    <3>1. PICK c \in Nat : c = cnt[u] BY <1>5, BufFacts
    <3>2. Room(i, m, c)' BY <1>1, <1>6, <1>9, <2>1, <2>3, <3>1
    <3>3. c = cnt'[u] BY <1>1, <3>1
    <3> QED BY <3>2, <3>3
  <2> QED BY <2>2, <2>3
<1>11. OwnInv'
  <2> SUFFICES ASSUME NEW i \in Bufs, NEW m \in Txns, Live(i, m)',
                      NEW u \in Threads, NEW k \in 1 .. Len(mine'[u]), mine'[u][k].idx = i
               PROVE  mine'[u][k].txn = m
    BY DEF OwnInv, Held
  <2>1. PICK j \in 1 .. Len(mine[u]) : mine'[u][k] = mine[u][j] BY <1>2 DEF Entries
  <2> QED BY <1>3, <2>1 DEF OwnInv, Held
<1> QED BY <1>2, <1>8, <1>10, <1>11

-----------------------------------------------------------------------------
\* A step that leaves the buffers and does not come to use, test or mark an answer.
LEMMA FiledKept ==
  ASSUME FiledInv, NEW t \in Threads, UNCHANGED <<rxbufstat, rxbuf, tempinbuf, mine, wkc>>,
         \A u \in Threads \ {t} : pc'[u] = pc[u] /\ idx'[u] = idx[u],
         pc'[t] \notin {"mark", "test", "use"}
  PROVE  FiledInv'
<1>1. ASSUME NEW u \in Threads, pc'[u] = "mark", IsHeld(idx[u])'
      PROVE  rxbuf'[idx'[u]] = tempinbuf'.answer
  <2>1. pc[u] = "mark" /\ idx'[u] = idx[u] BY <1>1
  <2>2. IsHeld(idx[u]) BY <1>1, <2>1 DEF IsHeld, Held
  <2> QED BY <2>1, <2>2 DEF FiledInv
<1>2. \A u \in Threads : pc'[u] \in {"test", "use"} => pc[u] = pc'[u] OBVIOUS
<1>3. \A u \in Threads : \A k \in 1 .. Len(mine'[u]) :
        rxbufstat'[Held(u, k)'] = "RCVD" => rxbuf'[Held(u, k)'].txn = mine'[u][k].txn
  BY DEF FiledInv, Held
<1>4. \A u \in Threads : pc'[u] = "test" => wkc'[u] \in {EC_NOFRAME, EC_OTHERFRAME}
  BY <1>2 DEF FiledInv
<1>5. \A u \in Threads : pc'[u] = "use" /\ wkc'[u] > EC_NOFRAME =>
        /\ rxbufstat'[Mine(u)'] = "COMPLETE"
        /\ rxbuf'[Mine(u)'].txn = Head(mine'[u]).txn /\ rxbuf'[Mine(u)'].wkc = wkc'[u]
  BY <1>2 DEF FiledInv, Mine
<1> QED BY <1>1, <1>3, <1>4, <1>5 DEF FiledInv

\* A search begins at the buffer after the one found last.
LEMMA TakeAnswers ==
  ASSUME Disciplined, Enough, Inv, AnswerInv, NEW t \in Threads, GetindexTake(t)
  PROVE  AnswerInv'
<1> USE DEF AnswerInv
<1>1. /\ pc[t] = "take" /\ pc' = [pc EXCEPT ![t] = "scan"]
      /\ idx' = [idx EXCEPT ![t] = NextIdx(lastidx)]
      /\ cnt' = [cnt EXCEPT ![t] = 0]
      /\ UNCHANGED <<setup, lastidx, rxbufstat, rxbuf, tempinbuf, transit, begun, planned,
                     starved, lost, op, mine, try, timer, wkc>>
  BY DEF GetindexTake, Goto, bufs, count, work, wait
<1>2. /\ pc'[t] = "scan" /\ idx'[t] = NextIdx(lastidx) /\ cnt'[t] = 0
      /\ \A u \in Threads \ {t} : pc'[u] = pc[u] /\ idx'[u] = idx[u] /\ cnt'[u] = cnt[u]
      /\ lastidx \in Bufs
  BY <1>1 DEF Inv, TypeOK
<1>3. SlotInv'
  <2>1. \A i : (Used(i)' <=> Used(i)) /\ (IsHeld(i)' <=> IsHeld(i)) BY <1>1 DEF Used, IsHeld, Held
  <2>2. \A u \in Threads : Batch(op[u])' = Batch(op[u]) BY <1>1 DEF Batch
  <2> QED BY <1>1, <1>2, <2>1, <2>2 DEF SlotInv
<1>4. Spare' = Spare /\ Reach' = Reach /\ \A i, x : Beyond(i, x)' = Beyond(i, x)
  BY <1>1 DEF Spare, Reach, Slots, Beyond, Used, Dist
<1>5. ASSUME NEW i, NEW m, Live(i, m)' PROVE Live(i, m)
  <2>1. \A r \in Threads : Reading(r)' => Reading(r) BY <1>2 DEF Reading
  <2> QED BY <1>1, <1>5, <2>1 DEF Live, Held
<1>6. SearchInv'
  <2>1. Cardinality(Beyond(NextIdx(lastidx), 0)) <= Spare
    <3>1. NextIdx(lastidx) \in Bufs BY <1>2, NextIdxInBufs
    <3>2. \A j \in Bufs : Dist(NextIdx(lastidx), j) >= 0 BY <3>1, BufFacts DEF Dist
    <3>3. Beyond(NextIdx(lastidx), 0) = {j \in Bufs : Used(j)} BY <3>2 DEF Beyond
    <3> QED BY <1>1, <3>3, SlotsBound
  <2>2. NextIdx(lastidx) = Wrap(lastidx + 1 + 0) BY <1>2, BufFacts DEF NextIdx, Wrap
  <2>3. Cardinality(Beyond(NextIdx(lastidx), 0)) \in Nat BY BeyondFinite
  <2>4. ASSUME NEW u \in Threads, Searching(u)'
        PROVE  /\ idx'[u] = Wrap(lastidx' + 1 + cnt'[u])
               /\ cnt'[u] + Cardinality(Beyond(NextIdx(lastidx), cnt[u])') <= Spare'
               /\ pc'[u] = "claim" => ~Used(idx[u])'
    <3>1. CASE u = t
      <4>1. cnt'[u] = 0 /\ NextIdx(lastidx)' = NextIdx(lastidx) BY <1>1, <1>2, <3>1 DEF NextIdx
      <4>2. Beyond(NextIdx(lastidx), cnt[u])' = Beyond(NextIdx(lastidx), 0)
        BY <1>1, <1>4, <4>1 DEF Beyond, Used, Dist
      <4>3. 0 + Cardinality(Beyond(NextIdx(lastidx), 0)) <= Spare BY <2>1, <2>3
      <4>4. Wrap(lastidx' + 1 + cnt'[u]) = Wrap(lastidx + 1 + 0) BY <1>1, <4>1 DEF Wrap
      <4>5. idx'[u] = Wrap(lastidx' + 1 + cnt'[u]) BY <1>2, <2>2, <3>1, <4>4
      <4>6. cnt'[u] + Cardinality(Beyond(NextIdx(lastidx), cnt[u])') <= Spare'
        BY <1>4, <4>1, <4>2, <4>3
      <4>7. pc'[u] # "claim" BY <1>2, <3>1
      <4> QED BY <4>5, <4>6, <4>7
    <3>2. CASE u # t
      <4>1. Searching(u) /\ cnt'[u] = cnt[u] /\ idx'[u] = idx[u] /\ pc'[u] = pc[u]
        BY <1>2, <2>4, <3>2 DEF Searching
      <4>2. Beyond(NextIdx(lastidx), cnt[u])' = Beyond(NextIdx(lastidx), cnt[u])
        BY <1>1, <4>1 DEF Beyond, Used, Dist, NextIdx
      <4>3. Used(idx[u])' <=> Used(idx[u]) BY <1>1, <4>1 DEF Used
      <4> QED BY <1>1, <1>4, <4>1, <4>2, <4>3 DEF SearchInv, Wrap
    <3> QED BY <3>1, <3>2
  <2>5. ~starved /\ starved' = starved BY <1>1 DEF SearchInv
  <2>6. ~starved' BY <2>5
  <2> QED BY <2>4, <2>6 DEF SearchInv
<1>7. RoomInv'
  <2> SUFFICES ASSUME NEW i \in Bufs, NEW m \in Txns, Live(i, m)'
               PROVE  /\ m + Reach' > begun' => Room(i, m, 0)'
                      /\ m + Reach' > begun' + 1 =>
                           \A u \in Threads : Searching(u)' => Room(i, m, cnt[u])'
    BY DEF RoomInv
  <2>1. /\ m + Reach > begun => Room(i, m, 0)
        /\ m + Reach > begun + 1 => \A u \in Threads : Searching(u) => Room(i, m, cnt[u])
    BY <1>5 DEF RoomInv
  <2>2. \A c : Room(i, m, c)' = Room(i, m, c)
    BY <1>1, <1>4 DEF Room, Dist, Beyond, Used
  <2>3. m + Reach' > begun' => Room(i, m, 0)' BY <1>1, <1>4, <2>1, <2>2
  <2>4. ASSUME m + Reach' > begun' + 1, NEW u \in Threads, Searching(u)'
        PROVE  Room(i, m, cnt[u])'
    <3>1. CASE u = t
      <4>1. Reach \in Int BY EnoughMeans DEF Inv
      <4>2. m + Reach > begun BY <1>1, <1>4, <2>4, <4>1 DEF Inv, TypeOK, Txns
      <4>3. Room(i, m, 0)' BY <2>1, <2>2, <4>2
      <4> QED BY <1>2, <3>1, <4>3
    <3>2. CASE u # t
      <4>1. Searching(u) /\ cnt'[u] = cnt[u] BY <1>2, <2>4, <3>2 DEF Searching
      <4>2. PICK c : c = cnt[u] OBVIOUS
      <4>3. Room(i, m, c)' BY <1>1, <1>4, <2>1, <2>2, <2>4, <4>1, <4>2
      <4> QED BY <4>1, <4>2, <4>3
    <3> QED BY <3>1, <3>2
  <2> QED BY <2>3, <2>4
<1>8. OwnInv' BY <1>1, <1>5 DEF OwnInv, Held
<1>9. OverlapInv'
  <2>1. Step(t) /\ ~starved BY DEF Step, SearchInv
  <2> QED BY <2>1, OverlapKept
<1>10. FiledInv' BY <1>1, <1>2, FiledKept
<1> QED BY <1>3, <1>6, <1>7, <1>8, <1>9, <1>10

\* A search goes past a buffer in use, and ends at one that is not.
LEMMA ScanAnswers ==
  ASSUME Disciplined, Enough, Inv, AnswerInv, NEW t \in Threads, GetindexScan(t)
  PROVE  AnswerInv'
<1> USE DEF AnswerInv
<1>1. /\ pc[t] = "scan"
      /\ UNCHANGED <<setup, lastidx, rxbufstat, rxbuf, tempinbuf, mutex, transit, begun,
                     planned, starved, lost, op, mine, try, timer, wkc>>
  BY DEF GetindexScan, port, bufs, count, work, wait
<1>2. \/ /\ rxbufstat[idx[t]] # "EMPTY"
         /\ idx' = [idx EXCEPT ![t] = NextIdx(idx[t])]
         /\ cnt' = [cnt EXCEPT ![t] = cnt[t] + 1]
         /\ pc' = pc
      \/ /\ pc' = [pc EXCEPT ![t] = "claim"] /\ idx' = idx /\ cnt' = cnt
         /\ rxbufstat[idx[t]] = "EMPTY" \/ ~(cnt[t] < EC_MAXBUF)
  BY DEF GetindexScan
<1>3. /\ lastidx \in Bufs /\ idx[t] \in Bufs /\ begun \in Nat
      /\ pc \in [Threads -> Steps] /\ idx \in [Threads -> Bufs]
      /\ cnt \in [Threads -> 0 .. EC_MAXBUF]
  BY DEF Inv, TypeOK
<1>4. \A u \in Threads \ {t} : pc'[u] = pc[u] /\ ~Searching(u) /\ idx'[u] = idx[u]
  <2>1. \A u \in Threads \ {t} : ~Searching(u) BY <1>1, OneSearch DEF Searching
  <2> QED BY <1>2, <1>3, <2>1
<1>5. pc'[t] \in {"scan", "claim"} BY <1>1, <1>2, <1>3
<1>6. SlotInv'
  <2>1. \A i : (Used(i)' <=> Used(i)) /\ (IsHeld(i)' <=> IsHeld(i)) BY <1>1 DEF Used, IsHeld, Held
  <2>2. \A u \in Threads : Batch(op[u])' = Batch(op[u]) BY <1>1 DEF Batch
  <2> QED BY <1>1, <1>4, <1>5, <2>1, <2>2 DEF SlotInv
<1>7. Spare' = Spare /\ Reach' = Reach /\ \A i, x : Beyond(i, x)' = Beyond(i, x)
  BY <1>1 DEF Spare, Reach, Slots, Beyond, Used, Dist
<1>8. ASSUME NEW i, NEW m, Live(i, m)' PROVE Live(i, m)
  <2>1. \A r \in Threads : Reading(r)' => Reading(r) BY <1>4, <1>5 DEF Reading
  <2> QED BY <1>1, <1>8, <2>1 DEF Live, Held
<1>9. OwnInv' BY <1>1, <1>8 DEF OwnInv, Held
<1>10. OverlapInv'
  <2>1. Step(t) /\ ~starved BY DEF Step, SearchInv
  <2> QED BY <2>1, OverlapKept
<1>11. FiledInv' BY <1>1, <1>4, <1>5, FiledKept
<1>12. Searching(t) /\ ~starved BY <1>1 DEF Searching, SearchInv
<1>13. PICK c \in Nat : c = cnt[t] BY <1>12, SearchShort
<1>14. /\ c < EC_MAXBUF /\ idx[t] = Wrap(lastidx + 1 + c)
       /\ \A i \in Bufs, m \in Txns : Live(i, m) /\ m + Reach > begun + 1 =>
            /\ Dist(i, lastidx) + c + 1 < EC_MAXBUF
            /\ Dist(i, idx[t]) = Dist(i, lastidx) + c + 1
            /\ Dist(i, lastidx) \in Nat
  BY <1>12, <1>13, SearchShort
<1>15. c + Cardinality(Beyond(NextIdx(lastidx), c)) <= Spare BY <1>12, <1>13 DEF SearchInv
<1>16. Spare \in Int /\ Spare + Reach <= EC_MAXBUF /\ Reach \in Int /\ Reach > 0
  <2>1. <<t, 1>> \in Slots /\ IsFiniteSet(Slots) /\ Cardinality(Slots) \in Nat
    BY <1>1, InSlots, SlotsFinite DEF Inv, TypeOK
  <2>2. Cardinality(Slots) # 0 BY <2>1, FS_EmptySet
  <2>3. Reach > 0 BY <2>1, <2>2, BufFacts DEF Reach
  <2> QED BY <2>3, EnoughMeans DEF Inv
<1>17. \A i \in Bufs, m \in Txns : Live(i, m) =>
         /\ m + Reach > begun => Room(i, m, 0)
         /\ m + Reach > begun + 1 => Room(i, m, c)
  BY <1>12, <1>13 DEF RoomInv
<1>18. \A i, m, x : Room(i, m, x)' = Room(i, m, x)
  BY <1>1, <1>7 DEF Room, Dist, Beyond, Used
<1>19. ~starved'
  <2>1. starved' = starved BY <1>1
  <2> QED BY <1>12, <2>1
<1>20. CASE /\ pc' = [pc EXCEPT ![t] = "claim"] /\ idx' = idx /\ cnt' = cnt
            /\ rxbufstat[idx[t]] = "EMPTY" \/ ~(cnt[t] < EC_MAXBUF)
  <2>1. NextIdx(lastidx)' = NextIdx(lastidx) BY <1>1 DEF NextIdx
  <2>2. cnt'[t] = c BY <1>13, <1>20
  <2>3. \A u \in Threads : Searching(u)' => u = t BY <1>4 DEF Searching
  <2>4. Beyond(NextIdx(lastidx), cnt[t])' = Beyond(NextIdx(lastidx), c)
    BY <1>1, <2>1, <2>2 DEF Beyond, Used, Dist
  <2>5. SearchInv'
    <3>1. idx'[t] = Wrap(lastidx' + 1 + cnt'[t]) BY <1>1, <1>14, <1>20, <2>2 DEF Wrap
    <3>2. rxbufstat[idx[t]] = "EMPTY" BY <1>13, <1>14, <1>20
    <3>3. ~Used(idx[t])' BY <1>1, <1>20, <3>2 DEF Used
    <3>4. cnt'[t] + Cardinality(Beyond(NextIdx(lastidx), cnt[t])') <= Spare'
      BY <1>7, <1>15, <2>2, <2>4
    <3> QED BY <1>19, <2>3, <3>1, <3>3, <3>4 DEF SearchInv
  <2>6. RoomInv' BY <1>1, <1>7, <1>8, <1>17, <1>18, <2>2, <2>3 DEF RoomInv
  <2> QED BY <1>6, <1>9, <1>10, <1>11, <2>5, <2>6
<1>21. CASE /\ rxbufstat[idx[t]] # "EMPTY"
            /\ idx' = [idx EXCEPT ![t] = NextIdx(idx[t])]
            /\ cnt' = [cnt EXCEPT ![t] = cnt[t] + 1]
            /\ pc' = pc
  <2>1. NextIdx(lastidx)' = NextIdx(lastidx) /\ NextIdx(lastidx) \in Bufs
    BY <1>1, <1>3, NextIdxInBufs DEF NextIdx
  <2>2. cnt'[t] = c + 1 /\ idx'[t] = NextIdx(idx[t]) BY <1>3, <1>13, <1>21
  <2>3. \A u \in Threads : Searching(u)' => u = t BY <1>4 DEF Searching
  <2>4. Used(idx[t]) BY <1>21 DEF Used
  <2>5. PICK first \in Bufs : first = NextIdx(lastidx) BY <2>1
  <2>6. Dist(first, idx[t]) = c BY <1>3, <1>14, <2>5, NextLooked
  <2>7. Cardinality(Beyond(first, c + 1)) = Cardinality(Beyond(first, c)) - 1
    BY <1>3, <2>4, <2>6, BeyondNext
  <2>8. /\ Cardinality(Beyond(first, c + 1)) \in Nat /\ Cardinality(Beyond(first, c)) \in Nat
    BY BeyondFinite
  <2>9. c + 1 + Cardinality(Beyond(first, c + 1)) <= Spare /\ c + 1 < EC_MAXBUF
    <3>1. c + Cardinality(Beyond(first, c)) <= Spare BY <1>15, <2>5
    <3> QED BY <1>16, <2>7, <2>8, <3>1, BufFacts
  <2>10. Beyond(NextIdx(lastidx), cnt[t])' = Beyond(first, c + 1)
    BY <1>1, <2>1, <2>2, <2>5 DEF Beyond, Used, Dist
  <2>11. SearchInv'
    <3>1. idx'[t] = Wrap(lastidx + 1 + (c + 1))
      BY <1>3, <1>14, <2>2, <2>9, NextLooked
    <3>2. idx'[t] = Wrap(lastidx' + 1 + cnt'[t]) BY <1>1, <2>2, <3>1 DEF Wrap
    <3>3. cnt'[t] + Cardinality(Beyond(NextIdx(lastidx), cnt[t])') <= Spare'
      BY <1>7, <2>2, <2>9, <2>10
    <3>4. pc'[t] # "claim" BY <1>1, <1>21
    <3> QED BY <1>19, <2>3, <3>2, <3>3, <3>4 DEF SearchInv
  <2>12. ASSUME NEW i \in Bufs, NEW m \in Txns, Live(i, m), m + Reach > begun + 1
         PROVE  Room(i, m, c + 1)
    <3>1. Room(i, m, c) BY <1>17, <2>12
    <3>2. PICK d \in Nat : d = Dist(i, lastidx) /\ Dist(i, idx[t]) = d + c + 1 BY <1>14, <2>12
    <3>3. Cardinality(Beyond(i, d + c + 1 + 1)) = Cardinality(Beyond(i, d + c + 1)) - 1
      BY <1>3, <2>4, <3>2, BeyondNext
    <3>4. d + c + 1 + 1 = d + (c + 1) + 1 OBVIOUS
    <3>5. PICK e \in Nat : e = Cardinality(Beyond(i, d + c + 1)) BY BeyondFinite
    <3>6. d + c + e <= begun - m + Spare BY <3>1, <3>2, <3>5 DEF Room
    <3>7. d + (c + 1) + (e - 1) <= begun - m + Spare
      BY <1>3, <1>16, <3>6 DEF Txns
    <3>8. Cardinality(Beyond(i, d + (c + 1) + 1)) = e - 1 BY <3>3, <3>4, <3>5
    <3> QED BY <3>2, <3>7, <3>8 DEF Room
  <2>13. RoomInv'
    <3>1. ASSUME NEW i \in Bufs, NEW m \in Txns, Live(i, m)'
          PROVE  /\ m + Reach' > begun' => Room(i, m, 0)'
                 /\ m + Reach' > begun' + 1 => Room(i, m, c + 1)'
      BY <1>1, <1>7, <1>8, <1>17, <1>18, <2>12, <3>1
    <3> QED BY <2>2, <2>3, <3>1 DEF RoomInv
  <2> QED BY <1>6, <1>9, <1>10, <1>11, <2>11, <2>13
<1> QED BY <1>2, <1>20, <1>21

\* The buffer taken is free, and no frame of an earlier transaction comes for it any more.
LEMMA ClaimAnswers ==
  ASSUME Disciplined, Enough, Inv, AnswerInv, NEW t \in Threads, GetindexClaim(t)
  PROVE  AnswerInv'
<1> USE DEF AnswerInv
<1> DEFINE h == [idx |-> idx[t], txn |-> begun + 1]
           n == Len(mine[t])
<1>1. /\ pc[t] = "claim" /\ pc' = [pc EXCEPT ![t] = "send"]
      /\ rxbufstat' = [rxbufstat EXCEPT ![idx[t]] = "ALLOC"]
      /\ lastidx' = idx[t] /\ begun' = begun + 1
      /\ mine' = [mine EXCEPT ![t] = Append(mine[t], h)]
      /\ transit' = {f \in transit : Timely(f.txn, begun + 1)}
      /\ mutex' = Released(t, "getindex_mutex")
      /\ starved' = (starved \/ (cnt[t] = EC_MAXBUF /\ rxbufstat[idx[t]] # "EMPTY"))
      /\ UNCHANGED <<setup, rxbuf, tempinbuf, planned, lost, op, try, timer, wkc>>
  BY DEF GetindexClaim, BeginTxn, Goto, wait
<1>2. Searching(t) /\ ~starved BY <1>1 DEF Searching, SearchInv
<1>3. PICK c \in Nat : c = cnt[t] BY <1>2, SearchShort
<1>4. /\ c < EC_MAXBUF /\ idx[t] = Wrap(lastidx + 1 + c)
      /\ \A i \in Bufs, m \in Txns : Live(i, m) /\ m + Reach > begun + 1 =>
           /\ Dist(i, lastidx) + c + 1 < EC_MAXBUF
           /\ Dist(i, idx[t]) = Dist(i, lastidx) + c + 1
           /\ Dist(i, lastidx) \in Nat /\ i # idx[t]
  BY <1>2, <1>3, SearchShort
<1>5. rxbufstat[idx[t]] = "EMPTY" /\ ~starved'
  <2>1. rxbufstat[idx[t]] = "EMPTY" BY <1>1, <1>2 DEF SearchInv, Used
  <2> QED BY <1>1, <1>2, <2>1
<1>6. /\ idx[t] \in Bufs /\ begun \in Nat /\ lastidx \in Bufs /\ rxbufstat \in [Bufs -> BufStates]
      /\ mine \in [Threads -> Seq(Holding)] /\ pc \in [Threads -> Steps]
  BY DEF Inv, TypeOK
<1>7. /\ n \in Nat /\ Len(mine'[t]) = n + 1 /\ mine'[t][n + 1] = h
      /\ \A k \in 1 .. n : mine'[t][k] = mine[t][k]
      /\ \A u \in Threads \ {t} : mine'[u] = mine[u] /\ pc'[u] = pc[u]
      /\ pc'[t] = "send"
  <2>1. mine[t] \in Seq(Holding) /\ mine'[t] = Append(mine[t], h) BY <1>1, <1>6
  <2>2. h \in Holding BY <1>6 DEF Holding, Txns
  <2>3. \A u \in Threads \ {t} : mine'[u] = mine[u] /\ pc'[u] = pc[u] BY <1>1, <1>6
  <2>4. pc'[t] = "send" BY <1>1, <1>6
  <2> HIDE DEF h
  <2> QED BY <2>1, <2>2, <2>3, <2>4
\* The entries after the step: the new one, or an old one, whose buffer is another.
<1>8. ASSUME NEW u \in Threads, NEW k \in 1 .. Len(mine'[u])
      PROVE  \/ u = t /\ k = n + 1 /\ mine'[u][k] = h
             \/ /\ k \in 1 .. Len(mine[u]) /\ mine'[u][k] = mine[u][k]
                /\ Held(u, k) # idx[t] /\ Held(u, k) \in Bufs /\ Used(Held(u, k))
  <2>1. \/ u = t /\ k = n + 1 /\ mine'[u][k] = h
        \/ k \in 1 .. Len(mine[u]) /\ mine'[u][k] = mine[u][k]
    <3>1. CASE u = t
      <4>1. k = n + 1 \/ k \in 1 .. n BY <1>7, <1>8, <3>1
      <4> QED BY <1>7, <3>1, <4>1
    <3>2. CASE u # t BY <1>7, <1>8, <3>2
    <3> QED BY <3>1, <3>2
  <2>2. k \in 1 .. Len(mine[u]) =>
          Held(u, k) # idx[t] /\ Held(u, k) \in Bufs /\ Used(Held(u, k))
    BY <1>2, <1>5, <1>6, HeldInBufs DEF Inv, IndexInv, Marked, Used
  <2> QED BY <2>1, <2>2
<1>9. \A u \in Threads : \A k \in 1 .. Len(mine[u]) :
        k \in 1 .. Len(mine'[u]) /\ mine'[u][k] = mine[u][k]
  <2> SUFFICES ASSUME NEW u \in Threads, NEW k \in 1 .. Len(mine[u])
               PROVE  k \in 1 .. Len(mine'[u]) /\ mine'[u][k] = mine[u][k]
    OBVIOUS
  <2>1. CASE u = t
    <3>1. k \in 1 .. n + 1 BY <1>7, <2>1
    <3> QED BY <1>7, <2>1, <3>1
  <2>2. CASE u # t BY <1>7, <2>2
  <2> QED BY <2>1, <2>2
<1>10. ASSUME NEW i \in Bufs, NEW m \in Txns, Live(i, m)'
       PROVE  (i = idx[t] /\ m = begun + 1) \/ Live(i, m)
  <2>1. ASSUME NEW u \in Threads, NEW k \in 1 .. Len(mine'[u]), mine'[u][k].idx = i,
               mine'[u][k].txn = m
        PROVE  (i = idx[t] /\ m = begun + 1) \/ Live(i, m)
    BY <1>8, <2>1 DEF Live, Held
  <2>2. (\E f \in transit' : f.idx = i /\ f.txn = m) => Live(i, m) BY <1>1 DEF Live
  <2>3. ASSUME NEW r \in Threads, Reading(r)', tempinbuf'.idx = i, tempinbuf'.answer.txn = m
        PROVE  Live(i, m)
    <3>1. Reading(r) BY <1>7, <2>3 DEF Reading
    <3> QED BY <1>1, <2>3, <3>1 DEF Live
  <2> QED BY <1>10, <2>1, <2>2, <2>3 DEF Live, Held
<1>11. SlotInv'
  <2>1. ASSUME NEW i \in Bufs, Used(i)' PROVE i \in lost' \/ IsHeld(i)'
    <3>1. CASE i = idx[t]
      <4>1. n + 1 \in 1 .. Len(mine'[t]) /\ mine'[t][n + 1].idx = i BY <1>7, <3>1
      <4> QED BY <4>1 DEF IsHeld, Held
    <3>2. CASE i # idx[t]
      <4>1. Used(i) BY <1>1, <1>6, <2>1, <3>2 DEF Used
      <4> QED BY <1>1, <1>9, <4>1 DEF SlotInv, IsHeld, Held
    <3> QED BY <3>1, <3>2
  <2>4. ASSUME NEW i \in lost' PROVE Used(i)' /\ ~IsHeld(i)'
    <3>1. i \in lost /\ i \in Bufs BY <1>1 DEF Inv, TypeOK
    <3>2. Used(i) /\ ~IsHeld(i) BY <3>1 DEF SlotInv
    <3>3. i # idx[t] BY <1>5, <3>2 DEF Used
    <3>4. Used(i)' BY <1>1, <1>6, <3>1, <3>2, <3>3 DEF Used
    <3>5. \A u \in Threads : \A k \in 1 .. Len(mine'[u]) : mine'[u][k].idx # i
      BY <1>8, <3>2, <3>3 DEF IsHeld, Held
    <3> QED BY <3>4, <3>5 DEF IsHeld, Held
  <2>2. n + 1 <= Batch(op[t])
    <3>1. n < Batch(op[t]) /\ Batch(op[t]) \in Nat BY <1>1, BufFacts DEF SlotInv, Batch
    <3> QED BY <1>7, <3>1
  <2>3. \A u \in Threads :
          /\ Len(mine'[u]) <= Batch(op'[u])
          /\ pc'[u] \in {"take", "scan", "claim"} => Len(mine'[u]) < Batch(op'[u])
          /\ pc'[u] = "idle" => Len(mine'[u]) = 0
          /\ op'[u] = "processdata" => u \in setup'.cyclic
    BY <1>1, <1>7, <2>2 DEF SlotInv
  <2>5. \A u \in Threads : Batch(op[u])' = Batch(op'[u]) BY DEF Batch
  <2> QED BY <2>1, <2>3, <2>4, <2>5 DEF SlotInv
<1>12. \A u \in Threads : ~Searching(u)'
  <2>1. \A u \in Threads \ {t} : ~Searching(u) BY <1>1, OneSearch DEF Searching
  <2> QED BY <1>7, <2>1 DEF Searching
<1>13. SearchInv' BY <1>5, <1>12 DEF SearchInv
<1>14. Spare \in Int /\ Spare' = Spare /\ Reach \in Int /\ Reach >= Lag /\ Reach' = Reach
  <2>1. <<t, n + 1>> \in Slots /\ IsFiniteSet(Slots) /\ Cardinality(Slots) \in Nat
    BY <1>1, InSlots, SlotsFinite DEF Inv, TypeOK
  <2>2. Cardinality(Slots) # 0 BY <2>1, FS_EmptySet
  <2>3. Reach >= Lag BY <2>1, <2>2, BufFacts DEF Reach
  <2>4. Spare' = Spare /\ Reach' = Reach BY <1>1 DEF Spare, Reach, Slots
  <2> QED BY <2>3, <2>4, EnoughMeans DEF Inv
<1>15. \A j \in Bufs : Used(j)' <=> Used(j) \/ j = idx[t] BY <1>1, <1>6 DEF Used
<1>16. PICK i0 \in Bufs, m0 \in Txns : i0 = idx[t] /\ m0 = begun + 1 BY <1>6 DEF Txns
<1>17. Room(i0, m0, 0)'
  <2>1. Dist(i0, lastidx)' = 0 /\ Dist(i0, i0) = 0 BY <1>1, <1>16, BufFacts DEF Dist
  <2>2. Beyond(i0, 1)' \subseteq {j \in Bufs : Used(j)}
    BY <1>15, <1>16, <2>1 DEF Beyond, Dist
  <2> DEFINE U == {j \in Bufs : Used(j)}
  <2>3. IsFiniteSet(U) /\ Cardinality(U) <= Spare BY <1>1, SlotsBound
  <2>4. /\ Cardinality(Beyond(i0, 1)') <= Cardinality(U) /\ Cardinality(U) \in Nat
        /\ Cardinality(Beyond(i0, 1)') \in Nat
    <3>1. Beyond(i0, 1)' \in SUBSET U BY <2>2
    <3> HIDE DEF U
    <3> QED BY <2>3, <3>1, FS_Subset, FS_CardinalityType
  <2>5. begun' - m0 = 0 BY <1>1, <1>6, <1>16
  <2>6. 0 + 0 + Cardinality(Beyond(i0, 1)') <= begun' - m0 + Spare'
    BY <1>14, <2>3, <2>4, <2>5
  <2>7. PICK x : x = Dist(i0, lastidx)' OBVIOUS
  <2>8. x = 0 /\ x + 0 + 1 = 1 BY <2>1, <2>7
  <2> QED BY <2>6, <2>7, <2>8 DEF Room
<1>18. ASSUME NEW i \in Bufs, NEW m \in Txns, Live(i, m), m + Reach > begun + 1
       PROVE  Room(i, m, 0)'
  <2>1. PICK d \in Nat : d = Dist(i, lastidx) /\ Dist(i, i0) = d + c + 1 BY <1>4, <1>16, <1>18
  <2>2. PICK x \in Nat : x = d + c + 1 OBVIOUS
  <2>3. Room(i, m, c) BY <1>2, <1>3, <1>18 DEF RoomInv
  <2>4. PICK b \in Nat : b = Cardinality(Beyond(i, x)) BY BeyondFinite
  <2>5. d + c + b <= begun - m + Spare BY <2>1, <2>2, <2>3, <2>4 DEF Room
  <2>6. Beyond(i, x + 1)' \subseteq Beyond(i, x)
    <3>1. \A j \in Bufs : Dist(i, j) \in Int BY BufFacts DEF Dist
    <3>2. Dist(i, i0) = x BY <2>1, <2>2
    <3> SUFFICES ASSUME NEW j \in Bufs, Used(j)', Dist(i, j) >= x + 1
                 PROVE  Used(j) /\ Dist(i, j) >= x
      BY DEF Beyond, Dist
    <3>3. j # i0 BY <3>2
    <3> QED BY <1>15, <1>16, <3>1, <3>3
  <2>7. PICK e \in Nat : e = Cardinality(Beyond(i, x + 1)') /\ e <= b
    BY <2>4, <2>6, BeyondLess
  <2>8. Dist(i, lastidx)' = x BY <1>1, <1>16, <2>1, <2>2 DEF Dist
  <2>9. x + 0 + e <= begun' - m + Spare'
    BY <1>1, <1>6, <1>14, <2>2, <2>5, <2>7 DEF Txns
  <2>10. PICK y : y = Dist(i, lastidx)' OBVIOUS
  <2>11. y = x /\ y + 0 + 1 = x + 1 BY <2>8, <2>10
  <2> QED BY <2>7, <2>9, <2>10, <2>11 DEF Room
<1>19. RoomInv'
  <2> SUFFICES ASSUME NEW i \in Bufs, NEW m \in Txns, Live(i, m)', m + Reach' > begun'
               PROVE  Room(i, m, 0)'
    BY <1>12 DEF RoomInv
  <2> QED BY <1>1, <1>10, <1>14, <1>16, <1>17, <1>18
<1>20. OwnInv'
  <2> SUFFICES ASSUME NEW i \in Bufs, NEW m \in Txns, Live(i, m)',
                      NEW u \in Threads, NEW k \in 1 .. Len(mine'[u]), mine'[u][k].idx = i
               PROVE  mine'[u][k].txn = m
    BY DEF OwnInv, Held
  <2>1. CASE mine'[u][k] = h
    <3>1. i = idx[t] /\ mine'[u][k].txn = begun + 1 BY <2>1
    <3>2. ASSUME NEW f \in transit', f.idx = i, f.txn = m PROVE FALSE
      <4>1. Live(i, m) /\ Timely(m, begun + 1) BY <1>1, <3>2 DEF Live
      <4>2. m + Reach > begun + 1 BY <1>6, <1>14, <4>1, BufFacts DEF Timely, Txns
      <4> QED BY <1>4, <3>1, <4>1, <4>2
    <3>3. ASSUME NEW r \in Threads, Reading(r)', tempinbuf'.idx = i PROVE FALSE
      <4>1. Reading(r) BY <1>7, <3>3 DEF Reading
      <4> QED BY <1>1, <1>2, <3>1, <3>3, <4>1, ReadNotTaken
    <3>4. PICK v \in Threads : \E l \in 1 .. Len(mine'[v]) :
             mine'[v][l].idx = i /\ mine'[v][l].txn = m
      BY <1>1, <3>2, <3>3 DEF Live, Held
    <3>5. PICK l \in 1 .. Len(mine'[v]) : mine'[v][l].idx = i /\ mine'[v][l].txn = m BY <3>4
    <3>6. mine'[v][l] = h BY <1>8, <3>1, <3>5 DEF Held
    <3> QED BY <3>1, <3>5, <3>6
  <2>2. CASE k \in 1 .. Len(mine[u]) /\ mine'[u][k] = mine[u][k] /\ Held(u, k) # idx[t]
    <3>1. Live(i, m) BY <1>10, <2>2 DEF Held
    <3> QED BY <2>2, <3>1 DEF OwnInv, Held
  <2> QED BY <1>8, <2>1, <2>2
<1>21. OverlapInv'
  <2>1. Step(t) BY DEF Step
  <2> QED BY <1>2, <2>1, OverlapKept
<1>22. FiledInv'
  <2>1. ASSUME NEW u \in Threads, NEW k \in 1 .. Len(mine'[u]),
               rxbufstat'[mine'[u][k].idx] = "RCVD"
        PROVE  rxbuf'[mine'[u][k].idx].txn = mine'[u][k].txn
    <3>1. rxbufstat'[idx[t]] = "ALLOC" BY <1>1, <1>6
    <3>2. mine'[u][k] # h BY <2>1, <3>1
    <3>3. k \in 1 .. Len(mine[u]) /\ mine'[u][k] = mine[u][k] /\ Held(u, k) # idx[t]
      BY <1>8, <3>2
    <3> QED BY <1>1, <1>6, <2>1, <3>3 DEF FiledInv, Held
  <2>2. ASSUME NEW u \in Threads, pc'[u] = "test"
        PROVE  wkc'[u] \in {EC_NOFRAME, EC_OTHERFRAME}
    BY <1>1, <1>7, <2>2 DEF FiledInv
  <2>3. ASSUME NEW u \in Threads, pc'[u] = "use", wkc'[u] > EC_NOFRAME
        PROVE  /\ rxbufstat'[Mine(u)'] = "COMPLETE"
               /\ rxbuf'[Mine(u)'].txn = Head(mine'[u]).txn /\ rxbuf'[Mine(u)'].wkc = wkc'[u]
    <3>1. u # t /\ pc[u] = "use" /\ mine'[u] = mine[u] /\ wkc' = wkc BY <1>1, <1>7, <2>3
    <3>2. Mine(u) = Held(u, 1) /\ 1 \in 1 .. Len(mine[u])
      BY <3>1, MineInBufs DEF Inv, StepInv, Busy
    <3>3. 1 \in 1 .. Len(mine'[u]) BY <3>1, <3>2
    <3>4. Held(u, 1) # idx[t] BY <1>7, <1>8, <3>1, <3>2, <1>2, <1>5 DEF Inv, IndexInv, Marked
    <3>5. Mine(u)' = Mine(u) BY <3>1 DEF Mine
    <3> QED BY <1>1, <1>6, <2>3, <3>1, <3>2, <3>4, <3>5 DEF FiledInv
  <2>4. ASSUME NEW u \in Threads, pc'[u] = "mark", IsHeld(idx[u])'
        PROVE  rxbuf'[idx'[u]] = tempinbuf'.answer
    <3>1. u # t /\ pc[u] = "mark" BY <1>7, <2>4
    <3>2. idx'[u] = idx[u]
      <4>1. Step(t) BY DEF Step
      <4> QED BY <3>1, <4>1, StepFrame
    <3>3. idx[u] # idx[t]
      <4>1. idx[u] = tempinbuf.idx /\ Reading(u) BY <3>1 DEF Inv, ReadInv, Reading
      <4> QED BY <1>2, <4>1, ReadNotTaken
    <3>4. PICK v \in Threads : \E k \in 1 .. Len(mine'[v]) : mine'[v][k].idx = idx[u]
      BY <2>4, <3>2 DEF IsHeld, Held
    <3>5. PICK k \in 1 .. Len(mine'[v]) : mine'[v][k].idx = idx[u] BY <3>4
    <3>6. IsHeld(idx[u]) BY <1>8, <3>3, <3>5 DEF IsHeld, Held
    <3> QED BY <1>1, <3>1, <3>2, <3>6 DEF FiledInv
  <2> QED BY <2>1, <2>2, <2>3, <2>4 DEF FiledInv, Held
<1> QED BY <1>11, <1>13, <1>19, <1>20, <1>21, <1>22

-----------------------------------------------------------------------------
\* A thread reads its own answer, or one for whoever holds the index the frame carries.
LEMMA ReadIsOwn ==
  ASSUME Inv, OwnInv, NEW t \in Threads, Reading(t),
         NEW u \in Threads, NEW k \in 1 .. Len(mine[u]), Held(u, k) = tempinbuf.idx
  PROVE  mine[u][k].txn = tempinbuf.answer.txn
<1>1. tempinbuf.answer.txn \in Txns /\ tempinbuf.idx \in Bufs
  BY DEF Inv, TypeOK, Received, ReadInv
<1>2. Live(tempinbuf.idx, tempinbuf.answer.txn) BY DEF Live
<1> QED BY <1>1, <1>2 DEF OwnInv

\* What a thread does with the buffer of an index it holds leaves the answers the others use.
LEMMA OthersUse ==
  ASSUME Inv, ~starved, NEW t \in Threads, NEW k \in 1 .. Len(mine[t]),
         NEW u \in Threads \ {t}, pc[u] = "use"
  PROVE  Mine(u) # Held(t, k) /\ Mine(u) \in Bufs
<1>1. Mine(u) \in Bufs /\ 1 \in 1 .. Len(mine[u]) /\ Mine(u) = Held(u, 1)
  BY MineInBufs DEF Inv, StepInv, Busy
<1> QED BY <1>1 DEF Inv, IndexInv, Once

\* A frame that is about to be marked is in its buffer, if somebody holds that.
MarkInv ==
  \A t \in Threads : pc[t] = "mark" /\ IsHeld(idx[t]) => rxbuf[idx[t]] = tempinbuf.answer

\* A buffer they mark is in use already, or becomes lost.
LEMMA OtherMarks ==
  ASSUME Disciplined, Inv, AnswerInv, NEW t \in Threads, Other(t)
  PROVE  MarkInv'
<1> USE DEF AnswerInv
<1>0. ~starved /\ Step(t) BY DEF SearchInv, Other, Step
<1>1. Entries BY <1>0, OtherSlots
<1>2. /\ pc \in [Threads -> Steps] /\ rxbuf \in [Bufs -> Answers] /\ idx \in [Threads -> Bufs]
  BY DEF Inv, TypeOK
<1>3. \A i : IsHeld(i)' => IsHeld(i) BY <1>1 DEF Entries, IsHeld, Held
<1> USE DEF port, bufs, count, search, work, wait
<1>4. ASSUME NEW u \in Threads, pc'[u] = "mark", IsHeld(idx[u])'
      PROVE  rxbuf'[idx'[u]] = tempinbuf'.answer
  <2>1. CASE u = t
    <3>1. ASSUME ~InframeStore(t) PROVE FALSE
      <4>1. ASSUME NEW arrives \in BOOLEAN, Outframe(t, arrives) PROVE FALSE
        BY <1>2, <1>4, <2>1, <4>1 DEF Outframe, AfterSend, Goto
      <4>2. ASSUME \/ Begin(t) \/ InframeCheck(t) \/ InframeTake(t) \/ InframeLock(t)
                   \/ InframeNothing(t) \/ InframeRecv(t) \/ InframeMatch(t)
            PROVE  FALSE
        BY <1>2, <1>4, <2>1, <4>2 DEF Begin, InframeCheck, InframeTake, InframeLock, InframeNothing,
                                      InframeRecv, InframeMatch, Goto
      <4>3. ASSUME InframeStrange(t) \/ InframeComplete(t) \/ InframeFile(t) PROVE FALSE
        BY <1>2, <1>4, <2>1, <4>3 DEF InframeStrange, InframeComplete, InframeFile, Goto
      <4>4. ASSUME PollAgain(t) \/ Resend(t) \/ GiveUp(t) \/ Expire(t) \/ Setbufstat(t) PROVE FALSE
        BY <1>2, <1>4, <2>1, <4>4 DEF PollAgain, Resend, GiveUp, Expire, Setbufstat, Finish, Goto
      <4> QED BY <3>1, <4>1, <4>2, <4>3, <4>4 DEF Other
    <3>2. /\ rxbuf' = [rxbuf EXCEPT ![idx[t]] = tempinbuf.answer]
          /\ tempinbuf' = tempinbuf /\ idx' = idx
      BY <3>1 DEF InframeStore
    <3> QED BY <1>2, <2>1, <3>2
  <2>2. CASE u # t
    <3>1. pc[u] = "mark" /\ idx'[u] = idx[u] BY <1>0, <1>4, <2>2, StepFrame
    <3>2. Reading(u) /\ Reading(u)' BY <1>4, <3>1 DEF Reading
    <3>3. pc[t] # "recv" /\ ~Reading(t) BY <2>2, <3>2, OneReader
    <3>4. ~InframeRecv(t) BY <3>3 DEF InframeRecv, Goto
    <3>5. tempinbuf' = tempinbuf BY <1>0, <3>2, <3>4, FrameStays
    <3>6. PICK i \in Bufs : i = idx[u] BY <1>2
    <3>7. IsHeld(i)' BY <1>4, <3>1, <3>6 DEF IsHeld, Held
    <3>8. rxbuf[i] = tempinbuf.answer BY <1>3, <3>1, <3>6, <3>7 DEF FiledInv
    <3>9. rxbuf'[i] = rxbuf[i]
      <4>1. CASE Setbufstat(t)
        <5>1. /\ rxbuf' = [rxbuf EXCEPT ![Mine(t)] = NoAnswer] /\ pc[t] = "use"
              /\ mine' = [mine EXCEPT ![t] = Tail(mine[t])]
          BY <4>1 DEF Setbufstat, Finish, Goto
        <5>2. /\ Len(mine[t]) > 0 /\ mine[t] \in Seq(Holding) /\ Len(mine[t]) \in Nat
          BY <5>1 DEF Inv, TypeOK, StepInv, Busy
        <5>3. Mine(t) \in Bufs /\ Mine(t) = Held(t, 1) /\ 1 \in 1 .. Len(mine[t])
          BY <5>2, MineInBufs DEF Inv
        <5>4. Once BY <1>0 DEF Inv, IndexInv
        <5>5. i # Mine(t)
          <6>1. PICK v \in Threads : \E k \in 1 .. Len(mine'[v]) : mine'[v][k].idx = i
            BY <3>7 DEF IsHeld, Held
          <6>2. PICK k \in 1 .. Len(mine'[v]) : mine'[v][k].idx = i BY <6>1
          <6>3. CASE v = t
            <7>1. mine'[t] = Tail(mine[t]) BY <5>1 DEF Inv, TypeOK
            <7>2. k + 1 \in 1 .. Len(mine[t]) /\ mine'[t][k] = mine[t][k + 1] /\ k + 1 # 1
              BY <5>2, <6>2, <6>3, <7>1
            <7> QED BY <5>3, <5>4, <6>2, <6>3, <7>2 DEF Once, Held
          <6>4. CASE v # t
            <7>1. mine'[v] = mine[v] BY <5>1, <6>4 DEF Inv, TypeOK
            <7> QED BY <5>3, <5>4, <6>2, <6>4, <7>1 DEF Once, Held
          <6> QED BY <6>3, <6>4
        <5> QED BY <1>2, <5>1, <5>5
      <4>2. ASSUME NEW arrives \in BOOLEAN, Outframe(t, arrives) PROVE rxbuf' = rxbuf
        BY <4>2 DEF Outframe
      <4>3. ASSUME \/ Begin(t) \/ InframeCheck(t) \/ InframeTake(t) \/ InframeLock(t)
                   \/ InframeNothing(t) \/ InframeRecv(t) \/ InframeMatch(t)
            PROVE  rxbuf' = rxbuf
        BY <4>3 DEF Begin, InframeCheck, InframeTake, InframeLock, InframeNothing,
                    InframeRecv, InframeMatch
      <4>4. ASSUME \/ InframeStore(t) \/ InframeStrange(t) \/ InframeComplete(t) \/ InframeFile(t)
            PROVE  FALSE
        BY <3>3, <4>4 DEF InframeStore, InframeStrange, InframeComplete, InframeFile, Goto, Reading
      <4>5. ASSUME PollAgain(t) \/ Resend(t) \/ GiveUp(t) \/ Expire(t) PROVE rxbuf' = rxbuf
        BY <4>5 DEF PollAgain, Resend, GiveUp, Expire
      <4> QED BY <4>1, <4>2, <4>3, <4>4, <4>5 DEF Other
    <3> QED BY <3>1, <3>5, <3>6, <3>8, <3>9
  <2> QED BY <2>1, <2>2
<1> QED BY <1>4 DEF MarkInv

\* What they file answers the frame of who holds the index.
LEMMA OtherFiles ==
  ASSUME Disciplined, Inv, AnswerInv, NEW t \in Threads, Other(t)
  PROVE  FiledInv'
<1> USE DEF AnswerInv
<1>0. ~starved /\ Step(t) BY DEF SearchInv, Other, Step
<1>1. \A u \in Threads \ {t} : pc'[u] = pc[u] /\ wkc'[u] = wkc[u] /\ mine'[u] = mine[u]
  BY <1>0, StepFrame
<1>2. Entries BY <1>0, OtherSlots
<1>3. MarkInv' BY OtherMarks
<1>4. /\ pc \in [Threads -> Steps] /\ rxbufstat \in [Bufs -> BufStates]
      /\ rxbuf \in [Bufs -> Answers] /\ wkc \in [Threads -> Wkcs \cup {EC_NOFRAME, EC_OTHERFRAME}]
      /\ idx \in [Threads -> Bufs]
  BY DEF Inv, TypeOK
<1>5. Busy(t) => /\ Mine(t) \in Bufs /\ 1 \in 1 .. Len(mine[t]) /\ Mine(t) = Held(t, 1)
                 /\ Head(mine[t]) = mine[t][1]
  BY MineInBufs DEF Inv, StepInv
<1>f. Filing BY <1>0 DEF Inv, IndexInv
<1> USE DEF port, bufs, count, search, work, wait
\* The parts of the invariant that a step of t may disturb.
<1> DEFINE Kept(i) == rxbufstat'[i] = rxbufstat[i] /\ rxbuf'[i] = rxbuf[i]
           Filed(u, k) == rxbufstat'[mine'[u][k].idx] = "RCVD"
                            => rxbuf'[mine'[u][k].idx].txn = mine'[u][k].txn
<1>6. ASSUME \A u \in Threads : \A k \in 1 .. Len(mine'[u]) : Filed(u, k),
             pc'[t] = "test" => wkc'[t] \in {EC_NOFRAME, EC_OTHERFRAME},
             pc'[t] = "use" /\ wkc'[t] > EC_NOFRAME =>
               /\ mine'[t] = mine[t] /\ rxbufstat'[Mine(t)] = "COMPLETE"
               /\ rxbuf'[Mine(t)].txn = Head(mine[t]).txn /\ rxbuf'[Mine(t)].wkc = wkc'[t],
             \A u \in Threads \ {t} : pc[u] = "use" /\ rxbufstat[Mine(u)] = "COMPLETE"
                                        => Kept(Mine(u))
      PROVE  FiledInv'
  <2>1. ASSUME NEW u \in Threads, pc'[u] = "use", wkc'[u] > EC_NOFRAME
        PROVE  /\ rxbufstat'[Mine(u)'] = "COMPLETE"
               /\ rxbuf'[Mine(u)'].txn = Head(mine'[u]).txn /\ rxbuf'[Mine(u)'].wkc = wkc'[u]
    <3>1. CASE u = t BY <1>6, <2>1, <3>1 DEF Mine
    <3>2. CASE u # t
      <4>1. /\ pc[u] = "use" /\ wkc[u] > EC_NOFRAME /\ mine'[u] = mine[u] /\ wkc'[u] = wkc[u]
        BY <1>1, <2>1, <3>2
      <4>2. /\ rxbufstat[Mine(u)] = "COMPLETE"
            /\ rxbuf[Mine(u)].txn = Head(mine[u]).txn /\ rxbuf[Mine(u)].wkc = wkc[u]
        BY <4>1 DEF FiledInv
      <4>3. Kept(Mine(u)) BY <1>6, <3>2, <4>1, <4>2
      <4>4. Mine(u)' = Mine(u) BY <4>1 DEF Mine
      <4> QED BY <4>1, <4>2, <4>3, <4>4
    <3> QED BY <3>1, <3>2
  <2>2. ASSUME NEW u \in Threads, pc'[u] = "test"
        PROVE  wkc'[u] \in {EC_NOFRAME, EC_OTHERFRAME}
    BY <1>1, <1>6, <2>2 DEF FiledInv
  <2>3. \A u \in Threads : \A k \in 1 .. Len(mine'[u]) :
          rxbufstat'[Held(u, k)'] = "RCVD" => rxbuf'[Held(u, k)'].txn = mine'[u][k].txn
    BY <1>6 DEF Held
  <2>4. \A u \in Threads : pc'[u] = "mark" /\ IsHeld(idx[u])' => rxbuf'[idx'[u]] = tempinbuf'.answer
    BY <1>3 DEF MarkInv
  <2> QED BY <2>1, <2>2, <2>3, <2>4 DEF FiledInv
\* Where the buffers stay as they are, or change to a state other than RCVD.
<1>7. ASSUME NEW u \in Threads, NEW k \in 1 .. Len(mine'[u]),
             Kept(mine'[u][k].idx) \/ rxbufstat'[mine'[u][k].idx] # "RCVD"
      PROVE  Filed(u, k)
  <2>1. PICK j \in 1 .. Len(mine[u]) : mine'[u][k] = mine[u][j] BY <1>2 DEF Entries
  <2> QED BY <1>7, <2>1 DEF FiledInv, Held
<1> HIDE DEF Filed
<1>8. \A u \in Threads : \A k \in 1 .. Len(mine'[u]) : mine'[u][k].idx \in Bufs
  <2> SUFFICES ASSUME NEW u \in Threads, NEW k \in 1 .. Len(mine'[u])
               PROVE  mine'[u][k].idx \in Bufs
    OBVIOUS
  <2>1. PICK j \in 1 .. Len(mine[u]) : mine'[u][k] = mine[u][j] BY <1>2 DEF Entries
  <2> QED BY <2>1, HeldInBufs DEF Inv, TypeOK, Held
\* The thread changes the state of its own buffer, to one other than RCVD.
<1>9. ASSUME NEW k \in 1 .. Len(mine[t]), NEW s \in BufStates \ {"RCVD"},
             rxbufstat' = [rxbufstat EXCEPT ![Held(t, k)] = s],
             \/ rxbuf' = rxbuf
             \/ rxbuf' = [rxbuf EXCEPT ![Held(t, k)] = NoAnswer]
      PROVE  /\ \A u \in Threads : \A l \in 1 .. Len(mine'[u]) : Filed(u, l)
             /\ \A u \in Threads \ {t} : pc[u] = "use" /\ rxbufstat[Mine(u)] = "COMPLETE"
                                           => Kept(Mine(u))
  <2>1. PICK i \in Bufs : i = Held(t, k) BY HeldInBufs DEF Inv, TypeOK
  <2>2. \A j \in Bufs : Kept(j) \/ (j = i /\ rxbufstat'[j] # "RCVD") BY <1>4, <1>9, <2>1
  <2>3. \A u \in Threads : \A l \in 1 .. Len(mine'[u]) : Filed(u, l) BY <1>7, <1>8, <2>2
  <2>4. \A u \in Threads \ {t} : pc[u] = "use" => Mine(u) \in Bufs \ {i}
    BY <1>0, <2>1, OthersUse
  <2> QED BY <2>2, <2>3, <2>4
\* The thread reads, and writes the buffer of the frame it has read.
<1>10. ASSUME pc[t] \in {"copy", "mark"}, NEW u \in Threads \ {t}, pc[u] = "use",
              rxbufstat[Mine(u)] = "COMPLETE"
       PROVE  Mine(u) # idx[t] /\ Mine(u) \in Bufs
  <2>1. Mine(u) # Mine(t) /\ Mine(u) \in Bufs
    BY <1>0, <1>5, <1>10, OthersUse DEF Busy
  <2>2. idx[t] # Mine(t) => rxbufstat[idx[t]] # "COMPLETE" BY <1>f, <1>10 DEF Filing
  <2> QED BY <1>10, <2>1, <2>2
<1>11. CASE \/ Begin(t) \/ InframeLock(t) \/ InframeNothing(t) \/ InframeRecv(t)
            \/ InframeCheck(t) \/ InframeMatch(t) \/ InframeStrange(t)
  <2>1. UNCHANGED <<rxbufstat, rxbuf>>
    BY <1>11 DEF Begin, InframeLock, InframeNothing, InframeRecv, InframeCheck, InframeMatch,
                 InframeStrange
  <2>2. /\ pc'[t] # "use"
        /\ pc'[t] = "test" => \E v \in {EC_NOFRAME, EC_OTHERFRAME} : wkc' = [wkc EXCEPT ![t] = v]
    BY <1>4, <1>11 DEF Begin, InframeLock, InframeNothing, InframeRecv, InframeCheck,
                       InframeMatch, InframeStrange, EndRead, Goto
  <2>3. pc'[t] = "test" => wkc'[t] \in {EC_NOFRAME, EC_OTHERFRAME} BY <1>4, <2>2
  <2>4. \A u \in Threads : \A k \in 1 .. Len(mine'[u]) : Filed(u, k) BY <1>7, <2>1
  <2> QED BY <1>6, <2>1, <2>2, <2>3, <2>4
<1>12. CASE PollAgain(t) \/ Resend(t) \/ GiveUp(t) \/ Expire(t)
  <2>1. UNCHANGED <<rxbufstat, rxbuf, wkc>> /\ pc[t] = "test"
    BY <1>12 DEF PollAgain, Resend, GiveUp, Expire, Goto
  <2>2. wkc'[t] \in {EC_NOFRAME, EC_OTHERFRAME} BY <2>1 DEF FiledInv
  <2>3. ~(wkc'[t] > EC_NOFRAME) BY <2>2 DEF EC_NOFRAME, EC_OTHERFRAME
  <2>4. \A u \in Threads : \A k \in 1 .. Len(mine'[u]) : Filed(u, k) BY <1>7, <2>1
  <2> QED BY <1>6, <2>1, <2>2, <2>3, <2>4
<1>13. ASSUME NEW arrives \in BOOLEAN, Outframe(t, arrives) PROVE FiledInv'
  <2>1. /\ pc[t] = "send" /\ rxbuf' = rxbuf
        /\ rxbufstat' = [rxbufstat EXCEPT ![mine[t][Len(mine[t])].idx] = "TX"]
        /\ pc'[t] \in {"take", "check"}
    BY <1>4, <1>13 DEF Outframe, AfterSend, Goto
  <2>2. Len(mine[t]) \in 1 .. Len(mine[t]) BY <2>1 DEF Inv, TypeOK, StepInv, Busy
  <2>3. PICK k \in 1 .. Len(mine[t]) : k = Len(mine[t]) BY <2>2
  <2>4. rxbufstat' = [rxbufstat EXCEPT ![Held(t, k)] = "TX"] BY <2>1, <2>3 DEF Held
  <2>5. "TX" \in BufStates \ {"RCVD"} BY DEF BufStates
  <2> QED BY <1>6, <1>9, <2>1, <2>4, <2>5
<1>14. CASE InframeTake(t)
  <2>1. /\ pc[t] = "found" /\ rxbuf' = rxbuf /\ mine' = mine /\ pc'[t] = "use"
        /\ rxbufstat' = [rxbufstat EXCEPT ![Mine(t)] = "COMPLETE"]
        /\ wkc'[t] = rxbuf[Mine(t)].wkc
    BY <1>4, <1>14 DEF InframeTake, Goto
  <2>2. Mine(t) \in Bufs /\ 1 \in 1 .. Len(mine[t]) /\ Mine(t) = Held(t, 1)
        /\ Head(mine[t]) = mine[t][1]
    BY <1>5, <2>1 DEF Busy
  <2>3. rxbufstat[Mine(t)] = "RCVD" BY <1>f, <2>1 DEF Filing
  <2>4. rxbuf[Mine(t)].txn = Head(mine[t]).txn BY <2>2, <2>3 DEF FiledInv
  <2>5. rxbufstat' = [rxbufstat EXCEPT ![Held(t, 1)] = "COMPLETE"] BY <2>1, <2>2
  <2>6. "COMPLETE" \in BufStates \ {"RCVD"} BY DEF BufStates
  <2>7. rxbufstat'[Mine(t)] = "COMPLETE" BY <1>4, <2>1, <2>2
  <2> QED BY <1>6, <1>9, <2>1, <2>2, <2>4, <2>5, <2>6, <2>7
<1>15. CASE InframeComplete(t)
  <2>1. /\ pc[t] = "mark" /\ rxbuf' = rxbuf /\ mine' = mine /\ pc'[t] = "use"
        /\ idx[t] = Mine(t)
        /\ rxbufstat' = [rxbufstat EXCEPT ![Mine(t)] = "COMPLETE"]
        /\ wkc'[t] = rxbuf[Mine(t)].wkc
    BY <1>4, <1>15 DEF InframeComplete, EndRead, Goto
  <2>2. Mine(t) \in Bufs /\ 1 \in 1 .. Len(mine[t]) /\ Mine(t) = Held(t, 1)
        /\ Head(mine[t]) = mine[t][1]
    BY <1>5, <2>1 DEF Busy
  <2>3. IsHeld(idx[t]) BY <2>1, <2>2 DEF IsHeld
  <2>4. rxbuf[Mine(t)] = tempinbuf.answer BY <2>1, <2>3 DEF FiledInv
  <2>5. rxbuf[Mine(t)].txn = Head(mine[t]).txn
    <3>1. Held(t, 1) = tempinbuf.idx /\ Reading(t) BY <2>1, <2>2 DEF Inv, ReadInv, Reading
    <3> QED BY <2>2, <2>4, <3>1, ReadIsOwn
  <2>6. rxbufstat' = [rxbufstat EXCEPT ![Held(t, 1)] = "COMPLETE"] BY <2>1, <2>2
  <2>7. "COMPLETE" \in BufStates \ {"RCVD"} BY DEF BufStates
  <2>8. rxbufstat'[Mine(t)] = "COMPLETE" BY <1>4, <2>1, <2>2
  <2> QED BY <1>6, <1>9, <2>1, <2>2, <2>5, <2>6, <2>7, <2>8
<1>16. CASE InframeStore(t)
  <2>1. /\ pc[t] = "copy" /\ pc'[t] = "mark" /\ rxbufstat' = rxbufstat /\ mine' = mine
        /\ rxbuf' = [rxbuf EXCEPT ![idx[t]] = tempinbuf.answer]
    BY <1>4, <1>16 DEF InframeStore, Goto
  <2>2. idx[t] = tempinbuf.idx /\ Reading(t) /\ idx[t] \in Bufs
    BY <1>4, <2>1 DEF Inv, ReadInv, Reading
  <2>3. \A j \in Bufs : Kept(j) \/ j = idx[t] BY <1>4, <2>1
  <2>4. ASSUME NEW u \in Threads, NEW k \in 1 .. Len(mine'[u]) PROVE Filed(u, k)
    <3>1. CASE mine'[u][k].idx = idx[t]
      <4>1. mine'[u][k].txn = tempinbuf.answer.txn
        BY <2>1, <2>2, <2>4, <3>1, ReadIsOwn DEF Held
      <4>2. rxbuf'[idx[t]] = tempinbuf.answer BY <1>4, <2>1, <2>2
      <4> QED BY <3>1, <4>1, <4>2 DEF Filed
    <3>2. CASE mine'[u][k].idx # idx[t] BY <1>7, <1>8, <2>3, <3>2
    <3> QED BY <3>1, <3>2
  <2>5. \A u \in Threads \ {t} : pc[u] = "use" /\ rxbufstat[Mine(u)] = "COMPLETE"
                                   => Kept(Mine(u))
    BY <1>10, <2>1, <2>3
  <2> QED BY <1>6, <2>1, <2>4, <2>5
<1>17. CASE InframeFile(t)
  <2>1. /\ pc[t] = "mark" /\ pc'[t] = "test" /\ wkc'[t] = EC_OTHERFRAME /\ mine' = mine
        /\ rxbuf' = rxbuf /\ rxbufstat' = [rxbufstat EXCEPT ![idx[t]] = "RCVD"]
    BY <1>4, <1>17 DEF InframeFile, EndRead, Goto
  <2>2. idx[t] = tempinbuf.idx /\ Reading(t) /\ idx[t] \in Bufs
    BY <1>4, <2>1 DEF Inv, ReadInv, Reading
  <2>3. \A j \in Bufs : Kept(j) \/ j = idx[t] BY <1>4, <2>1
  <2>4. ASSUME NEW u \in Threads, NEW k \in 1 .. Len(mine'[u]) PROVE Filed(u, k)
    <3>1. CASE mine'[u][k].idx = idx[t]
      <4>1. mine'[u][k].txn = tempinbuf.answer.txn
        BY <2>1, <2>2, <2>4, <3>1, ReadIsOwn DEF Held
      <4>2. IsHeld(idx[t]) BY <2>1, <2>4, <3>1 DEF IsHeld, Held
      <4>3. rxbuf'[idx[t]] = tempinbuf.answer BY <2>1, <4>2 DEF FiledInv
      <4> QED BY <3>1, <4>1, <4>3 DEF Filed
    <3>2. CASE mine'[u][k].idx # idx[t] BY <1>7, <1>8, <2>3, <3>2
    <3> QED BY <3>1, <3>2
  <2>5. \A u \in Threads \ {t} : pc[u] = "use" /\ rxbufstat[Mine(u)] = "COMPLETE"
                                   => Kept(Mine(u))
    BY <1>10, <2>1, <2>3
  <2> QED BY <1>6, <2>1, <2>4, <2>5
<1>18. CASE Setbufstat(t)
  <2>1. /\ pc[t] = "use" /\ pc'[t] \in {"check", "idle"}
        /\ rxbuf' = [rxbuf EXCEPT ![Mine(t)] = NoAnswer]
        /\ rxbufstat' = [rxbufstat EXCEPT ![Mine(t)] = "EMPTY"]
    BY <1>4, <1>18 DEF Setbufstat, Finish, Goto
  <2>2. 1 \in 1 .. Len(mine[t]) /\ Mine(t) = Held(t, 1) BY <1>5, <2>1 DEF Busy
  <2>3. "EMPTY" \in BufStates \ {"RCVD"} BY DEF BufStates
  <2>4. /\ rxbufstat' = [rxbufstat EXCEPT ![Held(t, 1)] = "EMPTY"]
        /\ rxbuf' = [rxbuf EXCEPT ![Held(t, 1)] = NoAnswer]
    BY <2>1, <2>2
  <2> QED BY <1>6, <1>9, <2>1, <2>2, <2>3, <2>4
<1> QED BY <1>11, <1>12, <1>13, <1>14, <1>15, <1>16, <1>17, <1>18 DEF Other

-----------------------------------------------------------------------------
\* At first no buffer is in use.
LEMMA InitAnswers == ASSUME Init PROVE AnswerInv
<1>1. \A i \in Bufs : ~Used(i) BY DEF Init, Used
<1>2. \A t \in Threads : Len(mine[t]) = 0 /\ pc[t] = "idle" /\ op[t] = "srconfirm" BY DEF Init
<1>3. /\ transit = {} /\ lost = {} /\ ~starved
      /\ \A t \in Threads : ~Reading(t) /\ ~Searching(t)
  BY <1>2 DEF Init, Reading, Searching
<1>4. \A i, m : ~Live(i, m) BY <1>2, <1>3 DEF Live
<1>5. SlotInv BY <1>1, <1>2, <1>3, BufFacts DEF SlotInv, Batch
<1>6. OverlapInv /\ SearchInv BY <1>3 DEF OverlapInv, SearchInv
<1>7. RoomInv /\ OwnInv BY <1>4 DEF RoomInv, OwnInv
<1>8. FiledInv BY <1>2 DEF FiledInv
<1> QED BY <1>5, <1>6, <1>7, <1>8 DEF AnswerInv

\* Nothing happens.
LEMMA StutterAnswers == ASSUME AnswerInv, UNCHANGED vars PROVE AnswerInv'
<1>1. /\ UNCHANGED <<setup, lastidx, rxbufstat, rxbuf, tempinbuf, mutex, transit, begun,
                     lost, pc, op, idx, cnt, mine, wkc>>
      /\ starved' = starved
  BY DEF vars, port, bufs, count, search, work, wait
<1>2. SlotInv'
  <2>1. \A i : (Used(i)' <=> Used(i)) /\ (IsHeld(i)' <=> IsHeld(i)) BY <1>1 DEF Used, IsHeld, Held
  <2>2. \A t : Batch(op[t])' = Batch(op[t]) BY <1>1 DEF Batch
  <2> QED BY <1>1, <2>1, <2>2 DEF AnswerInv, SlotInv
<1>3. /\ Spare' = Spare /\ Reach' = Reach /\ NextIdx(lastidx)' = NextIdx(lastidx)
      /\ \A t : (Searching(t)' <=> Searching(t)) /\ (Reading(t)' <=> Reading(t))
      /\ \A i, x : Beyond(i, x)' = Beyond(i, x)
  BY <1>1 DEF Spare, Reach, Slots, NextIdx, Searching, Reading, Beyond, Used, Dist
<1>4. \A i, m : Live(i, m)' <=> Live(i, m) BY <1>1, <1>3 DEF Live, Held
<1>5. OverlapInv'
  <2>1. \A x, r : Waits(x, r)' <=> Waits(x, r) BY <1>1 DEF Waits, Held
  <2> QED BY <1>1, <1>3, <2>1 DEF AnswerInv, OverlapInv
<1>6. SearchInv'
  <2>1. ASSUME NEW t \in Threads, Searching(t)'
        PROVE  /\ idx'[t] = Wrap(lastidx + 1 + cnt[t])'
               /\ cnt'[t] + Cardinality(Beyond(NextIdx(lastidx), cnt[t])') <= Spare'
               /\ pc'[t] = "claim" => ~Used(idx[t])'
    <3>1. Beyond(NextIdx(lastidx), cnt[t])' = Beyond(NextIdx(lastidx), cnt[t])
      BY <1>1 DEF Beyond, Used, Dist, NextIdx
    <3>2. Used(idx[t])' <=> Used(idx[t]) BY <1>1 DEF Used
    <3> QED BY <1>1, <1>3, <2>1, <3>1, <3>2 DEF AnswerInv, SearchInv, Wrap
  <2>2. ~starved' BY <1>1 DEF AnswerInv, SearchInv
  <2> QED BY <2>1, <2>2 DEF SearchInv
<1>7. ASSUME NEW i \in Bufs, NEW m \in Txns, Live(i, m)'
      PROVE  /\ m + Reach' > begun' => Room(i, m, 0)'
             /\ m + Reach' > begun' + 1 =>
                  \A t \in Threads : Searching(t)' => Room(i, m, cnt[t])'
  <2>1. \A c : Room(i, m, c)' <=> Room(i, m, c) BY <1>1, <1>3 DEF Room, Dist, Beyond, Used
  <2>2. \A t : Room(i, m, cnt[t])' <=> Room(i, m, cnt[t])
    BY <1>1, <1>3 DEF Room, Dist, Beyond, Used
  <2> QED BY <1>1, <1>3, <1>4, <1>7, <2>1, <2>2 DEF AnswerInv, RoomInv
<1>8. RoomInv' BY <1>7 DEF RoomInv
<1>9. OwnInv' BY <1>1, <1>4 DEF AnswerInv, OwnInv, Held
<1>10. FiledInv'
  <2>1. \A t : IsHeld(idx[t])' <=> IsHeld(idx[t]) BY <1>1 DEF IsHeld, Held
  <2>2. \A t : Mine(t)' = Mine(t) BY <1>1 DEF Mine
  <2> QED BY <1>1, <2>1, <2>2 DEF AnswerInv, FiledInv, Held
<1> QED BY <1>2, <1>5, <1>6, <1>8, <1>9, <1>10 DEF AnswerInv

\* Every step keeps the answers right as long as the buffers are enough.
LEMMA NextAnswers ==
  ASSUME Disciplined, Enough, Inv, AnswerInv, [Next]_vars
  PROVE  AnswerInv'
<1>1. CASE UNCHANGED vars BY <1>1, StutterAnswers
<1>2. CASE Next
  <2>1. PICK t \in Threads : Step(t) BY <1>2, NextIsStep
  <2>2. CASE Other(t)
    <3>1. SlotInv' /\ SearchInv' /\ RoomInv' /\ OwnInv' BY <2>2, OtherRoom
    <3>2. FiledInv' BY <2>2, OtherFiles
    <3>3. OverlapInv' BY <2>1, OverlapKept DEF AnswerInv, SearchInv
    <3> QED BY <3>1, <3>2, <3>3 DEF AnswerInv
  <2>3. GetindexTake(t) \/ GetindexScan(t) \/ GetindexClaim(t) \/ Other(t)
    BY <2>1 DEF Step, Other
  <2> QED BY <2>2, <2>3, TakeAnswers, ScanAnswers, ClaimAnswers
<1> QED BY <1>1, <1>2

\* Buffers once lost are never found again.
LEMMA EnoughKept ==
  ASSUME Inv, [Next]_vars, Enough', TypeOK'
  PROVE  Enough
<1>1. setup' = setup /\ lost \subseteq lost'
  <2>1. CASE UNCHANGED vars BY <2>1 DEF vars, count
  <2>2. CASE Next
    <3>1. PICK t \in Threads :
            Begin(t) \/ GetindexTake(t) \/ InframeLock(t) \/ Unblocked(t) \/ Expire(t)
      BY <2>2 DEF Next
    <3>2. ASSUME NEW arrives \in BOOLEAN, Outframe(t, arrives)
          PROVE  setup' = setup /\ lost' = lost
      BY <3>2 DEF Outframe, count
    <3>3. ASSUME \/ Begin(t) \/ GetindexTake(t) \/ GetindexScan(t) \/ GetindexClaim(t)
                 \/ OutframeRefused(t) \/ OutframePutBack(t)
          PROVE  setup' = setup /\ lost' = lost
      BY <3>3 DEF Begin, GetindexTake, GetindexScan, GetindexClaim, BeginTxn, OutframeRefused,
                  OutframePutBack, count
    <3>4. ASSUME \/ InframeCheck(t) \/ InframeTake(t) \/ InframeLock(t) \/ InframeNothing(t)
                 \/ InframeRecv(t) \/ InframeMatch(t) \/ InframeStore(t)
          PROVE  setup' = setup /\ lost' = lost
      BY <3>4 DEF InframeCheck, InframeTake, InframeLock, InframeNothing, InframeRecv,
                  InframeMatch, InframeStore, count
    <3>5. ASSUME InframeStrange(t) \/ InframeComplete(t) \/ InframeFile(t)
          PROVE  setup' = setup /\ lost \subseteq lost'
      BY <3>5 DEF InframeStrange, InframeComplete, InframeFile, EndRead
    <3>6. ASSUME PollAgain(t) \/ Resend(t) \/ GiveUp(t) \/ Expire(t) \/ Setbufstat(t)
          PROVE  setup' = setup /\ lost' = lost
      BY <3>6 DEF PollAgain, Resend, GiveUp, Expire, Setbufstat, Finish, count
    <3> QED BY <3>1, <3>2, <3>3, <3>4, <3>5, <3>6 DEF Unblocked
  <2> QED BY <2>1, <2>2
<1>2. Slots' = Slots BY <1>1 DEF Slots
<1>3. PICK more : more = lost' OBVIOUS
<1>4. more \subseteq Bufs /\ lost \subseteq more BY <1>1, <1>3 DEF TypeOK
<1>5. IsFiniteSet(more) /\ Cardinality(more) \in Nat BY <1>4, LostFinite
<1>6. Cardinality(lost) <= Cardinality(more) /\ Cardinality(lost) \in Nat
  <2>1. lost \in SUBSET more BY <1>4
  <2> QED BY <1>4, <1>5, <2>1, LostFinite, FS_Subset
<1>7. Cardinality(Slots) \in Nat BY SlotsFinite DEF Inv, TypeOK
<1>8. 2 * Cardinality(Slots) + Lag + Cardinality(more) <= EC_MAXBUF + 2 BY <1>2, <1>3 DEF Enough
<1>9. 2 * Cardinality(Slots) + Lag + Cardinality(lost) <= EC_MAXBUF + 2
  BY <1>5, <1>6, <1>7, <1>8, BufFacts
<1> QED BY <1>9 DEF Enough

\* Invariance of the second inductive invariant, as long as the buffers are enough.
THEOREM AnswersInvariance == ASSUME Disciplined PROVE Spec => [](Enough => AnswerInv)
<1>1. Init => (Enough => AnswerInv) BY InitAnswers
<1>2. Inv /\ Inv' /\ (Enough => AnswerInv) /\ [Next]_vars => (Enough => AnswerInv)'
  BY NextAnswers, EnoughKept DEF Inv
<1> QED BY <1>1, <1>2, InvHolds, PTL DEF Spec

\* As long as the buffers are enough, the answer ecx_srconfirm and ecx_receive_processdata
\* use is the answer to the frame they sent, with its working counter, whatever was lost,
\* late, repeated or read by another thread, and although that thread tests, copies and
\* marks (ecx_inframe) while indices are given back and taken: on a port whose locks work.
THEOREM AnswersAreMine == ASSUME Disciplined PROVE Spec => []AnswerIsMine
<1>1. (Enough => AnswerInv) => AnswerIsMine BY DEF AnswerInv, FiledInv, AnswerIsMine
<1> QED BY <1>1, AnswersInvariance, PTL

\* With working locks no two threads hold the same index as long as every search found a
\* free one, and every search does as long as the buffers are enough, those included that a
\* late answer marked RCVD after their owner gave them back.
THEOREM Exclusive == ASSUME Disciplined PROVE Spec => []IndexExclusive
<1>1. ASSUME Inv, Enough => AnswerInv PROVE IndexExclusive
  <2>1. ASSUME ~starved, NEW i \in Bufs, NEW t \in Holders(i), NEW u \in Holders(i) PROVE t = u
    <3>1. t \in Threads /\ u \in Threads BY DEF Holders
    <3>2. PICK k \in 1 .. Len(mine[t]) : Held(t, k) = i BY DEF Holders, Held
    <3>3. PICK l \in 1 .. Len(mine[u]) : Held(u, l) = i BY DEF Holders, Held
    <3>4. Once BY <1>1, <2>1 DEF Inv, IndexInv
    <3> QED BY <3>1, <3>2, <3>3, <3>4 DEF Once
  <2>2. Enough => ~starved BY <1>1 DEF AnswerInv, SearchInv
  <2> QED BY <2>1, <2>2 DEF IndexExclusive
<1>2. Inv /\ (Enough => AnswerInv) => IndexExclusive BY <1>1
<1> QED BY <1>2, InvHolds, AnswersInvariance, PTL
====
