# SOEM 1.4.0 on RT-Thread / NUC980: verification project

This directory holds TLA+ models of the EtherCAT master in `src/soem-1.4.0`
(SOEM with a port for RT-Thread) and of the servo program that uses it, the TLC
configurations that check them on small instances and TLAPS proofs of the main
invariants of eight of them for every size. `PROJECT.json` lists the components,
the runs, the source lines each definition translates, the hazards, the mutants
and the theorems.

## 1. The system

The repository is a firmware for the NUC980 board: RT-Thread with lwIP
underneath, SOEM as the EtherCAT master, and two test programs.

    soem_test.c / sv660n_test.c          applications, one EtherCAT thread each
      | ec_config, ec_config_map, ec_send/receive_processdata, ec_statecheck,
      | ec_readstate, ec_SDOread/write, while (EcatError) ec_elist2string()
    ethercatconfig.c  ethercatmain.c  ethercatcoe/foe/eoe/soe.c  ethercatdc.c
      | ecx_BRD, FPWR, LRW ... (one datagram = ecx_srconfirm),
      | ecx_getindex / ecx_outframe_red / ecx_waitinframe (process data)
    ethercatbase.c -> oshw/<os>/nicdrv.c        indices, receive buffers, mutexes
      | net_send, net_recv
    oshw/rt-thread/netdev_hook.c                ring of received frames
      | pbuf, netif->input / netif->linkoutput
    lwIP and the Ethernet driver                its own thread (priority 12)

### Inventory

| component | state it keeps | operations | hard behaviour | what makes it correct |
|---|---|---|---|---|
| Error list (`ethercatmain.c` 140-300) | ring `ec_eringt`, flag `EcatError` | push, pop, iserror, the `ecx_*error` functions | full ring, the drain loops of the applications | a FIFO that forgets its oldest; nothing waits unannounced; drain loops end |
| Ethernet hook (`netdev_hook.c`) | ring of 10 frames with head, tail, full; saved driver functions | install, uninstall, `net_send`, `net_recv`, `_netif_input` | two threads on one ring without a lock; a full ring | a FIFO under every interleaving, no torn copy, no forgotten frame |
| Frame driver (`oshw/*/nicdrv.c`) | `rxbufstat`, `rxbuf`, `lastidx`, `tempinbuf`, mutexes; the same again for a second interface | getindex, setbufstat, outframe, inframe, waitinframe, srconfirm | several threads; frames lost, late, repeated or read by another thread; retries and timeouts; a broken line | one owner per index; the answer used answers the frame sent; exchanges end; a break does not show |
| Datagram primitives (`ethercatbase.c`) | none | BRD, APRD, FPWR, LRW, LRWDC ..., frames of several datagrams | offsets of datagrams and counters in a frame | what is returned is what the slaves held and counted |
| IO mapping (`ethercatconfig.c` 847-1502) | per slave FMMUs and pointers; per group segments, `Isegment`, `Ioffset`, WKCs | `ecx_config_map_group`, `ecx_config_overlap_map_group` | segment and byte boundaries, bit-oriented slaves, many SMs | every FMMU has its own bits; segments cover the map, none cuts a byte-oriented slave |
| Process data (`ethercatmain.c` 1640-2006) | `idxstack`, the IOmap, DC time | send, send_overlap, receive | lost frames, index stack at its limit, writes between send and receive | inputs and outputs land where they belong; WKC equals the expected one iff every slave took part |
| Slave states (`ethercatmain.c` 680-900, `ethercatconfig.c` 1512-1625) | `slavelist[].state, ALstatuscode`, `EC_TEMPNODE` | readstate, writestate, statecheck, recover, reconfig | slaves lost and back, lost writes, stale states | what is reported was true; a recovered slave has its address |
| Mailbox (`ethercatmain.c` 906-1106) | `mbx_cnt`, SM status, repeat toggle | mbxempty, mbxsend, mbxreceive | lost answers, repeat request, emergencies in between | a request is executed once; answers come in order, once |
| CoE (`ethercatcoe.c`) | local to a call | SDOread, SDOwrite, object dictionary, PDO services, PDO map readers | stale answers, segmented and fragmented transfers, aborts | success means the data of this object |
| FoE, EoE, SoE | local to a call; EoE frame counters | read, write, fragment send and receive, IP parameters | lost or repeated packets, busy slaves, a hook that takes fragments of other calls | success means the whole file, frame or value |
| SII/EEPROM (`ethercatmain.c` 320-680, 1150-1640) | `esibuf`, `esimap`, `eep_pdi` | siigetbyte, siifind, PDO/SM/FMMU readers, eeprom read/write, dump | refused commands, control shared with the slave's own processor, failed reads cached | a byte delivered is the EEPROM's byte; control comes back |
| Discovery and mapping (`ethercatconfig.c` 1-840) | `slavelist`, `slavecount` | config_init, topology, `map_coe_soe`, `map_sii`, `map_sm` | slaves that answer only sometimes; details copied from an earlier slave | the tree and the process data are those of the bus |
| Distributed clocks (`ethercatdc.c`) | port times, `DCnext`, delays | configdc, dcsync0/01 | topology, 32-bit times that wrap, starts at different moments | delays follow the tree; slaves fire together |
| Servo program (`sv660n_test.c`) | `IOmap` as `SERVO_DATA_T` | bring-up, mapping by SDO writes, cyclic loop | a drive that trips, loses its supply or is moved between two cycles | an enabled drive gets targets close to where it stands; the program comes back |
| Test program (`soem_test.c`) | `inOP` ... | bring-up, printing | error paths that skip steps | end of the drain loops |
| OS layer (`osal/*`) | timers | timer start/expired, usleep, threads | tick wrap-around | a timer expires once and stays expired |

Vendored and generated parts (WinPcap, board support, other OS layers) are
listed in `PROJECT.json` and not modelled.

Components interact by plain calls inside the EtherCAT thread; shared state is
the frame driver's (with other threads that use the port) and the hook's ring
(with lwIP's thread). The error list is written by every layer and read by the
application.

## 2. The modules

| module | what it is |
|---|---|
| `ErrorFifo` | abstract specification of the error list: a queue that keeps the most recent errors, and a flag |
| `ErrorList` | the ring of `ecx_pusherror`, `ecx_poperror`, `ecx_iserror` |
| `ErrorListProofs` | its invariant, and the proof that the ring implements `ErrorFifo` |
| `RxQueue` | abstract specification of the receive side of the hook: a bounded queue that may refuse a frame at the entrance |
| `NetHook` | `netdev_hook.c`: `_netif_input` as one step of the Ethernet thread, `net_recv` one access to the shared variables at a time |
| `NetHookProofs` | its invariant, and the proof that the ring implements `RxQueue` |
| `NicDrv` | `nicdrv.c` for several threads on one interface, with the locks of each port and what it does with a frame that is refused |
| `NicDrvProofs` | its two invariants: one owner per index, whose answers stay; answers that reach the frame they answer, while the buffers are enough |
| `Datagram` | `ethercatbase.c`: the layout of a frame and what each primitive takes from the one that comes back; slaves on a line and what each does with a datagram (external) |
| `SocketNic`, `MuxNic` | one index of `linux/nicdrv.c` and of `vxworks/nicdrv.c` with two interfaces, of `intime/nicdrv.c` with one |
| `Drivers` | composition: a primitive over the line of slaves by one of the drivers, one interface or two, with a line that may be broken |
| `IOMap` | both mapping functions of `ethercatconfig.c` for one group, one action per FMMU and per change of the segments |
| `ProcessData` | extends `IOMap`: the exchanges of `ethercatmain.c` over the image just mapped, with the wire and the slaves' FMMUs |
| `ProcessDataProofs` | the invariants of `IOMap` (types, the segments, FMMUs that do not overlap, one datagram per slave, FMMUs that map the SMs), where the data of a slave lie in the finished map, and the invariant of the exchange: no bit strays |
| `SlaveState` | `ecx_readstate`, `ecx_writestate`, `ecx_statecheck`, `ecx_recover_slave`, `ecx_reconfig_slave` against slaves that come and go |
| `SlaveStateProofs` | its two invariants: addresses are told apart, recoveries are true; states read are true, reconfigurations complete |
| `MailboxChannel` | abstract specification of `ecx_mbxsend` and `ecx_mbxreceive`: a channel to the slave and back |
| `Mailbox` | `ecx_mbxempty`, `ecx_mbxsend`, `ecx_mbxreceive` against the two mailboxes of a slave |
| `CoE` | extends `Mailbox`: `ecx_SDOread` and `ecx_SDOwrite` against a slave's SDO server; shown to implement `MailboxChannel` |
| `MailboxClient` | a call of a protocol over `MailboxChannel` |
| `FoE`, `EoE`, `SoE`, `SDOInfo` | extend `MailboxClient`: the protocols and their servers in the slave |
| `Services` | composition: an application that uses these protocols on one slave in turn |
| `ServicesProofs` | its types, and the invariants of a file transfer and of a read or write over SoE amid everything else that uses the mailbox |
| `SIIFormat` | the walkers over the categories of an EEPROM, as functions of the bytes; how an EEPROM is laid out, and what the walkers are to find (reference definition) |
| `SII` | extends it: cache, register protocol, control of the EEPROM, with slaves that refuse or leave |
| `SIIProofs` | its two invariants: who controls an EEPROM; what an access of it holds at each step, and the cache |
| `Bus` | a tree of slaves with their registers, delays and clocks (external) |
| `Discovery`, `Mapping`, `DistributedClocks` | `ecx_config_init`; `ecx_config_find_mappings`; `ecx_configdc` and `ecx_dcsync0/01` |
| `Setup` | composition: the start of a master, one after the other |
| `Servo` | `sv660n_test.c` with its drive |
| `ServoProofs` | its invariant: targets near the drive, data laid out as the program assumes |
| `MC*` | the instances TLC checks (`ErrorList` and `Servo`, whose constants are model values and numbers, need no module of their own) |

How they hang together: `Drivers` shows what a primitive is (an exchange that
succeeds, fails, or is done with its answer lost), which is how `SlaveState`,
`SII`, `Mailbox`, `Discovery`, `Mapping` and `DistributedClocks` use one. `CoE`
shows that the mailbox is a `MailboxChannel`, which is what the other protocols
are built on. What `Mapping` leaves in the SMs is the input of `IOMap`, what
`IOMap` leaves the input of `ProcessData`. `Servo` uses the calls of all of them
as one step each.

### Error list

One action per function. `Error`, `head`, `tail`, `ecaterror` are the C
variables; `popped` is what the last `ecx_poperror` returned. The loop
`while (EcatError) printf("%s", ec_elist2string())` is the fair action `Drain`.
Descriptors are model values: what the `ecx_*error` functions put into one is
not told apart.

Run `error_list` (ring of 4 slots, two errors, seven pushes: the ring wraps
around and overflows several times): `RingIsFifo` (refinement of `ErrorFifo`),
`WaitingIsAnnounced` (an error that waits has `EcatError` raised, its slot a
descriptor and its signal bit), `DrainEnds` (the printing loop ends).

### Ethernet hook

`netfrm_head`, `netfrm_tail`, `netfrm_full`, `netfrmbuf` are the C variables;
`pc` and `data` are the progress of `net_recv`; `netif`, `input` and
`dev_input` are the hook's pointer, the function it saved and the function the
device has. lwIP's thread has the higher priority and does not block inside
`_netif_input`, which is therefore one step; it can come between any two
accesses of `net_recv`. `pending` and `last` are history: what is stored and
what was read. A frame is its arrival number.

Run `net_hook` (3 slots, up to 7 frames, two installs; windows of 2 frames
under way, less than the ring, and of more than the ring):

* `RingIsQueue`: under every interleaving the ring implements `RxQueue`. The
  one loss it may show, `Overrun`, is the code's: a ring that fills up between
  `net_recv`'s test and its `netfrm_full = 0` is forgotten as a whole.
* `NothingForgotten`: that cannot happen to a master with fewer frames under
  way than the ring has slots (SOEM has at most 16 indices, the ring 10 slots;
  the process data of the test programs need one or two frames).
* `RingReopens`: a full ring takes frames again.

`NothingForgotten`, `NoTornCopy` and `CountersAgree` are proved (section 5). `Reinstall` says whether
`install_hook` may be called while installed. The applications never do; the
run and the theorems take it as FALSE. With TRUE the hook saves its own
function as the driver's, as the message in `install_hook` warns.

### Frame driver, one interface (`NicDrv`)

One action per access to `rxbufstat` or `rxbuf` that another thread can come before or
after. A thread goes through `take, scan, claim` (`ecx_getindex`), `send`
(`ecx_outframe`; `refused` where a port puts the index of a refused frame back), then
`check` (the look at `rxbufstat` without a mutex) and either `found` (it takes what was
filed for it) or `lock, recv, match, copy, mark` (the read under `rx_mutex`) and `test`
(the timers of `ecx_waitinframe` and `ecx_srconfirm`), until `use`, where the caller
reads the buffer and gives it back with `ecx_setbufstat`. The test for TX
(`nicdrv.c:408`), the copy (:412) and the mark RCVD (:414) are three actions,
`InframeMatch`, `InframeStore` and `InframeFile`: the owner of the index, which needs no
mutex for what it does to its own buffer (:235, :262, :216), may time out, send again or
give the index back between any two of them, and another thread may take it. A thread's
own frame goes the same way to `InframeComplete`. A working counter is read in one action with
the mark COMPLETE beside it: with working locks nobody else writes the buffer in between (`Filing`).

`op` says whether a thread confirms one frame with retries or sends a batch (process
data). `transit` is the wire with everything behind `net_send`: any frame of it may
arrive at any time, in any order, or never. `Timely` is the one thing assumed of it: a
frame is gone once `Lag` newer transactions have begun than its own. A frame that was
read is no longer on the wire: its thread may take as long as it likes to file it.

A *setup* is a port with the threads that use it. A port is the mutex `ecx_getindex`
takes, whether it waits for it, and what becomes of a refused frame's buffer. The
RT-Thread port takes `rx_mutex` for 10 ticks in `ecx_getindex`, ignores the result and
releases `getindex_mutex`; the others hold `getindex_mutex`. The RT-Thread and the rtk port
leave a refused frame's buffer TX, the others set it EMPTY.

Two history variables: `starved` (an index was taken that was in use), and `lost`, the
buffers marked RCVD that nobody held any more. Such a buffer is never EMPTY again and so
out of use for good. `Enough` says that the buffers suffice: one for each `Slot` (a frame
a user may have under way), one for each transaction that may begin before a late frame
is gone and filed, and those lost.

* `nicdrv`: the RT-Thread port with one thread (batches, 8 transactions), the rtk port with two
  (5 transactions with one try, also with batches, or 4 with two), 4 buffers.
  `IndexExclusive`: no two threads hold one index unless one had to be taken by force,
  and none has while the buffers are enough. `AnswerIsMine`: while they are, the answer used
  carries the transaction the thread sent. `ReceivedStays`: what was filed RCVD for a
  thread is not dropped or overwritten by anybody else, neither by a filing under way nor by a
  claim, unless its index was taken by force. All three are proved.
* `nicdrv_ends`: `ExchangesEnd`: every exchange ends whatever is lost or refused, with two
  users on the RT-Thread and the Linux port too, and with a batch of 3 over 2 buffers, whose
  third index is taken by force.

`AnswerIsMine` needs `Enough` because the code identifies an answer by its 8-bit index only.
The run meets it with nothing to spare (2 slots and `Lag = 2` over 4 buffers); with one buffer
more lost a late answer is filed for another transaction within the run's bounds.

### Primitives and two interfaces (`Datagram`, `Drivers`)

`Datagram` keeps what the code writes at which offset of a frame: headers, data,
working counters, and the links by which a frame holds several datagrams; a
read looks at the offset the code looks at. A datum is a sequence of words, a
word the set of its bits. `PointerSize` is there because `ecx_LRWDC` sizes its
FRMW datagram by `sizeof(DCtime)`, a pointer.

`Drivers` is one call of a primitive: `OutPrimary` and `OutDummy`, the pass along
the line up to the break and back, `inframe` and the polling of both sockets, the
rules of `ecx_waitinframe_red` for the ways the two frames came back, and the
turns of `ecx_srconfirm`. `SocketNic` and `MuxNic` are records and operators of
the two ports, so that `Drivers` says which transaction is common and they say
what differs: a socket keeps frames until somebody reads, VxWorks' network task
files a frame in a queue of one place if it is expected and drops it if not.
The InTime driver polls a ring of receive buffers as a socket is polled; its operators
(`hpe...`) are at the end of `SocketNic`. Its transmitter may refuse a frame without
unmarking it, and its `ecx_srconfirm` sends once.
Another thread may read the sockets at any moment (`filing`).

* `drivers`: three slaves in another order by address and by logical place than
  on the line, every primitive on every slave, one stack or two (InTime: one), the line whole
  or broken at any place, two attempts, up to two faults (a frame lost, a send
  refused, a timer that expires early). `LineLooksWhole`: if no frame goes astray
  a call reaches every slave once, in order, and returns what the slaves held
  with the full counter, broken line or not. `FullCountIsTrue`: whatever is lost, a
  full counter never comes with wrong data.

The premises are the histories of what the code leaves open (section 4): `late`, a
frame that arrives after its call sent another; `torn`, a frame another thread has
marked as received before it noted the way it came.

### IO mapping and process data

`slave` and `dir` are the loops over the slaves and over outputs and inputs;
`pc` is the place inside the loop body. `CallCreate` to `EndCreate` are
`ecx_config_create_output_mappings` and `..._input_mappings`, which differ in
names only: `StartFMMU` opens a run of SMs, `JoinSM` adds the next SM or breaks
at a gap, `PlaceFMMU` gives the FMMU its logical bits (`PlaceBits` for a slave
of less than 8 bits, `PlaceBytes` otherwise) and programs it, which may fail
without anybody noticing (`programmed`). `AddToSegment` is the block that is
repeated five times in the code. `segstart` is history: where each segment
starts. `oLogAddr` stands for `oLogAddr` of one function and `mLogAddr` of the
other; `soLogAddr`, `siLogAddr` are those of the overlapping one. Addresses are
relative to `logstartaddr`; `overlap` says which function was called.

The SMs of a slave are input (what `Mapping` leaves): a sequence per direction, in
the order of `SMtype`, that holds the bits of that direction. `MapsItsSMs` needs
`OneGap`: the SMs ascend, hold whole bytes of process data and leave one gap at most.
`ByteCount` is never reset (ethercatconfig.c:1049), so that the second FMMU asks for the
bytes of both runs; the limit of the slave's total cuts it down to its own, and would not
if a third run followed. TLC evaluates `OneGap` for the groups of the run.

`Init` of `ProcessData` is that of `IOMap`: a behaviour first maps a group and then,
if the group is one of `Exchanging`, exchanges data over what the mapping left.
`stage` follows the EtherCAT thread: `WriteOutputs` is the application, `BeginSend`
the choice between LRW and LRD/LWR, `SendDatagram` one turn of a segment loop,
`ReceiveNext` one turn of the receiving loop, `EndReceive` the end with its result.
`idxstack` is the stack of indices (`pushindex`, `pullindex`, `clearindex`), each
entry with the datagram it stands for. `Pass` is a datagram meeting any part of the
slaves, `Lose` one that does not come back.

A value names the bit of the slave's memory it belongs to and its age, so that
a bit in the wrong place or of an old exchange is told apart. `Cells` says, from
the pointers `outputs`, `inputs` and the start bits, which bit of the IOmap an
application takes for which bit of a slave: what the mapping programmed and what
the application assumes are compared through the exchange. Of the frame driver
only what `NicDrv` shows is used: an answer belongs to its frame, waiting ends.

Run `process_data`: lists of one and two slaves out of nine kinds and of three out
of six (3, 6, 8, 9, 16 bits; one SM, two adjoining, two with a gap; outputs, inputs
or both), mapped in sequence and overlapping, segments of 2 bytes, at most 4, so
that segments end inside a slave's data, at its end, in a shared byte, and run out;
the lists of `MCExchanging` then exchange data twice, in one to three segments, by
LRW or LRD and LWR, with clocks or without, with every combination of lost datagrams
and absent slaves.

* `SegmentsCover`, `FMMUsDisjoint`, `MapsItsSMs`, and `BytesInOneDatagram` (a
  byte-oriented slave is never cut in two, so it counts once in the working
  counter; a bit-oriented one may be, if its bits straddle a byte). All are proved,
  `MapsItsSMs` from `OneGap`.
* `ExpectedMeansExchanged`: the working counter is what the applications expect
  exactly when all outputs arrived and all inputs are new.
* `BitsInPlace`: no bit goes astray in either direction, whatever is lost, and the
  outputs in the IOmap are what the application wrote. Proved, from `OneGap` and without
  `LateWrites`; with late writes the outputs may be old ones, but still no bit strays.

`ExpectedMeansExchanged` has the premise `Consistent`: a slave that missed the
programming of one of several FMMUs answers with the same counter as one that has
them all, and nobody looks at the result of that programming. `LateWrites` is
FALSE in the run: with LRW, outputs written between send and receive are
overwritten by the copy of the answer; with LWR they are not, and the run writes
then.

### Slave states

One action per datagram; `pc` is the place in the function called, `call` and
`slave` its name and argument, `return` the place a state check goes back to
(`ecx_reconfig_slave` makes three). `state`, `configadr` are `slavelist[]`;
`eep` stands for the four values a recovery compares. On the other side are the
slaves by position: `stadr`, `alcontrol`, `alstatus` are their registers,
`programmed` their SMs and FMMUs, and only `1 .. reach` are connected. A status
is the set of its bits, so that a broadcast is a union. `Exchange` is one
`ecx_srconfirm` with all its retries: it succeeds, is lost, or is done with its
answer lost. `CutOrJoin`, `Reset` and `Obey` may come between any two datagrams.
The alias read of a recovery may fail unnoticed (0 is a legal alias); the reads
of the EEPROM that follow it then decide, and `Identify` is the four together.

`seen`, `begin`, `disturbed` and `faults` are history: statuses during the call,
addresses at its start, whether anything went wrong in it, and how often in
recoveries so far.

Run `slave_state`: two slaves that may be replaced by another kind, two calls, two
changes of the bus, two lost exchanges, one status word per frame (so that a
read of all takes several).

* `ReadTrue`: what is recorded of a slave was its status during the call, or says
  that it did not answer. INIT and PRE_OP together read as BOOT in a broadcast, which
  the property allows.
* `AddressesUnique`: a recovery that fails leaves a slave at `EC_TEMPNODE`; the next
  one clears it before it uses that address, so that no two slaves get the same one.
* `RecoveryTrue`: success means the known device, in its place, with its address; and
  a slave without address gets it back from a call that nothing disturbs, whatever is
  left over from earlier calls.
* `Reconfigured`: once an undisturbed call has awaited SAFE_OP, SMs and FMMUs are
  programmed, whether the slave followed or not. The state returned does not say so
  alone: of a slave that would not leave SAFE_OP for INIT the call returns SAFE_OP at its first check
  (`ethercatconfig.c:1588`), with the FMMUs not programmed.

Two faults in recoveries (the clearing lost as well) do give two slaves one
address; `AddressesUnique`, `ReadTrue` and `Reconfigured` say up to where they hold
by `faults < 2`. `RecoveryTrue` needs no such premise. All four are proved. A state check of
slave 0 ignores how many slaves answered, and nothing is claimed of those that
did not.

### Mailbox and SDO transfers

`MailboxChannel` says what `ecx_mbxsend` and `ecx_mbxreceive` promise: a message that
is offered reaches the slave once or not at all, whatever the result of the call;
the slave's messages are read in their order, each once or not at all; only after a
read was given up while a repetition was asked for may the message fetched last come
again.

In `Mailbox`, `pc` is the place in the innermost function and `return` the place it
goes back to. `sm0` and `sm1` are the slave's mailboxes, `backup` the message it would
send again, `repeat` and `ack` the bits of SM1 that ask for that and confirm it. One
action is one datagram that matters: a turn of a waiting loop that learns nothing
changes nothing and is left out, so that status reads may be lost freely. A lost
datagram of contents, a lost request to repeat, and a timer that expires while
something is still under way take from `MaxFaults`; so loss and slowness come
together, at any place. A message of the kinds `ecx_mbxreceive` deals with itself
(emergency, mailbox error, a fragment the EoE hook takes) is one kind,
`Emergency`. After one the loop reads the mailbox again at once, finds it empty and
asks for a repetition, as the code does: the slave then sends the same emergency
once more.

A call of `CoE` takes the mailbox through `CallMbxreceive(0, ..)`, which clears what is
left over, a request, its answer, and for a large object one exchange per segment.
`Chunks` is the size of an object in messages, and a chunk's value the number of
the call that wrote it; `Index` lets two objects share an index and differ in the
subindex, which a read does not compare. The comparison of sizes with the
caller's buffer is a free choice.

Of the slave the model assumes what the EtherCAT mailbox promises: it answers a
request to repeat before it puts or takes another message, repeats the message read
last or leaves one that is unread, drops a request with the counter of the one
before, and its SDO server checks toggle bits and sizes. What a retried write
relies on is that rule about counters, and `ec_nextmbxcnt` has to skip 0, which the
slave does not compare.

Run `coe`: two transfers of any of three objects, two of them with one index and
the third of three chunks, counters 1 to 3, four faults, one emergency.

* `IsChannel`: the mailbox implements `MailboxChannel`. The mapping is in `CoE`:
  `offered` is the message of `ecx_mbxsend` until the slave has taken it, `toMaster`
  what stands in the mailbox or waits behind it, `doubt` the history `abandoned`.
* `ReadTrue`, `WriteTrue`: success means the whole object was read or written, unless
  a segment slipped or an earlier call for that index failed.

`slipped`, `suspect`, `abandoned`, `latest`, `executed` are history. `slipped`: a
mailbox function failed inside the loop over the segments and the loop went on.
`suspect`: the indices of calls that failed or slipped, whose answers may still come.
The premises of `ReadTrue` and `WriteTrue` are what the code leaves open: an answer
is told apart by its index (a write: and subindex) only, and the mailbox is
cleared by a single read with timeout 0. Without `suspect` a late answer to a call
that timed out is taken for that of the next call for the same index.

### The other mailbox protocols

`MailboxClient` has a call's use of the channel: a mailbox function sends or receives
and returns to where it was called, with loss, early expiry and repetitions as far as
the channel allows them. `FoE`, `EoE`, `SoE` and `SDOInfo` translate the functions of
the C files, one action for what lies between two mailbox functions, next to the
server in the slave. A packet is the octets it carries, an octet the call (or the
delivery of the slave), the file, element or frame it belongs to, and its place.
`EoE` has the three ways a frame reaches the application: `ecx_EOErecv`,
`ecx_EOEreadfragment`, and the hook that `ecx_mbxreceive` calls whatever protocol is
waiting (`EOEhook`). `Services` runs an application that uses one protocol or two of
them in turn (`Sessions`), so that what a call left under way meets the next.

Run `services`: two calls, two faults, files and values of one or two messages,
frames of one or two fragments, one packet refused as busy, a dictionary larger than
the master's list. `FOETrue`, `EOETrue`, `SOETrue`, `DictionaryTrue`: a call that
reports success has moved the file, the frame, the value or the descriptions as they
are. Their premises are `stale` (what of the same protocol was under way when the call
sent its request: the answers carry no identification of the request beyond their
kind; for a write of FoE two earlier writes must have failed before enough acknowledges
are left behind, so its premise was checked with three calls), `slipped` (a mailbox function failed and the loop went on), in FoE an empty
file or a busy slave (section 4), and `doubt` for the answers in several messages that carry no
number: the fragments of a SoE value, of the list of objects, and the entries `ecx_readOE` asks for.
A read that was given up may have asked for a repetition that the slave makes later, and then one of
those messages comes twice. Two faults of one session reach this where SoE and CoE are used in turn:
the first loses the read, the second is the late repetition. Sessions of two protocols have both
faults, only those with EoE have one.

### EEPROM

`SIIFormat` has `ecx_siifind`, `ecx_siistring`, `ecx_siiFMMU`, `ecx_siiSM`,
`ecx_siiSMnext` and `ecx_siiPDO` as functions of the bytes, each with its value and the
addresses it reads; `SII` reads on at the first address that is not cached, which is
what `ecx_siigetbyte` does. One action of `SII` is one datagram with its answer, or one
wait for the EEPROM to be ready: `Status`, `Command`, `Commanded`, `Executed`, `Fetch`
follow `ecx_readeepromFP/AP`, `ecx_writeeepromFP/AP` and the reads in two steps;
`Forced`, `Taken`, `Given` the hand-over of control; `Miss`, `Fill`, `Find`, `Found`
the cache and the walkers; `Dumped` the turns of `ecx_esidump`. The second part of `SIIFormat`
lays out an EEPROM from its contents (`Laid`) and says from the contents alone what a walker
is to return (`Expected`).

Run `sii`: a slave that reads 4 bytes at once, with strings, and one that reads 8, with
FMMUs, SMs and PDOs; every function called, two calls, so that the second meets the
cache and the control the first left; one exchange or wait that fails or a slave that
leaves, three refused commands.

* `FoundRight`: what is cached is what the EEPROM holds, but for bytes of failed reads
  (`spoilt`) (`CacheTrue`, proved); over good bytes every walker finds what the contents
  say; and a dump goes as far as the categories do.
* `AccessTrue` (proved): a read returns the word it was asked for, a write that ends
  was executed, the dump returns what is there, no access takes more than three commands but
  for those of failed exchanges. Not so if an exchange failed (`slipped`) or the
  slave's own processor had control during an access by position, which does not ask.
* `ControlTrue` (proved): what is recorded of the control of an EEPROM is so, and a walker and
  the dump leave it as they found it.

### The start of a master

`Bus` is the tree of slaves with the registers a start writes (`stadr`, `smreg`,
`sysdelay`), the delays of cables and branches and clocks of 32 bits (`Signed`, 8 bits
in the run). A datagram to a station address reaches every slave that has it; of a loop
of the code up to `faults` calls fail. `Discovery` follows `ecx_config_init` loop by
loop (`phase`, `at`), with the EEPROM accesses of all slaves overlapping as in the code;
`FromTable`, `FromEarlier` and `FromSII` are the three sources of a slave's details, and
the search for a slave's parent walks back over the list. `Mapping` follows
`ecx_config_find_mappings`: complete access, entry by entry, SoE, an earlier slave of the
same name, EEPROM; then `map_sm`. `DistributedClocks` latches the port times of one
broadcast and works through the slaves with clocks; `dcsync` starts the cyclic signals
at any moment.

Run `setup`: all trees of three slaves and five of four, with any of the slaves having
clocks, four of six, lines of up to three of eight kinds of slaves (table entry, CoE with
and without complete access, SoE, EEPROM only, mapping with zeros, same name with other
revision), switched on or left over from an earlier start; on the smaller buses one call
fails anywhere.

* `TopologyTrue`: every slave has the parent it hangs on (its port of the parent enters `DelaysTrue`).
* `DetailsTrue`: identity, mailbox, protocols and SMs are the slave's own, although
  they may have been copied from an earlier slave; the sums of entry 0 are right.
* `MappingTrue`: bits and SMs are what the slave's own dictionary or EEPROM says, and
  whatever failed, the SMs of a direction have room for its bits.
* `DelaysTrue`: the delay of a slave is how much later the frame reaches it than the
  first clock.
* `SyncTogether`: slaves started with one cycle fire at the same moments, whenever and
  by whichever of the two functions they were started.

Premises: the addresses arrived (`Addressed`), no call for the slave or one of its name
failed (`Unharmed`, `Known`); for delays, splits have clocks (`Splits \subseteq Clocks`)
and the port times do not change sign between them (`SameSign`).

### The servo program

`Servo` is `ectest` with one drive: `RequestInit`, `config_init`, `process_data_config`
(one SDO write with its repetitions per step), `config_map`, the waits for SAFE_OP and OP,
the cyclic loop with `servo_switch_op` and the target position, and the way out. `io` is
the IOmap read as `SERVO_DATA_T`; `al`, `od`, `drive` are the slave's AL state, its PDO
assignment and the CiA 402 drive. An exchange is "ok", "lost", or "late" (done, its answer
lost).

Run `servo`: `ectest` called twice (the second finds the IOmap and the drive the first
left), two frames or services lost, two events out of: the drive trips, is cleared, loses
its supply, warns, is moved by hand, drops out of OP; it obeys a command up to one
exchange late.

* `TargetNear`: an enabled drive whose data is laid out as the program assumes has a target
  at most `Patience + 1` steps from where it stands. The order of the states of
  `servo_switch_op` and the line that reads the position back are what this rests on.
* `LayoutRight`: in the loop the drive's data is laid out as the struct, unless a write was
  never answered in all its tries. Both are proved.
* `Returns`: `ectest` comes back, whatever the drive does.

## 3. Bounds and fairness

Bounds are CONSTANTS whose comment starts with "bound:"; they end a behaviour and
enter no property but as the number of faults a premise allows. Sizes of the code
(`EC_MAXELIST` 64, `HOOK_RX_BUFSIZE` 10, `EC_MAXBUF` 16, 1466 bytes in a segment, 64
segments, 32 octets in an EoE block, 1024 objects in a list, 10 tries, 200 checks,
10000 cycles, 32 bits of time) are small in the runs: a ring, a segment or a list has no
special size, and the bounds let each ring wrap around and overflow and each list end in
all the ways it can.

* `MaxPushes`, `MaxFrames`, `MaxInstalls`: more than the ring holds, twice over.
* `txns` and `tries` of a setup of `NicDrv`: five transactions over four buffers bring an index
  round again while a thread files an answer to the first; with `Enough` weakened by one
  TLC finds a wrong answer within these bounds. Retries double the states: two threads have two
  tries with four transactions, one thread with eight. `Lag = 2` is a frame that arrives after
  its transaction was given up and another one begun. `nicdrv_ends` checks liveness with two
  transactions of two users, `Lag = 1` and two buffers.
* `MaxExchanges` 2: anything left over from one exchange meets the next.
* `MaxChanges`, `MaxLost`, `MaxCalls` of `SlaveState`: a recovery meets what a failed one
  left; two faults are one more than some properties allow.
* Four faults of `CoE` let a request to repeat be lost twice, or an answer be lost and its
  call time out, with two more for the call that meets what is left; two transfers are the
  least in which one meets the other's answers. `Services` builds on the channel and so
  needs fewer: two, and one when protocols are mixed (`Mixed`), with one frame of the slave.
* `SII`: two calls, one fault, three refusals (the code gives up after the third,
  `nackcnt < 3`); `EC_DEFAULTRETRIES`, how often each datagram is repeated, is 1 in the run.
* `Setup`: `MaxFaults` depends on the bus: none on the trees of four and six, whose question
  is the topology and the delays; `SyncBuses` and `MaxTime` bound where and when signals start.
* `Drivers`: `MaxAttempts` 2 and `MaxFaults` 2: the first attempt goes wrong in one way and
  the second in another.
* `Servo`: 8 cycles are enough to switch on, move, trip and be switched on again.

The theorems hold for every size. Runs whose bounded counters end a behaviour say
`CHECK_DEADLOCK FALSE`: the bound, not the code, stops there.

Fairness:

* `ErrorList.Drain`: the application is inside its printing loop.
* `NetHook.net_recv`: the driver polls in a loop while it waits for an answer,
  and lwIP's thread sleeps between two frames.
* `NicDrv`: every thread is scheduled (weak fairness of its own steps); a loop
  that looks at a timer again and again finds it expired (strong fairness of
  `Expire`); a mutex that comes free again and again is given to whoever waits
  (strong fairness of the two lock steps; RT-Thread and POSIX queue waiters).
* `Servo.sv660n_config`: the program's thread is scheduled. Nothing is assumed of the drive.

## 4. What the code leaves open

Where the code does not do what a comment says, or does it under a condition only, the
properties have a premise or the model a restriction. These are they (paths without a
directory are in `src/soem-1.4.0/soem`).

Frame driver. `oshw/rt-thread/nicdrv.c:197` takes `rx_mutex` for 10 ticks, ignores the
result, and releases `getindex_mutex`, which nobody took (:223): two threads on the
RT-Thread port can get one index, and two can read at once after a wait of 10 ticks (:381).
The applications use one thread, as the safety run does; that the exchanges of two still end is
checked. On every port a thread that found somebody else's buffer TX (:408) marks it RCVD (:414)
although its owner may have given it back in between: the buffer is then in use for ever,
each time one less, until a search ends on one that is held (:207) and hands it out a
second time. `IndexExclusive` and `AnswerIsMine` hold as long as the buffers not lost are
enough (`Enough`); how often a buffer is lost depends on the scheduler, and nothing in the
code bounds it. If another thread took the index in between, its buffer is marked RCVD before it
has sent, and its own `ecx_outframe` marks it TX again (:262); this needs the search to come
round while one thread files a frame, which `Enough` excludes. Linux, Mac OS, Windows, RTEMS and
InTime set the buffer of a frame that `send` refuses EMPTY (`oshw/linux/nicdrv.c:288`) while its
owner goes on to wait with it and may send it again: another thread can take that index, so that
the safety properties are claimed for the ports that do not, RT-Thread and rtk.
`ecx_srconfirm` returns at once on a working counter of 0 although the comment before it
speaks of retries (:575); that of InTime sends once whatever happens (`oshw/intime/nicdrv.c:674`),
and when its transmitter stays busy it leaves the buffer ALLOC.

Two interfaces. VxWorks drops a frame of the primary that reaches the secondary interface
before the dummy was marked as sent, and cleans abandoned frames out of the primary's queue
also when it sends the dummy (`oshw/vxworks/nicdrv.c:434`); on Linux a thread that reads the
secondary socket drops it. Linux marks a frame as received before it notes which way it came
(`oshw/linux/nicdrv.c:437`). When the primary's frame is lost on a broken line all of it is
sent again over the secondary, and auto-increment positions count from the break. A dummy
alone gives a counter of 0, which is not `EC_NOFRAME`, so that nothing is tried again. After
an early timeout the dummy of the attempt before is taken for that of the next. `FPRD_multi`
returns the counter of its last datagram only. `ecx_LRWDC` sizes the clock's datagram with
`sizeof(DCtime)`, 4 on the target, and copies 8 bytes (`ethercatbase.c:523`). Redundancy of the
RT-Thread port cannot work (one device, `ecx_outframe_red` locks `rx_mutex` and releases
`tx_mutex`) and is not modelled.

IO mapping. `ByteCount` is never reset (`ethercatconfig.c:1128`): with three SMs that do not
adjoin the second FMMU is sized for the third SM as well; the run has at most two SMs in a
direction. With an overlapping map used by LRD and LWR the LRD addresses `Obytes` past the FMMUs
(`ethercatmain.c:1747`); the run's overlapping group uses LRW. With more outputs than inputs in an
overlapping map, the answer is copied past the end of the IOmap the caller was told
(`ethercatmain.c:1859`, `:1952`; `ethercatconfig.c:1366` promises the size); the run's group
has no more outputs than inputs. `ecx_pushindex` drops an index when the stack is full
(`ethercatmain.c:1648`).

Slave states. A slave left at `EC_TEMPNODE` is refused by later recoveries (`ethercatconfig.c:1530`)
although the next line clears that address. `ecx_statecheck(0, ..)` ignores how many slaves
answered (`ethercatmain.c:878`). A reconfiguration returns the state its last check saw, which is
SAFE_OP also for a slave that never left it and was not programmed (`ethercatconfig.c:1588`). The error list has no lock (`:155`) although the test programs
check the state from a second thread.

Mailbox and protocols. A segmented SDO read goes on when a mailbox function fails within its
loop and may succeed without that segment. Answers of the object dictionary are not compared with
the index asked for; `ecx_readOE` returns the result of its last entry; the end that
`ecx_readODlist` sets for a full list is overwritten (`ethercatcoe.c:1060`, `:1080`). FoE
takes a busy answer for success of the packet (comment at `ethercatfoe.c:308`), never ends an
empty file, takes acknowledges that earlier writes left in the mailbox for its own (they carry a
packet number only, so a write may report success for a file the slave never got), and sizes packets by the other mailbox (:90). EoE with the hook reads a fragment a
second time because the hook leaves a working counter of 0; without it a fragment aborts
other protocols' calls; fragments too large for the buffer are left out without an error. The repetition that a read given up asked
for may come within the next answer; fragments of a SoE value and of the list of objects carry no
number that is compared, so the value or the list has that part twice (`ethercatsoe.c:122`,
`ethercatcoe.c:1073`). SoE
does not compare the IDN of an answer, goes on after a failed fragment of a write, and tests an error
of a write as one of a read (`ethercatsoe.c:276`).

EEPROM. A read that failed leaves its bytes in the cache and marks them valid
(`ethercatmain.c:363`). `if (wkc)` is true for `EC_NOFRAME` (:1303). A wait that expires with its
last read lost counts as ready (:1254). Control is recorded as handed over when the write failed
(:1209). The loop over refused commands is left by a counter of refusals that only an answer
changes (`nackcnt > 0`, :1510, :1573, and :1340, :1405 by position): a slave that leaves after a
first refusal keeps it there for ever. `AccessTrue` counts the commands a slave got, not these. `ecx_readeeprom2` ignores a refusal, a write ignores the result of its data datagram
(:1542). `ecx_siistring` leaves the text as it was when there is no category of strings (:443,
the comment says "0x00 if not found"). `ecx_siifind` never ends on a section whose length takes
its 16 bit address back to where it was (:421); the run's EEPROMs are well-formed. An answer at the
end of `esibuf` is written past it; that is left out.

Discovery, mapping, clocks. Alias and the 8 byte flag are read in the loop that gives out the
addresses, before later slaves have lost old ones (left out). Details and mappings are copied
from an earlier slave of the same name also when that slave's own reads had failed
(`ethercatconfig.c:269`). An SM of type 0 that was disabled is enabled again if the EEPROM has
a length for it (:781). The list of ports is not initialised when the read of the link status is lost
(`ethercatdc.c:350`); the cycle time is divided by before it is tested for 0 (:103). The port with
the lowest time is chosen by signed comparison, and splits without clocks give wrong delays. There is no
limit to the search for a free FMMU (:919). These bound the premises of section 2.

Servo program. Control 8 is not the bit that resets a fault (0x80), so that a fault has to be
cleared at the drive; the status is masked with 0x3ff, which leaves the warning bit in, so that a
warning keeps the control word; results of the SDO writes are ignored; with more than one drive the
array of structs is not what `ec_config_map` lays out; a failure to reach SAFE_OP closes without a
request for INIT; the loop ends with the drive enabled until INIT. `safe_SDOread` would never count its tries
(:231), but nothing calls it. None of them lets a target run away from an enabled drive in the model.

## 5. What is proved

Every theorem is proved for all values of the constants that satisfy the
assumptions of its module, from an inductive invariant that TLC checked first.

* `ErrorListProofs`: `ListInv` is types with `WaitingIsAnnounced`, which is
  inductive as it stands. `RingImplementsFifo` maps a push to `Push` and a pop to
  `PopOldest` or `PopNothing`; the lemmas `PushQueue` and `PopQueue` say what a
  step does to the sequence of slots between `tail` and `head`.
* `NetHookProofs` (assuming `Reinstall = FALSE`): `RingInv` ties the slots from
  `netfrm_head` on to `pending` (`ContentInv`), says when the ring may be marked
  full (`FullInv`), and what `net_recv` may rely on at each of its steps although
  the other thread runs in between (`ReadInv`). From it follow that the ring implements
  `RxQueue`, that the slot being copied is not written (`NoTornCopyHolds`) and that head, tail
  and full account for all frames between two reads (`CountersCorrect`). `OrderInv` says
  that frames are read in the order of their arrival and `WindowInv` that those still
  to arrive and those waiting are together within the window; a window of fewer frames than the
  ring has slots never fills it, hence `NothingIsForgotten`.
* `NicDrvProofs` (assuming `Disciplined`: a port that leaves a refused frame's buffer TX, and
  that waits for `getindex_mutex` or has one user). The first invariant, `Inv`: whoever searches
  owns the mutex, and whoever reads `rx_mutex` (`MutexInv`); a frame is filed under the index it
  carries (`ReadInv`); and, as long as no index was taken by force, a held index is marked in
  `rxbufstat` (`Marked`) and held once (`Once`), the index found is held by nobody when it is
  claimed (`Found`; a late mark may have made it RCVD), what a thread found RCVD stays so, and a
  buffer somebody is about to mark is neither RCVD nor COMPLETE (`Filing`). The last needs that one thread
  at a time reads: nobody else files under the index, and its owner cannot complete without an answer.
  `AnswersStay` follows: who changes a buffer that is RCVD is its owner. Without `Disciplined`
  these do not hold (section 4).
  The second invariant, `AnswerInv`, holds while the buffers are `Enough`. An index must not go to
  another transaction while a frame of the one before may still be filed under it. `OverlapInv`
  bounds how long that is: a frame under way is at most `Lag` transactions old, and while its
  reader takes its time, whatever has begun since waits for `rx_mutex`, one for each other
  slot, since an exchange ends only after a read of its own (`Waits`); `OverlapBound` counts them, by an
  injection into the slots. `RoomInv` says how far the search has come meanwhile: `Room` bounds the
  way from an index to the one found last, with the buffers in use beyond it, by the
  transactions begun since and `Spare` (the slots but one, and the lost). A buffer passed by a search was
  in use, so that the sum stays; a claim adds one to both sides (`ClaimAnswers`); a mark that comes too
  late adds one in use and one lost. A buffer in use is in a slot or lost (`SlotInv`), and a thread that
  searches has a slot free (`SlotsBound`), so that a search ends short of a round at a free
  buffer (`SearchInv`): no index is taken by force, which is the second half of
  `IndexExclusive`, and none that may still be answered. Hence `OwnInv`, that a frame under way or
  being read belongs to whoever holds its index, and `FiledInv`, that what is filed answers the
  holder's frame.
* `ProcessDataProofs`, the map: `TypeCorrect` includes that no size goes below 0 and that the
  segment list is not overrun. `Position` says how far the account of the
  segments (`oLogAddr`) trails the next free bit, `SegmentInv` that closed
  segments follow one another and the open one ends at `oLogAddr`, `Placed` that
  FMMUs lie below the next free bit of their direction. None of these is
  visible in `SegmentsCover` and `FMMUsDisjoint`, which speak of the finished map.
  `AddToSegmentKeeps` is the lemma about the repeated block; it holds until the
  group has used up its segments, as `SegmentsCover` says. `Together` is the invariant of
  `OneDatagramPerSlave`: slaves are accounted for in their order (`Order`), what was mapped of
  a slave since the last account lies beyond `oLogAddr` (`Fresh`), and an account puts all of it
  into one segment (`Whole`).
  `FMMUsMapSMs` assumes `OneGap`; its invariant is `Ties`: of the slave being mapped, the run of
  SMs that the next FMMU maps (`OnRun`: its bytes from `PhysStart` to `EndAddr`, the bytes
  mapped before it and the sum in `ByteCount`), of the slaves that are through, that all their
  bytes are mapped (`Complete`), and of the others, that none is (`InTurn`). `Runs` derives from
  `OneGap` that a run is left only at its end; `PlaceFMMUTies` shows that the FMMU has its length
  although `ByteCount` holds the sum of both runs by then.
* `ProcessDataProofs`, the exchange (assuming `OneGap`): two invariants beside those of the map. `Layout` says of
  the map what the exchange needs and `MapsItsSMs` does not tell: which one or two FMMUs a slave
  has and where they begin (`Shaped`, with `Laid` for the slave being mapped), that overlapping
  outputs end where `Obytes` says (`OutputsEnd`), and that the inputs begin within their segment
  (`OffsetWithin`, without which the first LRD had a negative length). From it follows `CellLies`:
  the bit that an application reckons from the pointer of a slave and the bytes of its SMs lies in
  an FMMU of that slave which ties it to that very bit of its memory. It rests on
  `BytesBeforeValue`, by induction over the SMs. `Exchanged` is the invariant of the exchange:
  each value in the IOmap (`ImageAtHome`), in the slaves (`MemoryAtHome`) and in a datagram on its
  way (`Carries`) is of the bit tied to its place; a datagram has the bits of its place in the
  image and its data pointer leads back there, or past the outputs of an overlapping map
  (`InOrder`); and an LRW under way has the outputs as they stand in the IOmap, so that its answer
  changes none (`Faithful`). `NoBitStrays` follows, for any number of exchanges, losses and absent
  slaves and every size of the stack of indices. `Faithful` is what a late write breaks:
  `LateWritesStayHome` is what remains then. `ExchangeImplementsMap` carries the theorems
  about the map over to the specification the run checks.
* `ServicesProofs`: `TransfersTrue` states `FOETrue` for every number of calls and faults, every
  size of a packet, a file and a buffer, and whatever the other protocols do in between. `Steps`
  sorts the actions of `Services` by what a transfer sees of them: a step of the slave or of a hook
  that adds messages of other protocols or takes one away, a call of another protocol, the
  channel, or a step of FoE itself. `Passes` is what those that are not of FoE have in common:
  nothing new goes to the slave or comes from it, and the order of what comes is kept. The
  invariants speak of a call that made its request with nothing of an earlier transfer under way and
  that no mailbox function has failed (`Alive`). `ReadOK`: the slave
  is asked for no packet beyond the one the call waits for (`ReadGoing`), so that packet `n + 1`
  of the file, and no younger one, is what may come (`ReadComing`); packets of
  higher numbers that an earlier read left behind come before packet 1 of this one (`ReadOrder`) and
  are gone when the call waits for their number; the buffer has the first `n` packets (`ReadBuffer`). `WriteOK`: one packet at a time is
  under way (`WriteGoing`, `WriteAlone`), and the acknowledge of the last packet comes only when
  the slave has it and all before it (`WriteComing`). `PacketJoins` is the arithmetic: the first
  `k` full packets and packet `k + 1` are the first `k + 1`, or the file if that one is shorter.
  `ValuesTrue` states `SOETrue` in the same generality. Parts of a value carry no number, so the
  invariant is about what comes as a list: `InOrder(k)` says that the parts that come
  are those after the `k` received, in order, none of them twice and none left out. The count of parts left
  tells them apart (`PartsDiffer`), hence the first part that comes is the next (`NextPart`). A
  write sends fragment `n` once the slave has taken fragment `n - 1`: the
  slave `Holds` the fragments up to there with a count left that the next goes below
  (`LeftGoesDown`, without which it would take it for the beginning of another write), or has
  sent an error that comes before any success (`Broken`). That is why a
  fragment the call sends after an error does no harm although the slave may take the last ones for
  a whole value and confirm them: the call returns at the error. `Spares` is what the steps have in
  common that are not of SoE; a read that was lost or a repetition only shifts the messages of SoE
  (`Shifted`).
* `SlaveStateProofs`: `Addresses` says that up to the second fault a slave has no address, its
  own or `EC_TEMPNODE`, and that while a recovery uses `EC_TEMPNODE` no slave within reach but
  the one it recovers answers to it; `Clean` that without a fault none is left with it; `Place` and `Progress` what each datagram of a
  recovery may rely on, and how far a call that nothing disturbs has come. `OneAddressEach`
  and `RecoveryIsTrue` follow at the end of the call. The second invariant, `StatesInv`, uses the
  first: `Reading` says what `ecx_readstate` has of each slave before its answer is recorded,
  `Reconfiguring` what `ecx_reconfig_slave` has programmed at each of its steps, and `Returns`
  from which of its three state checks a call comes back with which request, since the check is
  shared. `ReadIsTrue` and `ReconfigurationHolds` follow.
* `SIIProofs` (assuming that calls name slaves and words that exist): `Inv` says of
  the control what each hand-over may rely on (`Handover`), that the record is true but for a
  slave that is being handed over or that a failed write has lost (`Known`), and where in a call
  the control is that it is to give back (`Kept`). The second invariant, `Access`, uses the first:
  only a slave whose EEPROM the master controls takes commands (`Accepted`). `Places` says which calls
  come to a place and where an access returns to, since all of them share `Status` to `Fetch`,
  and `Frames` what is sent from there; `Protocol`, for an access nothing of which failed, what
  the slave's registers hold at each place: idle before a command, the data loaded before
  a write, refused or executed once idle again, executed when the data are fetched. `Asked` carries
  a read from its first call to its second, `Dumping` the words of a dump from turn to turn,
  `Counted` the commands against the refusals and faults, and `Buffered` the cache, whose bytes are
  cleared by an access of another slave and filled by one that `Protocol` covers. `ControlIsTrue`,
  `AccessIsTrue` and `CacheIsTrue` follow, for every EEPROM and width of its reads.
* `ServoProofs`: `Inv` adds to the types which AL state goes with each place in the program
  (`InPlace`), that the drive rests out of OP (`Rest`), what the writes of the PDO assignment so far
  have left (`Configured`), and what the program knows of a drive that may be enabled soon
  (`Known`): which control word it wrote for which status, and how far the target it holds
  is from the position, given that the drive obeys within `Patience` exchanges (1 at least).
  `TargetStaysNear` and `LayoutIsRight` hold for every number of cycles, losses and events.

Only model-checked: liveness (`DrainEnds`, `RingReopens`, `ExchangesEnd`, `Returns`),
`ExpectedMeansExchanged` of `ProcessData`
(its counter is a sum over the slaves, and for other groups than those of the run it does
not hold: a bit-oriented slave whose FMMU straddles two segments counts twice, and a stack with fewer
places than datagrams leaves answers out), the mailbox
(the refinement of `MailboxChannel` uses `SelectSeq`, a recursive definition) and its protocols but
for FoE and SoE (`EOETrue`, `DictionaryTrue`), what the walkers of `SII` find and how far its dump goes (the walkers and the layout of `SIIFormat`
are recursive definitions over data: what they compute for every EEPROM is out of the
prover's reach), `Setup` and `Drivers`.

## 6. Plan

1. Theorems: `DictionaryTrue`, along the lines of `SOETrue`; `ExpectedMeansExchanged` under the conditions named in section 5.
2. `ProcessData` with two groups that share one stack of indices, and in threads over `NicDrv`.
3. AL states and system times in `Setup`; slaves entered by another port in the middle of a line.
4. `RecoveryTrue` together with `Mapping`: a slave that is reconfigured while others exchange data.

## 7. Not modelled

`PROJECT.json` gives the reason for each component: text tables, WinPcap, the wrappers of
other operating systems, MAC drivers and the board's start-up hold no protocol state. In the modelled
files: groups other than group 0 (they differ in the start address), the working counter of the
clock's own datagram in `ProcessData`, the contents of error descriptors, AL status codes, the hooks of
`ecx_reconfig_slave`, system time offsets, SMs from 4 on, the error texts of the protocols, the
byte layout of mailbox messages, and in `Servo` the mode of operation (written once and never
changed), the error word and what is printed. `Drivers` has one call on one index and a cable that
does not change during it; `NicDrv` has the threads.
