---------------------------- MODULE DistributedClocks ----------------------------
(***************************************************************************)
(* ethercatdc.c: ecx_configdc latches the times at which one broadcast     *)
(* passed each port of each slave, chains the slaves that have a clock and *)
(* computes from the latched times how much later than the first of them   *)
(* each gets a frame.  ecx_dcsync0 and ecx_dcsync01 start the cyclic       *)
(* signals of a slave.  System times and offsets are left out: the slaves' *)
(* system times are one.                                                   *)
(***************************************************************************)
EXTENDS Discovery

CONSTANTS
  SyncBuses, \* bound: the buses whose signals are started
  Cycles,    \* the cycle times <<CyclTime0, CyclTime1>> an application asks for
  SyncDelay, \* how far ahead the signals start
  MaxTime    \* bound: the last moment a signal is started

VARIABLES
  dc,                  \* the clock part of the slave list
  DChead,              \* DCnext of entry 0
  prevDCslave, parenthold, ht,   \* locals of ecx_configdc
  now, sync            \* system time; what the cyclic unit of each slave was told

clocks == <<dc, DChead, prevDCslave, parenthold, ht, now, sync>>

NoClock ==
  [rt |-> [p \in 0..3 |-> 0], consumedports |-> {}, entryport |-> 0, parentport |-> 0,
   pdelay |-> 0, DCnext |-> 0, DCprevious |-> 0]
Silent == [start |-> 0, cycle |-> <<0, 0>>, active |-> FALSE]

ClocksInit ==
  /\ dc = [s \in Slaves |-> NoClock] /\ DChead = 0
  /\ prevDCslave = 0 /\ parenthold = 0 /\ ht = 0
  /\ now = 0 /\ sync = [s \in Slaves |-> Silent]

porttime(d, p) == IF p \in 0..3 THEN d.rt[p] ELSE 0

\* The open port a frame came by before port p, in the order 0, 3, 1, 2.
Before == [p \in 0..3 |-> CASE p = 0 -> <<2, 1, 3>> [] p = 1 -> <<3, 0, 2>>
                            [] p = 2 -> <<1, 3, 0>> [] p = 3 -> <<0, 2, 1>>]
prevport(s, p) ==
  LET open == IF p \in 0..3 THEN SelectSeq(Before[p], LAMBDA q : q \in s.activeports) ELSE << >>
  IN  IF open = << >> THEN p ELSE Head(open)

\* The next port of a parent no child was found for yet, in the order 3, 1, 2, 0.
portinorder(consumed) == IF consumed = {} THEN 0 ELSE Min(consumed)
parentport(consumed) ==
  LET open == SelectSeq(<<3, 1, 2, 0>>, LAMBDA q : q \in consumed)
  IN  IF open = << >> THEN 0 ELSE Head(open)

(***************************************************************************)
(* The open port with the lowest latched time, the first in the order 0,   *)
(* 3, 1, 2 of equals.  Of a slave without an open port an element of a     *)
(* list nobody filled is read: any port, or none (4).                      *)
(***************************************************************************)
entryports(s, rt) ==
  LET open == SelectSeq(<<0, 3, 1, 2>>, LAMBDA q : q \in s.activeports)
      lowest == {n \in 1..Len(open) : \A m \in 1..Len(open) : rt[open[n]] <= rt[open[m]]}
  IN  IF open = << >> THEN 0..4 ELSE {open[Min(lowest)]}

\* The nearest ancestor with a clock and the child of it that leads to s.
DCparent[s \in Slaves] ==
  LET p == sl[s].parent IN
  IF p = 0 \/ sl[p].hasdc THEN [parent |-> p, child |-> s] ELSE DCparent[p]

Half(t) == IF t >= 0 THEN t \div 2 ELSE -((-t) \div 2)

(***************************************************************************)
(* Delay of slave i behind `parent`, whose port `port` it hangs on.  The   *)
(* parent's round trip less the slave's own is twice the cable; the        *)
(* branches of the parent before this one come on top.                     *)
(***************************************************************************)
Delay(i, me, parent, child, port) ==
  LET up == dc[parent]
      before == prevport(sl[parent], port)
      dt3 == Signed(porttime(up, port) - porttime(up, before))
      own == IF sl[i].topology > 1
             THEN Signed(porttime(me, prevport(sl[i], me.entryport)) - porttime(me, me.entryport))
             ELSE 0
      dt1 == IF own > dt3 THEN -own ELSE own
      later == IF child - parent > 1
               THEN Signed(porttime(up, before) - porttime(up, up.entryport)) ELSE 0
      dt2 == IF later < 0 THEN -later ELSE later
  IN  Half(dt3 - dt1) + dt2 + up.pdelay

(***************************************************************************)
(* A read that fails leaves in ht what the read before it got, or the last *)
(* delay written.                                                          *)
(***************************************************************************)
Times == <<"DCTIME0", "DCTIME1", "DCTIME2", "DCTIME3">>
Latch(s, p) == IF bus[s].dc /\ ~Failed(0, "latch") THEN Latched(s, p) ELSE 0

ReadTimes(a, failed) ==
  LET time[p \in -1..3] ==
        IF p = -1 THEN ht
        ELSE IF Times[p + 1] \in failed \/ Reached(a) = {} THEN time[p - 1]
        ELSE Latch(Max(Reached(a)), p)
  IN  [p \in 0..3 |-> time[p]]

\* The broadcast that latches the times of all slaves.
LatchAll ==
  /\ phase = "latch"
  /\ \E failed \in Failures({"latch"}) : Fail(0, failed)
  /\ dc' = [s \in Slaves |-> [dc[s] EXCEPT !.consumedports = sl[s].activeports]]
  /\ phase' = "configdc" /\ at' = 1
  /\ UNCHANGED <<bus, stadr, word, smreg, sysdelay, discovery>>
  /\ UNCHANGED <<DChead, prevDCslave, parenthold, ht, now, sync>>

NextSlave ==
  IF at < slavecount THEN at' = at + 1 /\ UNCHANGED phase ELSE at' = 0 /\ phase' = "run"

\* A slave with a clock: it joins the chain, and its delay is computed and written.
Chain(d) ==
  IF prevDCslave = 0 THEN d ELSE [d EXCEPT ![prevDCslave].DCnext = at, ![at].DCprevious = prevDCslave]

WithClock ==
  /\ phase = "configdc" /\ sl[at].hasdc
  /\ \E failed \in Failures(Range(Times) \union {"SYSDELAY"}) :
       LET a == sl[at].configadr
           rt == ReadTimes(a, failed)
           p == DCparent[at].parent
       IN  \E entry \in entryports(sl[at], rt) :
             LET me == [dc[at] EXCEPT !.rt = rt, !.entryport = entry,
                                      !.consumedports = @ \ {entry}]
                 next == parentport(dc[p].consumedports)
                 port == IF sl[p].topology = 1 THEN dc[p].entryport ELSE next
                 pdelay == Delay(at, me, p, DCparent[at].child, port)
             IN  /\ Fail(at, failed)
                 /\ dc' = Chain(IF p = 0 THEN [dc EXCEPT ![at] = me]
                                ELSE [dc EXCEPT ![p].consumedports = @ \ {next},
                                        ![at] = [me EXCEPT !.parentport = port, !.pdelay = pdelay]])
                 /\ ht' = IF p = 0 THEN rt[3] ELSE pdelay
                 /\ sysdelay' = [s \in Slaves |->
                                   IF p > 0 /\ stadr[s] = a /\ "SYSDELAY" \notin failed
                                   THEN pdelay ELSE sysdelay[s]]
  /\ DChead' = (IF prevDCslave = 0 THEN at ELSE DChead)
  /\ prevDCslave' = at /\ parenthold' = 0
  /\ NextSlave /\ UNCHANGED <<bus, stadr, word, smreg, discovery, now, sync>>

(***************************************************************************)
(* A slave without one: the end of a branch that has none uses up a port   *)
(* of the slave where the branch began.                                    *)
(***************************************************************************)
WithoutClock ==
  /\ phase = "configdc" /\ ~sl[at].hasdc
  /\ LET p == sl[at].parent
         hold == IF p > 0 /\ sl[p].topology > 2 THEN p ELSE parenthold
         ends == hold > 0 /\ sl[at].topology = 1
     IN  /\ parenthold' = IF ends THEN 0 ELSE hold
         /\ dc' = IF ends THEN [dc EXCEPT ![hold].consumedports = @ \ {parentport(@)}] ELSE dc
  /\ NextSlave
  /\ UNCHANGED <<bus, stadr, word, smreg, sysdelay, faults, lost, discovery>>
  /\ UNCHANGED <<DChead, prevDCslave, ht, now, sync>>

configdc == LatchAll \/ WithClock \/ WithoutClock

(***************************************************************************)
(* ecx_dcsync0 and ecx_dcsync01: the signals of a slave start at the next  *)
(* whole multiple of the cycle after the delay.  With both signals the     *)
(* cycle is the one after which they meet again.                           *)
(***************************************************************************)
TrueCyclTime(cycle) == (cycle[2] \div cycle[1] + 1) * cycle[1]
NextTrigger(t1, cycle) == t1 + SyncDelay + TrueCyclTime(cycle)
FirstTrigger(t1, cycle) ==
  ((t1 + SyncDelay) \div TrueCyclTime(cycle)) * TrueCyclTime(cycle) + TrueCyclTime(cycle)

\* What the cyclic unit is told, of what is not lost.
Programmed(unit, cycle, t1, failed) ==
  [start |-> IF "DCSTART0" \in failed THEN unit.start ELSE FirstTrigger(t1, cycle),
   cycle |-> cycle, active |-> TRUE]

dcsync(s) ==
  /\ phase = "run" /\ bus \in SyncBuses /\ sl[s].hasdc
  /\ \E cycle \in Cycles, failed \in Failures({"DCSYSTIME", "DCSTART0"}) :
       LET t1 == IF "DCSYSTIME" \in failed \/ Reached(sl[s].configadr) = {} THEN 0 ELSE now IN
       /\ Fail(s, failed)
       /\ sync' = [t \in Slaves |->
                     IF stadr[t] # sl[s].configadr THEN sync[t]
                     ELSE Programmed(sync[t], cycle, t1, failed)]
  /\ UNCHANGED <<bus, stadr, word, smreg, sysdelay, discovery, phase, at>>
  /\ UNCHANGED <<dc, DChead, prevDCslave, parenthold, ht, now>>

Tick ==
  /\ phase = "run" /\ bus \in SyncBuses /\ now < MaxTime /\ now' = now + 1
  /\ UNCHANGED <<wire, discovery, phase, at, dc, DChead, prevDCslave, parenthold, ht, sync>>
================================================================================
