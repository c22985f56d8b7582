----------------------------------- MODULE Bus -----------------------------------
(***************************************************************************)
(* The slaves on the wire, external to the master: a tree of slaves, the   *)
(* time a frame needs on each cable, the clock each slave latches with     *)
(* its ports, and what its EEPROM and its object dictionary say of it.     *)
(*                                                                         *)
(* Slaves are numbered in the order in which the frame reaches them.  A    *)
(* frame that enters a slave leaves by its ports in the order 0, 3, 1, 2   *)
(* and comes back by each before it leaves by the next.                    *)
(***************************************************************************)
EXTENDS Integers, Sequences, FiniteSets, FiniteSetsExt, Functions

CONSTANTS
  Buses,    \* the buses a master may find: sequences of slaves, a slave a record
            \* [up, port, entry, delay, dc, clock, kind]
  Content,  \* what the EEPROM and the dictionary of a slave of each kind hold
  Wrap,     \* local times are taken modulo Wrap (2^32)
  MaxFaults \* bound: calls that fail on each bus

VARIABLES
  bus,      \* the slaves
  stadr,    \* station address of each slave
  word,     \* word of its EEPROM the interface of each slave holds
  smreg,    \* sync managers each slave was given
  sysdelay, \* propagation delay each slave was given
  faults,   \* calls that may still fail
  lost      \* those that did: <<slave, what>>

wire == <<bus, stadr, word, smreg, sysdelay, faults, lost>>

Slaves == 1..Len(bus)
Children(s) == {c \in Slaves : bus[c].up = s}
Loop == [p \in 0..3 |-> CASE p = 0 -> 0 [] p = 3 -> 1 [] p = 1 -> 2 [] p = 2 -> 3]
Ports(s) == {bus[s].entry} \union {bus[c].port : c \in Children(s)}
Is(s) == Content[bus[s].kind]
Contents == [s \in Slaves |-> Is(s)]

(***************************************************************************)
(* Restriction: a slave entered by another port than 0 is the last of its  *)
(* line.                                                                   *)
(***************************************************************************)
IsBus(b) ==
  \A s \in 1..Len(b) :
    /\ b[s].up < s /\ (b[s].up = 0 <=> s = 1) /\ b[s].delay > 0
    /\ \A c \in 1..Len(b) :
         b[c].up = s =>
           /\ b[s].entry = 0 /\ b[c].port # 0
           /\ \A d \in c + 1..Len(b) : b[d].up = s => Loop[b[c].port] < Loop[b[d].port]
           /\ \A d \in c + 1..Len(b) : b[d].up < c => \A e \in d..Len(b) : b[e].up # c
ASSUME BusesAssumption == \A b \in Buses : IsBus(b)

\* Time a frame spends behind a slave, and the time it arrives at each.
Trip[s \in Slaves] == MapThenSumSet(LAMBDA c : 2 * bus[c].delay + Trip[c], Children(s))
Branches(s, last) ==
  MapThenSumSet(LAMBDA c : 2 * bus[c].delay + Trip[c], {c \in Children(s) : c <= last})
Arrival[s \in Slaves] ==
  bus[s].delay + (IF s = 1 THEN 0 ELSE Arrival[bus[s].up] + Branches(bus[s].up, s - 1))

\* Signed reading of a time, and the time each port of a slave latched of the broadcast.
Signed(t) == LET m == t % Wrap IN IF m >= Wrap \div 2 THEN m - Wrap ELSE m
Latched(s, p) ==
  IF p = bus[s].entry THEN Signed(bus[s].clock + Arrival[s])
  ELSE IF p \in Ports(s)
       THEN LET c == CHOOSE c \in Children(s) : bus[c].port = p
            IN  Signed(bus[s].clock + Arrival[s] + Branches(s, c))
       ELSE 0

(***************************************************************************)
(* A datagram to a station address reaches every slave that has it; the    *)
(* data of the last one come back, zeros when there is none (the master    *)
(* clears the variable it reads into).                                     *)
(***************************************************************************)
Reached(a) == {s \in Slaves : stadr[s] = a}
Answer(a, data, zero) == IF Reached(a) = {} THEN zero ELSE data[Max(Reached(a))]

\* Up to `faults` of the calls `what` fail.
Failures(what) ==
  LET upto[k \in 0..faults] ==
        IF k = 0 THEN {{}} ELSE {f \union {w} : f \in upto[k - 1], w \in what} \union upto[k - 1]
  IN  upto[faults]

Fail(s, failed) ==
  /\ faults' = faults - Cardinality(failed)
  /\ lost' = lost \union {<<s, w>> : w \in failed}

Failed(s, what) == <<s, what>> \in lost

(***************************************************************************)
(* The slaves may have just been switched on or keep the addresses of an   *)
(* earlier start, when one slave more or one less stood before them.       *)
(***************************************************************************)
BusInit ==
  /\ bus \in Buses /\ faults = MaxFaults[bus] /\ lost = {}
  /\ stadr \in {[s \in Slaves |-> 0], [s \in Slaves |-> s + 1], [s \in Slaves |-> s - 1]}
  /\ word = [s \in Slaves |-> "none"]
  /\ smreg = [s \in Slaves |-> << >>]
  /\ sysdelay = [s \in Slaves |-> 0]
================================================================================
