----------------------------- MODULE SlaveState -----------------------------
(***************************************************************************)
(* The states of the slaves as the master sees them: ecx_readstate,        *)
(* ecx_writestate and ecx_statecheck of soem/ethercatmain.c, and           *)
(* ecx_recover_slave and ecx_reconfig_slave of soem/ethercatconfig.c, one  *)
(* action per datagram.  Between two datagrams slaves change state, lose   *)
(* power, are replaced, or are cut off and come back.                      *)
(*                                                                         *)
(* The slaves are a line: if one is out of reach, so are those behind it.  *)
(* An exchange takes place, or is lost before or after the slaves.  The    *)
(* address set for slave s at start-up is s; a status register is the set  *)
(* of its bits.  EEPROM contents other than the identity, EEPROM control   *)
(* and AL status codes are left out.                                       *)
(***************************************************************************)
EXTENDS Naturals, Integers, FiniteSets

CONSTANTS
  slavecount,
  MAX_FPRD_MULTI,   \* status words read by one frame
  Requests,         \* states the application requests or waits for
  Kinds,            \* what alias address, product, vendor and revision tell apart
  MaxCalls,         \* bound: calls of the application
  MaxChanges,       \* bound: times a slave is cut off, back, reset or fails
  MaxLost           \* bound: exchanges without an answer

ASSUME CountAssumption == slavecount \in Nat \ {0} /\ MAX_FPRD_MULTI \in Nat \ {0}
ASSUME RequestAssumption == Requests \subseteq SUBSET {1, 2, 4, 8}
ASSUME BoundAssumption == MaxCalls \in Nat /\ MaxChanges \in Nat /\ MaxLost \in Nat

INIT == {1}
PRE_OP == {2}
BOOT == {1, 2}
SAFE_OP == {4}
OPERATIONAL == {8}
ERROR == 16
States == {INIT, PRE_OP, BOOT, SAFE_OP, OPERATIONAL}

StateOf(status) == status \ {ERROR}

Bit(status, b) == IF b \in status THEN b ELSE 0
Number(status) == Bit(status, 1) + Bit(status, 2) + Bit(status, 4) + Bit(status, 8)

Slaves == 1 .. slavecount
EC_TEMPNODE == slavecount + 1
EC_NOFRAME == -1

Outcomes == {"ok", "lost", "late"}   \* late: done, but the answer is lost

VARIABLES
  \* the slaves, by position
  reach,         \* the slaves 1 .. reach are connected
  stadr, kind, alstatus,
  alcontrol,     \* the state requested and not reached yet, or {}
  programmed,    \* which of its SMs and FMMUs are programmed
  \* the master
  pc, call, slave,
  configadr, state,        \* slavelist[]
  eep,                     \* slavelist[].aliasadr, eep_id, eep_man, eep_rev
  fslave, lowest,          \* locals of readstate
  reqstate, return,        \* of statecheck, with the place it returns to
  result,
  calls, changes, losses,  \* how often so far
  \* history
  seen,          \* statuses each slave had within reach during the call
  begin,         \* station addresses when the call began
  disturbed,     \* an exchange of this call was lost, a slave reset or cut off
  faults         \* such events during calls of ecx_recover_slave, at most 2

slaves == <<reach, stadr, kind, alstatus, alcontrol, programmed>>
bounds == <<calls, changes, losses>>
readlocals == <<fslave, lowest>>
checklocals == <<reqstate, return>>
vars == <<slaves, pc, call, slave, configadr, state, eep, readlocals, checklocals, result,
          bounds, seen, begin, disturbed, faults>>

Nothing == [s \in Slaves |-> {}]
Afresh == [s \in Slaves |-> s]

Init ==
  /\ reach = slavecount
  /\ stadr = [s \in Slaves |-> s]
  /\ \E k \in Kinds : kind = [s \in Slaves |-> k]
  /\ eep = kind
  /\ \E as \in {PRE_OP, OPERATIONAL} : alstatus = [s \in Slaves |-> as]
  /\ alcontrol = [s \in Slaves |-> {}]
  /\ programmed = [s \in Slaves |-> {"SM", "FMMU"}]
  /\ pc = "idle" /\ call = "none" /\ slave = 0
  /\ configadr = [s \in Slaves |-> s]
  /\ state = [s \in 0 .. slavecount |-> {}]
  /\ fslave = 1 /\ lowest = 255
  /\ reqstate = INIT /\ return = "idle" /\ result = 0
  /\ calls = 0 /\ changes = 0 /\ losses = 0
  /\ seen = Nothing /\ begin = Afresh
  /\ disturbed = FALSE /\ faults = 0

-----------------------------------------------------------------------------
(***************************************************************************)
(* The slaves.                                                             *)
(***************************************************************************)
\* The slaves at a station address, and the one whose data a read brings: the
\* last in the line writes last.
At(adr) == {p \in 1 .. reach : stadr[p] = adr}
Answer(adr) == IF At(adr) = {} THEN {}
               ELSE alstatus[CHOOSE p \in At(adr) : \A q \in At(adr) : q <= p]

Broadcast == UNION {alstatus[p] : p \in 1 .. reach}

More(n) == IF n < 2 THEN n + 1 ELSE n

\* What history keeps when a slave changes: during a call of ecx_readstate the
\* status it has after this step; after a call, nothing more of that call.
Watch ==
  /\ IF pc = "idle"
       THEN call' = "none" /\ slave' = 0 /\ result' = 0 /\ seen' = Nothing /\ begin' = Afresh
       ELSE /\ seen' = IF call # "readstate" THEN seen
                       ELSE [p \in Slaves |-> IF p <= reach' THEN seen[p] \cup {alstatus'[p]}
                                              ELSE seen[p]]
            /\ UNCHANGED <<call, slave, result, begin>>
  /\ UNCHANGED <<pc, configadr, state, eep, readlocals, checklocals, calls>>

\* Something befalls the bus.
Disturb ==
  /\ changes < MaxChanges /\ changes' = changes + 1
  /\ disturbed' = (pc # "idle")
  /\ faults' = IF call = "recover" /\ pc # "idle" THEN More(faults) ELSE faults
  /\ Watch
  /\ UNCHANGED losses

CutOrJoin ==
  /\ reach' \in 0 .. slavecount \ {reach}
  /\ UNCHANGED <<stadr, kind, alstatus, alcontrol, programmed>>
  /\ Disturb

\* A slave loses power for a moment; another device may take its place.
Reset(p) ==
  /\ stadr' = [stadr EXCEPT ![p] = 0]
  /\ \E k \in Kinds : kind' = [kind EXCEPT ![p] = k]
  /\ alstatus' = [alstatus EXCEPT ![p] = INIT]
  /\ alcontrol' = [alcontrol EXCEPT ![p] = {}]
  /\ programmed' = [programmed EXCEPT ![p] = {}]
  /\ UNCHANGED reach
  /\ Disturb

\* A slave obeys a request or refuses it.
Obey(p) ==
  /\ alcontrol[p] # {}
  /\ alcontrol' = [alcontrol EXCEPT ![p] = {}]
  /\ \/ /\ alcontrol[p] \in {SAFE_OP, OPERATIONAL} => "SM" \in programmed[p]
        /\ alstatus' = [alstatus EXCEPT ![p] = alcontrol[p]]
     \/ alstatus' = [alstatus EXCEPT ![p] = @ \cup {ERROR}]
  /\ UNCHANGED reach
  /\ Watch
  /\ UNCHANGED <<stadr, kind, programmed, changes, losses, disturbed, faults>>

-----------------------------------------------------------------------------
(***************************************************************************)
(* Exchanges.                                                              *)
(***************************************************************************)
Exchange(outcome) ==
  /\ outcome \in Outcomes
  /\ IF outcome = "ok" THEN UNCHANGED <<losses, disturbed, faults>>
     ELSE /\ losses < MaxLost /\ losses' = losses + 1
          /\ disturbed' = TRUE
          /\ faults' = IF call = "recover" THEN More(faults) ELSE faults
  /\ UNCHANGED <<reach, kind, alstatus, call, slave, eep, calls, changes, seen, begin>>

Done(outcome) == outcome \in {"ok", "late"}

Wkc(outcome, ps) == IF outcome = "ok" THEN Cardinality(ps) ELSE EC_NOFRAME

NoWrite == UNCHANGED <<stadr, alcontrol, programmed>>

WriteAddress(outcome, ps, adr) ==
  /\ stadr' = [p \in Slaves |-> IF Done(outcome) /\ p \in ps THEN adr ELSE stadr[p]]
  /\ UNCHANGED <<alcontrol, programmed>>

WriteControl(outcome, ps, status) ==
  /\ alcontrol' = [p \in Slaves |-> IF Done(outcome) /\ p \in ps THEN StateOf(status)
                                    ELSE alcontrol[p]]
  /\ UNCHANGED <<stadr, programmed>>

Goto(from, to) == pc = from /\ pc' = to

Return(value) == pc' = "idle" /\ result' = value

-----------------------------------------------------------------------------
(***************************************************************************)
(* The application calls one function after the other.                     *)
(***************************************************************************)
Begin(operation, s, place, req) ==
  /\ Goto("idle", place)
  /\ calls < MaxCalls /\ calls' = calls + 1
  /\ call' = operation /\ slave' = s
  /\ seen' = [p \in Slaves |-> IF operation = "readstate" /\ p <= reach THEN {alstatus[p]} ELSE {}]
  /\ begin' = IF operation = "recover" THEN stadr ELSE Afresh
  /\ disturbed' = FALSE /\ result' = 0
  /\ reqstate' = req /\ return' = "idle"
  /\ UNCHANGED <<slaves, configadr, eep, readlocals, changes, losses, faults>>

CallReadstate == Begin("readstate", 0, "broadcast", INIT) /\ UNCHANGED state

\* The application sets slavelist[s].state and calls ecx_writestate.
CallWritestate(s, req) ==
  /\ Begin("writestate", s, "write", INIT)
  /\ state' = [state EXCEPT ![s] = req]

CallStatecheck(s, req) == Begin("statecheck", s, "check", req) /\ UNCHANGED state

CallRecover(s) == Begin("recover", s, "address", INIT) /\ UNCHANGED state

CallReconfig(s) == Begin("reconfig", s, "to init", INIT) /\ UNCHANGED state

-----------------------------------------------------------------------------
(***************************************************************************)
(* ecx_readstate: one broadcast, and if it does not settle the matter a    *)
(* read of every slave, MAX_FPRD_MULTI to a frame.                         *)
(***************************************************************************)
SettledAnyway(status, wkc) == StateOf(status) \in States /\ ERROR \notin status

Settled(status, wkc) == SettledAnyway(status, wkc) /\ wkc >= slavecount

ReadBroadcast(outcome) ==
  /\ pc = "broadcast"
  /\ Exchange(outcome) /\ NoWrite
  /\ LET status == IF outcome = "ok" THEN Broadcast ELSE {} IN
       IF Settled(status, Wkc(outcome, 1 .. reach))
         THEN /\ state' = [s \in 0 .. slavecount |-> StateOf(status)]
              /\ Return(Number(status))
              /\ UNCHANGED readlocals
         ELSE /\ pc' = "multi"
              /\ state' = IF StateOf(status) \in States
                            THEN [state EXCEPT ![0] = StateOf(status)] ELSE state
              /\ fslave' = 1 /\ lowest' = 255
              /\ UNCHANGED result
  /\ UNCHANGED <<configadr, checklocals>>

ReadMulti(outcome) ==
  /\ pc = "multi"
  /\ Exchange(outcome) /\ NoWrite
  /\ LET lslave == IF slavecount - fslave >= MAX_FPRD_MULTI
                     THEN fslave + MAX_FPRD_MULTI - 1 ELSE slavecount
         found == [s \in fslave .. lslave |->
                     IF outcome = "ok" THEN Answer(configadr[s]) ELSE {}]
         numbers == {lowest} \cup {Number(found[s]) : s \in fslave .. lslave}
         least == CHOOSE n \in numbers : \A k \in numbers : n <= k
         read == [s \in 0 .. slavecount |->
                    IF s \in fslave .. lslave THEN found[s] ELSE state[s]] IN
       /\ IF lslave < slavecount
            THEN state' = read /\ UNCHANGED <<pc, result>>
            ELSE /\ state' = [read EXCEPT ![0] = {b \in {1, 2, 4, 8} : (least \div b) % 2 = 1}]
                 /\ Return(least)
       /\ IF lslave < slavecount THEN lowest' = least /\ fslave' = lslave + 1
          ELSE lowest' = 255 /\ fslave' = 1
  /\ UNCHANGED <<configadr, checklocals>>

-----------------------------------------------------------------------------
WriteState(outcome) ==
  /\ pc = "write"
  /\ Exchange(outcome)
  /\ LET ps == IF slave = 0 THEN 1 .. reach ELSE At(configadr[slave]) IN
       /\ WriteControl(outcome, ps, state[slave])
       /\ Return(Wkc(outcome, ps))
  /\ UNCHANGED <<configadr, state, readlocals, checklocals>>

\* One turn of the loop of ecx_statecheck; the timer may expire after any.
StateCheck(outcome) ==
  /\ pc = "check"
  /\ Exchange(outcome) /\ NoWrite
  /\ LET status == IF outcome # "ok" THEN {}
                   ELSE IF slave = 0 THEN Broadcast ELSE Answer(configadr[slave]) IN
       \/ StateOf(status) # reqstate /\ UNCHANGED <<pc, state, result>>
       \/ /\ pc' = return
          /\ state' = [state EXCEPT ![slave] = status]
          /\ result' = Number(status)
  /\ UNCHANGED <<configadr, readlocals, checklocals>>

-----------------------------------------------------------------------------
(***************************************************************************)
(* ecx_recover_slave.                                                      *)
(***************************************************************************)
Local == UNCHANGED <<state, readlocals, checklocals>>

AtPosition == IF slave <= reach THEN {slave} ELSE {}

ReadAddress(outcome) ==
  /\ pc = "address"
  /\ Exchange(outcome) /\ NoWrite
  /\ IF outcome = "ok" /\ slave <= reach /\ stadr[slave] = configadr[slave] THEN Return(1)
     ELSE IF outcome = "ok" /\ slave <= reach /\ stadr[slave] = 0
       THEN pc' = "clear" /\ UNCHANGED result
     ELSE Return(0)
  /\ Local /\ UNCHANGED configadr

SkipClear(outcome) ==
  /\ Goto("clear", "temp")
  /\ Exchange(outcome) /\ NoWrite
  /\ Local /\ UNCHANGED <<configadr, result>>

ClearTempnode(outcome) ==
  /\ Goto("clear", "temp")
  /\ Exchange(outcome)
  /\ WriteAddress(outcome, At(EC_TEMPNODE), 0)
  /\ Local /\ UNCHANGED <<configadr, result>>

SetTempnode(outcome) ==
  /\ pc = "temp"
  /\ Exchange(outcome)
  /\ WriteAddress(outcome, AtPosition, EC_TEMPNODE)
  /\ IF Wkc(outcome, AtPosition) > 0
       THEN pc' = "identify" /\ configadr' = [configadr EXCEPT ![slave] = EC_TEMPNODE]
       ELSE pc' = "unset" /\ UNCHANGED configadr
  /\ Local /\ UNCHANGED result

UnsetTempnode(outcome) ==
  /\ pc = "unset"
  /\ Exchange(outcome)
  /\ WriteAddress(outcome, At(EC_TEMPNODE), 0)
  /\ Return(0)
  /\ Local /\ UNCHANGED configadr

SkipIdentify(outcome) ==
  /\ Goto("identify", "restore")
  /\ Exchange(outcome) /\ NoWrite
  /\ Local /\ UNCHANGED <<configadr, result>>

\* Alias address, identity, vendor and revision; each read without an answer
\* counts as another device (an alias address of 0 excepted).
Identify(outcome) ==
  /\ pc = "identify"
  /\ Exchange(outcome) /\ NoWrite
  /\ LET ps == At(EC_TEMPNODE)
         same == outcome = "ok" /\ ps # {}
                   /\ kind[CHOOSE p \in ps : \A q \in ps : q <= p] = eep[slave] IN
       pc' = IF same THEN "restore" ELSE "remove"
  /\ Local /\ UNCHANGED <<configadr, result>>

RestoreAddress(outcome) ==
  /\ pc = "restore"
  /\ Exchange(outcome)
  /\ WriteAddress(outcome, At(EC_TEMPNODE), slave)
  /\ configadr' = [configadr EXCEPT ![slave] = slave]
  /\ Return(Wkc(outcome, At(EC_TEMPNODE)))
  /\ Local

RemoveAddress(outcome) ==
  /\ pc = "remove"
  /\ Exchange(outcome)
  /\ WriteAddress(outcome, At(EC_TEMPNODE), 0)
  /\ configadr' = [configadr EXCEPT ![slave] = slave]
  /\ Return(0)
  /\ Local

-----------------------------------------------------------------------------
(***************************************************************************)
(* ecx_reconfig_slave; its state checks are StateCheck.                    *)
(***************************************************************************)
Check(req, place) ==
  /\ pc' = "check" /\ reqstate' = req /\ return' = place
  /\ UNCHANGED <<configadr, state, readlocals>>

\* Where the call goes on after a state check: only with the state asked for.
Reached == result = Number(reqstate)

Stop ==
  /\ pc \in {"program SM", "to safe-op"} /\ ~Reached
  /\ pc' = "idle"
  /\ UNCHANGED <<slaves, call, slave, configadr, state, eep, readlocals, checklocals, result,
                 bounds, seen, begin, disturbed, faults>>

ToInit(outcome) ==
  /\ pc = "to init"
  /\ Exchange(outcome)
  /\ LET ps == At(configadr[slave]) IN
       /\ WriteControl(outcome, ps, INIT)
       /\ IF Wkc(outcome, ps) > 0 THEN Check(INIT, "program SM") /\ UNCHANGED result
          ELSE Return(0) /\ Local /\ UNCHANGED configadr

\* All SMs, or all FMMUs; a lost one leaves the slave without.
Program(outcome, what) ==
  /\ Exchange(outcome)
  /\ programmed' = [p \in Slaves |->
       IF Done(outcome) /\ p \in At(configadr[slave]) THEN programmed[p] \cup {what}
       ELSE programmed[p]]
  /\ Local /\ UNCHANGED <<stadr, alcontrol, configadr, result>>

ProgramSM(outcome) == Reached /\ Goto("program SM", "to pre-op") /\ Program(outcome, "SM")

ToPreop(outcome) ==
  /\ pc = "to pre-op"
  /\ Exchange(outcome)
  /\ WriteControl(outcome, At(configadr[slave]), PRE_OP)
  /\ Check(PRE_OP, "to safe-op") /\ UNCHANGED result

ToSafeop(outcome) ==
  /\ pc = "to safe-op" /\ Reached
  /\ Exchange(outcome)
  /\ WriteControl(outcome, At(configadr[slave]), SAFE_OP)
  /\ Check(SAFE_OP, "program FMMU") /\ UNCHANGED result

ReturnEarly(outcome) ==
  /\ pc = "program FMMU" /\ pc' = "idle"
  /\ Exchange(outcome) /\ NoWrite
  /\ Local /\ UNCHANGED <<configadr, result>>

ProgramFMMU(outcome) == Goto("program FMMU", "idle") /\ Program(outcome, "FMMU")

-----------------------------------------------------------------------------
readstate == \E o \in Outcomes : ReadBroadcast(o) \/ ReadMulti(o)
writestate == \E o \in Outcomes : WriteState(o)
statecheck == \E o \in Outcomes : StateCheck(o)
recover_slave ==
  \E o \in Outcomes :
    \/ ReadAddress(o) \/ ClearTempnode(o) \/ SetTempnode(o) \/ UnsetTempnode(o)
    \/ Identify(o) \/ RestoreAddress(o) \/ RemoveAddress(o)
reconfig_slave ==
  \/ Stop
  \/ \E o \in Outcomes :
       ToInit(o) \/ ProgramSM(o) \/ ToPreop(o) \/ ToSafeop(o) \/ ProgramFMMU(o)

application ==
  \/ CallReadstate
  \/ \E s \in 0 .. slavecount, req \in Requests :
       CallWritestate(s, req) \/ CallStatecheck(s, req)
  \/ \E s \in Slaves : CallRecover(s) \/ CallReconfig(s)

bus == CutOrJoin \/ \E p \in Slaves : Reset(p) \/ Obey(p)

Next == application \/ readstate \/ writestate \/ statecheck \/ recover_slave \/ reconfig_slave
          \/ bus

Spec == Init /\ [][Next]_vars

-----------------------------------------------------------------------------
Returned(operation) == pc = "idle" /\ call = operation

\* What ecx_readstate records of a slave is a status it had, within reach,
\* during the call, or 0 (or BOOT, as which INIT and PRE_OP together read).
\* Not so after two faults of recoveries: then slaves may share an address.
ReadTrue ==
  Returned("readstate") /\ faults < 2 =>
    \A s \in Slaves : state[s] \in {{}, BOOT} \cup seen[s]

\* One fault of a recovery never gives two slaves the same address.
AddressesUnique ==
  faults < 2 => \A p, q \in Slaves : p # q /\ stadr[p] \in Slaves => stadr[p] # stadr[q]

Recoverable ==
  /\ ~disturbed
  /\ slave <= reach /\ kind[slave] = eep[slave] /\ begin[slave] \in {0, slave}

\* A recovery that reports success was one: the slave in that place has its
\* address and is the device known from the start; and the master's record of
\* the address is back in any case.  Conversely, a slave that lost its address
\* gets it back from a call of ecx_recover_slave that nothing disturbs, whatever
\* earlier calls left behind (not so a slave that they left with EC_TEMPNODE).
RecoveryTrue ==
  Returned("recover") =>
    /\ configadr = [s \in Slaves |-> s]
    /\ result > 0 /\ ~disturbed =>
         /\ slave <= reach /\ stadr[slave] = slave
         /\ begin[slave] = 0 => kind[slave] = eep[slave]
    /\ Recoverable => result > 0 /\ stadr[slave] = slave

\* Once a call of ecx_reconfig_slave that nothing disturbs has awaited SAFE_OP, the
\* SMs and FMMUs of its slave are programmed, whether the slave followed or not.  The
\* state it returns does not say so by itself: a slave that would not leave SAFE_OP for
\* INIT is reported in SAFE_OP with nothing programmed.
Reconfigured ==
  Returned("reconfig") /\ reqstate = SAFE_OP /\ ~disturbed /\ faults < 2 =>
    programmed[slave] = {"SM", "FMMU"}
=============================================================================
