-------------------------- MODULE SlaveStateProofs --------------------------
(***************************************************************************)
(* Proofs about ecx_recover_slave for any number of slaves, calls, lost    *)
(* exchanges and changes of the bus.                                       *)
(***************************************************************************)
EXTENDS SlaveState, FiniteSetTheorems, TLAPS

-----------------------------------------------------------------------------
(***************************************************************************)
(* The inductive invariant.                                                *)
(***************************************************************************)
RecoverSteps == {"address", "clear", "temp", "unset", "identify", "restore", "remove"}

\* The steps at which the slave has the temporary address.
Temporary == {"identify", "restore", "remove"}

Types ==
  /\ reach \in 0 .. slavecount
  /\ stadr \in [Slaves -> 0 .. EC_TEMPNODE]
  /\ faults \in 0 .. 2
  /\ configadr = [p \in Slaves |-> IF pc \in Temporary /\ p = slave THEN EC_TEMPNODE ELSE p]

\* Where a call of ecx_recover_slave can be, and no other call.
Place ==
  /\ pc \in RecoverSteps => call = "recover"
  /\ call = "recover" => slave \in Slaves /\ pc \in RecoverSteps \cup {"idle"}
  /\ return \notin RecoverSteps

\* One fault may leave slaves with the temporary address, but none that a
\* later recovery takes for its own: its clearing or the loss of it, not both,
\* come before.
Addresses ==
  faults < 2 =>
    /\ \A p \in Slaves : stadr[p] \in {0, p, EC_TEMPNODE}
    /\ pc = "temp" => At(EC_TEMPNODE) = {}
    /\ pc \in Temporary => At(EC_TEMPNODE) \subseteq {slave}

\* Without a fault nothing is left with it.
Clean ==
  faults = 0 =>
    /\ pc \in Temporary => slave <= reach
    /\ \A p \in Slaves : stadr[p] = EC_TEMPNODE => pc \in Temporary /\ p = slave

Inside == slave <= reach /\ begin[slave] = 0

\* How far an undisturbed call has come.
Progress ==
  call = "recover" /\ ~disturbed =>
    /\ pc = "address" => begin[slave] = stadr[slave]
    /\ pc \in {"clear", "temp"} => Inside /\ stadr[slave] = 0
    /\ pc = "temp" => At(EC_TEMPNODE) = {}
    /\ pc # "unset"
    /\ pc \in Temporary => Inside /\ At(EC_TEMPNODE) = {slave}
    /\ pc = "restore" => kind[slave] = eep[slave]
    /\ pc = "remove" => kind[slave] # eep[slave]
    /\ pc = "idle" =>
         \/ /\ result > 0 /\ slave <= reach /\ stadr[slave] = slave
            /\ begin[slave] = 0 => kind[slave] = eep[slave]
         \/ result = 0 /\ ~Recoverable

Inv == Types /\ Place /\ Addresses /\ Clean /\ Progress

-----------------------------------------------------------------------------
LEMMA Numbers ==
  /\ slavecount \in Nat /\ slavecount > 0 /\ EC_TEMPNODE \in Nat
  /\ \A p \in Slaves : p \in Nat /\ p # 0 /\ p # EC_TEMPNODE /\ p \in 0 .. EC_TEMPNODE
  /\ 0 \in 0 .. EC_TEMPNODE /\ EC_TEMPNODE \in 0 .. EC_TEMPNODE /\ EC_TEMPNODE # 0
BY CountAssumption DEF Slaves, EC_TEMPNODE

LEMMA Reachable ==
  ASSUME Types
  PROVE  \A p \in Slaves : p <= reach <=> p \in 1 .. reach
BY Numbers DEF Types, Slaves

LEMMA AtMembers ==
  ASSUME Types, NEW a
  PROVE  \A p : p \in At(a) <=> p \in Slaves /\ p <= reach /\ stadr[p] = a
BY Numbers DEF At, Types, Slaves

\* Of the values that matter here, an exchange changes the history only.
LEMMA ExchangeFacts ==
  ASSUME Types, NEW o, Exchange(o)
  PROVE  /\ UNCHANGED <<reach, kind, call, slave, eep, begin>>
         /\ faults' \in 0 .. 2 /\ faults <= faults'
         /\ o # "ok" => disturbed'
         /\ o = "ok" => faults' = faults /\ disturbed' = disturbed
         /\ call # "recover" => faults' = faults
         /\ call = "recover" /\ o # "ok" /\ faults < 2 => faults' = faults + 1
BY DEF Exchange, Types, More

-----------------------------------------------------------------------------
LEMMA Initial == Init => Inv
<1> SUFFICES ASSUME Init PROVE Inv
  OBVIOUS
<1> USE DEF Init
<1>1. Types
  BY Numbers DEF Types, Temporary
<1>2. Place
  BY DEF Place, RecoverSteps
<1>3. Addresses
  BY Numbers DEF Addresses, Temporary
<1>4. Clean
  BY Numbers DEF Clean, Temporary
<1>5. Progress
  BY DEF Progress
<1>6. QED BY <1>1, <1>2, <1>3, <1>4, <1>5 DEF Inv

\* Functions other than ecx_recover_slave neither write addresses nor count faults.
LEMMA OtherSteps ==
  ASSUME Inv, UNCHANGED <<reach, stadr, configadr, faults>>,
         pc \notin RecoverSteps, pc' \notin RecoverSteps, call' # "recover",
         return' \notin RecoverSteps
  PROVE  Inv'
<1>1. pc \notin Temporary /\ pc' \notin Temporary /\ pc' # "temp"
  BY DEF Temporary, RecoverSteps
<1>2. Types'
  BY <1>1 DEF Inv, Types
<1>3. Place' /\ Progress'
  BY DEF Place, Progress
<1>4. Addresses' /\ Clean'
  BY <1>1 DEF Inv, Addresses, Clean, At
<1>5. QED BY <1>2, <1>3, <1>4 DEF Inv

LEMMA ApplicationKeeps == Inv /\ application => Inv'
<1> SUFFICES ASSUME Inv, application PROVE Inv'
  OBVIOUS
<1>1. ASSUME NEW operation, NEW s, NEW place, NEW req, Begin(operation, s, place, req),
             operation # "recover", place \notin RecoverSteps
      PROVE  Inv'
  <2>1. /\ UNCHANGED <<reach, stadr, configadr, faults>>
        /\ pc = "idle" /\ pc' = place /\ call' = operation /\ return' = "idle"
    BY <1>1 DEF Begin, Goto, slaves
  <2>2. QED BY <2>1, <1>1, OtherSteps DEF RecoverSteps
<1>2. ASSUME NEW s \in Slaves, CallRecover(s)
      PROVE  Inv'
  <2>1. /\ UNCHANGED <<reach, stadr, configadr, faults>>
        /\ pc = "idle" /\ pc' = "address" /\ call' = "recover" /\ return' = "idle"
        /\ slave' = s /\ begin' = stadr
    BY <1>2 DEF CallRecover, Begin, Goto, slaves
  <2>2. Types' /\ Addresses' /\ Clean'
    BY <2>1 DEF Inv, Types, Addresses, Clean, Temporary, At
  <2>3. Place'
    BY <2>1 DEF Place, RecoverSteps
  <2>4. Progress'
    BY <2>1 DEF Progress, Temporary
  <2>5. QED BY <2>2, <2>3, <2>4 DEF Inv
<1>3. CASE CallReadstate
  BY <1>1, <1>3 DEF CallReadstate, RecoverSteps
<1>4. ASSUME NEW s, NEW req, CallWritestate(s, req) \/ CallStatecheck(s, req)
      PROVE  Inv'
  BY <1>1, <1>4 DEF CallWritestate, CallStatecheck, RecoverSteps
<1>5. ASSUME NEW s, CallReconfig(s)
      PROVE  Inv'
  BY <1>1, <1>5 DEF CallReconfig, RecoverSteps
<1>6. QED BY <1>2, <1>3, <1>4, <1>5 DEF application

LEMMA StatesKeep == Inv /\ (readstate \/ writestate \/ statecheck \/ reconfig_slave) => Inv'
<1> SUFFICES ASSUME Inv, readstate \/ writestate \/ statecheck \/ reconfig_slave PROVE Inv'
  OBVIOUS
<1>1. ASSUME NEW o, Exchange(o), pc \notin RecoverSteps \cup {"idle"},
             UNCHANGED <<stadr, configadr>>, pc' \notin RecoverSteps,
             return' \notin RecoverSteps
      PROVE  Inv'
  <2>1. call # "recover"
    BY <1>1 DEF Inv, Place
  <2>2. UNCHANGED <<reach, faults, call>>
    BY <1>1, <2>1, ExchangeFacts DEF Inv
  <2>3. QED BY <1>1, <2>1, <2>2, OtherSteps
<1>2. return \notin RecoverSteps
  BY DEF Inv, Place
<1> USE DEF RecoverSteps, NoWrite, Return, Goto, Local, WriteControl, checklocals
<1>3. ASSUME NEW o, ReadBroadcast(o) PROVE Inv'
  <2>1. Exchange(o) /\ UNCHANGED <<stadr, configadr, return>> /\ pc = "broadcast"
    BY <1>3 DEF ReadBroadcast
  <2>2. pc' \in {"idle", "multi"}
    BY <1>3 DEF ReadBroadcast
  <2>3. QED BY <1>1, <1>2, <2>1, <2>2
<1>4. ASSUME NEW o, ReadMulti(o) PROVE Inv'
  <2>1. Exchange(o) /\ UNCHANGED <<stadr, configadr, return>> /\ pc = "multi"
    BY <1>4 DEF ReadMulti
  <2>2. pc' \in {"idle", "multi"}
    BY <1>4, <2>1 DEF ReadMulti
  <2>3. QED BY <1>1, <1>2, <2>1, <2>2
<1>5. ASSUME NEW o, WriteState(o) PROVE Inv'
  <2>1. /\ Exchange(o) /\ UNCHANGED <<stadr, configadr, return>>
        /\ pc = "write" /\ pc' = "idle"
    BY <1>5 DEF WriteState
  <2>2. QED BY <1>1, <1>2, <2>1
<1>6. ASSUME NEW o, StateCheck(o) PROVE Inv'
  <2>1. Exchange(o) /\ UNCHANGED <<stadr, configadr, return>> /\ pc = "check"
    BY <1>6 DEF StateCheck
  <2>2. pc' \in {pc, return}
    BY <1>6 DEF StateCheck
  <2>3. QED BY <1>1, <1>2, <2>1, <2>2
<1>7. CASE Stop
  <2>1. /\ UNCHANGED <<reach, stadr, configadr, faults, call, return>> /\ pc' = "idle"
        /\ pc \in {"program SM", "to safe-op"}
    BY <1>7 DEF Stop, slaves
  <2>2. call # "recover"
    BY <2>1 DEF Inv, Place
  <2>3. QED BY <2>1, <2>2, <1>2, OtherSteps
<1>8. ASSUME NEW o, ToInit(o) PROVE Inv'
  <2>1. Exchange(o) /\ UNCHANGED <<stadr, configadr>> /\ pc = "to init"
    BY <1>8 DEF ToInit, Check
  <2>2. pc' \in {"check", "idle"} /\ return' \in {return, "program SM"}
    BY <1>8 DEF ToInit, Check
  <2>3. QED BY <1>1, <1>2, <2>1, <2>2
<1>9. ASSUME NEW o, ProgramSM(o) \/ ProgramFMMU(o) PROVE Inv'
  <2>1. /\ Exchange(o) /\ UNCHANGED <<stadr, configadr, return>>
        /\ pc \in {"program SM", "program FMMU"} /\ pc' \in {"to pre-op", "idle"}
    BY <1>9 DEF ProgramSM, ProgramFMMU, Program
  <2>2. QED BY <1>1, <1>2, <2>1
<1>10. ASSUME NEW o, ToPreop(o) \/ ToSafeop(o) PROVE Inv'
  <2>1. /\ Exchange(o) /\ UNCHANGED <<stadr, configadr>> /\ pc' = "check"
        /\ pc \in {"to pre-op", "to safe-op"} /\ return' \in {"to safe-op", "program FMMU"}
    BY <1>10 DEF ToPreop, ToSafeop, Check
  <2>2. QED BY <1>1, <2>1
<1>11. QED
  BY <1>3, <1>4, <1>5, <1>6, <1>7, <1>8, <1>9, <1>10
     DEF readstate, writestate, statecheck, reconfig_slave

-----------------------------------------------------------------------------
(***************************************************************************)
(* The bus.                                                                *)
(***************************************************************************)
LEMMA WatchFacts ==
  ASSUME Watch
  PROVE  /\ UNCHANGED <<pc, configadr, eep, return>>
         /\ pc = "idle" => call' = "none"
         /\ pc # "idle" => UNCHANGED <<call, slave, result, begin>>
BY DEF Watch, checklocals

\* A fault during a recovery is counted, and one during another call is not.
LEMMA DisturbFacts ==
  ASSUME Types, Disturb
  PROVE  /\ faults' \in 0 .. 2 /\ faults <= faults'
         /\ call = "recover" /\ pc # "idle" => disturbed' /\ (faults' < 2 => faults = 0 /\ faults' = 1)
         /\ ~(call = "recover" /\ pc # "idle") => faults' = faults
<1>1. /\ faults' = IF call = "recover" /\ pc # "idle" THEN More(faults) ELSE faults
      /\ faults \in 0 .. 2
  BY DEF Disturb, Types
<1>2. pc # "idle" => disturbed'
  BY Zenon DEF Disturb
<1>3. More(faults) \in 0 .. 2 /\ faults <= More(faults) /\ (More(faults) < 2 => faults = 0)
  BY <1>1 DEF More
<1>4. More(faults) < 2 => More(faults) = 1
  BY <1>1, <1>3 DEF More
<1>5. QED BY <1>1, <1>2, <1>3, <1>4

LEMMA DisturbKeeps ==
  ASSUME Inv, Disturb, reach' \in 0 .. slavecount, stadr' \in [Slaves -> 0 .. EC_TEMPNODE],
         \A p \in Slaves : stadr'[p] \in {0, stadr[p]}
  PROVE  Inv'
<1>1. /\ UNCHANGED <<pc, configadr, eep, return>>
      /\ pc = "idle" => call' = "none"
      /\ pc # "idle" => UNCHANGED <<call, slave, result, begin>>
  BY WatchFacts DEF Disturb
<1>2. /\ faults' \in 0 .. 2 /\ faults <= faults'
      /\ call = "recover" /\ pc # "idle" => disturbed' /\ (faults' < 2 => faults = 0 /\ faults' = 1)
      /\ ~(call = "recover" /\ pc # "idle") => faults' = faults
  BY DisturbFacts DEF Inv
<1>3. Types'
  <2>1. pc \in Temporary => slave' = slave
    BY <1>1 DEF Temporary
  <2>2. QED BY <1>1, <1>2, <2>1 DEF Inv, Types
<1>4. Place'
  BY <1>1 DEF Inv, Place, RecoverSteps
<1>5. Progress'
  BY <1>1, <1>2 DEF Inv, Progress
<1>6. Addresses'
  <2> SUFFICES ASSUME faults' < 2 PROVE Addresses'
    BY DEF Addresses
  <2>1. faults < 2
    BY <1>2 DEF Inv, Types
  <2>2. \A p \in Slaves : stadr'[p] \in {0, p, EC_TEMPNODE}
    BY <2>1 DEF Inv, Addresses
  <2>3. ASSUME pc \in Temporary \cup {"temp"}
        PROVE  At(EC_TEMPNODE)' \subseteq IF pc = "temp" THEN {} ELSE {slave}
    <3>1. call = "recover" /\ pc # "idle" /\ faults = 0
      BY <2>3, <1>2 DEF Inv, Place, Temporary, RecoverSteps
    <3>2. \A p \in At(EC_TEMPNODE)' : p \in Slaves /\ stadr'[p] = EC_TEMPNODE
      BY <1>3, Numbers DEF At, Types, Slaves
    <3>3. \A p \in At(EC_TEMPNODE)' : stadr[p] = EC_TEMPNODE
      BY <3>2, Numbers
    <3>4. \A p \in At(EC_TEMPNODE)' : pc \in Temporary /\ p = slave
      BY <3>1, <3>2, <3>3 DEF Inv, Clean
    <3>5. QED BY <3>4 DEF Temporary
  <2>4. pc \in Temporary => slave' = slave /\ pc # "temp"
    BY <1>1 DEF Temporary
  <2>5. QED BY <2>2, <2>3, <2>4, <1>1 DEF Addresses
<1>7. Clean'
  <2> SUFFICES ASSUME faults' = 0 PROVE Clean'
    BY DEF Clean
  <2>1. faults = 0 /\ ~(call = "recover" /\ pc # "idle")
    BY <1>2 DEF Inv, Types
  <2>2. pc \notin Temporary
    BY <2>1 DEF Inv, Place, Temporary, RecoverSteps
  <2>3. \A p \in Slaves : stadr'[p] # EC_TEMPNODE
    BY <2>1, <2>2, Numbers DEF Inv, Clean
  <2>4. QED BY <2>2, <2>3, <1>1 DEF Clean
<1>8. QED BY <1>3, <1>4, <1>5, <1>6, <1>7 DEF Inv

LEMMA BusKeeps == Inv /\ bus => Inv'
<1> SUFFICES ASSUME Inv, bus PROVE Inv'
  OBVIOUS
<1>1. stadr \in [Slaves -> 0 .. EC_TEMPNODE] /\ reach \in 0 .. slavecount
  BY DEF Inv, Types
<1>2. CASE CutOrJoin
  BY <1>1, <1>2, DisturbKeeps DEF CutOrJoin
<1>3. ASSUME NEW p \in Slaves, Reset(p)
      PROVE  Inv'
  <2>1. stadr' = [stadr EXCEPT ![p] = 0] /\ reach' = reach /\ Disturb
    BY <1>3 DEF Reset
  <2>2. /\ stadr' \in [Slaves -> 0 .. EC_TEMPNODE]
        /\ \A q \in Slaves : stadr'[q] \in {0, stadr[q]}
    BY <1>1, <2>1, Numbers
  <2>3. QED BY <1>1, <2>1, <2>2, DisturbKeeps
<1>4. ASSUME NEW p \in Slaves, Obey(p)
      PROVE  Inv'
  <2>1. Watch /\ UNCHANGED <<reach, stadr, kind, faults, disturbed>>
    BY <1>4 DEF Obey
  <2>2. /\ UNCHANGED <<pc, configadr, eep, return>>
        /\ pc = "idle" => call' = "none"
        /\ pc # "idle" => UNCHANGED <<call, slave, result, begin>>
    BY <2>1, WatchFacts
  <2>3. CASE pc = "idle"
    <3>1. pc \notin Temporary
      BY <2>3 DEF Temporary
    <3>2. Types' /\ Addresses' /\ Clean'
      BY <2>1, <2>2, <2>3, <3>1 DEF Inv, Types, Addresses, Clean, At
    <3>3. Place' /\ Progress'
      BY <2>2, <2>3 DEF Inv, Place, Progress, RecoverSteps
    <3>4. QED BY <3>2, <3>3 DEF Inv
  <2>4. CASE pc # "idle"
    <3>1. Types' /\ Addresses' /\ Clean'
      BY <2>1, <2>2, <2>4 DEF Inv, Types, Addresses, Clean, At
    <3>2. Place' /\ Progress'
      BY <2>1, <2>2, <2>4 DEF Inv, Place, Progress, Inside, At
    <3>3. QED BY <3>1, <3>2 DEF Inv
  <2>5. QED BY <2>3, <2>4
<1>5. QED BY <1>2, <1>3, <1>4 DEF bus

-----------------------------------------------------------------------------
(***************************************************************************)
(* ecx_recover_slave.                                                      *)
(***************************************************************************)
LEMMA CallFacts ==
  ASSUME Inv, pc \in RecoverSteps
  PROVE  call = "recover" /\ slave \in Slaves /\ slave \in Nat /\ slave # 0 /\ slave # EC_TEMPNODE
BY Numbers DEF Inv, Place

LEMMA RecoverTypes ==
  ASSUME Inv, NEW o, Exchange(o), pc \in RecoverSteps, pc' \in RecoverSteps \cup {"idle"},
         UNCHANGED return, stadr' \in [Slaves -> 0 .. EC_TEMPNODE],
         configadr' = [p \in Slaves |-> IF pc' \in Temporary /\ p = slave THEN EC_TEMPNODE ELSE p]
  PROVE  Types' /\ Place'
<1>1. call = "recover" /\ slave \in Slaves
  BY CallFacts
<1>2. UNCHANGED <<reach, call, slave>> /\ faults' \in 0 .. 2
  BY ExchangeFacts DEF Inv
<1>3. Types'
  BY <1>2 DEF Inv, Types
<1>4. Place'
  BY <1>1, <1>2 DEF Inv, Place
<1>5. QED BY <1>3, <1>4

LEMMA Working ==
  /\ \A x : Cardinality({x}) = 1
  /\ Cardinality({}) = 0
BY FS_Singleton, FS_EmptySet

LEMMA OneAnswer ==
  ASSUME NEW x \in Nat
  PROVE  (CHOOSE p \in {x} : \A q \in {x} : q <= p) = x
<1>1. x <= x
  OBVIOUS
<1>2. QED BY <1>1

LEMMA AddressWritten ==
  ASSUME Types, NEW o, NEW ps, NEW a \in 0 .. EC_TEMPNODE, WriteAddress(o, ps, a)
  PROVE  /\ stadr' \in [Slaves -> 0 .. EC_TEMPNODE]
         /\ \A p \in Slaves : stadr'[p] = IF Done(o) /\ p \in ps THEN a ELSE stadr[p]
BY DEF WriteAddress, Types

LEMMA ReadAddressKeeps == \A o : Inv /\ ReadAddress(o) => Inv'
<1> SUFFICES ASSUME NEW o, Inv, ReadAddress(o) PROVE Inv'
  OBVIOUS
<1>1. /\ Exchange(o) /\ pc = "address" /\ pc' \in {"clear", "idle"}
      /\ UNCHANGED <<stadr, configadr, return>>
  BY DEF ReadAddress, NoWrite, Local, Return, checklocals
<1>2. /\ UNCHANGED <<reach, kind, call, slave, eep, begin>>
      /\ faults' \in 0 .. 2 /\ faults <= faults' /\ (o # "ok" => disturbed')
      /\ o = "ok" => disturbed' = disturbed
  BY <1>1, ExchangeFacts DEF Inv
<1>3. call = "recover" /\ slave \in Slaves /\ slave # 0 /\ slave # EC_TEMPNODE
  BY <1>1, CallFacts DEF RecoverSteps
<1>4. pc \notin Temporary /\ pc' \notin Temporary
  BY <1>1 DEF Temporary
<1>5. Types' /\ Place'
  BY <1>1, <1>4, RecoverTypes DEF Inv, Types, RecoverSteps
<1>6. Addresses'
  BY <1>1, <1>2, <1>4 DEF Inv, Types, Addresses
<1>7. Clean'
  BY <1>1, <1>2, <1>4 DEF Inv, Types, Clean
<1>8. Progress'
  <2> SUFFICES ASSUME ~disturbed' PROVE Progress'
    BY DEF Progress
  <2>1. o = "ok" /\ ~disturbed
    BY <1>2
  <2>2. begin[slave] = stadr[slave] /\ configadr[slave] = slave
    BY <2>1, <1>1, <1>3, <1>4 DEF Inv, Progress, Types
  <2>3. CASE slave <= reach /\ stadr[slave] = slave
    <3>1. pc' = "idle" /\ result' = 1
      BY <2>1, <2>2, <2>3 DEF ReadAddress, Return
    <3>2. QED BY <3>1, <2>2, <2>3, <1>1, <1>2, <1>3 DEF Progress, Temporary
  <2>4. CASE slave <= reach /\ stadr[slave] = 0
    <3>1. pc' = "clear"
      BY <2>1, <2>2, <2>4, <1>3 DEF ReadAddress
    <3>2. QED BY <3>1, <2>2, <2>4, <1>1, <1>2, <1>3 DEF Progress, Inside, Temporary
  <2>5. CASE ~(slave <= reach /\ stadr[slave] \in {0, slave})
    <3>1. pc' = "idle" /\ result' = 0
      BY <2>1, <2>2, <2>5 DEF ReadAddress, Return
    <3>2. ~Recoverable'
      BY <2>2, <2>5, <1>2 DEF Recoverable
    <3>3. QED BY <3>1, <3>2 DEF Progress, Temporary
  <2>6. QED BY <2>3, <2>4, <2>5
<1>9. QED BY <1>5, <1>6, <1>7, <1>8 DEF Inv

LEMMA ClearTempnodeKeeps == \A o : Inv /\ ClearTempnode(o) => Inv'
<1> SUFFICES ASSUME NEW o, Inv, ClearTempnode(o) PROVE Inv'
  OBVIOUS
<1>1. /\ Exchange(o) /\ pc = "clear" /\ pc' = "temp" /\ UNCHANGED <<configadr, return>>
      /\ WriteAddress(o, At(EC_TEMPNODE), 0)
  BY DEF ClearTempnode, Goto, Local, checklocals
<1>2. /\ UNCHANGED <<reach, kind, call, slave, eep, begin>>
      /\ faults' \in 0 .. 2 /\ faults <= faults' /\ (o # "ok" => disturbed')
      /\ o = "ok" => disturbed' = disturbed
  BY <1>1, ExchangeFacts DEF Inv
<1>3. /\ call = "recover" /\ slave \in Slaves /\ slave # 0 /\ slave # EC_TEMPNODE
  BY <1>1, CallFacts DEF RecoverSteps
<1>4. pc \notin Temporary /\ pc' \notin Temporary
  BY <1>1 DEF Temporary
<1>5. /\ stadr' \in [Slaves -> 0 .. EC_TEMPNODE]
      /\ \A p \in Slaves : stadr'[p] = IF Done(o) /\ p \in At(EC_TEMPNODE) THEN 0 ELSE stadr[p]
  BY <1>1, Numbers, AddressWritten DEF Inv
<1>6. Types' /\ Place'
  BY <1>1, <1>4, <1>5, RecoverTypes DEF Inv, Types, RecoverSteps
<1>7. ASSUME Done(o) \/ \A p \in Slaves : stadr[p] # EC_TEMPNODE
      PROVE  At(EC_TEMPNODE)' = {}
  <2> SUFFICES ASSUME NEW p \in Slaves, p <= reach', stadr'[p] = EC_TEMPNODE PROVE FALSE
    BY <1>6, Numbers DEF At, Types, Slaves
  <2>1. p \in At(EC_TEMPNODE) <=> stadr[p] = EC_TEMPNODE
    BY <1>2, AtMembers DEF Inv
  <2>2. QED BY <2>1, <1>5, <1>7, Numbers
<1>8. Addresses'
  <2> SUFFICES ASSUME faults' < 2 PROVE Addresses'
    BY DEF Addresses
  <2>1. faults < 2
    BY <1>2 DEF Inv, Types
  <2>2. \A p \in Slaves : stadr'[p] \in {0, p, EC_TEMPNODE}
    BY <2>1, <1>5 DEF Inv, Addresses
  <2>3. At(EC_TEMPNODE)' = {}
    <3>1. CASE o = "ok"
      BY <3>1, <1>7 DEF Done
    <3>2. CASE o # "ok"
      <4>1. faults = 0
        BY <3>2, <2>1, <1>1, <1>3, ExchangeFacts DEF Inv, Types
      <4>2. QED BY <4>1, <1>4, <1>7 DEF Inv, Clean
    <3>3. QED BY <3>1, <3>2
  <2>4. QED BY <2>2, <2>3, <1>4 DEF Addresses
<1>9. Clean'
  <2> SUFFICES ASSUME faults' = 0 PROVE Clean'
    BY DEF Clean
  <2>1. faults = 0
    BY <1>2 DEF Inv, Types
  <2>2. \A p \in Slaves : stadr[p] # EC_TEMPNODE
    BY <2>1, <1>4 DEF Inv, Clean
  <2>3. \A p \in Slaves : stadr'[p] # EC_TEMPNODE
    BY <2>2, <1>5, Numbers
  <2>4. QED BY <2>3, <1>4 DEF Clean
<1>10. Progress'
  <2> SUFFICES ASSUME ~disturbed' PROVE Progress'
    BY DEF Progress
  <2>1. o = "ok" /\ ~disturbed
    BY <1>2
  <2>2. Inside /\ stadr[slave] = 0
    BY <2>1, <1>1, <1>3 DEF Inv, Progress
  <2>3. At(EC_TEMPNODE)' = {}
    BY <2>1, <1>7 DEF Done
  <2>4. stadr'[slave] = 0
    BY <2>2, <1>3, <1>5
  <2>5. QED BY <2>2, <2>3, <2>4, <1>1, <1>2, <1>4 DEF Progress, Inside
<1>11. QED BY <1>6, <1>8, <1>9, <1>10 DEF Inv

LEMMA SetTempnodeKeeps == \A o : Inv /\ SetTempnode(o) => Inv'
<1> SUFFICES ASSUME NEW o, Inv, SetTempnode(o) PROVE Inv'
  OBVIOUS
<1>1. /\ Exchange(o) /\ pc = "temp" /\ UNCHANGED return
      /\ WriteAddress(o, AtPosition, EC_TEMPNODE)
  BY DEF SetTempnode, Local, checklocals
<1>2. /\ UNCHANGED <<reach, kind, call, slave, eep, begin>>
      /\ faults' \in 0 .. 2 /\ faults <= faults' /\ (o # "ok" => disturbed')
      /\ o = "ok" => disturbed' = disturbed
  BY <1>1, ExchangeFacts DEF Inv
<1>3. call = "recover" /\ slave \in Slaves /\ slave \in Nat /\ slave # 0 /\ slave # EC_TEMPNODE
  BY <1>1, CallFacts DEF RecoverSteps
<1>4. /\ stadr' \in [Slaves -> 0 .. EC_TEMPNODE]
      /\ \A p \in Slaves : stadr'[p] = IF Done(o) /\ p \in AtPosition THEN EC_TEMPNODE
                                       ELSE stadr[p]
  BY <1>1, Numbers, AddressWritten DEF Inv
<1>5. CASE o = "ok" /\ slave <= reach
  <2>1. AtPosition = {slave} /\ Wkc(o, AtPosition) > 0
    <3>1. AtPosition = {slave}
      BY <1>5 DEF AtPosition
    <3>2. Wkc(o, {slave}) = 1
      BY <1>5, Working DEF Wkc
    <3>3. QED BY <3>1, <3>2
  <2>2. pc' = "identify" /\ configadr' = [configadr EXCEPT ![slave] = EC_TEMPNODE]
    BY <2>1 DEF SetTempnode
  <2>3. pc \notin Temporary /\ pc' \in Temporary
    BY <1>1, <2>2 DEF Temporary
  <2>4. Types' /\ Place'
    BY <1>1, <1>3, <1>4, <2>2, <2>3, RecoverTypes DEF Inv, Types, RecoverSteps
  <2>5. \A p \in Slaves : stadr'[p] = IF p = slave THEN EC_TEMPNODE ELSE stadr[p]
    BY <1>4, <1>5, <2>1 DEF Done
  <2>6. \A p : p \in At(EC_TEMPNODE)' <=> p \in Slaves /\ p <= reach /\ stadr'[p] = EC_TEMPNODE
    BY <2>4, <1>2, Numbers DEF At, Types, Slaves
  <2>7. At(EC_TEMPNODE) = {} => At(EC_TEMPNODE)' = {slave}
    BY <2>5, <2>6, <1>3, <1>5, AtMembers DEF Inv
  <2>8. Addresses'
    <3> SUFFICES ASSUME faults' < 2 PROVE Addresses'
      BY DEF Addresses
    <3>1. faults < 2
      BY <1>2 DEF Inv, Types
    <3>2. \A p \in Slaves : stadr'[p] \in {0, p, EC_TEMPNODE}
      BY <3>1, <2>5 DEF Inv, Addresses
    <3>3. At(EC_TEMPNODE) = {}
      BY <3>1, <1>1 DEF Inv, Addresses
    <3>4. QED BY <3>2, <3>3, <2>2, <2>7, <1>2 DEF Addresses
  <2>9. Clean'
    <3> SUFFICES ASSUME faults' = 0 PROVE Clean'
      BY DEF Clean
    <3>1. \A p \in Slaves : stadr[p] # EC_TEMPNODE
      BY <1>2, <2>3 DEF Inv, Types, Clean
    <3>2. QED BY <3>1, <2>3, <2>5, <1>2, <1>5 DEF Clean
  <2>10. Progress'
    <3> SUFFICES ASSUME ~disturbed' PROVE Progress'
      BY DEF Progress
    <3>1. Inside /\ At(EC_TEMPNODE) = {}
      BY <1>1, <1>2, <1>3 DEF Inv, Progress
    <3>2. QED BY <3>1, <2>2, <2>7, <1>2 DEF Progress, Inside, Temporary
  <2>11. QED BY <2>4, <2>8, <2>9, <2>10 DEF Inv
<1>6. CASE ~(o = "ok" /\ slave <= reach)
  <2>1. ~(Wkc(o, AtPosition) > 0)
    BY <1>6, Working DEF AtPosition, Wkc, EC_NOFRAME
  <2>2. pc' = "unset" /\ configadr' = configadr
    BY <2>1 DEF SetTempnode
  <2>3. pc \notin Temporary /\ pc' \notin Temporary
    BY <1>1, <2>2 DEF Temporary
  <2>4. Types' /\ Place'
    BY <1>1, <1>3, <1>4, <2>2, <2>3, RecoverTypes DEF Inv, Types, RecoverSteps
  <2>5. Addresses'
    <3>1. faults' < 2 => \A p \in Slaves : stadr'[p] \in {0, p, EC_TEMPNODE}
      BY <1>2, <1>4 DEF Inv, Types, Addresses
    <3>2. QED BY <3>1, <2>2, <2>3 DEF Addresses
  <2>6. Clean'
    <3> SUFFICES ASSUME faults' = 0 PROVE Clean'
      BY DEF Clean
    <3>1. faults = 0 /\ o = "ok"
      BY <1>1, <1>2, <1>3, ExchangeFacts DEF Inv, Types
    <3>2. AtPosition = {}
      BY <3>1, <1>6 DEF AtPosition
    <3>3. \A p \in Slaves : stadr'[p] # EC_TEMPNODE
      BY <3>1, <3>2, <1>4, <2>3 DEF Inv, Clean
    <3>4. QED BY <3>3, <2>3 DEF Clean
  <2>7. Progress'
    <3>1. disturbed'
      BY <1>1, <1>2, <1>3, <1>6 DEF Inv, Progress, Inside
    <3>2. QED BY <3>1 DEF Progress
  <2>8. QED BY <2>4, <2>5, <2>6, <2>7 DEF Inv
<1>7. QED BY <1>5, <1>6

LEMMA UnsetTempnodeKeeps == \A o : Inv /\ UnsetTempnode(o) => Inv'
<1> SUFFICES ASSUME NEW o, Inv, UnsetTempnode(o) PROVE Inv'
  OBVIOUS
<1>1. /\ Exchange(o) /\ pc = "unset" /\ pc' = "idle" /\ UNCHANGED <<configadr, return>>
      /\ WriteAddress(o, At(EC_TEMPNODE), 0)
  BY DEF UnsetTempnode, Return, Local, checklocals
<1>2. /\ UNCHANGED <<reach, call, slave>>
      /\ faults' \in 0 .. 2 /\ faults <= faults' /\ (o # "ok" => disturbed')
      /\ o = "ok" => disturbed' = disturbed
  BY <1>1, ExchangeFacts DEF Inv
<1>3. call = "recover" /\ pc \notin Temporary /\ pc' \notin Temporary
  BY <1>1, CallFacts DEF RecoverSteps, Temporary
<1>4. /\ stadr' \in [Slaves -> 0 .. EC_TEMPNODE]
      /\ \A p \in Slaves : stadr'[p] \in {0, stadr[p]}
  BY <1>1, Numbers, AddressWritten DEF Inv
<1>5. Types' /\ Place'
  BY <1>1, <1>3, <1>4, RecoverTypes DEF Inv, Types, RecoverSteps
<1>6. Addresses'
  <2>1. faults' < 2 => \A p \in Slaves : stadr'[p] \in {0, p, EC_TEMPNODE}
    BY <1>2, <1>4 DEF Inv, Types, Addresses
  <2>2. QED BY <2>1, <1>1, <1>3 DEF Addresses
<1>7. Clean'
  <2>1. faults' = 0 => \A p \in Slaves : stadr'[p] # EC_TEMPNODE
    BY <1>2, <1>3, <1>4, Numbers DEF Inv, Types, Clean
  <2>2. QED BY <2>1, <1>3 DEF Clean
<1>8. Progress'
  <2>1. disturbed'
    BY <1>1, <1>2, <1>3 DEF Inv, Progress
  <2>2. QED BY <2>1 DEF Progress
<1>9. QED BY <1>5, <1>6, <1>7, <1>8 DEF Inv

LEMMA IdentifyKeeps == \A o : Inv /\ Identify(o) => Inv'
<1> SUFFICES ASSUME NEW o, Inv, Identify(o) PROVE Inv'
  OBVIOUS
<1>1. /\ Exchange(o) /\ pc = "identify" /\ pc' \in {"restore", "remove"}
      /\ UNCHANGED <<stadr, configadr, return>>
  BY DEF Identify, NoWrite, Local, checklocals
<1>2. /\ UNCHANGED <<reach, kind, call, slave, eep, begin>>
      /\ faults' \in 0 .. 2 /\ faults <= faults' /\ (o # "ok" => disturbed')
      /\ o = "ok" => disturbed' = disturbed
  BY <1>1, ExchangeFacts DEF Inv
<1>3. call = "recover" /\ slave \in Nat /\ pc \in Temporary /\ pc' \in Temporary
  BY <1>1, CallFacts DEF RecoverSteps, Temporary
<1>4. Types' /\ Place'
  BY <1>1, <1>3, RecoverTypes DEF Inv, Types, RecoverSteps
<1>5. Addresses'
  BY <1>1, <1>2, <1>3 DEF Inv, Types, Addresses, At
<1>6. Clean'
  BY <1>1, <1>2, <1>3 DEF Inv, Types, Clean
<1>7. Progress'
  <2> SUFFICES ASSUME ~disturbed' PROVE Progress'
    BY DEF Progress
  <2>1. o = "ok" /\ Inside /\ At(EC_TEMPNODE) = {slave}
    BY <1>2, <1>3 DEF Inv, Progress
  <2>2. (CHOOSE p \in At(EC_TEMPNODE) : \A q \in At(EC_TEMPNODE) : q <= p) = slave
    BY <2>1, <1>3, OneAnswer
  <2>3. pc' = IF kind[slave] = eep[slave] THEN "restore" ELSE "remove"
    BY <2>1, <2>2 DEF Identify
  <2>4. (Inside /\ At(EC_TEMPNODE) = {slave})'
    BY <2>1, <1>1, <1>2 DEF Inside, At
  <2>5. QED BY <2>3, <2>4, <1>2 DEF Progress
<1>8. QED BY <1>4, <1>5, <1>6, <1>7 DEF Inv

\* Both ways a recovery ends write the address of whoever has EC_TEMPNODE.
LEMMA EndFacts ==
  ASSUME NEW o, Inv, RestoreAddress(o) \/ RemoveAddress(o)
  PROVE  /\ Exchange(o) /\ pc \in {"restore", "remove"} /\ pc' = "idle" /\ UNCHANGED return
         /\ pc \in Temporary /\ pc' \notin Temporary
         /\ call = "recover" /\ slave \in Slaves
         /\ stadr' \in [Slaves -> 0 .. EC_TEMPNODE]
         /\ \A p \in Slaves : stadr'[p] = IF Done(o) /\ p \in At(EC_TEMPNODE)
                                            THEN IF pc = "restore" THEN slave ELSE 0
                                            ELSE stadr[p]
         /\ configadr' = [p \in Slaves |-> p]
<1>1. /\ Exchange(o) /\ pc \in {"restore", "remove"} /\ pc' = "idle" /\ UNCHANGED return
      /\ configadr' = [configadr EXCEPT ![slave] = slave]
  BY DEF RestoreAddress, RemoveAddress, Return, Local, checklocals
<1>2. pc \in Temporary /\ pc' \notin Temporary
  BY <1>1 DEF Temporary
<1>3. call = "recover" /\ slave \in Slaves /\ slave \in 0 .. EC_TEMPNODE
  BY <1>1, CallFacts, Numbers DEF RecoverSteps
<1>4. /\ stadr' \in [Slaves -> 0 .. EC_TEMPNODE]
      /\ \A p \in Slaves : stadr'[p] = IF Done(o) /\ p \in At(EC_TEMPNODE)
                                         THEN IF pc = "restore" THEN slave ELSE 0
                                         ELSE stadr[p]
  <2>1. CASE RestoreAddress(o)
    <3>1. pc = "restore" /\ WriteAddress(o, At(EC_TEMPNODE), slave)
      BY <2>1 DEF RestoreAddress
    <3>2. QED BY <3>1, <1>3, AddressWritten DEF Inv
  <2>2. CASE RemoveAddress(o)
    <3>1. pc # "restore" /\ WriteAddress(o, At(EC_TEMPNODE), 0)
      BY <2>2 DEF RemoveAddress
    <3>2. QED BY <3>1, Numbers, AddressWritten DEF Inv
  <2>3. QED BY <2>1, <2>2
<1>5. configadr' = [p \in Slaves |-> p]
  BY <1>1, <1>2, <1>3 DEF Inv, Types
<1>6. QED BY <1>1, <1>2, <1>3, <1>4, <1>5

LEMMA EndKeeps == \A o : Inv /\ (RestoreAddress(o) \/ RemoveAddress(o)) => Inv'
<1> SUFFICES ASSUME NEW o, Inv, RestoreAddress(o) \/ RemoveAddress(o) PROVE Inv'
  OBVIOUS
<1>1. /\ Exchange(o) /\ pc \in {"restore", "remove"} /\ pc' = "idle" /\ UNCHANGED return
      /\ pc \in Temporary /\ pc' \notin Temporary
      /\ call = "recover" /\ slave \in Slaves
      /\ stadr' \in [Slaves -> 0 .. EC_TEMPNODE]
      /\ configadr' = [p \in Slaves |-> p]
  BY EndFacts
<1>2. \A p \in Slaves : stadr'[p] = IF Done(o) /\ p \in At(EC_TEMPNODE)
                                      THEN IF pc = "restore" THEN slave ELSE 0
                                      ELSE stadr[p]
  BY EndFacts
<1>3. /\ UNCHANGED <<reach, kind, call, slave, eep, begin>>
      /\ faults' \in 0 .. 2 /\ faults <= faults' /\ (o # "ok" => disturbed')
      /\ o = "ok" => disturbed' = disturbed
  BY <1>1, ExchangeFacts DEF Inv
<1>4. slave # 0 /\ slave # EC_TEMPNODE
  BY <1>1, Numbers
<1>5. Types' /\ Place'
  <2>1. configadr' = [p \in Slaves |-> IF pc' \in Temporary /\ p = slave THEN EC_TEMPNODE ELSE p]
    BY <1>1
  <2>2. pc \in RecoverSteps /\ pc' \in RecoverSteps \cup {"idle"}
    BY <1>1 DEF RecoverSteps
  <2>3. QED BY <2>1, <2>2, <1>1, RecoverTypes
<1>6. Addresses'
  <2> SUFFICES ASSUME faults' < 2, NEW p \in Slaves
               PROVE  stadr'[p] \in {0, p, EC_TEMPNODE}
    BY <1>1 DEF Addresses
  <2>1. faults < 2
    BY <1>3 DEF Inv, Types
  <2>2. stadr[p] \in {0, p, EC_TEMPNODE} /\ At(EC_TEMPNODE) \subseteq {slave}
    BY <2>1, <1>1 DEF Inv, Addresses
  <2>3. p \in At(EC_TEMPNODE) => p = slave
    BY <2>2
  <2>4. QED BY <2>2, <2>3, <1>2
<1>7. Clean'
  <2> SUFFICES ASSUME faults' = 0, NEW p \in Slaves
               PROVE  stadr'[p] # EC_TEMPNODE
    BY <1>1 DEF Clean
  <2>1. faults = 0 /\ Done(o)
    BY <1>1, <1>3, ExchangeFacts DEF Inv, Types, Done
  <2>2. slave <= reach /\ (stadr[p] = EC_TEMPNODE => p = slave)
    BY <2>1, <1>1 DEF Inv, Clean
  <2>3. stadr[p] = EC_TEMPNODE => p \in At(EC_TEMPNODE)
    BY <2>2, AtMembers DEF Inv
  <2>4. QED BY <2>1, <2>3, <1>2, <1>4, Numbers
<1>8. Progress'
  <2> SUFFICES ASSUME ~disturbed' PROVE Progress'
    BY DEF Progress
  <2>1. /\ o = "ok" /\ Inside /\ At(EC_TEMPNODE) = {slave}
        /\ pc = "restore" => kind[slave] = eep[slave]
        /\ pc = "remove" => kind[slave] # eep[slave]
    BY <1>1, <1>3 DEF Inv, Progress
  <2>2. CASE pc = "restore"
    <3>1. result' = Wkc(o, At(EC_TEMPNODE))
      BY <2>2 DEF RestoreAddress, RemoveAddress, Return
    <3>2. Wkc(o, {slave}) = 1
      BY <2>1, Working DEF Wkc
    <3>3. result' = 1 /\ stadr'[slave] = slave
      BY <2>1, <2>2, <3>1, <3>2, <1>1, <1>2 DEF Done
    <3>4. QED BY <3>3, <2>1, <2>2, <1>1, <1>3 DEF Progress, Inside
  <2>3. CASE pc = "remove"
    <3>1. result' = 0
      BY <2>3 DEF RestoreAddress, RemoveAddress, Return
    <3>2. ~Recoverable'
      BY <2>1, <2>3, <1>3 DEF Recoverable
    <3>3. QED BY <3>1, <3>2, <1>1 DEF Progress
  <2>4. QED BY <2>2, <2>3, <1>1
<1>9. QED BY <1>5, <1>6, <1>7, <1>8 DEF Inv

-----------------------------------------------------------------------------
(***************************************************************************)
(* The theorems.                                                           *)
(***************************************************************************)
LEMMA Inductive == Inv /\ [Next]_vars => Inv'
<1> SUFFICES ASSUME Inv, [Next]_vars PROVE Inv'
  OBVIOUS
<1>1. CASE application
  BY <1>1, ApplicationKeeps
<1>2. CASE readstate \/ writestate \/ statecheck \/ reconfig_slave
  BY <1>2, StatesKeep
<1>3. CASE recover_slave
  BY <1>3, ReadAddressKeeps, ClearTempnodeKeeps, SetTempnodeKeeps, UnsetTempnodeKeeps,
     IdentifyKeeps, EndKeeps DEF recover_slave
<1>4. CASE bus
  BY <1>4, BusKeeps
<1>5. CASE UNCHANGED vars
  <2> USE <1>5 DEF vars, slaves, checklocals
  <2>1. Types' /\ Place'
    BY DEF Inv, Types, Place
  <2>2. Addresses' /\ Clean'
    BY DEF Inv, Addresses, Clean, At
  <2>3. Progress'
    BY DEF Inv, Progress, Inside, Recoverable, At
  <2>4. QED BY <2>1, <2>2, <2>3 DEF Inv
<1>6. QED BY <1>1, <1>2, <1>3, <1>4, <1>5 DEF Next

LEMMA Invariance == Spec => []Inv
<1>1. QED BY Initial, Inductive, PTL DEF Spec

\* One lost exchange, reset or cut during the recoveries never gives two slaves
\* one address, however many slaves there are and whatever else happens.
THEOREM OneAddressEach == Spec => []AddressesUnique
<1>1. Inv => AddressesUnique
  <2> SUFFICES ASSUME Inv, faults < 2, NEW p \in Slaves, NEW q \in Slaves, p # q,
                      stadr[p] \in Slaves
               PROVE  stadr[p] # stadr[q]
    BY DEF AddressesUnique
  <2>1. stadr[p] \in {0, p, EC_TEMPNODE} /\ stadr[q] \in {0, q, EC_TEMPNODE}
    BY DEF Inv, Addresses
  <2>2. QED BY <2>1, Numbers
<1>2. QED BY <1>1, Invariance, PTL

\* A recovery that reports success put the known device in its place back to its
\* address, and an undisturbed call recovers every slave that lost its address,
\* for any number of slaves.
THEOREM RecoveryIsTrue == Spec => []RecoveryTrue
<1>1. Inv => RecoveryTrue
  <2> SUFFICES ASSUME Inv, pc = "idle", call = "recover"
               PROVE  /\ configadr = [s \in Slaves |-> s]
                      /\ result > 0 /\ ~disturbed =>
                           /\ slave <= reach /\ stadr[slave] = slave
                           /\ begin[slave] = 0 => kind[slave] = eep[slave]
                      /\ Recoverable => result > 0 /\ stadr[slave] = slave
    BY DEF RecoveryTrue, Returned
  <2>1. configadr = [s \in Slaves |-> s]
    BY DEF Inv, Types, Temporary
  <2>2. ~disturbed =>
          \/ /\ result > 0 /\ slave <= reach /\ stadr[slave] = slave
             /\ begin[slave] = 0 => kind[slave] = eep[slave]
          \/ result = 0 /\ ~Recoverable
    BY DEF Inv, Progress
  <2>3. QED BY <2>1, <2>2 DEF Recoverable
<1>2. QED BY <1>1, Invariance, PTL

-----------------------------------------------------------------------------
(***************************************************************************)
(* ecx_readstate and ecx_reconfig_slave: a second invariant, which rests   *)
(* on the first.                                                           *)
(***************************************************************************)
Bits == {1, 2, 4, 8}
Statuses == {v \in SUBSET (Bits \cup {ERROR}) : v # {}}

StateTypes ==
  /\ alstatus \in [Slaves -> Statuses]
  /\ alcontrol \in [Slaves -> SUBSET Bits]
  /\ programmed \in [Slaves -> SUBSET {"SM", "FMMU"}]
  /\ state = [s \in 0 .. slavecount |-> state[s]]
  /\ seen = [s \in Slaves |-> seen[s]]
  /\ fslave \in 1 .. slavecount
  /\ pc = "write" => slave \in 0 .. slavecount /\ state[slave] \in SUBSET Bits

Recorded(s) == state[s] \in {{}, BOOT} \cup seen[s]

\* How far ecx_readstate has come: the slaves before fslave are read.
Reading ==
  call = "readstate" =>
    /\ pc \in {"broadcast", "multi", "idle"}
    /\ pc # "idle" => \A p \in Slaves : p <= reach => alstatus[p] \in seen[p]
    /\ faults < 2 /\ pc = "multi" => \A s \in Slaves : s < fslave => Recorded(s)
    /\ faults < 2 /\ pc = "idle" => \A s \in Slaves : Recorded(s)

\* Where ecx_reconfig_slave is, a state check counted to the place it returns to.
Stage == IF pc = "check" THEN return ELSE pc

\* The places after a state check.
Later == {"program SM", "to safe-op", "program FMMU"}

Reconfiguring ==
  call = "reconfig" =>
    /\ slave \in Slaves
    /\ pc \in {"to init", "check", "to pre-op", "idle"} \cup Later
    /\ pc = "check" => return \in Later
    /\ Stage \in {"to init", "program SM", "to pre-op"} => reqstate = INIT
    /\ Stage = "to safe-op" => reqstate = PRE_OP
    /\ Stage = "program FMMU" => reqstate = SAFE_OP
    /\ ~disturbed /\ faults < 2 =>
         /\ Stage \notin {"to init", "idle"} => slave <= reach /\ stadr[slave] = slave
         /\ Stage \in {"to pre-op", "to safe-op", "program FMMU"} => "SM" \in programmed[slave]
         /\ Stage = "idle" /\ reqstate = SAFE_OP => programmed[slave] = {"SM", "FMMU"}

\* Only ecx_reconfig_slave is at its steps, and only its state checks lead on.
Returns ==
  /\ pc = "check" /\ call # "reconfig" => return = "idle"
  /\ pc \in {"to init", "to pre-op"} \cup Later => call = "reconfig"

StatesInv == StateTypes /\ Reading /\ Reconfiguring /\ Returns

-----------------------------------------------------------------------------
LEMMA Zero == 0 \in 0 .. slavecount /\ Slaves \subseteq 0 .. slavecount /\ 1 \in 1 .. slavecount
BY CountAssumption DEF Slaves

\* Between the calls of ecx_recover_slave a slave answers to its own address only, so
\* long as one fault at most befell those calls.
LEMMA OwnAddress ==
  ASSUME Inv, faults < 2, pc \notin RecoverSteps, NEW s \in Slaves
  PROVE  configadr[s] = s /\ At(s) = IF s <= reach /\ stadr[s] = s THEN {s} ELSE {}
<1>1. configadr[s] = s BY DEF Inv, Types, Temporary, RecoverSteps
<1>2. \A p \in Slaves : stadr[p] = s => p = s BY Numbers DEF Inv, Addresses
<1>3. \A p : p \in At(s) <=> p \in Slaves /\ p <= reach /\ stadr[p] = s BY AtMembers DEF Inv
<1>4. \A p : p \in At(s) <=> p = s /\ s <= reach /\ stadr[s] = s BY <1>2, <1>3
<1> QED BY <1>1, <1>4

LEMMA OwnAnswer ==
  ASSUME Inv, faults < 2, pc \notin RecoverSteps, NEW s \in Slaves
  PROVE  Answer(configadr[s]) = {} \/ (s <= reach /\ Answer(configadr[s]) = alstatus[s])
<1>1. configadr[s] = s /\ At(s) = IF s <= reach /\ stadr[s] = s THEN {s} ELSE {} BY OwnAddress
<1>2. CASE s <= reach /\ stadr[s] = s
  <2>1. At(s) = {s} /\ s \in Nat BY <1>1, <1>2, Numbers
  <2>2. (CHOOSE p \in At(s) : \A q \in At(s) : q <= p) = s BY <2>1, OneAnswer
  <2> QED BY <1>1, <1>2, <2>1, <2>2 DEF Answer
<1>3. CASE ~(s <= reach /\ stadr[s] = s) BY <1>1, <1>3 DEF Answer
<1> QED BY <1>2, <1>3

\* A broadcast that settles the matter shows every slave.
LEMMA AllShown ==
  ASSUME Inv, StateTypes, Settled(Broadcast, Cardinality(1 .. reach)), NEW s \in Slaves
  PROVE  s <= reach /\ (StateOf(Broadcast) = BOOT \/ StateOf(Broadcast) = alstatus[s])
<1>1. Cardinality(1 .. reach) = reach /\ reach \in Nat /\ reach <= slavecount
  <2>1. 1 \in Int /\ reach \in Int /\ reach \in Nat /\ reach <= slavecount
    BY Numbers DEF Inv, Types
  <2>2. Cardinality(1 .. reach) = IF 1 > reach THEN 0 ELSE reach - 1 + 1 BY <2>1, FS_Interval
  <2> QED BY <2>1, <2>2
<1>2. reach = slavecount BY <1>1, Numbers DEF Settled
<1>3. s <= reach /\ s \in 1 .. reach BY <1>2, Numbers DEF Slaves
<1>4. alstatus[s] # {} /\ alstatus[s] \subseteq Broadcast
  <2>1. alstatus[s] # {} BY DEF StateTypes, Statuses
  <2>2. ASSUME NEW b \in alstatus[s] PROVE b \in Broadcast BY <1>3 DEF Broadcast
  <2> QED BY <2>1, <2>2
<1>5. StateOf(Broadcast) = Broadcast /\ Broadcast \in States
  BY DEF Settled, SettledAnyway, StateOf
<1> QED BY <1>3, <1>4, <1>5 DEF States, INIT, PRE_OP, BOOT, SAFE_OP, OPERATIONAL

LEMMA StatesInitial == Init => StatesInv
<1> SUFFICES ASSUME Init PROVE StatesInv OBVIOUS
<1> USE DEF Init
<1>1. alstatus \in [Slaves -> Statuses]
  <2>1. {2} \in Statuses /\ {8} \in Statuses
    BY DEF Bits, Statuses
  <2>2. PICK as \in {{2}, {8}} : alstatus = [s \in Slaves |-> as] BY DEF PRE_OP, OPERATIONAL
  <2> QED BY <2>1, <2>2
<1>2. seen = [s \in Slaves |-> seen[s]] BY DEF Nothing
<1>3. StateTypes BY <1>1, <1>2, Zero DEF StateTypes, Bits
<1> QED BY <1>3 DEF StatesInv, Reading, Reconfiguring, Returns, Later

\* Calls of the application.
LEMMA ApplicationStates ==
  ASSUME Inv, StatesInv, application
  PROVE  StatesInv'
<1> USE DEF StatesInv
<1>1. ASSUME NEW operation, NEW s \in 0 .. slavecount, NEW place, NEW req,
             Begin(operation, s, place, req), place \in {"broadcast", "address", "to init"},
             UNCHANGED state, operation = "readstate" => place = "broadcast",
             place = "to init" => operation = "reconfig",
             operation = "reconfig" => s \in Slaves /\ place = "to init" /\ req = INIT
      PROVE  StatesInv'
  <2>1. /\ pc' = place /\ call' = operation /\ slave' = s /\ reqstate' = req /\ return' = "idle"
        /\ UNCHANGED <<alstatus, alcontrol, programmed, reach, stadr, fslave>>
        /\ seen' = [p \in Slaves |-> IF operation = "readstate" /\ p <= reach THEN {alstatus[p]}
                                     ELSE {}]
    BY <1>1 DEF Begin, Goto, slaves, readlocals
  <2>2. StateTypes' BY <1>1, <2>1 DEF StateTypes
  <2>3. Reading' BY <1>1, <2>1 DEF Reading
  <2>4. Reconfiguring' BY <1>1, <2>1 DEF Reconfiguring, Stage, Later
  <2>5. Returns' BY <1>1, <2>1 DEF Returns, Later
  <2> QED BY <2>2, <2>3, <2>4, <2>5
<1>2. CASE CallReadstate BY <1>1, <1>2, Zero DEF CallReadstate
<1>3. ASSUME NEW s \in 0 .. slavecount, NEW req \in Requests, CallWritestate(s, req)
      PROVE  StatesInv'
  <2>1. /\ pc' = "write" /\ call' = "writestate" /\ slave' = s
        /\ UNCHANGED <<alstatus, alcontrol, programmed, fslave>>
        /\ seen' = [p \in Slaves |-> {}]
        /\ state' = [state EXCEPT ![s] = req]
    BY <1>3 DEF CallWritestate, Begin, Goto, slaves, readlocals
  <2>2. req \in SUBSET Bits BY RequestAssumption DEF Bits
  <2>3. /\ state' = [i \in 0 .. slavecount |-> state'[i]]
        /\ state'[s] = req
    BY <2>1 DEF StateTypes
  <2>4. seen' = [p \in Slaves |-> seen'[p]] BY <2>1
  <2>5. StateTypes' BY <2>1, <2>2, <2>3, <2>4 DEF StateTypes
  <2> QED BY <2>1, <2>5 DEF Reading, Reconfiguring, Returns, Later
<1>4. ASSUME NEW s \in 0 .. slavecount, NEW req \in Requests, CallStatecheck(s, req)
      PROVE  StatesInv'
  <2>1. /\ pc' = "check" /\ call' = "statecheck" /\ return' = "idle"
        /\ UNCHANGED <<alstatus, alcontrol, programmed, fslave, state>>
        /\ seen' = [p \in Slaves |-> {}]
    BY <1>4 DEF CallStatecheck, Begin, Goto, slaves, readlocals
  <2>2. StateTypes' BY <2>1 DEF StateTypes
  <2> QED BY <2>1, <2>2 DEF Reading, Reconfiguring, Returns, Later
<1>5. ASSUME NEW s \in Slaves, CallRecover(s) PROVE StatesInv'
  BY <1>1, <1>5, Zero DEF CallRecover
<1>6. ASSUME NEW s \in Slaves, CallReconfig(s) PROVE StatesInv'
  BY <1>1, <1>6, Zero DEF CallReconfig
<1> QED BY <1>2, <1>3, <1>4, <1>5, <1>6 DEF application

\* What an exchange leaves as it is.
LEMMA ExchangeKeeps ==
  ASSUME NEW o, Exchange(o)
  PROVE  /\ UNCHANGED <<reach, alstatus, call, slave, seen>>
         /\ o # "ok" => disturbed'
         /\ o = "ok" => disturbed' = disturbed /\ faults' = faults
         /\ call # "recover" => faults' = faults
         /\ o \in Outcomes
BY DEF Exchange

\* Whatever a datagram of another function does, these two calls are not under way.
LEMMA OtherStates ==
  ASSUME StatesInv, NEW o, Exchange(o), call \notin {"readstate", "reconfig"},
         pc' # "check" \/ (pc = "check" /\ return' = return), pc' # "write",
         pc' \notin {"to init", "to pre-op"} \cup Later,
         UNCHANGED <<programmed, fslave>>, state' = [s \in 0 .. slavecount |-> state'[s]],
         alcontrol' \in [Slaves -> SUBSET Bits]
  PROVE  StatesInv'
<1>1. UNCHANGED <<reach, alstatus, call, slave, seen>> BY ExchangeKeeps
<1>2. StateTypes' BY <1>1 DEF StatesInv, StateTypes
<1>3. Returns' BY <1>1 DEF StatesInv, Returns
<1> QED BY <1>1, <1>2, <1>3 DEF StatesInv, Reading, Reconfiguring

LEMMA ReadStates ==
  ASSUME Inv, StatesInv, readstate
  PROVE  StatesInv'
<1> USE DEF StatesInv
<1>1. PICK o \in Outcomes : ReadBroadcast(o) \/ ReadMulti(o) BY DEF readstate
<1>2. /\ Exchange(o) /\ UNCHANGED <<stadr, alcontrol, programmed, configadr, reqstate, return>>
      /\ pc \in {"broadcast", "multi"} /\ pc' \in {"idle", "multi"}
  BY <1>1 DEF ReadBroadcast, ReadMulti, NoWrite, checklocals, Return
<1>3. /\ UNCHANGED <<reach, alstatus, call, slave, seen>>
      /\ call # "recover" => faults' = faults
      /\ o \in Outcomes
  BY <1>2, ExchangeKeeps
<1>4. call # "reconfig" /\ pc \notin RecoverSteps
  BY <1>2 DEF Reconfiguring, RecoverSteps, Later
<1>5. Reconfiguring' /\ Returns' BY <1>2, <1>3, <1>4 DEF Reconfiguring, Returns, Later
<1>6. fslave \in Nat /\ slavecount \in Nat /\ fslave <= slavecount /\ MAX_FPRD_MULTI \in Nat
      /\ MAX_FPRD_MULTI > 0 /\ fslave > 0
  BY CountAssumption DEF StateTypes
<1>7. CASE ReadBroadcast(o)
  <2> DEFINE status == IF o = "ok" THEN Broadcast ELSE {}
  <2>1. CASE Settled(status, Wkc(o, 1 .. reach))
    <3>1. /\ state' = [s \in 0 .. slavecount |-> StateOf(status)]
          /\ pc' = "idle" /\ fslave' = fslave
      BY <1>7, <2>1 DEF ReadBroadcast, Return, readlocals
    <3>2. o = "ok"
      <4> SUFFICES ASSUME o # "ok" PROVE FALSE OBVIOUS
      <4>1. Wkc(o, 1 .. reach) = -1 BY DEF Wkc, EC_NOFRAME
      <4> QED BY <2>1, <4>1, <1>6 DEF Settled
    <3>3. Settled(Broadcast, Cardinality(1 .. reach)) BY <2>1, <3>2 DEF Wkc
    <3>4. StateTypes' BY <1>2, <1>3, <3>1 DEF StateTypes
    <3>5. ASSUME call = "readstate", NEW s \in Slaves PROVE Recorded(s)'
      <4>1. s <= reach /\ (StateOf(Broadcast) = BOOT \/ StateOf(Broadcast) = alstatus[s])
        BY <3>3, AllShown
      <4>2. alstatus[s] \in seen[s] BY <1>2, <3>5, <4>1 DEF Reading
      <4>3. state'[s] = StateOf(Broadcast) BY <3>1, <3>2, Zero
      <4> QED BY <1>3, <4>1, <4>2, <4>3 DEF Recorded
    <3> QED BY <1>3, <1>5, <3>1, <3>4, <3>5 DEF Reading
  <2>2. CASE ~Settled(status, Wkc(o, 1 .. reach))
    <3>1. /\ pc' = "multi" /\ fslave' = 1
          /\ state' = [state EXCEPT ![0] = StateOf(status)] \/ state' = state
      BY <1>7, <2>2 DEF ReadBroadcast
    <3>2. state' = [s \in 0 .. slavecount |-> state'[s]] BY <3>1 DEF StateTypes
    <3>3. StateTypes' BY <1>2, <1>3, <3>1, <3>2, Zero DEF StateTypes
    <3>4. \A s \in Slaves : ~(s < fslave') BY <3>1 DEF Slaves
    <3>5. \A p \in Slaves : call = "readstate" /\ p <= reach => alstatus[p] \in seen[p]
      BY <1>2 DEF Reading
    <3> QED BY <1>3, <1>5, <3>1, <3>3, <3>4, <3>5 DEF Reading
  <2> QED BY <2>1, <2>2
<1>8. CASE ReadMulti(o)
  <2> DEFINE lslave == IF slavecount - fslave >= MAX_FPRD_MULTI
                       THEN fslave + MAX_FPRD_MULTI - 1 ELSE slavecount
             found == [s \in fslave .. lslave |->
                         IF o = "ok" THEN Answer(configadr[s]) ELSE {}]
             numbers == {lowest} \cup {Number(found[s]) : s \in fslave .. lslave}
             least == CHOOSE n \in numbers : \A k \in numbers : n <= k
             read == [s \in 0 .. slavecount |->
                        IF s \in fslave .. lslave THEN found[s] ELSE state[s]]
  <2>1. lslave \in Nat /\ lslave >= fslave /\ lslave <= slavecount BY <1>6
  <2>2. pc = "multi" BY <1>8 DEF ReadMulti
  <2>3. \/ lslave < slavecount /\ state' = read /\ pc' = pc /\ fslave' = lslave + 1
        \/ ~(lslave < slavecount) /\ pc' = "idle" /\ fslave' = 1
           /\ \E v : state' = [read EXCEPT ![0] = v]
    BY <1>8 DEF ReadMulti, Return
  <2> HIDE DEF lslave
  <2>4. \A s \in Slaves : state'[s] = IF s \in fslave .. lslave THEN found[s] ELSE state[s]
    <3> SUFFICES ASSUME NEW s \in Slaves
                 PROVE  state'[s] = IF s \in fslave .. lslave THEN found[s] ELSE state[s]
      OBVIOUS
    <3>1. s \in 0 .. slavecount /\ s # 0 BY Zero, Numbers
    <3>2. read[s] = IF s \in fslave .. lslave THEN found[s] ELSE state[s] BY <3>1
    <3>4. read = [i \in 0 .. slavecount |-> read[i]] OBVIOUS
    <3> HIDE DEF read, found
    <3>3. state'[s] = read[s]
      <4>1. CASE state' = read BY <4>1
      <4>2. ASSUME NEW v, state' = [read EXCEPT ![0] = v] PROVE state'[s] = read[s]
        BY <3>1, <3>4, <4>2
      <4> QED BY <2>3, <4>1, <4>2
    <3> QED BY <3>2, <3>3
  <2>5. state' = [s \in 0 .. slavecount |-> state'[s]]
    <3>1. read = [s \in 0 .. slavecount |-> read[s]] OBVIOUS
    <3> HIDE DEF read
    <3> QED BY <2>3, <3>1
  <2>6. fslave' \in 1 .. slavecount BY <1>6, <2>1, <2>3, Zero
  <2>7. StateTypes' BY <1>2, <1>3, <2>5, <2>6 DEF StateTypes
  <2>8. ASSUME call = "readstate", faults < 2, NEW s \in Slaves, s <= lslave
        PROVE  Recorded(s)'
    <3>1. s \in Nat BY Numbers
    <3>2. CASE s < fslave
      <4>1. Recorded(s) BY <2>2, <2>8, <3>2 DEF Reading
      <4>2. s \notin fslave .. lslave BY <1>6, <3>1, <3>2
      <4> QED BY <1>3, <2>4, <4>1, <4>2 DEF Recorded
    <3>3. CASE ~(s < fslave)
      <4>1. s \in fslave .. lslave BY <1>6, <2>1, <2>8, <3>1, <3>3
      <4>2. state'[s] = {} \/ state'[s] = Answer(configadr[s]) BY <2>4, <4>1
      <4>3. Answer(configadr[s]) = {} \/ (s <= reach /\ Answer(configadr[s]) = alstatus[s])
        BY <1>4, <2>8, OwnAnswer
      <4>4. s <= reach => alstatus[s] \in seen[s] BY <2>2, <2>8 DEF Reading
      <4> QED BY <1>3, <4>2, <4>3, <4>4 DEF Recorded
    <3> QED BY <3>2, <3>3
  <2>9. \A s \in Slaves : s < fslave' /\ pc' = "multi" => s <= lslave
    BY <1>6, <2>1, <2>2, <2>3, Numbers
  <2>10. \A s \in Slaves : pc' = "idle" => s <= lslave BY <1>6, <2>1, <2>2, <2>3, Numbers DEF Slaves
  <2>11. call = "readstate" => \A p \in Slaves : p <= reach => alstatus[p] \in seen[p]
    BY <2>2 DEF Reading
  <2>12. call = "readstate" => faults' = faults BY <1>3
  <2>13. Reading'
    <3> SUFFICES ASSUME call = "readstate" PROVE Reading' BY <1>3 DEF Reading
    <3>1. faults' < 2 /\ pc' = "multi" => \A s \in Slaves : s < fslave' => Recorded(s)'
      BY <2>8, <2>9, <2>12
    <3>2. faults' < 2 /\ pc' = "idle" => \A s \in Slaves : Recorded(s)' BY <2>8, <2>10, <2>12
    <3> QED BY <1>2, <1>3, <2>11, <3>1, <3>2 DEF Reading
  <2> QED BY <1>5, <2>7, <2>13
<1> QED BY <1>1, <1>7, <1>8
LEMMA WriteStates ==
  ASSUME Inv, StatesInv, writestate
  PROVE  StatesInv'
<1>1. PICK o \in Outcomes : WriteState(o) BY DEF writestate
<1>2. /\ Exchange(o) /\ pc = "write" /\ pc' = "idle" /\ UNCHANGED <<state, fslave, programmed>>
      /\ \E ps : alcontrol' = [p \in Slaves |-> IF Done(o) /\ p \in ps THEN StateOf(state[slave])
                                               ELSE alcontrol[p]]
  BY <1>1 DEF WriteState, WriteControl, Return, readlocals
<1>3. call \notin {"readstate", "reconfig"}
  BY <1>2 DEF StatesInv, Reading, Reconfiguring, Later
<1>4. StateOf(state[slave]) \in SUBSET Bits
  BY <1>2 DEF StatesInv, StateTypes, StateOf
<1>5. alcontrol' \in [Slaves -> SUBSET Bits] BY <1>2, <1>4 DEF StatesInv, StateTypes
<1>6. state' = [s \in 0 .. slavecount |-> state'[s]] BY <1>2 DEF StatesInv, StateTypes
<1> QED BY <1>2, <1>3, <1>5, <1>6, OtherStates DEF Later

\* A state check of ecx_reconfig_slave leaves it where it is, or at the place after.
LEMMA CheckStates ==
  ASSUME Inv, StatesInv, statecheck
  PROVE  StatesInv'
<1> USE DEF StatesInv
<1>1. PICK o \in Outcomes : StateCheck(o) BY DEF statecheck
<1>2. /\ Exchange(o) /\ pc = "check" /\ pc' \in {pc, return}
      /\ UNCHANGED <<fslave, programmed, alcontrol, stadr, return, reqstate>>
      /\ state' = state \/ \E v : state' = [state EXCEPT ![slave] = v]
  BY <1>1 DEF StateCheck, NoWrite, readlocals, checklocals
<1>3. call # "readstate" BY <1>2 DEF Reading
<1>4. state' = [s \in 0 .. slavecount |-> state'[s]] BY <1>2 DEF StateTypes
<1>5. /\ UNCHANGED <<reach, alstatus, call, slave, seen>>
      /\ o # "ok" => disturbed'
      /\ o = "ok" => disturbed' = disturbed
      /\ call # "recover" => faults' = faults
  BY <1>2, ExchangeKeeps
<1>6. CASE call = "reconfig"
  <2>1. return \in Later /\ Stage' = Stage BY <1>2, <1>6 DEF Reconfiguring, Stage, Later
  <2>2. StateTypes' BY <1>2, <1>4, <1>5, <2>1 DEF StateTypes, Later
  <2>3. ~disturbed' /\ faults' < 2 => ~disturbed /\ faults < 2 BY <1>5, <1>6
  <2>4. Reconfiguring' BY <1>2, <1>5, <1>6, <2>1, <2>3 DEF Reconfiguring
  <2> QED BY <1>5, <1>6, <2>2, <2>4 DEF Reading, Returns
<1>7. CASE call # "reconfig"
  <2>1. return = "idle" /\ pc' \in {"check", "idle"} BY <1>2, <1>7 DEF Returns
  <2>2. alcontrol' \in [Slaves -> SUBSET Bits] BY <1>2 DEF StateTypes
  <2>3. call \notin {"readstate", "reconfig"} BY <1>3, <1>7
  <2> QED BY <1>2, <1>4, <2>1, <2>2, <2>3, OtherStates DEF Later
<1> QED BY <1>6, <1>7

LEMMA RecoverStates ==
  ASSUME Inv, StatesInv, recover_slave
  PROVE  StatesInv'
<1> USE DEF NoWrite, WriteAddress, Local, readlocals, Goto, Return, RecoverSteps
<1>1. \E o \in Outcomes :
        /\ Exchange(o) /\ pc \in RecoverSteps /\ pc' \in RecoverSteps \cup {"idle"}
        /\ UNCHANGED <<state, fslave, programmed, alcontrol>>
  <2>1. PICK o \in Outcomes :
          \/ ReadAddress(o) \/ ClearTempnode(o) \/ SetTempnode(o) \/ UnsetTempnode(o)
          \/ Identify(o) \/ RestoreAddress(o) \/ RemoveAddress(o)
    BY DEF recover_slave
  <2>2. CASE ReadAddress(o) BY <2>2 DEF ReadAddress
  <2>3. CASE ClearTempnode(o) BY <2>3 DEF ClearTempnode
  <2>4. CASE SetTempnode(o) BY <2>4 DEF SetTempnode
  <2>5. CASE UnsetTempnode(o) BY <2>5 DEF UnsetTempnode
  <2>6. CASE Identify(o) BY <2>6 DEF Identify
  <2>7. CASE RestoreAddress(o) BY <2>7 DEF RestoreAddress
  <2>8. CASE RemoveAddress(o) BY <2>8 DEF RemoveAddress
  <2> QED BY <2>1, <2>2, <2>3, <2>4, <2>5, <2>6, <2>7, <2>8
<1>2. call = "recover" BY <1>1 DEF Inv, Place
<1>3. state' = [s \in 0 .. slavecount |-> state'[s]] /\ alcontrol' \in [Slaves -> SUBSET Bits]
  BY <1>1 DEF StatesInv, StateTypes
<1> QED BY <1>1, <1>2, <1>3, OtherStates DEF Later

\* A step of ecx_reconfig_slave that writes a request; nothing that only other calls
\* look at changes.
LEMMA RequestStates ==
  ASSUME StatesInv, NEW o, Exchange(o), pc \in {"to init", "to pre-op"} \cup Later,
         NEW ps, NEW v \in SUBSET Bits,
         alcontrol' = [p \in Slaves |-> IF Done(o) /\ p \in ps THEN v ELSE alcontrol[p]],
         UNCHANGED <<programmed, fslave, state>>, pc' \in {"check", "idle"},
         pc' = "check" => return' \in Later
  PROVE  StateTypes' /\ Reading' /\ Returns' /\ call = "reconfig" /\ call' = "reconfig"
<1>1. call = "reconfig" BY DEF StatesInv, Returns
<1>2. UNCHANGED <<reach, alstatus, call, slave, seen>> BY ExchangeKeeps
<1>3. alcontrol' \in [Slaves -> SUBSET Bits] BY DEF StatesInv, StateTypes
<1>4. StateTypes' BY <1>2, <1>3 DEF StatesInv, StateTypes
<1> QED BY <1>1, <1>2, <1>4 DEF Reading, Returns, Later

LEMMA Requested == INIT \in SUBSET Bits /\ PRE_OP \in SUBSET Bits /\ SAFE_OP \in SUBSET Bits
BY DEF INIT, PRE_OP, SAFE_OP, Bits

LEMMA DifferentRequests == INIT # PRE_OP /\ INIT # SAFE_OP /\ PRE_OP # SAFE_OP
<1>1. 1 \in INIT /\ 2 \in PRE_OP /\ 4 \in SAFE_OP BY DEF INIT, PRE_OP, SAFE_OP
<1>2. 1 \notin PRE_OP /\ 1 \notin SAFE_OP /\ 2 \notin SAFE_OP BY DEF PRE_OP, SAFE_OP
<1> QED BY <1>1, <1>2

\* Programming reaches the slave at its own address, if nothing disturbs the call.
LEMMA ProgramStates ==
  ASSUME Inv, StatesInv, NEW o, NEW what \in {"SM", "FMMU"}, Program(o, what),
         pc \in {"program SM", "program FMMU"}, pc' \in {"to pre-op", "idle"}
  PROVE  /\ StateTypes' /\ Reading' /\ Returns'
         /\ call = "reconfig" /\ slave \in Slaves
         /\ UNCHANGED <<call, slave, reach, stadr, reqstate>>
         /\ ~disturbed' /\ faults' < 2 =>
              /\ ~disturbed /\ faults < 2 /\ slave <= reach /\ stadr[slave] = slave
              /\ programmed'[slave] = programmed[slave] \cup {what}
<1> USE DEF StatesInv
<1>1. call = "reconfig" /\ slave \in Slaves BY DEF Returns, Reconfiguring, Later
<1>2. /\ Exchange(o) /\ UNCHANGED <<stadr, alcontrol, state, fslave, reqstate, return>>
      /\ programmed' = [p \in Slaves |->
           IF Done(o) /\ p \in At(configadr[slave]) THEN programmed[p] \cup {what}
           ELSE programmed[p]]
  BY DEF Program, Local, readlocals, checklocals
<1>3. /\ UNCHANGED <<reach, alstatus, call, slave, seen, faults>>
      /\ o # "ok" => disturbed'
      /\ o = "ok" => disturbed' = disturbed
  BY <1>1, <1>2, ExchangeKeeps
<1>4. programmed' \in [Slaves -> SUBSET {"SM", "FMMU"}] BY <1>2 DEF StateTypes
<1>5. StateTypes' BY <1>2, <1>3, <1>4 DEF StateTypes
<1>6. Reading' /\ Returns' BY <1>1, <1>3 DEF Reading, Returns, Later
<1>7. ASSUME ~disturbed', faults' < 2
      PROVE  /\ ~disturbed /\ faults < 2 /\ slave <= reach /\ stadr[slave] = slave
             /\ programmed'[slave] = programmed[slave] \cup {what}
  <2>1. o = "ok" /\ ~disturbed /\ faults < 2
    <3>1. o = "ok" BY <1>3, <1>7
    <3>2. ~disturbed BY <1>3, <1>7, <3>1, Zenon
    <3>3. faults < 2 BY <1>3, <1>7
    <3> QED BY <3>1, <3>2, <3>3
  <2>2. slave <= reach /\ stadr[slave] = slave
    BY <1>1, <2>1 DEF Reconfiguring, Stage
  <2>3. configadr[slave] = slave /\ At(slave) = {slave}
    BY <1>1, <2>1, <2>2, OwnAddress DEF RecoverSteps
  <2> QED BY <1>1, <1>2, <2>1, <2>2, <2>3 DEF Done
<1> QED BY <1>1, <1>2, <1>3, <1>5, <1>6, <1>7

LEMMA ReconfigStates ==
  ASSUME Inv, StatesInv, reconfig_slave
  PROVE  StatesInv'
<1> USE DEF StatesInv
<1>1. CASE Stop
  <2>1. /\ pc \in {"program SM", "to safe-op"} /\ pc' = "idle"
        /\ UNCHANGED <<alstatus, alcontrol, programmed, state, seen, fslave, slave, call, reqstate>>
    BY <1>1 DEF Stop, slaves, readlocals, checklocals
  <2>2. call = "reconfig" BY <2>1 DEF Returns, Later
  <2>3. reqstate # SAFE_OP
    BY <2>1, <2>2, DifferentRequests DEF Reconfiguring, Stage
  <2>4. Reconfiguring' BY <2>1, <2>2, <2>3 DEF Reconfiguring, Stage
  <2>5. StateTypes' BY <2>1 DEF StateTypes
  <2> QED BY <2>1, <2>2, <2>4, <2>5 DEF Reading, Returns, Later
<1>2. ASSUME NEW o \in Outcomes, ToInit(o) PROVE StatesInv'
  <2> DEFINE ps == At(configadr[slave])
  <2>1. /\ pc = "to init" /\ Exchange(o) /\ UNCHANGED <<programmed, fslave, stadr, configadr, state>>
        /\ alcontrol' = [p \in Slaves |-> IF Done(o) /\ p \in ps THEN StateOf(INIT)
                                          ELSE alcontrol[p]]
        /\ \/ /\ Wkc(o, ps) > 0 /\ pc' = "check" /\ reqstate' = INIT /\ return' = "program SM"
           \/ pc' = "idle" /\ UNCHANGED <<reqstate, return>>
    BY <1>2 DEF ToInit, WriteControl, Check, Return, Local, readlocals, checklocals
  <2>2. StateOf(INIT) \in SUBSET Bits BY Requested DEF StateOf
  <2>3. StateTypes' /\ Reading' /\ Returns' /\ call = "reconfig" /\ call' = "reconfig"
    BY <2>1, <2>2, RequestStates DEF Later
  <2>4. /\ UNCHANGED <<reach, slave, faults>>
        /\ o # "ok" => disturbed'
        /\ o = "ok" => disturbed' = disturbed
    BY <2>1, <2>3, ExchangeKeeps
  <2>5. slave \in Slaves /\ reqstate = INIT BY <2>1, <2>3 DEF Reconfiguring, Stage
  <2>6. CASE pc' = "idle"
    <3>1. reqstate' = INIT BY <2>1, <2>5, <2>6
    <3> QED BY <2>3, <2>4, <2>5, <2>6, <3>1, DifferentRequests DEF Reconfiguring, Stage
  <2>7. CASE Wkc(o, ps) > 0 /\ pc' = "check" /\ reqstate' = INIT /\ return' = "program SM"
    <3>1. ASSUME ~disturbed', faults' < 2 PROVE slave <= reach /\ stadr[slave] = slave
      <4>1. o = "ok" /\ faults < 2 BY <2>4, <3>1
      <4>2. configadr[slave] = slave /\ At(slave) = IF slave <= reach /\ stadr[slave] = slave
                                                     THEN {slave} ELSE {}
        BY <2>1, <2>5, <4>1, OwnAddress DEF RecoverSteps
      <4>3. ps # {}
        <5>1. Cardinality(ps) > 0 BY <2>7, <4>1 DEF Wkc
        <5>2. Cardinality({}) = 0 BY FS_EmptySet
        <5> HIDE DEF ps
        <5> QED BY <5>1, <5>2
      <4> QED BY <4>2, <4>3
    <3> QED BY <2>1, <2>3, <2>4, <2>5, <2>7, <3>1 DEF Reconfiguring, Stage, Later
  <2> QED BY <2>1, <2>6, <2>7
<1>3. ASSUME NEW o \in Outcomes, ProgramSM(o) PROVE StatesInv'
  <2>1. Program(o, "SM") /\ pc = "program SM" /\ pc' = "to pre-op"
    BY <1>3 DEF ProgramSM, Goto
  <2>2. /\ StateTypes' /\ Reading' /\ Returns'
        /\ call = "reconfig" /\ slave \in Slaves
        /\ UNCHANGED <<call, slave, reach, stadr, reqstate>>
        /\ ~disturbed' /\ faults' < 2 =>
             /\ ~disturbed /\ faults < 2 /\ slave <= reach /\ stadr[slave] = slave
             /\ programmed'[slave] = programmed[slave] \cup {"SM"}
    BY <2>1, ProgramStates
  <2>3. reqstate = INIT BY <2>1, <2>2 DEF Reconfiguring, Stage
  <2>4. Reconfiguring' BY <2>1, <2>2, <2>3 DEF Reconfiguring, Stage, Later
  <2> QED BY <2>2, <2>4
<1>4. ASSUME NEW o \in Outcomes, NEW req \in {PRE_OP, SAFE_OP}, NEW place \in Later,
             pc = IF req = PRE_OP THEN "to pre-op" ELSE "to safe-op",
             place = IF req = PRE_OP THEN "to safe-op" ELSE "program FMMU",
             Exchange(o), WriteControl(o, At(configadr[slave]), req), Check(req, place)
      PROVE  StatesInv'
  <2>1. /\ UNCHANGED <<programmed, fslave, stadr, state>>
        /\ alcontrol' = [p \in Slaves |-> IF Done(o) /\ p \in At(configadr[slave])
                                          THEN StateOf(req) ELSE alcontrol[p]]
        /\ pc' = "check" /\ reqstate' = req /\ return' = place
    BY <1>4 DEF WriteControl, Check, readlocals
  <2>2. StateOf(req) \in SUBSET Bits BY Requested DEF StateOf
  <2>3. StateTypes' /\ Reading' /\ Returns' /\ call = "reconfig" /\ call' = "reconfig"
    BY <1>4, <2>1, <2>2, RequestStates DEF Later
  <2>4. /\ UNCHANGED <<reach, slave, faults>>
        /\ o # "ok" => disturbed'
        /\ o = "ok" => disturbed' = disturbed
    BY <1>4, <2>3, ExchangeKeeps
  <2>5. Stage' = place /\ place \in {"to safe-op", "program FMMU"}
    BY <1>4, <2>1 DEF Stage
  <2>6. /\ place = "to safe-op" => req = PRE_OP
        /\ place = "program FMMU" => req = SAFE_OP
    BY <1>4
  <2>7. ASSUME ~disturbed', faults' < 2
        PROVE  slave <= reach /\ stadr[slave] = slave /\ "SM" \in programmed[slave]
    <3>1. o = "ok" BY <2>4, <2>7
    <3>2. ~disturbed BY <2>4, <2>7, <3>1, Zenon
    <3>3. faults < 2 BY <2>4, <2>7
    <3>4. Stage \in {"to pre-op", "to safe-op"} BY <1>4 DEF Stage
    <3> QED BY <2>3, <3>2, <3>3, <3>4 DEF Reconfiguring
  <2>8. Reconfiguring' BY <2>1, <2>3, <2>4, <2>5, <2>6, <2>7 DEF Reconfiguring
  <2> QED BY <2>3, <2>8
<1>5. ASSUME NEW o \in Outcomes, ToPreop(o) PROVE StatesInv'
  BY <1>4, <1>5 DEF ToPreop, Later
<1>6. ASSUME NEW o \in Outcomes, ToSafeop(o) PROVE StatesInv'
  BY <1>4, <1>6, DifferentRequests DEF ToSafeop, Later
<1>7. ASSUME NEW o \in Outcomes, ProgramFMMU(o) PROVE StatesInv'
  <2>1. Program(o, "FMMU") /\ pc = "program FMMU" /\ pc' = "idle"
    BY <1>7 DEF ProgramFMMU, Goto
  <2>2. /\ StateTypes' /\ Reading' /\ Returns'
        /\ call = "reconfig" /\ slave \in Slaves
        /\ UNCHANGED <<call, slave, reach, stadr, reqstate>>
        /\ ~disturbed' /\ faults' < 2 =>
             /\ ~disturbed /\ faults < 2 /\ slave <= reach /\ stadr[slave] = slave
             /\ programmed'[slave] = programmed[slave] \cup {"FMMU"}
    BY <2>1, ProgramStates
  <2>3. ~disturbed' /\ faults' < 2 => programmed'[slave] = {"SM", "FMMU"}
    <3> SUFFICES ASSUME ~disturbed', faults' < 2 PROVE programmed'[slave] = {"SM", "FMMU"}
      OBVIOUS
    <3>1. "SM" \in programmed[slave] BY <2>1, <2>2 DEF Reconfiguring, Stage
    <3>2. programmed[slave] \subseteq {"SM", "FMMU"} BY <2>2 DEF StateTypes
    <3>3. programmed'[slave] = programmed[slave] \cup {"FMMU"} BY <2>2
    <3> QED BY <3>1, <3>2, <3>3
  <2>4. Reconfiguring' BY <2>1, <2>2, <2>3 DEF Reconfiguring, Stage
  <2> QED BY <2>2, <2>4
<1> QED BY <1>1, <1>2, <1>3, <1>5, <1>6, <1>7 DEF reconfig_slave

\* What befalls the bus during a call of ecx_reconfig_slave disturbs it, unless it is a
\* slave that obeys; what befalls it during one of ecx_readstate goes into `seen'.
LEMMA WatchStates ==
  ASSUME StatesInv, Watch, alstatus' \in [Slaves -> Statuses],
         alcontrol' \in [Slaves -> SUBSET Bits],
         programmed' \in [Slaves -> SUBSET {"SM", "FMMU"}],
         call = "readstate" \/ call = "reconfig" => faults' = faults,
         pc # "idle" => disturbed' \/ UNCHANGED <<disturbed, reach, stadr, programmed>>
  PROVE  StatesInv'
<1> USE DEF StatesInv
<1>1. UNCHANGED <<pc, state, fslave, reqstate, return>> BY DEF Watch, readlocals, checklocals
<1>2. pc = "idle" => call' = "none" /\ seen' = Nothing BY DEF Watch
<1>3. pc # "idle" =>
        /\ UNCHANGED <<call, slave>>
        /\ seen' = IF call # "readstate" THEN seen
                   ELSE [p \in Slaves |-> IF p <= reach' THEN seen[p] \cup {alstatus'[p]}
                                          ELSE seen[p]]
  BY DEF Watch
<1>4. seen' = [s \in Slaves |-> seen'[s]] BY <1>2, <1>3 DEF Nothing, StateTypes
<1>5. StateTypes' BY <1>1, <1>3, <1>4 DEF StateTypes
<1>6. Returns' BY <1>1, <1>3 DEF Returns, Later
<1>7. CASE pc = "idle" BY <1>2, <1>5, <1>6, <1>7 DEF Reading, Reconfiguring
<1>8. CASE pc # "idle"
  <2>1. Reading'
    <3> SUFFICES ASSUME call = "readstate" PROVE Reading' BY <1>3, <1>8 DEF Reading
    <3>1. \A p \in Slaves : seen[p] \subseteq seen'[p] /\ (p <= reach' => alstatus'[p] \in seen'[p])
      BY <1>3, <1>8
    <3>2. \A s \in Slaves : Recorded(s) => Recorded(s)' BY <1>1, <3>1 DEF Recorded
    <3> QED BY <1>1, <1>8, <3>1, <3>2 DEF Reading
  <2>2. Reconfiguring'
    <3> SUFFICES ASSUME call = "reconfig" PROVE Reconfiguring' BY <1>3, <1>8 DEF Reconfiguring
    <3>1. Stage' = Stage BY <1>1 DEF Stage
    <3>2. UNCHANGED <<call, slave, faults>> BY <1>3, <1>8
    <3>3. CASE disturbed' BY <1>1, <3>1, <3>2, <3>3 DEF Reconfiguring
    <3>4. CASE UNCHANGED <<disturbed, reach, stadr, programmed>>
      BY <1>1, <3>1, <3>2, <3>4 DEF Reconfiguring
    <3> QED BY <1>8, <3>3, <3>4
  <2> QED BY <1>5, <1>6, <2>1, <2>2
<1> QED BY <1>7, <1>8

LEMMA BusStates ==
  ASSUME Inv, StatesInv, bus
  PROVE  StatesInv'
<1>1. /\ alstatus \in [Slaves -> Statuses] /\ alcontrol \in [Slaves -> SUBSET Bits]
      /\ programmed \in [Slaves -> SUBSET {"SM", "FMMU"}]
  BY DEF StatesInv, StateTypes
<1>2. ASSUME Disturb, alstatus' \in [Slaves -> Statuses], alcontrol' \in [Slaves -> SUBSET Bits],
             programmed' \in [Slaves -> SUBSET {"SM", "FMMU"}]
      PROVE  StatesInv'
  <2>1. Watch BY <1>2 DEF Disturb
  <2>2. pc # "idle" => disturbed' BY <1>2, Zenon DEF Disturb
  <2>3. call # "recover" => faults' = faults BY <1>2 DEF Disturb
  <2> QED BY <1>2, <2>1, <2>2, <2>3, WatchStates
<1>3. CASE CutOrJoin BY <1>1, <1>2, <1>3 DEF CutOrJoin
<1>4. ASSUME NEW p \in Slaves, Reset(p) PROVE StatesInv'
  <2>1. /\ Disturb /\ alstatus' = [alstatus EXCEPT ![p] = INIT]
        /\ alcontrol' = [alcontrol EXCEPT ![p] = {}]
        /\ programmed' = [programmed EXCEPT ![p] = {}]
    BY <1>4 DEF Reset
  <2>2. INIT \in Statuses BY DEF INIT, Statuses, Bits
  <2>3. /\ alstatus' \in [Slaves -> Statuses] /\ alcontrol' \in [Slaves -> SUBSET Bits]
        /\ programmed' \in [Slaves -> SUBSET {"SM", "FMMU"}]
    BY <1>1, <2>1, <2>2
  <2> QED BY <1>2, <2>1, <2>3
<1>5. ASSUME NEW p \in Slaves, Obey(p) PROVE StatesInv'
  <2>1. /\ Watch /\ UNCHANGED <<reach, stadr, programmed, disturbed, faults>>
        /\ alcontrol[p] # {} /\ alcontrol' = [alcontrol EXCEPT ![p] = {}]
        /\ \E v \in {alcontrol[p], alstatus[p] \cup {ERROR}} :
             alstatus' = [alstatus EXCEPT ![p] = v]
    BY <1>5 DEF Obey
  <2>2. alcontrol[p] \in Statuses /\ alstatus[p] \cup {ERROR} \in Statuses
    BY <1>1, <2>1 DEF Statuses
  <2>3. alstatus' \in [Slaves -> Statuses] /\ alcontrol' \in [Slaves -> SUBSET Bits]
    BY <1>1, <2>1, <2>2
  <2> QED BY <1>1, <2>1, <2>3, WatchStates
<1> QED BY <1>3, <1>4, <1>5 DEF bus

LEMMA StatesStutter ==
  ASSUME StatesInv, UNCHANGED vars
  PROVE  StatesInv'
BY DEF StatesInv, StateTypes, Reading, Recorded, Reconfiguring, Stage, Returns, vars, slaves,
       readlocals, checklocals, bounds

\* The second invariant holds together with the first.
THEOREM StatesInvariance == Spec => []StatesInv
<1>1. Inv /\ StatesInv /\ [Next]_vars => StatesInv'
  <2> SUFFICES ASSUME Inv, StatesInv, [Next]_vars PROVE StatesInv' OBVIOUS
  <2>1. CASE application BY <2>1, ApplicationStates
  <2>2. CASE readstate BY <2>2, ReadStates
  <2>3. CASE writestate BY <2>3, WriteStates
  <2>4. CASE statecheck BY <2>4, CheckStates
  <2>5. CASE recover_slave BY <2>5, RecoverStates
  <2>6. CASE reconfig_slave BY <2>6, ReconfigStates
  <2>7. CASE bus BY <2>7, BusStates
  <2>8. CASE UNCHANGED vars BY <2>8, StatesStutter
  <2> QED BY <2>1, <2>2, <2>3, <2>4, <2>5, <2>6, <2>7, <2>8 DEF Next
<1> QED BY <1>1, StatesInitial, Invariance, PTL DEF Spec

\* What ecx_readstate records of a slave is a status it had, within reach, during the
\* call, for any number of slaves and of words to a frame, and whatever befalls the bus
\* between the frames; 0 and the sum of INIT and PRE_OP excepted.
THEOREM ReadIsTrue == Spec => []ReadTrue
<1>1. StatesInv => ReadTrue
  BY DEF StatesInv, Reading, Recorded, ReadTrue, Returned
<1> QED BY <1>1, StatesInvariance, PTL

\* Once an undisturbed call of ecx_reconfig_slave has awaited SAFE_OP, the SMs and FMMUs
\* of its slave are programmed, for any number of slaves and whatever calls came before.
THEOREM ReconfigurationHolds == Spec => []Reconfigured
<1>1. StatesInv => Reconfigured
  BY DEF StatesInv, Reconfiguring, Stage, Reconfigured, Returned
<1> QED BY <1>1, StatesInvariance, PTL
=============================================================================
