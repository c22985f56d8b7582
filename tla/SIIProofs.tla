------------------------------ MODULE SIIProofs ------------------------------
(***************************************************************************)
(* Proofs about SII for every number of slaves, EEPROM and calls: what is  *)
(* recorded of the control of an EEPROM is true; what an access returns is *)
(* what the EEPROM holds, within three commands; and so is what is cached. *)
(***************************************************************************)
EXTENDS SII, SequenceTheorems, TLAPS

USE DEF eeproms, cache, wire, locals, history, vars, Slave

-----------------------------------------------------------------------------
(***************************************************************************)
(* The inductive invariant.                                                *)
(***************************************************************************)
Handovers == {"forced", "taken", "given"}

\* A write that hands the control over is under way or has just ended.
Handing == pc \in Handovers \/ (pc = "exchange" /\ return \in Handovers)
Giving == pc = "given" \/ (pc = "exchange" /\ return = "given")

Types ==
  /\ owner \in [Slaves -> {"master", "pdi"}] /\ eep_pdi \in [Slaves -> BOOLEAN]
  /\ eectl \in BOOLEAN
  /\ call.fn = "none" \/ Slave \in Slaves
  /\ pc # "idle" => call.fn # "none"
  /\ back \in {"idle", "returned", "dumped", "fill", "walk"}
  /\ pc = "start" => back = "idle"
  /\ pc = "wait" => return \in {"status", "executed", "fetch"}
  /\ pc = "exchange" => return \in Handovers \cup {"command", "data sent", "commanded", back}

\* What each handover may rely on, unless one before has failed.
Handover ==
  /\ pc = "exchange" =>
       \/ return = "forced" /\ frame = <<"EEPCFG", 2>>
       \/ return = "taken" /\ frame = <<"EEPCFG", 0>> /\ (Slave \in lost \/ owner[Slave] = "master")
       \/ return = "given" /\ frame = <<"EEPCFG", 1>>
       \/ return \notin Handovers /\ frame[1] # "EEPCFG"
  /\ pc = "forced" /\ wkc = 1 => owner[Slave] = "master"
  /\ pc = "taken" => Slave \in lost \/ owner[Slave] = "master"
  /\ pc = "given" /\ wkc = 1 => owner[Slave] = "pdi"

Known == \A s \in Slaves \ lost : (s = Slave /\ Handing) \/ (eep_pdi[s] <=> owner[s] = "pdi")

\* The calls that restore the control, and where they are in an access.
Restores == call.fn \in Walkers \cup {"dump"}

InAccess ==
  \/ pc \in {"forced", "taken", "wait", "status", "command", "data sent", "commanded",
             "executed", "fetch", "dumped"}
  \/ pc = "exchange" /\ return # "given"

Kept ==
  Restores =>
    /\ InAccess \/ Giving \/ pc \in {"idle", "start", "walk", "fill"}
    /\ InAccess => back \in {"fill", "dumped"}
    /\ Giving => eectl /\ back \in {"walk", "idle"}
    /\ ~eectl => ~eep_pdi[Slave]
    /\ pc = "idle" /\ eectl => eep_pdi[Slave]

Inv == Types /\ Handover /\ Known /\ Kept

USE DEF Inv

-----------------------------------------------------------------------------
(***************************************************************************)
(* Steps in between: nothing is handed over.                               *)
(***************************************************************************)
\* No handover begins or ends, and none is under way.
LEMMA Between ==
  ASSUME Inv, UNCHANGED <<owner, eep_pdi, lost, call, eectl>>, ~Handing, ~Handing',
         Types', pc' = "exchange" => frame'[1] # "EEPCFG",
         Restores => /\ InAccess' \/ pc' \in {"idle", "start", "walk", "fill"}
                     /\ InAccess' => back' \in {"fill", "dumped"}
                     /\ pc' = "idle" /\ eectl => eep_pdi[Slave]
  PROVE  Inv'
<1>1. Handover' BY DEF Handover, Handing, Handovers
<1>2. Known' BY DEF Known
<1>3. ~Giving' BY DEF Giving, Handing, Handovers
<1>4. Kept' BY <1>3 DEF Kept, Restores
<1> QED BY <1>1, <1>2, <1>4

LEMMA StatusKeeps == Inv /\ Status => Inv'
<1> SUFFICES ASSUME Inv, Status PROVE Inv'
  OBVIOUS
<1> USE DEF Status, Rest, Send
<1>1. UNCHANGED <<owner, eep_pdi, lost, call, eectl, back>> /\ ~Handing /\ ~Handing'
  BY DEF Handing, Handovers, Types
<1>2. Types' BY DEF Types, Handovers
<1>3. pc' = "exchange" => frame'[1] # "EEPCFG" BY DEF Types
<1>4. Restores => back \in {"fill", "dumped"} /\ (InAccess' \/ pc' = "fill") /\ pc' # "idle"
  BY DEF Kept, InAccess
<1> QED BY <1>1, <1>2, <1>3, <1>4, Between

LEMMA CommandKeeps == Inv /\ Command => Inv'
<1> SUFFICES ASSUME Inv, Command PROVE Inv'
  OBVIOUS
<1> USE DEF Command, Rest, Send
<1>1. UNCHANGED <<owner, eep_pdi, lost, call, eectl, back>> /\ ~Handing /\ ~Handing'
  BY DEF Handing, Handovers
<1>2. Types' BY DEF Types, Handovers
<1>3. pc' = "exchange" /\ frame'[1] # "EEPCFG" /\ return' # "given"
  <2>1. pc' = "exchange" /\ return' # "given" OBVIOUS
  <2>2. \E x : frame' \in {<<"read", x>>, <<"EEPDAT", x>>, <<"write", x>>} OBVIOUS
  <2>3. \A x : /\ <<"read", x>>[1] # "EEPCFG" /\ <<"EEPDAT", x>>[1] # "EEPCFG"
              /\ <<"write", x>>[1] # "EEPCFG"
    OBVIOUS
  <2>4. frame'[1] # "EEPCFG"
    <3> HIDE DEF Command
    <3> QED BY <2>2, <2>3
  <2> QED BY <2>1, <2>4
<1>4. Restores => back \in {"fill", "dumped"} BY DEF Kept, InAccess
<1> QED BY <1>1, <1>2, <1>3, <1>4, Between DEF InAccess

LEMMA CommandedKeeps == Inv /\ Commanded => Inv'
<1> SUFFICES ASSUME Inv, Commanded PROVE Inv'
  OBVIOUS
<1> USE DEF Commanded, Rest, Wait, Again
<1>1. UNCHANGED <<owner, eep_pdi, lost, call, eectl, back>> /\ ~Handing /\ ~Handing'
  BY DEF Handing, Handovers, Types
<1>2. Types' BY DEF Types, Handovers
<1>3. pc' # "exchange" BY DEF Types
<1>4. Restores => back \in {"fill", "dumped"} /\ (InAccess' \/ pc' = "fill") /\ pc' # "idle"
  BY DEF Kept, InAccess
<1> QED BY <1>1, <1>2, <1>3, <1>4, Between

LEMMA ExecutedKeeps == Inv /\ Executed => Inv'
<1> SUFFICES ASSUME Inv, Executed PROVE Inv'
  OBVIOUS
<1> USE DEF Executed, Rest, Again
<1>1. UNCHANGED <<owner, eep_pdi, lost, call, eectl, back>> /\ ~Handing /\ ~Handing'
  BY DEF Handing, Handovers, Types
<1>2. Types' BY DEF Types, Handovers
<1>3. pc' # "exchange" BY DEF Types
<1>4. Restores => back \in {"fill", "dumped"} /\ (InAccess' \/ pc' = "fill") /\ pc' # "idle"
  BY DEF Kept, InAccess
<1> QED BY <1>1, <1>2, <1>3, <1>4, Between

LEMMA FetchKeeps == Inv /\ Fetch => Inv'
<1> SUFFICES ASSUME Inv, Fetch PROVE Inv'
  OBVIOUS
<1> USE DEF Fetch, Rest, Again, Send
<1>1. UNCHANGED <<owner, eep_pdi, lost, call, eectl, back>> /\ ~Handing /\ ~Handing'
  BY DEF Handing, Handovers, Types
<1>2. Types' BY DEF Types, Handovers
<1>3. pc' = "exchange" => frame'[1] # "EEPCFG" BY DEF Types
<1>4. Restores => back \in {"fill", "dumped"} /\ (InAccess' \/ pc' = "fill") /\ pc' # "idle"
  BY DEF Kept, InAccess
<1> QED BY <1>1, <1>2, <1>3, <1>4, Between

LEMMA ReturnedKeeps == Inv /\ Returned => Inv'
<1> SUFFICES ASSUME Inv, Returned PROVE Inv'
  OBVIOUS
<1> USE DEF Returned, Rest
<1>1. UNCHANGED <<owner, eep_pdi, lost, call, eectl, back>> /\ ~Handing /\ ~Handing'
  BY DEF Handing, Handovers
<1>2. Types' BY DEF Types
<1>3. ~Restores BY DEF Kept, InAccess, Giving
<1> QED BY <1>1, <1>2, <1>3, Between

LEMMA WaitKeeps == Inv /\ waitnotbusy => Inv'
<1> SUFFICES ASSUME Inv, waitnotbusy PROVE Inv'
  OBVIOUS
<1> USE DEF waitnotbusy
<1>1. /\ UNCHANGED <<owner, eep_pdi, lost, call, eectl, back>> /\ ~Handing /\ ~Handing'
      /\ pc' \in {"status", "executed", "fetch"}
  BY DEF Handing, Handovers, Types
<1>2. Types' BY <1>1 DEF Types
<1>3. Restores => back \in {"fill", "dumped"} BY DEF Kept, InAccess
<1> QED BY <1>1, <1>2, <1>3, Between DEF InAccess

LEMMA FillKeeps == Inv /\ Fill => Inv'
<1> SUFFICES ASSUME Inv, Fill PROVE Inv'
  OBVIOUS
<1> USE DEF Fill
<1>1. /\ UNCHANGED <<owner, eep_pdi, lost, call, eectl, back>> /\ ~Handing /\ ~Handing'
      /\ pc' = "walk" /\ ~InAccess'
  BY DEF Handing, Handovers, InAccess
<1>2. Types' BY DEF Types
<1> QED BY <1>1, <1>2, Between

\* The EEPROM works, or a slave leaves.
LEMMA SlavesKeep ==
  Inv /\ ((\E s \in Slaves : Complete(s) \/ Leave(s)) \/ UNCHANGED vars) => Inv'
<1> SUFFICES ASSUME Inv, UNCHANGED <<owner, eep_pdi, lost, wire, pc, locals>> PROVE Inv'
  BY DEF Complete, Leave
<1>1. UNCHANGED <<owner, eep_pdi, lost, call, eectl, pc, back, return, frame, wkc>> OBVIOUS
<1>2. (Handing' <=> Handing) /\ (Giving' <=> Giving) /\ (InAccess' <=> InAccess)
  BY <1>1 DEF Handing, Giving, InAccess
<1>3. Types' BY <1>1 DEF Types
<1>4. Handover' BY <1>1 DEF Handover
<1>5. Known' BY <1>1, <1>2 DEF Known
<1>6. Kept' BY <1>1, <1>2 DEF Kept, Restores
<1> QED BY <1>3, <1>4, <1>5, <1>6

-----------------------------------------------------------------------------
(***************************************************************************)
(* Handing over.                                                           *)
(***************************************************************************)
\* ecx_eeprom2master begins an access, or finds the control with the master.
LEMMA ToMaster ==
  ASSUME Inv, ~Handing, NEW place \in {"idle", "status"}, eeprom2master(place),
         UNCHANGED <<owner, eep_pdi, lost, call, eectl>>,
         call.fn # "none", back' \in {"idle", "returned", "dumped", "fill"},
         Restores => place # "idle" /\ back' \in {"fill", "dumped"}
  PROVE  Inv'
<1> USE DEF eeprom2master, Send, Wait
<1>1. CASE eep_pdi[Slave]
  <2>1. pc' = "exchange" /\ frame' = <<"EEPCFG", 2>> /\ return' = "forced" BY <1>1
  <2>2. Types' BY <2>1 DEF Types, Handovers
  <2>3. Handover' BY <2>1 DEF Handover
  <2>4. Handing' BY <2>1 DEF Handing, Handovers
  <2>5. Known' BY <2>4 DEF Known
  <2>6. InAccess' /\ ~Giving' BY <2>1 DEF InAccess, Giving
  <2>7. Kept' BY <1>1, <2>1, <2>6 DEF Kept, Restores
  <2> QED BY <2>2, <2>3, <2>5, <2>7
<1>2. CASE ~eep_pdi[Slave]
  <2>1. \/ place = "idle" /\ pc' = "idle"
        \/ pc' = "wait" /\ return' = "status"
    <3>1. CASE place = "idle" BY <1>2, <3>1
    <3>2. CASE place = "status" BY <1>2, <3>2
    <3> QED BY <3>1, <3>2
  <2>2. Types' BY <2>1 DEF Types
  <2>3. ~Handing' /\ (InAccess' <=> pc' = "wait") BY <2>1 DEF Handing, Handovers, InAccess
  <2> QED BY <2>1, <2>2, <2>3, Between
<1> QED BY <1>1, <1>2

\* ecx_eeprom2pdi begins to hand the control over, or finds it with the PDI.
LEMMA ToPDI ==
  ASSUME Inv, ~Handing, NEW place \in {"idle", "walk"}, eeprom2pdi(place),
         UNCHANGED <<owner, eep_pdi, lost, call, eectl>>,
         call.fn # "none", Restores => eectl
  PROVE  Inv'
<1> USE DEF eeprom2pdi, Send
<1>1. CASE ~eep_pdi[Slave]
  <2>1. /\ pc' = "exchange" /\ frame' = <<"EEPCFG", 1>> /\ return' = "given"
        /\ back' = place
    BY <1>1
  <2>2. Types' BY <2>1 DEF Types, Handovers
  <2>3. Handover' BY <2>1 DEF Handover
  <2>4. Handing' BY <2>1 DEF Handing, Handovers
  <2>5. Known' BY <2>4 DEF Known
  <2>6. ~InAccess' /\ Giving' BY <2>1 DEF InAccess, Giving
  <2>7. Kept' BY <2>1, <2>6 DEF Kept, Restores
  <2> QED BY <2>2, <2>3, <2>5, <2>7
<1>2. CASE eep_pdi[Slave]
  <2>1. pc' = place /\ back' = back BY <1>2
  <2>2. Types' BY <2>1 DEF Types
  <2>3. ~Handing' /\ ~InAccess' BY <2>1 DEF Handing, Handovers, InAccess
  <2> QED BY <1>2, <2>1, <2>2, <2>3, Between
<1> QED BY <1>1, <1>2

LEMMA RestoreKeeps ==
  ASSUME Inv, ~Handing, NEW place \in {"idle", "walk"}, Restore(place),
         UNCHANGED <<owner, eep_pdi, lost, call, eectl>>, call.fn # "none"
  PROVE  Inv'
<1>1. CASE eectl BY <1>1, ToPDI DEF Restore
<1>2. CASE ~eectl
  <2>1. pc' = place /\ back' = back BY <1>2 DEF Restore
  <2>2. Types' BY <2>1 DEF Types
  <2>3. ~Handing' /\ ~InAccess' BY <2>1 DEF Handing, Handovers, InAccess
  <2> QED BY <1>2, <2>1, <2>2, <2>3, Between
<1> QED BY <1>1, <1>2

LEMMA ForcedKeeps == Inv /\ Forced => Inv'
<1> SUFFICES ASSUME Inv, Forced PROVE Inv'
  OBVIOUS
<1>1. /\ pc = "forced" /\ UNCHANGED <<owner, eep_pdi, call, eectl, back>>
      /\ pc' = "exchange" /\ frame' = <<"EEPCFG", 0>> /\ return' = "taken"
      /\ lost' = IF wkc = 1 THEN lost \ {Slave} ELSE lost \cup {Slave}
  BY DEF Forced, Handed, Send
<1>2. Types' BY <1>1 DEF Types, Handovers
<1>3. Handover' BY <1>1 DEF Handover
<1>4. Handing' BY <1>1 DEF Handing, Handovers
<1>5. Known'
  <2>1. \A s \in Slaves \ lost' : s # Slave => s \notin lost BY <1>1
  <2> QED BY <1>1, <1>4, <2>1 DEF Known
<1>6. InAccess' /\ ~Giving' /\ InAccess BY <1>1 DEF InAccess, Giving
<1>7. Kept' BY <1>1, <1>6 DEF Kept, Restores
<1> QED BY <1>2, <1>3, <1>5, <1>7

LEMMA TakenKeeps == Inv /\ Taken => Inv'
<1> SUFFICES ASSUME Inv, Taken PROVE Inv'
  OBVIOUS
<1>1. /\ pc = "taken" /\ UNCHANGED <<owner, call, eectl, back>>
      /\ eep_pdi' = [eep_pdi EXCEPT ![Slave] = FALSE]
      /\ lost' = IF wkc = 1 THEN lost ELSE lost \cup {Slave}
      /\ \/ call.fn = "2master" /\ pc' = "idle"
         \/ pc' = "wait" /\ return' = "status"
  BY DEF Taken, Wait
<1>2. Slave \in Slaves BY <1>1 DEF Types
<1>3. Types' BY <1>1 DEF Types
<1>4. Handover' BY <1>1 DEF Handover
<1>5. Known'
  <2> SUFFICES ASSUME NEW s \in Slaves \ lost' PROVE eep_pdi'[s] <=> owner[s] = "pdi"
    BY <1>1 DEF Known
  <2>1. CASE s = Slave
    <3>1. owner[s] = "master" BY <1>1, <2>1 DEF Handover
    <3> QED BY <1>1, <1>2, <2>1, <3>1 DEF Types
  <2>2. CASE s # Slave BY <1>1, <2>2 DEF Known, Types
  <2> QED BY <2>1, <2>2
<1>6. InAccess /\ ~Giving' /\ (InAccess' <=> pc' = "wait") BY <1>1 DEF InAccess, Giving
<1>7. Kept'
  <2>1. ~eep_pdi'[Slave] BY <1>1, <1>2 DEF Types
  <2>2. Restores => call.fn # "2master" BY DEF Restores, Walkers, Finders
  <2> QED BY <1>1, <1>6, <2>1, <2>2 DEF Kept, Restores
<1> QED BY <1>3, <1>4, <1>5, <1>7

LEMMA GivenKeeps == Inv /\ Given => Inv'
<1> SUFFICES ASSUME Inv, Given PROVE Inv'
  OBVIOUS
<1>1. /\ pc = "given" /\ UNCHANGED <<owner, call, eectl, back>> /\ pc' = back
      /\ eep_pdi' = [eep_pdi EXCEPT ![Slave] = TRUE]
      /\ lost' = IF wkc = 1 THEN lost \ {Slave} ELSE lost \cup {Slave}
  BY DEF Given, Handed
<1>2. Slave \in Slaves BY <1>1 DEF Types
<1>3. Types' BY <1>1 DEF Types
<1>4. Handover' BY <1>1 DEF Handover, Types
<1>5. Known'
  <2> SUFFICES ASSUME NEW s \in Slaves \ lost' PROVE eep_pdi'[s] <=> owner[s] = "pdi"
    BY <1>1 DEF Known
  <2>1. CASE s = Slave
    <3>1. owner[s] = "pdi" BY <1>1, <2>1 DEF Handover
    <3> QED BY <1>1, <1>2, <2>1, <3>1 DEF Types
  <2>2. CASE s # Slave BY <1>1, <2>2 DEF Known, Types
  <2> QED BY <2>1, <2>2
<1>6. Kept'
  <2> SUFFICES ASSUME Restores PROVE Kept' BY <1>1 DEF Kept, Restores
  <2>1. eectl /\ back \in {"walk", "idle"} BY <1>1 DEF Kept, Giving
  <2>2. ~InAccess' /\ ~Giving' BY <1>1, <2>1 DEF InAccess, Giving
  <2>3. eep_pdi'[Slave] BY <1>1, <1>2 DEF Types
  <2> QED BY <1>1, <2>1, <2>2, <2>3 DEF Kept
<1> QED BY <1>3, <1>4, <1>5, <1>6

-----------------------------------------------------------------------------
(***************************************************************************)
(* Answers, and the calls.                                                 *)
(***************************************************************************)
LEMMA AnsweredKeeps == Inv /\ Answered => Inv'
<1> SUFFICES ASSUME Inv, Answered PROVE Inv'
  OBVIOUS
<1>1. /\ pc = "exchange" /\ pc' = return /\ wkc' = 1 /\ Arrive(Slave, frame)
      /\ UNCHANGED <<eep_pdi, call, eectl, back, lost, frame, return>>
      /\ Slave \in Slaves
  BY DEF Answered, Types
<1>2. /\ return \notin Handovers => owner' = owner
      /\ return = "forced" => owner' = [owner EXCEPT ![Slave] = "master"]
      /\ return = "taken" => owner' \in {owner, [owner EXCEPT ![Slave] = "master"]}
      /\ return = "given" => owner' = [owner EXCEPT ![Slave] = "pdi"]
  BY <1>1 DEF Arrive, Handover, Handovers
<1>3. Types' BY <1>1, <1>2 DEF Types, Handovers
<1>4. CASE return \notin Handovers
  <2>1. UNCHANGED owner /\ ~Handing /\ ~Handing' /\ pc' # "exchange"
    BY <1>1, <1>2, <1>4 DEF Handing, Handovers, Types
  <2>2. Restores => back \in {"fill", "dumped"} BY <1>1, <1>4 DEF Kept, InAccess, Handovers
  <2>3. pc' \in {"command", "data sent", "commanded", back} BY <1>1, <1>4 DEF Types
  <2>4. Restores => (InAccess' \/ pc' = "fill") /\ pc' # "idle" BY <2>2, <2>3 DEF InAccess
  <2> QED BY <1>1, <1>3, <2>1, <2>2, <2>4, Between
<1>5. CASE return \in Handovers
  <2>1. Handing /\ Handing' BY <1>1, <1>5 DEF Handing
  <2>2. Handover' BY <1>1, <1>2, <1>5 DEF Handover, Handovers, Types
  <2>3. Known' BY <1>1, <1>2, <1>5, <2>1 DEF Known, Types, Handovers
  <2>4. (InAccess' <=> InAccess) /\ (Giving' <=> Giving)
    BY <1>1, <1>5 DEF InAccess, Giving, Handovers
  <2>5. Kept' BY <1>1, <1>5, <2>4 DEF Kept, Restores, Handovers
  <2> QED BY <1>3, <2>2, <2>3, <2>5
<1> QED BY <1>4, <1>5

\* A datagram that is lost may have arrived: whoever has the control then, it
\* counts as lost unless the next try is answered.
LEMMA NotAnsweredKeeps == Inv /\ NotAnswered => Inv'
<1> SUFFICES ASSUME Inv, NotAnswered PROVE Inv'
  OBVIOUS
<1>1. /\ pc = "exchange"
      /\ Arrive(Slave, frame) \/ UNCHANGED owner
      /\ UNCHANGED <<eep_pdi, call, eectl, back, lost, frame, return>>
      /\ \/ pc' = "exchange"
         \/ pc' = return /\ wkc' # 1
      /\ Slave \in Slaves
  <2>1. pc' = pc \/ (pc' = return /\ wkc' \in {-1, 0}) BY DEF NotAnswered
  <2>2. wkc' \in {-1, 0} => wkc' # 1 OBVIOUS
  <2>3. pc = "exchange" /\ (Arrive(Slave, frame) \/ UNCHANGED owner) BY DEF NotAnswered
  <2>4. UNCHANGED <<eep_pdi, call, eectl, back, lost, frame, return>> BY DEF NotAnswered
  <2>5. Slave \in Slaves BY <2>3 DEF Types
  <2> QED BY <2>1, <2>2, <2>3, <2>4, <2>5
<1>2. /\ return \notin Handovers => owner' = owner
      /\ return = "forced" => owner' \in {owner, [owner EXCEPT ![Slave] = "master"]}
      /\ return = "taken" => owner' \in {owner, [owner EXCEPT ![Slave] = "master"]}
      /\ return = "given" => owner' \in {owner, [owner EXCEPT ![Slave] = "pdi"]}
  BY <1>1 DEF Arrive, Handover, Handovers
<1>3. Types' BY <1>1, <1>2 DEF Types, Handovers
<1>4. CASE return \notin Handovers
  <2>1. UNCHANGED owner /\ ~Handing /\ ~Handing'
    BY <1>1, <1>2, <1>4 DEF Handing, Handovers, Types
  <2>2. Restores => back \in {"fill", "dumped"} BY <1>1, <1>4 DEF Kept, InAccess, Handovers
  <2>3. return \in {"command", "data sent", "commanded", back} BY <1>1, <1>4 DEF Types
  <2>4. Restores => (InAccess' \/ pc' = "fill") /\ pc' # "idle"
    BY <1>1, <1>4, <2>2, <2>3 DEF InAccess, Handovers
  <2>5. frame'[1] # "EEPCFG" BY <1>1, <1>4 DEF Handover, Handovers
  <2> QED BY <1>1, <1>3, <2>1, <2>2, <2>4, <2>5, Between
<1>5. CASE return \in Handovers
  <2>1. Handing /\ Handing' BY <1>1, <1>5 DEF Handing
  <2>2. Handover' BY <1>1, <1>2, <1>5 DEF Handover, Handovers, Types
  <2>3. Known' BY <1>1, <1>2, <1>5, <2>1 DEF Known, Types, Handovers
  <2>4. (InAccess' <=> InAccess) /\ (Giving' <=> Giving)
    BY <1>1, <1>5 DEF InAccess, Giving, Handovers
  <2>5. Kept' BY <1>1, <1>5, <2>4 DEF Kept, Restores, Handovers
  <2> QED BY <1>3, <2>2, <2>3, <2>5
<1> QED BY <1>4, <1>5

LEMMA DumpedKeeps == Inv /\ Dumped => Inv'
<1> SUFFICES ASSUME Inv, Dumped PROVE Inv'
  OBVIOUS
<1>1. /\ pc = "dumped" /\ UNCHANGED <<owner, eep_pdi, lost, call, eectl>>
      /\ ~Handing /\ call.fn # "none"
  BY DEF Dumped, Rest, Handing, Handovers, Types
<1>2. CASE Restore("idle") BY <1>1, <1>2, RestoreKeeps
<1>3. CASE Wait("status") /\ UNCHANGED back
  <2>1. pc' = "wait" /\ return' = "status" BY <1>3 DEF Wait
  <2>2. Types' BY <1>1, <1>3, <2>1 DEF Types
  <2>3. InAccess /\ ~Handing' BY <1>1, <2>1 DEF InAccess, Handing, Handovers
  <2>4. Restores => back' \in {"fill", "dumped"} BY <1>3, <2>3 DEF Kept
  <2> QED BY <1>1, <2>1, <2>2, <2>3, <2>4, Between DEF InAccess
<1> QED BY <1>2, <1>3 DEF Dumped

LEMMA MissKeeps == Inv /\ Miss => Inv'
<1> SUFFICES ASSUME Inv, Miss PROVE Inv'
  OBVIOUS
<1>1. /\ pc = "walk" /\ UNCHANGED <<owner, eep_pdi, lost, call, eectl>>
      /\ back' = "fill" /\ eeprom2master("status") /\ ~Handing /\ call.fn # "none"
  BY DEF Miss, Handing, Handovers, Types
<1> QED BY <1>1, ToMaster

LEMMA FindKeeps == Inv /\ Find => Inv'
<1> SUFFICES ASSUME Inv, Find PROVE Inv'
  OBVIOUS
<1>1. /\ pc = "walk" /\ UNCHANGED <<owner, eep_pdi, lost, call, eectl>>
      /\ ~Handing /\ call.fn # "none"
      /\ Restore("walk") \/ Restore("idle")
  BY DEF Find, Handing, Handovers, Types
<1> QED BY <1>1, RestoreKeeps

LEMMA FoundKeeps == Inv /\ Found => Inv'
<1> SUFFICES ASSUME Inv, Found PROVE Inv'
  OBVIOUS
<1>1. /\ pc = "walk" /\ UNCHANGED <<owner, eep_pdi, lost, call, eectl>>
      /\ ~Handing /\ call.fn # "none"
      /\ \/ call.fn = "getbyte" /\ pc' = "idle" /\ UNCHANGED <<return, back>>
         \/ Restore("idle")
  BY DEF Found, Handing, Handovers, Types
<1>2. CASE Restore("idle") BY <1>1, <1>2, RestoreKeeps
<1>3. CASE call.fn = "getbyte" /\ pc' = "idle" /\ UNCHANGED <<return, back>>
  <2>1. Types' BY <1>1, <1>3 DEF Types
  <2>2. ~Handing' /\ ~Restores BY <1>3 DEF Handing, Handovers, Restores, Walkers, Finders
  <2> QED BY <1>1, <1>3, <2>1, <2>2, Between
<1> QED BY <1>1, <1>2, <1>3

LEMMA CallKeeps == Inv /\ Call => Inv'
<1> SUFFICES ASSUME Inv, Call PROVE Inv'
  OBVIOUS
<1>1. PICK c \in Calls : call' = c /\ eectl' = eep_pdi[c.slave] BY DEF Call
<1>2. /\ pc = "idle" /\ pc' = "start" /\ back' = "idle" /\ UNCHANGED <<owner, eep_pdi, lost>>
  BY DEF Call
<1>3. c.slave \in Slaves /\ c.fn # "none" BY CallAssumption
<1>4. Types' BY <1>1, <1>2, <1>3 DEF Types
<1>5. Handover' BY <1>2 DEF Handover
<1>6. ~Handing /\ ~InAccess' /\ ~Giving' BY <1>2 DEF Handing, Handovers, InAccess, Giving
<1>7. Known' BY <1>2, <1>6 DEF Known
<1>8. Kept' BY <1>1, <1>2, <1>6 DEF Kept
<1> QED BY <1>4, <1>5, <1>7, <1>8

LEMMA StartKeeps == Inv /\ Start => Inv'
<1> SUFFICES ASSUME Inv, Start PROVE Inv'
  OBVIOUS
<1>1. /\ pc = "start" /\ UNCHANGED <<owner, eep_pdi, lost, call, eectl>>
      /\ ~Handing /\ call.fn # "none"
  BY DEF Start, Handing, Handovers, Types
<1>2. CASE pc' = "walk" /\ UNCHANGED <<return, back>>
  <2>1. Types' BY <1>1, <1>2 DEF Types
  <2>2. ~Handing' /\ ~InAccess' BY <1>2 DEF Handing, Handovers, InAccess
  <2> QED BY <1>1, <1>2, <2>1, <2>2, Between
<1>3. CASE /\ eeprom2master("status") /\ back' \in {"idle", "returned", "dumped"}
           /\ Restores => back' = "dumped"
  BY <1>1, <1>3, ToMaster
<1>4. CASE ~Restores /\ eeprom2master("idle") /\ UNCHANGED back
  <2>1. back' = "idle" BY <1>1, <1>4 DEF Types
  <2> QED BY <1>1, <1>4, <2>1, ToMaster
<1>5. CASE /\ ~Restores /\ back' \in {"idle", "returned"} /\ pc' = "wait"
           /\ return' \in {"status", "fetch"}
  <2>1. Types' BY <1>1, <1>5 DEF Types
  <2>2. ~Handing' BY <1>5 DEF Handing, Handovers
  <2> QED BY <1>1, <1>5, <2>1, <2>2, Between
<1>6. CASE ~Restores /\ eeprom2pdi("idle") BY <1>1, <1>6, ToPDI
<1>7. call.fn \in {"read", "write", "read1", "readAP", "writeAP", "read2", "2master", "2pdi"}
        => ~Restores
  BY DEF Restores, Walkers, Finders
<1>8. \/ pc' = "walk" /\ UNCHANGED <<return, back>>
      \/ /\ call.fn \in {"read", "write", "read1"} /\ back' \in {"idle", "returned"}
         /\ eeprom2master("status")
      \/ /\ call.fn \in {"readAP", "writeAP"} /\ back' \in {"idle", "returned"} /\ Wait("status")
      \/ call.fn = "read2" /\ back' = "returned" /\ Wait("fetch")
      \/ call.fn = "dump" /\ back' = "dumped" /\ eeprom2master("status")
      \/ call.fn = "2master" /\ eeprom2master("idle") /\ UNCHANGED back
      \/ call.fn = "2pdi" /\ eeprom2pdi("idle")
  BY DEF Start
<1> QED BY <1>2, <1>3, <1>4, <1>5, <1>6, <1>7, <1>8 DEF Wait

LEMMA Initial == Init => Inv
<1> SUFFICES ASSUME Init PROVE Inv
  OBVIOUS
<1>1. /\ pc = "idle" /\ call.fn = "none" /\ ~eectl /\ back = "idle" /\ eectl \in BOOLEAN
  BY DEF Init
<1>2. PICK pdi \in BOOLEAN : /\ eep_pdi = [s \in Slaves |-> pdi]
                             /\ owner = [s \in Slaves |-> IF pdi THEN "pdi" ELSE "master"]
  BY DEF Init
<1>3. Types BY <1>1, <1>2 DEF Types
<1>4. Handover BY <1>1 DEF Handover
<1>5. Known BY <1>2 DEF Known
<1>6. Kept BY <1>1 DEF Kept, Restores, Walkers, Finders
<1> QED BY <1>3, <1>4, <1>5, <1>6

LEMMA Inductive == Inv /\ [Next]_vars => Inv'
<1> SUFFICES ASSUME Inv, [Next]_vars PROVE Inv'
  OBVIOUS
<1>1. CASE master
  BY <1>1, StartKeeps, AnsweredKeeps, NotAnsweredKeeps, WaitKeeps, ForcedKeeps, TakenKeeps,
     GivenKeeps, StatusKeeps, CommandKeeps, CommandedKeeps, ExecutedKeeps, FetchKeeps,
     ReturnedKeeps, DumpedKeeps, MissKeeps, FillKeeps, FindKeeps, FoundKeeps DEF master
<1>2. CASE Call BY <1>2, CallKeeps
<1>3. CASE (\E s \in Slaves : Complete(s) \/ Leave(s)) \/ UNCHANGED vars BY <1>3, SlavesKeep
<1> QED BY <1>1, <1>2, <1>3 DEF Next

\* What the master has recorded of the control of a slave's EEPROM is true between
\* calls, unless the write that handed it over failed, and a walker and the dump
\* leave the control as they found it, whatever is lost or refused in between.
THEOREM ControlIsTrue == Spec => []ControlTrue
<1>1. Inv => ControlTrue
  <2> SUFFICES ASSUME Inv, pc = "idle"
               PROVE  /\ \A s \in Slaves \ lost : eep_pdi[s] <=> owner[s] = "pdi"
                      /\ Restores => eep_pdi[Slave] = eectl
    BY DEF ControlTrue, Restores
  <2>1. ~Handing BY DEF Handing, Handovers
  <2>2. Restores => (eep_pdi[Slave] <=> eectl) BY DEF Kept
  <2>3. Restores => eep_pdi[Slave] \in BOOLEAN /\ eectl \in BOOLEAN
    BY DEF Types, Restores, Walkers, Finders
  <2>4. Restores => eep_pdi[Slave] = eectl BY <2>2, <2>3
  <2> QED BY <2>1, <2>4 DEF Known
<1> QED BY <1>1, Initial, Inductive, PTL DEF Spec

-----------------------------------------------------------------------------
(***************************************************************************)
(* The invariant of an access: what the slave, the registers and the call  *)
(* hold at each place of it.                                               *)
(***************************************************************************)
\* What a register or a byte of an EEPROM may hold.
Octets ==
  (0 .. 255) \cup UNION {{Image[s][i] : i \in DOMAIN Image[s]} : s \in Slaves}

AP == {"readAP", "writeAP"}
Getters == Walkers \cup {"getbyte"}

\* In the exchange or the wait that returns to a place, or at that place.
To(place) == pc = "exchange" /\ return = place
For(place) == pc = "wait" /\ return = place
Near(place) == pc = place \/ To(place) \/ For(place)

\* The control is being taken; an access is under way; it has just ended.
Taking == Near("forced") \/ Near("taken")
Inner ==
  \/ pc \in {"wait", "status", "command", "data sent", "commanded", "executed", "fetch"}
  \/ pc = "exchange" /\ return \notin Handovers
Ended == pc \in {"returned", "dumped", "fill"}

\* The types: of what the slaves hold, and of what the master does.
Registers ==
  /\ rom = [s \in Slaves |-> rom[s]] /\ busy = [s \in Slaves |-> busy[s]]
  /\ data = [s \in Slaves |-> data[s]] /\ asked = [s \in Slaves |-> asked[s]]
  /\ \A s \in Slaves : /\ rom[s] \in [DOMAIN Image[s] -> Octets]
                       /\ data[s] \in Seq(Octets) /\ Len(data[s]) = Width(s)
  /\ nack \in [Slaves -> BOOLEAN] /\ here \in [Slaves -> BOOLEAN]

Locals ==
  /\ edat \in Seq(Octets) /\ slipped \in BOOLEAN
  /\ seen \in {"ready", "nack", "busy", "nothing"}
  /\ call.fn # "none" => call \in Calls
  /\ word \in Nat /\ nackcnt \in 0 .. 3 /\ sent \in Nat /\ faults \in Nat /\ wkc \in Int
  /\ call.fn = "dump" => value \in Seq(Octets)

\* Which calls come to a place, and where an access returns to.
Places ==
  /\ Inner \/ (Taking /\ call.fn # "2master") =>
       \/ call.fn \in {"read", "readAP", "read2"} /\ back = "returned"
       \/ call.fn \in {"write", "writeAP", "read1"} /\ back = "idle"
       \/ call.fn = "dump" /\ back = "dumped"
       \/ call.fn \in Getters /\ back = "fill" /\ esislave = Slave
  /\ pc = "walk" => call.fn \in Getters
  /\ pc \notin {"idle", "start"} /\ call.fn = "getbyte" => phase = "body"
  /\ Near("given") => /\ call.fn \in Walkers \cup {"dump", "2pdi"} /\ back \in {"idle", "walk"}
                      /\ back = "walk" => call.fn \in Walkers
  /\ pc = "returned" => call.fn \in {"read", "readAP", "read2"}
  /\ pc = "dumped" => call.fn = "dump" /\ back = "dumped" /\ ~eep_pdi[Slave]
  /\ pc = "fill" => call.fn \in Getters /\ esislave = Slave
  /\ Near("command") \/ Near("data sent") \/ Near("commanded") \/ Near("executed") \/ Near("status")
     \/ Taking => call.fn # "read2"
  /\ For("fetch") => call.fn = "read2"
  /\ Near("fetch") => call.fn \notin Writes /\ nackcnt = 0
  /\ pc = "start" => value = <<>> /\ (eectl <=> eep_pdi[Slave])
  /\ pc \notin {"idle", "start"} /\ call.fn \in {"read", "readAP", "read1"} \cup Writes =>
       word = call.arg
  /\ Inner => call.fn \in AP \cup {"read2"} \/ ~eep_pdi[Slave]
  /\ Taking /\ call.fn = "dump" => value = <<>> /\ word = ECT_SII_START

Cmd == <<IF call.fn \in Writes THEN "write" ELSE "read", word>>

\* What an exchange sends; it ends without an answer only if the access has slipped.
Frames ==
  /\ pc = "exchange" /\ return \notin Handovers =>
       \/ return = "command" /\ frame = <<"nop", 0>>
       \/ return = "data sent" /\ frame = <<"EEPDAT", call.data>> /\ call.fn \in Writes
       \/ return = "commanded" /\ frame = Cmd
       \/ /\ return = back /\ call.fn \notin Writes
          /\ \E n \in {4, Width(Slave)} :
               /\ frame = <<"data", n>>
               /\ call.fn # "read2" /\ ~slipped => n = Width(Slave)
               /\ call.fn = "read2" => n = 4
  /\ pc = "data sent" => call.fn \in Writes
  /\ pc \in {"forced", "taken", "given", "commanded"} /\ ~slipped => wkc = 1
  /\ pc \in {"status", "executed", "fetch"} /\ ~slipped => seen \in {"ready", "nack"}

\* An access none of whose exchanges failed, of an EEPROM the master controls.
Trusted == Clean /\ Controlled /\ call.fn # "read2"

Idle == busy[Slave] = <<>>
Loaded == call.fn \in Writes => data[Slave][1] = call.data[1] /\ data[Slave][2] = call.data[2]
\* The command has been executed: the word is written, or its data are there.
Done ==
  IF call.fn \in Writes THEN Bytes(Slave, word, 2) = call.data
                        ELSE data[Slave] = Bytes(Slave, word, Width(Slave))
HasRead == edat = Bytes(Slave, word, Width(Slave))

\* What the registers hold at each place: ecx_eeprom_waitnotbusyFP returned at
\* an idle EEPROM; the data are there before the write is commanded; a command
\* that no longer runs was refused or has been executed; and what is fetched
\* is the word the command was for.
Protocol ==
  Trusted =>
    /\ pc = "status" \/ Near("command") \/ To("data sent") => Idle
    /\ pc = "data sent" => Idle /\ Loaded
    /\ To("commanded") => Loaded /\ (Idle \/ busy[Slave] = Cmd)
    /\ pc = "commanded" \/ For("executed") =>
         Loaded /\ (busy[Slave] = Cmd \/ (Idle /\ (nack[Slave] \/ Done)))
    /\ pc = "executed" => Idle /\ (seen = "nack" \/ Done)
    /\ pc = "fetch" \/ To(back) => Idle /\ Done
    /\ Ended => Idle /\ HasRead

ReadRight == value = Bytes(Slave, call.arg, 4)
WriteRight == value = <<1>> /\ Bytes(Slave, call.arg, 2) = call.data
DumpRight == value = Bytes(Slave, ECT_SII_START, Len(value))

\* What a call that has ended leaves.
Results ==
  Trusted /\ pc = "idle" =>
    /\ call.fn \in {"read", "readAP"} => Idle /\ ReadRight
    /\ call.fn \in Writes => Idle /\ WriteRight

\* What the dump has read so far is what the EEPROM holds, and the next word
\* is the one after it.
Dumping ==
  call.fn = "dump" =>
    /\ (Inner \/ Ended \/ Near("taken") \/ Near("given")) /\ eectl /\ ~slipped => Slave \notin lost
    /\ Clean /\ pc # "start" =>
         /\ DumpRight
         /\ value # <<>> => Idle \/ busy[Slave] = Cmd
         /\ Near("given") \/ pc = "idle" => Idle
         /\ Inner \/ Ended => 2 * word = 2 * ECT_SII_START + Len(value)

\* A read in two steps: ecx_readeeprom1 leaves its command with the slave, and
\* ecx_readeeprom2 fetches what it read.
Asked ==
  \A s \in Slaves : asked[s] # <<>> =>
    \/ busy[s] = <<"read", asked[s][1]>>
    \/ busy[s] = <<>> /\ data[s] = Bytes(s, asked[s][1], Width(s))

AskedRead == asked[Slave] # <<>> => edat = Bytes(Slave, asked[Slave][1], 4)
AskedRight == asked[Slave] # <<>> => value = Bytes(Slave, asked[Slave][1], 4)

Delivered ==
  call.fn = "read2" /\ ~slipped =>
    /\ pc = "fetch" \/ To(back) \/ pc \in {"returned", "idle"} => Idle
    /\ pc = "returned" => AskedRead
    /\ pc = "idle" => AskedRight

\* The commands sent to a slave that answers: one, and one for every refusal
\* the loop of do ... while (nackcnt > 0 && nackcnt < 3) has counted.
Counted ==
  /\ sent <= 3 + faults
  /\ pc = "start" \/ Taking \/ For("status") => sent = 0 /\ nackcnt = 0
  /\ pc = "status" \/ Near("command") \/ Near("data sent") \/ Near("commanded") \/ Near("executed")
       => nackcnt <= 2
  /\ call.fn # "none" /\ here[Slave] =>
       /\ pc = "status" \/ Near("command") \/ Near("data sent") => sent <= nackcnt + faults
       /\ Near("commanded") \/ Near("executed") => sent <= nackcnt + 1 + faults
       /\ pc = "executed" /\ seen = "busy" => sent <= nackcnt + faults
       /\ pc = "commanded" => wkc # 0

\* The cache is that of a slave.
Buffered == CacheTrue /\ (esislave \in Slaves \/ esimap = {})

Access == /\ Registers /\ Locals /\ Places /\ Frames /\ Protocol /\ Results /\ Dumping
          /\ Asked /\ Delivered /\ Counted /\ Buffered

USE DEF To, For, Near, Handovers, AP, Writes
HIDE DEF Inv

-----------------------------------------------------------------------------
(***************************************************************************)
(* What the steps rely on.                                                 *)
(***************************************************************************)
\* What a step keeps that changes no EEPROM.
LEMMA Quiet ==
  ASSUME Registers, Asked, UNCHANGED <<eeproms, asked>>
  PROVE  Registers' /\ Asked'
<1>1. Registers' BY DEF Registers
<1>2. Asked' BY DEF Asked, Bytes, Byte
<1> QED BY <1>1, <1>2

\* A step keeps what it says of the registers it does not touch.
LEMMA SameAt ==
  ASSUME UNCHANGED call, rom'[Slave] = rom[Slave], busy'[Slave] = busy[Slave],
         data'[Slave] = data[Slave]
  PROVE  /\ Idle' <=> Idle
         /\ Loaded' <=> Loaded
         /\ UNCHANGED word => (Done' <=> Done) /\ Cmd' = Cmd
         /\ UNCHANGED <<word, edat>> => (HasRead' <=> HasRead)
         /\ UNCHANGED value => (ReadRight' <=> ReadRight) /\ (WriteRight' <=> WriteRight)
                               /\ (DumpRight' <=> DumpRight)
         /\ asked'[Slave] = asked[Slave] /\ UNCHANGED edat => (AskedRead' <=> AskedRead)
         /\ asked'[Slave] = asked[Slave] /\ UNCHANGED value => (AskedRight' <=> AskedRight)
<1> USE DEF Bytes, Byte
<1>1. Idle' <=> Idle BY DEF Idle
<1>2. Loaded' <=> Loaded BY DEF Loaded
<1>3. UNCHANGED word => (Done' <=> Done) /\ Cmd' = Cmd BY DEF Done, Cmd
<1>4. UNCHANGED <<word, edat>> => (HasRead' <=> HasRead) BY DEF HasRead
<1>5. UNCHANGED value => (ReadRight' <=> ReadRight) /\ (WriteRight' <=> WriteRight)
                          /\ (DumpRight' <=> DumpRight)
  BY DEF ReadRight, WriteRight, DumpRight
<1>6. asked'[Slave] = asked[Slave] /\ UNCHANGED edat => (AskedRead' <=> AskedRead)
  BY DEF AskedRead
<1>7. asked'[Slave] = asked[Slave] /\ UNCHANGED value => (AskedRight' <=> AskedRight)
  BY DEF AskedRight
<1> QED BY <1>1, <1>2, <1>3, <1>4, <1>5, <1>6, <1>7

LEMMA Same ==
  ASSUME UNCHANGED <<rom, busy, data, call>>
  PROVE  /\ Idle' <=> Idle
         /\ Loaded' <=> Loaded
         /\ UNCHANGED word => (Done' <=> Done) /\ Cmd' = Cmd
         /\ UNCHANGED <<word, edat>> => (HasRead' <=> HasRead)
         /\ UNCHANGED value => (ReadRight' <=> ReadRight) /\ (WriteRight' <=> WriteRight)
                               /\ (DumpRight' <=> DumpRight)
         /\ UNCHANGED <<asked, edat>> => (AskedRead' <=> AskedRead)
         /\ UNCHANGED <<asked, value>> => (AskedRight' <=> AskedRight)
BY SameAt

LEMMA SameCache == ASSUME Buffered, UNCHANGED <<rom, cache>> PROVE Buffered'
BY DEF Buffered, CacheTrue, esimap, Byte

\* The bytes of a word that is not as long as what is copied of it.
LEMMA PaddedBytes ==
  ASSUME edat \in Seq(Octets), NEW s, NEW w, NEW n \in Nat, NEW k \in Nat,
         edat = Bytes(s, w, n)
  PROVE  /\ \A i \in 1 .. k : i <= n => Padded(k)[i] = Byte(s, 2 * w + i - 1)
         /\ k <= n => Padded(k) = Bytes(s, w, k)
<1>1. DOMAIN edat = 1 .. n BY DEF Bytes
<1>2. Len(edat) = n BY <1>1, LenProperties
<1>3. \A i \in 1 .. k : i <= n => Padded(k)[i] = Byte(s, 2 * w + i - 1)
  <2> TAKE i \in 1 .. k
  <2> HAVE i <= n
  <2>1. Padded(k)[i] = edat[i] BY <1>2 DEF Padded
  <2>2. edat[i] = Byte(s, 2 * w + i - 1) BY DEF Bytes
  <2> QED BY <2>1, <2>2
<1>4. ASSUME k <= n PROVE Padded(k) = Bytes(s, w, k)
  <2>1. Padded(k) = [i \in 1 .. k |-> Padded(k)[i]] BY DEF Padded
  <2>2. \A i \in 1 .. k : Padded(k)[i] = Byte(s, 2 * w + i - 1) BY <1>3, <1>4
  <2> QED BY <2>1, <2>2 DEF Bytes
<1> QED BY <1>3, <1>4

LEMMA PaddedByte ==
  ASSUME edat \in Seq(Octets), NEW s, NEW w \in Nat, NEW n \in Nat, edat = Bytes(s, w, n),
         NEW k \in 1 .. 8, k <= n
  PROVE  Padded(8)[k] = Byte(s, 2 * w + k - 1)
<1>1. DOMAIN edat = 1 .. n BY DEF Bytes
<1>2. Len(edat) = n BY <1>1, LenProperties
<1>3. Padded(8)[k] = edat[k] BY <1>2 DEF Padded
<1>4. k \in 1 .. n OBVIOUS
<1>5. edat[k] = Byte(s, 2 * w + k - 1) BY <1>4 DEF Bytes
<1> QED BY <1>3, <1>5

\* The addresses of the two bytes of a word.
LEMMA Halves ==
  \A w \in Nat : /\ (2 * w) \div 2 = w /\ (2 * w) % 2 = 0
                 /\ (2 * w + 1) \div 2 = w /\ (2 * w + 1) % 2 = 1
OBVIOUS

LEMMA IsSequence ==
  ASSUME NEW S, NEW n \in Nat, NEW f \in [1 .. n -> S] PROVE f \in Seq(S) /\ Len(f) = n
BY SeqDef, LenProperties

\* Sequences of bytes.
LEMMA BytesType ==
  ASSUME NEW s, rom[s] \in [DOMAIN Image[s] -> Octets], NEW w, NEW n \in Nat
  PROVE  Bytes(s, w, n) \in Seq(Octets) /\ Len(Bytes(s, w, n)) = n
<1>1. \A i : Byte(s, i) \in Octets BY DEF Byte, Octets
<1>2. Bytes(s, w, n) \in [1 .. n -> Octets] BY <1>1 DEF Bytes
<1> QED BY <1>2, SeqDef, LenProperties

LEMMA WidthIs == \A s : Width(s) \in {4, 8}
BY DEF Width

LEMMA EmptyBytes == \A s, w : Len(<<>>) = 0 /\ <<>> = Bytes(s, w, Len(<<>>))
<1> TAKE s, w
<1>1. Len(<<>>) = 0 OBVIOUS
<1>2. Bytes(s, w, 0) = <<>>
  <2>1. Bytes(s, w, 0) = [i \in 1 .. 0 |-> Byte(s, 2 * w + i - 1)] BY DEF Bytes
  <2>2. 1 .. 0 = {} OBVIOUS
  <2>3. [i \in 1 .. 0 |-> Byte(s, 2 * w + i - 1)] \in Seq({})
        /\ Len([i \in 1 .. 0 |-> Byte(s, 2 * w + i - 1)]) = 0
    BY <2>2
  <2> QED BY <2>1, <2>3
<1> QED BY <1>1, <1>2

\* The same of the next state.
LEMMA EmptyBytesNext == \A s, w : Len(<<>>) = 0 /\ (<<>> = Bytes(s, w, Len(<<>>)))'
<1> TAKE s, w
<1>1. Len(<<>>) = 0 OBVIOUS
<1>2. Bytes(s, w, 0)' = <<>>
  <2>1. Bytes(s, w, 0)' = [i \in 1 .. 0 |-> Byte(s, 2 * w + i - 1)'] BY DEF Bytes
  <2>2. 1 .. 0 = {} OBVIOUS
  <2>3. [i \in 1 .. 0 |-> Byte(s, 2 * w + i - 1)'] \in Seq({})
        /\ Len([i \in 1 .. 0 |-> Byte(s, 2 * w + i - 1)']) = 0
    BY <2>2
  <2> QED BY <2>1, <2>3
<1> QED BY <1>1, <1>2

LEMMA PaddedType ==
  ASSUME edat \in Seq(Octets), NEW k \in Nat
  PROVE  Padded(k) \in Seq(Octets) /\ Len(Padded(k)) = k
<1>1. \A i \in 1 .. k : (IF i <= Len(edat) THEN edat[i] ELSE 0) \in Octets
  <2> TAKE i \in 1 .. k
  <2>1. CASE i <= Len(edat) BY <2>1, ElementOfSeq
  <2>2. CASE ~(i <= Len(edat)) BY <2>2 DEF Octets
  <2> QED BY <2>1, <2>2
<1>2. Padded(k) \in [1 .. k -> Octets] BY <1>1 DEF Padded
<1> QED BY <1>2, SeqDef, LenProperties

\* A read of another slave clears the cache (ecx_siigetbyte).
LEMMA SwitchKeeps ==
  ASSUME Buffered, Switch, UNCHANGED <<rom, call>>, Slave \in Slaves PROVE Buffered'
<1>1. CASE Slave = esislave BY <1>1 DEF Switch, Buf, Buffered, CacheTrue, esimap, Byte
<1>2. CASE Slave # esislave
  <2>1. esibuf' = <<>> BY <1>2 DEF Switch, Buf
  <2>2. DOMAIN <<>> = {} OBVIOUS
  <2> QED BY <2>1, <2>2 DEF Buffered, CacheTrue, esimap
<1> QED BY <1>1, <1>2

\* Where the calls that begin an access, or end one, go to.
LEMMA ToMasterPlace ==
  ASSUME eeprom2master("status")
  PROVE  \/ pc' = "exchange" /\ return' = "forced" /\ frame' = <<"EEPCFG", 2>> /\ eep_pdi[Slave]
         \/ pc' = "wait" /\ return' = "status" /\ ~eep_pdi[Slave]
BY DEF eeprom2master, Send, Wait

LEMMA RestorePlace ==
  ASSUME NEW place, Restore(place)
  PROVE  \/ pc' = place /\ back' = back
         \/ pc' = "exchange" /\ return' = "given" /\ back' = place /\ eectl
BY DEF Restore, eeprom2pdi, Send

LEMMA StartPlace ==
  ASSUME Start
  PROVE  \/ /\ pc' = "walk" /\ call.fn \in Getters /\ UNCHANGED <<return, back, word>>
            /\ (call.fn = "getbyte" => phase' = "body")
         \/ /\ call.fn \in {"read", "write", "read1", "dump"} /\ eeprom2master("status")
            /\ call.fn = "read" => back' = "returned" /\ word' = call.arg
            /\ call.fn = "dump" => back' = "dumped" /\ word' = ECT_SII_START
            /\ call.fn \in {"write", "read1"} => back' = "idle" /\ word' = call.arg
         \/ /\ call.fn \in AP /\ pc' = "wait" /\ return' = "status" /\ word' = call.arg
            /\ back' = IF call.fn = "readAP" THEN "returned" ELSE "idle"
         \/ /\ call.fn = "read2" /\ back' = "returned" /\ pc' = "wait" /\ return' = "fetch"
            /\ UNCHANGED word
         \/ call.fn = "2master" /\ eeprom2master("idle") /\ UNCHANGED <<back, word>>
         \/ call.fn = "2pdi" /\ eeprom2pdi("idle") /\ UNCHANGED word
<1> USE DEF Start, Wait, Getters
<1>1. call.fn \in Walkers \cup {"getbyte"} \/ call.fn \in {"read", "write", "read1"}
      \/ call.fn \in AP \/ call.fn \in {"read2", "dump", "2master", "2pdi"}
  OBVIOUS
<1>2. CASE call.fn \in Walkers \cup {"getbyte"} BY <1>2 DEF Walkers, Finders
<1>3. CASE call.fn \in {"read", "write", "read1"} BY <1>3 DEF Walkers, Finders
<1>4. CASE call.fn \in AP BY <1>4 DEF Walkers, Finders
<1>5. CASE call.fn \in {"read2", "dump", "2master", "2pdi"} BY <1>5 DEF Walkers, Finders
<1> QED BY <1>1, <1>2, <1>3, <1>4, <1>5

\* ecx_esidump fills the cache with the word the access has read; where an
\* exchange of it failed the bytes are counted as spoilt.
LEMMA FillTrue ==
  ASSUME Inv, Access, Fill PROVE Buffered'
<1>1. /\ pc = "fill" /\ call.fn \in Getters /\ esislave = Slave /\ CacheTrue
      /\ word \in Nat /\ edat \in Seq(Octets) /\ UNCHANGED <<rom, esislave>>
  BY DEF Access, Buffered, Places, Fill, Locals
<1>2. Clean => HasRead
  BY <1>1 DEF Access, Protocol, Trusted, Controlled, Ended, Getters, Walkers, Finders
<1>3. PICK n \in {4, 8} : n = Width(Slave) BY WidthIs
<1>4. DOMAIN esibuf' = Filled \cup esimap BY DEF Fill
<1>5. \A i \in Filled : esibuf'[i] = Padded(8)[i - 2 * word + 1] BY DEF Fill
<1>6. \A i \in esimap \ Filled : esibuf'[i] = esibuf[i] BY DEF Fill
<1>7. esislave' \in Slaves BY <1>1 DEF Inv, Types
<1> SUFFICES ASSUME NEW i \in (Filled \cup esimap) \ spoilt' PROVE esibuf'[i] = Byte(esislave, i)
  BY <1>1, <1>4, <1>7 DEF Buffered, CacheTrue, esimap, Byte
<1>8. CASE i \in Filled
  <2>1. Clean BY <1>8 DEF Fill, Clean
  <2>2. i \in 2 * word .. 2 * word + n - 1 BY <1>3, <1>8 DEF Filled
  <2>3. i - 2 * word + 1 \in 1 .. 8 /\ i - 2 * word + 1 <= n BY <1>1, <2>2
  <2>4. Padded(8)[i - 2 * word + 1] = Byte(Slave, 2 * word + (i - 2 * word + 1) - 1)
    <3>1. edat = Bytes(Slave, word, n) BY <1>2, <1>3, <2>1 DEF HasRead
    <3>2. n \in Nat /\ word \in Nat /\ edat \in Seq(Octets) BY <1>1, <1>3
    <3> QED BY <2>3, <3>1, <3>2, PaddedByte
  <2>5. 2 * word + (i - 2 * word + 1) - 1 = i BY <1>1, <2>2
  <2> QED BY <1>1, <1>5, <1>8, <2>4, <2>5
<1>9. CASE i \notin Filled
  <2>1. i \in esimap \ spoilt BY <1>9 DEF Fill
  <2> QED BY <1>1, <1>6, <1>9, <2>1 DEF CacheTrue
<1> QED BY <1>8, <1>9

LEMMA ImageDomain == \A s \in Slaves : DOMAIN Image[s] \subseteq Nat
BY DEF Image, Encode

LEMMA SamePlaces ==
  ASSUME Places, UNCHANGED <<pc, return, call, back, esislave, phase, eep_pdi, nackcnt, value,
                             eectl, word>>
  PROVE  Places'
<1>1. (Inner' <=> Inner) /\ (Taking' <=> Taking) BY DEF Inner, Taking
<1>2. /\ pc' = pc /\ return' = return /\ call' = call /\ back' = back /\ esislave' = esislave
      /\ phase' = phase /\ eep_pdi' = eep_pdi /\ nackcnt' = nackcnt /\ value' = value
      /\ eectl' = eectl /\ word' = word
  OBVIOUS
<1>3. (eectl <=> eep_pdi[Slave])' <=> (eectl <=> eep_pdi[Slave]) BY <1>2
<1> QED BY <1>1, <1>2, <1>3, ZenonT(120) DEF Places, Getters, Walkers, Finders

-----------------------------------------------------------------------------
(***************************************************************************)
(* The steps of an access, one lemma for each.                             *)
(***************************************************************************)
LEMMA StatusAccess ==
  ASSUME Inv, Inv', Access, Status PROVE Access'
<1>1. /\ Registers /\ Locals /\ Places /\ Frames /\ Types /\ Types' /\ Protocol
      /\ Results /\ Dumping /\ Asked /\ Delivered /\ Counted /\ Buffered
  BY DEF Access, Inv
<1>2. Registers' /\ Asked' BY <1>1, Quiet DEF Status, Rest
<1>3. UNCHANGED <<rom, busy, data, nack, call, here, asked>> BY DEF Status, Rest
<1>4. /\ (Idle' <=> Idle) /\ (Loaded' <=> Loaded)
      /\ UNCHANGED <<word, edat, value>>
      /\ (Done' <=> Done) /\ Cmd' = Cmd
      /\ (HasRead' <=> HasRead)
      /\ (ReadRight' <=> ReadRight) /\ (WriteRight' <=> WriteRight)
      /\ (DumpRight' <=> DumpRight) /\ (AskedRight' <=> AskedRight)
      /\ (AskedRead' <=> AskedRead)
  BY <1>3, Same DEF Status, Rest
<1>5. Locals'
  BY <1>1, <1>3, <1>4 DEF Status, Rest, Send, Types, Locals
<1>6. Places'
  BY <1>1, <1>3, <1>4, ZenonT(60) DEF Status, Rest, Send, Types, Places, Inner, Taking
<1>7. Frames'
  BY <1>1, <1>3, <1>4 DEF Status, Rest, Send, Types, Frames, Places, Inner, Cmd
<1>8. Protocol'
  BY <1>1, <1>3, <1>4 DEF Status, Rest, Send, Types, Protocol, Places, Frames, Ended, Trusted,
     Clean, Controlled, Counted, Locals
<1>9. Results'
  BY <1>1, <1>3, <1>4 DEF Status, Rest, Send, Types, Results, Places, Frames, Protocol, Trusted,
     Clean, Controlled, Ended, Inner, Counted
<1>10. Dumping'
  BY <1>1, <1>3, <1>4 DEF Status, Rest, Send, Types, Dumping, Places, Frames, Protocol, Trusted,
     Clean, Controlled, Inner, Ended, Taking, Giving
<1>11. Delivered'
  BY <1>1, <1>3, <1>4 DEF Status, Rest, Send, Types, Delivered, Places, Frames, Inner
<1>12. Counted'
  BY <1>1, <1>3, <1>4 DEF Status, Rest, Send, Types, Counted, Places, Frames, Inner, Taking, Locals
<1>13. Buffered' BY <1>1, SameCache DEF Status, Rest
<1> QED BY <1>2, <1>5, <1>6, <1>7, <1>8, <1>9, <1>10, <1>11, <1>12, <1>13 DEF Access

LEMMA CommandAccess ==
  ASSUME Inv, Inv', Access, Command PROVE Access'
<1>1. /\ Registers /\ Locals /\ Places /\ Frames /\ Types /\ Types' /\ Protocol
      /\ Results /\ Dumping /\ Asked /\ Delivered /\ Counted /\ Buffered
  BY DEF Access, Inv
<1>2. Registers' /\ Asked' BY <1>1, Quiet DEF Command, Rest
<1>3. UNCHANGED <<rom, busy, data, nack, call, here, asked>> BY DEF Command, Rest
<1>4. /\ (Idle' <=> Idle) /\ (Loaded' <=> Loaded)
      /\ UNCHANGED <<word, edat, value>>
      /\ (Done' <=> Done) /\ Cmd' = Cmd
      /\ (HasRead' <=> HasRead)
      /\ (ReadRight' <=> ReadRight) /\ (WriteRight' <=> WriteRight)
      /\ (DumpRight' <=> DumpRight) /\ (AskedRight' <=> AskedRight)
      /\ (AskedRead' <=> AskedRead)
  BY <1>3, Same DEF Command, Rest
<1>5. Locals'
  <2>1. sent' = sent \/ sent' = sent + 1 BY DEF Command
  <2>2. UNCHANGED <<edat, slipped, seen, call, nackcnt, word, faults, value, wkc>>
    BY DEF Command, Rest, Send
  <2> QED BY <1>1, <2>1, <2>2 DEF Locals
<1>6. Places'
  BY <1>1, <1>3, <1>4 DEF Command, Rest, Send, Types, Places, Inner, Taking
<1>7. Frames'
  BY <1>1, <1>3, <1>4 DEF Command, Rest, Send, Types, Frames, Places, Inner, Cmd
<1>8. Protocol'
  <2> SUFFICES ASSUME Trusted' PROVE Protocol' BY DEF Protocol
  <2>1. Trusted /\ Idle BY <1>1 DEF Command, Rest, Trusted, Clean, Controlled, Protocol
  <2>2. pc' = "exchange" /\ return' \in {"commanded", "data sent"} /\ back' = back
    BY DEF Command, Rest, Send
  <2>3. return' = "commanded" => Loaded
    BY <1>1, <2>1 DEF Command, Send, Protocol, Loaded
  <2> QED BY <1>1, <1>4, <2>1, <2>2, <2>3 DEF Protocol, Ended, Types
<1>9. Results'
  BY <1>1, <1>3, <1>4 DEF Command, Rest, Send, Types, Results, Places, Frames, Protocol, Trusted,
     Clean, Controlled, Ended, Inner, Counted
<1>10. Dumping'
  BY <1>1, <1>3, <1>4 DEF Command, Rest, Send, Types, Dumping, Places, Frames, Protocol, Trusted,
     Clean, Controlled, Inner, Ended, Taking, Giving
<1>11. Delivered'
  BY <1>1, <1>3, <1>4 DEF Command, Rest, Send, Types, Delivered, Places, Frames, Inner
<1>12. Counted'
  <2>1. nackcnt <= 2 /\ pc' = "exchange" /\ UNCHANGED <<here, call, nackcnt, faults>>
    BY <1>1 DEF Command, Rest, Send, Counted
  <2>2. \/ pc = "command" /\ call.fn \notin Writes /\ return' = "commanded"
        \/ pc = "command" /\ call.fn \in Writes /\ return' = "data sent"
        \/ pc = "data sent" /\ return' = "commanded"
    BY DEF Command, Send
  <2>3. sent' = IF here[Slave] /\ return' = "commanded" THEN sent + 1 ELSE sent BY DEF Command
  <2>4. here[Slave] => sent <= nackcnt + faults BY <1>1, <2>2 DEF Counted, Types
  <2>5. /\ sent' <= 3 + faults
        /\ here[Slave] /\ return' = "commanded" => sent' <= nackcnt + 1 + faults
        /\ here[Slave] /\ return' = "data sent" => sent' <= nackcnt + faults
    <3>1. sent <= 3 + faults BY <1>1 DEF Counted
    <3>2. sent \in Nat /\ faults \in Nat /\ nackcnt \in Nat BY <1>1 DEF Locals
    <3>3. CASE here[Slave] /\ return' = "commanded"
      <4>1. sent' = sent + 1 BY <2>3, <3>3
      <4> QED BY <2>1, <2>4, <3>2, <3>3, <4>1
    <3>4. CASE ~(here[Slave] /\ return' = "commanded")
      <4>1. sent' = sent BY <2>3, <3>4
      <4> QED BY <2>4, <3>1, <3>4, <4>1
    <3> QED BY <3>3, <3>4
  <2> QED BY <1>1, <2>1, <2>2, <2>5 DEF Counted, Taking
<1>13. Buffered' BY <1>1, SameCache DEF Command, Rest
<1> QED BY <1>2, <1>5, <1>6, <1>7, <1>8, <1>9, <1>10, <1>11, <1>12, <1>13 DEF Access

LEMMA CommandedAccess ==
  ASSUME Inv, Inv', Access, Commanded PROVE Access'
<1>1. /\ Registers /\ Locals /\ Places /\ Frames /\ Types /\ Types' /\ Protocol
      /\ Results /\ Dumping /\ Asked /\ Delivered /\ Counted /\ Buffered
  BY DEF Access, Inv
<1>2. Registers' /\ Asked' BY <1>1, Quiet DEF Commanded, Rest
<1>3. UNCHANGED <<rom, busy, data, nack, call, here, asked>> BY DEF Commanded, Rest
<1>4. /\ (Idle' <=> Idle) /\ (Loaded' <=> Loaded)
      /\ UNCHANGED <<word, edat, value>>
      /\ (Done' <=> Done) /\ Cmd' = Cmd
      /\ (HasRead' <=> HasRead)
      /\ (ReadRight' <=> ReadRight) /\ (WriteRight' <=> WriteRight)
      /\ (DumpRight' <=> DumpRight) /\ (AskedRight' <=> AskedRight)
      /\ (AskedRead' <=> AskedRead)
  BY <1>3, Same DEF Commanded, Rest
<1>5. Locals'
  BY <1>1, <1>3, <1>4 DEF Commanded, Rest, Wait, Again, Types, Locals
<1>6. Places'
  BY <1>1, <1>3, <1>4 DEF Commanded, Rest, Wait, Again, Types, Places, Inner, Taking
<1>7. Frames'
  BY <1>1, <1>3, <1>4 DEF Commanded, Rest, Wait, Again, Types, Frames, Places, Inner, Cmd
<1>8. Protocol'
  <2> SUFFICES ASSUME Trusted' PROVE Protocol' BY DEF Protocol
  <2>1. Trusted /\ back' = back BY DEF Commanded, Rest, Trusted, Clean, Controlled
  <2>2. wkc = 1 BY <1>1, <2>1 DEF Commanded, Frames, Trusted, Clean
  <2>3. \/ call.fn = "read1" /\ pc' = back
        \/ pc' = "wait" /\ return' = "executed"
    BY <2>2 DEF Commanded, Wait
  <2>4. Loaded /\ (busy[Slave] = Cmd \/ (Idle /\ (nack[Slave] \/ Done)))
    BY <1>1, <2>1 DEF Commanded, Protocol
  <2>5. CASE call.fn = "read1" /\ pc' = back
    <3>1. back = "idle" BY <1>1, <2>5 DEF Commanded, Places, Inner, Getters, Walkers, Finders
    <3> QED BY <2>1, <2>5, <3>1 DEF Protocol, Ended
  <2>6. CASE pc' = "wait" /\ return' = "executed"
    BY <1>3, <1>4, <2>1, <2>4, <2>6 DEF Protocol, Ended
  <2> QED BY <2>3, <2>5, <2>6
<1>9. Results'
  BY <1>1, <1>3, <1>4 DEF Commanded, Rest, Wait, Again, Types, Results, Places, Frames, Protocol,
     Trusted, Clean, Controlled, Ended, Inner, Counted
<1>10. Dumping'
  BY <1>1, <1>3, <1>4 DEF Commanded, Rest, Wait, Again, Types, Dumping, Places, Frames, Protocol,
     Trusted, Clean, Controlled, Inner, Ended, Taking, Giving
<1>11. Delivered'
  BY <1>1, <1>3, <1>4 DEF Commanded, Rest, Wait, Again, Types, Delivered, Places, Frames, Inner
<1>12. Counted'
  BY <1>1, <1>3, <1>4 DEF Commanded, Rest, Wait, Again, Types, Counted, Places, Frames, Inner,
     Taking, Locals
<1>13. Buffered' BY <1>1, SameCache DEF Commanded, Rest
<1> QED BY <1>2, <1>5, <1>6, <1>7, <1>8, <1>9, <1>10, <1>11, <1>12, <1>13 DEF Access

LEMMA ExecutedAccess ==
  ASSUME Inv, Inv', Access, Executed PROVE Access'
<1>1. /\ Registers /\ Locals /\ Places /\ Frames /\ Types /\ Types' /\ Protocol
      /\ Results /\ Dumping /\ Asked /\ Delivered /\ Counted /\ Buffered
  BY DEF Access, Inv
<1>2. Registers' /\ Asked' BY <1>1, Quiet DEF Executed, Rest
<1>3. UNCHANGED <<rom, busy, data, nack, call, here, asked>> BY DEF Executed, Rest
<1>4. /\ (Idle' <=> Idle) /\ (Loaded' <=> Loaded)
      /\ UNCHANGED <<word, edat>>
      /\ (Done' <=> Done) /\ Cmd' = Cmd
      /\ (HasRead' <=> HasRead)
      /\ (AskedRead' <=> AskedRead)
  BY <1>3, Same DEF Executed, Rest
<1>5. Locals'
  <2>1. nackcnt' \in 0 .. 3
    <3>1. nackcnt \in 0 .. 2 BY <1>1 DEF Executed, Counted, Locals
    <3>2. nackcnt' \in {nackcnt, nackcnt + 1, 0} BY DEF Executed, Acknowledged
    <3> QED BY <3>1, <3>2
  <2>2. slipped' \in BOOLEAN BY <1>1 DEF Executed, Locals
  <2>3. UNCHANGED <<edat, seen, call, word, sent, faults, wkc>> BY DEF Executed, Rest
  <2>4. call.fn = "dump" => UNCHANGED value BY DEF Executed
  <2> QED BY <1>1, <2>1, <2>2, <2>3, <2>4 DEF Locals
<1>6. Places'
  <2>1. pc = "executed" /\ Inner /\ call.fn # "read2" BY <1>1 DEF Executed, Inner, Places
  <2>2. /\ pc' \in {"command", "fetch", back} /\ (call.fn \in Writes => pc' # "fetch")
        /\ pc' = "fetch" => nackcnt' = 0
    <3>1. back # "fetch" BY <1>1 DEF Types
    <3> QED BY <3>1 DEF Executed, Again, Acknowledged
  <2>3. UNCHANGED <<return, call, back, esislave, phase, eep_pdi, eectl, word>>
    BY DEF Executed, Rest
  <2>4. call.fn = "dump" => UNCHANGED value BY DEF Executed
  <2>5. CASE pc' \in {"command", "fetch"}
    BY <1>1, <2>1, <2>2, <2>3, <2>4, <2>5 DEF Places, Inner, Taking
  <2>6. CASE pc' = back
    BY <1>1, <2>1, <2>3, <2>4, <2>6 DEF Places, Inner, Taking, Getters, Walkers, Finders
  <2> QED BY <2>2, <2>5, <2>6
<1>7. Frames'
  BY <1>1, <1>3, <1>4 DEF Executed, Rest, Again, Acknowledged, Types, Frames, Places, Inner, Cmd
<1>8. Protocol'
  <2> SUFFICES ASSUME Trusted' PROVE Protocol' BY DEF Protocol
  <2>1. Trusted /\ UNCHANGED <<back, seen>>
    BY <1>1 DEF Executed, Rest, Trusted, Clean, Controlled, Locals
  <2>2. Idle /\ (seen = "nack" \/ Done) /\ seen \in {"ready", "nack"}
    BY <1>1, <2>1 DEF Executed, Protocol, Frames, Trusted, Clean
  <2>3. CASE seen = "nack"
    <3>1. nackcnt' = nackcnt + 1 /\ nackcnt + 1 # 3 /\ nackcnt \in 0 .. 2
      <4>1. nackcnt \in 0 .. 2 BY <1>1 DEF Executed, Counted, Locals
      <4>2. nackcnt' = nackcnt + 1 /\ slipped' = (slipped \/ nackcnt + 1 = 3) BY <2>3 DEF Executed
      <4> QED BY <4>1, <4>2 DEF Trusted, Clean
    <3>2. pc' = "command" BY <2>3, <3>1 DEF Executed, Again
    <3> QED BY <1>4, <2>1, <2>2, <3>2 DEF Protocol, Ended
  <2>4. CASE seen = "ready"
    <3>1. pc' = IF call.fn \in Writes THEN back ELSE "fetch"
      BY <2>4 DEF Executed, Again, Acknowledged
    <3>2. call.fn \in Writes => back = "idle"
      BY <1>1 DEF Executed, Places, Inner, Getters, Walkers, Finders
    <3>3. pc' \in {"idle", "fetch"} BY <3>1, <3>2
    <3> QED BY <1>4, <2>1, <2>2, <2>4, <3>3 DEF Protocol, Ended
  <2> QED BY <2>2, <2>3, <2>4
<1>9. Results'
  <2> SUFFICES ASSUME Trusted', pc' = "idle" PROVE Results' BY DEF Results
  <2>1. Trusted BY <1>1 DEF Executed, Rest, Trusted, Clean, Controlled, Locals
  <2>2. Idle /\ (seen = "nack" \/ Done) /\ seen \in {"ready", "nack"}
    BY <1>1, <2>1 DEF Executed, Protocol, Frames, Trusted, Clean
  <2>3. pc' = back \/ call.fn \notin Writes BY DEF Executed, Again
  <2>4. call.fn \notin {"read", "readAP"}
    BY <1>1 DEF Executed, Again, Places, Inner, Types
  <2>5. call.fn \in Writes => seen = "ready"
    <3>1. CASE seen = "nack"
      <4>1. nackcnt \in 0 .. 2 BY <1>1 DEF Executed, Counted, Locals
      <4>2. slipped' = (slipped \/ nackcnt + 1 = 3) /\ pc' = Again(nackcnt + 1)
        BY <3>1 DEF Executed
      <4>3. nackcnt + 1 # 3 BY <4>2 DEF Trusted, Clean
      <4> QED BY <4>1, <4>2, <4>3 DEF Again
    <3> QED BY <2>2, <3>1
  <2>6. call.fn \in Writes => value' = <<1>> /\ Done /\ word = call.arg
    BY <1>1, <2>2, <2>5 DEF Executed, Places
  <2>7. call.fn \in Writes => WriteRight'
    BY <1>3, <1>4, <2>6 DEF Done, WriteRight, Bytes, Byte
  <2> QED BY <1>3, <1>4, <2>2, <2>4, <2>7 DEF Results
<1>10. Dumping'
  <2> SUFFICES ASSUME call.fn = "dump" PROVE Dumping' BY <1>3 DEF Dumping
  <2>1. /\ back = "dumped" /\ pc' \in {"command", "fetch", "dumped"}
        /\ UNCHANGED <<value, back, eectl, lost>> /\ (~slipped' => ~slipped)
    BY <1>1 DEF Executed, Rest, Again, Places, Inner, Getters, Walkers, Finders, Locals
  <2>2. DumpRight' <=> DumpRight BY <1>3, <2>1, Same
  <2> QED BY <1>1, <1>3, <1>4, <2>1, <2>2 DEF Executed, Dumping, Clean, Inner, Ended
<1>11. Delivered'
  BY <1>1, <1>3, <1>4 DEF Executed, Rest, Again, Acknowledged, Types, Delivered, Places, Frames,
     Inner
<1>12. Counted'
  <2>1. nackcnt \in 0 .. 2 /\ UNCHANGED <<here, call, faults, sent, return>>
    BY <1>1 DEF Executed, Rest, Counted, Locals
  <2>2. sent \in Nat /\ faults \in Nat BY <1>1 DEF Locals
  <2>3. here[Slave] => sent <= nackcnt + 1 + faults /\ (seen = "busy" => sent <= nackcnt + faults)
    BY <1>1 DEF Executed, Counted, Types
  <2>4. pc' \in {"command", "fetch", back}
    BY DEF Executed, Again
  <2>5. pc' = "command" => nackcnt' <= 2 /\ (here[Slave] => sent <= nackcnt' + faults)
    <3> SUFFICES ASSUME pc' = "command"
                 PROVE  nackcnt' <= 2 /\ (here[Slave] => sent <= nackcnt' + faults)
      OBVIOUS
    <3>1. back # "command" BY <1>1 DEF Types
    <3>2. CASE seen = "busy" BY <2>1, <2>3, <3>2 DEF Executed
    <3>3. CASE seen = "nack"
      <4>1. nackcnt' = nackcnt + 1 /\ nackcnt + 1 < 3 BY <3>1, <3>3 DEF Executed, Again
      <4> QED BY <2>1, <2>2, <2>3, <4>1
    <3>4. CASE seen \in {"ready", "nothing"} BY <3>1, <3>4 DEF Executed, Again, Acknowledged
    <3> QED BY <3>2, <3>3, <3>4 DEF Executed
  <2>6. sent' <= 3 + faults' BY <1>1, <2>1 DEF Counted
  <2> QED BY <1>1, <2>1, <2>4, <2>5, <2>6 DEF Counted, Types, Taking
<1>13. Buffered' BY <1>1, SameCache DEF Executed, Rest
<1> QED BY <1>2, <1>5, <1>6, <1>7, <1>8, <1>9, <1>10, <1>11, <1>12, <1>13 DEF Access

LEMMA FetchAccess ==
  ASSUME Inv, Inv', Access, Fetch PROVE Access'
<1>1. /\ Registers /\ Locals /\ Places /\ Frames /\ Types /\ Types' /\ Protocol
      /\ Results /\ Dumping /\ Asked /\ Delivered /\ Counted /\ Buffered
  BY DEF Access, Inv
<1>2. Registers' /\ Asked' BY <1>1, Quiet DEF Fetch, Rest
<1>3. UNCHANGED <<rom, busy, data, nack, call, here, asked>> BY DEF Fetch, Rest
<1>4. /\ (Idle' <=> Idle) /\ (Loaded' <=> Loaded)
      /\ UNCHANGED <<word, edat, value>>
      /\ (Done' <=> Done) /\ Cmd' = Cmd
      /\ (HasRead' <=> HasRead)
      /\ (ReadRight' <=> ReadRight) /\ (WriteRight' <=> WriteRight)
      /\ (DumpRight' <=> DumpRight) /\ (AskedRight' <=> AskedRight)
      /\ (AskedRead' <=> AskedRead)
  BY <1>3, Same DEF Fetch, Rest
<1>5. Locals'
  BY <1>1, <1>3, <1>4 DEF Fetch, Rest, Again, Send, Types, Locals
<1>6. Places'
  <2>1. /\ nackcnt = 0
        /\ UNCHANGED <<call, back, word, esislave, eep_pdi, eectl, nackcnt, value,
                     phase>>
    BY <1>1 DEF Fetch, Rest, Places
  <2>2. pc = "fetch" /\ (pc' = back \/ (pc' = "exchange" /\ return' = back))
    BY <2>1 DEF Fetch, Again, Send
  <2>3. Inner BY <2>2 DEF Inner
  <2>4. back \in {"idle", "returned", "dumped", "fill"}
    BY <1>1, <2>3 DEF Places
  <2> QED BY <1>1, <2>1, <2>2, <2>3, <2>4 DEF Places, Inner, Taking, Getters, Walkers, Finders
<1>7. Frames'
  <2>1. nackcnt = 0 /\ UNCHANGED <<call, back, word, seen, slipped>> BY <1>1 DEF Fetch, Rest, Places
  <2>2. pc = "fetch" /\ call.fn \notin Writes /\ back \in {"idle", "returned", "dumped", "fill"}
    BY <1>1 DEF Fetch, Places, Inner
  <2>3. CASE seen = "busy"
    <3>1. pc' = back BY <2>3 DEF Fetch
    <3> QED BY <2>2, <3>1 DEF Frames
  <2>4. CASE seen # "busy"
    <3>1. pc' = "exchange" /\ return' = back BY <2>1, <2>4 DEF Fetch, Again, Send
    <3>2. PICK n \in {4, Width(Slave)} :
            /\ frame' = <<"data", n>> /\ (call.fn # "read2" /\ seen # "nothing" => n = Width(Slave))
            /\ call.fn = "read2" => n = 4
      BY <2>4 DEF Fetch, Send
    <3>3. ~slipped => seen # "nothing" BY <1>1, <2>2 DEF Frames
    <3> QED BY <2>1, <2>2, <3>1, <3>2, <3>3 DEF Frames
  <2> QED BY <2>3, <2>4
<1>8. Protocol'
  BY <1>1, <1>3, <1>4 DEF Fetch, Rest, Again, Send, Types, Protocol, Places, Frames, Ended,
     Trusted, Clean, Controlled, Counted, Locals
<1>9. Results'
  BY <1>1, <1>3, <1>4 DEF Fetch, Rest, Again, Send, Types, Results, Places, Frames, Protocol,
     Trusted, Clean, Controlled, Ended, Inner, Counted
<1>10. Dumping'
  BY <1>1, <1>3, <1>4 DEF Fetch, Rest, Again, Send, Types, Dumping, Places, Frames, Protocol,
     Trusted, Clean, Controlled, Inner, Ended, Taking, Giving
<1>11. Delivered'
  BY <1>1, <1>3, <1>4 DEF Fetch, Rest, Again, Send, Types, Delivered, Places, Frames, Inner
<1>12. Counted'
  <2>1. nackcnt = 0 /\ UNCHANGED <<here, call, faults, sent, nackcnt>>
    BY <1>1 DEF Fetch, Rest, Places
  <2>2. \/ pc' = back
        \/ pc' = "exchange" /\ return' = back
    BY <2>1 DEF Fetch, Again, Send
  <2> QED BY <1>1, <2>1, <2>2 DEF Counted, Types, Taking
<1>13. Buffered' BY <1>1, SameCache DEF Fetch, Rest
<1> QED BY <1>2, <1>5, <1>6, <1>7, <1>8, <1>9, <1>10, <1>11, <1>12, <1>13 DEF Access

LEMMA ReturnedAccess ==
  ASSUME Inv, Inv', Access, Returned PROVE Access'
<1>1. /\ Registers /\ Locals /\ Places /\ Frames /\ Types /\ Types' /\ Protocol
      /\ Results /\ Dumping /\ Asked /\ Delivered /\ Counted /\ Buffered
  BY DEF Access, Inv
<1>2. Registers' /\ Asked' BY <1>1, Quiet DEF Returned, Rest
<1>3. UNCHANGED <<rom, busy, data, nack, call, here, asked>> BY DEF Returned, Rest
<1>4. /\ (Idle' <=> Idle) /\ (Loaded' <=> Loaded)
      /\ UNCHANGED <<word, edat>>
      /\ (Done' <=> Done) /\ Cmd' = Cmd
      /\ (HasRead' <=> HasRead)
      /\ (AskedRead' <=> AskedRead)
  BY <1>3, Same DEF Returned, Rest
<1>5. Locals'
  <2>1. call.fn # "dump" BY <1>1 DEF Returned, Places
  <2> QED BY <1>1, <2>1 DEF Returned, Rest, Locals
<1>6. Places'
  BY <1>1, <1>3, <1>4 DEF Returned, Rest, Types, Places, Inner, Taking
<1>7. Frames'
  BY <1>1, <1>3, <1>4 DEF Returned, Rest, Types, Frames, Places, Inner, Cmd
<1>8. Protocol'
  BY <1>1, <1>3, <1>4 DEF Returned, Rest, Types, Protocol, Places, Frames, Ended, Trusted, Clean,
     Controlled, Counted, Locals
<1>9. Results'
  <2> SUFFICES ASSUME Trusted' PROVE Results' BY DEF Results
  <2>1. Trusted BY DEF Returned, Rest, Trusted, Clean, Controlled
  <2>2. call.fn \in {"read", "readAP"} BY <1>1, <2>1 DEF Returned, Places, Trusted
  <2>3. Idle /\ HasRead /\ word = call.arg
    BY <1>1, <2>1, <2>2 DEF Returned, Protocol, Ended, Places
  <2>4. Padded(4) = Bytes(Slave, word, 4) BY <1>1, <2>3, PaddedBytes, WidthIs DEF HasRead, Locals
  <2>5. ReadRight' BY <1>3, <2>3, <2>4 DEF Returned, ReadRight, Bytes, Byte
  <2> QED BY <1>3, <1>4, <2>2, <2>3, <2>5 DEF Results
<1>10. Dumping'
  BY <1>1, <1>3, <1>4 DEF Returned, Rest, Types, Dumping, Places, Frames, Protocol, Trusted,
     Clean, Controlled, Inner, Ended, Taking, Giving
<1>11. Delivered'
  <2> SUFFICES ASSUME call.fn = "read2", ~slipped PROVE Delivered'
    BY DEF Returned, Rest, Delivered
  <2>1. Idle /\ AskedRead BY <1>1 DEF Returned, Delivered
  <2>2. ASSUME asked[Slave] # <<>> PROVE value' = Bytes(Slave, asked[Slave][1], 4)
    BY <1>1, <2>1, <2>2, PaddedBytes DEF AskedRead, Locals, Returned
  <2>3. AskedRight' BY <1>3, <2>2 DEF AskedRight, Bytes, Byte
  <2> QED BY <1>4, <2>1, <2>3 DEF Returned, Delivered
<1>12. Counted'
  BY <1>1, <1>3, <1>4 DEF Returned, Rest, Types, Counted, Places, Frames, Inner, Taking, Locals
<1>13. Buffered' BY <1>1, SameCache DEF Returned, Rest
<1> QED BY <1>2, <1>5, <1>6, <1>7, <1>8, <1>9, <1>10, <1>11, <1>12, <1>13 DEF Access

LEMMA DumpedAccess ==
  ASSUME Inv, Inv', Access, Dumped PROVE Access'
<1>1. /\ Registers /\ Locals /\ Places /\ Frames /\ Types /\ Types' /\ Protocol
      /\ Results /\ Dumping /\ Asked /\ Delivered /\ Counted /\ Buffered
  BY DEF Access, Inv
<1>2. Registers' /\ Asked' BY <1>1, Quiet DEF Dumped, Rest
<1>3. UNCHANGED <<rom, busy, data, nack, call, here, asked>> BY DEF Dumped, Rest
<1>4. /\ (Idle' <=> Idle) /\ (Loaded' <=> Loaded)
  BY <1>3, Same DEF Dumped, Rest
<1>5. Locals'
  <2>1. call.fn = "dump" /\ value \in Seq(Octets) /\ Width(Slave) \in Nat
    BY <1>1, WidthIs DEF Dumped, Places, Locals
  <2>2. Padded(Width(Slave)) \in Seq(Octets) BY <1>1, <2>1, PaddedType DEF Locals
  <2>3. value' \in Seq(Octets) BY <2>1, <2>2, ConcatProperties DEF Dumped
  <2>4. word' \in Nat BY <1>1, WidthIs DEF Dumped, Locals
  <2>5. edat' \in Seq(Octets) BY <1>1, EmptySeq DEF Dumped, Locals
  <2>6. nackcnt' \in 0 .. 3
    <3>1. nackcnt' \in {0, nackcnt} BY Zenon DEF Dumped
    <3>2. nackcnt \in 0 .. 3 BY <1>1 DEF Locals
    <3> QED BY <3>1, <3>2
  <2>7. UNCHANGED <<seen, call, faults, wkc, slipped>> /\ sent' = 0
    BY DEF Dumped, Rest, Wait, Restore, eeprom2pdi, Send
  <2> QED BY <1>1, <2>3, <2>4, <2>5, <2>6, <2>7 DEF Locals
<1>6. Places'
  <2>1. \/ pc' = "wait" /\ return' = "status" /\ nackcnt' = 0 /\ back' = back
        \/ pc' = "idle" /\ back' = back
        \/ pc' = "exchange" /\ return' = "given" /\ back' = "idle" /\ eectl
    BY RestorePlace DEF Dumped, Wait
  <2>2. /\ pc = "dumped" /\ call.fn = "dump" /\ back = "dumped" /\ ~eep_pdi[Slave]
        /\ UNCHANGED <<call, eep_pdi>>
    BY <1>1 DEF Dumped, Rest, Places
  <2> QED BY <2>1, <2>2 DEF Places, Inner, Taking, Getters, Walkers, Finders
<1>7. Frames'
  <2>1. \/ pc' = "wait" /\ return' = "status" /\ nackcnt' = 0 /\ back' = back
        \/ pc' = "idle" /\ back' = back
        \/ pc' = "exchange" /\ return' = "given" /\ back' = "idle" /\ eectl
    BY RestorePlace DEF Dumped, Wait
  <2> QED BY <2>1 DEF Frames
<1>8. Protocol'
  <2>1. \/ pc' = "wait" /\ return' = "status" /\ nackcnt' = 0 /\ back' = back
        \/ pc' = "idle" /\ back' = back
        \/ pc' = "exchange" /\ return' = "given" /\ back' = "idle" /\ eectl
    BY RestorePlace DEF Dumped, Wait
  <2> QED BY <2>1, <1>1 DEF Protocol, Ended, Types
<1>9. Results'
  <2>1. call.fn = "dump" BY <1>1 DEF Dumped, Places
  <2> QED BY <1>3, <2>1 DEF Results
<1>10. Dumping'
  <2>1. \/ pc' = "wait" /\ return' = "status" /\ nackcnt' = 0 /\ back' = back
        \/ pc' = "idle" /\ back' = back
        \/ pc' = "exchange" /\ return' = "given" /\ back' = "idle" /\ eectl
    BY RestorePlace DEF Dumped, Wait
  <2>2. /\ pc = "dumped" /\ call.fn = "dump" /\ UNCHANGED <<call, eectl, lost, slipped>>
        /\ value' = value \o Padded(Width(Slave)) /\ word' = word + Width(Slave) \div 2
    BY <1>1 DEF Dumped, Rest, Places
  <2>3. eectl /\ ~slipped => Slave \notin lost BY <1>1, <2>2 DEF Dumping, Ended
  <2>4. ASSUME Clean
        PROVE  /\ DumpRight' /\ Idle
               /\ 2 * word' = 2 * ECT_SII_START + Len(value')
    <3>1. /\ Idle /\ HasRead /\ DumpRight
          /\ 2 * word = 2 * ECT_SII_START + Len(value)
      BY <1>1, <2>2, <2>4 DEF Protocol, Dumping, Ended, Trusted, Controlled
    <3>2. value \in Seq(Octets) /\ edat \in Seq(Octets) /\ word \in Nat
      BY <1>1, <2>2 DEF Locals
    <3>3. PICK n \in {4, 8} : n = Width(Slave) BY WidthIs
    <3>4. Padded(n) \in Seq(Octets) /\ Len(Padded(n)) = n BY <3>2, PaddedType
    <3>5. \A i \in 1 .. n : Padded(n)[i] = Byte(Slave, 2 * word + i - 1)
      BY <3>1, <3>2, <3>3, PaddedBytes DEF HasRead
    <3>6. PICK l \in Nat : l = Len(value) BY <3>2, LenProperties
    <3>7. /\ value' \in Seq(Octets) /\ Len(value') = l + n
          /\ \A i \in 1 .. l + n : value'[i] = IF i <= l THEN value[i] ELSE Padded(n)[i - l]
      BY <2>2, <3>2, <3>3, <3>4, <3>6, ConcatProperties
    <3>8. \A i \in 1 .. l : value[i] = Byte(Slave, 2 * ECT_SII_START + i - 1)
      BY <3>1, <3>6 DEF DumpRight, Bytes
    <3>9. \A i \in 1 .. l + n : value'[i] = Byte(Slave, 2 * ECT_SII_START + i - 1)
      <4> TAKE i \in 1 .. l + n
      <4>1. CASE i <= l BY <3>7, <3>8, <4>1
      <4>2. CASE ~(i <= l)
        <5>1. i - l \in 1 .. n BY <4>2, <3>3
        <5>2. value'[i] = Byte(Slave, 2 * word + (i - l) - 1) BY <3>5, <3>7, <4>2, <5>1
        <5>3. 2 * word + (i - l) - 1 = 2 * ECT_SII_START + i - 1
          BY <3>1, <3>2, <3>6, FormatAssumption
        <5> QED BY <5>2, <5>3
      <4> QED BY <4>1, <4>2
    <3>10. value' = Bytes(Slave, ECT_SII_START, l + n)
      <4>1. DOMAIN value' = 1 .. l + n BY <3>7, LenProperties
      <4>2. value' = [i \in 1 .. l + n |-> value'[i]] BY <3>7, <4>1, LenProperties
      <4> QED BY <3>9, <4>2 DEF Bytes
    <3>11. DumpRight' BY <1>3, <3>7, <3>10 DEF DumpRight, Bytes, Byte
    <3>12. 2 * word' = 2 * ECT_SII_START + (l + n)
      <4>1. \A w \in Nat, m \in {4, 8} : 2 * (w + m \div 2) = 2 * w + m OBVIOUS
      <4>2. word' = word + n \div 2 BY <2>2, <3>3
      <4>3. 2 * word' = 2 * word + n BY <3>2, <4>1, <4>2
      <4>4. 2 * word = 2 * ECT_SII_START + l BY <3>1, <3>6
      <4>5. \A x, s \in Nat : x = 2 * s + l => x + n = 2 * s + (l + n) BY <3>6, <3>3
      <4>6. 2 * word \in Nat /\ ECT_SII_START \in Nat BY <3>2, FormatAssumption
      <4> QED BY <4>3, <4>4, <4>5, <4>6
    <3> QED BY <3>1, <3>7, <3>11, <3>12
  <2> QED BY <1>3, <1>4, <2>1, <2>2, <2>3, <2>4 DEF Dumping, Clean, Inner, Ended
<1>11. Delivered'
  BY <1>1, <1>3, <1>4 DEF Dumped, Rest, Wait, Restore, eeprom2pdi, Send, Types, Delivered,
     Places, Frames, Inner, Places, Giving, Restores, Kept, Getters, Walkers, Finders
<1>12. Counted'
  <2>1. \/ pc' = "wait" /\ return' = "status" /\ nackcnt' = 0 /\ back' = back
        \/ pc' = "idle" /\ back' = back
        \/ pc' = "exchange" /\ return' = "given" /\ back' = "idle" /\ eectl
    BY RestorePlace DEF Dumped, Wait
  <2>2. sent' = 0 /\ UNCHANGED <<faults, call, here>> /\ 0 <= 3 + faults
    BY <1>1 DEF Dumped, Rest, Locals
  <2> QED BY <2>1, <2>2 DEF Counted, Taking
<1>13. Buffered' BY <1>1, SameCache DEF Dumped, Rest
<1> QED BY <1>2, <1>5, <1>6, <1>7, <1>8, <1>9, <1>10, <1>11, <1>12, <1>13 DEF Access

LEMMA WaitAccess ==
  ASSUME Inv, Inv', Access, waitnotbusy PROVE Access'
<1>1. /\ Registers /\ Locals /\ Places /\ Frames /\ Types /\ Types' /\ Protocol
      /\ Results /\ Dumping /\ Asked /\ Delivered /\ Counted /\ Buffered
  BY DEF Access, Inv
<1>2. Registers' /\ Asked' BY <1>1, Quiet DEF waitnotbusy, Rest
<1>3. UNCHANGED <<rom, busy, data, nack, call, here, asked>> BY DEF waitnotbusy, Rest
<1>4. /\ (Idle' <=> Idle) /\ (Loaded' <=> Loaded)
      /\ UNCHANGED <<word, edat, value>>
      /\ (Done' <=> Done) /\ Cmd' = Cmd
      /\ (HasRead' <=> HasRead)
      /\ (ReadRight' <=> ReadRight) /\ (WriteRight' <=> WriteRight)
      /\ (DumpRight' <=> DumpRight) /\ (AskedRight' <=> AskedRight)
      /\ (AskedRead' <=> AskedRead)
  BY <1>3, Same DEF waitnotbusy, Rest
<1>5. Locals'
  <2>1. UNCHANGED <<edat, call, word, nackcnt, sent, wkc, value>> BY DEF waitnotbusy
  <2>2. slipped' \in BOOLEAN /\ faults' \in Nat /\ seen' \in {"ready", "nack", "busy", "nothing"}
    <3>1. slipped' \in BOOLEAN /\ faults' \in {faults, faults + 1}
      BY <1>1 DEF waitnotbusy, Fault, Locals
    <3>2. seen' \in {"ready", "nack", "busy", "nothing"} BY DEF waitnotbusy
    <3> QED BY <1>1, <3>1, <3>2 DEF Locals
  <2> QED BY <1>1, <2>1, <2>2 DEF Locals
<1>6. Places'
  BY <1>1, <1>3, <1>4 DEF waitnotbusy, Ready, Fault, Types, Places, Inner, Taking
<1>7. Frames'
  BY <1>1, <1>3, <1>4 DEF waitnotbusy, Ready, Fault, Types, Frames, Places, Inner, Cmd
<1>8. Protocol'
  <2> SUFFICES ASSUME Trusted' PROVE Protocol' BY DEF Protocol
  <2>1. ~slipped' BY DEF Trusted, Clean
  <2>2. Trusted /\ UNCHANGED <<back, return>>
    BY <2>1 DEF waitnotbusy, Trusted, Clean, Controlled
  <2>3. Idle /\ seen' = (IF nack[Slave] THEN "nack" ELSE "ready") /\ pc' = return
    BY <2>1 DEF waitnotbusy, Idle, Ready
  <2>4. return = "executed" => nack[Slave] \/ Done
    <3> SUFFICES ASSUME return = "executed" PROVE nack[Slave] \/ Done
      OBVIOUS
    <3>1. busy[Slave] = Cmd \/ nack[Slave] \/ Done BY <1>1, <2>2 DEF waitnotbusy, Protocol
    <3>2. Cmd # <<>> BY DEF Cmd
    <3> QED BY <2>3, <3>1, <3>2 DEF Idle
  <2>5. return # "fetch"
    BY <1>1, <2>2 DEF waitnotbusy, Places, Trusted
  <2> QED BY <1>1, <1>4, <2>2, <2>3, <2>4, <2>5 DEF Protocol, Types, Ended, waitnotbusy
<1>9. Results'
  BY <1>1, <1>3, <1>4 DEF waitnotbusy, Ready, Fault, Types, Results, Places, Frames, Protocol,
     Trusted, Clean, Controlled, Ended, Inner, Counted
<1>10. Dumping'
  <2> SUFFICES ASSUME call.fn = "dump" PROVE Dumping' BY <1>3 DEF Dumping
  <2>1. /\ pc = "wait" /\ pc' \in {"status", "executed", "fetch"}
        /\ UNCHANGED <<value, back, eectl, lost>> /\ (~slipped' => ~slipped)
    <3>1. slipped' = slipped \/ slipped' BY DEF waitnotbusy
    <3>2. pc = "wait" /\ pc' = return /\ UNCHANGED <<value, back, eectl, lost>> BY DEF waitnotbusy
    <3>3. ~slipped' => ~slipped BY <1>1, <3>1 DEF Locals
    <3> QED BY <1>1, <3>2, <3>3 DEF Types
  <2>2. Inner /\ Inner' BY <2>1 DEF Inner
  <2> QED BY <1>1, <1>3, <1>4, <2>1, <2>2 DEF Dumping, Clean
<1>11. Delivered'
  BY <1>1, <1>3, <1>4 DEF waitnotbusy, Ready, Fault, Types, Delivered, Places, Frames, Inner, Idle
<1>12. Counted'
  <2>1. /\ pc = "wait" /\ pc' = return /\ return \in {"status", "executed", "fetch"}
        /\ UNCHANGED <<call, here, sent, nackcnt>>
    BY <1>1 DEF waitnotbusy, Types
  <2>2. /\ faults' \in {faults, faults + 1}
        /\ here[Slave] /\ seen' = "busy" => faults' = faults + 1
    BY <1>1 DEF waitnotbusy, Fault, Locals
  <2>3. sent \in Nat /\ nackcnt \in Nat /\ faults \in Nat BY <1>1 DEF Locals
  <2>4. sent' <= 3 + faults'
    <3>1. sent <= 3 + faults BY <1>1 DEF Counted
    <3>2. \A f \in {faults, faults + 1} : sent <= 3 + f BY <2>3, <3>1
    <3> QED BY <2>1, <2>2, <3>2
  <2>5. return = "status" => sent' = 0 /\ nackcnt' = 0 /\ sent' <= nackcnt' + faults'
    <3>1. return = "status" => sent = 0 /\ nackcnt = 0 BY <1>1, <2>1 DEF Counted
    <3>2. \A f \in {faults, faults + 1} : 0 <= 0 + f BY <2>3
    <3> QED BY <2>1, <2>2, <3>1, <3>2
  <2>6. return = "executed" =>
          /\ nackcnt' <= 2
          /\ here[Slave] => /\ sent' <= nackcnt' + 1 + faults'
                            /\ seen' = "busy" => sent' <= nackcnt' + faults'
    <3> SUFFICES ASSUME return = "executed"
                 PROVE  /\ nackcnt' <= 2
                        /\ here[Slave] => /\ sent' <= nackcnt' + 1 + faults'
                                          /\ seen' = "busy" => sent' <= nackcnt' + faults'
      OBVIOUS
    <3>1. nackcnt <= 2 /\ (here[Slave] => sent <= nackcnt + 1 + faults)
      BY <1>1, <2>1 DEF Counted, Types
    <3>2. \A f \in {faults, faults + 1} : sent <= nackcnt + 1 + faults =>
            sent <= nackcnt + 1 + f /\ (f = faults + 1 => sent <= nackcnt + f)
      BY <2>3
    <3> QED BY <2>1, <2>2, <3>1, <3>2
  <2>7. here'[Slave'] = here[Slave] BY <2>1
  <2>8. pc' = "status" => return = "status" BY <2>1
  <2>9. pc' = "executed" => return = "executed" BY <2>1
  <2>10. pc' \in {"status", "executed", "fetch"} BY <2>1
  <2> HIDE DEF Slave
  <2>11. nackcnt' = 0 => nackcnt' <= 2 OBVIOUS
  <2> QED BY <2>4, <2>5, <2>6, <2>7, <2>8, <2>9, <2>10, <2>11 DEF Counted, Taking
<1>13. Buffered' BY <1>1, SameCache DEF waitnotbusy, Rest
<1> QED BY <1>2, <1>5, <1>6, <1>7, <1>8, <1>9, <1>10, <1>11, <1>12, <1>13 DEF Access

LEMMA ForcedAccess ==
  ASSUME Inv, Inv', Access, Forced PROVE Access'
<1>1. /\ Registers /\ Locals /\ Places /\ Frames /\ Types /\ Types' /\ Protocol
      /\ Results /\ Dumping /\ Asked /\ Delivered /\ Counted /\ Buffered
  BY DEF Access, Inv
<1>2. Registers' /\ Asked' BY <1>1, Quiet DEF Forced, Rest
<1>3. UNCHANGED <<rom, busy, data, nack, call, here, asked>> BY DEF Forced, Rest
<1>4. /\ (Idle' <=> Idle) /\ (Loaded' <=> Loaded)
      /\ UNCHANGED <<word, edat, value>>
      /\ (Done' <=> Done) /\ Cmd' = Cmd
      /\ (HasRead' <=> HasRead)
      /\ (ReadRight' <=> ReadRight) /\ (WriteRight' <=> WriteRight)
      /\ (DumpRight' <=> DumpRight) /\ (AskedRight' <=> AskedRight)
      /\ (AskedRead' <=> AskedRead)
  BY <1>3, Same DEF Forced, Rest
<1>5. Locals'
  BY <1>1, <1>3, <1>4 DEF Forced, Handed, Send, Types, Locals
<1>6. Places'
  BY <1>1, <1>3, <1>4 DEF Forced, Handed, Send, Types, Places, Inner, Taking
<1>7. Frames'
  BY <1>1, <1>3, <1>4 DEF Forced, Handed, Send, Types, Frames, Places, Inner, Cmd
<1>8. Protocol'
  BY <1>1, <1>3, <1>4 DEF Forced, Handed, Send, Types, Protocol, Places, Frames, Ended, Trusted,
     Clean, Controlled, Counted, Locals
<1>9. Results'
  BY <1>1, <1>3, <1>4 DEF Forced, Handed, Send, Types, Results, Places, Frames, Protocol,
     Trusted, Clean, Controlled, Ended, Inner, Counted
<1>10. Dumping'
  <2> SUFFICES ASSUME call.fn = "dump" PROVE Dumping' BY <1>3 DEF Dumping
  <2>1. /\ pc = "forced" /\ pc' = "exchange" /\ return' = "taken"
        /\ UNCHANGED <<value, word, slipped, eectl>>
        /\ lost' = IF wkc = 1 THEN lost \ {Slave} ELSE lost \cup {Slave}
    BY DEF Forced, Handed, Send
  <2>2. value = <<>> /\ word = ECT_SII_START BY <1>1, <2>1 DEF Places, Taking
  <2>3. ~slipped => Slave \notin lost' BY <1>1, <2>1 DEF Frames
  <2>4. DumpRight BY <2>2, EmptyBytes DEF DumpRight
  <2> QED BY <1>3, <1>4, <2>1, <2>2, <2>3, <2>4 DEF Dumping, Inner, Ended
<1>11. Delivered'
  BY <1>1, <1>3, <1>4 DEF Forced, Handed, Send, Types, Delivered, Places, Frames, Inner
<1>12. Counted'
  BY <1>1, <1>3, <1>4 DEF Forced, Handed, Send, Types, Counted, Places, Frames, Inner, Taking,
     Locals
<1>13. Buffered' BY <1>1, SameCache DEF Forced, Rest
<1> QED BY <1>2, <1>5, <1>6, <1>7, <1>8, <1>9, <1>10, <1>11, <1>12, <1>13 DEF Access

LEMMA TakenAccess ==
  ASSUME Inv, Inv', Access, Taken PROVE Access'
<1>1. /\ Registers /\ Locals /\ Places /\ Frames /\ Types /\ Types' /\ Protocol
      /\ Results /\ Dumping /\ Asked /\ Delivered /\ Counted /\ Buffered
  BY DEF Access, Inv
<1>2. Registers' /\ Asked' BY <1>1, Quiet DEF Taken, Rest
<1>3. UNCHANGED <<rom, busy, data, nack, call, here, asked>> BY DEF Taken, Rest
<1>4. /\ (Idle' <=> Idle) /\ (Loaded' <=> Loaded)
      /\ UNCHANGED <<word, edat, value>>
      /\ (Done' <=> Done) /\ Cmd' = Cmd
      /\ (HasRead' <=> HasRead)
      /\ (ReadRight' <=> ReadRight) /\ (WriteRight' <=> WriteRight)
      /\ (DumpRight' <=> DumpRight) /\ (AskedRight' <=> AskedRight)
      /\ (AskedRead' <=> AskedRead)
  BY <1>3, Same DEF Taken, Rest
<1>5. Locals'
  BY <1>1, <1>3, <1>4 DEF Taken, Wait, Types, Locals
<1>6. Places'
  <2>1. /\ pc = "taken" /\ UNCHANGED <<value, word, call, back, esislave, nackcnt, phase>>
        /\ \/ call.fn = "2master" /\ pc' = "idle"
           \/ call.fn # "2master" /\ pc' = "wait" /\ return' = "status"
    BY DEF Taken, Wait
  <2>2. eep_pdi' = [eep_pdi EXCEPT ![Slave] = FALSE] /\ Slave \in Slaves
    BY <1>1, <2>1 DEF Taken, Types
  <2>3. ~eep_pdi'[Slave] BY <1>1, <2>2 DEF Types
  <2>4. call.fn # "2master" => call.fn # "read2" BY <1>1, <2>1 DEF Places, Taking
  <2> QED BY <1>1, <2>1, <2>3, <2>4 DEF Places, Inner, Taking
<1>7. Frames'
  BY <1>1, <1>3, <1>4 DEF Taken, Wait, Types, Frames, Places, Inner, Cmd
<1>8. Protocol'
  BY <1>1, <1>3, <1>4 DEF Taken, Wait, Types, Protocol, Places, Frames, Ended, Trusted, Clean,
     Controlled, Counted, Locals
<1>9. Results'
  BY <1>1, <1>3, <1>4 DEF Taken, Wait, Types, Results, Places, Frames, Protocol, Trusted, Clean,
     Controlled, Ended, Inner, Counted
<1>10. Dumping'
  <2> SUFFICES ASSUME call.fn = "dump" PROVE Dumping' BY <1>3 DEF Dumping
  <2>1. /\ pc = "taken" /\ pc' = "wait" /\ return' = "status"
        /\ UNCHANGED <<value, word, slipped, eectl>>
        /\ lost' = IF wkc = 1 THEN lost ELSE lost \cup {Slave}
    BY DEF Taken, Wait
  <2>2. value = <<>> /\ word = ECT_SII_START BY <1>1, <2>1 DEF Places, Taking
  <2>3. ~slipped /\ eectl => Slave \notin lost' BY <1>1, <2>1 DEF Frames, Dumping
  <2>4. DumpRight /\ Len(value) = 0 BY <2>2, EmptyBytes DEF DumpRight
  <2>5. 2 * word = 2 * ECT_SII_START + Len(value) BY <2>2, <2>4, FormatAssumption
  <2> QED BY <1>3, <1>4, <2>1, <2>2, <2>3, <2>4, <2>5 DEF Dumping, Inner, Ended
<1>11. Delivered'
  BY <1>1, <1>3, <1>4 DEF Taken, Wait, Types, Delivered, Places, Frames, Inner
<1>12. Counted'
  BY <1>1, <1>3, <1>4 DEF Taken, Wait, Types, Counted, Places, Frames, Inner, Taking, Locals
<1>13. Buffered' BY <1>1, SameCache DEF Taken, Rest
<1> QED BY <1>2, <1>5, <1>6, <1>7, <1>8, <1>9, <1>10, <1>11, <1>12, <1>13 DEF Access

LEMMA GivenAccess ==
  ASSUME Inv, Inv', Access, Given PROVE Access'
<1>1. /\ Registers /\ Locals /\ Places /\ Frames /\ Types /\ Types' /\ Protocol
      /\ Results /\ Dumping /\ Asked /\ Delivered /\ Counted /\ Buffered
  BY DEF Access, Inv
<1>2. Registers' /\ Asked' BY <1>1, Quiet DEF Given, Rest
<1>3. UNCHANGED <<rom, busy, data, nack, call, here, asked>> BY DEF Given, Rest
<1>4. /\ (Idle' <=> Idle) /\ (Loaded' <=> Loaded)
      /\ UNCHANGED <<word, edat, value>>
      /\ (Done' <=> Done) /\ Cmd' = Cmd
      /\ (HasRead' <=> HasRead)
      /\ (ReadRight' <=> ReadRight) /\ (WriteRight' <=> WriteRight)
      /\ (DumpRight' <=> DumpRight) /\ (AskedRight' <=> AskedRight)
      /\ (AskedRead' <=> AskedRead)
  BY <1>3, Same DEF Given, Rest, Send, Wait, Restore, eeprom2pdi, eeprom2master
<1>5. Locals'
  BY <1>1, <1>3, <1>4 DEF Given, Handed, Types, Locals, Places, Giving, Restores, Kept, Getters,
     Walkers, Finders
<1>6. Places'
  <2>1. /\ pc' \in {"idle", "walk"} /\ UNCHANGED <<call, word, back, phase>>
        /\ pc' = "walk" => call.fn \in Walkers
    BY <1>1 DEF Given, Places
  <2>2. pc = "given" BY DEF Given
  <2> QED BY <1>1, <2>1, <2>2 DEF Places, Inner, Taking, Getters
<1>7. Frames'
  BY <1>1, <1>3, <1>4 DEF Given, Handed, Types, Frames, Places, Inner, Cmd
<1>8. Protocol'
  <2>1. pc' \in {"idle", "walk"} BY <1>1 DEF Given, Places
  <2> QED BY <2>1 DEF Protocol, Ended
<1>9. Results'
  <2>1. call.fn \notin {"read", "readAP"} \cup Writes BY <1>1 DEF Given, Places, Walkers, Finders
  <2> QED BY <1>3, <2>1 DEF Results
<1>10. Dumping'
  <2> SUFFICES ASSUME call.fn = "dump" PROVE Dumping' BY <1>3 DEF Dumping
  <2>1. pc = "given" /\ pc' = back /\ UNCHANGED <<value, slipped, eectl>> BY DEF Given
  <2>2. back = "idle" BY <1>1, <2>1 DEF Places, Walkers, Finders
  <2>3. eectl BY <2>1 DEF Inv, Kept, Restores, Giving
  <2>4. ~slipped => Slave \notin lost BY <1>1, <2>1, <2>3 DEF Dumping
  <2> QED BY <1>1, <1>3, <1>4, <2>1, <2>2, <2>4 DEF Dumping, Inner, Ended, Clean
<1>11. Delivered'
  <2>1. call.fn # "read2" BY <1>1 DEF Given, Places, Walkers, Finders
  <2> QED BY <1>3, <2>1 DEF Delivered
<1>12. Counted'
  BY <1>1, <1>3, <1>4 DEF Given, Handed, Types, Counted, Places, Frames, Inner, Taking, Locals,
     Places, Giving, Restores, Kept, Getters, Walkers, Finders
<1>13. Buffered' BY <1>1, SameCache DEF Given, Rest
<1> QED BY <1>2, <1>5, <1>6, <1>7, <1>8, <1>9, <1>10, <1>11, <1>12, <1>13 DEF Access

LEMMA MissAccess ==
  ASSUME Inv, Inv', Access, Miss PROVE Access'
<1>1. /\ Registers /\ Locals /\ Places /\ Frames /\ Types /\ Types' /\ Protocol
      /\ Results /\ Dumping /\ Asked /\ Delivered /\ Counted /\ Buffered
  BY DEF Access, Inv
<1>2. Registers' /\ Asked' BY <1>1, Quiet DEF Miss, Rest
<1>3. UNCHANGED <<rom, busy, data, nack, call, here, asked>> BY DEF Miss, Rest
<1>4. /\ (Idle' <=> Idle) /\ (Loaded' <=> Loaded)
      /\ UNCHANGED <<value>>
      /\ (ReadRight' <=> ReadRight) /\ (WriteRight' <=> WriteRight)
      /\ (DumpRight' <=> DumpRight) /\ (AskedRight' <=> AskedRight)
  BY <1>3, Same DEF Miss, Rest
<1>5. Locals'
  <2>1. PICK k \in Missing(Walk.reads) : word' = Walk.reads[k] \div 2 BY DEF Miss
  <2>2. PICK a \in Nat : a = Walk.reads[k] BY <2>1 DEF Missing
  <2>3. word' \in Nat BY <2>1, <2>2
  <2>4. call.fn # "dump" BY <1>1 DEF Miss, Places, Getters, Walkers, Finders
  <2>5. UNCHANGED <<seen, call, faults, wkc>> /\ slipped' = FALSE /\ sent' = 0 /\ nackcnt' = 0
    BY DEF Miss, eeprom2master, Send, Wait
  <2>6. edat' \in Seq(Octets) BY EmptySeq DEF Miss
  <2>7. nackcnt' \in 0 .. 3 /\ sent' \in Nat /\ slipped' \in BOOLEAN
    <3>1. nackcnt' = 0 /\ sent' = 0 BY <2>5
    <3>2. slipped' = FALSE BY <2>5
    <3>3. nackcnt' \in 0 .. 3 /\ sent' \in Nat BY <3>1
    <3>4. slipped' \in BOOLEAN BY <3>2
    <3> QED BY <3>3, <3>4
  <2>8. wkc' \in Int /\ faults' \in Nat BY <1>1, <2>5 DEF Locals
  <2>9. seen' \in {"ready", "nack", "busy", "nothing"} BY <1>1, <2>5 DEF Locals
  <2>10. call'.fn # "dump" /\ (call'.fn # "none" => call' \in Calls) BY <1>1, <2>4, <2>5 DEF Locals
  <2> QED BY <2>3, <2>6, <2>7, <2>8, <2>9, <2>10 DEF Locals
<1>6. Places'
  <2>1. /\ pc = "walk" /\ call.fn \in Getters /\ back' = "fill" /\ esislave' = Slave
        /\ UNCHANGED <<call, eep_pdi, phase>>
    BY <1>1 DEF Miss, Places, Switch
  <2>2. \/ pc' = "exchange" /\ return' = "forced"
        \/ pc' = "wait" /\ return' = "status" /\ ~eep_pdi[Slave]
    BY ToMasterPlace DEF Miss
  <2> QED BY <1>1, <2>1, <2>2 DEF Places, Inner, Taking, Getters, Walkers, Finders
<1>7. Frames'
  BY <1>1, <1>3, <1>4 DEF Miss, eeprom2master, Send, Wait, Types, Frames, Places, Inner, Cmd
<1>8. Protocol'
  BY <1>1, <1>3, <1>4 DEF Miss, eeprom2master, Send, Wait, Types, Protocol, Places, Frames,
     Ended, Trusted, Clean, Controlled, Counted, Locals, Places, Giving, Restores, Kept, Getters,
     Walkers, Finders
<1>9. Results'
  BY <1>1, <1>3, <1>4 DEF Miss, eeprom2master, Send, Wait, Types, Results, Places, Frames,
     Protocol, Trusted, Clean, Controlled, Ended, Inner, Counted, Places, Giving, Restores, Kept,
     Getters, Walkers, Finders
<1>10. Dumping'
  BY <1>1, <1>3, <1>4 DEF Miss, eeprom2master, Send, Wait, Types, Dumping, Places, Frames,
     Protocol, Trusted, Clean, Controlled, Inner, Ended, Taking, Giving, Places, Giving,
     Restores, Kept, Getters, Walkers, Finders
<1>11. Delivered'
  BY <1>1, <1>3, <1>4 DEF Miss, eeprom2master, Send, Wait, Types, Delivered, Places, Frames,
     Inner, Places, Giving, Restores, Kept, Getters, Walkers, Finders
<1>12. Counted'
  <2>1. sent' = 0 /\ nackcnt' = 0 /\ UNCHANGED <<faults, call, here>> BY DEF Miss
  <2>2. \/ pc' = "exchange" /\ return' = "forced"
        \/ pc' = "wait" /\ return' = "status"
    BY ToMasterPlace DEF Miss
  <2>3. 0 <= 3 + faults BY <1>1 DEF Locals
  <2> QED BY <2>1, <2>2, <2>3 DEF Counted, Taking
<1>13. Buffered' BY <1>1, <1>3, SwitchKeeps DEF Miss, Types
<1> QED BY <1>2, <1>5, <1>6, <1>7, <1>8, <1>9, <1>10, <1>11, <1>12, <1>13 DEF Access

LEMMA FillAccess ==
  ASSUME Inv, Inv', Access, Fill PROVE Access'
<1>1. /\ Registers /\ Locals /\ Places /\ Frames /\ Types /\ Types' /\ Protocol
      /\ Results /\ Dumping /\ Asked /\ Delivered /\ Counted /\ Buffered
  BY DEF Access, Inv
<1>2. Registers' /\ Asked' BY <1>1, Quiet DEF Fill, Rest
<1>3. UNCHANGED <<rom, busy, data, nack, call, here, asked>> BY DEF Fill, Rest
<1>4. /\ (Idle' <=> Idle) /\ (Loaded' <=> Loaded)
      /\ UNCHANGED <<word, edat, value>>
      /\ (Done' <=> Done) /\ Cmd' = Cmd
      /\ (HasRead' <=> HasRead)
      /\ (ReadRight' <=> ReadRight) /\ (WriteRight' <=> WriteRight)
      /\ (DumpRight' <=> DumpRight) /\ (AskedRight' <=> AskedRight)
      /\ (AskedRead' <=> AskedRead)
  BY <1>3, Same DEF Fill, Rest
<1>5. Locals'
  BY <1>1, <1>3, <1>4 DEF Fill, Types, Locals
<1>6. Places'
  BY <1>1, <1>3, <1>4 DEF Fill, Types, Places, Inner, Taking
<1>7. Frames'
  BY <1>1, <1>3, <1>4 DEF Fill, Types, Frames, Places, Inner, Cmd
<1>8. Protocol'
  BY <1>1, <1>3, <1>4 DEF Fill, Types, Protocol, Places, Frames, Ended, Trusted, Clean,
     Controlled, Counted, Locals
<1>9. Results'
  BY <1>1, <1>3, <1>4 DEF Fill, Types, Results, Places, Frames, Protocol, Trusted, Clean,
     Controlled, Ended, Inner, Counted
<1>10. Dumping'
  BY <1>1, <1>3, <1>4 DEF Fill, Types, Dumping, Places, Frames, Protocol, Trusted, Clean,
     Controlled, Inner, Ended, Taking, Giving
<1>11. Delivered'
  BY <1>1, <1>3, <1>4 DEF Fill, Types, Delivered, Places, Frames, Inner
<1>12. Counted'
  BY <1>1, <1>3, <1>4 DEF Fill, Types, Counted, Places, Frames, Inner, Taking, Locals
<1>13. Buffered' BY FillTrue
<1> QED BY <1>2, <1>5, <1>6, <1>7, <1>8, <1>9, <1>10, <1>11, <1>12, <1>13 DEF Access

LEMMA FindAccess ==
  ASSUME Inv, Inv', Access, Find PROVE Access'
<1>1. /\ Registers /\ Locals /\ Places /\ Frames /\ Types /\ Types' /\ Protocol
      /\ Results /\ Dumping /\ Asked /\ Delivered /\ Counted /\ Buffered
  BY DEF Access, Inv
<1>2. Registers' /\ Asked' BY <1>1, Quiet DEF Find, Rest
<1>3. UNCHANGED <<rom, busy, data, nack, call, here, asked>> BY DEF Find, Rest
<1>4. /\ (Idle' <=> Idle) /\ (Loaded' <=> Loaded)
      /\ UNCHANGED <<word, edat>>
      /\ (Done' <=> Done) /\ Cmd' = Cmd
      /\ (HasRead' <=> HasRead)
      /\ (AskedRead' <=> AskedRead)
  BY <1>3, Same DEF Find, Rest, Send, Wait, Restore, eeprom2pdi, eeprom2master
<1>5. Locals'
  BY <1>1, <1>3, <1>4 DEF Find, Restore, eeprom2pdi, Send, Types, Locals, Places, Giving,
     Restores, Kept, Getters, Walkers, Finders
<1>6. Places'
  <2>1. pc = "walk" /\ call.fn \in Walkers /\ UNCHANGED <<call, eep_pdi, word>>
    BY <1>1 DEF Find, Places, Getters
  <2>2. \/ Restore("walk")
        \/ Restore("idle")
    BY DEF Find
  <2>3. \/ pc' \in {"walk", "idle"}
        \/ pc' = "exchange" /\ return' = "given" /\ back' \in {"walk", "idle"}
    BY <2>2, RestorePlace
  <2> QED BY <2>1, <2>3 DEF Places, Inner, Taking, Getters, Walkers, Finders
<1>7. Frames'
  BY <1>1, <1>3, <1>4 DEF Find, Restore, eeprom2pdi, Send, Types, Frames, Places, Inner, Cmd
<1>8. Protocol'
  BY <1>1, <1>3, <1>4 DEF Find, Restore, eeprom2pdi, Send, Types, Protocol, Places, Frames,
     Ended, Trusted, Clean, Controlled, Counted, Locals, Places, Giving, Restores, Kept, Getters,
     Walkers, Finders
<1>9. Results'
  BY <1>1, <1>3, <1>4 DEF Find, Restore, eeprom2pdi, Send, Types, Results, Places, Frames,
     Protocol, Trusted, Clean, Controlled, Ended, Inner, Counted, Places, Giving, Restores, Kept,
     Getters, Walkers, Finders
<1>10. Dumping'
  BY <1>1, <1>3, <1>4 DEF Find, Restore, eeprom2pdi, Send, Types, Dumping, Places, Frames,
     Protocol, Trusted, Clean, Controlled, Inner, Ended, Taking, Giving, Places, Giving,
     Restores, Kept, Getters, Walkers, Finders
<1>11. Delivered'
  BY <1>1, <1>3, <1>4 DEF Find, Restore, eeprom2pdi, Send, Types, Delivered, Places, Frames,
     Inner, Places, Giving, Restores, Kept, Getters, Walkers, Finders
<1>12. Counted'
  BY <1>1, <1>3, <1>4 DEF Find, Restore, eeprom2pdi, Send, Types, Counted, Places, Frames, Inner,
     Taking, Locals, Places, Giving, Restores, Kept, Getters, Walkers, Finders
<1>13. Buffered' BY <1>1, SameCache DEF Find, Rest
<1> QED BY <1>2, <1>5, <1>6, <1>7, <1>8, <1>9, <1>10, <1>11, <1>12, <1>13 DEF Access

LEMMA FoundAccess ==
  ASSUME Inv, Inv', Access, Found PROVE Access'
<1>1. /\ Registers /\ Locals /\ Places /\ Frames /\ Types /\ Types' /\ Protocol
      /\ Results /\ Dumping /\ Asked /\ Delivered /\ Counted /\ Buffered
  BY DEF Access, Inv
<1>2. Registers' /\ Asked' BY <1>1, Quiet DEF Found, Rest
<1>3. UNCHANGED <<rom, busy, data, nack, call, here, asked>> BY DEF Found, Rest
<1>4. /\ (Idle' <=> Idle) /\ (Loaded' <=> Loaded)
      /\ UNCHANGED <<word, edat>>
      /\ (Done' <=> Done) /\ Cmd' = Cmd
      /\ (HasRead' <=> HasRead)
      /\ (AskedRead' <=> AskedRead)
  BY <1>3, Same DEF Found, Rest, Send, Wait, Restore, eeprom2pdi, eeprom2master
<1>5. Locals'
  BY <1>1, <1>3, <1>4 DEF Found, Restore, eeprom2pdi, Send, Types, Locals, Places, Giving,
     Restores, Kept, Getters, Walkers, Finders
<1>6. Places'
  BY <1>1, <1>3, <1>4, ZenonT(60) DEF Found, Restore, eeprom2pdi, Send, Types, Places, Inner,
     Taking, Giving, Restores, Kept, Getters, Walkers, Finders
<1>7. Frames'
  BY <1>1, <1>3, <1>4 DEF Found, Restore, eeprom2pdi, Send, Types, Frames, Places, Inner, Cmd
<1>8. Protocol'
  BY <1>1, <1>3, <1>4 DEF Found, Restore, eeprom2pdi, Send, Types, Protocol, Places, Frames,
     Ended, Trusted, Clean, Controlled, Counted, Locals, Places, Giving, Restores, Kept, Getters,
     Walkers, Finders
<1>9. Results'
  BY <1>1, <1>3, <1>4 DEF Found, Restore, eeprom2pdi, Send, Types, Results, Places, Frames,
     Protocol, Trusted, Clean, Controlled, Ended, Inner, Counted, Places, Giving, Restores, Kept,
     Getters, Walkers, Finders
<1>10. Dumping'
  BY <1>1, <1>3, <1>4 DEF Found, Restore, eeprom2pdi, Send, Types, Dumping, Places, Frames,
     Protocol, Trusted, Clean, Controlled, Inner, Ended, Taking, Giving, Places, Giving,
     Restores, Kept, Getters, Walkers, Finders
<1>11. Delivered'
  BY <1>1, <1>3, <1>4 DEF Found, Restore, eeprom2pdi, Send, Types, Delivered, Places, Frames,
     Inner, Places, Giving, Restores, Kept, Getters, Walkers, Finders
<1>12. Counted'
  BY <1>1, <1>3, <1>4, ZenonT(60) DEF Found, Restore, eeprom2pdi, Send, Types, Counted, Places,
     Frames, Inner, Taking, Locals, Giving, Restores, Kept, Getters, Walkers, Finders
<1>13. Buffered' BY <1>1, <1>3, SwitchKeeps, SameCache DEF Found, Types
<1> QED BY <1>2, <1>5, <1>6, <1>7, <1>8, <1>9, <1>10, <1>11, <1>12, <1>13 DEF Access

LEMMA StartAccess ==
  ASSUME Inv, Inv', Access, Start PROVE Access'
<1>1. /\ Registers /\ Locals /\ Places /\ Frames /\ Types /\ Types' /\ Protocol
      /\ Results /\ Dumping /\ Asked /\ Delivered /\ Counted /\ Buffered
  BY DEF Access, Inv
<1>2. Registers' /\ Asked' BY <1>1, Quiet DEF Start, Rest
<1>3. UNCHANGED <<rom, busy, data, nack, call, here, asked>> BY DEF Start, Rest
<1>4. /\ (Idle' <=> Idle) /\ (Loaded' <=> Loaded)
      /\ UNCHANGED <<edat, value>>
      /\ (ReadRight' <=> ReadRight) /\ (WriteRight' <=> WriteRight)
      /\ (DumpRight' <=> DumpRight) /\ (AskedRight' <=> AskedRight)
      /\ (AskedRead' <=> AskedRead)
  BY <1>3, Same DEF Start, Rest, Send, Wait, Restore, eeprom2pdi, eeprom2master
<1>4a. /\ pc = "start" /\ UNCHANGED <<sent, nackcnt, faults, call, here, slipped, lost, value>>
       /\ pc' \in {"walk", "wait", "exchange", "idle"}
       /\ pc' = "wait" => return' \in {"status", "fetch"}
       /\ pc' = "exchange" => return' \in {"forced", "given"}
       /\ pc' = "idle" => call.fn \in {"2master", "2pdi"}
  BY DEF Start, eeprom2master, eeprom2pdi, Wait, Send
<1>5. Locals'
  <2>1. UNCHANGED <<edat, seen, call, faults, slipped, sent, nackcnt, value>> /\ wkc' = wkc
    BY DEF Start, eeprom2master, eeprom2pdi, Wait, Send
  <2>2. word' \in {word, call.arg, ECT_SII_START} BY DEF Start, eeprom2pdi, Send
  <2>3. word' \in Nat
    BY <1>1, <2>2, CallAssumption, FormatAssumption, ZenonT(60) DEF Locals, Start, Types
  <2> QED BY <1>1, <2>1, <2>3 DEF Locals
<1>6. Places'
  <2>1. pc = "start" /\ UNCHANGED <<call, eep_pdi, esislave, nackcnt, value, eectl>> BY DEF Start
  <2>2. value = <<>> /\ (eectl <=> eep_pdi[Slave]) /\ nackcnt = 0 BY <1>1, <2>1 DEF Places, Counted
  <2>3. CASE pc' = "walk" /\ call.fn \in Getters /\ (call.fn = "getbyte" => phase' = "body")
    BY <2>1, <2>3 DEF Places, Inner, Taking, Getters, Walkers, Finders
  <2>4. CASE /\ call.fn \in {"read", "write", "read1", "dump"} /\ eeprom2master("status")
             /\ call.fn = "read" => back' = "returned" /\ word' = call.arg
             /\ call.fn = "dump" => back' = "dumped" /\ word' = ECT_SII_START
             /\ call.fn \in {"write", "read1"} => back' = "idle" /\ word' = call.arg
    <3>1. \/ pc' = "exchange" /\ return' = "forced"
          \/ pc' = "wait" /\ return' = "status" /\ ~eep_pdi[Slave]
      BY <2>4, ToMasterPlace
    <3> QED BY <2>1, <2>2, <2>4, <3>1 DEF Places, Inner, Taking, Getters, Walkers, Finders
  <2>5. CASE /\ call.fn \in AP /\ pc' = "wait" /\ return' = "status" /\ word' = call.arg
             /\ back' = IF call.fn = "readAP" THEN "returned" ELSE "idle"
    BY <2>1, <2>5 DEF Places, Inner, Taking, Getters, Walkers, Finders
  <2>6. CASE /\ call.fn = "read2" /\ back' = "returned" /\ pc' = "wait" /\ return' = "fetch"
    BY <2>1, <2>2, <2>6 DEF Places, Inner, Taking, Getters, Walkers, Finders
  <2>7. CASE call.fn = "2master" /\ eeprom2master("idle")
    <3>1. \/ pc' = "exchange" /\ return' = "forced"
          \/ pc' = "idle"
      BY <2>7 DEF eeprom2master, Send
    <3> QED BY <2>1, <2>7, <3>1 DEF Places, Inner, Taking, Getters, Walkers, Finders
  <2>8. CASE call.fn = "2pdi" /\ eeprom2pdi("idle")
    <3>1. \/ pc' = "exchange" /\ return' = "given" /\ back' = "idle"
          \/ pc' = "idle"
      BY <2>8 DEF eeprom2pdi, Send
    <3> QED BY <2>1, <2>8, <3>1 DEF Places, Inner, Taking, Getters, Walkers, Finders
  <2> QED BY <2>3, <2>4, <2>5, <2>6, <2>7, <2>8, StartPlace
<1>7. Frames'
  BY <1>1, <1>3, <1>4 DEF Start, eeprom2master, eeprom2pdi, Wait, Send, Types, Frames, Places,
     Inner, Cmd
<1>8. Protocol'
  <2> SUFFICES ASSUME Trusted' PROVE Protocol' BY DEF Protocol
  <2>1. pc' = "wait" => return' # "executed" BY <1>4a
  <2>2. pc' = "exchange" => return' # back' BY <1>1, <1>4a DEF Types
  <2> QED BY <1>4a, <2>1, <2>2 DEF Protocol, Ended
<1>9. Results' BY <1>4a DEF Results
<1>10. Dumping'
  <2> SUFFICES ASSUME call.fn = "dump" PROVE Dumping' BY <1>3 DEF Dumping
  <2>1. pc = "start" /\ UNCHANGED <<call, eep_pdi, value, eectl, lost, slipped>> BY DEF Start
  <2>2. value = <<>> /\ (eectl <=> eep_pdi[Slave]) BY <1>1, <2>1 DEF Places
  <2>3. eeprom2master("status") /\ word' = ECT_SII_START BY StartPlace DEF Getters, Walkers, Finders
  <2>4. \/ pc' = "exchange" /\ return' = "forced"
        \/ pc' = "wait" /\ return' = "status" /\ ~eep_pdi[Slave]
    BY <2>3, ToMasterPlace
  <2>5. DumpRight /\ Len(value) = 0 BY <2>2, EmptyBytes DEF DumpRight
  <2>6. 2 * word' = 2 * ECT_SII_START + Len(value) BY <2>3, <2>5, FormatAssumption
  <2> QED BY <1>3, <1>4, <2>1, <2>2, <2>4, <2>5, <2>6 DEF Dumping, Inner, Ended
<1>11. Delivered'
  BY <1>1, <1>3, <1>4 DEF Start, eeprom2master, eeprom2pdi, Wait, Send, Types, Delivered, Places,
     Frames, Inner, Places, Giving, Restores, Kept, Getters, Walkers, Finders
<1>12. Counted'
  <2>1. sent = 0 /\ nackcnt = 0 /\ faults \in Nat BY <1>1, <1>4a DEF Counted, Locals
  <2>2. sent <= 3 + faults /\ nackcnt <= 2 BY <2>1
  <2> QED BY <1>4a, <2>1, <2>2 DEF Counted, Taking
<1>13. Buffered' BY <1>1, SameCache DEF Start, Rest
<1> QED BY <1>2, <1>5, <1>6, <1>7, <1>8, <1>9, <1>10, <1>11, <1>12, <1>13 DEF Access

-----------------------------------------------------------------------------
(***************************************************************************)
(* A call; the slaves; and the datagrams, with what one does that arrives. *)
(***************************************************************************)
LEMMA CallAccess ==
  ASSUME Inv, Inv', Access, Call PROVE Access'
<1>0. Registers /\ Locals /\ Asked /\ Buffered BY DEF Access
<1>1. PICK c \in Calls :
        /\ call' = c /\ eectl' = eep_pdi[c.slave]
        /\ asked' = IF c.fn = "read1" THEN [asked EXCEPT ![c.slave] = <<>>] ELSE asked
  BY DEF Call
<1>2. c.fn # "none" BY CallAssumption
<1>3. /\ pc' = "start" /\ value' = <<>> /\ sent' = 0 /\ nackcnt' = 0 /\ word' = 0 /\ wkc' = 0
      /\ UNCHANGED <<rom, busy, data, nack, here, cache, eep_pdi, faults>>
  BY DEF Call
<1>4. Registers' BY <1>0, <1>1, <1>3 DEF Registers
<1>5. Locals'
  <2>1. edat' \in Seq(Octets) /\ value' \in Seq(Octets) BY EmptySeq DEF Call
  <2>2. slipped' \in BOOLEAN
    <3>1. slipped' = FALSE BY DEF Call
    <3> QED BY <3>1
  <2>3. seen' \in {"ready", "nack", "busy", "nothing"} BY DEF Call
  <2>4. word' \in Nat /\ nackcnt' \in 0 .. 3 /\ sent' \in Nat /\ wkc' \in Int BY <1>3
  <2>5. faults' \in Nat BY <1>0, <1>3 DEF Locals
  <2>6. call' \in Calls BY <1>1
  <2> QED BY <2>1, <2>2, <2>3, <2>4, <2>5, <2>6 DEF Locals
<1>6. Places' BY <1>1, <1>3 DEF Places, Inner, Taking
<1>7. Frames' BY <1>3 DEF Frames
<1>8. Protocol' /\ Results' BY <1>3 DEF Protocol, Ended, Results
<1>9. Dumping' BY <1>3 DEF Dumping, Inner, Ended
<1>10. Asked' BY <1>0, <1>1, <1>3 DEF Asked, Registers, Bytes, Byte
<1>11. Delivered'
  <2>1. Types' BY DEF Inv
  <2> QED BY <1>3, <2>1 DEF Delivered, Types
<1>12. Counted'
  <2>1. faults \in Nat BY <1>0 DEF Locals
  <2>2. sent' <= 3 + faults' BY <1>3, <2>1
  <2> QED BY <1>3, <2>2 DEF Counted, Taking
<1>13. Buffered' BY <1>0, <1>3, SameCache
<1> QED BY <1>4, <1>5, <1>6, <1>7, <1>8, <1>9, <1>10, <1>11, <1>12, <1>13 DEF Access

\* A slave that stops answering; its registers stay as they are.
LEMMA LeaveAccess ==
  ASSUME Inv, Inv', Access, NEW s \in Slaves, Leave(s) PROVE Access'
<1>0. /\ Registers /\ Locals /\ Places /\ Frames /\ Protocol /\ Results /\ Dumping
      /\ Asked /\ Delivered /\ Counted /\ Buffered /\ Types
  BY DEF Access, Inv
<1>1. /\ UNCHANGED <<rom, busy, data, nack, cache, eep_pdi, wire, pc, locals, slipped, sent, lost>>
      /\ faults' = faults + 1
      /\ here' = [here EXCEPT ![s] = FALSE] /\ asked' = [asked EXCEPT ![s] = <<>>]
  BY DEF Leave, Fault
<1>2. /\ UNCHANGED <<call, word, edat, value, back, seen, return, frame, wkc, nackcnt>>
      /\ UNCHANGED <<eectl, phase, esislave, esibuf, spoilt>>
  BY <1>1
<1>3. /\ Idle' <=> Idle
      /\ Loaded' <=> Loaded
      /\ (Done' <=> Done) /\ Cmd' = Cmd
      /\ HasRead' <=> HasRead
      /\ (ReadRight' <=> ReadRight) /\ (WriteRight' <=> WriteRight) /\ (DumpRight' <=> DumpRight)
  BY <1>1, <1>2, Same
<1>4. Registers' BY <1>0, <1>1 DEF Registers
<1>5. Locals'
  <2>1. faults' \in Nat BY <1>0, <1>1 DEF Locals
  <2> QED BY <1>0, <1>1, <1>2, <2>1 DEF Locals
<1>6. Places' BY <1>0, <1>1, SamePlaces
<1>7. Frames' BY <1>0, <1>1, <1>2, <1>3 DEF Frames
<1>8. Trusted' <=> Trusted BY <1>1, <1>2 DEF Trusted, Clean, Controlled
<1>9. Protocol' BY <1>0, <1>1, <1>2, <1>3, <1>8 DEF Protocol, Ended
<1>10. Results' BY <1>0, <1>1, <1>2, <1>3, <1>8 DEF Results
<1>11. Dumping'
  <2>1. UNCHANGED <<pc, return, call, value, eectl, slipped, lost, word>> BY <1>1
  <2>2. (Inner' <=> Inner) /\ (Ended' <=> Ended) /\ (Clean' <=> Clean)
    BY <2>1 DEF Inner, Ended, Clean
  <2> QED BY <1>0, <1>1, <1>3, <2>1, <2>2 DEF Dumping
<1>12. \A t \in Slaves : asked'[t] \in {asked[t], <<>>} BY <1>0, <1>1 DEF Registers
<1>13. Asked' BY <1>0, <1>1, <1>12 DEF Asked, Bytes, Byte
<1>14. Delivered'
  <2> SUFFICES ASSUME call.fn = "read2" PROVE Delivered' BY <1>2 DEF Delivered
  <2>1. asked'[Slave] \in {asked[Slave], <<>>} BY <1>0, <1>12 DEF Types
  <2>2. (AskedRead => AskedRead') /\ (AskedRight => AskedRight')
    BY <1>1, <1>2, <2>1 DEF AskedRead, AskedRight, Bytes, Byte
  <2> QED BY <1>0, <1>1, <1>2, <1>3, <2>2 DEF Delivered
<1>15. Counted'
  <2>1. sent \in Nat /\ nackcnt \in Nat /\ faults \in Nat BY <1>0 DEF Locals
  <2>2. \A n \in Nat : sent <= n + faults => sent <= n + faults' BY <1>1, <2>1
  <2>3. sent <= 3 + faults => sent <= 3 + faults' BY <2>2
  <2>4. /\ sent <= nackcnt + faults => sent <= nackcnt + faults'
        /\ sent <= nackcnt + 1 + faults => sent <= nackcnt + 1 + faults'
    BY <2>1, <2>2
  <2>5. call.fn # "none" /\ here'[Slave] => here[Slave] BY <1>0, <1>1 DEF Registers, Types
  <2> QED BY <1>0, <1>1, <1>2, <2>3, <2>4, <2>5 DEF Counted, Taking
<1>16. Buffered' BY <1>0, <1>1, SameCache
<1> QED BY <1>4, <1>5, <1>6, <1>7, <1>9, <1>10, <1>11, <1>13, <1>14, <1>15, <1>16 DEF Access

\* The EEPROM of slave s finishes its command.
LEMMA CompleteSlaves ==
  ASSUME Inv, Access, NEW s \in Slaves, Complete(s)
  PROVE  /\ Registers'
         /\ Asked'
         /\ Buffered'
         /\ \A t \in Slaves \ {s} : /\ rom'[t] = rom[t] /\ busy'[t] = busy[t] /\ data'[t] = data[t]
                                   /\ asked'[t] = asked[t] /\ nack'[t] = nack[t]
         /\ busy[s] # <<>> /\ busy'[s] = <<>>
         /\ asked'[s] \in {asked[s], <<>>}
         /\ \/ nack'[s] /\ rom' = rom /\ data' = data
            \/ /\ busy[s][1] = "read" /\ rom' = rom
               /\ data'[s] = Bytes(s, busy[s][2], Width(s))
            \/ /\ busy[s][1] = "write" /\ data' = data
               /\ \A i \in DOMAIN Image[s] :
                    i \div 2 = busy[s][2] => rom'[s][i] = data[s][1 + (i % 2)]
<1>0. Registers /\ Asked /\ Buffered BY DEF Access
<1>1. /\ busy[s] # <<>> /\ busy' = [busy EXCEPT ![s] = <<>>]
      /\ UNCHANGED <<here, esislave, esibuf>>
      /\ asked' \in {asked, [asked EXCEPT ![s] = <<>>]}
      /\ \E b \in BOOLEAN : nack' = [nack EXCEPT ![s] = b]
  BY DEF Complete
<1>2. /\ rom = [t \in Slaves |-> rom[t]] /\ busy = [t \in Slaves |-> busy[t]]
      /\ data = [t \in Slaves |-> data[t]] /\ asked = [t \in Slaves |-> asked[t]]
      /\ nack \in [Slaves -> BOOLEAN]
      /\ \A t \in Slaves : rom[t] \in [DOMAIN Image[t] -> Octets]
      /\ \A t \in Slaves : data[t] \in Seq(Octets) /\ Len(data[t]) = Width(t)
  BY <1>0 DEF Registers
<1>3. /\ busy' = [t \in Slaves |-> busy'[t]] /\ busy'[s] = <<>>
      /\ asked' = [t \in Slaves |-> asked'[t]] /\ asked'[s] \in {asked[s], <<>>}
      /\ nack' \in [Slaves -> BOOLEAN] /\ here' \in [Slaves -> BOOLEAN]
      /\ \A t \in Slaves \ {s} : busy'[t] = busy[t] /\ asked'[t] = asked[t] /\ nack'[t] = nack[t]
  BY <1>0, <1>1, <1>2 DEF Registers
<1>4. CASE rom' = rom /\ data' = data /\ spoilt' = spoilt /\ nack'[s]
           /\ asked' = [asked EXCEPT ![s] = <<>>]
  <2>1. Registers' BY <1>2, <1>3, <1>4 DEF Registers
  <2>2. asked'[s] = <<>> BY <1>2, <1>4
  <2>3. Asked' BY <1>0, <1>2, <1>3, <1>4, <2>2 DEF Asked, Bytes, Byte
  <2>4. Buffered' BY <1>0, <1>1, <1>4, SameCache
  <2> QED BY <1>1, <1>3, <1>4, <2>1, <2>3, <2>4
<1>5. CASE /\ busy[s][1] = "read" /\ data' = [data EXCEPT ![s] = Bytes(s, busy[s][2], Width(s))]
           /\ rom' = rom /\ spoilt' = spoilt
  <2>1. data'[s] = Bytes(s, busy[s][2], Width(s)) BY <1>2, <1>5
  <2>2. \A t \in Slaves \ {s} : data'[t] = data[t] BY <1>2, <1>5
  <2>3. data'[s] \in Seq(Octets) /\ Len(data'[s]) = Width(s)
    <3>1. Width(s) \in Nat BY WidthIs
    <3>2. rom[s] \in [DOMAIN Image[s] -> Octets] BY <1>2
    <3> HIDE DEF Slave
    <3>3. \A w : Bytes(s, w, Width(s)) \in Seq(Octets) /\ Len(Bytes(s, w, Width(s))) = Width(s)
      BY <3>1, <3>2, BytesType
    <3> QED BY <2>1, <3>3
  <2>4. Registers'
    <3>1. data' = [t \in Slaves |-> data'[t]] BY <1>2, <1>5
    <3> QED BY <1>2, <1>3, <1>5, <2>2, <2>3, <3>1 DEF Registers
  <2>5. Asked'
    <3> SUFFICES ASSUME NEW t \in Slaves, asked'[t] # <<>>
                 PROVE  \/ busy'[t] = <<"read", asked'[t][1]>>
                        \/ busy'[t] = <<>> /\ data'[t] = Bytes(t, asked'[t][1], Width(t))
      BY <1>5 DEF Asked, Bytes, Byte
    <3>1. CASE t = s
      <4>1. asked'[s] = asked[s] BY <1>3, <3>1
      <4>2. busy[s] = <<"read", asked[s][1]>> BY <1>0, <1>1, <3>1, <4>1 DEF Asked
      <4> QED BY <1>3, <2>1, <3>1, <4>1, <4>2
    <3>2. CASE t # s BY <1>0, <1>3, <2>2, <3>2 DEF Asked
    <3> QED BY <3>1, <3>2
  <2>6. Buffered' BY <1>0, <1>1, <1>5, SameCache
  <2> QED BY <1>1, <1>3, <1>5, <2>1, <2>2, <2>4, <2>5, <2>6
<1>6. CASE busy[s][1] = "write" /\ Burn(s, busy[s][2], data[s]) /\ data' = data
  <2>1. rom' = [rom EXCEPT ![s] = [i \in DOMAIN @ |-> IF i \div 2 = busy[s][2]
                                                      THEN data[s][1 + (i % 2)] ELSE @[i]]]
    BY <1>6 DEF Burn
  <2>2. /\ rom' = [t \in Slaves |-> rom'[t]]
        /\ \A t \in Slaves \ {s} : rom'[t] = rom[t]
        /\ rom'[s] = [i \in DOMAIN Image[s] |-> IF i \div 2 = busy[s][2]
                                                THEN data[s][1 + (i % 2)] ELSE rom[s][i]]
    BY <1>2, <2>1
  <2>3. rom'[s] \in [DOMAIN Image[s] -> Octets]
    <3> SUFFICES ASSUME NEW i \in DOMAIN Image[s] PROVE rom'[s][i] \in Octets BY <2>2
    <3>1. i \in Nat BY ImageDomain
    <3>2. 1 + (i % 2) \in 1 .. Len(data[s]) BY <1>2, <3>1, WidthIs
    <3>3. data[s][1 + (i % 2)] \in Octets BY <1>2, <3>2, ElementOfSeq
    <3> QED BY <1>2, <2>2, <3>3
  <2>4. Registers' BY <1>2, <1>3, <1>6, <2>2, <2>3 DEF Registers
  <2>5. Asked'
    <3> SUFFICES ASSUME NEW t \in Slaves, asked'[t] # <<>>
                 PROVE  \/ busy'[t] = <<"read", asked'[t][1]>>
                        \/ busy'[t] = <<>> /\ (data[t] = Bytes(t, asked[t][1], Width(t)))'
      BY DEF Asked
    <3>1. t # s
      <4> SUFFICES ASSUME t = s PROVE FALSE OBVIOUS
      <4>1. asked'[s] = asked[s] BY <1>3
      <4>2. busy[s] = <<"read", asked[s][1]>> BY <1>0, <1>1, <4>1 DEF Asked
      <4>3. busy[s][1] = "read" BY <4>2
      <4> QED BY <1>6, <4>3
    <3> QED BY <1>0, <1>3, <1>6, <2>2, <3>1 DEF Asked, Bytes, Byte
  <2>6. Buffered'
    <3>1. CASE s # esislave
      <4>1. spoilt' = spoilt BY <1>6, <3>1 DEF Burn
      <4>2. esislave \in Slaves => rom'[esislave] = rom[esislave] BY <2>2, <3>1
      <4> QED BY <1>0, <1>1, <4>1, <4>2 DEF Buffered, CacheTrue, esimap, Byte
    <3>2. CASE s = esislave
      <4>1. spoilt' = spoilt \cup ({2 * busy[s][2], 2 * busy[s][2] + 1} \cap esimap)
        BY <1>6, <3>2 DEF Burn
      <4>2. \A i \in DOMAIN Image[s] :
              i \div 2 = busy[s][2] => i \in {2 * busy[s][2], 2 * busy[s][2] + 1}
        <5> TAKE i \in DOMAIN Image[s]
        <5>1. i \in Nat BY ImageDomain
        <5>2. i \in {2 * (i \div 2), 2 * (i \div 2) + 1} BY <5>1
        <5> QED BY <5>2
      <4> SUFFICES ASSUME NEW i \in esimap \ spoilt' PROVE esibuf[i] = Byte(s, i)'
        BY <1>0, <1>1, <3>2 DEF Buffered, CacheTrue, esimap
      <4>3. i \in esimap \ spoilt /\ i \notin {2 * busy[s][2], 2 * busy[s][2] + 1} BY <4>1
      <4>4. esibuf[i] = Byte(s, i) BY <1>0, <3>2, <4>3 DEF Buffered, CacheTrue
      <4>5. i \in DOMAIN Image[s] => rom'[s][i] = rom[s][i] BY <2>2, <4>2, <4>3
      <4>6. DOMAIN rom[s] = DOMAIN Image[s] /\ DOMAIN rom'[s] = DOMAIN Image[s] BY <1>2, <2>2
      <4> QED BY <4>4, <4>5, <4>6 DEF Byte
    <3> QED BY <3>1, <3>2
  <2> QED BY <1>1, <1>3, <1>6, <2>2, <2>4, <2>5, <2>6
<1>7. nack' = [nack EXCEPT ![s] = TRUE] => nack'[s] BY <1>2
<1> QED BY <1>4, <1>5, <1>6, <1>7 DEF Complete

LEMMA CompleteAccess ==
  ASSUME Inv, Inv', Access, NEW s \in Slaves, Complete(s) PROVE Access'
<1>0. /\ Registers /\ Locals /\ Places /\ Frames /\ Protocol /\ Results /\ Dumping
      /\ Asked /\ Delivered /\ Counted /\ Buffered /\ Types
  BY DEF Access, Inv
<1>1. UNCHANGED <<here, eep_pdi, wire, pc, locals, faults, slipped, sent, lost, esislave, esibuf>>
  BY DEF Complete
<1>2. UNCHANGED <<call, word, edat, value, back, seen, return, frame, wkc, nackcnt, eectl, phase>>
  BY <1>1
<1>3. Locals' BY <1>0, <1>1, <1>2 DEF Locals, Buffered, esimap
<1>4. Places' BY <1>0, <1>1, SamePlaces
<1>5. Cmd' = Cmd BY <1>2 DEF Cmd
<1>6. Frames' BY <1>0, <1>1, <1>2, <1>5 DEF Frames
<1>7. (Trusted' <=> Trusted) /\ (Clean' <=> Clean) BY <1>1, <1>2 DEF Trusted, Clean, Controlled
<1>8. (Inner' <=> Inner) /\ (Ended' <=> Ended) /\ (Taking' <=> Taking)
  BY <1>1, <1>2 DEF Inner, Ended, Taking
<1>9. Counted' BY <1>0, <1>1, <1>2, <1>8 DEF Counted
<1>10. Protocol' /\ Results' /\ Dumping' /\ Delivered'
  <2>1. CASE Slave = s
    <3>1. ~Idle /\ Idle' BY <2>1, <1>2, CompleteSlaves DEF Idle
    <3>2. CASE nack'[s] /\ rom' = rom /\ data' = data
      <4>1. /\ Loaded' <=> Loaded
            /\ (Done' <=> Done) /\ (DumpRight' <=> DumpRight)
        BY <1>2, <3>2 DEF Loaded, Done, DumpRight, Bytes, Byte
      <4>2. nack'[Slave'] BY <1>2, <2>1, <3>2
      <4>3. Protocol' BY <1>0, <1>1, <1>2, <1>7, <1>8, <3>1, <4>1, <4>2 DEF Protocol
      <4>4. Dumping' BY <1>0, <1>1, <1>2, <1>7, <1>8, <3>1, <4>1 DEF Dumping
      <4> QED BY <1>0, <1>1, <1>2, <1>7, <3>1, <4>3, <4>4 DEF Results, Delivered
    <3>3. CASE /\ busy[s][1] = "read" /\ rom' = rom
               /\ data'[s] = Bytes(s, busy[s][2], Width(s))
      <4>1. DumpRight' <=> DumpRight BY <1>2, <3>3 DEF DumpRight, Bytes, Byte
      <4>2. busy[Slave] = Cmd => call.fn \notin Writes /\ Loaded' /\ Done'
        <5> SUFFICES ASSUME busy[Slave] = Cmd PROVE call.fn \notin Writes /\ Loaded' /\ Done'
          OBVIOUS
        <5>1. call.fn \notin Writes /\ busy[s][2] = word BY <2>1, <3>3 DEF Cmd
        <5>2. data'[Slave] = Bytes(Slave, word, Width(Slave)) BY <2>1, <3>3, <5>1
        <5> QED BY <1>2, <3>3, <5>1, <5>2 DEF Loaded, Done, Bytes, Byte
      <4>3. Protocol' BY <1>0, <1>1, <1>2, <1>7, <1>8, <3>1, <4>2 DEF Protocol
      <4>4. Dumping' BY <1>0, <1>1, <1>2, <1>7, <1>8, <3>1, <4>1 DEF Dumping
      <4> QED BY <1>0, <1>1, <1>2, <1>7, <3>1, <4>3, <4>4 DEF Results, Delivered
    <3>4. CASE /\ busy[s][1] = "write" /\ data' = data
               /\ \A i \in DOMAIN Image[s] :
                    i \div 2 = busy[s][2] => rom'[s][i] = data[s][1 + (i % 2)]
      <4>1. busy[Slave] = Cmd => call.fn \in Writes /\ word = busy[s][2]
        BY <2>1, <3>4 DEF Cmd
      <4>2. Loaded' <=> Loaded BY <1>2, <3>4 DEF Loaded
      <4>3. ASSUME busy[Slave] = Cmd, Loaded, word = call.arg PROVE Done'
        <5>1. call \in Calls /\ call.fn \in Writes /\ word = busy[s][2]
          BY <1>0, <4>1, <4>3 DEF Locals
        <5>2. /\ {2 * word, 2 * word + 1} \subseteq DOMAIN Image[s] /\ word \in Nat
              /\ call.data \in [1 .. 2 -> 0 .. 255]
          BY <2>1, <4>3, <5>1, CallAssumption, ZenonT(60)
        <5>3. /\ (2 * word) \div 2 = word /\ (2 * word) % 2 = 0
              /\ (2 * word + 1) \div 2 = word /\ (2 * word + 1) % 2 = 1
          BY <5>2, Halves
        <5>4. rom'[s][2 * word] = data[s][1] /\ rom'[s][2 * word + 1] = data[s][2]
          BY <3>4, <5>1, <5>2, <5>3
        <5>5. rom'[s][2 * word] = call.data[1] /\ rom'[s][2 * word + 1] = call.data[2]
          BY <2>1, <4>3, <5>1, <5>4 DEF Loaded
        <5>6. DOMAIN rom'[s] = DOMAIN Image[s] BY CompleteSlaves DEF Registers
        <5>7. \A i \in 1 .. 2 : Byte(s, 2 * word + i - 1)' = call.data[i]
          <6>1. 2 * word + 1 - 1 = 2 * word /\ 2 * word + 2 - 1 = 2 * word + 1 BY <5>2
          <6>2. UNCHANGED word BY <1>2
          <6> QED BY <5>2, <5>5, <5>6, <6>1, <6>2 DEF Byte
        <5>8. Bytes(s, word, 2)' = call.data BY <1>2, <5>2, <5>7 DEF Bytes
        <5> QED BY <1>2, <2>1, <5>1, <5>8 DEF Done
      <4>4. busy[Slave] = Cmd => call.fn # "dump" BY <4>1
      <4>5. Protocol'
        <5>1. (pc = "commanded" \/ For("executed")) /\ call.fn \in Writes => word = call.arg
          BY <1>0 DEF Places
        <5> QED BY <1>0, <1>1, <1>2, <1>7, <1>8, <3>1, <4>1, <4>2, <4>3, <5>1 DEF Protocol
      <4>6. Dumping'
        <5> SUFFICES ASSUME call.fn = "dump" PROVE Dumping' BY <1>2 DEF Dumping
        <5>1. Clean /\ pc # "start" => value = <<>> BY <1>0, <3>1, <4>4 DEF Dumping
        <5>2. value = <<>> => DumpRight' BY <1>2, EmptyBytesNext DEF DumpRight
        <5> QED BY <1>0, <1>1, <1>2, <1>7, <1>8, <3>1, <5>1, <5>2 DEF Dumping
      <4> QED BY <1>0, <1>1, <1>2, <1>7, <3>1, <4>5, <4>6 DEF Results, Delivered
    <3> QED BY <3>2, <3>3, <3>4, CompleteSlaves
  <2>2. CASE Slave # s
    <3>1. call.fn # "none" => /\ rom'[Slave] = rom[Slave] /\ busy'[Slave] = busy[Slave]
                             /\ data'[Slave] = data[Slave] /\ asked'[Slave] = asked[Slave]
                             /\ nack'[Slave] = nack[Slave]
      BY <1>0, <2>2, CompleteSlaves DEF Types
    <3>2. call.fn # "none" =>
            /\ Idle' <=> Idle
            /\ Loaded' <=> Loaded
            /\ Done' <=> Done
            /\ HasRead' <=> HasRead
            /\ (ReadRight' <=> ReadRight) /\ (WriteRight' <=> WriteRight)
            /\ DumpRight' <=> DumpRight
            /\ (AskedRead' <=> AskedRead) /\ (AskedRight' <=> AskedRight)
            /\ busy'[Slave'] = busy[Slave] /\ nack'[Slave'] = nack[Slave]
      BY <1>2, <3>1, SameAt
    <3>3. Protocol'
      <4>1. call.fn = "none" => pc = "idle" BY <1>0 DEF Types
      <4> QED BY <1>0, <1>1, <1>2, <1>5, <1>7, <1>8, <3>2, <4>1 DEF Protocol, Ended, Types
    <3>4. Results' BY <1>0, <1>1, <1>2, <1>7, <3>2 DEF Results
    <3>5. Dumping' BY <1>0, <1>1, <1>2, <1>5, <1>7, <1>8, <3>2 DEF Dumping
    <3>6. Delivered' BY <1>0, <1>1, <1>2, <3>2 DEF Delivered
    <3> QED BY <3>3, <3>4, <3>5, <3>6
  <2> QED BY <2>1, <2>2
<1> QED BY <1>3, <1>4, <1>6, <1>9, <1>10, CompleteSlaves DEF Access

\* What a datagram does that reaches the slave.
LEMMA Arrival ==
  ASSUME Inv, Access, pc = "exchange", UNCHANGED <<rom, here, call, word>>,
         Arrive(Slave, frame) \/ UNCHANGED <<owner, busy, data, nack, asked>>
  PROVE  /\ Registers'
         /\ Asked'
         /\ return # "data sent" => UNCHANGED data
         /\ return # "commanded" => UNCHANGED busy
         /\ return \in Handovers \cup {back} => UNCHANGED asked
         /\ return = "commanded" => busy'[Slave] \in {busy[Slave], Cmd}
         /\ Arrive(Slave, frame) /\ Accepts(Slave) =>
              /\ return = "data sent" => Loaded'
              /\ return = "commanded" => busy'[Slave] = Cmd
         /\ ~Accepts(Slave) => UNCHANGED data /\ UNCHANGED busy
<1>0. Registers /\ Locals /\ Places /\ Frames /\ Asked /\ Types /\ Handover BY DEF Access, Inv
<1>1. Slave \in Slaves BY <1>0 DEF Types
<1>2. /\ rom = [t \in Slaves |-> rom[t]] /\ busy = [t \in Slaves |-> busy[t]]
      /\ data = [t \in Slaves |-> data[t]] /\ asked = [t \in Slaves |-> asked[t]]
      /\ nack \in [Slaves -> BOOLEAN] /\ here \in [Slaves -> BOOLEAN]
      /\ \A t \in Slaves : rom[t] \in [DOMAIN Image[t] -> Octets]
      /\ \A t \in Slaves : data[t] \in Seq(Octets) /\ Len(data[t]) = Width(t)
  BY <1>0 DEF Registers
<1>3. back \notin Handovers \cup {"command", "data sent", "commanded"} BY <1>0 DEF Types
<1>4. return \in Handovers \cup {"command", "data sent", "commanded", back} BY <1>0 DEF Types
<1>5. CASE UNCHANGED <<busy, data, nack, asked>> /\ return \in Handovers \cup {back, "command"}
  <2>1. Registers' BY <1>0, <1>5, <1>2 DEF Registers
  <2>2. Asked' BY <1>0, <1>5 DEF Asked, Bytes, Byte
  <2> QED BY <1>3, <1>5, <2>1, <2>2
<1>6. CASE return \in Handovers \cup {back}
  <2>1. return \in Handovers => frame[1] = "EEPCFG" BY <1>0 DEF Handover
  <2>2. return = back => frame[1] = "data"
    <3>1. return = back => \E n \in {4, Width(Slave)} : frame = <<"data", n>>
      BY <1>0, <1>3 DEF Frames
    <3>2. \A n : <<"data", n>>[1] = "data" OBVIOUS
    <3> QED BY <3>1, <3>2
  <2>3. UNCHANGED <<busy, data, nack, asked>> BY <1>6, <2>1, <2>2 DEF Arrive
  <2> QED BY <1>5, <1>6, <2>3
<1>7. CASE UNCHANGED <<busy, data, nack, asked>> /\ ~(Arrive(Slave, frame) /\ Accepts(Slave))
  <2>1. Registers' BY <1>0, <1>7, <1>2 DEF Registers
  <2>2. Asked' BY <1>0, <1>7 DEF Asked, Bytes, Byte
  <2> QED BY <1>7, <2>1, <2>2
<1>8. CASE return = "command" /\ Arrive(Slave, frame)
  <2>1. frame = <<"nop", 0>> BY <1>0, <1>3, <1>8 DEF Frames
  <2>2. ~Accepts(Slave) => UNCHANGED <<busy, data, nack, asked>> BY <1>8, <2>1 DEF Arrive
  <2>3. CASE Accepts(Slave)
    <3>1. /\ busy' = [busy EXCEPT ![Slave] = <<>>] /\ nack' = [nack EXCEPT ![Slave] = FALSE]
          /\ asked' = [asked EXCEPT ![Slave] = <<>>] /\ UNCHANGED data
      BY <1>8, <2>1, <2>3 DEF Arrive
    <3>2. busy[Slave] = <<>> BY <2>3 DEF Accepts
    <3>3. busy' = busy BY <1>1, <1>2, <3>1, <3>2
    <3>4. Registers' BY <1>0, <1>2, <3>1, <3>3 DEF Registers
    <3>5. \A t \in Slaves : asked'[t] \in {asked[t], <<>>} BY <1>2, <3>1
    <3>6. Asked' BY <1>0, <3>1, <3>3, <3>5 DEF Asked, Bytes, Byte
    <3> QED BY <1>3, <1>8, <3>1, <3>3, <3>4, <3>6
  <2> QED BY <1>5, <1>8, <2>2, <2>3
<1>9. CASE return = "data sent" /\ Arrive(Slave, frame)
  <2>1. frame = <<"EEPDAT", call.data>> /\ call.fn \in Writes BY <1>0, <1>3, <1>9 DEF Frames
  <2>2. /\ UNCHANGED <<busy, nack>> /\ asked' = [asked EXCEPT ![Slave] = <<>>]
        /\ data' = [data EXCEPT ![Slave] = IF Accepts(Slave) THEN call.data \o SubSeq(@, 3, Len(@))
                                                             ELSE @]
    BY <1>9, <2>1 DEF Arrive
  <2>3. call.data \in [1 .. 2 -> 0 .. 255] BY <1>0, <2>1, CallAssumption DEF Locals
  <2>4. PICK n \in {4, 8} : n = Len(data[Slave]) BY <1>1, <1>2, WidthIs
  <2>5. /\ call.data \in Seq(Octets) /\ Len(call.data) = 2
    <3>1. call.data \in [1 .. 2 -> Octets] BY <2>3 DEF Octets
    <3>2. 2 \in Nat OBVIOUS
    <3> QED BY <3>1, <3>2, IsSequence
  <2>6. /\ SubSeq(data[Slave], 3, n) \in Seq(Octets) /\ Len(SubSeq(data[Slave], 3, n)) = n - 2
    <3>1. data[Slave] \in Seq(Octets) BY <1>1, <1>2
    <3>2. \A i \in 3 .. n : data[Slave][i] \in Octets BY <2>4, <3>1, ElementOfSeq
    <3>3. \A k \in {4, 8} : k \in Int /\ 3 <= k /\ k - 3 + 1 = k - 2 OBVIOUS
    <3>4. 3 \in Int /\ n \in Int /\ 3 <= n /\ n - 3 + 1 = n - 2 BY <3>3
    <3> QED BY <3>2, <3>4, SubSeqProperties
  <2>7. /\ call.data \o SubSeq(data[Slave], 3, n) \in Seq(Octets)
        /\ Len(call.data \o SubSeq(data[Slave], 3, n)) = n
        /\ (call.data \o SubSeq(data[Slave], 3, n))[1] = call.data[1]
        /\ (call.data \o SubSeq(data[Slave], 3, n))[2] = call.data[2]
    <3> DEFINE rest == SubSeq(data[Slave], 3, n)
    <3> HIDE DEF rest
    <3>1. /\ call.data \o rest \in Seq(Octets)
          /\ Len(call.data \o rest) = Len(call.data) + Len(rest)
          /\ \A i \in 1 .. Len(call.data) + Len(rest) :
               (call.data \o rest)[i] = IF i <= Len(call.data) THEN call.data[i]
                                                             ELSE rest[i - Len(call.data)]
      BY <2>5, <2>6, ConcatProperties DEF rest
    <3>2. Len(call.data) = 2 /\ Len(rest) = n - 2 BY <2>5, <2>6 DEF rest
    <3>3. \A k \in {4, 8} : 1 \in 1 .. 2 + (k - 2) /\ 2 \in 1 .. 2 + (k - 2) /\ 2 + (k - 2) = k
      OBVIOUS
    <3>4. 1 \in 1 .. 2 + (n - 2) /\ 2 \in 1 .. 2 + (n - 2) /\ 2 + (n - 2) = n BY <3>3
    <3>5. 1 <= 2 /\ 2 <= 2 OBVIOUS
    <3>6. (call.data \o rest)[1] = call.data[1] /\ (call.data \o rest)[2] = call.data[2]
      BY <3>1, <3>2, <3>4, <3>5
    <3>7. Len(call.data \o rest) = n BY <3>1, <3>2, <3>4
    <3> QED BY <3>1, <3>6, <3>7 DEF rest
  <2>8. \A t \in Slaves : data'[t] \in Seq(Octets) /\ Len(data'[t]) = Width(t)
    BY <1>1, <1>2, <2>2, <2>4, <2>7
  <2>9. Registers'
    <3>1. data' = [t \in Slaves |-> data'[t]] /\ asked' = [t \in Slaves |-> asked'[t]]
      BY <1>2, <2>2
    <3> QED BY <1>2, <2>2, <2>8, <3>1 DEF Registers
  <2>10. Asked'
    <3>1. \A t \in Slaves : asked'[t] # <<>> => t # Slave /\ asked'[t] = asked[t]
      BY <1>1, <1>2, <2>2
    <3>2. \A t \in Slaves : t # Slave => data'[t] = data[t] BY <1>2, <2>2
    <3> SUFFICES ASSUME NEW t \in Slaves, asked'[t] # <<>>
                 PROVE  \/ busy'[t] = <<"read", asked'[t][1]>>
                        \/ busy'[t] = <<>> /\ (data[t] = Bytes(t, asked[t][1], Width(t)))'
      BY DEF Asked
    <3>3. t # Slave /\ asked'[t] = asked[t] /\ data'[t] = data[t] /\ busy'[t] = busy[t]
      BY <2>2, <3>1, <3>2
    <3> QED BY <1>0, <3>3 DEF Asked, Bytes, Byte
  <2>11. Accepts(Slave) => Loaded'
    <3>1. Accepts(Slave) => data'[Slave] = call.data \o SubSeq(data[Slave], 3, n)
      BY <1>1, <1>2, <2>2, <2>4
    <3> QED BY <2>7, <3>1 DEF Loaded
  <2>12. ~Accepts(Slave) => UNCHANGED data BY <1>1, <1>2, <2>2
  <2> QED BY <1>3, <1>9, <2>2, <2>9, <2>10, <2>11, <2>12
<1>10. CASE return = "commanded" /\ Arrive(Slave, frame)
  <2>1. frame = Cmd BY <1>0, <1>3, <1>10 DEF Frames
  <2>2. ~Accepts(Slave) => UNCHANGED <<busy, data, nack, asked>> BY <1>10, <2>1 DEF Arrive, Cmd
  <2>3. CASE Accepts(Slave)
    <3>1. /\ busy' = [busy EXCEPT ![Slave] = Cmd] /\ nack' = [nack EXCEPT ![Slave] = FALSE]
          /\ \/ asked' = [asked EXCEPT ![Slave] = <<>>]
             \/ asked' = [asked EXCEPT ![Slave] = <<word>>] /\ Cmd = <<"read", word>>
          /\ UNCHANGED data
      BY <1>10, <2>1, <2>3 DEF Arrive, Cmd
    <3>2. /\ busy' = [t \in Slaves |-> busy'[t]] /\ asked' = [t \in Slaves |-> asked'[t]]
          /\ nack' \in [Slaves -> BOOLEAN]
      BY <1>2, <3>1
    <3>3. Registers' BY <1>2, <3>1, <3>2 DEF Registers
    <3>4. \A t \in Slaves : t # Slave => busy'[t] = busy[t] /\ asked'[t] = asked[t]
      BY <1>2, <3>1
    <3>5. busy'[Slave] = Cmd BY <1>1, <1>2, <3>1
    <3>6. asked'[Slave] = <<>> \/ (asked'[Slave] = <<word>> /\ Cmd = <<"read", word>>)
      BY <1>1, <1>2, <3>1
    <3>7. asked'[Slave] # <<>> => busy'[Slave] = <<"read", asked'[Slave][1]>> BY <3>5, <3>6
    <3>8. Asked'
      <4> SUFFICES ASSUME NEW t \in Slaves, asked'[t] # <<>>
                   PROVE  \/ busy'[t] = <<"read", asked'[t][1]>>
                          \/ busy'[t] = <<>> /\ (data[t] = Bytes(t, asked[t][1], Width(t)))'
        BY DEF Asked
      <4>1. CASE t = Slave BY <3>7, <4>1
      <4>2. CASE t # Slave BY <1>0, <3>1, <3>4, <4>2 DEF Asked, Bytes, Byte
      <4> QED BY <4>1, <4>2
    <3> QED BY <1>3, <1>10, <2>3, <3>1, <3>3, <3>5, <3>8
  <2>4. CASE ~Accepts(Slave) BY <1>7, <2>2, <2>4
  <2> QED BY <2>3, <2>4
<1> QED BY <1>4, <1>6, <1>7, <1>8, <1>9, <1>10

\* While the master controls the EEPROM, the slave accepts what comes when it is idle.
LEMMA Accepted ==
  ASSUME Inv, Access, Trusted, pc = "exchange", return \notin Handovers
  PROVE  Accepts(Slave) <=> Idle
<1>0. Known /\ Places /\ Types BY DEF Inv, Access
<1>1. Slave \in Slaves \ lost BY <1>0 DEF Trusted, Clean, Types
<1>2. ~Handing BY DEF Handing
<1>3. ~eep_pdi[Slave] BY <1>0 DEF Places, Inner, Trusted, Controlled
<1>4. owner[Slave] = "master" BY <1>0, <1>1, <1>2, <1>3 DEF Known, Types
<1> QED BY <1>4 DEF Accepts, Idle

LEMMA AnsweredAccess ==
  ASSUME Inv, Inv', Access, Answered PROVE Access'
<1>0. /\ Registers /\ Locals /\ Places /\ Frames /\ Protocol /\ Results /\ Dumping
      /\ Asked /\ Delivered /\ Counted /\ Buffered /\ Types /\ Types'
  BY DEF Access, Inv
<1>1. /\ pc = "exchange" /\ pc' = return /\ wkc' = 1 /\ Arrive(Slave, frame)
      /\ edat' = IF frame[1] = "data" THEN SubSeq(data[Slave], 1, frame[2]) ELSE edat
      /\ UNCHANGED <<rom, here, cache, eep_pdi, frame, return, locals, faults, slipped, sent, lost>>
  BY DEF Answered
<1>2. UNCHANGED <<call, word, value, back, seen, return, frame, nackcnt, eectl, phase>> BY <1>1
<1>3. /\ Registers' /\ Asked'
      /\ return # "data sent" => UNCHANGED data
      /\ return # "commanded" => UNCHANGED busy
      /\ return \in Handovers \cup {back} => UNCHANGED asked
      /\ return = "commanded" => busy'[Slave] \in {busy[Slave], Cmd}
      /\ Accepts(Slave) => /\ return = "data sent" => Loaded'
                           /\ return = "commanded" => busy'[Slave] = Cmd
      /\ ~Accepts(Slave) => UNCHANGED data /\ UNCHANGED busy
  BY <1>1, <1>2, Arrival
<1>4. /\ Slave \in Slaves /\ data[Slave] \in Seq(Octets) /\ Len(data[Slave]) = Width(Slave)
  BY <1>0, <1>1 DEF Types, Registers
<1>5. return \in Handovers \cup {"command", "data sent", "commanded", back}
      /\ back \in {"idle", "returned", "dumped", "fill", "walk"}
  BY <1>0, <1>1 DEF Types
<1>6. ASSUME return \notin Handovers, return = back
      PROVE  /\ call.fn \notin Writes
             /\ \E n \in {4, Width(Slave)} : /\ edat' = SubSeq(data[Slave], 1, n)
                                             /\ call.fn # "read2" /\ ~slipped => n = Width(Slave)
                                             /\ call.fn = "read2" => n = 4
  <2>1. call.fn \notin Writes BY <1>0, <1>1, <1>5, <1>6 DEF Frames
  <2>2. PICK n \in {4, Width(Slave)} : /\ frame = <<"data", n>>
                                       /\ call.fn # "read2" /\ ~slipped => n = Width(Slave)
                                       /\ call.fn = "read2" => n = 4
    BY <1>0, <1>1, <1>5, <1>6 DEF Frames
  <2>3. \A x : <<"data", x>>[1] = "data" /\ <<"data", x>>[2] = x OBVIOUS
  <2>4. frame[1] = "data" /\ frame[2] = n BY <2>2, <2>3
  <2>5. edat' = SubSeq(data[Slave], 1, n) BY <1>1, <2>4
  <2> QED BY <2>1, <2>2, <2>5
<1>7. return \in Handovers \cup {"command", "data sent", "commanded"} => edat' = edat
  <2> SUFFICES ASSUME return \in Handovers \cup {"command", "data sent", "commanded"}
               PROVE  edat' = edat
    OBVIOUS
  <2>1. frame[1] # "data"
    <3>1. CASE return \in Handovers
      <4>1. \A x : <<"EEPCFG", x>>[1] # "data" OBVIOUS
      <4>2. \E x : frame = <<"EEPCFG", x>> BY <1>1, <3>1 DEF Inv, Handover
      <4> QED BY <4>1, <4>2
    <3>2. CASE return \notin Handovers
      <4>1. \A x : /\ <<"nop", x>>[1] # "data" /\ <<"EEPDAT", x>>[1] # "data"
                  /\ <<"read", x>>[1] # "data" /\ <<"write", x>>[1] # "data"
        OBVIOUS
      <4>2. \E x : frame \in {<<"nop", x>>, <<"EEPDAT", x>>, <<"read", x>>, <<"write", x>>}
        BY <1>0, <1>1, <1>5, <3>2 DEF Frames, Cmd
      <4> QED BY <4>1, <4>2
    <3> QED BY <3>1, <3>2
  <2> QED BY <1>1, <2>1
<1>8. PICK w \in {4, 8} : w = Width(Slave) BY WidthIs
<1>9. \A n \in {4, Width(Slave)} :
        /\ SubSeq(data[Slave], 1, n) \in Seq(Octets)
        /\ \A i \in 1 .. n : SubSeq(data[Slave], 1, n)[i] = data[Slave][i]
        /\ Len(SubSeq(data[Slave], 1, n)) = n
  <2> TAKE n \in {4, Width(Slave)}
  <2>1. \A a \in {4, 8} : \A b \in {4, a} :
          /\ b \in Int /\ 1 <= b /\ b - 1 + 1 = b
          /\ \A i \in 1 .. b : i \in 1 .. a /\ 1 + i - 1 = i
    OBVIOUS
  <2>2. /\ n \in Int /\ 1 <= n /\ n - 1 + 1 = n
        /\ \A i \in 1 .. n : i \in 1 .. w /\ 1 + i - 1 = i
    BY <1>8, <2>1
  <2>3. 1 \in Int /\ \A i \in 1 .. n : data[Slave][i] \in Octets
    BY <1>4, <1>8, <2>2, ElementOfSeq
  <2>4. /\ SubSeq(data[Slave], 1, n) \in Seq(Octets)
        /\ Len(SubSeq(data[Slave], 1, n)) = IF 1 <= n THEN n - 1 + 1 ELSE 0
        /\ \A i \in 1 .. n - 1 + 1 : SubSeq(data[Slave], 1, n)[i] = data[Slave][1 + i - 1]
    BY <2>2, <2>3, SubSeqProperties
  <2> QED BY <2>2, <2>4
<1>10. \A x : \A n \in {4, Width(Slave)} :
         data[Slave] = Bytes(Slave, x, Width(Slave)) =>
           SubSeq(data[Slave], 1, n) = Bytes(Slave, x, n)
  <2> SUFFICES ASSUME NEW x, NEW n \in {4, Width(Slave)},
                      data[Slave] = Bytes(Slave, x, Width(Slave))
               PROVE  SubSeq(data[Slave], 1, n) = Bytes(Slave, x, n)
    OBVIOUS
  <2>1. \A a \in {4, 8} : \A b \in {4, a} : \A i \in 1 .. b : i \in 1 .. a OBVIOUS
  <2>2. \A i \in 1 .. n : i \in 1 .. Width(Slave) BY <1>8, <2>1
  <2>3. \A i \in 1 .. n : SubSeq(data[Slave], 1, n)[i] = Byte(Slave, 2 * x + i - 1)
    BY <1>9, <2>2 DEF Bytes
  <2>4. DOMAIN SubSeq(data[Slave], 1, n) = 1 .. n BY <1>9, LenProperties
  <2>5. SubSeq(data[Slave], 1, n) = [i \in 1 .. n |-> SubSeq(data[Slave], 1, n)[i]]
    BY <1>9, <2>4, LenProperties
  <2> QED BY <2>3, <2>5 DEF Bytes
<1>11. Locals'
  <2>1. edat' \in Seq(Octets)
    <3>1. CASE return \notin Handovers /\ return = back
      <4>1. PICK n \in {4, Width(Slave)} : edat' = SubSeq(data[Slave], 1, n)
        BY <1>6, <3>1
      <4> QED BY <1>9, <4>1
    <3>2. CASE return \in Handovers \cup {"command", "data sent", "commanded"}
      BY <1>0, <1>7, <3>2 DEF Locals
    <3> QED BY <1>5, <3>1, <3>2
  <2>2. wkc' \in Int BY <1>1
  <2> QED BY <1>0, <1>1, <1>2, <2>1, <2>2 DEF Locals
<1>12. Places'
  <2>1. UNCHANGED <<esislave, eep_pdi>> BY <1>1
  <2>2. CASE return \notin Handovers
    <3>1. Inner BY <1>1, <2>2 DEF Inner
    <3>2. return \in {"command", "data sent", "commanded", back} BY <1>5, <2>2
    <3>3. \/ call.fn \in {"read", "readAP", "read2"} /\ back = "returned"
          \/ call.fn \in {"write", "writeAP", "read1"} /\ back = "idle"
          \/ call.fn = "dump" /\ back = "dumped"
          \/ call.fn \in Getters /\ back = "fill" /\ esislave = Slave
      BY <1>0, <3>1 DEF Places
    <3> QED BY <1>0, <1>1, <1>2, <2>1, <3>1, <3>2, <3>3
        DEF Places, Inner, Taking, Getters, Walkers, Finders
  <2>3. CASE return \in Handovers
    BY <1>0, <1>1, <1>2, <2>1, <2>3 DEF Places, Inner, Taking, Getters, Walkers, Finders
  <2> QED BY <2>2, <2>3
<1>13. Frames' BY <1>0, <1>1, <1>2, <1>5 DEF Frames
<1>14. (Trusted' <=> Trusted) /\ (Clean' <=> Clean) BY <1>1, <1>2 DEF Trusted, Clean, Controlled
<1>15. Cmd' = Cmd /\ Cmd # <<>> BY <1>2 DEF Cmd
<1>16. Protocol'
  <2> SUFFICES ASSUME Trusted PROVE Protocol' BY <1>14 DEF Protocol
  <2>1. CASE return \in Handovers BY <1>1, <1>2, <2>1 DEF Protocol, Ended
  <2>2. CASE return = "command"
    <3>1. Idle BY <1>0, <1>1, <2>2 DEF Protocol
    <3>2. Idle' BY <1>2, <1>3, <2>2, <3>1 DEF Idle
    <3> QED BY <1>1, <1>2, <1>5, <2>2, <3>2 DEF Protocol, Ended
  <2>3. CASE return = "data sent"
    <3>1. Idle BY <1>0, <1>1, <2>3 DEF Protocol
    <3>2. Idle' BY <1>2, <1>3, <2>3, <3>1 DEF Idle
    <3>3. Loaded' BY <1>1, <1>3, <2>3, <3>1, Accepted
    <3> QED BY <1>1, <1>2, <1>5, <2>3, <3>2, <3>3 DEF Protocol, Ended
  <2>4. CASE return = "commanded"
    <3>1. Loaded /\ (Idle \/ busy[Slave] = Cmd) BY <1>0, <1>1, <2>4 DEF Protocol
    <3>2. Loaded' BY <1>2, <1>3, <2>4, <3>1 DEF Loaded
    <3>3. busy'[Slave'] = Cmd'
      <4>1. CASE Idle
        <5>1. busy'[Slave] = Cmd BY <1>1, <1>3, <2>4, <4>1, Accepted
        <5> QED BY <1>2, <1>15, <5>1
      <4>2. CASE busy[Slave] = Cmd BY <1>2, <1>3, <1>15, <2>4, <4>2
      <4> QED BY <3>1, <4>1, <4>2
    <3> QED BY <1>1, <1>2, <1>5, <2>4, <3>2, <3>3 DEF Protocol, Ended
  <2>5. CASE return \notin Handovers /\ return = back
    <3>1. Idle /\ Done /\ call.fn \notin Writes /\ ~slipped /\ call.fn # "read2"
      BY <1>0, <1>1, <1>6, <2>5 DEF Protocol, Trusted, Clean
    <3>2. Idle' BY <1>2, <1>3, <1>5, <2>5, <3>1 DEF Idle
    <3>3. edat' = SubSeq(data[Slave], 1, Width(Slave))
      <4>1. PICK n \in {4, Width(Slave)} : /\ edat' = SubSeq(data[Slave], 1, n)
                                           /\ call.fn # "read2" /\ ~slipped => n = Width(Slave)
        BY <1>6, <2>5
      <4> QED BY <3>1, <4>1
    <3>4. edat' = Bytes(Slave, word, Width(Slave))
      <4>1. data[Slave] = Bytes(Slave, word, Width(Slave)) BY <3>1 DEF Done
      <4>2. PICK x : x = word OBVIOUS
      <4>3. data[Slave] = Bytes(Slave, x, Width(Slave)) BY <4>1, <4>2
      <4>4. SubSeq(data[Slave], 1, Width(Slave)) = Bytes(Slave, x, Width(Slave)) BY <1>10, <4>3
      <4> QED BY <3>3, <4>2, <4>4
    <3>5. HasRead' BY <1>1, <1>2, <3>4, ZenonT(60) DEF HasRead, Bytes, Byte
    <3>6. pc' \in {"idle", "returned", "dumped", "fill", "walk"} BY <1>1, <1>5, <2>5
    <3> QED BY <1>2, <3>2, <3>5, <3>6, ZenonT(60) DEF Protocol, Ended
  <2> QED BY <1>5, <2>1, <2>2, <2>3, <2>4, <2>5
<1>17. Results'
  <2> SUFFICES ASSUME pc' = "idle" PROVE Results' BY DEF Results
  <2>1. return = back /\ return \notin Handovers BY <1>1, <1>5
  <2>2. Inner /\ back = "idle" BY <1>1, <2>1 DEF Inner
  <2>3. call.fn \in {"write", "writeAP", "read1"} BY <1>0, <2>2 DEF Places
  <2> QED BY <1>2, <1>6, <2>1, <2>3 DEF Results
<1>18. Dumping'
  <2> SUFFICES ASSUME call.fn = "dump" PROVE Dumping' BY <1>2 DEF Dumping
  <2>1. DumpRight' <=> DumpRight BY <1>1, <1>2 DEF DumpRight, Bytes, Byte
  <2>2. Idle \/ busy[Slave] = Cmd => Idle' \/ busy'[Slave'] = Cmd'
    BY <1>2, <1>3, <1>15 DEF Idle
  <2>3. return = "given" => (Idle' <=> Idle) BY <1>2, <1>3 DEF Idle
  <2>4. CASE return \in Handovers
    <3>1. /\ pc' \in Handovers /\ ~Inner' /\ ~Ended'
          /\ (Near("taken"))' => Near("taken")
          /\ (Near("given"))' => Near("given") /\ return = "given"
      BY <1>1, <2>4 DEF Inner, Ended
    <3>2. /\ (Near("taken") \/ Near("given")) /\ eectl /\ ~slipped => Slave \notin lost
          /\ Clean => DumpRight /\ (value # <<>> => Idle \/ busy[Slave] = Cmd)
          /\ Clean /\ Near("given") => Idle
      BY <1>0, <1>1 DEF Dumping
    <3> HIDE DEF Near
    <3> QED BY <1>1, <1>2, <1>14, <2>1, <2>2, <2>3, <3>1, <3>2 DEF Dumping
  <2>5. CASE return \notin Handovers
    <3>1. Inner BY <1>1, <2>5 DEF Inner
    <3>2. back = "dumped" BY <1>0, <3>1 DEF Places, Getters, Walkers, Finders
    <3>3. pc' \in {"command", "data sent", "commanded", "dumped"} BY <1>1, <1>5, <2>5, <3>2
    <3>4. /\ eectl /\ ~slipped => Slave \notin lost
          /\ Clean => /\ DumpRight /\ (value # <<>> => Idle \/ busy[Slave] = Cmd)
                      /\ 2 * word = 2 * ECT_SII_START + Len(value)
      BY <1>0, <1>1, <3>1 DEF Dumping
    <3>5. ~(Near("given"))' /\ pc' # "idle" BY <3>3
    <3> HIDE DEF Near
    <3> QED BY <1>1, <1>2, <1>14, <2>1, <2>2, <3>4, <3>5 DEF Dumping
  <2> QED BY <2>4, <2>5
<1>19. Delivered'
  <2> SUFFICES ASSUME call.fn = "read2", ~slipped PROVE Delivered'
    BY <1>1, <1>2 DEF Delivered
  <2>1. return = back /\ return \notin Handovers
    BY <1>0, <1>1, <1>5 DEF Places, Taking, Walkers, Finders
  <2>2. back = "returned"
    <3>1. Inner BY <1>1, <2>1 DEF Inner
    <3> QED BY <1>0, <3>1 DEF Places, Getters, Walkers, Finders
  <2>3. Idle BY <1>0, <1>1, <2>1 DEF Delivered
  <2>4. Idle' BY <1>2, <1>3, <2>1, <2>2, <2>3 DEF Idle
  <2>5. ASSUME asked[Slave] # <<>> PROVE edat' = Bytes(Slave, asked[Slave][1], 4)
    <3>1. data[Slave] = Bytes(Slave, asked[Slave][1], Width(Slave))
      BY <1>0, <1>4, <2>3, <2>5, SMTT(60) DEF Asked, Idle
    <3>2. edat' = SubSeq(data[Slave], 1, 4)
      <4>1. PICK n \in {4, Width(Slave)} : /\ edat' = SubSeq(data[Slave], 1, n)
                                           /\ call.fn = "read2" => n = 4
        BY <1>6, <2>1
      <4> QED BY <4>1
    <3>3. PICK x : x = asked[Slave][1] OBVIOUS
    <3>4. data[Slave] = Bytes(Slave, x, Width(Slave)) BY <3>1, <3>3
    <3>5. SubSeq(data[Slave], 1, 4) = Bytes(Slave, x, 4) BY <1>10, <3>4
    <3> QED BY <3>2, <3>3, <3>5
  <2>6. AskedRead' BY <1>1, <1>2, <1>3, <2>1, <2>5, ZenonT(60) DEF AskedRead, Bytes, Byte
  <2> QED BY <1>1, <2>1, <2>2, <2>4, <2>6 DEF Delivered
<1>20. Counted'
  <2>1. /\ (Near("command"))' => Near("command")
        /\ (Near("data sent"))' => Near("data sent")
        /\ (Near("commanded"))' => Near("commanded")
        /\ Taking' => Taking
    BY <1>1, <1>5 DEF Taking
  <2>2. ~(Near("executed"))' /\ ~(For("status"))' /\ pc' \notin {"start", "status", "executed"}
    BY <1>1, <1>5
  <2> HIDE DEF Near, For
  <2>3. here'[Slave'] = here[Slave] /\ wkc' # 0 /\ UNCHANGED <<sent, faults, nackcnt, call>>
    BY <1>1, <1>2
  <2>4. /\ sent <= 3 + faults
        /\ Taking => sent = 0 /\ nackcnt = 0
        /\ Near("command") \/ Near("data sent") \/ Near("commanded") => nackcnt <= 2
        /\ call.fn # "none" /\ here[Slave] =>
             /\ Near("command") \/ Near("data sent") => sent <= nackcnt + faults
             /\ Near("commanded") => sent <= nackcnt + 1 + faults
    BY <1>0 DEF Counted
  <2> QED BY <2>1, <2>2, <2>3, <2>4 DEF Counted
<1>21. Buffered' BY <1>0, <1>1, SameCache
<1> QED BY <1>3, <1>11, <1>12, <1>13, <1>16, <1>17, <1>18, <1>19, <1>20, <1>21 DEF Access

LEMMA NotAnsweredAccess ==
  ASSUME Inv, Inv', Access, NotAnswered PROVE Access'
<1>0. /\ Registers /\ Locals /\ Places /\ Frames /\ Protocol /\ Results /\ Dumping
      /\ Asked /\ Delivered /\ Counted /\ Buffered /\ Types /\ Types'
  BY DEF Access, Inv
<1>1. /\ pc = "exchange"
      /\ Arrive(Slave, frame) \/ UNCHANGED <<owner, busy, data, nack, asked>>
      /\ UNCHANGED <<rom, here, cache, eep_pdi, frame, return, edat, locals, sent, lost>>
  BY DEF NotAnswered
<1>2. UNCHANGED <<call, word, value, back, seen, return, frame, nackcnt, eectl, phase, esislave>>
  BY <1>1
<1>3. /\ Registers' /\ Asked'
      /\ return # "data sent" => UNCHANGED data
      /\ return # "commanded" => UNCHANGED busy
      /\ return \in Handovers \cup {back} => UNCHANGED asked
      /\ return = "commanded" => busy'[Slave] \in {busy[Slave], Cmd}
  BY <1>1, <1>2, Arrival
<1>4. /\ Slave \in Slaves
      /\ return \in Handovers \cup {"command", "data sent", "commanded", back}
      /\ back \in {"idle", "returned", "dumped", "fill", "walk"}
  BY <1>0, <1>1 DEF Types
<1>5. \/ pc' = pc /\ UNCHANGED <<wkc, slipped, faults>>
      \/ /\ pc' = return /\ slipped' = TRUE /\ wkc' \in {-1, 0}
         /\ faults' \in {faults, faults + 1} /\ (here[Slave] => wkc' # 0)
  <2>1. \/ pc' = pc /\ UNCHANGED <<wkc, slipped, faults>>
        \/ /\ pc' = return /\ slipped' = TRUE
           /\ \/ here[Slave] /\ wkc' = -1 /\ faults' = faults + 1
              \/ ~here[Slave] /\ wkc' = 0 /\ faults' = faults
    BY DEF NotAnswered, Fault
  <2>2. \A x : x = -1 => x # 0 /\ x \in {-1, 0} OBVIOUS
  <2> QED BY <2>1, <2>2
<1>6. Cmd' = Cmd /\ Cmd # <<>> BY <1>2 DEF Cmd
<1>7. /\ ReadRight' <=> ReadRight
      /\ WriteRight' <=> WriteRight
      /\ DumpRight' <=> DumpRight
  BY <1>1, <1>2 DEF ReadRight, WriteRight, DumpRight, Bytes, Byte
<1>8. Idle \/ busy[Slave] = Cmd => Idle' \/ busy'[Slave'] = Cmd'
  BY <1>2, <1>3, <1>6 DEF Idle
<1>9. Buffered' BY <1>0, <1>1, SameCache
<1>10. CASE pc' = pc /\ UNCHANGED <<wkc, slipped, faults>>
  <2>1. Locals' BY <1>0, <1>1, <1>2, <1>10 DEF Locals
  <2>2. Places' BY <1>0, <1>1, <1>10, SamePlaces
  <2>3. Frames' BY <1>0, <1>1, <1>2, <1>6, <1>10 DEF Frames
  <2>4. (Trusted' <=> Trusted) /\ (Clean' <=> Clean)
    BY <1>1, <1>2, <1>10 DEF Trusted, Clean, Controlled
  <2>5. (Inner' <=> Inner) /\ (Ended' <=> Ended) /\ (Taking' <=> Taking)
    BY <1>1, <1>2, <1>10 DEF Inner, Ended, Taking
  <2>6. return # "commanded" => (Idle' <=> Idle) BY <1>2, <1>3 DEF Idle
  <2>7. return # "data sent" => (Loaded' <=> Loaded) BY <1>2, <1>3 DEF Loaded
  <2>8. return = back => (Done' <=> Done)
    <3>1. return = back => UNCHANGED data BY <1>3, <1>4
    <3> QED BY <1>1, <1>2, <3>1 DEF Done, Bytes, Byte
  <2>9. Protocol'
    <3> SUFFICES ASSUME Trusted PROVE Protocol' BY <2>4 DEF Protocol
    <3>1. /\ To("command") \/ To("data sent") => Idle
          /\ To("commanded") => Loaded /\ (Idle \/ busy[Slave] = Cmd)
          /\ To(back) => Idle /\ Done
      BY <1>0 DEF Protocol
    <3>2. pc' = "exchange" BY <1>1, <1>10
    <3> QED BY <1>1, <1>2, <1>4, <1>8, <2>6, <2>7, <2>8, <3>1, <3>2 DEF Protocol, Ended
  <2>10. Results' BY <1>1, <1>10 DEF Results
  <2>11. Dumping'
    <3> SUFFICES ASSUME call.fn = "dump" PROVE Dumping' BY <1>2 DEF Dumping
    <3>1. /\ (Near("taken"))' <=> Near("taken")
          /\ (Near("given"))' <=> Near("given")
          /\ pc' = "exchange" /\ pc = "exchange" /\ (Near("given") => return # "commanded")
      BY <1>1, <1>2, <1>10
    <3>2. /\ (Inner \/ Ended \/ Near("taken") \/ Near("given")) /\ eectl /\ ~slipped =>
               Slave \notin lost
          /\ Clean => /\ DumpRight
                      /\ value # <<>> => Idle \/ busy[Slave] = Cmd
                      /\ Near("given") => Idle
                      /\ Inner \/ Ended => 2 * word = 2 * ECT_SII_START + Len(value)
      BY <1>0, <3>1 DEF Dumping
    <3> HIDE DEF Near
    <3> QED BY <1>1, <1>2, <1>7, <1>8, <1>10, <2>4, <2>5, <2>6, <3>1, <3>2 DEF Dumping
  <2>12. Delivered'
    <3> SUFFICES ASSUME call.fn = "read2", ~slipped PROVE Delivered'
      BY <1>2, <1>10 DEF Delivered
    <3>1. pc' = "exchange" /\ (To(back) => Idle) BY <1>0, <1>1, <1>10 DEF Delivered
    <3> QED BY <1>1, <1>2, <1>4, <2>6, <3>1 DEF Delivered
  <2>13. Counted'
    <3>1. /\ (Near("command"))' <=> Near("command")
          /\ (Near("data sent"))' <=> Near("data sent")
          /\ (Near("commanded"))' <=> Near("commanded")
          /\ (Near("executed"))' <=> Near("executed")
          /\ (For("status"))' <=> For("status")
          /\ pc' = "exchange"
      BY <1>1, <1>2, <1>10
    <3> HIDE DEF Near, For
    <3> QED BY <1>0, <1>1, <1>2, <1>10, <2>5, <3>1 DEF Counted
  <2> QED BY <1>3, <1>9, <2>1, <2>2, <2>3, <2>9, <2>10, <2>11, <2>12, <2>13 DEF Access
<1>11. CASE /\ pc' = return /\ slipped' = TRUE /\ wkc' \in {-1, 0}
            /\ faults' \in {faults, faults + 1} /\ (here[Slave] => wkc' # 0)
  <2>1. Locals'
    <3>1. slipped' \in BOOLEAN BY <1>11
    <3>2. wkc' \in Int BY <1>11
    <3>3. faults' \in Nat BY <1>0, <1>11 DEF Locals
    <3> QED BY <1>0, <1>1, <1>2, <3>1, <3>2, <3>3 DEF Locals
  <2>2. Places'
    <3>1. CASE return \notin Handovers
      <4>1. Inner BY <1>1, <3>1 DEF Inner
      <4>2. \/ call.fn \in {"read", "readAP", "read2"} /\ back = "returned"
            \/ call.fn \in {"write", "writeAP", "read1"} /\ back = "idle"
            \/ call.fn = "dump" /\ back = "dumped"
            \/ call.fn \in Getters /\ back = "fill" /\ esislave = Slave
        BY <1>0, <4>1 DEF Places
      <4>3. return \in {"command", "data sent", "commanded", back} BY <1>4, <3>1
      <4> QED BY <1>0, <1>1, <1>2, <1>11, <4>1, <4>2, <4>3
          DEF Places, Inner, Taking, Getters, Walkers, Finders
    <3>2. CASE return \in Handovers
      BY <1>0, <1>1, <1>2, <1>11, <3>2 DEF Places, Inner, Taking, Getters, Walkers, Finders
    <3> QED BY <3>1, <3>2
  <2>3. Frames' BY <1>0, <1>1, <1>2, <1>4, <1>11 DEF Frames
  <2>4. Protocol' /\ Results' BY <1>11 DEF Protocol, Results, Trusted, Clean
  <2>5. Dumping' BY <1>11 DEF Dumping, Clean
  <2>6. Delivered' BY <1>11 DEF Delivered
  <2>7. Counted'
    <3>1. /\ (Near("command"))' => Near("command")
          /\ (Near("data sent"))' => Near("data sent")
          /\ (Near("commanded"))' => Near("commanded")
          /\ Taking' => Taking
      BY <1>1, <1>4, <1>11 DEF Taking
    <3>2. ~(Near("executed"))' /\ ~(For("status"))' /\ pc' \notin {"start", "status", "executed"}
      BY <1>4, <1>11
    <3>3. here'[Slave'] = here[Slave] /\ UNCHANGED <<sent, nackcnt, call>> BY <1>1, <1>2
    <3>4. sent \in Nat /\ nackcnt \in Nat /\ faults \in Nat BY <1>0 DEF Locals
    <3>5. /\ sent <= 3 + faults
          /\ Taking => sent = 0 /\ nackcnt = 0
          /\ Near("command") \/ Near("data sent") \/ Near("commanded") => nackcnt <= 2
          /\ call.fn # "none" /\ here[Slave] =>
               /\ Near("command") \/ Near("data sent") => sent <= nackcnt + faults
               /\ Near("commanded") => sent <= nackcnt + 1 + faults
      BY <1>0 DEF Counted
    <3>6. \A f \in {faults, faults + 1} :
            /\ sent <= 3 + faults => sent <= 3 + f
            /\ sent <= nackcnt + faults => sent <= nackcnt + f
            /\ sent <= nackcnt + 1 + faults => sent <= nackcnt + 1 + f
      BY <3>4
    <3>7. /\ sent <= 3 + faults => sent <= 3 + faults'
          /\ sent <= nackcnt + faults => sent <= nackcnt + faults'
          /\ sent <= nackcnt + 1 + faults => sent <= nackcnt + 1 + faults'
      BY <1>11, <3>6
    <3> HIDE DEF Near, For
    <3> QED BY <1>11, <3>1, <3>2, <3>3, <3>5, <3>7 DEF Counted
  <2> QED BY <1>3, <1>9, <2>1, <2>2, <2>3, <2>4, <2>5, <2>6, <2>7 DEF Access
<1> QED BY <1>5, <1>10, <1>11

-----------------------------------------------------------------------------
(***************************************************************************)
(* The theorems.                                                           *)
(***************************************************************************)
LEMMA SameFrames ==
  ASSUME Frames, UNCHANGED <<pc, return, frame, call, word, back, slipped, wkc, seen>>
  PROVE  Frames'
<1>1. Cmd' = Cmd BY DEF Cmd
<1> QED BY <1>1 DEF Frames

LEMMA StutterAccess ==
  ASSUME Inv, Inv', Access, UNCHANGED vars PROVE Access'
<1>0. /\ Registers /\ Locals /\ Places /\ Frames /\ Protocol /\ Results /\ Dumping
      /\ Asked /\ Delivered /\ Counted /\ Buffered
  BY DEF Access
<1>1. UNCHANGED <<rom, busy, data, nack, here, asked, call, word, edat, value, back, seen, return,
                 frame, wkc, nackcnt, eectl, phase, pc, eep_pdi, esislave, slipped, lost, faults,
                 sent>>
  OBVIOUS
<1>2. /\ Idle' <=> Idle
      /\ Loaded' <=> Loaded
      /\ (Done' <=> Done) /\ Cmd' = Cmd
      /\ HasRead' <=> HasRead
      /\ (ReadRight' <=> ReadRight) /\ (WriteRight' <=> WriteRight) /\ (DumpRight' <=> DumpRight)
      /\ (AskedRead' <=> AskedRead) /\ (AskedRight' <=> AskedRight)
  BY <1>1, Same
<1>3. (Inner' <=> Inner) /\ (Ended' <=> Ended) /\ (Taking' <=> Taking)
  BY <1>1 DEF Inner, Ended, Taking
<1>4. (Trusted' <=> Trusted) /\ (Clean' <=> Clean) BY <1>1 DEF Trusted, Clean, Controlled
<1>5. Registers' /\ Asked' BY <1>0, <1>1, Quiet
<1>6. Locals' BY <1>0, <1>1 DEF Locals
<1>7. Places' BY <1>0, <1>1, SamePlaces
<1>8. Frames' BY <1>0, <1>1, SameFrames
<1>9. Protocol' /\ Results' BY <1>0, <1>1, <1>2, <1>3, <1>4 DEF Protocol, Results
<1>10. Dumping' BY <1>0, <1>1, <1>2, <1>3, <1>4 DEF Dumping
<1>11. Delivered' BY <1>0, <1>1, <1>2 DEF Delivered
<1>12. Counted' BY <1>0, <1>1, <1>3 DEF Counted
<1>13. Buffered' BY <1>0, SameCache
<1> QED BY <1>5, <1>6, <1>7, <1>8, <1>9, <1>10, <1>11, <1>12, <1>13 DEF Access

\* The invariant holds at first, and every step keeps it.
LEMMA InitialAccess == Init => Access
<1> SUFFICES ASSUME Init PROVE Access
  OBVIOUS
<1>1. /\ pc = "idle" /\ call.fn = "none" /\ sent = 0 /\ faults = 0 /\ word = 0 /\ wkc = 0
      /\ nackcnt = 0 /\ seen = "nothing" /\ rom = Image
      /\ esibuf = <<>> /\ asked = [s \in Slaves |-> <<>>]
  BY DEF Init
<1>2. Registers
  <2>1. /\ rom = [s \in Slaves |-> rom[s]] /\ busy = [s \in Slaves |-> busy[s]]
        /\ data = [s \in Slaves |-> data[s]] /\ asked = [s \in Slaves |-> asked[s]]
        /\ nack \in [Slaves -> BOOLEAN] /\ here \in [Slaves -> BOOLEAN]
    BY DEF Init, Image
  <2>2. \A s \in Slaves : rom[s] \in [DOMAIN Image[s] -> Octets]
    <3> TAKE s \in Slaves
    <3>1. Image[s] = [i \in DOMAIN Image[s] |-> Image[s][i]] BY DEF Image, Encode
    <3>2. \A i \in DOMAIN Image[s] : Image[s][i] \in Octets
      <4> TAKE i \in DOMAIN Image[s]
      <4>1. Image[s][i] \in {Image[s][j] : j \in DOMAIN Image[s]} OBVIOUS
      <4> QED BY <4>1 DEF Octets
    <3> QED BY <1>1, <3>1, <3>2, ZenonT(60)
  <2>3. \A s \in Slaves : data[s] \in Seq(Octets) /\ Len(data[s]) = Width(s)
    <3> TAKE s \in Slaves
    <3>1. Width(s) \in Nat BY WidthIs
    <3>2. data[s] \in [1 .. Width(s) -> Octets] BY DEF Init, Octets
    <3> QED BY <3>1, <3>2, IsSequence
  <2> QED BY <2>1, <2>2, <2>3 DEF Registers
<1>3. Locals
  <2>1. edat \in Seq(Octets) BY EmptySeq DEF Init
  <2>2. slipped \in BOOLEAN
    <3>1. slipped = FALSE BY DEF Init
    <3> QED BY <3>1
  <2> QED BY <1>1, <2>1, <2>2 DEF Locals
<1>4. Places BY <1>1 DEF Places, Inner, Taking, Getters, Walkers, Finders
<1>5. Frames BY <1>1 DEF Frames
<1>6. Protocol /\ Results BY <1>1 DEF Protocol, Ended, Results
<1>7. Dumping /\ Delivered BY <1>1 DEF Dumping, Delivered
<1>8. Asked BY <1>1 DEF Asked
<1>9. Counted
  <2>1. 0 <= 3 + 0 OBVIOUS
  <2> QED BY <1>1, <2>1 DEF Counted, Taking
<1>10. Buffered
  <2>1. DOMAIN <<>> = {} OBVIOUS
  <2> QED BY <1>1, <2>1 DEF Buffered, CacheTrue, esimap
<1> QED BY <1>2, <1>3, <1>4, <1>5, <1>6, <1>7, <1>8, <1>9, <1>10 DEF Access

LEMMA InductiveAccess == Inv /\ Inv' /\ Access /\ [Next]_vars => Access'
<1> SUFFICES ASSUME Inv, Inv', Access, [Next]_vars PROVE Access'
  OBVIOUS
<1>1. CASE master
  BY <1>1, StartAccess, AnsweredAccess, NotAnsweredAccess, WaitAccess, ForcedAccess,
     TakenAccess, GivenAccess, StatusAccess, CommandAccess, CommandedAccess, ExecutedAccess,
     FetchAccess, ReturnedAccess, DumpedAccess, MissAccess, FillAccess, FindAccess, FoundAccess
     DEF master
<1>2. CASE Call BY <1>2, CallAccess
<1>3. CASE \E s \in Slaves : Complete(s) \/ Leave(s) BY <1>3, CompleteAccess, LeaveAccess
<1>4. CASE UNCHANGED vars BY <1>4, StutterAccess
<1> QED BY <1>1, <1>2, <1>3, <1>4 DEF Next

LEMMA AccessHolds == Spec => []Access
<1>1. Init => Inv /\ Access BY Initial, InitialAccess
<1>2. Inv /\ Access /\ [Next]_vars => (Inv /\ Access)'
  BY Inductive, InductiveAccess
<1> QED BY <1>1, <1>2, PTL DEF Spec

\* A read of a word returns what the EEPROM holds there and a write that ends
\* has written it (ecx_readeepromFP, ecx_writeeepromFP and their AP forms), the
\* read in two steps and the dump return what the EEPROM holds, if no exchange
\* failed, no wait ran out and the master had the control; and no access sends
\* more than three commands but for those whose exchanges failed.
THEOREM AccessIsTrue == Spec => []AccessTrue
<1>1. Access => AccessTrue
  <2> SUFFICES ASSUME Access PROVE AccessTrue
    OBVIOUS
  <2>1. sent <= 3 + faults BY DEF Access, Counted
  <2> SUFFICES ASSUME pc = "idle", Clean, Controlled
               PROVE  /\ call.fn \in {"read", "readAP"} => value = Bytes(Slave, call.arg, 4)
                      /\ call.fn = "read2" /\ asked[Slave] # <<>> =>
                           value = Bytes(Slave, asked[Slave][1], 4)
                      /\ call.fn \in Writes =>
                           value = <<1>> /\ Bytes(Slave, call.arg, 2) = call.data
                      /\ call.fn = "dump" => value = Bytes(Slave, ECT_SII_START, Len(value))
    BY <2>1 DEF AccessTrue
  <2>2. call.fn \in {"read", "readAP"} => ReadRight BY DEF Access, Results, Trusted
  <2>3. call.fn \in Writes => WriteRight BY DEF Access, Results, Trusted
  <2>4. call.fn = "read2" => AskedRight BY DEF Access, Delivered, Clean
  <2>5. call.fn = "dump" => DumpRight BY DEF Access, Dumping
  <2> QED BY <2>2, <2>3, <2>4, <2>5 DEF ReadRight, WriteRight, AskedRight, DumpRight
<1> QED BY <1>1, AccessHolds, PTL

\* The cache of ecx_siigetbyte holds, wherever its map says that a byte is
\* there, what the EEPROM of the slave it was filled from holds: across changes
\* of the slave, reads that fail and writes, whose bytes are counted as spoilt.
THEOREM CacheIsTrue == Spec => []CacheTrue
<1>1. Access => CacheTrue BY DEF Access, Buffered
<1> QED BY <1>1, AccessHolds, PTL

=============================================================================
