------------------------------ MODULE ServoProofs ------------------------------
(***************************************************************************)
(* What is proved of the servo program: in the cyclic loop the drive's     *)
(* process data lies as the program assumes, and the target of an enabled  *)
(* drive is near its position.  Both hold for every number of tries,       *)
(* checks, cycles, runs, losses and events.                                *)
(***************************************************************************)
EXTENDS Servo, TLAPS

Places ==
  {"idle", "reset", "config_init", "pdo", "safe_op", "valid", "request op", "op", "cycle", "stop"}
ALStates == {"INIT", "PRE_OP", "SAFE_OP", "OP"}
DriveStates == {"off", "ready", "on", "enabled", "fault"}
AtRest == {"off", "fault"}
Controls == {0, 6, 7, 8, 15}
Dirs == {"rx", "tx"}
Objects == {"6040", "6041", "603f", "6060", "6064", "607a", "none"}

\* The status words a state can show.
WordsOf(state) == {Word(state, w) : w \in BOOLEAN}
Words == {0} \cup UNION {WordsOf(state) : state \in DriveStates}

Program == [pc : Places, step : 1 .. 17, tries : Nat, n : Nat]
ALStatus == [state : ALStates, request : ALStates]
Counts == [runs : Nat, lost : Nat, events : Nat, unanswered : BOOLEAN]
Buffer == [control_word : Controls, dest_pos : Int, status_word : Words, cur_pos : Int]
Dictionary ==
  [assign : [rx : Nat, tx : Nat], count : [rx : Nat, tx : Nat],
   map : [rx : [1 .. 3 -> Objects], tx : [1 .. 3 -> Objects]]]
Drive ==
  [state : DriveStates, warning : BOOLEAN, target : Int, pos : Int, waited : 0 .. Patience]

Types ==
  /\ prog \in Program
  /\ io \in Buffer
  /\ al \in ALStatus
  /\ od \in Dictionary
  /\ drive \in Drive
  /\ near \in Nat
  /\ bounds \in Counts

\* Where the program is, the state of the bus follows.
InPlace ==
  /\ prog.pc = "pdo" =>
       /\ al.state \in {"INIT", "PRE_OP"} /\ al.request \in {"INIT", "PRE_OP"}
       /\ al.state = "PRE_OP" => al.request = "PRE_OP"
  /\ prog.pc = "safe_op" =>
       /\ al.state \in {"INIT", "PRE_OP", "SAFE_OP"} /\ al.request \in {"INIT", "PRE_OP", "SAFE_OP"}
       /\ al.state = "SAFE_OP" => al.request = "SAFE_OP"
  /\ prog.pc \in {"valid", "request op"} => al.state = "SAFE_OP" /\ al.request = "SAFE_OP"
  /\ prog.pc = "op" =>
       /\ al.state \in {"SAFE_OP", "OP"} /\ al.request \in {"SAFE_OP", "OP"}
       /\ al.state = "OP" => al.request = "OP"
  /\ prog.pc = "cycle" => al.state \in {"SAFE_OP", "OP"} /\ al.request = al.state

\* The drive rests out of OP, and until the cyclic loop.
Rest ==
  al.state # "OP" \/ prog.pc \in {"pdo", "safe_op", "valid", "request op", "op"} \/ ~Mapped =>
    drive.state \in AtRest

-----------------------------------------------------------------------------
\* What the writes so far have left of one direction, whose first write is `first'.
Configured(dir, first) ==
  LET step == prog.step
      assign == od.assign[dir]
      count == od.count[dir]
  IN  /\ step \in first + 1 .. first + 6 => assign = 0
      /\ step \in first + 3 .. first + 5 => count = 0
      /\ step = first + 6 => count \in {0, 3}
      /\ step > first + 6 => count = 3
      /\ step > first + 7 => assign = 1
      /\ \A i \in 1 .. 3 : step > first + 2 + i => od.map[dir][i] = Entries(dir)[i]

Layout ==
  /\ prog.pc = "pdo" /\ ~bounds.unanswered =>
       /\ Configured("rx", 1) /\ Configured("tx", 9)
       /\ prog.step > 1 => al.state = "PRE_OP"
  /\ prog.pc \in {"safe_op", "valid", "request op", "op", "cycle"} /\ ~bounds.unanswered => Mapped

-----------------------------------------------------------------------------
\* The control word 6 was chosen for a drive that was not switched on.
Chosen == io.control_word = 6 => io.status_word \notin WordsOf("on")

\* What the program knows of a drive that may be enabled soon.
Known ==
  LET control == io.control_word
      status == io.status_word
      dest == io.dest_pos
      pos == drive.pos
  IN  CASE drive.state = "ready" ->
             \/ control = 6
             \/ control \in {7, 8} /\ status \in WordsOf("ready")
        [] drive.state = "on" ->
             \/ control = 7 /\ status \in WordsOf("ready") /\ io.cur_pos = pos
             \/ control = 7 /\ status \in WordsOf("on") /\ io.cur_pos = pos /\ dest = pos
             \/ /\ control = 15 /\ status \in WordsOf("on")
                /\ pos < dest /\ dest <= pos + drive.waited
        [] drive.state = "enabled" ->
             /\ control = 15 /\ status \in WordsOf("on") \cup WordsOf("enabled")
             /\ drive.target = dest /\ pos \in {dest, dest - 1}
        [] OTHER -> TRUE

Near ==
  /\ Chosen
  /\ prog.pc = "cycle" => Known
  /\ near <= Patience + 1

Inv == Types /\ InPlace /\ Rest /\ Layout /\ Near

-----------------------------------------------------------------------------
(***************************************************************************)
(* The words: the status words and what servo_switch_op makes of them.     *)
(***************************************************************************)
USE DEF Program, ALStatus, Counts

\* The status words of the five states are apart, and servo_switch_op acts on them so.
LEMMA Switched ==
  ASSUME NEW control \in Controls
  PROVE  /\ servo_switch_op(control, 0) = control
         /\ \A s \in WordsOf("off") : servo_switch_op(control, s) \in {control, 6}
         /\ \A s \in WordsOf("ready") : servo_switch_op(control, s) \in {control, 7}
         /\ \A s \in WordsOf("on") : servo_switch_op(control, s) \in {control, 15}
         /\ \A s \in WordsOf("enabled") : servo_switch_op(control, s) = control
         /\ \A s \in WordsOf("fault") : servo_switch_op(control, s) = 8
BY DEF servo_switch_op, WordsOf, Word, Controls

\* Each status word is one of a state, or the 0 of the start.
LEMMA WordOfState ==
  ASSUME NEW s \in Words
  PROVE  \/ s = 0
         \/ s \in WordsOf("off") \/ s \in WordsOf("ready") \/ s \in WordsOf("on")
         \/ s \in WordsOf("enabled") \/ s \in WordsOf("fault")
BY DEF Words, DriveStates

LEMMA WordsApart ==
  /\ 0 \notin WordsOf("on")
  /\ \A s \in WordsOf("on") : s \notin WordsOf("off") /\ s \notin WordsOf("ready")
                              /\ s \notin WordsOf("enabled") /\ s \notin WordsOf("fault")
  /\ \A s \in WordsOf("ready") : s \notin WordsOf("enabled") /\ s # 0
BY DEF WordsOf, Word

\* The drive shows a word of its state.
LEMMA Shown ==
  ASSUME NEW state \in DriveStates, NEW warning \in BOOLEAN
  PROVE  Word(state, warning) \in WordsOf(state) /\ Word(state, warning) \in Words
BY DEF WordsOf, Words

\* A control word is one of five, and the next is.
LEMMA ControlsOnly ==
  ASSUME NEW control \in Controls, NEW s \in Words
  PROVE  servo_switch_op(control, s) \in Controls
BY Switched, WordOfState DEF Controls

-----------------------------------------------------------------------------
(***************************************************************************)
(* Types.                                                                  *)
(***************************************************************************)
LEMMA Commands ==
  ASSUME NEW state \in DriveStates, NEW control
  PROVE  Commanded(state, control) \in DriveStates
BY DEF DriveStates, Commanded

\* What a drive that takes outputs has become.
Became(control, dest, next, pos, waited) ==
  /\ drive' = [drive EXCEPT !.state = next, !.target = dest, !.pos = pos, !.waited = waited]
  /\ next \in {drive.state, Commanded(drive.state, control)}
  /\ next = Commanded(drive.state, control) \/ waited = drive.waited + 1
  /\ IF next # "enabled" THEN pos = drive.pos /\ near' = 0
     ELSE /\ pos \in {dest, drive.target} /\ (drive.state # "enabled" => pos = dest)
          /\ near' = IF dest > drive.pos THEN dest - drive.pos ELSE drive.pos - dest

LEMMA Outcome ==
  ASSUME drive \in Drive, NEW control, NEW dest \in Int, Follows(control, dest)
  PROVE  \E next \in DriveStates, pos \in Int, waited \in 0 .. Patience :
            Became(control, dest, next, pos, waited)
<1>1. Patience \in Nat BY ServoBounds
<1>2. drive.pos \in Int /\ drive.target \in Int /\ drive.waited \in 0 .. Patience
      /\ drive.state \in DriveStates
  BY DEF Drive
<1>3. PICK obeys \in BOOLEAN :
        LET next == IF obeys THEN Commanded(drive.state, control) ELSE drive.state
            idle == next = drive.state /\ Commanded(drive.state, control) # next
            distance == IF dest > drive.pos THEN dest - drive.pos ELSE drive.pos - dest
        IN /\ obeys \/ drive.waited < Patience
           /\ \E pos \in IF next # "enabled" THEN {drive.pos}
                         ELSE IF drive.state = "enabled" THEN {dest, drive.target} ELSE {dest} :
                drive' = [drive EXCEPT !.state = next, !.target = dest, !.pos = pos,
                                       !.waited = IF idle THEN @ + 1 ELSE 0]
           /\ near' = IF next = "enabled" THEN distance ELSE 0
  BY DEF Follows
<1> DEFINE next == IF obeys THEN Commanded(drive.state, control) ELSE drive.state
           waited == IF next = drive.state /\ Commanded(drive.state, control) # next
                     THEN drive.waited + 1 ELSE 0
<1>4. next \in DriveStates BY <1>2, Commands
<1>5. waited \in 0 .. Patience
  <2>1. CASE obeys
    <3>1. waited = 0 BY <2>1
    <3> QED BY <3>1, <1>1
  <2>2. CASE ~obeys
    <3>1. drive.waited < Patience BY <2>2, <1>3
    <3> QED BY <3>1, <1>1, <1>2
  <2> QED BY <2>1, <2>2
<1>6. next \in {drive.state, Commanded(drive.state, control)}
      /\ (next = Commanded(drive.state, control) \/ waited = drive.waited + 1)
  OBVIOUS
<1> HIDE DEF next
<1>7. PICK pos \in IF next # "enabled" THEN {drive.pos}
                   ELSE IF drive.state = "enabled" THEN {dest, drive.target} ELSE {dest} :
        drive' = [drive EXCEPT !.state = next, !.target = dest, !.pos = pos, !.waited = waited]
  BY <1>3 DEF next
<1>8. near' = IF next = "enabled"
              THEN (IF dest > drive.pos THEN dest - drive.pos ELSE drive.pos - dest) ELSE 0
  BY <1>3 DEF next
<1> HIDE DEF waited
<1>9. pos \in Int BY <1>2
<1>10. Became(control, dest, next, pos, waited) BY <1>6, <1>7, <1>8 DEF Became
<1> QED BY <1>4, <1>5, <1>9, <1>10

LEMMA FollowsTypes ==
  ASSUME drive \in Drive, NEW control, NEW dest \in Int, Follows(control, dest)
  PROVE  drive' \in Drive /\ near' \in Nat
<1>1. PICK next \in DriveStates, pos \in Int, waited \in 0 .. Patience :
        Became(control, dest, next, pos, waited)
  BY Outcome
<1>2. drive' \in Drive BY <1>1 DEF Became, Drive
<1>3. near' \in Nat BY <1>1 DEF Became, Drive
<1> QED BY <1>2, <1>3

LEMMA ExchangeTypes ==
  ASSUME Types, NEW outputs \in Buffer, NEW out \in Outcomes, Exchange(outputs, out)
  PROVE  /\ io' \in Buffer /\ drive' \in Drive /\ near' \in Nat
         /\ bounds' \in Counts
         /\ bounds'.unanswered = bounds.unanswered
<1>1. outputs.dest_pos \in Int BY DEF Buffer
<1>2. drive' \in Drive /\ near' \in Nat BY <1>1, FollowsTypes DEF Types, Exchange
<1>3. drive.state \in DriveStates /\ drive.warning \in BOOLEAN /\ drive.pos \in Int
  BY DEF Types, Drive
<1>4. Word(drive.state, drive.warning) \in Words BY <1>3, Shown
<1>5. io' \in Buffer BY <1>3, <1>4 DEF Exchange, Buffer
<1>6. bounds' \in Counts
      /\ bounds'.unanswered = bounds.unanswered
  BY DEF Types, Exchange
<1> QED BY <1>2, <1>5, <1>6

LEMMA WriteStates ==
  ASSUME Types, NEW state \in ALStates, NEW out \in {"ok", "lost"}, writestate(state, out)
  PROVE  /\ al' \in ALStatus
         /\ al'.state = al.state /\ al'.request \in {al.request, state}
         /\ bounds' \in Counts
         /\ bounds'.unanswered = bounds.unanswered
BY DEF Types, writestate

LEMMA WritesLength == Len(Writes) = 16
BY DEF Writes, Half, Write

LEMMA WritesByHalf == \A k \in 1 .. 8 : Writes[k] = Half("rx")[k] /\ Writes[8 + k] = Half("tx")[k]
BY DEF Writes, Half, Write

LEMMA HalfIs ==
  ASSUME NEW dir \in Dirs
  PROVE  /\ Half(dir)[1] = Write("assign", dir, 0) /\ Half(dir)[2] = Write("pdo", dir, 1)
         /\ Half(dir)[3] = Write("count", dir, 0) /\ Half(dir)[4] = Write("entry", dir, 1)
         /\ Half(dir)[5] = Write("entry", dir, 2) /\ Half(dir)[6] = Write("entry", dir, 3)
         /\ Half(dir)[7] = Write("count", dir, 3) /\ Half(dir)[8] = Write("assign", dir, 1)
BY DEF Half

LEMMA HalfParts ==
  ASSUME NEW dir \in Dirs, NEW j \in 1 .. 8
  PROVE  /\ Half(dir)[j].dir = dir
         /\ j = 1 => Half(dir)[j].to = "assign" /\ Half(dir)[j].value = 0
         /\ j = 2 => Half(dir)[j].to = "pdo"
         /\ j = 3 => Half(dir)[j].to = "count" /\ Half(dir)[j].value = 0
         /\ j \in 4 .. 6 => Half(dir)[j].to = "entry" /\ Half(dir)[j].value = j - 3
         /\ j = 7 => Half(dir)[j].to = "count" /\ Half(dir)[j].value = 3
         /\ j = 8 => Half(dir)[j].to = "assign" /\ Half(dir)[j].value = 1
<1>1. \A to, v : Write(to, dir, v).to = to /\ Write(to, dir, v).dir = dir /\ Write(to, dir, v).value = v
  BY DEF Write
<1>2. CASE j = 1 BY <1>1, <1>2, HalfIs
<1>3. CASE j = 2 BY <1>1, <1>3, HalfIs
<1>4. CASE j = 3 BY <1>1, <1>4, HalfIs
<1>5. CASE j = 4 BY <1>1, <1>5, HalfIs
<1>6. CASE j = 5 BY <1>1, <1>6, HalfIs
<1>7. CASE j = 6 BY <1>1, <1>7, HalfIs
<1>8. CASE j = 7 BY <1>1, <1>8, HalfIs
<1>9. CASE j = 8 BY <1>1, <1>9, HalfIs
<1> QED BY <1>2, <1>3, <1>4, <1>5, <1>6, <1>7, <1>8, <1>9

\* Any of the writes.
AWrite ==
  {w \in [to : {"assign", "pdo", "count", "entry"}, dir : Dirs, value : Nat] :
     w.to = "entry" => w.value \in 1 .. 3}

LEMMA WritesAre == \A k \in 1 .. 16 : Writes[k] \in AWrite
<1> SUFFICES ASSUME NEW k \in 1 .. 16 PROVE Writes[k] \in AWrite OBVIOUS
<1>1. \A dir \in Dirs, j \in 1 .. 8 : Half(dir)[j] \in AWrite
  <2> SUFFICES ASSUME NEW dir \in Dirs, NEW j \in 1 .. 8 PROVE Half(dir)[j] \in AWrite OBVIOUS
  <2>1. /\ \A v \in Nat : Write("assign", dir, v) \in AWrite /\ Write("pdo", dir, v) \in AWrite
                          /\ Write("count", dir, v) \in AWrite
        /\ \A v \in 1 .. 3 : Write("entry", dir, v) \in AWrite
    BY DEF AWrite, Write
  <2>2. CASE j = 1 \/ j = 8 BY <2>1, <2>2, HalfIs
  <2>3. CASE j = 2 \/ j = 3 \/ j = 7 BY <2>1, <2>3, HalfIs
  <2>4. CASE j = 4 \/ j = 5 \/ j = 6 BY <2>1, <2>4, HalfIs
  <2> QED BY <2>2, <2>3, <2>4
<1>2. CASE k <= 8 BY <1>1, <1>2, WritesByHalf DEF Dirs
<1>3. CASE k > 8
  <2>1. k - 8 \in 1 .. 8 /\ k = 8 + (k - 8) BY <1>3
  <2>2. Writes[k] = Half("tx")[k - 8] BY <2>1, WritesByHalf
  <2> QED BY <1>1, <2>1, <2>2 DEF Dirs
<1> QED BY <1>2, <1>3

LEMMA EntryObjects ==
  ASSUME NEW dir \in Dirs PROVE Entries(dir) \in [1 .. 3 -> Objects]
BY DEF Entries, Dirs, RPDO, TPDO, Objects

LEMMA WrittenTypes ==
  ASSUME od \in Dictionary, NEW w \in AWrite
  PROVE  Written(w) \in Dictionary
<1>1. w.dir = "rx" \/ w.dir = "tx" BY DEF AWrite, Dirs
<1>2. CASE w.to \in {"assign", "pdo", "count"}
  <2>1. w.value \in Nat BY DEF AWrite
  <2> QED BY <1>1, <1>2, <2>1 DEF Written, Dictionary
<1>3. CASE w.to = "entry"
  <2>1. w.value \in 1 .. 3 BY <1>3 DEF AWrite
  <2>2. Entries(w.dir)[w.value] \in Objects BY <1>1, <2>1, EntryObjects DEF Dirs
  <2> QED BY <1>1, <1>3, <2>1, <2>2 DEF Written, Dictionary
<1> QED BY <1>2, <1>3 DEF AWrite

\* What safe_SDOwrite leaves alone, and where it goes on.
LEMMA SDOWriteTypes ==
  ASSUME Types, NEW w \in AWrite, NEW out \in Outcomes, prog.step <= 16, safe_SDOwrite(w, out)
  PROVE  /\ od' \in Dictionary
         /\ prog' \in Program
         /\ prog'.pc = prog.pc
         /\ bounds' \in Counts
<1>1. od' \in Dictionary BY WrittenTypes DEF safe_SDOwrite, Types
<1>2. prog' \in Program /\ prog'.pc = prog.pc
  <2>1. \/ prog' = [prog EXCEPT !.tries = IF @ < Tries THEN @ + 1 ELSE @]
        \/ prog' = [prog EXCEPT !.tries = 0, !.step = @ + 1]
    BY DEF safe_SDOwrite
  <2>2. (IF prog.tries < Tries THEN prog.tries + 1 ELSE prog.tries) \in Nat BY DEF Types
  <2>3. prog.step + 1 \in 1 .. 17 BY DEF Types
  <2>4. CASE prog' = [prog EXCEPT !.tries = IF @ < Tries THEN @ + 1 ELSE @]
    BY <2>2, <2>4 DEF Types
  <2>5. CASE prog' = [prog EXCEPT !.tries = 0, !.step = @ + 1]
    BY <2>3, <2>5 DEF Types
  <2> QED BY <2>1, <2>4, <2>5
<1>3. bounds' \in Counts
  <2> DEFINE u == bounds.unanswered \/ (/\ ~(Takes(w) /\ out = "ok")
                                        /\ ~(~(Takes(w) /\ out = "ok") /\ MoreTries(prog.tries))
                                        /\ (out # "ok" \/ al.state # "PRE_OP"))
  <2>1. bounds' = [bounds EXCEPT !.lost = IF out = "ok" THEN @ ELSE @ + 1, !.unanswered = u]
    BY DEF safe_SDOwrite
  <2>2. u \in BOOLEAN BY DEF Types
  <2> HIDE DEF u
  <2>3. (IF out = "ok" THEN bounds.lost ELSE bounds.lost + 1) \in Nat BY DEF Types
  <2> QED BY <2>1, <2>2, <2>3 DEF Types
<1> QED BY <1>1, <1>2, <1>3

-----------------------------------------------------------------------------
LEMMA InitTypes == Init => Types
<1> SUFFICES ASSUME Init PROVE Types OBVIOUS
<1>1. od \in Dictionary BY DEF Init, Dictionary, Objects
<1>2. drive \in Drive BY ServoBounds DEF Init, Drive, DriveStates
<1>3. io \in Buffer BY DEF Init, Buffer, Words, Controls
<1> QED BY <1>1, <1>2, <1>3 DEF Init, Types, Places, ALStates

\* The outputs of a round of the cyclic loop.
NextOutputs ==
  LET control == servo_switch_op(io.control_word, io.status_word)
  IN [io EXCEPT !.control_word = control, !.dest_pos = Target(control, io)]

LEMMA OutputTypes == ASSUME Types PROVE NextOutputs \in Buffer
<1> DEFINE control == servo_switch_op(io.control_word, io.status_word)
<1>1. control \in Controls BY ControlsOnly DEF Types, Buffer
<1> HIDE DEF control
<1>2. Target(control, io) \in Int BY DEF Types, Buffer, Target
<1>3. NextOutputs = [io EXCEPT !.control_word = control, !.dest_pos = Target(control, io)]
  BY DEF NextOutputs, control
<1> QED BY <1>1, <1>2, <1>3 DEF Types, Buffer

LEMMA CycleIs ==
  ASSUME cycle
  PROVE  \E out \in Outcomes :
           /\ Exchange(NextOutputs, out)
           /\ prog' = IF Wkc(out) <= 0 THEN [prog EXCEPT !.pc = "stop"]
                      ELSE [prog EXCEPT !.n = @ + 1]
BY DEF cycle, NextOutputs

LEMMA RestingIs ==
  ASSUME drive \in Drive
  PROVE  Resting(drive) \in Drive /\ Resting(drive).state \in AtRest
<1>1. 0 \in 0 .. Patience BY ServoBounds
<1> QED BY <1>1 DEF Resting, Drive, DriveStates, AtRest

\* What befalls the drive changes its state, its warning or its position.
LEMMA HappensTypes ==
  ASSUME Types, NEW d, d \in Drive, d.waited = drive.waited, Happens(d)
  PROVE  /\ drive' \in Drive /\ near' \in Nat
         /\ drive'.state = d.state
         /\ bounds' \in Counts
         /\ bounds'.unanswered = bounds.unanswered
         /\ prog' = prog /\ io' = io /\ od' = od /\ prog.pc = "cycle" /\ near' = 0
<1>1. 0 \in 0 .. Patience BY ServoBounds
<1>2. (IF d.state = drive.state THEN d.waited ELSE 0) \in 0 .. Patience BY <1>1 DEF Drive
<1>3. drive' = [d EXCEPT !.waited = IF d.state = drive.state THEN @ ELSE 0] BY DEF Happens
<1>4. drive' \in Drive /\ drive'.state = d.state BY <1>2, <1>3 DEF Drive
<1> QED BY <1>4 DEF Happens, Types

\* Nothing that happens by itself moves the program.
LEMMA DriveTypes ==
  ASSUME Types, DriveNext
  PROVE  /\ drive' \in Drive /\ near' \in Nat
         /\ al' \in ALStatus
         /\ bounds' \in Counts
         /\ bounds'.unanswered = bounds.unanswered
         /\ prog' = prog /\ io' = io /\ od' = od
<1> USE DEF Types
<1>1. CASE Reach
  <2>1. drive' \in {drive, Resting(drive)} /\ near' \in {near, 0} BY <1>1 DEF Reach
  <2>2. drive' \in Drive BY <2>1, RestingIs
  <2>3. al' \in ALStatus BY <1>1 DEF Reach
  <2> QED BY <1>1, <2>1, <2>2, <2>3 DEF Reach
<1>2. CASE Trips
  <2>1. [drive EXCEPT !.state = "fault"] \in Drive BY DEF Drive, DriveStates
  <2>2. [drive EXCEPT !.state = "fault"].waited = drive.waited BY DEF Drive
  <2> QED BY <1>2, <2>1, <2>2, HappensTypes DEF Trips
<1>3. CASE Cleared
  <2>1. [drive EXCEPT !.state = "off"] \in Drive BY DEF Drive, DriveStates
  <2>2. [drive EXCEPT !.state = "off"].waited = drive.waited BY DEF Drive
  <2> QED BY <1>3, <2>1, <2>2, HappensTypes DEF Cleared
<1>4. CASE LosesSupply
  <2>1. [drive EXCEPT !.state = "off"] \in Drive BY DEF Drive, DriveStates
  <2>2. [drive EXCEPT !.state = "off"].waited = drive.waited BY DEF Drive
  <2> QED BY <1>4, <2>1, <2>2, HappensTypes DEF LosesSupply
<1>5. CASE Warns
  <2>1. [drive EXCEPT !.warning = ~@] \in Drive BY DEF Drive
  <2>2. [drive EXCEPT !.warning = ~@].waited = drive.waited BY DEF Drive
  <2> QED BY <1>5, <2>1, <2>2, HappensTypes DEF Warns
<1>6. CASE MovedByHand
  <2>1. [drive EXCEPT !.pos = @ - 2] \in Drive BY DEF Drive
  <2>2. [drive EXCEPT !.pos = @ - 2].waited = drive.waited BY DEF Drive
  <2> QED BY <1>6, <2>1, <2>2, HappensTypes DEF MovedByHand
<1>7. CASE DropsOut
  <2>1. drive' \in Drive
    <3>1. 0 \in 0 .. Patience BY ServoBounds
    <3>2. \E v : drive' = [Resting(drive) EXCEPT !.waited = v] /\ v \in {Resting(drive).waited, 0}
      BY <1>7 DEF DropsOut, Happens
    <3> QED BY <3>1, <3>2, RestingIs DEF Drive
  <2>2. bounds' \in Counts
        /\ bounds'.unanswered = bounds.unanswered
    BY <1>7 DEF DropsOut, Happens
  <2>3. al' \in ALStatus BY <1>7 DEF DropsOut, ALStates
  <2> QED BY <1>7, <2>1, <2>2, <2>3 DEF DropsOut, Happens
<1> QED BY <1>1, <1>2, <1>3, <1>4, <1>5, <1>6, <1>7 DEF DriveNext

LEMMA ProgramMoves ==
  ASSUME prog \in Program, NEW pc \in Places, NEW n \in Nat
  PROVE  /\ [prog EXCEPT !.pc = pc] \in Program /\ [prog EXCEPT !.n = n] \in Program
         /\ [prog EXCEPT !.pc = pc, !.n = n] \in Program
         /\ [prog EXCEPT !.pc = pc, !.step = 1, !.tries = 0] \in Program
         /\ [prog EXCEPT !.pc = pc, !.n = n, !.step = 1] \in Program
<1>1. [prog EXCEPT !.pc = pc] \in Program OBVIOUS
<1>2. [prog EXCEPT !.n = n] \in Program OBVIOUS
<1>3. [prog EXCEPT !.pc = pc, !.n = n] \in Program OBVIOUS
<1>4. \A m \in Nat, k \in 1 .. 17 : [prog EXCEPT !.pc = pc, !.step = k, !.tries = m] \in Program
  OBVIOUS
<1>5. \A k \in 1 .. 17 : [prog EXCEPT !.pc = pc, !.n = n, !.step = k] \in Program OBVIOUS
<1>6. 1 \in 1 .. 17 /\ 0 \in Nat OBVIOUS
<1> HIDE DEF Program
<1> QED BY <1>1, <1>2, <1>3, <1>4, <1>5, <1>6

LEMMA TypesStep ==
  ASSUME Types, [Next]_vars
  PROVE  Types'
<1> HIDE DEF Program
<1>1. CASE Start
  <2>1. prog' \in Program BY <1>1, ProgramMoves DEF Types, Start, Goto, Places
  <2>2. bounds.runs + 1 \in Nat BY DEF Types
  <2>3. bounds' \in Counts BY <1>1, <2>2 DEF Types, Start
  <2> QED BY <1>1, <2>1, <2>3 DEF Types, Start
<1>2. CASE RequestInit
  <2>1. PICK out \in {"ok", "lost"} : writestate("INIT", out) BY <1>2 DEF RequestInit
  <2> QED BY <1>2, <2>1, WriteStates, ProgramMoves DEF Types, RequestInit, Goto, Places, ALStates
<1>3. CASE config_init
  <2>1. prog' \in Program
    <3>1. \/ prog' = [prog EXCEPT !.pc = "idle"]
          \/ prog' = [prog EXCEPT !.pc = "pdo", !.step = 1, !.tries = 0]
      BY <1>3 DEF config_init, Goto
    <3> QED BY <3>1, ProgramMoves DEF Types, Places
  <2>2. drive' \in Drive /\ near' \in Nat BY <1>3, RestingIs DEF Types, config_init
  <2>3. al' \in ALStatus BY <1>3 DEF Types, config_init, ALStates
  <2>4. bounds' \in Counts
    BY <1>3 DEF Types, config_init
  <2> QED BY <1>3, <2>1, <2>2, <2>3, <2>4 DEF Types, config_init
<1>4. CASE process_data_config
  <2>1. prog.step \in 1 .. 16 BY <1>4, WritesLength DEF process_data_config, Types, Program
  <2>2. PICK out \in Outcomes : safe_SDOwrite(Writes[prog.step], out)
    BY <1>4 DEF process_data_config
  <2>3. Writes[prog.step] \in AWrite BY <2>1, WritesAre
  <2>4. prog.step <= 16 BY <2>1
  <2> QED BY <1>4, <2>2, <2>3, <2>4, SDOWriteTypes DEF Types, process_data_config
<1>5. CASE config_map
  <2>1. PICK out \in {"ok", "lost"} : writestate("SAFE_OP", out) BY <1>5 DEF config_map
  <2> QED BY <1>5, <2>1, WriteStates, ProgramMoves DEF Types, config_map, Goto, Places, ALStates
<1>6. CASE AwaitSafeOp BY <1>6, ProgramMoves DEF Types, AwaitSafeOp, Goto, Places
<1>7. CASE FirstExchange
  <2>1. PICK out \in Outcomes : Exchange(io, out) BY <1>7 DEF FirstExchange
  <2>2. io \in Buffer BY DEF Types
  <2>3. prog' \in Program
    BY <1>7, ProgramMoves DEF Types, FirstExchange, Goto, Places
  <2> QED BY <1>7, <2>1, <2>2, <2>3, ExchangeTypes DEF Types, FirstExchange
<1>8. CASE RequestOp
  <2>1. PICK out \in {"ok", "lost"} : writestate("OP", out) BY <1>8 DEF RequestOp
  <2>2. prog' \in Program
    BY <1>8, CountAssumption, ProgramMoves DEF Types, RequestOp, Places
  <2> QED BY <1>8, <2>1, <2>2, WriteStates DEF Types, RequestOp, ALStates
<1>9. CASE AwaitOp
  <2>1. PICK out \in Outcomes : Exchange(io, out) BY <1>9 DEF AwaitOp
  <2>2. io \in Buffer BY DEF Types
  <2>3. \/ prog' = [prog EXCEPT !.pc = "cycle", !.n = 1]
        \/ prog' = [prog EXCEPT !.n = @ - 1] /\ prog.n > 0
        \/ prog' = [prog EXCEPT !.pc = "stop"]
    BY <1>9 DEF AwaitOp
  <2>4. prog' \in Program
    <3>1. "cycle" \in Places /\ "stop" \in Places /\ 1 \in Nat BY DEF Places
    <3>2. CASE prog' = [prog EXCEPT !.n = @ - 1] /\ prog.n > 0
      <4> DEFINE less == prog.n - 1
      <4>1. less \in Nat BY <3>2 DEF Types, Program
      <4>2. prog' = [prog EXCEPT !.n = less] BY <3>2
      <4> HIDE DEF less
      <4> QED BY <3>1, <4>1, <4>2, ProgramMoves DEF Types
    <3>3. CASE prog' = [prog EXCEPT !.pc = "cycle", !.n = 1]
      BY <3>1, <3>3, ProgramMoves DEF Types
    <3>4. CASE prog' = [prog EXCEPT !.pc = "stop"] BY <3>1, <3>4, ProgramMoves DEF Types
    <3> QED BY <2>3, <3>2, <3>3, <3>4
  <2> QED BY <1>9, <2>1, <2>2, <2>4, ExchangeTypes DEF Types, AwaitOp
<1>10. CASE cycle
  <2>1. PICK out \in Outcomes :
          /\ Exchange(NextOutputs, out)
          /\ \/ prog' = [prog EXCEPT !.pc = "stop"]
             \/ prog' = [prog EXCEPT !.n = @ + 1]
    BY <1>10, CycleIs
  <2>2. prog' \in Program
    <3>1. prog.n + 1 \in Nat BY DEF Types, Program
    <3> QED BY <2>1, <3>1, ProgramMoves DEF Types, Places
  <2> QED BY <1>10, <2>1, <2>2, OutputTypes, ExchangeTypes DEF Types, cycle
<1>11. CASE LoopEnds BY <1>11, ProgramMoves DEF Types, LoopEnds, Goto, Places
<1>12. CASE Stop
  <2>1. PICK out \in {"ok", "lost"} : writestate("INIT", out) BY <1>12 DEF Stop
  <2>2. prog' \in Program
    BY <1>12, ProgramMoves DEF Types, Stop, Places
  <2> QED BY <1>12, <2>1, <2>2, WriteStates DEF Types, Stop, ALStates
<1>13. CASE DriveNext BY <1>13, DriveTypes DEF Types
<1>14. CASE UNCHANGED vars BY <1>14 DEF Types, vars
<1> QED
  BY <1>1, <1>2, <1>3, <1>4, <1>5, <1>6, <1>7, <1>8, <1>9, <1>10, <1>11, <1>12, <1>13, <1>14
  DEF Next, sv660n_config

-----------------------------------------------------------------------------
(***************************************************************************)
(* The place of the program and the state of the bus.                      *)
(***************************************************************************)
\* An exchange, a write of the object dictionary and what befalls the drive leave the
\* state of the bus alone.
LEMMA InPlaceStep ==
  ASSUME Types, InPlace, [Next]_vars
  PROVE  InPlace'
<1>1. CASE Start BY <1>1 DEF InPlace, Start, Goto, Types
<1>2. CASE RequestInit BY <1>2 DEF InPlace, RequestInit, Goto, Types
<1>3. CASE config_init
  <2>1. CASE prog' = [prog EXCEPT !.pc = "idle"] BY <2>1 DEF InPlace, Types
  <2>2. CASE prog' # [prog EXCEPT !.pc = "idle"]
    <3>1. al'.state = "INIT" /\ al'.request \in {"INIT", "PRE_OP"}
      BY <1>3, <2>2 DEF config_init, Goto
    <3>2. prog'.pc = "pdo" BY <1>3, <2>2 DEF config_init, Goto, Types
    <3> QED BY <3>1, <3>2 DEF InPlace
  <2> QED BY <2>1, <2>2
<1>4. CASE process_data_config
  <2>1. prog'.pc = "pdo" BY <1>4 DEF process_data_config, safe_SDOwrite, Types
  <2>2. prog.pc = "pdo" /\ al' = al BY <1>4 DEF process_data_config
  <2> QED BY <2>1, <2>2 DEF InPlace
<1>5. CASE config_map
  <2>1. PICK out \in {"ok", "lost"} : writestate("SAFE_OP", out) BY <1>5 DEF config_map
  <2>2. al'.state = al.state /\ al'.request \in {al.request, "SAFE_OP"}
    BY <2>1, WriteStates DEF ALStates
  <2>3. prog'.pc = "safe_op" /\ prog.pc = "pdo" BY <1>5 DEF config_map, Goto, Types
  <2> QED BY <2>2, <2>3 DEF InPlace
<1>6. CASE AwaitSafeOp BY <1>6 DEF InPlace, AwaitSafeOp, Goto, Types
<1>7. CASE FirstExchange BY <1>7 DEF InPlace, FirstExchange, Goto, Types
<1>8. CASE RequestOp
  <2>1. PICK out \in {"ok", "lost"} : writestate("OP", out) BY <1>8 DEF RequestOp
  <2>2. al'.state = al.state /\ al'.request \in {al.request, "OP"}
    BY <2>1, WriteStates DEF ALStates
  <2>3. prog'.pc = "op" /\ prog.pc = "request op" BY <1>8 DEF RequestOp, Types
  <2> QED BY <2>2, <2>3 DEF InPlace
<1>9. CASE AwaitOp
  <2>1. prog.pc = "op" /\ al' = al BY <1>9 DEF AwaitOp
  <2>2. \/ al.state = "OP" /\ prog'.pc = "cycle"
        \/ prog'.pc \in {"op", "stop"}
    BY <1>9 DEF AwaitOp, Types
  <2>3. al.state = "OP" => al.request = "OP" BY <2>1 DEF InPlace
  <2> QED BY <2>1, <2>2, <2>3 DEF InPlace
<1>10. CASE cycle
  <2>1. prog.pc = "cycle" /\ al' = al BY <1>10 DEF cycle
  <2>2. prog'.pc \in {"cycle", "stop"} BY <2>1, <1>10, CycleIs DEF Types
  <2> QED BY <2>1, <2>2 DEF InPlace
<1>11. CASE LoopEnds BY <1>11 DEF InPlace, LoopEnds, Goto, Types
<1>12. CASE Stop BY <1>12 DEF InPlace, Stop, Types
<1>13. CASE Reach
  <2>1. prog' = prog /\ al.state # al.request BY <1>13 DEF Reach
  <2>2. \/ Allowed(al.state, al.request) /\ al'.state = al.request /\ al'.request = al.request
        \/ ~Allowed(al.state, al.request) /\ al'.request = al.state /\ al'.state = al.state
    BY <1>13 DEF Reach, Types
  <2> QED BY <2>1, <2>2 DEF InPlace, Allowed
<1>14. CASE Trips \/ Cleared \/ LosesSupply \/ Warns \/ MovedByHand
  <2>1. prog' = prog /\ al' = al
    BY <1>14 DEF Trips, Cleared, LosesSupply, Warns, MovedByHand, Happens
  <2> QED BY <2>1 DEF InPlace
<1>15. CASE DropsOut BY <1>15 DEF InPlace, DropsOut, Happens, Types
<1>16. CASE UNCHANGED vars BY <1>16 DEF InPlace, vars
<1> QED
  BY <1>1, <1>2, <1>3, <1>4, <1>5, <1>6, <1>7, <1>8, <1>9, <1>10, <1>11, <1>12, <1>13, <1>14,
     <1>15, <1>16
  DEF Next, sv660n_config, DriveNext

\* Only an enabled exchange moves a drive on; elsewhere it stays as it is or rests.
LEMMA RestStep ==
  ASSUME Types, InPlace, Rest, [Next]_vars
  PROVE  Rest'
<1> USE DEF Rest
<1>1. CASE Start BY <1>1 DEF Start, Goto, Types, Mapped
<1>2. CASE RequestInit
  <2>1. al'.state = al.state BY <1>2, WriteStates DEF RequestInit, ALStates
  <2>2. prog'.pc = "config_init" /\ od' = od /\ drive' = drive
    BY <1>2 DEF RequestInit, Goto, Types
  <2> QED BY <2>1, <2>2 DEF Mapped
<1>3. CASE config_init
  <2>1. CASE UNCHANGED <<al, drive, near>> /\ Goto("idle")
    BY <1>3, <2>1 DEF config_init, Goto, Types, Mapped
  <2>2. CASE drive' = Resting(drive) BY <2>2, RestingIs DEF Types
  <2> QED BY <1>3, <2>1, <2>2 DEF config_init
<1>4. CASE process_data_config BY <1>4 DEF process_data_config
<1>5. CASE config_map
  <2>1. prog.pc = "pdo" /\ drive' = drive BY <1>5 DEF config_map
  <2> QED BY <2>1
<1>6. CASE AwaitSafeOp
  <2>1. prog.pc = "safe_op" /\ drive' = drive BY <1>6 DEF AwaitSafeOp
  <2> QED BY <2>1
<1>7. CASE FirstExchange
  <2>1. prog.pc = "valid" BY <1>7 DEF FirstExchange
  <2>2. drive' = drive BY <1>7, <2>1 DEF FirstExchange, Exchange, InPlace
  <2> QED BY <2>1, <2>2
<1>8. CASE RequestOp
  <2>1. prog.pc = "request op" /\ drive' = drive BY <1>8 DEF RequestOp
  <2> QED BY <2>1
<1>9. CASE AwaitOp
  <2>1. prog.pc = "op" /\ al' = al /\ od' = od BY <1>9 DEF AwaitOp
  <2>2. CASE al.state = "OP" /\ Mapped
    <3>1. prog'.pc = "cycle" BY <1>9, <2>2 DEF AwaitOp, Types
    <3> QED BY <2>1, <2>2, <3>1 DEF Mapped
  <2>3. CASE ~(al.state = "OP" /\ Mapped)
    <3>1. drive' = drive BY <1>9, <2>3 DEF AwaitOp, Exchange
    <3> QED BY <2>1, <3>1
  <2> QED BY <2>2, <2>3
<1>10. CASE cycle
  <2>1. prog.pc = "cycle" /\ al' = al /\ od' = od BY <1>10 DEF cycle
  <2>2. prog'.pc \in {"cycle", "stop"} BY <2>1, <1>10, CycleIs DEF Types
  <2>3. CASE al.state = "OP" /\ Mapped BY <2>1, <2>2, <2>3 DEF Mapped
  <2>4. CASE ~(al.state = "OP" /\ Mapped)
    <3>1. drive' = drive BY <1>10, <2>4 DEF cycle, Exchange
    <3> QED BY <2>1, <2>4, <3>1
  <2> QED BY <2>3, <2>4
<1>11. CASE LoopEnds BY <1>11 DEF LoopEnds, Goto, Types, Mapped
<1>12. CASE Stop
  <2>1. al'.state = al.state BY <1>12, WriteStates DEF Stop, ALStates
  <2>2. prog'.pc = "idle" /\ od' = od /\ drive' = drive BY <1>12 DEF Stop, Types
  <2> QED BY <2>1, <2>2 DEF Mapped
<1>13. CASE Reach
  <2>1. CASE al'.state = "OP"
    <3>1. drive' = drive /\ od' = od /\ prog' = prog BY <1>13, <2>1 DEF Reach
    <3>2. al.state # "OP" \/ al'.state = al.state BY <1>13, <2>1 DEF Reach, Types
    <3> QED BY <3>1, <3>2 DEF Mapped
  <2>2. CASE al'.state # "OP"
    <3>1. drive' = Resting(drive) BY <1>13, <2>2 DEF Reach
    <3> QED BY <3>1, RestingIs DEF Types
  <2> QED BY <2>1, <2>2
<1>14. CASE Trips \/ Cleared \/ LosesSupply
  <2>1. drive'.state \in AtRest
    BY <1>14 DEF Trips, Cleared, LosesSupply, Happens, Types, Drive, AtRest
  <2> QED BY <2>1
<1>15. CASE Warns \/ MovedByHand
  <2>1. drive'.state = drive.state /\ od' = od /\ prog' = prog /\ al' = al
    BY <1>15 DEF Warns, MovedByHand, Happens, Types, Drive
  <2> QED BY <2>1 DEF Mapped
<1>16. CASE DropsOut
  <2>1. drive'.state = Resting(drive).state
    BY <1>16, RestingIs DEF DropsOut, Happens, Types, Drive
  <2> QED BY <2>1, RestingIs DEF Types
<1>17. CASE UNCHANGED vars BY <1>17 DEF vars, Mapped
<1> QED
  BY <1>1, <1>2, <1>3, <1>4, <1>5, <1>6, <1>7, <1>8, <1>9, <1>10, <1>11, <1>12, <1>13, <1>14,
     <1>15, <1>16, <1>17
  DEF Next, sv660n_config, DriveNext

-----------------------------------------------------------------------------
(***************************************************************************)
(* The layout of the process data.                                         *)
(***************************************************************************)
LEMMA MappedParts ==
  ASSUME Types
  PROVE  Mapped <=> /\ od.assign.rx = 1 /\ od.count.rx = 3 /\ od.map.rx = RPDO
                    /\ od.assign.tx = 1 /\ od.count.tx = 3 /\ od.map.tx = TPDO
BY DEF Types, Dictionary, Mapped

\* The last write leaves both directions as the struct has them.
LEMMA ConfiguredIsMapped ==
  ASSUME Types, Configured("rx", 1), Configured("tx", 9), prog.step > 16
  PROVE  Mapped
<1>1. \A i \in 1 .. 3 : od.map.rx[i] = RPDO[i] /\ od.map.tx[i] = TPDO[i]
  BY DEF Configured, Entries, Types
<1>2. RPDO \in [1 .. 3 -> Objects] /\ TPDO \in [1 .. 3 -> Objects]
  BY EntryObjects DEF Entries, Dirs
<1>3. od.map.rx \in [1 .. 3 -> Objects] /\ od.map.tx \in [1 .. 3 -> Objects]
  BY DEF Types, Dictionary
<1>4. od.map.rx = RPDO /\ od.map.tx = TPDO BY <1>1, <1>2, <1>3
<1>5. od.assign.rx = 1 /\ od.count.rx = 3 /\ od.assign.tx = 1 /\ od.count.tx = 3
  BY DEF Configured, Types
<1> QED BY <1>4, <1>5, MappedParts

\* A write of one direction leaves the other as it is.
LEMMA OtherDirection ==
  ASSUME Types, NEW w \in AWrite, NEW dir \in Dirs, dir # w.dir
  PROVE  /\ Written(w).assign[dir] = od.assign[dir] /\ Written(w).count[dir] = od.count[dir]
         /\ Written(w).map[dir] = od.map[dir]
BY DEF Types, Dictionary, Written, AWrite, Dirs

\* What a write leaves of its own direction.
LEMMA WrittenParts ==
  ASSUME Types, NEW w \in AWrite, NEW dir \in Dirs, dir = w.dir
  PROVE  /\ Written(w).assign[dir] = IF w.to = "assign" THEN w.value ELSE od.assign[dir]
         /\ Written(w).count[dir] = IF w.to = "count" THEN w.value ELSE od.count[dir]
         /\ \A i \in 1 .. 3 :
              Written(w).map[dir][i] = IF w.to = "entry" /\ w.value = i THEN Entries(dir)[i]
                                       ELSE od.map[dir][i]
<1>1. CASE w.to = "entry"
  <2>1. w.value \in 1 .. 3 BY <1>1 DEF AWrite
  <2> QED BY <1>1, <2>1 DEF Types, Dictionary, Written, Dirs
<1>2. CASE w.to # "entry" BY <1>2 DEF Types, Dictionary, Written, AWrite, Dirs
<1> QED BY <1>1, <1>2

\* The j-th write of a direction, when the ones before it are done, is taken in PRE_OP.
LEMMA IsTaken ==
  ASSUME Types, al.state = "PRE_OP", NEW dir \in Dirs, NEW first \in {1, 9}, NEW j \in 1 .. 8,
         prog.step = first + j - 1, Configured(dir, first)
  PROVE  Takes(Half(dir)[j])
<1> DEFINE w == Half(dir)[j]
<1>1. /\ w.dir = dir
      /\ w.to # "assign" => j \in 2 .. 7
      /\ w.to = "entry" => j \in 4 .. 6
  BY HalfParts
<1>2. j \in 2 .. 7 => od.assign[dir] = 0 BY DEF Configured
<1>3. j \in 4 .. 6 => od.count[dir] = 0 BY DEF Configured
<1> HIDE DEF w
<1>4. Takes(w) BY <1>1, <1>2, <1>3 DEF Takes
<1> QED BY <1>4 DEF w

\* It advances the layout of its direction, and may be repeated.
LEMMA Advances ==
  ASSUME Types, NEW dir \in Dirs, NEW first \in {1, 9}, NEW j \in 1 .. 8,
         prog.step = first + j - 1, Configured(dir, first),
         \/ prog'.step = prog.step /\ od' = od
         \/ prog'.step \in {prog.step, prog.step + 1} /\ od' = Written(Half(dir)[j])
  PROVE  Configured(dir, first)'
<1>1. CASE prog'.step = prog.step /\ od' = od BY <1>1 DEF Configured
<1>2. CASE prog'.step \in {prog.step, prog.step + 1} /\ od' = Written(Half(dir)[j])
  <2> DEFINE w == Half(dir)[j]
  <2>1. w.dir = dir BY HalfParts
  <2>2. w \in AWrite
    <3>1. CASE dir = "rx" BY <3>1, WritesByHalf, WritesAre
    <3>2. CASE dir = "tx"
      <4>1. Writes[8 + j] = w /\ 8 + j \in 1 .. 16 BY <3>2, WritesByHalf
      <4> QED BY <4>1, WritesAre
    <3> QED BY <3>1, <3>2 DEF Dirs
  <2>3. /\ od'.assign[dir] = IF w.to = "assign" THEN w.value ELSE od.assign[dir]
        /\ od'.count[dir] = IF w.to = "count" THEN w.value ELSE od.count[dir]
        /\ \A i \in 1 .. 3 : od'.map[dir][i] = IF w.to = "entry" /\ w.value = i THEN Entries(dir)[i]
                                               ELSE od.map[dir][i]
    BY <1>2, <2>1, <2>2, WrittenParts
  <2>4. CASE j = 1
    <3>1. w.to = "assign" /\ w.value = 0 BY <2>4, HalfParts
    <3> QED BY <1>2, <2>3, <2>4, <3>1 DEF Configured
  <2>5. CASE j = 2
    <3>1. w.to = "pdo" BY <2>5, HalfParts
    <3> QED BY <1>2, <2>3, <2>5, <3>1 DEF Configured
  <2>6. CASE j = 3
    <3>1. w.to = "count" /\ w.value = 0 BY <2>6, HalfParts
    <3> QED BY <1>2, <2>3, <2>6, <3>1 DEF Configured
  <2>7. CASE j \in 4 .. 6
    <3>1. w.to = "entry" /\ w.value = j - 3 BY <2>7, HalfParts
    <3> QED BY <1>2, <2>3, <2>7, <3>1 DEF Configured
  <2>8. CASE j = 7
    <3>1. w.to = "count" /\ w.value = 3 BY <2>8, HalfParts
    <3> QED BY <1>2, <2>3, <2>8, <3>1 DEF Configured
  <2>9. CASE j = 8
    <3>1. w.to = "assign" /\ w.value = 1 BY <2>9, HalfParts
    <3> QED BY <1>2, <2>3, <2>9, <3>1 DEF Configured
  <2> QED BY <2>4, <2>5, <2>6, <2>7, <2>8, <2>9
<1> QED BY <1>1, <1>2

\* A direction keeps its layout while the writes of the other are made.
LEMMA Keeps ==
  ASSUME Types, NEW dir \in Dirs, NEW first \in {1, 9}, Configured(dir, first),
         prog.step < first \/ prog.step > first + 7,
         prog'.step \in {prog.step, prog.step + 1},
         od'.assign[dir] = od.assign[dir], od'.count[dir] = od.count[dir],
         od'.map[dir] = od.map[dir]
  PROVE  Configured(dir, first)'
<1>1. prog.step \in 1 .. 17 BY DEF Types
<1>2. CASE prog.step < first BY <1>1, <1>2 DEF Configured
<1>3. CASE prog.step > first + 7 BY <1>1, <1>3 DEF Configured
<1> QED BY <1>2, <1>3

\* A write that is answered, or tried again, or refused where no mapping is lost.
LEMMA WriteCases ==
  ASSUME Types, NEW w, NEW out \in Outcomes, safe_SDOwrite(w, out), ~bounds'.unanswered,
         al.state = "PRE_OP" => Takes(w)
  PROVE  /\ ~bounds.unanswered
         /\ \/ prog'.step = prog.step /\ od' \in {od, Written(w)}
            \/ prog'.step = prog.step + 1 /\ od' = Written(w) /\ al.state = "PRE_OP"
<1>1. bounds'.unanswered = (\/ bounds.unanswered
                            \/ /\ ~(Takes(w) /\ out = "ok")
                               /\ ~(~(Takes(w) /\ out = "ok") /\ MoreTries(prog.tries))
                               /\ (out # "ok" \/ al.state # "PRE_OP"))
  BY DEF safe_SDOwrite, Types
<1>2. ~bounds.unanswered BY <1>1
<1>3. CASE Takes(w) /\ out = "ok"
  <2>1. od' = Written(w) /\ prog' = [prog EXCEPT !.tries = 0, !.step = @ + 1]
    BY <1>3 DEF safe_SDOwrite
  <2> QED BY <1>2, <1>3, <2>1 DEF Types, Takes
<1>4. CASE ~(Takes(w) /\ out = "ok")
  <2>1. MoreTries(prog.tries) BY <1>1, <1>4
  <2>2. prog' = [prog EXCEPT !.tries = IF @ < Tries THEN @ + 1 ELSE @]
    BY <1>4, <2>1 DEF safe_SDOwrite
  <2>3. od' \in {od, Written(w)} BY DEF safe_SDOwrite
  <2> QED BY <1>2, <2>2, <2>3 DEF Types
<1> QED BY <1>3, <1>4

LEMMA ConfigureStep ==
  ASSUME Types, Layout, process_data_config
  PROVE  Layout'
<1>1. prog.pc = "pdo" /\ prog'.pc = "pdo" /\ al' = al
  BY DEF process_data_config, safe_SDOwrite, Types
<1> SUFFICES ASSUME ~bounds'.unanswered
             PROVE  /\ Configured("rx", 1)' /\ Configured("tx", 9)'
                    /\ prog'.step > 1 => al.state = "PRE_OP"
  BY <1>1 DEF Layout
<1>2. PICK out \in Outcomes : safe_SDOwrite(Writes[prog.step], out) BY DEF process_data_config
<1>3. prog.step \in 1 .. 16 BY WritesLength DEF process_data_config, Types
<1> DEFINE w == Writes[prog.step]
<1>4. ~bounds.unanswered BY <1>2 DEF safe_SDOwrite, Types
<1>5. Configured("rx", 1) /\ Configured("tx", 9) /\ (prog.step > 1 => al.state = "PRE_OP")
  BY <1>1, <1>4 DEF Layout
<1>6. w \in AWrite BY <1>3, WritesAre
<1>7. CASE prog.step <= 8
  <2>1. prog.step \in 1 .. 8 /\ w = Half("rx")[prog.step] BY <1>3, <1>7, WritesByHalf
  <2>2. al.state = "PRE_OP" => Takes(w) BY <1>5, <2>1, IsTaken DEF Dirs
  <2>3. \/ prog'.step = prog.step /\ od' \in {od, Written(w)}
        \/ prog'.step = prog.step + 1 /\ od' = Written(w) /\ al.state = "PRE_OP"
    BY <1>2, <2>2, WriteCases
  <2>4. Configured("rx", 1)' BY <1>5, <2>1, <2>3, Advances DEF Dirs
  <2>5. w.dir = "rx" BY <2>1, HalfParts DEF Dirs
  <2>6. /\ od'.assign["tx"] = od.assign["tx"] /\ od'.count["tx"] = od.count["tx"]
        /\ od'.map["tx"] = od.map["tx"]
    BY <1>6, <2>3, <2>5, OtherDirection DEF Dirs
  <2>7. Configured("tx", 9)' BY <1>3, <1>5, <1>7, <2>3, <2>6, Keeps DEF Dirs
  <2> QED BY <1>5, <2>3, <2>4, <2>7
<1>8. CASE prog.step > 8
  <2>1. prog.step - 8 \in 1 .. 8 /\ prog.step = 9 + (prog.step - 8) - 1 BY <1>3, <1>8
  <2>2. w = Half("tx")[prog.step - 8]
    <3>1. prog.step = 8 + (prog.step - 8) BY <2>1
    <3> QED BY <2>1, <3>1, WritesByHalf
  <2>3. al.state = "PRE_OP" => Takes(w) BY <1>5, <2>1, <2>2, IsTaken DEF Dirs
  <2>4. \/ prog'.step = prog.step /\ od' \in {od, Written(w)}
        \/ prog'.step = prog.step + 1 /\ od' = Written(w) /\ al.state = "PRE_OP"
    BY <1>2, <2>3, WriteCases
  <2>5. Configured("tx", 9)' BY <1>5, <2>1, <2>2, <2>4, Advances DEF Dirs
  <2>6. w.dir = "tx" BY <2>1, <2>2, HalfParts DEF Dirs
  <2>7. /\ od'.assign["rx"] = od.assign["rx"] /\ od'.count["rx"] = od.count["rx"]
        /\ od'.map["rx"] = od.map["rx"]
    BY <1>6, <2>4, <2>6, OtherDirection DEF Dirs
  <2>8. Configured("rx", 1)' BY <1>5, <1>8, <2>4, <2>7, Keeps DEF Dirs
  <2> QED BY <1>3, <1>5, <1>8, <2>4, <2>5, <2>8
<1> QED BY <1>3, <1>7, <1>8

\* The layout stays as it is where the program writes nothing.
LEMMA LayoutStep ==
  ASSUME Types, InPlace, Layout, [Next]_vars
  PROVE  Layout'
<1>1. CASE Start BY <1>1 DEF Layout, Start, Goto, Types
<1>2. CASE RequestInit BY <1>2 DEF Layout, RequestInit, Goto, Types
<1>3. CASE config_init
  <2>1. CASE prog' = [prog EXCEPT !.pc = "idle"] BY <2>1 DEF Layout, Types
  <2>2. CASE prog' # [prog EXCEPT !.pc = "idle"]
    <3>1. prog'.pc = "pdo" /\ prog'.step = 1 BY <1>3, <2>2 DEF config_init, Goto, Types
    <3>2. Configured("rx", 1)' /\ Configured("tx", 9)' BY <3>1 DEF Configured
    <3>3. ~(prog'.step > 1) BY <3>1
    <3>4. prog'.pc \notin {"safe_op", "valid", "request op", "op", "cycle"} BY <3>1
    <3> QED BY <3>2, <3>3, <3>4 DEF Layout
  <2> QED BY <2>1, <2>2
<1>4. CASE process_data_config BY <1>4, ConfigureStep
<1>5. CASE config_map
  <2>1. PICK out \in {"ok", "lost"} : writestate("SAFE_OP", out) BY <1>5 DEF config_map
  <2>2. bounds'.unanswered = bounds.unanswered BY <2>1, WriteStates DEF ALStates
  <2>3. prog'.pc = "safe_op" /\ prog.pc = "pdo" /\ prog.step > 16 /\ od' = od
    BY <1>5, WritesLength DEF config_map, Goto, Types
  <2>4. ~bounds.unanswered => Mapped BY <2>3, ConfiguredIsMapped DEF Layout
  <2> QED BY <2>2, <2>3, <2>4 DEF Layout, Mapped
<1>6. CASE AwaitSafeOp
  <2>1. prog.pc = "safe_op" /\ prog'.pc \in {"valid", "idle"} /\ od' = od /\ bounds' = bounds
    BY <1>6 DEF AwaitSafeOp, Goto, Types
  <2> QED BY <2>1 DEF Layout, Mapped
<1>7. CASE FirstExchange
  <2>1. PICK out \in Outcomes : Exchange(io, out) BY <1>7 DEF FirstExchange
  <2>2. bounds'.unanswered = bounds.unanswered BY <2>1, ExchangeTypes DEF Types
  <2>3. prog.pc = "valid" /\ prog'.pc = "request op" /\ od' = od
    BY <1>7 DEF FirstExchange, Goto, Types
  <2> QED BY <2>2, <2>3 DEF Layout, Mapped
<1>8. CASE RequestOp
  <2>1. PICK out \in {"ok", "lost"} : writestate("OP", out) BY <1>8 DEF RequestOp
  <2>2. bounds'.unanswered = bounds.unanswered BY <2>1, WriteStates DEF ALStates
  <2>3. prog.pc = "request op" /\ prog'.pc = "op" /\ od' = od BY <1>8 DEF RequestOp, Types
  <2> QED BY <2>2, <2>3 DEF Layout, Mapped
<1>9. CASE AwaitOp
  <2>1. PICK out \in Outcomes : Exchange(io, out) BY <1>9 DEF AwaitOp
  <2>2. bounds'.unanswered = bounds.unanswered BY <2>1, ExchangeTypes DEF Types
  <2>3. prog.pc = "op" /\ prog'.pc \in {"op", "cycle", "stop"} /\ od' = od
    BY <1>9 DEF AwaitOp, Types
  <2> QED BY <2>2, <2>3 DEF Layout, Mapped
<1>10. CASE cycle
  <2>1. PICK out \in Outcomes : Exchange(NextOutputs, out) BY <1>10, CycleIs
  <2>2. bounds'.unanswered = bounds.unanswered BY <2>1, OutputTypes, ExchangeTypes
  <2>3. prog.pc = "cycle" /\ od' = od BY <1>10 DEF cycle
  <2>4. prog'.pc \in {"cycle", "stop"} BY <2>3, <1>10, CycleIs DEF Types
  <2> QED BY <2>2, <2>3, <2>4 DEF Layout, Mapped
<1>11. CASE LoopEnds BY <1>11 DEF Layout, LoopEnds, Goto, Types
<1>12. CASE Stop BY <1>12 DEF Layout, Stop, Types
<1>13. CASE DriveNext
  <2>1. prog' = prog /\ od' = od /\ bounds'.unanswered = bounds.unanswered
    BY <1>13, DriveTypes
  <2>2. prog.pc = "pdo" => al' = al \/ al.state # "PRE_OP"
    BY <1>13
    DEF DriveNext, Reach, Trips, Cleared, LosesSupply, Warns, MovedByHand, DropsOut, Happens,
        InPlace
  <2> QED BY <2>1, <2>2 DEF Layout, Mapped, Configured
<1>14. CASE UNCHANGED vars BY <1>14 DEF Layout, Mapped, Configured, vars
<1> QED
  BY <1>1, <1>2, <1>3, <1>4, <1>5, <1>6, <1>7, <1>8, <1>9, <1>10, <1>11, <1>12, <1>13, <1>14
  DEF Next, sv660n_config

-----------------------------------------------------------------------------
(***************************************************************************)
(* The target.                                                             *)
(***************************************************************************)
\* What the next outputs are for a drive of which Known holds.
LEMMA NextKnown ==
  ASSUME Types, Chosen, Known, drive.state \notin AtRest
  PROVE  LET c == NextOutputs.control_word
             d == NextOutputs.dest_pos
         IN  /\ drive.state = "ready" => c \in {6, 7, 8}
             /\ drive.state = "on" =>
                  \/ c = 7 /\ d = drive.pos
                  \/ c = 15 /\ drive.pos < d /\ d <= drive.pos + drive.waited + 1
             /\ drive.state = "enabled" =>
                  c = 15 /\ d = drive.target + 1 /\ drive.pos \in {d - 1, d - 2}
<1> DEFINE control == io.control_word
           status == io.status_word
           c == servo_switch_op(control, status)
           d == Target(c, io)
<1>1. /\ control \in Controls /\ status \in Words
      /\ io.dest_pos \in Int /\ io.cur_pos \in Int
      /\ drive.pos \in Int /\ drive.waited \in Nat /\ drive.state \in DriveStates
  BY ServoBounds DEF Types, Buffer, Drive
<1>2. /\ status = 0 => c = control
      /\ status \in WordsOf("off") => c \in {control, 6}
      /\ status \in WordsOf("ready") => c \in {control, 7}
      /\ status \in WordsOf("on") => c \in {control, 15}
      /\ status \in WordsOf("enabled") => c = control
      /\ status \in WordsOf("fault") => c = 8
  BY <1>1, Switched
<1>3. NextOutputs.control_word = c /\ NextOutputs.dest_pos = d
  BY DEF NextOutputs, Types, Buffer
<1>4. /\ c = 7 => d = io.cur_pos
      /\ c = 15 => d = io.dest_pos + 1
  BY DEF Target
<1> HIDE DEF c, d
<1>5. CASE drive.state = "ready"
  <2>1. \/ control = 6
        \/ control \in {7, 8} /\ status \in WordsOf("ready")
    BY <1>5 DEF Known
  <2>2. control = 6 => status \notin WordsOf("on") BY DEF Chosen
  <2>3. c \in {6, 7, 8} BY <1>1, <1>2, <2>1, <2>2, WordOfState
  <2> QED BY <1>3, <1>5, <2>3
<1>6. CASE drive.state = "on"
  <2>1. \/ control = 7 /\ status \in WordsOf("ready") /\ io.cur_pos = drive.pos
        \/ control = 7 /\ status \in WordsOf("on") /\ io.cur_pos = drive.pos /\ io.dest_pos = drive.pos
        \/ /\ control = 15 /\ status \in WordsOf("on")
           /\ drive.pos < io.dest_pos /\ io.dest_pos <= drive.pos + drive.waited
    BY <1>6 DEF Known
  <2>2. CASE control = 7 /\ status \in WordsOf("ready") /\ io.cur_pos = drive.pos
    BY <1>2, <1>3, <1>4, <1>6, <2>2
  <2>3. CASE control = 7 /\ status \in WordsOf("on") /\ io.cur_pos = drive.pos /\ io.dest_pos = drive.pos
    BY <1>1, <1>2, <1>3, <1>4, <1>6, <2>3
  <2>4. CASE /\ control = 15 /\ status \in WordsOf("on")
             /\ drive.pos < io.dest_pos /\ io.dest_pos <= drive.pos + drive.waited
    <3>1. c = 15 BY <1>2, <2>4
    <3>2. d = io.dest_pos + 1 BY <1>4, <3>1
    <3>3. drive.pos < d /\ d <= drive.pos + drive.waited + 1 BY <1>1, <2>4, <3>2
    <3> QED BY <1>3, <1>6, <3>1, <3>3
  <2> QED BY <2>1, <2>2, <2>3, <2>4
<1>7. CASE drive.state = "enabled"
  <2>1. /\ control = 15 /\ status \in WordsOf("on") \cup WordsOf("enabled")
        /\ drive.target = io.dest_pos /\ drive.pos \in {io.dest_pos, io.dest_pos - 1}
    BY <1>7 DEF Known
  <2>2. c = 15 BY <1>2, <2>1
  <2>3. d = io.dest_pos + 1 BY <1>4, <2>2
  <2>4. drive.pos \in {d - 1, d - 2} BY <1>1, <2>1, <2>3
  <2> QED BY <1>3, <1>7, <2>1, <2>2, <2>3, <2>4
<1> QED BY <1>1, <1>5, <1>6, <1>7 DEF DriveStates, AtRest

\* The next control word is 6 only for a drive that is not switched on.
LEMMA NextChosen ==
  ASSUME Types, Chosen, NextOutputs.control_word = 6
  PROVE  io.status_word \notin WordsOf("on")
<1> DEFINE c == servo_switch_op(io.control_word, io.status_word)
<1>1. io.control_word \in Controls BY DEF Types, Buffer
<1>2. io.status_word \in WordsOf("on") => c \in {io.control_word, 15} BY <1>1, Switched
<1>3. NextOutputs.control_word = c BY DEF NextOutputs, Types, Buffer
<1> HIDE DEF c
<1> QED BY <1>2, <1>3 DEF Chosen

\* A drive that rests becomes ready at most.
LEMMA FromRest ==
  ASSUME Types, drive.state \in AtRest, NEW control, NEW dest \in Int, Follows(control, dest)
  PROVE  /\ drive'.state \in {"off", "fault", "ready"} /\ near' = 0
         /\ drive'.state = "ready" => control = 6
<1>1. PICK next \in DriveStates, pos \in Int, waited \in 0 .. Patience :
        Became(control, dest, next, pos, waited)
  BY Outcome DEF Types
<1>2. next \in {"off", "fault", "ready"} /\ (next = "ready" => control = 6)
  <2>1. next \in {drive.state, Commanded(drive.state, control)} BY <1>1 DEF Became
  <2>2. Commanded("fault", control) = "fault" /\ Commanded("off", control) \in {"off", "ready"}
        /\ (Commanded("off", control) = "ready" => control = 6)
    BY DEF Commanded
  <2> QED BY <2>1, <2>2 DEF AtRest
<1> QED BY <1>1, <1>2 DEF Became, Types, Drive

\* The drive that takes the next outputs: how far it is from the target, and what it
\* becomes when its inputs come back.
LEMMA NextFollows ==
  ASSUME Types, Chosen, Known,
         Follows(NextOutputs.control_word, NextOutputs.dest_pos)
  PROVE  /\ near' <= Patience + 1
         /\ io' = [NextOutputs EXCEPT !.status_word = Word(drive.state, drive.warning),
                                      !.cur_pos = drive.pos]
              => Known'
<1> DEFINE c == NextOutputs.control_word
           d == NextOutputs.dest_pos
<1>1. c \in Controls /\ d \in Int BY OutputTypes DEF Buffer
<1>2. PICK next \in DriveStates, pos \in Int, waited \in 0 .. Patience :
        Became(c, d, next, pos, waited)
  BY <1>1, Outcome DEF Types
<1>3. Patience \in Nat \ {0} BY ServoBounds
<1>4. /\ drive.state \in DriveStates /\ drive.warning \in BOOLEAN
      /\ drive.pos \in Int /\ drive.target \in Int /\ drive.waited \in 0 .. Patience
  BY DEF Types, Drive
<1>5. drive'.state = next /\ drive'.pos = pos /\ drive'.target = d /\ drive'.waited = waited
  BY <1>2 DEF Became, Types, Drive
<1> DEFINE shown == io' = [NextOutputs EXCEPT !.status_word = Word(drive.state, drive.warning),
                                              !.cur_pos = drive.pos]
<1>6. shown => /\ io'.control_word = c /\ io'.dest_pos = d /\ io'.cur_pos = drive.pos
               /\ io'.status_word \in WordsOf(drive.state)
  BY <1>4, Shown, OutputTypes DEF Buffer
<1>7. (near' <= Patience + 1) /\ (shown => Known')
  <2> HIDE DEF c, d, shown
  <2>1. CASE drive.state \in AtRest
    <3>1. drive'.state \in {"off", "fault", "ready"} /\ near' = 0
          /\ (drive'.state = "ready" => c = 6)
      BY <1>1, <2>1, FromRest DEF c, d
    <3> QED BY <1>3, <1>6, <3>1 DEF Known
  <2>2. CASE drive.state = "ready"
    <3>1. c \in {6, 7, 8} BY <2>2, NextKnown DEF AtRest, c
    <3>2. next \in {"ready", "on", "off"} /\ (next = "on" => c = 7)
      BY <1>2, <2>2, <3>1 DEF Became, Commanded
    <3>3. near' = 0 /\ pos = drive.pos BY <1>2, <3>2 DEF Became
    <3> QED BY <1>3, <1>5, <1>6, <2>2, <3>1, <3>2, <3>3 DEF Known
  <2>3. CASE drive.state = "on"
    <3>1. \/ c = 7 /\ d = drive.pos
          \/ c = 15 /\ drive.pos < d /\ d <= drive.pos + drive.waited + 1
      BY <2>3, NextKnown DEF AtRest, c, d
    <3>2. CASE c = 7 /\ d = drive.pos
      <4>1. next = "on" BY <1>2, <2>3, <3>2 DEF Became, Commanded
      <4>2. near' = 0 /\ pos = drive.pos BY <1>2, <4>1 DEF Became
      <4> QED BY <1>3, <1>5, <1>6, <2>3, <3>2, <4>1, <4>2 DEF Known
    <3>3. CASE c = 15 /\ drive.pos < d /\ d <= drive.pos + drive.waited + 1
      <4>1. CASE next = "enabled"
        <5>1. pos = d /\ near' = d - drive.pos BY <1>1, <1>2, <1>4, <2>3, <3>3, <4>1 DEF Became
        <5>2. near' <= Patience + 1 BY <1>1, <1>3, <1>4, <3>3, <5>1
        <5> QED BY <1>5, <1>6, <2>3, <3>3, <4>1, <5>1, <5>2 DEF Known
      <4>2. CASE next # "enabled"
        <5>1. next = "on" /\ waited = drive.waited + 1
          BY <1>2, <2>3, <3>3, <4>2 DEF Became, Commanded
        <5>2. near' = 0 /\ pos = drive.pos BY <1>2, <4>2 DEF Became
        <5>3. d <= pos + waited BY <1>1, <1>4, <3>3, <5>1, <5>2
        <5> QED BY <1>3, <1>5, <1>6, <2>3, <3>3, <5>1, <5>2, <5>3 DEF Known
      <4> QED BY <4>1, <4>2
    <3> QED BY <3>1, <3>2, <3>3
  <2>4. CASE drive.state = "enabled"
    <3>1. c = 15 /\ d = drive.target + 1 /\ drive.pos \in {d - 1, d - 2}
      BY <2>4, NextKnown DEF AtRest, c, d
    <3>2. next = "enabled" BY <1>2, <2>4, <3>1 DEF Became, Commanded
    <3>3. pos \in {d, d - 1} BY <1>1, <1>2, <1>4, <3>1, <3>2 DEF Became
    <3>4. near' = d - drive.pos BY <1>1, <1>2, <1>4, <3>1, <3>2 DEF Became
    <3>5. near' <= Patience + 1 BY <1>1, <1>3, <1>4, <3>1, <3>4
    <3> QED BY <1>5, <1>6, <2>4, <3>1, <3>2, <3>3, <3>5 DEF Known
  <2> QED BY <1>4, <2>1, <2>2, <2>3, <2>4 DEF DriveStates, AtRest
<1> QED BY <1>7

\* What befalls the drive, and the supervisor, leave what the program knows true.
LEMMA DriveNear ==
  ASSUME Types, InPlace, Near, DriveNext
  PROVE  Near'
<1>1. io' = io /\ prog' = prog BY DriveTypes
<1>2. Chosen' BY <1>1 DEF Near, Chosen
<1>3. near' \in {near, 0}
  BY DEF DriveNext, Reach, Trips, Cleared, LosesSupply, Warns, MovedByHand, DropsOut, Happens
<1>4. near' <= Patience + 1 BY <1>3, ServoBounds DEF Near
<1>5. ASSUME prog.pc = "cycle" PROVE Known'
  <2>1. Known BY <1>5 DEF Near
  <2>2. CASE Reach BY <1>5, <2>2 DEF Reach, InPlace
  <2>3. CASE Trips \/ Cleared \/ LosesSupply
    <3>1. drive'.state \in {"off", "fault"}
      BY <2>3 DEF Trips, Cleared, LosesSupply, Happens, Types, Drive
    <3> QED BY <3>1 DEF Known
  <2>4. CASE Warns
    <3>1. /\ drive'.state = drive.state /\ drive'.pos = drive.pos
          /\ drive'.waited = drive.waited /\ drive'.target = drive.target
      BY <2>4 DEF Warns, Happens, Types, Drive
    <3> QED BY <1>1, <2>1, <3>1 DEF Known
  <2>5. CASE MovedByHand
    <3>1. drive'.state \in {"off", "fault"} BY <2>5 DEF MovedByHand, Happens, Types, Drive
    <3> QED BY <3>1 DEF Known
  <2>6. CASE DropsOut
    <3>1. drive'.state = Resting(drive).state
      BY <2>6, RestingIs DEF DropsOut, Happens, Types, Drive
    <3>2. drive'.state \in {"off", "fault"} BY <3>1, RestingIs DEF Types, AtRest
    <3> QED BY <3>2 DEF Known
  <2> QED BY <2>2, <2>3, <2>4, <2>5, <2>6 DEF DriveNext
<1> QED BY <1>1, <1>2, <1>4, <1>5 DEF Near

\* An exchange before the cyclic loop: the drive rests, so that none of its words is of
\* a drive switched on.
LEMMA EarlyExchange ==
  ASSUME Types, Rest, Near, prog.pc \in {"valid", "op"}, NEW out \in Outcomes, Exchange(io, out)
  PROVE  /\ Chosen' /\ near' <= Patience + 1
         /\ io'.control_word = io.control_word
         /\ drive'.state \in {"off", "fault", "ready"}
         /\ drive'.state = "ready" => io'.control_word = 6
<1>1. drive.state \in AtRest BY DEF Rest
<1>2. drive.state \in DriveStates /\ drive.warning \in BOOLEAN BY DEF Types, Drive
<1>3. Word(drive.state, drive.warning) \notin WordsOf("on")
  BY <1>1, <1>2, Shown, WordsApart DEF AtRest
<1>4. /\ io'.control_word = io.control_word
      /\ io'.status_word \in {io.status_word, Word(drive.state, drive.warning)}
  BY DEF Exchange, Types, Buffer
<1>5. Chosen' BY <1>3, <1>4 DEF Near, Chosen
<1>6. \/ Follows(io.control_word, io.dest_pos)
      \/ drive' = drive /\ near' = near
  BY DEF Exchange
<1>7. io.dest_pos \in Int BY DEF Types, Buffer
<1>8. CASE Follows(io.control_word, io.dest_pos)
  <2>1. drive'.state \in {"off", "fault", "ready"} /\ near' = 0
        /\ (drive'.state = "ready" => io.control_word = 6)
    BY <1>1, <1>7, <1>8, FromRest
  <2> QED BY <1>4, <1>5, <2>1, ServoBounds
<1>9. CASE drive' = drive /\ near' = near BY <1>1, <1>4, <1>5, <1>9 DEF Near, AtRest
<1> QED BY <1>6, <1>8, <1>9

\* A round of the cyclic loop.
LEMMA CycleNear ==
  ASSUME Types, InPlace, Rest, Near, cycle
  PROVE  Near'
<1>1. prog.pc = "cycle" BY DEF cycle
<1>2. Chosen /\ Known /\ near <= Patience + 1 BY <1>1 DEF Near
<1>3. PICK out \in Outcomes :
        /\ Exchange(NextOutputs, out)
        /\ prog' = IF Wkc(out) <= 0 THEN [prog EXCEPT !.pc = "stop"] ELSE [prog EXCEPT !.n = @ + 1]
  BY CycleIs
<1> DEFINE shown == io' = [NextOutputs EXCEPT !.status_word = Word(drive.state, drive.warning),
                                              !.cur_pos = drive.pos]
<1>4. NextOutputs \in Buffer BY OutputTypes
<1>5. /\ drive.state \in DriveStates /\ drive.warning \in BOOLEAN
      /\ Word(drive.state, drive.warning) \in WordsOf(drive.state)
  BY Shown DEF Types, Drive
<1>6. NextOutputs.status_word = io.status_word BY DEF NextOutputs, Types, Buffer
<1>7. io' = NextOutputs \/ shown BY <1>3 DEF Exchange
<1>8. Chosen'
  <2> SUFFICES ASSUME io'.control_word = 6 PROVE io'.status_word \notin WordsOf("on")
    BY DEF Chosen
  <2>1. CASE io' = NextOutputs BY <1>2, <1>6, <2>1, NextChosen
  <2>2. CASE shown
    <3>1. NextOutputs.control_word = 6 BY <1>4, <2>2 DEF Buffer
    <3>2. drive.state # "on" BY <1>2, <3>1, NextKnown DEF AtRest
    <3>3. io'.status_word \in WordsOf(drive.state) BY <1>4, <1>5, <2>2 DEF Buffer
    <3> QED BY <1>5, <3>2, <3>3, WordsApart DEF DriveStates
  <2> QED BY <1>7, <2>1, <2>2
<1>9. \/ Follows(NextOutputs.control_word, NextOutputs.dest_pos) /\ al.state = "OP" /\ Mapped
      \/ drive' = drive /\ near' = near /\ ~(out # "lost" /\ Mapped /\ al.state = "OP")
  BY <1>3 DEF Exchange
<1>10. near' <= Patience + 1 BY <1>2, <1>9, NextFollows
<1>11. ASSUME prog'.pc = "cycle" PROVE Known'
  <2>1. out = "ok" BY <1>3, <1>11 DEF Wkc, EC_NOFRAME, Types
  <2>2. CASE Follows(NextOutputs.control_word, NextOutputs.dest_pos) /\ al.state = "OP" /\ Mapped
    <3>1. shown BY <1>3, <2>1, <2>2 DEF Exchange
    <3> QED BY <1>2, <2>2, <3>1, NextFollows
  <2>3. CASE drive' = drive /\ ~(out # "lost" /\ Mapped /\ al.state = "OP")
    <3>1. drive.state \in AtRest BY <2>1, <2>3 DEF Rest
    <3> QED BY <2>3, <3>1 DEF Known, AtRest
  <2> QED BY <1>9, <2>2, <2>3
<1> QED BY <1>8, <1>10, <1>11 DEF Near

LEMMA NearStep ==
  ASSUME Types, InPlace, Rest, Near, [Next]_vars
  PROVE  Near'
<1>1. CASE Start BY <1>1 DEF Near, Chosen, Start, Goto, Types
<1>2. CASE RequestInit BY <1>2 DEF Near, Chosen, RequestInit, Goto, Types
<1>3. CASE config_init
  <2>1. prog'.pc \in {"idle", "pdo"} /\ io' = io /\ near' \in {near, 0}
    BY <1>3 DEF config_init, Goto, Types
  <2>2. near' <= Patience + 1 BY <2>1, ServoBounds DEF Near
  <2> QED BY <2>1, <2>2 DEF Near, Chosen
<1>4. CASE process_data_config
  <2>1. prog'.pc = "pdo" /\ io' = io /\ near' = near
    BY <1>4 DEF process_data_config, safe_SDOwrite, Types
  <2> QED BY <2>1 DEF Near, Chosen
<1>5. CASE config_map BY <1>5 DEF Near, Chosen, config_map, Goto, Types
<1>6. CASE AwaitSafeOp BY <1>6 DEF Near, Chosen, AwaitSafeOp, Goto, Types
<1>7. CASE FirstExchange
  <2>1. PICK out \in Outcomes : Exchange(io, out) BY <1>7 DEF FirstExchange
  <2>2. prog.pc = "valid" /\ prog'.pc = "request op" BY <1>7 DEF FirstExchange, Goto, Types
  <2> QED BY <2>1, <2>2, EarlyExchange DEF Near
<1>8. CASE RequestOp BY <1>8 DEF Near, Chosen, RequestOp, Types
<1>9. CASE AwaitOp
  <2>1. PICK out \in Outcomes : Exchange(io, out) BY <1>9 DEF AwaitOp
  <2>2. prog.pc = "op" BY <1>9 DEF AwaitOp
  <2>3. /\ Chosen' /\ near' <= Patience + 1
        /\ drive'.state \in {"off", "fault", "ready"}
        /\ drive'.state = "ready" => io'.control_word = 6
    BY <2>1, <2>2, EarlyExchange
  <2>4. Known' BY <2>3 DEF Known
  <2> QED BY <2>3, <2>4 DEF Near
<1>10. CASE cycle BY <1>10, CycleNear
<1>11. CASE LoopEnds BY <1>11 DEF Near, Chosen, LoopEnds, Goto, Types
<1>12. CASE Stop BY <1>12 DEF Near, Chosen, Stop, Types
<1>13. CASE DriveNext BY <1>13, DriveNear
<1>14. CASE UNCHANGED vars BY <1>14 DEF Near, Chosen, Known, vars
<1> QED
  BY <1>1, <1>2, <1>3, <1>4, <1>5, <1>6, <1>7, <1>8, <1>9, <1>10, <1>11, <1>12, <1>13, <1>14
  DEF Next, sv660n_config

-----------------------------------------------------------------------------
LEMMA InitInv == Init => Inv
<1> SUFFICES ASSUME Init PROVE Inv OBVIOUS
<1>1. Types BY InitTypes
<1>2. InPlace BY DEF Init, InPlace
<1>3. Rest BY DEF Init, Rest, AtRest
<1>4. Layout BY DEF Init, Layout
<1>5. Near BY ServoBounds DEF Init, Near, Chosen
<1> QED BY <1>1, <1>2, <1>3, <1>4, <1>5 DEF Inv

\* All that the proofs below rest on, in every state.
THEOREM Invariant == Spec => []Inv
<1>1. Inv /\ [Next]_vars => Inv'
  BY TypesStep, InPlaceStep, RestStep, LayoutStep, NearStep DEF Inv
<1> QED BY InitInv, <1>1, PTL DEF Spec

\* An enabled drive gets targets no further off than the cycles it takes to obey,
\* however often it trips, is moved or drops out, and however long the program runs.
THEOREM TargetStaysNear == Spec => []TargetNear
<1>1. Inv => TargetNear BY DEF Inv, Near, TargetNear
<1> QED BY Invariant, <1>1, PTL

\* In the cyclic loop the process data lies as the program's struct has it, for every
\* number of tries and losses, unless a write was never answered.
THEOREM LayoutIsRight == Spec => []LayoutRight
<1>1. Inv => LayoutRight BY DEF Inv, Layout, LayoutRight
<1> QED BY Invariant, <1>1, PTL
=============================================================================
