-------------------------------- MODULE Servo --------------------------------
(***************************************************************************)
(* The program of this repository, applications/sv660n_test.c: `ectest`    *)
(* brings a bus with one servo drive to OP, maps the drive's process data  *)
(* through CoE, switches the drive on and moves it a step per cycle.  The  *)
(* drive (CiA 402) is external: it obeys late, trips, loses its supply,    *)
(* warns, is moved by hand and drops out of OP, and frames are lost.       *)
(*                                                                         *)
(* Positions count steps of 3000.  The master's calls are one action each  *)
(* (their insides are in the other modules); mode_byte, error_word, what   *)
(* is printed and the last write of process_data_config (the mode of       *)
(* operation, 6060) are left out.  With more than one drive the array      *)
(* servo_data does not lie where ec_config_map puts the data, so there is  *)
(* one.                                                                    *)
(***************************************************************************)
EXTENDS Integers, Sequences

CONSTANTS
  Tries,      \* times a write is tried: 10
  Checks,     \* times OP is awaited: 200
  Cycles,     \* rounds of the cyclic loop: 10000
  Patience,   \* bound: exchanges for which the drive does not obey
  MaxRuns,    \* bound: calls of ectest
  MaxLost,    \* bound: frames and services without an answer
  MaxEvents   \* bound: what befalls the drive

ASSUME CountAssumption == Tries \in Nat \ {0} /\ Checks \in Nat /\ Cycles \in Nat
\* An enabled drive may be a cycle behind in any case, so that Patience is not 0.
ASSUME ServoBounds ==
  Patience \in Nat \ {0} /\ MaxRuns \in Nat /\ MaxLost \in Nat /\ MaxEvents \in Nat

Outcomes == {"ok", "lost", "late"}   \* late: done, but the answer is lost
EC_NOFRAME == -1

VARIABLES
  prog,    \* the program: its place and the locals of the loops
  io,      \* IOmap as SERVO_DATA_T: control_word, dest_pos, status_word, cur_pos
  al,      \* the drive's EtherCAT state, and the one it was asked for
  od,      \* its PDO assignment (1c12, 1c13) and mapping (1600, 1a00)
  drive,   \* its CiA 402 state, warning, target and position, and delay in obeying
  near,    \* history: how far it was from the target it last followed
  bounds   \* runs, losses and events so far; whether a write was left unanswered

vars == <<prog, io, al, od, drive, near, bounds>>

-----------------------------------------------------------------------------
(***************************************************************************)
(* The drive.                                                              *)
(***************************************************************************)
\* The status word it shows, remote (bit 9) set; bit 7 is the warning.
Word(state, warning) ==
  (CASE state = "off"     -> \h250
     [] state = "ready"   -> \h231
     [] state = "on"      -> \h233
     [] state = "enabled" -> \h237
     [] state = "fault"   -> \h218) + (IF warning THEN \h80 ELSE 0)

\* Where a control word takes it.
Commanded(state, control) ==
  IF state = "fault" THEN "fault"          \* bit 7 resets a fault; nobody sets it
  ELSE IF state = "off" /\ control # \h6 THEN "off"
  ELSE CASE control = \h6 -> "ready"
         [] control = \h7 -> "on"
         [] control = \hf -> IF state = "ready" THEN "on" ELSE "enabled"
         [] OTHER -> "off"

\* It takes outputs: it obeys, or not yet; enabled, it follows the target, this
\* one or, a cycle behind, the one before.
Follows(control, dest) ==
  \E obeys \in BOOLEAN :
    LET next == IF obeys THEN Commanded(drive.state, control) ELSE drive.state
        idle == next = drive.state /\ Commanded(drive.state, control) # next
        distance == IF dest > drive.pos THEN dest - drive.pos ELSE drive.pos - dest
    IN /\ obeys \/ drive.waited < Patience
       /\ \E pos \in IF next # "enabled" THEN {drive.pos}
                     ELSE IF drive.state = "enabled" THEN {dest, drive.target} ELSE {dest} :
            drive' = [drive EXCEPT !.state = next, !.target = dest, !.pos = pos,
                                   !.waited = IF idle THEN @ + 1 ELSE 0]
       /\ near' = IF next = "enabled" THEN distance ELSE 0

\* A supervisor outside: it follows requests if it has been in the state before.
Allowed(from, to) ==
  \/ to = "INIT"
  \/ to = "PRE_OP"
  \/ to = "SAFE_OP" /\ from \in {"PRE_OP", "SAFE_OP", "OP"}
  \/ to = "OP" /\ from \in {"SAFE_OP", "OP"}

\* Out of OP it is switched off, unless it is in fault.
Resting(d) == [d EXCEPT !.state = IF @ = "fault" THEN @ ELSE "off", !.waited = 0]

Reach ==
  /\ al.state # al.request
  /\ IF Allowed(al.state, al.request) THEN al' = [al EXCEPT !.state = al.request]
     ELSE al' = [al EXCEPT !.request = al.state]
  /\ drive' = IF al'.state = "OP" THEN drive ELSE Resting(drive)
  /\ near' = IF al'.state = "OP" THEN near ELSE 0
  /\ UNCHANGED <<prog, io, od, bounds>>

Happens(d) ==
  /\ prog.pc = "cycle" /\ bounds.events < MaxEvents
  /\ bounds' = [bounds EXCEPT !.events = @ + 1]
  /\ drive' = [d EXCEPT !.waited = IF d.state = drive.state THEN @ ELSE 0]
  /\ near' = 0
  /\ UNCHANGED <<prog, io, od>>

Trips == drive.state # "fault" /\ Happens([drive EXCEPT !.state = "fault"]) /\ UNCHANGED al
Cleared == drive.state = "fault" /\ Happens([drive EXCEPT !.state = "off"]) /\ UNCHANGED al
LosesSupply ==
  /\ drive.state \in {"ready", "on", "enabled"}
  /\ Happens([drive EXCEPT !.state = "off"]) /\ UNCHANGED al
Warns == Happens([drive EXCEPT !.warning = ~@]) /\ UNCHANGED al
MovedByHand ==
  /\ drive.state \in {"off", "fault"}
  /\ Happens([drive EXCEPT !.pos = @ - 2]) /\ UNCHANGED al
DropsOut ==
  /\ al.state = "OP" /\ Happens(Resting(drive))
  /\ al' = [al EXCEPT !.state = "SAFE_OP", !.request = "SAFE_OP"]

-----------------------------------------------------------------------------
(***************************************************************************)
(* The bus.                                                                *)
(***************************************************************************)
\* A frame of process data: outputs are taken, inputs brought back with what the
\* drive had before.  What becomes of the data when the drive has another mapping than
\* the struct is left out.
RPDO == <<"6060", "6040", "607a">>
TPDO == <<"603f", "6041", "6064">>
Mapped ==
  od = [assign |-> [rx |-> 1, tx |-> 1], count |-> [rx |-> 3, tx |-> 3],
        map |-> [rx |-> RPDO, tx |-> TPDO]]

\* ec_send_processdata and ec_receive_processdata, of these outputs.
Exchange(outputs, out) ==
  LET active == al.state \in {"SAFE_OP", "OP"}
      done == active /\ out # "lost"
  IN /\ out # "ok" => bounds.lost < MaxLost
     /\ bounds' = [bounds EXCEPT !.lost = IF out = "ok" THEN @ ELSE @ + 1]
     /\ IF done /\ Mapped /\ al.state = "OP" THEN Follows(outputs.control_word, outputs.dest_pos)
        ELSE UNCHANGED <<drive, near>>
     /\ io' = IF active /\ Mapped /\ out = "ok"
              THEN [outputs EXCEPT !.status_word = Word(drive.state, drive.warning),
                                   !.cur_pos = drive.pos]
              ELSE outputs

Wkc(out) == IF out # "ok" THEN EC_NOFRAME ELSE IF al.state \in {"SAFE_OP", "OP"} THEN 3 ELSE 0

\* ec_writestate(0), with its retries.
writestate(state, out) ==
  /\ out = "lost" => bounds.lost < MaxLost
  /\ al' = IF out = "lost" THEN al ELSE [al EXCEPT !.request = state]
  /\ bounds' = [bounds EXCEPT !.lost = IF out = "lost" THEN @ + 1 ELSE @]

Goto(place) == prog' = [prog EXCEPT !.pc = place]

-----------------------------------------------------------------------------
(***************************************************************************)
(* The program.                                                            *)
(***************************************************************************)
Init ==
  /\ prog = [pc |-> "idle", step |-> 1, tries |-> 0, n |-> 0]
  /\ io = [control_word |-> \h0, dest_pos |-> 0, status_word |-> 0, cur_pos |-> 0]
  /\ al = [state |-> "INIT", request |-> "INIT"]
  /\ od = [assign |-> [rx |-> 1, tx |-> 1], count |-> [rx |-> 2, tx |-> 2],
           map |-> [rx |-> <<"6040", "607a", "none">>, tx |-> <<"6041", "6064", "none">>]]
  /\ drive = [state |-> "off", warning |-> FALSE, target |-> 0, pos |-> 0, waited |-> 0]
  /\ near = 0
  /\ bounds = [runs |-> 0, lost |-> 0, events |-> 0, unanswered |-> FALSE]

\* ectest; whether the socket opens is left out.
Start ==
  /\ prog.pc = "idle" /\ bounds.runs < MaxRuns
  /\ bounds' = [bounds EXCEPT !.runs = @ + 1, !.unanswered = FALSE]
  /\ Goto("reset")
  /\ UNCHANGED <<io, al, od, drive, near>>

\* INIT is requested; that it is reached is checked, and only printed.
RequestInit ==
  /\ prog.pc = "reset" /\ Goto("config_init")
  /\ \E out \in {"ok", "lost"} : writestate("INIT", out)
  /\ UNCHANGED <<io, od, drive, near>>

\* ec_config_init leaves the slave in INIT, as manualstatechange is set.  The clocks
\* are set up; PRE_OP is requested, and not awaited.
config_init ==
  /\ prog.pc = "config_init"
  /\ \/ /\ bounds.lost < MaxLost /\ bounds' = [bounds EXCEPT !.lost = @ + 1]
        /\ Goto("idle")
        /\ UNCHANGED <<al, drive, near>>
     \/ /\ \E out \in {"ok", "lost"} :
             /\ out = "lost" => bounds.lost < MaxLost
             /\ al' = [state |-> "INIT", request |-> IF out = "ok" THEN "PRE_OP" ELSE "INIT"]
             /\ bounds' = [bounds EXCEPT !.lost = IF out = "ok" THEN @ ELSE @ + 1]
        /\ drive' = Resting(drive) /\ near' = 0
        /\ prog' = [prog EXCEPT !.pc = "pdo", !.step = 1, !.tries = 0]
  /\ UNCHANGED <<io, od>>

Write(to, dir, value) == [to |-> to, dir |-> dir, value |-> value]

\* Mutant: the PDO stays assigned while its mapping is written.
HalfAssigned(dir) ==
  <<Write("pdo", dir, 1), Write("pdo", dir, 1), Write("count", dir, 0),
    Write("entry", dir, 1), Write("entry", dir, 2), Write("entry", dir, 3),
    Write("count", dir, 3), Write("assign", dir, 1)>>

\* The writes of process_data_config for one direction, in order: of the assignment,
\* of the number of entries of the mapping, of an entry.
Half(dir) ==
  <<Write("assign", dir, 0), Write("pdo", dir, 1), Write("count", dir, 0),
    Write("entry", dir, 1), Write("entry", dir, 2), Write("entry", dir, 3),
    Write("count", dir, 3), Write("assign", dir, 1)>>
Writes == Half("rx") \o Half("tx")
Entries(dir) == IF dir = "rx" THEN RPDO ELSE TPDO

\* The drive takes a write of a mapping only while it is not assigned, and of an
\* entry only while the number of entries is 0.
Takes(w) ==
  /\ al.state = "PRE_OP"
  /\ w.to # "assign" => od.assign[w.dir] = 0
  /\ w.to = "entry" => od.count[w.dir] = 0
Written(w) ==
  CASE w.to = "assign" -> [od EXCEPT !.assign[w.dir] = w.value]
    [] w.to = "pdo" -> od
    [] w.to = "count" -> [od EXCEPT !.count[w.dir] = w.value]
    [] OTHER -> [od EXCEPT !.map[w.dir][w.value] = Entries(w.dir)[w.value]]

\* Mutant: tries are not counted, as in safe_SDOread.
NeverEnough(n) == TRUE

\* How often a write is tried.
MoreTries(n) == n + 1 < Tries

safe_SDOwrite(w, out) ==
  LET answered == Takes(w) /\ out = "ok"
      retried == ~answered /\ MoreTries(prog.tries)
  IN /\ out # "ok" => bounds.lost < MaxLost
     /\ od' = IF Takes(w) /\ out # "lost" THEN Written(w) ELSE od
     /\ bounds' = [bounds EXCEPT
          !.lost = IF out = "ok" THEN @ ELSE @ + 1,
          !.unanswered = @ \/ (~answered /\ ~retried /\ (out # "ok" \/ al.state # "PRE_OP"))]
     /\ prog' = IF retried THEN [prog EXCEPT !.tries = IF @ < Tries THEN @ + 1 ELSE @]
                ELSE [prog EXCEPT !.tries = 0, !.step = @ + 1]

process_data_config ==
  /\ prog.pc = "pdo" /\ prog.step <= Len(Writes)
  /\ \E out \in Outcomes : safe_SDOwrite(Writes[prog.step], out)
  /\ UNCHANGED <<io, al, drive, near>>

\* ec_config_map reads back what is assigned; then SAFE_OP is requested.
config_map ==
  /\ prog.pc = "pdo" /\ prog.step > Len(Writes)
  /\ \E out \in {"ok", "lost"} : writestate("SAFE_OP", out)
  /\ Goto("safe_op")
  /\ UNCHANGED <<io, od, drive, near>>

\* SAFE_OP is awaited; without it the program closes.
AwaitSafeOp ==
  /\ prog.pc = "safe_op"
  /\ IF al.state = "SAFE_OP" THEN Goto("valid") ELSE Goto("idle")
  /\ UNCHANGED <<io, al, od, drive, near, bounds>>

\* One valid exchange, and OP is requested.
FirstExchange ==
  /\ prog.pc = "valid" /\ Goto("request op")
  /\ \E out \in Outcomes : Exchange(io, out)
  /\ UNCHANGED <<al, od>>

RequestOp ==
  /\ prog.pc = "request op" /\ prog' = [prog EXCEPT !.pc = "op", !.n = Checks]
  /\ \E out \in {"ok", "lost"} : writestate("OP", out)
  /\ UNCHANGED <<io, od, drive, near>>

\* Exchanges go on while OP is awaited, whatever they bring.
AwaitOp ==
  /\ prog.pc = "op"
  /\ \E out \in Outcomes : Exchange(io, out)
  /\ prog' = CASE al.state = "OP" -> [prog EXCEPT !.pc = "cycle", !.n = 1]
               [] al.state # "OP" /\ prog.n > 0 -> [prog EXCEPT !.n = @ - 1]
               [] OTHER -> [prog EXCEPT !.pc = "stop"]
  /\ UNCHANGED <<al, od>>

\* The next control word for a status word, or the old one.
servo_switch_op(control, status) ==
  IF (status \div \h8) % 2 = 1 THEN \h8
  ELSE CASE status % \h400 \in {\h250, \h270} -> \h6
         [] status % \h400 = \h231 -> \h7
         [] status % \h400 = \h233 -> \hf
         [] OTHER -> control

\* Mutant: the target is brought to the drive the first time only.
TargetAtFirst(control, data) ==
  CASE control = \h7 /\ data.dest_pos = 0 -> data.cur_pos
    [] control = \hf -> data.dest_pos + 1
    [] OTHER -> data.dest_pos

\* The target for a control word: where the drive is before it is enabled, and a
\* step more in each cycle after.
Target(control, data) ==
  CASE control = \h7 -> data.cur_pos
    [] control = \hf -> data.dest_pos + 1
    [] OTHER -> data.dest_pos

\* A round of the cyclic loop; it ends when an exchange brings nothing.
cycle ==
  /\ prog.pc = "cycle" /\ prog.n <= Cycles
  /\ LET control == servo_switch_op(io.control_word, io.status_word)
     IN \E out \in Outcomes :
          /\ Exchange([io EXCEPT !.control_word = control, !.dest_pos = Target(control, io)], out)
          /\ prog' = IF Wkc(out) <= 0 THEN [prog EXCEPT !.pc = "stop"]
                     ELSE [prog EXCEPT !.n = @ + 1]
  /\ UNCHANGED <<al, od>>

LoopEnds ==
  /\ prog.pc = "cycle" /\ prog.n > Cycles /\ Goto("stop")
  /\ UNCHANGED <<io, al, od, drive, near, bounds>>

\* INIT is requested, and the socket closed.
Stop ==
  /\ prog.pc = "stop" /\ prog' = [prog EXCEPT !.pc = "idle", !.n = 0, !.step = 1]
  /\ \E out \in {"ok", "lost"} : writestate("INIT", out)
  /\ UNCHANGED <<io, od, drive, near>>

sv660n_config ==
  \/ RequestInit \/ config_init \/ process_data_config \/ config_map \/ AwaitSafeOp
  \/ FirstExchange \/ RequestOp \/ AwaitOp \/ cycle \/ LoopEnds \/ Stop
DriveNext ==
  \/ Reach \/ Trips \/ Cleared \/ LosesSupply \/ Warns \/ MovedByHand \/ DropsOut

Next == Start \/ sv660n_config \/ DriveNext

\* The thread that runs the program is scheduled.
Spec == Init /\ [][Next]_vars /\ WF_vars(sv660n_config)

-----------------------------------------------------------------------------
(* Properties.                                                             *)

(***************************************************************************)
(* A drive that is enabled is given a target close to where it stands,     *)
(* whatever befell it since the program last looked: after a fault, a      *)
(* power loss or a move by hand the target is first brought back to the    *)
(* drive.  It is as far off as the cycles the drive takes to obey.         *)
(***************************************************************************)
TargetNear == Mapped => near <= Patience + 1

(***************************************************************************)
(* In the cyclic loop the drive's process data is laid out as the struct   *)
(* the program reads and writes, also when writes were repeated because    *)
(* their answers were lost - unless a write was never answered.            *)
(***************************************************************************)
LayoutRight == prog.pc \in {"valid", "request op", "op", "cycle"} /\ ~bounds.unanswered => Mapped

(***************************************************************************)
(* ectest comes back, even if the drive never leaves INIT or refuses every *)
(* write.                                                                  *)
(***************************************************************************)
Returns == prog.pc # "idle" ~> prog.pc = "idle"
=============================================================================
