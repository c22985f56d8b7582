------------------------------- MODULE Mailbox -------------------------------
(***************************************************************************)
(* The mailbox of one slave as the protocols above it use it:              *)
(* ec_nextmbxcnt, ecx_mbxempty, ecx_mbxsend and ecx_mbxreceive of          *)
(* soem/ethercatmain.c, one action per datagram that matters, and the      *)
(* slave's two mailboxes with the request to repeat a message.             *)
(*                                                                         *)
(* A mailbox is a sequence of at most one message.  Reads of the status    *)
(* registers may be lost at will; a turn of a waiting loop that learns     *)
(* nothing changes nothing and is left out.  Of a working counter only     *)
(* whether it is positive is kept.  A timer may expire at any turn.        *)
(***************************************************************************)
EXTENDS Naturals, Sequences

CONSTANTS
  MaxCnt,         \* the largest mailbox counter, 7
  MaxFaults,      \* bound: datagrams lost, of contents and repeat requests, and timers expired
  MaxEmergencies  \* bound: emergencies, mailbox errors and EoE fragments of the slave

ASSUME MailboxAssumption == MaxCnt \in Nat \ {0} /\ MaxFaults \in Nat /\ MaxEmergencies \in Nat

VARIABLES
  \* the slave
  sm0,           \* the mailbox the master writes
  sm1,           \* the mailbox the master reads
  backup,        \* the message the master read last
  repeat, ack,   \* repeat request (in SM1STAT) and its acknowledge (SM1CONTR)
  queue,         \* messages waiting for sm1 to be empty
  \* the master
  mbx_cnt,       \* slavelist[].mbx_cnt
  pc, return,    \* place, and the place the mailbox function returns to
  expired,       \* its timer was seen expired
  MbxOut, MbxIn, \* the message to send; the message received, or <<>>
  want,          \* the acknowledge waited for
  wkc,           \* result of the last mailbox function: 0 or 1
  \* history
  faults, emergencies,
  executed,      \* the slave took MbxOut
  latest,        \* number of the youngest answer returned
  abandoned      \* a call ended while a repeat request was not acknowledged

slavembx == <<sm0, sm1, backup, repeat, ack, queue>>
mastermbx == <<mbx_cnt, pc, return, expired, MbxOut, MbxIn, want, wkc>>
historymbx == <<faults, emergencies, executed, latest, abandoned>>

Emergency == [type |-> "emergency"]

MailboxInit ==
  /\ sm0 = <<>> /\ sm1 = <<>> /\ backup = <<>> /\ queue = <<>>
  /\ repeat = FALSE /\ ack = FALSE
  /\ mbx_cnt = 0 /\ pc = "idle" /\ return = "idle" /\ expired = FALSE
  /\ MbxOut = <<>> /\ MbxIn = <<>> /\ want = FALSE /\ wkc = 0
  /\ faults = 0 /\ emergencies = 0
  /\ executed = FALSE /\ latest = 0 /\ abandoned = FALSE

-----------------------------------------------------------------------------
WrapToZero(cnt) == IF cnt + 1 > MaxCnt THEN 0 ELSE cnt + 1

ec_nextmbxcnt(cnt) == IF cnt + 1 > MaxCnt THEN 1 ELSE cnt + 1

Fault == faults < MaxFaults /\ faults' = faults + 1

\* The timer is expired, or expires now.
Expire == IF expired THEN UNCHANGED faults ELSE Fault

Goto(from, to) == pc = from /\ pc' = to

-----------------------------------------------------------------------------
(***************************************************************************)
(* ecx_mbxsend.                                                            *)
(***************************************************************************)
CallMbxsend(message, place) ==
  /\ pc' = "empty" /\ return' = place /\ expired' = FALSE
  /\ MbxOut' = <<message>> /\ executed' = FALSE
  /\ UNCHANGED <<slavembx, MbxIn, want, wkc, faults, emergencies, latest, abandoned>>

EndMbxsend(result) ==
  /\ pc' = return /\ return' = "idle" /\ wkc' = result
  /\ UNCHANGED <<mbx_cnt, expired, MbxOut, MbxIn, want>>

\* ecx_mbxempty
mbxempty ==
  /\ pc = "empty"
  /\ \/ /\ sm0 = <<>> /\ pc' = "write"
        /\ UNCHANGED <<mbx_cnt, return, expired, MbxOut, MbxIn, want, wkc, faults>>
     \/ EndMbxsend(0) /\ Expire
  /\ UNCHANGED <<slavembx, emergencies, executed, latest, abandoned>>

\* One try of the write.  A full mailbox takes nothing and counts nothing.
WriteMailbox ==
  /\ pc = "write"
  /\ \/ sm0' = IF sm0 = <<>> THEN MbxOut ELSE sm0
     \/ UNCHANGED sm0
  /\ \/ /\ sm0 = <<>> => sm0' # sm0
        /\ EndMbxsend(IF sm0 = <<>> THEN 1 ELSE 0)
        /\ UNCHANGED faults
     \/ /\ Fault
        /\ EndMbxsend(0) \/ UNCHANGED mastermbx
  /\ UNCHANGED <<sm1, backup, repeat, ack, queue, emergencies, executed, latest, abandoned>>

-----------------------------------------------------------------------------
(***************************************************************************)
(* ecx_mbxreceive.                                                         *)
(***************************************************************************)
CallMbxreceive(timeout, place) ==
  /\ pc' = "status" /\ return' = place /\ expired' = (timeout = 0)
  /\ MbxIn' = <<>>
  /\ UNCHANGED <<slavembx, historymbx, mbx_cnt, MbxOut, want, wkc>>

EndMbxreceive(result, message) ==
  /\ pc' = return /\ return' = "idle" /\ wkc' = result /\ MbxIn' = message
  /\ expired' = FALSE /\ want' = FALSE
  /\ abandoned' = (abandoned \/ repeat # ack)
  /\ UNCHANGED <<mbx_cnt, MbxOut>>

\* Turns the message into the result of the call, unless it is one that is
\* dealt with here: then the loop reads on while there is time.
TakeMessage(message) ==
  IF message.type = "emergency"
    THEN /\ \/ EndMbxreceive(0, <<>>) /\ Expire
            \/ ~expired /\ UNCHANGED <<mastermbx, abandoned, faults>>
         /\ UNCHANGED latest
    ELSE /\ EndMbxreceive(1, <<message>>) /\ UNCHANGED faults
         /\ latest' = IF message.number > latest THEN message.number ELSE latest

\* Unchanged place and message while waiting, but for the place.
Move(from, to) ==
  Goto(from, to) /\ UNCHANGED <<mbx_cnt, return, expired, MbxOut, MbxIn, want, wkc>>

WaitMailbox ==
  /\ pc = "status"
  /\ \/ sm1 # <<>> /\ Move("status", "read") /\ UNCHANGED <<abandoned, faults>>
     \/ EndMbxreceive(0, <<>>) /\ Expire
  /\ UNCHANGED <<slavembx, emergencies, executed, latest>>

\* The read of the mailbox, answered or lost on the way back; an empty mailbox
\* counts nothing.
ReadMailbox ==
  /\ pc = "read" /\ sm1 # <<>>
  /\ sm1' = <<>> /\ backup' = sm1
  /\ \/ TakeMessage(sm1[1])
     \/ Fault /\ Move("read", "toggle") /\ UNCHANGED <<latest, abandoned>>
  /\ UNCHANGED <<sm0, repeat, ack, queue, emergencies, executed>>

ReadNothing ==
  /\ Move("read", "toggle")
  /\ IF sm1 = <<>> THEN UNCHANGED faults ELSE Fault
  /\ UNCHANGED <<slavembx, emergencies, executed, latest, abandoned>>

\* "toggle repeat request"
ToggleRepeat ==
  /\ Goto("toggle", "ack")
  /\ want' = ~repeat
  /\ \/ repeat' = want' /\ UNCHANGED faults
     \/ Fault /\ UNCHANGED repeat
  /\ UNCHANGED <<sm0, sm1, backup, ack, queue, mbx_cnt, return, expired, MbxOut, MbxIn, wkc,
                 emergencies, executed, latest, abandoned>>

\* "wait for toggle ack"
AwaitAck ==
  /\ Goto("ack", "avail")
  /\ \/ ack = want /\ UNCHANGED <<expired, faults>>
     \/ expired' = TRUE /\ Expire
  /\ UNCHANGED <<slavembx, mbx_cnt, return, MbxOut, MbxIn, want, wkc, emergencies, executed, latest, abandoned>>

\* "wait for read mailbox available", and on to the next read if there is time
AwaitAvailable ==
  /\ pc = "avail"
  /\ \/ ~expired /\ sm1 # <<>> /\ Move("avail", "read") /\ UNCHANGED <<abandoned, faults>>
     \/ EndMbxreceive(0, <<>>) /\ Expire
  /\ UNCHANGED <<slavembx, emergencies, executed, latest>>

mailbox ==
  \/ mbxempty \/ WriteMailbox
  \/ WaitMailbox \/ ReadMailbox \/ ReadNothing \/ ToggleRepeat \/ AwaitAck \/ AwaitAvailable

-----------------------------------------------------------------------------
(***************************************************************************)
(* The slave, but for what it does with a request.  It answers a request   *)
(* to repeat before it puts or takes another message.                      *)
(***************************************************************************)
Post ==
  /\ sm1 = <<>> /\ queue # <<>> /\ repeat = ack
  /\ sm1' = <<Head(queue)>> /\ queue' = Tail(queue)
  /\ UNCHANGED <<sm0, backup, repeat, ack, mastermbx, historymbx>>

\* A message still unread stays; else the one read last comes back.
Repeat ==
  /\ repeat # ack /\ ack' = repeat
  /\ sm1' = IF sm1 = <<>> THEN backup ELSE sm1
  /\ UNCHANGED <<sm0, backup, repeat, queue, mastermbx, historymbx>>

Incident ==
  /\ emergencies < MaxEmergencies /\ emergencies' = emergencies + 1
  /\ queue' = Append(queue, Emergency)
  /\ UNCHANGED <<sm0, sm1, backup, repeat, ack, mastermbx, faults, executed, latest, abandoned>>

slave == Post \/ Repeat \/ Incident
=============================================================================
