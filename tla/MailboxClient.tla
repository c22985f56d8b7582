----------------------------- MODULE MailboxClient -----------------------------
(***************************************************************************)
(* A call of a mailbox protocol (FoE, EoE, SoE, the services of CoE beside *)
(* the SDO transfers) over the channel of MailboxChannel, which module CoE *)
(* shows ecx_mbxsend and ecx_mbxreceive to implement.  The application     *)
(* makes one call after the other; the protocols are modules that extend   *)
(* this one.                                                               *)
(*                                                                         *)
(* A message has its protocol, what it is, and a number (0 where it has    *)
(* none).  Of a working counter only whether it is positive is kept.       *)
(***************************************************************************)
EXTENDS MailboxChannel, SequencesExt

CONSTANTS
  MaxCalls,   \* bound: calls of the application
  MaxFaults   \* bound: messages lost, waits that end too early, messages that come again

ASSUME ClientAssumption == MaxCalls \in Nat /\ MaxFaults \in Nat

VARIABLES
  EOEhook,    \* a hook takes the fragments of EoE frames
  pc, return, \* place, and the place the mailbox function returns to
  expired,    \* its timeout is 0
  wkc,        \* its result
  call,       \* name and arguments
  buf,        \* what the call has received
  n,          \* packets or fragments it has sent or received
  result,     \* of the call: positive is success
  \* history
  calls,
  faults,     \* that may still happen
  slipped,    \* a mailbox function of the call failed and the call went on
  stale       \* what was under way from earlier calls when the call sent its request

client == <<EOEhook, pc, return, expired, wkc, call, buf, n, result, calls, faults, slipped, stale>>

ClientInit ==
  /\ ChannelInit
  /\ EOEhook \in BOOLEAN
  /\ pc = "idle" /\ return = "idle" /\ expired = FALSE /\ wkc = 0
  /\ call = [fn |-> "none"] /\ buf = <<>> /\ n = 0 /\ result = 0
  /\ calls = 0 /\ faults \in 0 .. MaxFaults /\ slipped = FALSE /\ stale = {}

Fault == faults > 0 /\ faults' = faults - 1

Call(fn) == call.fn = fn

SmallerOf(i, j) == IF i < j THEN i ELSE j

\* The slave has a message of a protocol, takes it and sends some.
Arrived(proto) == toSlave # <<>> /\ toSlave[1].proto = proto

Answer(messages) ==
  /\ toSlave' = <<>> /\ toMaster' = toMaster \o messages
  /\ UNCHANGED <<offered, got, old, doubt, client>>

-----------------------------------------------------------------------------
(***************************************************************************)
(* ecx_mbxsend and ecx_mbxreceive.                                         *)
(***************************************************************************)
CallMbxsend(message, place) ==
  /\ offered' = <<message>> /\ UNCHANGED <<toSlave, toMaster, got, old, doubt>>
  /\ pc' = "send" /\ return' = place
  /\ UNCHANGED <<EOEhook, expired, wkc, call, result, calls, faults>>

Mbxsend ==
  /\ pc = "send" /\ pc' = return
  /\ \/ Deliver /\ wkc' = 1 /\ UNCHANGED faults
     \/ Deliver /\ wkc' = 0 /\ Fault
     \/ offered' = <<>> /\ Offer /\ wkc' = 0 /\ Fault
  /\ UNCHANGED <<doubt, EOEhook, return, expired, call, buf, n, result, calls, slipped, stale>>

CallMbxreceive(timeout, place) ==
  /\ pc' = "receive" /\ return' = place /\ expired' = (timeout = 0)
  /\ got' = <<>> /\ UNCHANGED <<offered, toSlave, toMaster, old, doubt>>
  /\ UNCHANGED <<EOEhook, wkc, call, result, calls, faults>>

Hooked(m) == EOEhook /\ m.proto = "EoE" /\ m.op = "fragment"

\* The message at the head is returned, or was read but its answer lost; or
\* nothing came in time, or the read of it was lost.
Mbxreceive ==
  /\ pc = "receive" /\ pc' = return
  /\ \/ /\ toMaster # <<>> /\ ~Hooked(toMaster[1])
        /\ got' = <<toMaster[1]>> /\ wkc' = 1 /\ Fetch
        /\ UNCHANGED <<doubt, faults>>
     \/ /\ wkc' = 0 /\ Clear
        /\ (toSlave = <<>> /\ toMaster = <<>>) \/ expired
        /\ UNCHANGED <<doubt, faults>>
     \/ wkc' = 0 /\ Clear /\ Fault /\ UNCHANGED doubt
     \/ /\ wkc' = 0 /\ Fault /\ toMaster # <<>>
        /\ \/ toMaster' = Tail(toMaster) /\ old' = <<toMaster[1]>> /\ Fetch
           \/ UNCHANGED toMaster /\ old' = <<>> /\ Lose
        /\ doubt' \in {doubt, TRUE}
  /\ UNCHANGED <<EOEhook, return, expired, call, buf, n, result, calls, slipped, stale>>

\* The slave repeats its message, which a read in doubt had asked for.
Repeat ==
  /\ Again /\ Fault
  /\ UNCHANGED <<doubt, EOEhook, pc, return, expired, wkc, call, buf, n, result, calls, slipped,
                 stale>>

-----------------------------------------------------------------------------
(***************************************************************************)
(* A call.                                                                 *)
(***************************************************************************)
\* Most calls first empty the slave's mailbox "if something is in. Timeout set
\* to 0".
Begin(c, clears) ==
  /\ pc = "idle" /\ calls < MaxCalls /\ calls' = calls + 1
  /\ call' = c /\ buf' = <<>> /\ n' = 0 /\ result' = 0 /\ slipped' = FALSE /\ stale' = {}
  /\ pc' = (IF clears THEN "receive" ELSE "start") /\ return' = "start" /\ expired' = clears
  /\ got' = <<>> /\ UNCHANGED <<offered, toSlave, toMaster, old, doubt>>
  /\ UNCHANGED <<EOEhook, wkc, faults>>

UnderWay ==
  {<<m.proto, m.op, m.number>> : m \in ToSet(toMaster) \cup (IF doubt THEN ToSet(old) ELSE {})}
  \cup {<<m.proto, "request", 0>> : m \in ToSet(toSlave)}

Same == UNCHANGED <<buf, n, slipped, stale>>

\* A request, be it the first of the call.
SendRequest(fn, message) ==
  /\ pc = "start" /\ Call(fn)
  /\ stale' = IF n = 0 THEN UnderWay ELSE stale
  /\ CallMbxsend(message, "sent")
  /\ UNCHANGED <<buf, n, slipped>>

Return(r) ==
  /\ pc' = "idle" /\ result' = r /\ got' = <<>>
  /\ return' = "idle" /\ expired' = FALSE /\ wkc' = 0
  /\ UNCHANGED <<offered, toSlave, toMaster, old, doubt, EOEhook, call, calls, faults>>

Success(fn) == pc = "idle" /\ Call(fn) /\ result > 0
=============================================================================
