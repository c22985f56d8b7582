---------------------------- MODULE MailboxChannel ----------------------------
(***************************************************************************)
(* What ecx_mbxsend and ecx_mbxreceive promise to the protocols above      *)
(* them: a channel to the slave and back.  A message that is offered       *)
(* reaches the slave once or not at all, whatever the result of the call.  *)
(* The slave's messages are read in their order, each once or not at all;  *)
(* only after a read was given up in doubt may the message fetched last    *)
(* come again.                                                             *)
(***************************************************************************)
EXTENDS Naturals, Sequences

VARIABLES
  offered,   \* message ecx_mbxsend has, which has not reached the slave
  toSlave,   \* message the slave has not taken
  toMaster,  \* messages of the slave that were not returned
  got,       \* message returned
  old,       \* message fetched last, returned or not
  doubt      \* a read was given up while a repetition was asked for

channel == <<offered, toSlave, toMaster, got, old, doubt>>

ChannelInit ==
  /\ offered = <<>> /\ toSlave = <<>> /\ toMaster = <<>> /\ got = <<>> /\ old = <<>>
  /\ doubt = FALSE

From(i) == SubSeq(toMaster, i, Len(toMaster))

-----------------------------------------------------------------------------
\* A call of ecx_mbxsend begins or ends.
Offer == offered' # offered /\ UNCHANGED <<toSlave, toMaster, got, old>>

Deliver ==
  /\ offered # <<>> /\ toSlave = <<>>
  /\ toSlave' = offered /\ offered' = <<>>
  /\ UNCHANGED <<toMaster, got, old>>

\* The slave takes a message and may send some.
Take ==
  /\ toSlave # <<>> /\ toSlave' = <<>>
  /\ Len(toMaster') >= Len(toMaster) /\ SubSeq(toMaster', 1, Len(toMaster)) = toMaster
  /\ UNCHANGED <<offered, got, old>>

\* A message is fetched, those before it are lost; it is returned now, later or
\* not at all.
Fetch ==
  /\ \E i \in DOMAIN toMaster :
       /\ old' = <<toMaster[i]>>
       /\ \/ toMaster' = From(i + 1) /\ got' = old'
          \/ toMaster' \in {From(i), From(i + 1)} /\ got' = <<>>
  /\ UNCHANGED <<offered, toSlave>>

Lose ==
  /\ \E i \in 1 .. Len(toMaster) + 1 : toMaster' = From(i)
  /\ old' \in {<<>>, old} /\ got' = <<>>
  /\ UNCHANGED <<offered, toSlave>>

\* A call of ecx_mbxreceive begins, or ends with nothing.
Clear == got' = <<>> /\ UNCHANGED <<offered, toSlave, toMaster, old>>

Again ==
  /\ doubt /\ old # <<>>
  /\ toMaster' = old \o toMaster
  /\ UNCHANGED <<offered, toSlave, got, old>>

Doubt == ~doubt /\ UNCHANGED <<offered, toSlave, toMaster, got, old>>

ChannelNext ==
  /\ doubt => doubt'
  /\ Offer \/ Deliver \/ Take \/ Fetch \/ Lose \/ Clear \/ Again \/ Doubt

ChannelSpec == ChannelInit /\ [][ChannelNext]_channel
=============================================================================
