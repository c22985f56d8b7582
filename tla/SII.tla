--------------------------------- MODULE SII ---------------------------------
(***************************************************************************)
(* The access to the slaves' EEPROMs in soem/ethercatmain.c: who controls  *)
(* it (ecx_eeprom2master, ecx_eeprom2pdi), the protocol of its registers   *)
(* (ecx_readeepromFP and AP, ecx_writeeepromFP and AP, ecx_readeeprom1 and *)
(* 2, ecx_esidump), the cache of ecx_siigetbyte and the walkers of         *)
(* SIIFormat over it.  The application makes one call after the other.     *)
(*                                                                         *)
(* One action is one datagram with its answer, or one wait for the EEPROM  *)
(* to be ready.  A walker reads on at the first address it needs that is   *)
(* not cached: what it reads is a function of the bytes before.  What an   *)
(* answer spills past the end of esibuf is left out.                       *)
(***************************************************************************)
EXTENDS SIIFormat, Integers

CONSTANTS
  Slaves,
  Wide,             \* slaves that read 8 bytes at once
  Content,          \* of a slave's EEPROM
  EC_MAXEEPBUF,     \* size of the cache
  EC_DEFAULTRETRIES,
  Calls,            \* what the application may call: [fn, slave, arg]
  MaxCalls, MaxFaults, MaxRefusals  \* bounds: calls; exchanges and waits that
                                    \* fail, and slaves that leave; NACKs

ASSUME SIIAssumption ==
  /\ Wide \subseteq Slaves /\ EC_MAXEEPBUF \in Nat /\ EC_DEFAULTRETRIES \in Nat
  /\ MaxCalls \in Nat /\ MaxFaults \in Nat /\ MaxRefusals \in Nat

VARIABLES
  \* the slaves
  rom, owner,     \* the EEPROM, and who may use it: "master" or "pdi"
  busy,           \* the command under way, or <<>>
  data, nack,     \* data register; the last command was refused
  here,
  \* the context
  esislave,
  esibuf,         \* the bytes that esimap marks
  eep_pdi,
  eepSM,          \* what the last ecx_siiSM left for ecx_siiSMnext
  \* a datagram
  frame, tries, return, wkc,
  edat,           \* the data last read, <<>> for none
  \* the call
  pc, call, eectl,
  phase,          \* of a walker: "find" the category, then the "body"
  at, word, back, \* category found; word to be read or written; where that returns to
  nackcnt,
  seen,           \* status read: "ready", "nack", "busy", or "nothing" if it was not
  value,          \* what the call returns, or <<>>: a walker returns one thing
  \* history
  calls, faults, refusals,
  sent,           \* commands of this access
  slipped,        \* an exchange of this read or write failed
  spoilt,         \* cached bytes that such a read left, or that were written since
  asked,          \* the word a slave was asked for by ecx_readeeprom1, if it answers it
  lost            \* slaves whose control was handed over by a write that failed

Image == [s \in Slaves |-> Encode(Content[s])]

esimap == DOMAIN esibuf

eeproms == <<rom, owner, busy, data, nack, here>>
cache == <<esislave, esibuf, spoilt>>
wire == <<frame, tries, return, wkc, edat>>
locals == <<call, eectl, phase, at, word, back, nackcnt, seen, value, eepSM>>
history == <<calls, faults, refusals, sent, slipped, asked, lost>>
vars == <<eeproms, cache, eep_pdi, wire, pc, locals, history>>

Slave == call.slave
Width(s) == IF s \in Wide THEN 8 ELSE 4

Init ==
  /\ rom = Image /\ busy = [s \in Slaves |-> <<>>] /\ here = [s \in Slaves |-> TRUE]
  /\ data = [s \in Slaves |-> [i \in 1 .. Width(s) |-> 0]] /\ nack = [s \in Slaves |-> FALSE]
  /\ esislave = 0 /\ esibuf = <<>>
  /\ \E pdi \in BOOLEAN : /\ eep_pdi = [s \in Slaves |-> pdi]
                         /\ owner = [s \in Slaves |-> IF pdi THEN "pdi" ELSE "master"]
  /\ eepSM = [slave |-> 0, Startpos |-> 0, nSM |-> 0]
  /\ frame = <<>> /\ tries = 0 /\ return = "idle" /\ wkc = 0 /\ edat = <<>>
  /\ pc = "idle" /\ call = [fn |-> "none", slave |-> 0, arg |-> 0] /\ eectl = FALSE
  /\ phase = "find" /\ at = 0 /\ word = 0 /\ back = "idle" /\ nackcnt = 0
  /\ seen = "nothing" /\ value = <<>>
  /\ calls = 0 /\ faults = 0 /\ refusals = 0 /\ sent = 0 /\ slipped = FALSE /\ spoilt = {}
  /\ asked = [s \in Slaves |-> <<>>] /\ lost = {}

-----------------------------------------------------------------------------
(***************************************************************************)
(* The slaves.                                                             *)
(***************************************************************************)
Byte(s, i) == IF i \in DOMAIN rom[s] THEN rom[s][i] ELSE 255
Bytes(s, w, n) == [i \in 1 .. n |-> Byte(s, 2 * w + i - 1)]

Burn(s, w, d) ==
  /\ rom' = [rom EXCEPT ![s] = [i \in DOMAIN @ |-> IF i \div 2 = w THEN d[1 + (i % 2)] ELSE @[i]]]
  /\ spoilt' = IF s = esislave THEN spoilt \cup ({2 * w, 2 * w + 1} \cap esimap) ELSE spoilt

\* The EEPROM finishes a command, or does not acknowledge it.
Complete(s) ==
  /\ busy[s] # <<>> /\ busy' = [busy EXCEPT ![s] = <<>>]
  /\ \/ /\ nack' = [nack EXCEPT ![s] = FALSE]
        /\ \/ /\ busy[s][1] = "read" /\ data' = [data EXCEPT ![s] = Bytes(s, busy[s][2], Width(s))]
              /\ UNCHANGED <<rom, spoilt>>
           \/ busy[s][1] = "write" /\ Burn(s, busy[s][2], data[s]) /\ UNCHANGED data
        /\ UNCHANGED <<refusals, asked>>
     \/ /\ refusals < MaxRefusals /\ refusals' = refusals + 1
        /\ nack' = [nack EXCEPT ![s] = TRUE]
        /\ asked' = [asked EXCEPT ![s] = <<>>]
        /\ UNCHANGED <<rom, spoilt, data>>
  /\ UNCHANGED <<owner, here, esislave, esibuf, eep_pdi, wire, pc, locals, calls, faults,
                 slipped, sent, lost>>

Fault == faults < MaxFaults /\ faults' = faults + 1

Leave(s) ==
  /\ here[s] /\ here' = [here EXCEPT ![s] = FALSE] /\ Fault
  /\ asked' = [asked EXCEPT ![s] = <<>>]
  /\ UNCHANGED <<rom, owner, busy, data, nack, cache, eep_pdi, wire, pc, locals, calls, refusals,
                 slipped, sent, lost>>

\* A register access that arrives.  Without control, or while a command is
\* under way, the slave ignores commands and data.  While it controls the
\* EEPROM, the PDI lets go of it at once or only if it is forced to.
Accepts(s) == owner[s] = "master" /\ busy[s] = <<>>

Arrive(s, f) ==
  \/ /\ f[1] = "EEPCFG"
     /\ \/ f[2] = 1 /\ owner' = [owner EXCEPT ![s] = "pdi"]
        \/ f[2] \in {0, 2} /\ owner' = [owner EXCEPT ![s] = "master"]
        \/ f[2] = 0 /\ UNCHANGED owner
     /\ UNCHANGED <<busy, data, nack, asked>>
  \/ /\ f[1] \in {"nop", "read", "write"}
     /\ IF Accepts(s)
          THEN /\ busy' = [busy EXCEPT ![s] = IF f[1] = "nop" THEN <<>> ELSE f]
               /\ nack' = [nack EXCEPT ![s] = FALSE]
               /\ asked' = [asked EXCEPT ![s] = IF call.fn = "read1" /\ f[1] = "read" THEN <<f[2]>>
                                                ELSE <<>>]
          ELSE UNCHANGED <<busy, nack, asked>>
     /\ UNCHANGED <<owner, data>>
  \/ /\ f[1] = "EEPDAT"
     /\ data' = [data EXCEPT ![s] = IF Accepts(s) THEN f[2] \o SubSeq(@, 3, Len(@)) ELSE @]
     /\ asked' = [asked EXCEPT ![s] = <<>>]
     /\ UNCHANGED <<owner, busy, nack>>
  \/ f[1] = "data" /\ UNCHANGED <<owner, busy, data, nack, asked>>

-----------------------------------------------------------------------------
(***************************************************************************)
(* A datagram, sent until it is answered or the tries are used up; and the *)
(* wait for the EEPROM.                                                    *)
(***************************************************************************)
Send(f, retries, place) ==
  /\ pc' = "exchange" /\ frame' = f /\ tries' = retries /\ return' = place
  /\ UNCHANGED wkc

Answered ==
  /\ pc = "exchange" /\ here[Slave] /\ Arrive(Slave, frame)
  /\ edat' = IF frame[1] = "data" THEN SubSeq(data[Slave], 1, frame[2]) ELSE edat
  /\ wkc' = 1 /\ pc' = return /\ tries' = 0
  /\ UNCHANGED <<rom, here, cache, eep_pdi, frame, return, locals, calls, faults, refusals,
                 slipped, sent, lost>>

\* Another try, or the end of them with the working counter of the last one.
NotAnswered ==
  /\ pc = "exchange"
  /\ \/ Arrive(Slave, frame) /\ here[Slave]
     \/ UNCHANGED <<owner, busy, data, nack, asked>>
  /\ \/ /\ tries > 0 /\ tries' = tries - 1
        /\ UNCHANGED <<pc, wkc, slipped, faults>>
     \/ /\ tries = 0 /\ pc' = return /\ slipped' = TRUE /\ UNCHANGED tries
        /\ IF here[Slave] THEN wkc' = -1 /\ Fault ELSE wkc' = 0 /\ UNCHANGED faults
  /\ UNCHANGED <<rom, here, cache, eep_pdi, frame, return, edat, locals, calls, refusals, sent, lost>>

Wait(place) == pc' = "wait" /\ return' = place /\ UNCHANGED <<frame, tries, wkc>>

ReadyAlways(s) == TRUE
Ready(s) == busy[s] = <<>>

\* The status is cleared before each read of it: if the time is over when a
\* read was lost, the EEPROM counts as ready.
waitnotbusy ==
  /\ pc = "wait" /\ pc' = return
  /\ \/ /\ here[Slave] /\ Ready(Slave) /\ seen' = (IF nack[Slave] THEN "nack" ELSE "ready")
        /\ UNCHANGED <<faults, slipped>>
     \/ here[Slave] /\ ~Ready(Slave) /\ Fault /\ seen' = "busy" /\ slipped' = TRUE
     \/ here[Slave] /\ Fault /\ seen' = "nothing" /\ slipped' = TRUE
     \/ ~here[Slave] /\ seen' = "nothing" /\ slipped' = TRUE /\ UNCHANGED faults
  /\ UNCHANGED <<eeproms, cache, eep_pdi, wire, call, eectl, phase, at, word, back, nackcnt, value,
                 eepSM, calls, refusals, sent, asked, lost>>

-----------------------------------------------------------------------------
(***************************************************************************)
(* The control of the EEPROM.                                              *)
(***************************************************************************)
Handed == lost' = IF wkc = 1 THEN lost \ {Slave} ELSE lost \cup {Slave}

\* ecx_eeprom2master: forced from the PDI, then given to the master.
eeprom2master(place) ==
  /\ IF eep_pdi[Slave] THEN Send(<<"EEPCFG", 2>>, EC_DEFAULTRETRIES, "forced")
     ELSE IF place = "idle" THEN pc' = place /\ UNCHANGED <<frame, tries, return, wkc>>
     ELSE Wait(place)

Forced ==
  /\ pc = "forced" /\ Handed
  /\ Send(<<"EEPCFG", 0>>, EC_DEFAULTRETRIES, "taken")
  /\ UNCHANGED <<eeproms, cache, eep_pdi, edat, locals, calls, faults, refusals, slipped, sent, asked>>

Taken ==
  /\ pc = "taken"
  /\ eep_pdi' = [eep_pdi EXCEPT ![Slave] = FALSE]
  /\ lost' = IF wkc = 1 THEN lost ELSE lost \cup {Slave}
  /\ IF call.fn = "2master" THEN pc' = "idle" /\ UNCHANGED <<frame, tries, return, wkc>>
     ELSE Wait("status")
  /\ UNCHANGED <<eeproms, cache, edat, locals, calls, faults, refusals, slipped, sent, asked>>

\* ecx_eeprom2pdi
eeprom2pdi(place) ==
  IF eep_pdi[Slave] THEN pc' = place /\ UNCHANGED <<frame, tries, return, wkc, back>>
  ELSE Send(<<"EEPCFG", 1>>, EC_DEFAULTRETRIES, "given") /\ back' = place

Given ==
  /\ pc = "given" /\ Handed /\ pc' = back
  /\ eep_pdi' = [eep_pdi EXCEPT ![Slave] = TRUE]
  /\ UNCHANGED <<eeproms, cache, wire, locals, calls, faults, refusals, slipped, sent, asked>>

RestoreNever(place) == pc' = place /\ UNCHANGED <<frame, tries, return, wkc, back>>

\* "if eeprom control was previously pdi then restore"
Restore(place) ==
  IF eectl THEN eeprom2pdi(place)
  ELSE pc' = place /\ UNCHANGED <<frame, tries, return, wkc, back>>

-----------------------------------------------------------------------------
(***************************************************************************)
(* One read or write of the EEPROM.                                        *)
(***************************************************************************)
Writes == {"write", "writeAP"}

Rest == UNCHANGED <<eeproms, cache, eep_pdi, eectl, phase, at, call, eepSM, calls, faults, refusals,
                    lost>>

Status ==
  /\ pc = "status"
  /\ \/ seen = "busy" /\ pc' = back /\ UNCHANGED <<frame, tries, return, wkc>>
     \/ seen = "nack" /\ Send(<<"nop", 0>>, 0, "command")
     \/ seen \in {"ready", "nothing"} /\ pc' = "command" /\ UNCHANGED <<frame, tries, return, wkc>>
  /\ Rest /\ UNCHANGED <<edat, word, back, nackcnt, seen, value, slipped, sent, asked>>

Command ==
  /\ \/ /\ pc = "command" /\ call.fn \notin Writes
        /\ Send(<<"read", word>>, EC_DEFAULTRETRIES, "commanded")
     \/ /\ pc = "command" /\ call.fn \in Writes
        /\ Send(<<"EEPDAT", call.data>>, EC_DEFAULTRETRIES, "data sent")
     \/ pc = "data sent" /\ Send(<<"write", word>>, EC_DEFAULTRETRIES, "commanded")
  /\ Rest /\ UNCHANGED <<edat, word, back, nackcnt, seen, value, slipped, asked>>
  /\ sent' = IF here[Slave] /\ return' = "commanded" THEN sent + 1 ELSE sent

Again(n) == IF n > 0 /\ n < 3 THEN "command" ELSE back

\* A command that got no answer may have been executed or not.
Commanded ==
  /\ pc = "commanded"
  /\ \/ call.fn = "read1" /\ pc' = back /\ UNCHANGED <<frame, tries, return, wkc>>
     \/ call.fn # "read1" /\ wkc # 0 /\ Wait("executed")
     \/ /\ call.fn # "read1" /\ wkc = 0 /\ pc' = Again(nackcnt)
        /\ UNCHANGED <<frame, tries, return, wkc>>
  /\ Rest /\ UNCHANGED <<edat, word, back, nackcnt, seen, value, slipped, sent, asked>>

Acknowledged == nackcnt' = 0

Executed ==
  /\ pc = "executed"
  /\ \/ seen = "busy" /\ pc' = Again(nackcnt) /\ UNCHANGED <<nackcnt, value, slipped>>
     \/ /\ seen = "nack" /\ nackcnt' = nackcnt + 1 /\ pc' = Again(nackcnt + 1)
        /\ slipped' = (slipped \/ nackcnt + 1 = 3)
        /\ UNCHANGED value
     \/ /\ seen \in {"ready", "nothing"} /\ Acknowledged
        /\ IF call.fn \in Writes THEN value' = <<1>> /\ pc' = Again(nackcnt')
                                  ELSE pc' = "fetch" /\ UNCHANGED value
        /\ UNCHANGED slipped
  /\ Rest /\ UNCHANGED <<wire, word, back, seen, sent, asked>>

\* ecx_readeeprom2 looks at nothing but the busy flag.
Fetch ==
  /\ pc = "fetch"
  /\ IF seen = "busy" THEN pc' = back /\ UNCHANGED <<frame, tries, return, wkc>>
     ELSE Send(<<"data", IF call.fn # "read2" /\ seen # "nothing" THEN Width(Slave) ELSE 4>>,
               EC_DEFAULTRETRIES, Again(nackcnt))
  /\ Rest /\ UNCHANGED <<edat, word, back, nackcnt, seen, value, slipped, sent, asked>>

\* What was not read stays 0.
Padded(n) == [i \in 1 .. n |-> IF i <= Len(edat) THEN edat[i] ELSE 0]

Returned ==
  /\ pc = "returned" /\ pc' = "idle" /\ value' = Padded(4)
  /\ Rest /\ UNCHANGED <<wire, word, back, nackcnt, seen, slipped, sent, asked>>

\* One turn of ecx_esidump.
Dumped ==
  /\ pc = "dumped"
  /\ value' = value \o Padded(Width(Slave))
  /\ word' = word + Width(Slave) \div 2
  /\ IF word' <= EC_MAXEEPBUF \div 2 /\ Padded(4) # <<255, 255, 255, 255>>
       THEN Wait("status") /\ nackcnt' = 0 /\ edat' = <<>> /\ UNCHANGED back
       ELSE Restore("idle") /\ UNCHANGED <<nackcnt, edat>>
  /\ Rest /\ sent' = 0 /\ UNCHANGED <<seen, slipped, asked>>

-----------------------------------------------------------------------------
(***************************************************************************)
(* ecx_siigetbyte and the walkers.                                         *)
(***************************************************************************)
Finders == {"find", "string", "FMMU", "SM", "PDO"}
Walkers == Finders \cup {"SMnext"}

CategoryOf == [find |-> call.arg, string |-> ECT_SII_STRING, FMMU |-> ECT_SII_FMMU,
               SM |-> ECT_SII_SM, PDO |-> ECT_SII_PDO + call.arg]

\* "clear esibuf cache map"
Buf == IF Slave = esislave THEN esibuf ELSE <<>>

Cached == [i \in Nat |-> IF i \in DOMAIN Buf THEN Buf[i] ELSE 255]

Body ==
  CASE call.fn = "getbyte" -> [value |-> Cached[call.arg], reads |-> <<call.arg>>]
    [] call.fn = "string" -> siistring(Cached, at, call.arg)
    [] call.fn = "FMMU" -> siiFMMU(Cached, at)
    [] call.fn = "SM" -> siiSM(Cached, at)
    [] call.fn = "SMnext" -> siiSMnext(Cached, eepSM.Startpos, eepSM.nSM, call.arg)
    [] call.fn = "PDO" -> siiPDO(Cached, at)

Walk == IF phase = "find" THEN siifind(Cached, CategoryOf[call.fn]) ELSE Body

\* The places in what a walker reads where a byte is not cached.
Missing(reads) ==
  {k \in DOMAIN reads : reads[k] \in 0 .. EC_MAXEEPBUF - 1 /\ reads[k] \notin DOMAIN Buf}

Switch == esislave' = Slave /\ esibuf' = Buf /\ spoilt' = spoilt \cap DOMAIN Buf

Miss ==
  /\ pc = "walk" /\ Switch
  /\ LET reads == Walk.reads
         missing == Missing(reads) IN
     \E k \in missing : (\A j \in missing : k <= j) /\ word' = reads[k] \div 2
  /\ back' = "fill" /\ nackcnt' = 0
  /\ slipped' = FALSE /\ sent' = 0 /\ edat' = <<>>
  /\ eeprom2master("status")
  /\ UNCHANGED <<eeproms, eep_pdi, call, eectl, phase, at, seen, value, eepSM, calls, faults,
                 refusals, asked, lost>>

Filled == {i \in 2 * word .. 2 * word + Width(Slave) - 1 : i < EC_MAXEEPBUF}

Fill ==
  /\ pc = "fill" /\ pc' = "walk"
  /\ esibuf' = [i \in Filled \cup esimap |-> IF i \in Filled THEN Padded(8)[i - 2 * word + 1]
                                             ELSE esibuf[i]]
  /\ spoilt' = IF slipped \/ Slave \in lost THEN spoilt \cup Filled ELSE spoilt \ Filled
  /\ UNCHANGED <<eeproms, esislave, eep_pdi, wire, locals, history>>

\* The category is found or not, and control given back for a while.
Find ==
  /\ pc = "walk" /\ phase = "find" /\ Missing(Walk.reads) = {}
  /\ at' = Walk.value
  /\ IF at' # 0 /\ call.fn # "find"
       THEN phase' = "body" /\ Restore("walk") /\ UNCHANGED value
       ELSE /\ value' = (IF call.fn = "find" THEN <<at'>> ELSE <<>>)
            /\ Restore("idle") /\ UNCHANGED phase
  /\ eepSM' = IF call.fn = "SM" THEN [slave |-> Slave, Startpos |-> at', nSM |-> 0] ELSE eepSM
  /\ UNCHANGED <<eeproms, cache, eep_pdi, edat, call, eectl, word, nackcnt, seen, history>>

Found ==
  /\ pc = "walk" /\ phase = "body" /\ Missing(Walk.reads) = {}
  /\ value' = <<Walk.value>>
  /\ eepSM' = IF call.fn = "SM" THEN [eepSM EXCEPT !.nSM = Walk.value.nSM] ELSE eepSM
  /\ IF call.fn = "getbyte" THEN pc' = "idle" /\ UNCHANGED <<frame, tries, return, wkc, back>>
                             ELSE Restore("idle")
  /\ IF Walk.reads # <<>> THEN Switch ELSE UNCHANGED cache
  /\ UNCHANGED <<eeproms, eep_pdi, edat, call, eectl, phase, at, word, nackcnt, seen,
                 history>>

-----------------------------------------------------------------------------
(***************************************************************************)
(* The calls.  A word that is written exists.                              *)
(***************************************************************************)
ASSUME CallAssumption ==
  \A c \in Calls :
    /\ c.slave \in Slaves /\ c.fn # "none" /\ c.arg \in Nat
    /\ c.fn \in Writes => /\ {2 * c.arg, 2 * c.arg + 1} \subseteq DOMAIN Image[c.slave]
                          /\ c.data \in [1 .. 2 -> 0 .. 255]

Call ==
  /\ pc = "idle" /\ calls < MaxCalls /\ calls' = calls + 1
  /\ \E c \in Calls :
       /\ c.fn = "SMnext" => eepSM.slave = c.slave
       /\ call' = c /\ eectl' = eep_pdi[c.slave]
       /\ asked' = IF c.fn = "read1" THEN [asked EXCEPT ![c.slave] = <<>>] ELSE asked
  /\ pc' = "start" /\ phase' = "find" /\ at' = 0 /\ value' = <<>> /\ slipped' = FALSE /\ sent' = 0
  /\ nackcnt' = 0 /\ seen' = "nothing" /\ edat' = <<>> /\ wkc' = 0 /\ frame' = <<>>
  /\ tries' = 0 /\ return' = "idle" /\ back' = "idle" /\ word' = 0
  /\ UNCHANGED <<eeproms, cache, eep_pdi, eepSM, faults, refusals, lost>>

Start ==
  /\ pc = "start"
  /\ \/ /\ call.fn \in Walkers \cup {"getbyte"} /\ pc' = "walk"
        /\ phase' = IF call.fn \in Finders THEN "find" ELSE "body"
        /\ UNCHANGED <<frame, tries, return, wkc, word, back>>
     \/ /\ call.fn \in {"read", "write", "read1"} /\ word' = call.arg
        /\ back' = (IF call.fn = "read" THEN "returned" ELSE "idle")
        /\ eeprom2master("status") /\ UNCHANGED phase
     \/ /\ call.fn \in {"readAP", "writeAP"} /\ word' = call.arg
        /\ back' = (IF call.fn = "readAP" THEN "returned" ELSE "idle")
        /\ Wait("status") /\ UNCHANGED phase
     \/ /\ call.fn = "read2" /\ back' = "returned" /\ Wait("fetch") /\ UNCHANGED <<phase, word>>
     \/ /\ call.fn = "dump" /\ word' = ECT_SII_START /\ back' = "dumped"
        /\ eeprom2master("status") /\ UNCHANGED phase
     \/ call.fn = "2master" /\ eeprom2master("idle") /\ UNCHANGED <<phase, word, back>>
     \/ call.fn = "2pdi" /\ eeprom2pdi("idle") /\ UNCHANGED <<phase, word>>
  /\ UNCHANGED <<eeproms, cache, eep_pdi, edat, call, eectl, at, nackcnt, seen, value, eepSM, history>>

master ==
  \/ Start \/ Answered \/ NotAnswered \/ waitnotbusy
  \/ Forced \/ Taken \/ Given
  \/ Status \/ Command \/ Commanded \/ Executed \/ Fetch \/ Returned \/ Dumped
  \/ Miss \/ Fill \/ Find \/ Found

Next == Call \/ master \/ \E s \in Slaves : Complete(s) \/ Leave(s)

Spec == Init /\ [][Next]_vars 
-----------------------------------------------------------------------------
Spoilt(s) == rom[s] # Image[s] \/ (s = esislave /\ spoilt # {})

Clean == ~slipped /\ Slave \notin lost
Controlled == call.fn \in {"readAP", "writeAP"} => ~eep_pdi[Slave]

\* The cache holds what the EEPROM of its slave holds, but for bytes left by a
\* read that failed, or written since.
CacheTrue == \A i \in esimap \ spoilt : esibuf[i] = Byte(esislave, i)

\* The cache is right; a walker over bytes that are right finds what the
\* EEPROM says; and a dump goes as far as the categories do.
FoundRight ==
  /\ CacheTrue
  /\ /\ pc = "idle" /\ call.fn \in Walkers /\ ~Spoilt(Slave)
     /\ call.fn = "SMnext" => /\ eepSM.Startpos = ExpectedFind(Content[Slave], ECT_SII_SM)
                             /\ eepSM.nSM = Len(Content[Slave].sm)
     => value = Expected(Content[Slave], call.fn, call.arg)
  /\ pc = "idle" /\ call.fn = "dump" /\ Clean =>
       2 * ECT_SII_START + Len(value) >= Len(Laid(Categories(Content[Slave])))

\* A read past the cache returns the word it was asked for, and a write that
\* ends has been executed, if no exchange of it failed and the master had
\* control; so does the read in two steps, and the dump for all it returns.
\* And no access takes more than three commands, but for those that exchanges
\* failed of.
AccessTrue ==
  /\ pc = "idle" /\ Clean /\ Controlled =>
       /\ call.fn \in {"read", "readAP"} => value = Bytes(Slave, call.arg, 4)
       /\ call.fn = "read2" /\ asked[Slave] # <<>> => value = Bytes(Slave, asked[Slave][1], 4)
       /\ call.fn \in Writes => value = <<1>> /\ Bytes(Slave, call.arg, 2) = call.data
       /\ call.fn = "dump" => value = Bytes(Slave, ECT_SII_START, Len(value))
  /\ sent <= 3 + faults

\* What is recorded of the control is true, unless the write that handed it
\* over failed; and a walker and the dump leave it as they found it.
ControlTrue ==
  /\ pc = "idle" => \A s \in Slaves \ lost : eep_pdi[s] <=> owner[s] = "pdi"
  /\ pc = "idle" /\ call.fn \in Walkers \cup {"dump"} => eep_pdi[Slave] = eectl
=============================================================================
