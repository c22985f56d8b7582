---------------------------- MODULE MCProcessData ----------------------------
(***************************************************************************)
(* TLC instance of IOMap and ProcessData.  Groups of up to three slaves,   *)
(* bit-oriented and byte-oriented, with one or two SMs in a direction,     *)
(* adjacent or not, are mapped; groups of one or two slaves whose image    *)
(* takes one to three segments of two bytes exchange their data.           *)
(***************************************************************************)
EXTENDS ProcessData

SM(start, len) == [start |-> start, len |-> len]
Area(bits, sms) == [bits |-> bits, sms |-> sms]

None == Area(0, <<>>)
Few == Area(3, <<SM(10, 1)>>)
Most == Area(6, <<SM(10, 1)>>)
One == Area(8, <<SM(10, 1)>>)
Other == Area(8, <<SM(20, 1)>>)
Odd == Area(9, <<SM(20, 2)>>)
Near == Area(16, <<SM(20, 1), SM(21, 1)>>)
Far == Area(16, <<SM(10, 1), SM(12, 1)>>)

Device(out, in) == [d \in Dirs |-> IF d = "out" THEN out ELSE in]

Group(list, overlapping, blocked) ==
  [slaves |-> list, overlap |-> overlapping, blockLRW |-> blocked]

\* The groups that are only mapped.
MCDevices ==
  {Device(o, None) : o \in {Few, One, Far}} \cup {Device(None, i) : i \in {Few, Odd, Near}}
    \cup {Device(Most, Most), Device(Odd, Few), Device(Far, Near)}
MCFew ==
  {Device(Few, None), Device(Far, None), Device(None, Odd), Device(None, Near),
   Device(Most, Most), Device(Far, Near)}
MCLists == UNION {[1 .. n -> MCDevices] : n \in 1 .. 2} \cup [1 .. 3 -> MCFew]

\* Two output SMs in two FMMUs, the input in a segment of its own; bits of two
\* slaves in one byte, outputs and inputs in one segment; inputs that need a
\* segment; overlapping outputs and inputs, not more outputs than inputs.
MCExchanging ==
  {Group(l, FALSE, b) : b \in BOOLEAN,
     l \in {<<Device(Far, None)>>, <<Device(Few, Few), Device(Few, None)>>,
            <<Device(One, None), Device(None, Odd)>>}}
    \cup {Group(<<Device(Far, Other)>>, FALSE, FALSE), Group(<<Device(None, Few)>>, FALSE, FALSE),
          Group(<<Device(One, Odd), Device(None, Other)>>, TRUE, FALSE)}

MCGroups == MCExchanging \cup {Group(l, o, FALSE) : l \in MCLists, o \in BOOLEAN}

\* All of them have the SMs that MapsItsSMs speaks of.
ASSUME OneGap
=============================================================================
