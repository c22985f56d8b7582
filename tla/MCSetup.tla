---------------------------------- MODULE MCSetup ----------------------------------
(***************************************************************************)
(* TLC instance of Setup: small trees of plain slaves with and without     *)
(* clocks, and lines of slaves of different kinds.                         *)
(***************************************************************************)
EXTENDS Setup, TLC

----------------------------------------------------------------------------
(* Kinds of slaves: what their EEPROM and their object dictionary hold.    *)

Area(start, len) == [StartAddr |-> start, SMlength |-> len, enabled |-> len > 0]
Areas(a, b, c, d) == [m \in SMs |-> CASE m = 0 -> a [] m = 1 -> b [] m = 2 -> c [] OTHER -> d]

Plain ==
  [man |-> <<2, 0>>, id |-> <<7, 1>>, rev |-> <<1, 0>>, rxmbx |-> <<0, 0>>, txmbx |-> <<0, 0>>,
   proto |-> <<0, 0>>, CoEdetails |-> 0, blockLRW |-> FALSE, Ebuscurrent |-> 0,
   SM |-> [m \in SMs |-> NoSM], FMMU |-> <<255, 255, 255, 255>>,
   reports |-> << >>, types |-> << >>, pdos |-> << >>, soe |-> << >>,
   siiPDO |-> [RxPDO |-> << >>, TxPDO |-> << >>]]

Drive ==  \* CoE with complete access
  [Plain EXCEPT !.id = <<8, 1>>, !.rxmbx = <<20, 4>>, !.txmbx = <<21, 4>>, !.proto = <<COE, 0>>,
     !.CoEdetails = SDOCA + 1, !.Ebuscurrent = 3,
     !.SM = Areas(Area(20, 4), Area(21, 4), Area(22, 1), Area(23, 1)),
     !.FMMU = <<1, 2, 255, 255>>,
     !.reports = <<1, 2, 3, 4>>, !.types = <<1, 2, 3, 4>>,
     !.pdos = [m \in 2..3 |-> IF m = 2 THEN <<<<16, 8>>, <<4>>>> ELSE <<<<16>>>>]]

MCContent ==
  [plain |-> Plain,
   input |-> [Plain EXCEPT !.id = <<9, 1>>, !.Ebuscurrent = 1,
                !.SM = Areas(Area(16, 1), NoSM, NoSM, NoSM),
                !.siiPDO = [RxPDO |-> << >>, TxPDO |-> <<<<0, 3>>, <<0, 8>>>>]],
   listed |-> [Plain EXCEPT !.id = <<5, 1>>],
   drive |-> Drive,
   revised |-> [Drive EXCEPT !.rev = <<2, 0>>, !.CoEdetails = 1, !.blockLRW = TRUE, !.txmbx = <<21, 0>>,
                  !.reports = <<0, 1, 2, 3>>,
                  !.pdos = [m \in 2..3 |-> IF m = 2 THEN <<<<8>>>> ELSE <<<<16>>, <<7>>>>]],
   zeros |-> [Drive EXCEPT !.id = <<8, 2>>, !.CoEdetails = 1, !.reports = <<1, 2, 0, 0>>,
                !.pdos = [m \in 2..3 |-> IF m = 2 THEN <<<<8>>>> ELSE <<<<9>>>>]],
   servo |-> [Drive EXCEPT !.id = <<6, 1>>, !.CoEdetails = 0, !.proto = <<SOE, 0>>,
                !.reports = << >>, !.types = << >>, !.pdos = << >>,
                !.soe = <<<<<<32>>, <<16, 0>>>>, <<<<16>>, << >>>>>>],
   fixed |-> [Drive EXCEPT !.id = <<6, 2>>, !.reports = << >>, !.types = << >>, !.pdos = << >>,
                !.siiPDO = [RxPDO |-> <<<<2, 24>>>>, TxPDO |-> <<<<3, 12>>, <<9, 8>>>>]]]

MCTable == [k \in {<<<<2, 0>>, <<5, 1>>>>} |-> [Obits |-> 4, Ibits |-> 9, SM2 |-> 0, SM3 |-> 24]]

----------------------------------------------------------------------------
(* Buses.                                                                  *)

Slave(up, port, delay, timed, clock, kind) ==
  [up |-> up, port |-> port, entry |-> 0, delay |-> delay, dc |-> timed, clock |-> clock, kind |-> kind]

Line(kinds) ==
  [s \in 1..Len(kinds) |-> Slave(s - 1, IF s = 1 THEN 0 ELSE 1, 1, FALSE, 0, kinds[s])]

\* Trees by the parent of each slave and the port it hangs on.
Tree(ups, ports, timed, early) ==
  [s \in 1..Len(ups) |->
     Slave(ups[s], ports[s], 1 + ((s * s) % 3), s \in timed, IF s = early THEN 120 ELSE 5 * s, "plain")]

Shapes ==
  {<<<<0, 1, 2, 3>>, <<0, 1, 3, 2>>>>, <<<<0, 1, 2, 2>>, <<0, 1, 3, 1>>>>,
   <<<<0, 1, 2, 1>>, <<0, 3, 1, 2>>>>, <<<<0, 1, 1, 3>>, <<0, 1, 2, 1>>>>,
   <<<<0, 1, 1, 1>>, <<0, 3, 1, 2>>>>}
Larger ==
  {<<<<0, 1, 2, 3, 2, 1>>, <<0, 3, 1, 1, 2, 2>>>>, <<<<0, 1, 1, 3, 3, 1>>, <<0, 3, 1, 1, 2, 2>>>>,
   <<<<0, 1, 2, 2, 2, 1>>, <<0, 3, 3, 1, 2, 1>>>>, <<<<0, 1, 1, 1, 4, 4>>, <<0, 3, 1, 2, 3, 1>>>>}

\* The last slave of a line may be entered by another port.
Turned(b) == [b EXCEPT ![Len(b)].entry = 1]

Trees(shapes) ==
  UNION {{Tree(sh[1], sh[2], timed, early) : timed \in SUBSET DOMAIN sh[1], early \in {0, 2}} : sh \in shapes}
SmallTrees == Trees({<<<<0, 1, 2>>, <<0, 1, 3>>>>, <<<<0, 1, 1>>, <<0, 1, 2>>>>})
FourTrees == Trees(Shapes)
Paired == {Line(k) : k \in [1..2 -> DOMAIN MCContent]}
Tripled == {Line(<<a, b, c>>) : a \in {"drive", "revised"}, b \in {"drive", "input"}, c \in {"drive", "fixed"}}

MCCycles == {<<4, 0>>, <<4, 8>>, <<6, 0>>}
MCSyncBuses == {Tree(<<0, 1>>, <<0, 1>>, {1, 2}, 0)}
MCBuses ==
  MCSyncBuses \union SmallTrees \union {Turned(b) : b \in SmallTrees} \union FourTrees
    \union Trees(Larger) \union Paired \union Tripled
MCMaxFaults == [b \in MCBuses |-> IF b \in SmallTrees \union Paired \union Tripled \union MCSyncBuses THEN 1 ELSE 0]
=================================================================================
