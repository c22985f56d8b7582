-------------------------------- MODULE MCSII --------------------------------
(***************************************************************************)
(* TLC instances of SII: a slave that reads 4 bytes at once, with two      *)
(* strings, and one that reads 8, with FMMUs, SMs and PDOs.                *)
(***************************************************************************)
EXTENDS SII, TLC

CONSTANTS s4, s8

SM(k) == [i \in 1 .. 8 |-> 16 * k + i]

Empty == [strings |-> <<>>, fmmu |-> <<>>, sm |-> <<>>, tx |-> <<>>, rx |-> <<>>]

MCContent == s4 :> [Empty EXCEPT !.strings = <<<<65>>, <<66, 67, 68, 69>>>>]
          @@ s8 :> [Empty EXCEPT !.fmmu = <<2, 1, 3>>, !.sm = <<SM(1), SM(2)>>,
                                    !.rx = <<[index |-> 5632, sm |-> 2, bits |-> <<16>>],
                                             [index |-> 6657, sm |-> 255, bits |-> <<1>>]>>]

C(fn, s, arg) == [fn |-> fn, slave |-> s, arg |-> arg]
W(fn, s, arg) == [fn |-> fn, slave |-> s, arg |-> arg, data |-> <<17, 18>>]

MCCalls ==
  {C("find", s4, 30), C("string", s4, 2), C("FMMU", s8, 0), C("SM", s8, 0), C("SMnext", s8, 1),
   C("PDO", s8, 1), C("getbyte", s4, EC_MAXEEPBUF), C("dump", s4, 0), C("2pdi", s4, 0),
   C("2master", s4, 0), C("read", s4, 3), C("readAP", s4, 2), C("read1", s4, 4), C("read2", s4, 0),
   W("write", s4, 3), W("writeAP", s4, 3)}
=============================================================================
