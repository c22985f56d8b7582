------------------------------- MODULE MCNicDrv -------------------------------
(***************************************************************************)
(* TLC instances of NicDrv.  For the safety properties: the RT-Thread port *)
(* used by one thread, the rtk port (the other one that leaves a refused   *)
(* frame's buffer as it is) by two, with and without process data.  Five   *)
(* transactions over four buffers take an index a second time; retries are *)
(* tried with one less, by two threads, since they double the states.  For *)
(* liveness: two users on the RT-Thread and the Linux port as well, and a  *)
(* batch of more frames than there are buffers.                            *)
(***************************************************************************)
EXTENDS NicDrv, TLC

CONSTANTS t1, t2

MCThreads == {t1, t2}
Symmetry == Permutations(MCThreads)

Alone(p, t, n) ==
  [port |-> p, users |-> {t}, cyclic |-> {t}, txns |-> n, tries |-> 2]
Shared(p, cyclic, n, tries) ==
  [port |-> p, users |-> MCThreads, cyclic |-> cyclic, txns |-> n, tries |-> tries]

MCSetups ==
  UNION {{Alone(rt_thread, t, 8), Shared(rtk, {t}, 5, 1)} : t \in MCThreads}
    \cup {Shared(rtk, {}, 5, 1), Shared(rtk, {}, 4, 2)}

EndSetups ==
  {Alone(rt_thread, t1, 3), Shared(rt_thread, {t1}, 2, 2), Shared(linux, {}, 2, 2)}
=============================================================================
