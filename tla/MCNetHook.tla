------------------------------ MODULE MCNetHook ------------------------------
(***************************************************************************)
(* TLC instance of NetHook: a ring of three slots, a master that keeps     *)
(* fewer frames under way than the ring has slots and one that keeps more. *)
(***************************************************************************)
EXTENDS NetHook

MCWindows == {HOOK_RX_BUFSIZE - 1, HOOK_RX_BUFSIZE + 1}
=============================================================================
