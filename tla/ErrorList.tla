------------------------------ MODULE ErrorList ------------------------------
(***************************************************************************)
(* The error list of the master: ecx_pusherror, ecx_poperror and           *)
(* ecx_iserror of soem/ethercatmain.c on the ring ec_eringt.  The ring has *)
(* one slot more than EC_MAXELIST, so that head = tail means empty.  Every *)
(* ecx_xxxerror function of the library ends in one push; the applications *)
(* pop through ec_elist2string until EcatError is lowered.                 *)
(***************************************************************************)
EXTENDS Naturals, Sequences

CONSTANTS
  Errors,      \* the values an ec_errort can have
  NoError,     \* a slot of the zeroed static ring
  EC_MAXELIST, \* highest slot number of the ring
  MaxPushes    \* bound: errors pushed in one behaviour

ASSUME MaxElistAssumption == EC_MAXELIST \in Nat \ {0}
ASSUME NoErrorAssumption == NoError \notin Errors
ASSUME MaxPushesAssumption == MaxPushes \in Nat

VARIABLES
  Error,       \* the ring: [ec: the descriptor, Signal: its signal bit]
  head,        \* slot the next push writes
  tail,        \* slot the next pop reads
  ecaterror,   \* EcatError
  popped,      \* what the last ecx_poperror returned: <<>> or <<descriptor>>
  pushes       \* number of pushes so far (bounds the model)

vars == <<Error, head, tail, ecaterror, popped, pushes>>

Slots == 0 .. EC_MAXELIST

TypeOK ==
  /\ Error \in [Slots -> [ec : Errors \cup {NoError}, Signal : BOOLEAN]]
  /\ head \in Slots
  /\ tail \in Slots
  /\ ecaterror \in BOOLEAN
  /\ popped \in {<<>>} \cup {<<e>> : e \in Errors}
  /\ pushes \in 0 .. MaxPushes

\* The ring is a static variable, so C zeroes it.
Init ==
  /\ Error = [s \in Slots |-> [ec |-> NoError, Signal |-> FALSE]]
  /\ head = 0
  /\ tail = 0
  /\ ecaterror = FALSE
  /\ popped = <<>>
  /\ pushes = 0

\* i++ followed by the test that brings it back to slot 0.
Step(i) == IF i + 1 > EC_MAXELIST THEN 0 ELSE i + 1

ecx_iserror == head # tail

PushKeepsTail(e) ==
  /\ pushes < MaxPushes
  /\ Error' = [Error EXCEPT ![head] = [ec |-> e, Signal |-> TRUE]]
  /\ head' = Step(head)
  /\ ecaterror' = TRUE
  /\ pushes' = pushes + 1
  /\ UNCHANGED <<tail, popped>>

ecx_pusherror(e) ==
  /\ pushes < MaxPushes
  /\ Error' = [Error EXCEPT ![head] = [ec |-> e, Signal |-> TRUE]]
  /\ head' = Step(head)
  /\ tail' = IF head' = tail THEN Step(tail) ELSE tail
  /\ ecaterror' = TRUE
  /\ pushes' = pushes + 1
  /\ UNCHANGED popped

PopLowersFlag ==
  /\ Error' = [Error EXCEPT ![tail].Signal = FALSE]
  /\ IF ecx_iserror
       THEN /\ tail' = Step(tail)
            /\ popped' = <<Error[tail].ec>>
       ELSE /\ popped' = <<>>
            /\ UNCHANGED tail
  /\ ecaterror' = FALSE
  /\ UNCHANGED <<head, pushes>>

PopKeepsFlag ==
  /\ Error' = [Error EXCEPT ![tail].Signal = FALSE]
  /\ IF ecx_iserror
       THEN /\ tail' = Step(tail)
            /\ popped' = <<Error[tail].ec>>
       ELSE /\ popped' = <<>>
            /\ UNCHANGED tail
  /\ UNCHANGED <<head, ecaterror, pushes>>

\* ecx_poperror copies the slot at tail out even when the list is empty; its
\* callers look at the copy only when it returns TRUE.
ecx_poperror ==
  /\ Error' = [Error EXCEPT ![tail].Signal = FALSE]
  /\ IF ecx_iserror
       THEN /\ tail' = Step(tail)
            /\ popped' = <<Error[tail].ec>>
            /\ UNCHANGED ecaterror
       ELSE /\ ecaterror' = FALSE
            /\ popped' = <<>>
            /\ UNCHANGED tail
  /\ UNCHANGED <<head, pushes>>

Next == (\E e \in Errors : ecx_pusherror(e)) \/ ecx_poperror

Spec == Init /\ [][Next]_vars

\* One turn of "while (EcatError) printf(..., ec_elist2string());".
Drain == ecaterror /\ ecx_poperror

FairSpec == Spec /\ WF_vars(Drain)

-----------------------------------------------------------------------------
(***************************************************************************)
(* Refinement: the ring holds Count errors from tail on.                   *)
(***************************************************************************)
Count == IF head >= tail THEN head - tail ELSE head + EC_MAXELIST + 1 - tail

SlotAt(i) == IF tail + i > EC_MAXELIST THEN tail + i - (EC_MAXELIST + 1) ELSE tail + i

Queue == [i \in 1 .. Count |-> Error[SlotAt(i - 1)].ec]

Fifo == INSTANCE ErrorFifo WITH
          Capacity <- EC_MAXELIST, queue <- Queue, flag <- ecaterror

\* The ring never loses, repeats or reorders an error that fits, and gives up
\* the oldest one when EC_MAXELIST errors are waiting.
RingIsFifo == Fifo!Spec

\* An error that waits in the list is announced by EcatError, and its slot
\* still holds a descriptor whose signal bit says "set but not read": a loop
\* that stops at EcatError = FALSE leaves nothing behind.
WaitingIsAnnounced ==
  /\ ecx_iserror => ecaterror
  /\ \A i \in 0 .. Count - 1 :
       /\ Error[SlotAt(i)].Signal
       /\ Error[SlotAt(i)].ec # NoError

\* The applications' printing loop ends: once errors stop coming, EcatError is
\* lowered (pushes are bounded in the model, as they are between two loops).
DrainEnds == ecaterror ~> ~ecaterror
=============================================================================
