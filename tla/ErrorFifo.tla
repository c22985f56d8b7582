------------------------------ MODULE ErrorFifo ------------------------------
(***************************************************************************)
(* What the error list of the EtherCAT master promises its callers: a FIFO *)
(* that keeps the Capacity most recent errors.  A push never fails; on a   *)
(* full list it forgets the oldest error.  The flag EcatError is raised by *)
(* a push and lowered only by a pop that finds nothing, so that the loop   *)
(*     while (EcatError) printf("%s", ec_elist2string());                  *)
(* of the applications ends with the list empty.                           *)
(***************************************************************************)
EXTENDS Naturals, Sequences

CONSTANTS
  Errors,     \* the error descriptors (ec_errort)
  Capacity    \* how many errors the list keeps

VARIABLES
  queue,      \* the errors, oldest first
  flag,       \* EcatError
  popped      \* the result of the last pop: <<>> or the one error it returned

Init ==
  /\ queue = <<>>
  /\ flag = FALSE
  /\ popped = <<>>

Push(e) ==
  /\ queue' = IF Len(queue) < Capacity THEN Append(queue, e)
              ELSE Append(Tail(queue), e)
  /\ flag' = TRUE
  /\ UNCHANGED popped

PopOldest ==
  /\ queue # <<>>
  /\ queue' = Tail(queue)
  /\ popped' = <<Head(queue)>>
  /\ UNCHANGED flag

PopNothing ==
  /\ queue = <<>>
  /\ popped' = <<>>
  /\ flag' = FALSE
  /\ UNCHANGED queue

Next == (\E e \in Errors : Push(e)) \/ PopOldest \/ PopNothing

Spec == Init /\ [][Next]_<<queue, flag, popped>>
=============================================================================
