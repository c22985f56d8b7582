------------------------------- MODULE RxQueue -------------------------------
(***************************************************************************)
(* What the receive side of the port promises the driver: a FIFO of at     *)
(* most Capacity frames between the Ethernet thread and net_recv.  Frames  *)
(* come out in the order they went in, each at most once, and only frames  *)
(* that went in come out.  A frame may be refused at the entrance (that    *)
(* changes nothing here); a full queue may be lost as a whole.             *)
(***************************************************************************)
EXTENDS Naturals, Sequences

CONSTANTS Frames, Capacity, NoFrame

VARIABLES
  open,      \* whether the port is open
  q,         \* frames not yet read, oldest first
  last       \* the frame the last successful net_recv returned

Init == ~open /\ q = <<>> /\ last = NoFrame

Open ==
  /\ ~open /\ open'
  /\ UNCHANGED <<q, last>>

\* What was queued when the port closes is of no interest any more.
Close ==
  /\ open /\ ~open'
  /\ q' = <<>>
  /\ UNCHANGED last

Put(f) ==
  /\ open /\ Len(q) < Capacity
  /\ q' = Append(q, f)
  /\ UNCHANGED <<open, last>>

Get ==
  /\ open /\ q # <<>>
  /\ q' = Tail(q)
  /\ last' = Head(q)
  /\ UNCHANGED open

\* The consumer forgot a queue that filled up while it was finishing a read.
Overrun ==
  /\ open /\ Len(q) = Capacity
  /\ q' = <<>>
  /\ UNCHANGED <<open, last>>

Next == Open \/ Close \/ (\E f \in Frames : Put(f)) \/ Get \/ Overrun

Spec == Init /\ [][Next]_<<open, q, last>>
=============================================================================
