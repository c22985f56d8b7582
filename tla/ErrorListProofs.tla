--------------------------- MODULE ErrorListProofs ---------------------------
(***************************************************************************)
(* Proofs about ErrorList, for every ring size and every set of errors.    *)
(***************************************************************************)
EXTENDS ErrorList, TLAPS

ListInv == TypeOK /\ WaitingIsAnnounced

\* The slot arithmetic stays inside the ring (head++ and tail++ with their
\* wrap-around tests).
LEMMA StepInSlots == ASSUME NEW i \in Slots PROVE Step(i) \in Slots
BY MaxElistAssumption DEF Step, Slots

LEMMA SlotAtInSlots ==
  ASSUME tail \in Slots, NEW i \in 0 .. EC_MAXELIST
  PROVE  SlotAt(i) \in Slots
BY MaxElistAssumption DEF SlotAt, Slots

\* Between 0 and EC_MAXELIST errors wait, and the list is empty exactly when
\* ecx_iserror says so.
LEMMA CountBounds ==
  ASSUME head \in Slots, tail \in Slots
  PROVE  /\ Count \in 0 .. EC_MAXELIST
         /\ ecx_iserror <=> Count > 0
         /\ SlotAt(Count) = head
BY MaxElistAssumption DEF Count, Slots, ecx_iserror, SlotAt

\* The waiting slots are distinct from one another and from the one at head.
LEMMA SlotAtInjective ==
  ASSUME tail \in Slots, NEW i \in 0 .. EC_MAXELIST, NEW j \in 0 .. EC_MAXELIST,
         SlotAt(i) = SlotAt(j)
  PROVE  i = j
BY MaxElistAssumption DEF SlotAt, Slots

LEMMA InitListInv == Init => ListInv
BY MaxElistAssumption, MaxPushesAssumption
   DEF Init, ListInv, TypeOK, WaitingIsAnnounced, ecx_iserror, Count, Slots

\* A push with room moves head on; a push on a full ring moves tail on too.
LEMMA PushShape ==
  ASSUME ListInv, NEW e \in Errors, ecx_pusherror(e)
  PROVE  /\ Error' \in [Slots -> [ec : Errors \cup {NoError}, Signal : BOOLEAN]]
         /\ Error'[head] = [ec |-> e, Signal |-> TRUE]
         /\ \A s \in Slots : s # head => Error'[s] = Error[s]
         /\ head' \in Slots /\ tail' \in Slots
         /\ Count < EC_MAXELIST => /\ tail' = tail
                                   /\ Count' = Count + 1
                                   /\ \A i \in 0 .. EC_MAXELIST : SlotAt(i)' = SlotAt(i)
         /\ Count = EC_MAXELIST => /\ Count' = Count
                                   /\ \A i \in 0 .. EC_MAXELIST - 1 :
                                        SlotAt(i)' = SlotAt(i + 1)
<1>. USE MaxElistAssumption
<1>1. Error' \in [Slots -> [ec : Errors \cup {NoError}, Signal : BOOLEAN]]
  BY DEF ListInv, TypeOK, ecx_pusherror
<1>2. /\ Error'[head] = [ec |-> e, Signal |-> TRUE]
      /\ \A s \in Slots : s # head => Error'[s] = Error[s]
  BY DEF ListInv, TypeOK, ecx_pusherror
<1>3. head' \in Slots /\ tail' \in Slots
  BY StepInSlots DEF ListInv, TypeOK, ecx_pusherror
<1>a. /\ head \in Slots /\ tail \in Slots
      /\ head' = Step(head)
      /\ tail' = IF head' = tail THEN Step(tail) ELSE tail
  BY DEF ListInv, TypeOK, ecx_pusherror
<1>4. ASSUME Count < EC_MAXELIST
      PROVE  /\ tail' = tail
             /\ Count' = Count + 1
             /\ \A i \in 0 .. EC_MAXELIST : SlotAt(i)' = SlotAt(i)
  BY <1>4, <1>a DEF Count, Step, Slots, SlotAt
<1>5. ASSUME Count = EC_MAXELIST
      PROVE  /\ Count' = Count
             /\ \A i \in 0 .. EC_MAXELIST - 1 : SlotAt(i)' = SlotAt(i + 1)
  BY <1>5, <1>a DEF Count, Step, Slots, SlotAt
<1>6. QED BY <1>1, <1>2, <1>3, <1>4, <1>5

\* A pop moves tail on when something waits, and moves nothing otherwise.
LEMMA PopShape ==
  ASSUME ListInv, ecx_poperror
  PROVE  /\ Error' \in [Slots -> [ec : Errors \cup {NoError}, Signal : BOOLEAN]]
         /\ \A s \in Slots : Error'[s].ec = Error[s].ec
         /\ \A s \in Slots : s # tail => Error'[s] = Error[s]
         /\ head' = head /\ tail' \in Slots
         /\ Count > 0 => /\ Count' = Count - 1
                         /\ \A i \in 0 .. EC_MAXELIST - 1 : SlotAt(i)' = SlotAt(i + 1)
         /\ Count = 0 => Count' = 0
<1>. USE MaxElistAssumption
<1>1. /\ Error' \in [Slots -> [ec : Errors \cup {NoError}, Signal : BOOLEAN]]
      /\ \A s \in Slots : Error'[s].ec = Error[s].ec
      /\ \A s \in Slots : s # tail => Error'[s] = Error[s]
  BY DEF ListInv, TypeOK, ecx_poperror
<1>2. head' = head /\ tail' \in Slots
  BY StepInSlots DEF ListInv, TypeOK, ecx_poperror
<1>a. /\ head \in Slots /\ tail \in Slots /\ head' = head
      /\ tail' = IF ecx_iserror THEN Step(tail) ELSE tail
  BY DEF ListInv, TypeOK, ecx_poperror
<1>3. ASSUME Count > 0
      PROVE  /\ Count' = Count - 1
             /\ \A i \in 0 .. EC_MAXELIST - 1 : SlotAt(i)' = SlotAt(i + 1)
  BY <1>3, <1>a DEF ecx_iserror, Count, Step, Slots, SlotAt
<1>4. ASSUME Count = 0 PROVE Count' = 0
  BY <1>4, <1>a DEF ecx_iserror, Count, Slots
<1>5. QED BY <1>1, <1>2, <1>3, <1>4

LEMMA PushKeepsListInv ==
  ASSUME ListInv, NEW e \in Errors, ecx_pusherror(e)
  PROVE  ListInv'
<1>. USE MaxElistAssumption
<1>0. /\ Error' \in [Slots -> [ec : Errors \cup {NoError}, Signal : BOOLEAN]]
      /\ Error'[head] = [ec |-> e, Signal |-> TRUE]
      /\ \A s \in Slots : s # head => Error'[s] = Error[s]
      /\ head' \in Slots /\ tail' \in Slots
      /\ Count < EC_MAXELIST => /\ tail' = tail
                                /\ Count' = Count + 1
                                /\ \A i \in 0 .. EC_MAXELIST : SlotAt(i)' = SlotAt(i)
      /\ Count = EC_MAXELIST => /\ Count' = Count
                                /\ \A i \in 0 .. EC_MAXELIST - 1 :
                                     SlotAt(i)' = SlotAt(i + 1)
  BY PushShape
<1>1. head \in Slots /\ tail \in Slots /\ Count \in 0 .. EC_MAXELIST /\ SlotAt(Count) = head
  BY CountBounds DEF ListInv, TypeOK
<1>2. TypeOK'
  <2>1. ecaterror' \in BOOLEAN /\ pushes' \in 0 .. MaxPushes
    BY MaxPushesAssumption DEF ListInv, TypeOK, ecx_pusherror
  <2>2. popped' = popped
    BY DEF ecx_pusherror
  <2>3. QED BY <1>0, <2>1, <2>2 DEF ListInv, TypeOK
<1>3. ecaterror'
  BY DEF ecx_pusherror
<1>4. ASSUME NEW i \in 0 .. Count' - 1
      PROVE  Error'[SlotAt(i)'].Signal /\ Error'[SlotAt(i)'].ec # NoError
  <2>1. CASE Count < EC_MAXELIST
    <3>1. SlotAt(i)' = SlotAt(i) /\ i \in 0 .. Count
      BY <2>1, <1>1, <1>0
    <3>2. CASE i = Count
      BY <3>1, <3>2, <1>1, <1>0, NoErrorAssumption
    <3>3. CASE i # Count
      <4>1. i \in 0 .. Count - 1 /\ i \in 0 .. EC_MAXELIST
        BY <3>1, <3>3, <1>1
      <4>2. SlotAt(i) \in Slots /\ SlotAt(i) # head
        BY <4>1, <1>1, <3>3, SlotAtInSlots, SlotAtInjective
      <4>3. Error[SlotAt(i)].Signal /\ Error[SlotAt(i)].ec # NoError
        BY <4>1 DEF ListInv, WaitingIsAnnounced
      <4>4. QED BY <4>2, <4>3, <3>1, <1>0
    <3>4. QED BY <3>2, <3>3
  <2>2. CASE Count = EC_MAXELIST
    <3>1. SlotAt(i)' = SlotAt(i + 1) /\ i \in 0 .. EC_MAXELIST - 1 /\ i + 1 \in 0 .. EC_MAXELIST
      BY <2>2, <1>1, <1>0
    <3>2. CASE i + 1 = Count
      BY <3>1, <3>2, <1>1, <1>0, NoErrorAssumption
    <3>3. CASE i + 1 # Count
      <4>1. i + 1 \in 0 .. Count - 1
        BY <3>1, <3>3, <2>2, <1>1
      <4>2. SlotAt(i + 1) \in Slots /\ SlotAt(i + 1) # head
        BY <3>1, <1>1, <3>3, SlotAtInSlots, SlotAtInjective
      <4>3. Error[SlotAt(i + 1)].Signal /\ Error[SlotAt(i + 1)].ec # NoError
        BY <4>1 DEF ListInv, WaitingIsAnnounced
      <4>4. QED BY <4>2, <4>3, <3>1, <1>0
    <3>4. QED BY <3>2, <3>3
  <2>3. QED BY <2>1, <2>2, <1>1
<1>5. WaitingIsAnnounced'
  BY <1>3, <1>4 DEF WaitingIsAnnounced
<1>6. QED BY <1>2, <1>5 DEF ListInv

LEMMA PopKeepsListInv ==
  ASSUME ListInv, ecx_poperror
  PROVE  ListInv'
<1>. USE MaxElistAssumption
<1>1. head \in Slots /\ tail \in Slots /\ Count \in 0 .. EC_MAXELIST /\ (ecx_iserror <=> Count > 0)
  BY CountBounds DEF ListInv, TypeOK
<1>2. SlotAt(0) = tail
  BY <1>1 DEF SlotAt, Slots
<1>3. TypeOK'
  <2>1. ecx_iserror => Error[tail].ec \in Errors
    <3>1. ecx_iserror => Error[tail].ec # NoError
      BY <1>1, <1>2 DEF ListInv, WaitingIsAnnounced
    <3>2. QED BY <1>1, <3>1 DEF ListInv, TypeOK
  <2>2. popped' \in {<<>>} \cup {<<e>> : e \in Errors}
    BY <2>1 DEF ecx_poperror
  <2>3. head' \in Slots /\ tail' \in Slots
    BY <1>1, PopShape
  <2>4. ecaterror' \in BOOLEAN /\ pushes' \in 0 .. MaxPushes
    BY DEF ListInv, TypeOK, ecx_poperror
  <2>5. QED BY <2>2, <2>3, <2>4, PopShape DEF TypeOK
<1>4. ASSUME NEW i \in 0 .. Count' - 1
      PROVE  Error'[SlotAt(i)'].Signal /\ Error'[SlotAt(i)'].ec # NoError
  <2>1. Count > 0 /\ SlotAt(i)' = SlotAt(i + 1) /\ i + 1 \in 1 .. Count - 1
    BY <1>1, PopShape
  <2>2. SlotAt(i + 1) \in Slots /\ SlotAt(i + 1) # tail
    BY <2>1, <1>1, <1>2, SlotAtInSlots, SlotAtInjective
  <2>3. Error[SlotAt(i + 1)].Signal /\ Error[SlotAt(i + 1)].ec # NoError
    BY <2>1 DEF ListInv, WaitingIsAnnounced
  <2>4. QED BY <2>1, <2>2, <2>3, PopShape
<1>5. ecx_iserror' => ecaterror'
  BY <1>1 DEF ListInv, WaitingIsAnnounced, ecx_poperror, ecx_iserror
<1>6. QED BY <1>3, <1>4, <1>5 DEF ListInv, WaitingIsAnnounced

LEMMA StutterKeepsListInv == ListInv /\ UNCHANGED vars => ListInv'
BY DEF ListInv, TypeOK, WaitingIsAnnounced, vars, Slots, Count, SlotAt, ecx_iserror

\* Every reachable state is type-correct and announces what waits.
THEOREM ListInvHolds == Spec => []ListInv
<1>1. ListInv /\ [Next]_vars => ListInv'
  BY PushKeepsListInv, PopKeepsListInv, StutterKeepsListInv DEF Next
<1>2. QED BY InitListInv, <1>1, PTL DEF Spec

\* head, tail and the slots keep their types, whatever the order of pushes
\* and pops (ecx_pusherror, ecx_poperror).
THEOREM TypeCorrect == Spec => []TypeOK
BY ListInvHolds, PTL DEF ListInv

\* An error that waits keeps EcatError raised and its own slot intact.
THEOREM WaitingAnnounced == Spec => []WaitingIsAnnounced
BY ListInvHolds, PTL DEF ListInv

-----------------------------------------------------------------------------
\* What Queue is as a sequence.
QueueShape ==
  /\ Queue \in Seq(Errors)
  /\ Len(Queue) = Count
  /\ \A i \in 1 .. Count : Queue[i] = Error[SlotAt(i - 1)].ec

LEMMA QueueIsSeq == ListInv => QueueShape
<1>. SUFFICES ASSUME ListInv PROVE QueueShape
  OBVIOUS
<1>1. Count \in 0 .. EC_MAXELIST
  BY CountBounds DEF ListInv, TypeOK
<1>2. ASSUME NEW i \in 1 .. Count PROVE Error[SlotAt(i - 1)].ec \in Errors
  <2>1. i - 1 \in 0 .. Count - 1 /\ i - 1 \in 0 .. EC_MAXELIST
    BY <1>1, MaxElistAssumption
  <2>2. SlotAt(i - 1) \in Slots
    BY <2>1, SlotAtInSlots DEF ListInv, TypeOK
  <2>3. Error[SlotAt(i - 1)].ec # NoError
    BY <2>1 DEF ListInv, WaitingIsAnnounced
  <2>4. QED BY <2>2, <2>3 DEF ListInv, TypeOK
<1>3. QED BY <1>1, <1>2 DEF Queue, QueueShape

LEMMA QueueIsSeqNext == ListInv' => QueueShape'
BY QueueIsSeq, PTL

\* The list in sequence terms: what one push and one pop do to Queue.
LEMMA PushQueue ==
  ASSUME ListInv, NEW e \in Errors, ecx_pusherror(e)
  PROVE  Queue' = IF Len(Queue) < EC_MAXELIST THEN Append(Queue, e)
                  ELSE Append(Tail(Queue), e)
<1>. USE MaxElistAssumption
<1>1. /\ Error'[head] = [ec |-> e, Signal |-> TRUE]
      /\ \A s \in Slots : s # head => Error'[s] = Error[s]
      /\ Count < EC_MAXELIST => /\ Count' = Count + 1
                                /\ \A i \in 0 .. EC_MAXELIST : SlotAt(i)' = SlotAt(i)
      /\ Count = EC_MAXELIST => /\ Count' = Count
                                /\ \A i \in 0 .. EC_MAXELIST - 1 :
                                     SlotAt(i)' = SlotAt(i + 1)
  BY PushShape
<1>2. Count \in 0 .. EC_MAXELIST /\ SlotAt(Count) = head /\ tail \in Slots
  BY CountBounds DEF ListInv, TypeOK
<1>3. /\ Queue \in Seq(Errors) /\ Len(Queue) = Count
      /\ \A i \in 1 .. Count : Queue[i] = Error[SlotAt(i - 1)].ec
  BY QueueIsSeq DEF QueueShape
<1>4. /\ Queue' \in Seq(Errors) /\ Len(Queue') = Count'
      /\ \A i \in 1 .. Count' : Queue'[i] = Error'[SlotAt(i - 1)'].ec
  <2>1. ListInv' BY PushKeepsListInv
  <2>2. QED BY <2>1, QueueIsSeqNext DEF QueueShape
<1>5. ASSUME NEW i \in 0 .. EC_MAXELIST, i # Count
      PROVE  Error'[SlotAt(i)].ec = Error[SlotAt(i)].ec
  <2>1. SlotAt(i) \in Slots /\ SlotAt(i) # head
    BY <1>2, <1>5, SlotAtInSlots, SlotAtInjective
  <2>2. QED BY <2>1, <1>1
<1>6. CASE Count < EC_MAXELIST
  <2>. DEFINE Q == Append(Queue, e)
  <2>1. Q \in Seq(Errors) /\ Len(Q) = Count + 1
    BY <1>3
  <2>2. ASSUME NEW i \in 1 .. Count + 1 PROVE Queue'[i] = Q[i]
    <3>1. i - 1 \in 0 .. EC_MAXELIST /\ SlotAt(i - 1)' = SlotAt(i - 1)
      BY <1>1, <1>2, <1>6
    <3>2. CASE i = Count + 1
      BY <3>1, <3>2, <1>1, <1>2, <1>3, <1>4, <1>6
    <3>3. CASE i # Count + 1
      BY <3>1, <3>3, <1>1, <1>2, <1>3, <1>4, <1>5, <1>6
    <3>4. QED BY <3>2, <3>3
  <2>3. Queue' = Q
    BY <2>1, <2>2, <1>1, <1>2, <1>4, <1>6
  <2>4. QED BY <2>3, <1>3, <1>6
<1>7. CASE Count = EC_MAXELIST
  <2>. DEFINE T == Tail(Queue)
              Q == Append(T, e)
  <2>1. /\ T \in Seq(Errors) /\ Len(T) = Count - 1
        /\ \A i \in 1 .. Count - 1 : T[i] = Queue[i + 1]
    BY <1>3, <1>7
  <2>2. Q \in Seq(Errors) /\ Len(Q) = Count
    BY <2>1, <1>7
  <2>3. ASSUME NEW i \in 1 .. Count PROVE Queue'[i] = Q[i]
    <3>1. i - 1 \in 0 .. EC_MAXELIST - 1 /\ SlotAt(i - 1)' = SlotAt(i)
      BY <1>1, <1>7
    <3>2. CASE i = Count
      BY <3>1, <3>2, <1>1, <1>2, <1>4, <2>1, <1>7
    <3>3. CASE i # Count
      <4>1. Queue'[i] = Error[SlotAt(i)].ec
        <5>1. i \in 0 .. EC_MAXELIST /\ i # Count
          BY <3>3, <1>7
        <5>2. Error'[SlotAt(i)].ec = Error[SlotAt(i)].ec
          BY <5>1, <1>5
        <5>3. Queue'[i] = Error'[SlotAt(i - 1)'].ec
          BY <1>1, <1>4, <1>7
        <5>4. QED BY <5>2, <5>3, <3>1
      <4>2. Q[i] = T[i]
        BY <3>3, <2>1, <1>7
      <4>3. i + 1 \in 1 .. Count /\ (i + 1) - 1 = i
        BY <3>3, <1>7
      <4>4. QED BY <4>1, <4>2, <4>3, <3>3, <2>1, <1>3
    <3>4. QED BY <3>2, <3>3
  <2>4. Queue' = Q
    BY <2>2, <2>3, <1>1, <1>4, <1>7
  <2>5. QED BY <2>4, <1>3, <1>7
<1>8. QED BY <1>2, <1>6, <1>7

LEMMA PopQueue ==
  ASSUME ListInv, ecx_poperror
  PROVE  /\ Queue # <<>> <=> ecx_iserror
         /\ ecx_iserror => Queue' = Tail(Queue) /\ Error[tail].ec = Head(Queue)
         /\ ~ecx_iserror => Queue' = Queue
<1>. USE MaxElistAssumption
<1>1. Count \in 0 .. EC_MAXELIST /\ (ecx_iserror <=> Count > 0) /\ tail \in Slots
  BY CountBounds DEF ListInv, TypeOK
<1>2. /\ Queue \in Seq(Errors) /\ Len(Queue) = Count
      /\ \A i \in 1 .. Count : Queue[i] = Error[SlotAt(i - 1)].ec
  BY QueueIsSeq DEF QueueShape
<1>3. /\ Queue' \in Seq(Errors) /\ Len(Queue') = Count'
      /\ \A i \in 1 .. Count' : Queue'[i] = Error'[SlotAt(i - 1)'].ec
  <2>1. ListInv' BY PopKeepsListInv
  <2>2. QED BY <2>1, QueueIsSeqNext DEF QueueShape
<1>4. Queue # <<>> <=> ecx_iserror
  BY <1>1, <1>2
<1>5. ASSUME ecx_iserror PROVE Queue' = Tail(Queue) /\ Error[tail].ec = Head(Queue)
  <2>1. Count > 0 /\ Count' = Count - 1
    BY <1>1, <1>5, PopShape
  <2>2. SlotAt(0) = tail
    BY <1>1 DEF SlotAt, Slots
  <2>3. Tail(Queue) \in Seq(Errors) /\ Len(Tail(Queue)) = Count - 1
        /\ \A i \in 1 .. Count - 1 : Tail(Queue)[i] = Queue[i + 1]
    BY <1>2, <1>1, <2>1
  <2>4. ASSUME NEW i \in 1 .. Count - 1 PROVE Queue'[i] = Tail(Queue)[i]
    <3>1. /\ SlotAt(i - 1)' = SlotAt(i)
          /\ i \in 0 .. EC_MAXELIST /\ i + 1 \in 1 .. Count /\ (i + 1) - 1 = i
      <4>1. i - 1 \in 0 .. EC_MAXELIST - 1 /\ (i - 1) + 1 = i
        BY <1>1
      <4>2. QED BY <4>1, <1>1, <2>1, PopShape
    <3>2. SlotAt(i) \in Slots
      BY <3>1, <1>1, SlotAtInSlots
    <3>3. Error'[SlotAt(i)].ec = Error[SlotAt(i)].ec
      BY <3>2, PopShape
    <3>4. QED BY <3>1, <3>3, <2>1, <2>3, <1>2, <1>3
  <2>5. Queue' = Tail(Queue)
    BY <2>1, <2>3, <2>4, <1>1, <1>3
  <2>6. Error[tail].ec = Head(Queue)
    BY <2>1, <2>2, <1>1, <1>2
  <2>7. QED BY <2>5, <2>6
<1>6. ASSUME ~ecx_iserror PROVE Queue' = Queue
  BY <1>1, <1>2, <1>3, <1>6, PopShape
<1>7. QED BY <1>4, <1>5, <1>6

\* The ring implements the bounded FIFO that keeps the EC_MAXELIST most recent
\* errors (ecx_pusherror, ecx_poperror against ErrorFifo).
THEOREM RingImplementsFifo == Spec => RingIsFifo
<1>1. Init => Fifo!Init
  <2>1. Init => Count = 0
    BY MaxElistAssumption DEF Init, Count
  <2>2. Init => Queue = <<>>
    BY <2>1 DEF Queue
  <2>3. QED BY <2>2 DEF Init, Fifo!Init
<1>2. ASSUME ListInv, [Next]_vars
      PROVE  [Fifo!Next]_<<Queue, ecaterror, popped>>
  <2>1. ASSUME NEW e \in Errors, ecx_pusherror(e) PROVE Fifo!Push(e)
    <3>1. ecaterror' = TRUE /\ popped' = popped
      BY <2>1 DEF ecx_pusherror
    <3>2. Queue' = IF Len(Queue) < EC_MAXELIST THEN Append(Queue, e)
                   ELSE Append(Tail(Queue), e)
      BY <1>2, <2>1, PushQueue
    <3>3. QED BY <3>1, <3>2 DEF Fifo!Push
  <2>2. ASSUME ecx_poperror PROVE Fifo!PopOldest \/ Fifo!PopNothing
    <3>1. CASE ecx_iserror
      <4>1. tail' = Step(tail) /\ popped' = <<Error[tail].ec>> /\ ecaterror' = ecaterror
        BY <2>2, <3>1 DEF ecx_poperror
      <4>2. QED BY <1>2, <2>2, <3>1, <4>1, PopQueue DEF Fifo!PopOldest
    <3>2. CASE ~ecx_iserror
      <4>1. popped' = <<>> /\ ecaterror' = FALSE
        BY <2>2, <3>2 DEF ecx_poperror
      <4>2. QED BY <1>2, <2>2, <3>2, <4>1, PopQueue DEF Fifo!PopNothing
    <3>3. QED BY <3>1, <3>2
  <2>3. CASE UNCHANGED vars
    BY <2>3 DEF vars, Queue, Count, SlotAt
  <2>4. QED BY <1>2, <2>1, <2>2, <2>3 DEF Next, Fifo!Next
<1>3. QED BY <1>1, <1>2, ListInvHolds, PTL DEF Spec, RingIsFifo, Fifo!Spec
=============================================================================
