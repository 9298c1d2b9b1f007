------------------------ MODULE OverrideQueue_proofs ------------------------
(* Theorems about the override ring, for every size and command set.       *)
EXTENDS OverrideQueue, SequenceTheorems, TLAPS

LEMMA SuccessorInRange == \A i \in Index : Successor(i) \in Index
  BY SizeAssumption DEF Successor, Index

LEMMA TypeStep == ASSUME TypeOK, [Next]_vars PROVE TypeOK'
<1> USE SizeAssumption, CmdsAssumption, SuccessorInRange
     DEF TypeOK, Index, Data, ring, producer, consumer, ProducerDone, ConsumerDone
<1>1. ASSUME NEW c \in Cmds, EnqueueBegin(c) PROVE TypeOK'
  BY <1>1 DEF EnqueueBegin
<1>2. CASE EnqueueTest
  BY <1>2 DEF EnqueueTest
<1>3. CASE EnqueueStore
  BY <1>3 DEF EnqueueStore
<1>4. CASE EnqueuePublish
  BY <1>4 DEF EnqueuePublish
<1>5. CASE GetTest
  BY <1>5 DEF GetTest
<1>6. CASE GetRead
  BY <1>6 DEF GetRead
<1>7. CASE GetRelease
  BY <1>7 DEF GetRelease
<1>8. CASE FlushTail
  BY <1>8 DEF FlushTail
<1>9. CASE FlushHead
  BY <1>9 DEF FlushHead
<1>10. CASE UNCHANGED vars
  BY <1>10 DEF vars
<1> QED
  BY <1>1, <1>2, <1>3, <1>4, <1>5, <1>6, <1>7, <1>8, <1>9, <1>10 DEF Next

\* Every index stays inside the ring and every local keeps its type: no
\* enqueue, get or flush of override.c reads or writes outside buf.
THEOREM TypeCorrect == Spec => []TypeOK
<1>1. Init => TypeOK
  BY SizeAssumption DEF Init, TypeOK, Index, Data
<1>2. TypeOK /\ [Next]_vars => TypeOK'
  BY TypeStep
<1> QED
  BY <1>1, <1>2, PTL DEF Spec

-----------------------------------------------------------------------------
(* The ring of one core is a FIFO.                                         *)

\* The consumer keeps its place, and only tests of the tail are taken back.
ConsumerOK ==
    /\ mpc \in {"read", "release"} => bptr = tail /\ head # tail
    /\ mpc = "release" => data = buf[tail]
    /\ mpc = "flush" => tail = 0

\* The producer found a free slot, which stays free until it is published.
ProducerOK ==
    /\ ppc # "idle" => next = Successor(head) /\ cmd \in Cmds
    /\ ppc \in {"store", "publish"} => next # tail
    /\ ppc = "publish" => buf[head] = cmd

RingOK == TypeOK /\ ConsumerOK /\ ProducerOK

\* The inductive invariant of the ring of one core.
LEMMA RingInvariance == ASSUME ~CrossCore PROVE Spec => []RingOK
<1>1. Init => RingOK
  BY SizeAssumption DEF Init, RingOK, TypeOK, ConsumerOK, ProducerOK, Index, Data
<1>2. RingOK /\ [Next]_vars => RingOK'
  <2> SUFFICES ASSUME RingOK, [Next]_vars PROVE ConsumerOK' /\ ProducerOK'
    BY TypeStep DEF RingOK
  <2> USE SizeAssumption, CmdsAssumption, SuccessorInRange
       DEF RingOK, TypeOK, Index, ring, producer, consumer, ProducerDone, ConsumerDone,
           ConsumerOK, ProducerOK, MainRuns
  <2>1. ASSUME NEW c \in Cmds, EnqueueBegin(c) PROVE ConsumerOK' /\ ProducerOK'
    BY <2>1 DEF EnqueueBegin, Successor
  <2>2. CASE EnqueueTest
    BY <2>2 DEF EnqueueTest, Successor
  <2>3. CASE EnqueueStore
    BY <2>3 DEF EnqueueStore, Successor
  <2>4. CASE EnqueuePublish
    BY <2>4 DEF EnqueuePublish
  <2>5. CASE GetTest
    BY <2>5 DEF GetTest
  <2>6. CASE GetRead
    BY <2>6 DEF GetRead
  <2>7. CASE GetRelease
    BY <2>7 DEF GetRelease
  <2>8. CASE FlushTail
    BY <2>8 DEF FlushTail
  <2>9. CASE FlushHead
    BY <2>9 DEF FlushHead
  <2>10. CASE UNCHANGED vars
    BY <2>10 DEF vars, Successor
  <2> QED
    BY <2>1, <2>2, <2>3, <2>4, <2>5, <2>6, <2>7, <2>8, <2>9, <2>10 DEF Next
<1> QED
  BY <1>1, <1>2, PTL DEF Spec

\* The slots in use are in the ring and apart from each other and from head,
\* and one of them is free.
LEMMA SlotsInUse ==
  ASSUME TypeOK
  PROVE  /\ Held \in 0..(Size - 1)
         /\ \A i \in 1..Held : Slot(i) \in Index \ {head}
         /\ Held = 0 <=> head = tail
  BY SizeAssumption DEF TypeOK, Held, Slot, Index

LEMMA ContentsType == ASSUME TypeOK PROVE Contents \in Seq(Data)
<1>1. \A i \in 1..Held : buf[Slot(i)] \in Data
  BY SlotsInUse DEF TypeOK
<1> QED BY <1>1, SlotsInUse DEF Contents

\* A store changes the slot at head, which holds nothing.
LEMMA StoreIsHidden ==
  ASSUME TypeOK, EnqueueStore PROVE Contents' = Contents
<1>1. Held' = Held /\ \A i : Slot(i)' = Slot(i)
  BY DEF EnqueueStore, Held, Slot, consumer
<1>2. \A i \in 1..Held : buf'[Slot(i)] = buf[Slot(i)]
  BY SlotsInUse DEF EnqueueStore, TypeOK
<1>3. mpc' = mpc
  BY DEF EnqueueStore, consumer
<1> QED BY <1>1, <1>2, <1>3 DEF Contents

\* Publishing appends the command that was stored.
LEMMA PublishAppends ==
  ASSUME RingOK, EnqueuePublish, mpc # "flush"
  PROVE  Len(Contents) < Size - 1 /\ Contents' = Append(Contents, cmd)
<1> USE SizeAssumption DEF RingOK, TypeOK, EnqueuePublish, consumer, Index
<1>1. Held' = Held + 1 /\ Held' < Size
  BY DEF ProducerOK, Held, Successor
<1>2. \A i : Slot(i)' = Slot(i)
  BY DEF Slot
<1>3. Slot(Held + 1) = head
  BY DEF Slot, Held
<1>4. Contents \in Seq(Data) /\ Len(Contents) = Held /\ mpc' # "flush"
  BY ContentsType, SlotsInUse DEF Contents
<1>5. Contents = [i \in 1..Held |-> buf[Slot(i)]] /\ Contents' = [i \in 1..(Held + 1) |-> buf[Slot(i)]]
  BY <1>1, <1>2, <1>4 DEF Contents
<1>6. buf[Slot(Held + 1)] = cmd
  BY <1>3 DEF ProducerOK
<1>7. \A i \in 1..(Held + 1) : buf[Slot(i)] = IF i = Held + 1 THEN cmd ELSE Contents[i]
  BY <1>5, <1>6, SlotsInUse
<1>8. /\ Append(Contents, cmd) \in Seq(Data)
      /\ Len(Append(Contents, cmd)) = Held + 1
      /\ \A i \in 1..(Held + 1) : Append(Contents, cmd)[i] = buf[Slot(i)]
  <2>1. cmd \in Data /\ Held \in Nat
    BY SlotsInUse
  <2> HIDE DEF RingOK, TypeOK
  <2>2. /\ Append(Contents, cmd) \in Seq(Data)
        /\ Len(Append(Contents, cmd)) = Held + 1
        /\ \A i \in 1..Held : Append(Contents, cmd)[i] = Contents[i]
        /\ Append(Contents, cmd)[Held + 1] = cmd
    BY <1>4, <2>1, AppendProperties
  <2> QED BY <1>7, <2>1, <2>2
<1>9. /\ Contents' \in Seq(Data)
      /\ Len(Contents') = Held + 1
      /\ \A i \in 1..(Held + 1) : Contents'[i] = buf[Slot(i)]
  BY <1>1, <1>5, <1>7, SlotsInUse
<1>10. Contents' = Append(Contents, cmd)
  BY <1>8, <1>9, SeqEqual
<1> QED BY <1>1, <1>4, <1>10

\* Releasing a slot takes the oldest command.
LEMMA ReleaseTakes ==
  ASSUME RingOK, GetRelease
  PROVE  Contents # <<>> /\ data = Head(Contents) /\ Contents' = Tail(Contents)
<1> USE SizeAssumption DEF RingOK, TypeOK, GetRelease, ConsumerOK, ConsumerDone, Index
<1>1. Held > 0 /\ Held' = Held - 1
  BY DEF Held, Successor
<1>2. \A i \in 1..(Held - 1) : Slot(i)' = Slot(i + 1)
  BY SlotsInUse DEF Slot, Successor
<1>3. Slot(1) = tail
  BY DEF Slot
<1>4. Contents = [i \in 1..Held |-> buf[Slot(i)]] /\ Contents \in Seq(Data) /\ Len(Contents) = Held
  BY ContentsType, SlotsInUse DEF Contents
<1>5. Contents' = [i \in 1..(Held - 1) |-> buf[Slot(i + 1)]]
  BY <1>1, <1>2 DEF Contents
<1>6. /\ Contents' \in Seq(Data)
      /\ Len(Contents') = Held - 1
      /\ \A i \in 1..(Held - 1) : Contents'[i] = Contents[i + 1]
  <2>1. \A i \in 1..(Held - 1) : i + 1 \in 1..Held /\ buf[Slot(i + 1)] = Contents[i + 1]
    BY <1>4, SlotsInUse
  <2>2. \A i \in 1..(Held - 1) : buf[Slot(i + 1)] \in Data
    BY <2>1, SlotsInUse
  <2>3. Held - 1 \in Nat
    BY <1>1, SlotsInUse
  <2> HIDE DEF RingOK, TypeOK, GetRelease
  <2>4. Contents' \in Seq(Data) /\ Len(Contents') = Held - 1
    BY <1>5, <2>2, <2>3
  <2> QED BY <1>5, <2>1, <2>4
<1>7. Contents # <<>>
  BY <1>1, <1>4
<1>8. Head(Contents) = buf[tail]
  BY <1>1, <1>3, <1>4, SlotsInUse
<1>9. /\ Tail(Contents) \in Seq(Data)
      /\ Len(Tail(Contents)) = Held - 1
      /\ \A i \in 1..(Held - 1) : Tail(Contents)[i] = Contents[i + 1]
  BY <1>4, <1>7, HeadTailProperties
<1>10. Contents' = Tail(Contents)
  BY <1>6, <1>9, SeqEqual
<1> QED BY <1>7, <1>8, <1>10

LEMMA NothingHeld == ASSUME TypeOK, head = tail PROVE Contents = <<>>
<1>1. Held = 0
  BY SlotsInUse
<1> QED BY <1>1 DEF Contents

\* Steps that leave the ring alone.
LEMMA RingAlone ==
  ASSUME head' = head, tail' = tail, buf' = buf, (mpc = "flush") <=> (mpc' = "flush")
  PROVE  Contents' = Contents
<1>1. Held' = Held /\ \A i : Slot(i)' = Slot(i)
  BY DEF Held, Slot
<1> QED BY <1>1 DEF Contents

\* With the interrupt of the consumer's core as producer, the three load/store
\* sequences of override.c are one bounded FIFO: in order, none twice, none
\* overwritten while it is read, none back after a flush.
THEOREM QueueIsFifo == ASSUME ~CrossCore PROVE Spec => ImplementsFifo
<1>1. Init => Fifo!FifoInit
  <2>1. Init => TypeOK /\ head = tail /\ result = 0
    BY SizeAssumption DEF Init, TypeOK, Index, Data
  <2> QED BY <2>1, NothingHeld DEF Fifo!FifoInit
<1>2. RingOK /\ RingOK' /\ [Next]_vars => [Fifo!FifoNext]_(Fifo!fvars)
  <2> SUFFICES ASSUME RingOK, RingOK', [Next]_vars PROVE [Fifo!FifoNext]_(Fifo!fvars)
    OBVIOUS
  <2> USE DEF Fifo!FifoNext, Fifo!fvars, ring, producer, consumer
  <2>1. ASSUME NEW c \in Cmds, EnqueueBegin(c) PROVE UNCHANGED Fifo!fvars
    BY <2>1, RingAlone DEF EnqueueBegin
  <2>2. CASE EnqueueTest
    BY <2>2, RingAlone DEF EnqueueTest
  <2>3. CASE EnqueueStore
    <3>1. UNCHANGED result
      BY <2>3 DEF EnqueueStore
    <3> QED BY <2>3, <3>1, StoreIsHidden DEF RingOK
  <2>4. CASE EnqueuePublish
    <3>1. UNCHANGED result /\ UNCHANGED mpc /\ cmd \in Cmds
      BY <2>4 DEF EnqueuePublish, RingOK, ProducerOK
    <3>2. CASE mpc = "flush"
      BY <3>1, <3>2 DEF Contents
    <3>3. CASE mpc # "flush"
      BY <2>4, <3>1, <3>3, PublishAppends DEF Fifo!Accept
    <3> QED BY <3>2, <3>3
  <2>5. CASE GetTest
    <3>1. CASE tail = head
      <4>1. Contents = <<>> /\ result' = 0
        BY <2>5, <3>1, NothingHeld DEF RingOK, GetTest
      <4>2. Contents' = Contents
        BY <2>5, RingAlone DEF GetTest
      <4> QED BY <4>1, <4>2 DEF Fifo!TakeNothing
    <3>2. CASE tail # head
      BY <2>5, <3>2, RingAlone DEF GetTest
    <3> QED BY <3>1, <3>2
  <2>6. CASE GetRead
    BY <2>6, RingAlone DEF GetRead
  <2>7. CASE GetRelease
    <3>1. result' = data
      BY <2>7 DEF GetRelease
    <3> QED BY <2>7, <3>1, ReleaseTakes DEF Fifo!Take
  <2>8. CASE FlushTail
    BY <2>8 DEF FlushTail, Contents, Fifo!Forget
  <2>9. CASE FlushHead
    <3>1. head' = tail' /\ UNCHANGED result
      BY <2>9 DEF FlushHead, RingOK, ConsumerOK
    <3>2. Held' = 0 /\ mpc' # "flush"
      BY <2>9, <3>1 DEF FlushHead, ConsumerDone, Held, RingOK, TypeOK, Index
    <3>3. Contents' = <<>>
      BY <3>2 DEF Contents
    <3> QED BY <3>1, <3>3 DEF Fifo!Forget
  <2>10. CASE UNCHANGED vars
    BY <2>10, RingAlone DEF vars
  <2> QED
    BY <2>1, <2>2, <2>3, <2>4, <2>5, <2>6, <2>7, <2>8, <2>9, <2>10 DEF Next
<1> HIDE DEF RingOK
<1> QED BY <1>1, <1>2, RingInvariance, PTL DEF Spec, ImplementsFifo, Fifo!FifoSpec
=============================================================================
