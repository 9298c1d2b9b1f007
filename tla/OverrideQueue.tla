--------------------------- MODULE OverrideQueue ----------------------------
(***************************************************************************)
(* override.c: a ring that carries override characters from the input      *)
(* streams to protocol_exec_rt_system().  The code has three of them, for  *)
(* feed, spindle and coolant, with the same text and no common state; this *)
(* module is one of them.                                                  *)
(*                                                                         *)
(* The producer is whoever received the character: the UART interrupt,     *)
(* which preempts the main loop on the same core (CrossCore = FALSE), or   *)
(* the lwIP thread of a telnet or websocket session, which runs on the     *)
(* other core at the same time (CrossCore = TRUE).  The consumer is the    *)
(* main loop, which takes commands and, on a stop or a reset, flushes.     *)
(* Every load and store of a ring index is a step of its own.              *)
(***************************************************************************)
EXTENDS Naturals, Sequences

CONSTANTS Cmds,        \* the command characters
          Size,        \* OVERRIDE_BUFSIZE
          CrossCore    \* does the producer run on the other core?

ASSUME SizeAssumption == Size \in Nat /\ Size >= 2
ASSUME CmdsAssumption == Cmds \subseteq Nat \ {0}
ASSUME CoreAssumption == CrossCore \in BOOLEAN

Index == 0..(Size - 1)
Data == Cmds \cup {0}

VARIABLES head, tail, buf,   \* override_queue_t
          ppc, cmd, next,    \* the producer: step, its argument and its bptr
          mpc, bptr, data,   \* the consumer: step and the locals of get_*_override
          result,            \* what the last get_*_override() returned
          fresh              \* history: published since the last flush, not taken

ring == <<head, tail, buf>>
producer == <<ppc, cmd, next>>
consumer == <<mpc, bptr, data, result>>
vars == <<ring, producer, consumer, fresh>>

\* Mutant of Successor: the mask is forgotten.
SuccessorUnmasked(i) == i + 1

\* (i + 1) & (OVERRIDE_BUFSIZE - 1)
Successor(i) == IF i = Size - 1 THEN 0 ELSE i + 1

Init == /\ head = 0
        /\ tail = 0
        /\ buf = [i \in Index |-> 0]
        /\ ppc = "idle" /\ cmd = 0 /\ next = 0
        /\ mpc = "idle" /\ bptr = 0 /\ data = 0
        /\ result = 0
        /\ fresh = 0

-----------------------------------------------------------------------------
(* The producer: enqueue_feed_override and its two twins.                  *)

ProducerDone == ppc' = "idle" /\ cmd' = 0 /\ next' = 0

\* bptr = (head + 1) & (OVERRIDE_BUFSIZE - 1)
EnqueueBegin(c) ==
    /\ ppc = "idle"
    /\ ppc' = "test"
    /\ cmd' = c
    /\ next' = Successor(head)
    /\ UNCHANGED <<ring, consumer, fresh>>

\* Mutant of EnqueueTest: a full ring accepts one command too many.
EnqueueAlways ==
    /\ ppc = "test"
    /\ ppc' = "store"
    /\ UNCHANGED <<cmd, next, ring, consumer, fresh>>

\* if(bptr != tail): the command is dropped when the ring is full
EnqueueTest ==
    /\ ppc = "test"
    /\ \/ next # tail /\ ppc' = "store" /\ UNCHANGED <<cmd, next>>
       \/ next = tail /\ ProducerDone
    /\ UNCHANGED <<ring, consumer, fresh>>

\* buf[head] = cmd, where head is read again
EnqueueStore ==
    /\ ppc = "store"
    /\ buf' = [buf EXCEPT ![head] = cmd]
    /\ ppc' = "publish"
    /\ UNCHANGED <<head, tail, cmd, next, consumer, fresh>>

\* head = bptr
EnqueuePublish ==
    /\ ppc = "publish"
    /\ head' = next
    /\ ProducerDone
    /\ fresh' = IF fresh < Size THEN fresh + 1 ELSE fresh
    /\ UNCHANGED <<tail, buf, consumer>>

-----------------------------------------------------------------------------
(* The consumer.  On one core it only runs while no interrupt does.        *)

MainRuns == CrossCore \/ ppc = "idle"

ConsumerDone == mpc' = "idle" /\ bptr' = 0 /\ data' = 0

\* bptr = tail; if(bptr != head)
GetTest ==
    /\ MainRuns
    /\ mpc = "idle"
    /\ \/ tail # head /\ mpc' = "read" /\ bptr' = tail /\ UNCHANGED <<data, result>>
       \/ tail = head /\ result' = 0 /\ UNCHANGED <<mpc, bptr, data>>
    /\ UNCHANGED <<ring, producer, fresh>>

\* data = buf[bptr++]
GetRead ==
    /\ MainRuns
    /\ mpc = "read"
    /\ mpc' = "release"
    /\ data' = buf[bptr]
    /\ UNCHANGED <<bptr, result, ring, producer, fresh>>

\* tail = bptr & (OVERRIDE_BUFSIZE - 1); return data
GetRelease ==
    /\ MainRuns
    /\ mpc = "release"
    /\ tail' = Successor(bptr)
    /\ result' = data
    /\ ConsumerDone
    /\ fresh' = IF fresh > 0 THEN fresh - 1 ELSE 0
    /\ UNCHANGED <<head, buf, producer>>

\* flush_override_buffers: the assignments associate to the right, so the
\* tail of a ring is cleared before its head.
FlushTail ==
    /\ MainRuns
    /\ mpc = "idle"
    /\ tail' = 0
    /\ mpc' = "flush"
    /\ UNCHANGED <<head, buf, bptr, data, result, producer, fresh>>

FlushHead ==
    /\ MainRuns
    /\ mpc = "flush"
    /\ head' = 0
    /\ ConsumerDone
    /\ fresh' = 0
    /\ UNCHANGED <<tail, buf, result, producer>>

Next == \/ \E c \in Cmds : EnqueueBegin(c)
        \/ EnqueueTest
        \/ EnqueueStore
        \/ EnqueuePublish
        \/ GetTest
        \/ GetRead
        \/ GetRelease
        \/ FlushTail
        \/ FlushHead

Spec == Init /\ [][Next]_vars

-----------------------------------------------------------------------------
(* Properties.                                                             *)

\* Shape of the ring and of the locals of both sides: no load or store of
\* override.c is outside buf.
TypeOK ==
    /\ head \in Index
    /\ tail \in Index
    /\ buf \in [Index -> Data]
    /\ ppc \in {"idle", "test", "store", "publish"} /\ cmd \in Data /\ next \in Index
    /\ mpc \in {"idle", "read", "release", "flush"} /\ bptr \in Index /\ data \in Data
    /\ result \in Data
    /\ fresh \in 0..Size

\* How many commands the ring holds, and where the i-th oldest of them is.
Held == IF head >= tail THEN head - tail ELSE head + Size - tail
Slot(i) == IF tail + i - 1 < Size THEN tail + i - 1 ELSE tail + i - 1 - Size

\* What the ring holds; nothing between the two stores that flush it.
Contents == IF mpc = "flush" THEN <<>>
            ELSE [i \in 1..Held |-> buf[Slot(i)]]

Fifo == INSTANCE OverrideFifo WITH
            fifo <- Contents, taken <- result, Capacity <- Size - 1

\* With an interrupt of the consumer's core as producer, enqueue, get and
\* flush behave as a bounded FIFO: commands come out in the order they came
\* in, none twice, none overwritten while it is being read, and none that
\* was accepted before a flush after it.
ImplementsFifo == Fifo!FifoSpec

\* "Returns 0 if no commands enqueued" (get_*_override): the consumer finds
\* a command only if one was published after the last flush.
ReturnsOnlyEnqueued == mpc \in {"read", "release"} => fresh > 0
=============================================================================
