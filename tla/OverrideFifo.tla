---------------------------- MODULE OverrideFifo ----------------------------
(***************************************************************************)
(* What an override ring of override.c promises its users: a bounded FIFO. *)
(* A realtime command character is appended or dropped, the main loop      *)
(* takes the oldest one or 0, and a flush forgets everything accepted      *)
(* before it.                                                              *)
(***************************************************************************)
EXTENDS Naturals, Sequences

CONSTANTS Cmds,       \* the override command characters, all nonzero
          Capacity    \* how many commands the queue holds

VARIABLES fifo,       \* the commands accepted and not yet taken
          taken       \* what the last get_*_override() returned

fvars == <<fifo, taken>>

FifoInit == fifo = <<>> /\ taken = 0

Accept(c) == /\ Len(fifo) < Capacity
             /\ fifo' = Append(fifo, c)
             /\ UNCHANGED taken

Take == /\ fifo # <<>>
        /\ taken' = Head(fifo)
        /\ fifo' = Tail(fifo)

TakeNothing == /\ fifo = <<>>
               /\ taken' = 0
               /\ UNCHANGED fifo

Forget == fifo' = <<>> /\ UNCHANGED taken

FifoNext == \/ \E c \in Cmds : Accept(c)
            \/ Take
            \/ TakeNothing
            \/ Forget

FifoSpec == FifoInit /\ [][FifoNext]_fvars
=============================================================================
