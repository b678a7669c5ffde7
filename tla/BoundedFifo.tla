---------------------------- MODULE BoundedFifo ----------------------------
(***************************************************************************)
(* What a queue of queue/queue.c promises its callers: "a common queue,    *)
(* which means first in first out" (queue.h) of Cap messages.  An          *)
(* operation of a task begins, and takes effect at most once, at a single  *)
(* instant; an operation that has not taken effect reports -1.             *)
(***************************************************************************)
EXTENDS Integers, Sequences

CONSTANTS Tasks, Data, Cap, NoData

VARIABLES
    alive,  \* the queue exists
    q,      \* the messages cached, oldest first
    arg,    \* arg[t]: what t's operation pushes, NoData if it pops
    ret,    \* ret[t]: 0 once t's operation took effect, -1 before that
    got     \* got[t]: what t's pop handed over, NoData until it did

fifoVars == <<alive, q, arg, ret, got>>

FifoInit ==
    /\ alive = FALSE
    /\ q = << >>
    /\ arg = [t \in Tasks |-> NoData]
    /\ ret = [t \in Tasks |-> -1]
    /\ got = [t \in Tasks |-> NoData]

Create ==
    /\ ~alive
    /\ alive' = TRUE
    /\ UNCHANGED <<q, arg, ret, got>>

\* Deleting the queue drops whatever it holds.
Delete ==
    /\ alive
    /\ alive' = FALSE
    /\ q' = << >>
    /\ UNCHANGED <<arg, ret, got>>

Begin(t, d) ==
    /\ alive
    /\ arg' = [arg EXCEPT ![t] = d]
    /\ ret' = [ret EXCEPT ![t] = -1]
    /\ got' = [got EXCEPT ![t] = NoData]
    /\ UNCHANGED <<alive, q>>

Push(t) ==
    /\ alive /\ ret[t] = -1 /\ arg[t] # NoData
    /\ Len(q) < Cap
    /\ q' = Append(q, arg[t])
    /\ ret' = [ret EXCEPT ![t] = 0]
    /\ UNCHANGED <<alive, arg, got>>

Pop(t) ==
    /\ alive /\ ret[t] = -1 /\ arg[t] = NoData
    /\ q # << >>
    /\ got' = [got EXCEPT ![t] = Head(q)]
    /\ q' = Tail(q)
    /\ ret' = [ret EXCEPT ![t] = 0]
    /\ UNCHANGED <<alive, arg>>

FifoNext ==
    \/ Create
    \/ Delete
    \/ \E t \in Tasks : \/ \E d \in Data \cup {NoData} : Begin(t, d)
                        \/ Push(t)
                        \/ Pop(t)

FifoSpec == FifoInit /\ [][FifoNext]_fifoVars
=============================================================================
