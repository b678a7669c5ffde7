----------------------------- MODULE LinkQueue -----------------------------
(***************************************************************************)
(* The message queue of queue/queue.c, used by several tasks: a circular   *)
(* buffer guarded by a mutex, with one counting semaphore for the messages *)
(* to read (sync_read) and one for the free slots (sync_write).            *)
(*                                                                         *)
(* A task's operation is split at every kernel call and, inside the raw    *)
(* operation, between the access of the slot and the update of the         *)
(* indices, so that only the mutex keeps two operations apart.  A queue    *)
(* made with syncmode 0 has neither semaphores nor mutex: its callers      *)
(* synchronise themselves (queue.h), so an operation starts only when no   *)
(* other is under way.                                                     *)
(*                                                                         *)
(* Definitions named M_... are deliberate faults, one plausible slip each, *)
(* that the runs' properties are shown to detect; the specification uses   *)
(* none of them.                                                           *)
(***************************************************************************)
EXTENDS Integers, Sequences, FiniteSets

CONSTANTS
    Tasks,        \* the tasks that share the queue
    Data,         \* the messages (non-NULL pointers)
    NULL,         \* the null pointer, and what an unwritten slot holds
    NoTask,       \* the owner of a free mutex
    BufLen        \* len of queue_create

ASSUME TasksAssumption == IsFiniteSet(Tasks) /\ NoTask \notin Tasks
ASSUME DataAssumption == NULL \notin Data
ASSUME BufLenAssumption == BufLen \in Nat \ {0}

VARIABLES
    held,        \* the memory and kernel objects allocated
    sync_mode,   \* queue->sync_mode
    msg_buf,     \* queue->msg_buf
    cur_write,   \* queue->cur_write
    cur_read,    \* queue->cur_read
    msg_num,     \* queue->msg_num
    sync_read,   \* count of the semaphore queue->sync_read
    sync_write,  \* count of the semaphore queue->sync_write
    lock,        \* owner of the mutex queue->lock
    pc,          \* pc[t]: where t is in queue_push or queue_pop
    arg,         \* arg[t]: the parameter data of t's push, NULL for a pop
    buf,         \* buf[t]: *buf of t's pop
    ret,         \* ret[t]: the local ret of t's last operation
    lock_failed  \* 1 when osal_mutex_lock has failed since queue_create

fields == <<sync_mode, msg_buf, cur_write, cur_read, msg_num>>
kernel == <<sync_read, sync_write, lock>>
locals == <<pc, arg, buf, ret>>
vars == <<held, fields, kernel, locals, lock_failed>>

Slots == 0 .. BufLen - 1

PushLocs == {"push_pend", "push_lock", "push_store", "push_adv",
             "push_unlock", "push_post"}
PopLocs == {"pop_pend", "pop_lock", "pop_load", "pop_adv",
            "pop_unlock", "pop_post"}

Exists == "mem" \in held
AllIdle == \A t \in Tasks : pc[t] = "idle"

-----------------------------------------------------------------------------
\* queue_create.  Its allocations in order; the one at `stop` fails (or
\* "none" does), and the goto chain gives back what was acquired before it.
Wanted(sync) == IF sync = 0 THEN {"mem"}
                ELSE {"mem", "sync_read", "sync_write", "lock"}

Acquired(stop) ==
    CASE stop = "mem" -> {}
      [] stop = "sync_read" -> {"mem"}
      [] stop = "sync_write" -> {"mem", "sync_read"}
      [] stop = "lock" -> {"mem", "sync_read", "sync_write"}

\* EXIT_LOCK falls through to EXIT_SYNCWRITE, EXIT_SYNCREAD and EXIT_MEM.
M_CleanupSkipsRead(stop) ==
    (IF stop = "lock" THEN {"sync_write"} ELSE {})
        \cup (IF stop # "mem" THEN {"mem"} ELSE {})

CleanedUp(stop) ==
    (IF stop = "lock" THEN {"sync_write"} ELSE {})
        \cup (IF stop \in {"lock", "sync_write"} THEN {"sync_read"} ELSE {})
        \cup (IF stop # "mem" THEN {"mem"} ELSE {})

\* The header is zeroed, the slots behind it are not; the semaphores start
\* at 0 and len.
queue_create(sync) ==
    /\ ~Exists /\ AllIdle
    /\ held' = held \cup Wanted(sync)
    /\ sync_mode' = sync
    /\ cur_write' = 0 /\ cur_read' = 0 /\ msg_num' = 0
    /\ msg_buf' = [i \in Slots |-> NULL]
    /\ sync_read' = 0
    /\ sync_write' = IF sync = 0 THEN 0 ELSE BufLen
    /\ lock' = NoTask
    /\ lock_failed' = 0
    /\ UNCHANGED locals

queue_create_fails(sync, stop) ==
    /\ ~Exists /\ AllIdle
    /\ stop \in Wanted(sync)
    /\ held' = (held \cup Acquired(stop)) \ CleanedUp(stop)
    /\ UNCHANGED <<fields, kernel, locals, lock_failed>>

\* queue_delete looks neither at msg_num nor at the tasks inside; that none
\* is inside is the caller's duty.  The fields die with the memory.
queue_delete ==
    /\ Exists /\ AllIdle
    /\ held' = held \ (IF sync_mode = 0 THEN {"mem"}
                       ELSE {"mem", "sync_read", "sync_write", "lock"})
    /\ sync_mode' = 0
    /\ cur_write' = 0 /\ cur_read' = 0 /\ msg_num' = 0
    /\ msg_buf' = [i \in Slots |-> NULL]
    /\ sync_read' = 0 /\ sync_write' = 0 /\ lock' = NoTask
    /\ lock_failed' = 0
    /\ UNCHANGED locals

-----------------------------------------------------------------------------
\* osal_semp_pend that succeeds takes one count of the semaphore; a post on a
\* semaphore created with limit BufLen is refused at the limit.
M_PendKeepsCount(count) == count
SempPend(count) == count - 1

M_PostLost(count) == count
SempPost(count) == IF count < BufLen THEN count + 1 ELSE count

\* osal_mutex_lock that succeeds.
M_LockDoesNotWait(t) == lock' = t
MutexTake(t) == lock = NoTask /\ lock' = t

\* The slot after slot i.
M_AdvanceNoWrap(i) == i + 1
Advance(i) == (i + 1) % BufLen

Goto(t, loc) == pc' = [pc EXCEPT ![t] = loc]

\* Where an operation begins: at the semaphore, or, unsynchronised and alone,
\* at the raw operation.
Enter(t, synced, raw) ==
    /\ Exists /\ pc[t] = "idle"
    /\ sync_mode = 0 => AllIdle
    /\ Goto(t, IF sync_mode = 0 THEN raw ELSE synced)
    /\ ret' = [ret EXCEPT ![t] = -1]
    /\ buf' = [buf EXCEPT ![t] = NULL]
    /\ UNCHANGED <<held, fields, kernel, lock_failed>>

queue_push(t, data) ==
    /\ Enter(t, "push_pend", "push_store")
    /\ arg' = [arg EXCEPT ![t] = data]

queue_pop(t) ==
    /\ Enter(t, "pop_pend", "pop_load")
    /\ arg' = [arg EXCEPT ![t] = NULL]

\* osal_semp_pend gets a token, or times out and the operation returns -1.
push_pend(t) ==
    /\ pc[t] = "push_pend"
    /\ sync_write > 0
    /\ sync_write' = SempPend(sync_write)
    /\ Goto(t, "push_lock")
    /\ UNCHANGED <<held, fields, sync_read, lock, arg, buf, ret, lock_failed>>

pop_pend(t) ==
    /\ pc[t] = "pop_pend"
    /\ sync_read > 0
    /\ sync_read' = SempPend(sync_read)
    /\ Goto(t, "pop_lock")
    /\ UNCHANGED <<held, fields, sync_write, lock, arg, buf, ret, lock_failed>>

pend_timeout(t) ==
    /\ pc[t] \in {"push_pend", "pop_pend"}
    /\ Goto(t, "idle")
    /\ UNCHANGED <<held, fields, kernel, arg, buf, ret, lock_failed>>

\* osal_mutex_lock.  When it fails the operation returns -1 and the token it
\* took from the semaphore is not given back.
mutex_lock(t) ==
    /\ pc[t] \in {"push_lock", "pop_lock"}
    /\ MutexTake(t)
    /\ Goto(t, IF pc[t] = "push_lock" THEN "push_store" ELSE "pop_load")
    /\ UNCHANGED <<held, fields, sync_read, sync_write, arg, buf, ret, lock_failed>>

mutex_lock_fails(t) ==
    /\ pc[t] \in {"push_lock", "pop_lock"}
    /\ lock_failed' = 1
    /\ Goto(t, "idle")
    /\ UNCHANGED <<held, fields, kernel, arg, buf, ret>>

\* Where the raw operation continues: at the unlock, or, unsynchronised, it
\* returns to the caller.
After(unlock) == IF sync_mode = 0 THEN "idle" ELSE unlock

\* raw_queue_pushdata: the test and the store, then the indices.
push_store(t) ==
    /\ pc[t] = "push_store"
    /\ IF msg_num < BufLen
       THEN /\ msg_buf' = [msg_buf EXCEPT ![cur_write] = arg[t]]
            /\ Goto(t, "push_adv")
       ELSE /\ Goto(t, After("push_unlock"))
            /\ UNCHANGED msg_buf
    /\ UNCHANGED <<held, sync_mode, cur_write, cur_read, msg_num, kernel,
                   arg, buf, ret, lock_failed>>

push_adv(t) ==
    /\ pc[t] = "push_adv"
    /\ cur_write' = Advance(cur_write)
    /\ msg_num' = msg_num + 1
    /\ ret' = [ret EXCEPT ![t] = 0]
    /\ Goto(t, After("push_unlock"))
    /\ UNCHANGED <<held, sync_mode, msg_buf, cur_read, kernel, arg, buf, lock_failed>>

\* raw_queue_pop: the test and the load, then the indices.
pop_load(t) ==
    /\ pc[t] = "pop_load"
    /\ IF msg_num > 0
       THEN /\ buf' = [buf EXCEPT ![t] = msg_buf[cur_read]]
            /\ Goto(t, "pop_adv")
       ELSE /\ Goto(t, After("pop_unlock"))
            /\ UNCHANGED buf
    /\ UNCHANGED <<held, fields, kernel, arg, ret, lock_failed>>

pop_adv(t) ==
    /\ pc[t] = "pop_adv"
    /\ cur_read' = Advance(cur_read)
    /\ msg_num' = msg_num - 1
    /\ ret' = [ret EXCEPT ![t] = 0]
    /\ Goto(t, After("pop_unlock"))
    /\ UNCHANGED <<held, sync_mode, msg_buf, cur_write, kernel, arg, buf, lock_failed>>

\* osal_mutex_unlock, then the post if the raw operation succeeded.
mutex_unlock(t) ==
    /\ pc[t] \in {"push_unlock", "pop_unlock"}
    /\ lock' = NoTask
    /\ Goto(t, IF ret[t] # 0 THEN "idle"
               ELSE IF pc[t] = "push_unlock" THEN "push_post" ELSE "pop_post")
    /\ UNCHANGED <<held, fields, sync_read, sync_write, arg, buf, ret, lock_failed>>

push_post(t) ==
    /\ pc[t] = "push_post"
    /\ sync_read' = SempPost(sync_read)
    /\ Goto(t, "idle")
    /\ UNCHANGED <<held, fields, sync_write, lock, arg, buf, ret, lock_failed>>

pop_post(t) ==
    /\ pc[t] = "pop_post"
    /\ sync_write' = SempPost(sync_write)
    /\ Goto(t, "idle")
    /\ UNCHANGED <<held, fields, sync_read, lock, arg, buf, ret, lock_failed>>

-----------------------------------------------------------------------------
Init ==
    /\ held = {}
    /\ sync_mode = 0
    /\ cur_write = 0 /\ cur_read = 0 /\ msg_num = 0
    /\ msg_buf = [i \in Slots |-> NULL]
    /\ sync_read = 0 /\ sync_write = 0 /\ lock = NoTask
    /\ pc = [t \in Tasks |-> "idle"]
    /\ arg = [t \in Tasks |-> NULL]
    /\ buf = [t \in Tasks |-> NULL]
    /\ ret = [t \in Tasks |-> -1]
    /\ lock_failed = 0

\* The steps of an operation under way that no other task has to enable.
Run(t) ==
    \/ mutex_lock(t)
    \/ push_store(t) \/ push_adv(t)
    \/ pop_load(t) \/ pop_adv(t)
    \/ mutex_unlock(t)
    \/ push_post(t) \/ pop_post(t)

Next ==
    \/ \E sync \in {0, 1} :
          \/ queue_create(sync)
          \/ \E stop \in {"mem", "sync_read", "sync_write", "lock"} :
                queue_create_fails(sync, stop)
    \/ queue_delete
    \/ \E t \in Tasks :
          \/ \E data \in Data : queue_push(t, data)
          \/ queue_pop(t)
          \/ push_pend(t) \/ pop_pend(t) \/ pend_timeout(t)
          \/ mutex_lock_fails(t)
          \/ Run(t)

Spec == Init /\ [][Next]_vars

\* A task inside an operation is scheduled, a free mutex goes to one of the
\* tasks that want it, and a post wakes one of the tasks pending on the
\* semaphore; which one is the kernel's choice.
Fairness ==
    /\ \A t \in Tasks : WF_vars(Run(t))
    /\ WF_vars(\E t \in Tasks : mutex_lock(t))
    /\ WF_vars(\E t \in Tasks : push_pend(t))
    /\ WF_vars(\E t \in Tasks : pop_pend(t))

FairSpec == Spec /\ Fairness

-----------------------------------------------------------------------------
\* The types of the queue's fields, its kernel objects and the tasks' locals.
TypeOK ==
    /\ held \subseteq {"mem", "sync_read", "sync_write", "lock"}
    /\ sync_mode \in {0, 1}
    /\ msg_buf \in [Slots -> Data \cup {NULL}]
    /\ cur_write \in Slots
    /\ cur_read \in Slots
    /\ msg_num \in 0 .. BufLen
    /\ sync_read \in 0 .. BufLen
    /\ sync_write \in 0 .. BufLen
    /\ lock \in Tasks \cup {NoTask}
    /\ pc \in [Tasks -> {"idle"} \cup PushLocs \cup PopLocs]
    /\ arg \in [Tasks -> Data \cup {NULL}]
    /\ buf \in [Tasks -> Data \cup {NULL}]
    /\ ret \in [Tasks -> {0, -1}]
    /\ lock_failed \in {0, 1}

At(locs) == {t \in Tasks : pc[t] \in locs}

\* The tasks between a lock and its unlock.
Critical == {"push_store", "push_adv", "push_unlock",
             "pop_load", "pop_adv", "pop_unlock"}

\* The tasks that account for a count of sync_read: a reader that took one
\* and has not yet removed its message, a writer that added a message and
\* has not yet posted; for sync_write likewise.
ReadClaims == {"pop_lock", "pop_load", "pop_adv", "push_unlock", "push_post"}
WriteClaims == {"push_lock", "push_store", "push_adv", "pop_unlock", "pop_post"}

Reads == sync_read + Cardinality(At(ReadClaims))
Writes == sync_write + Cardinality(At(WriteClaims))

\* Exactly the task that owns queue->lock is between osal_mutex_lock and
\* osal_mutex_unlock, and a queue with syncmode 0 has one operation at a time.
MutexOwned ==
    /\ sync_mode = 1 => \A t \in Tasks : pc[t] \in Critical <=> lock = t
    /\ sync_mode = 0 =>
          /\ lock = NoTask
          /\ \A t, u \in Tasks : pc[t] # "idle" /\ pc[u] # "idle" => t = u
          /\ \A t \in Tasks :
                pc[t] \in {"idle", "push_store", "push_adv",
                           "pop_load", "pop_adv"}

\* Every message is matched by a count of sync_read, a token a reader holds
\* or a post a writer owes, and every free slot likewise by sync_write.  A
\* mutex that could not be taken may lose tokens, never make one.
TokensMatch ==
    (Exists /\ sync_mode = 1) =>
        /\ Reads <= msg_num
        /\ Writes <= BufLen - msg_num
        /\ lock_failed = 0 => Reads = msg_num /\ Writes = BufLen - msg_num

\* A token is a promise: a task that got past osal_semp_pend never finds the
\* queue full (push) or empty (pop) in the raw operation, and the semaphore
\* it then posts is below its limit, so no wakeup is refused.
TokenIsPromise ==
    sync_mode = 1 =>
        \A t \in Tasks :
            /\ pc[t] \in {"push_store", "push_adv"} => msg_num < BufLen
            /\ pc[t] \in {"pop_load", "pop_adv"} => msg_num > 0
            /\ pc[t] \in {"push_unlock", "pop_unlock"} => ret[t] = 0
            /\ pc[t] = "push_post" => sync_read < BufLen
            /\ pc[t] = "pop_post" => sync_write < BufLen

\* queue_create leaves nothing allocated when it fails at any of its four
\* steps, and queue_delete nothing whatever the mode.
NoLeak ==
    held \in {{}, {"mem"}, {"mem", "sync_read", "sync_write", "lock"}}

\* With no queue there is nothing in flight; a live queue owns the objects
\* of its mode.
Lifecycle ==
    /\ ~Exists => AllIdle /\ held = {} /\ sync_mode = 0
    /\ Exists => held = Wanted(sync_mode)

\* Between the two halves of a raw operation the test of the first still
\* holds, in either mode, and an operation reaches its unlock with ret = 0.
TestStillHolds ==
    \A t \in Tasks :
        /\ pc[t] = "push_adv" => msg_num < BufLen
        /\ pc[t] = "pop_adv" => msg_num > 0
        /\ pc[t] \in {"push_unlock", "pop_unlock"} => ret[t] = 0

\* The inductive invariant of the token discipline.
TokenInv ==
    TypeOK /\ MutexOwned /\ TokensMatch /\ Lifecycle /\ TestStillHolds

\* The i-th oldest message lies i - 1 slots behind cur_read, wrapping at the
\* end of msg_buf.
SlotOf(i) == IF cur_read + i - 1 < BufLen THEN cur_read + i - 1
             ELSE cur_read + i - 1 - BufLen

Cached == [i \in 1 .. msg_num |-> msg_buf[SlotOf(i)]]

\* An operation takes effect when it moves the indices: *buf, written one
\* step earlier, is not yet the caller's.
Handed == [t \in Tasks |-> IF pc[t] = "pop_adv" THEN NULL ELSE buf[t]]

Fifo == INSTANCE BoundedFifo WITH
            Cap <- BufLen, NoData <- NULL,
            alive <- Exists, q <- Cached, got <- Handed

\* The queue implements the bounded first-in-first-out queue of queue.h: no
\* interleaving of pushes and pops loses, duplicates or reorders a message, an
\* operation that returns 0 took effect exactly once, one that returns -1 never.
FifoRefinement == Fifo!FifoSpec

\* The inductive invariant of the refinement: cur_write is the slot behind the
\* newest message, the halves of a raw operation agree on the slot, and the
\* locals of an operation that has not yet taken effect say so.
FifoInv ==
    /\ TokenInv
    /\ ~Exists => msg_num = 0
    /\ cur_write = SlotOf(msg_num + 1)
    /\ \A t \in Tasks :
          /\ pc[t] \in PushLocs => arg[t] \in Data
          /\ pc[t] \in PopLocs => arg[t] = NULL
          /\ pc[t] \in (PushLocs \cup PopLocs) \ {"push_unlock", "push_post",
                                                "pop_unlock", "pop_post"}
                => ret[t] = -1
          /\ pc[t] \in {"pop_pend", "pop_lock", "pop_load"} => buf[t] = NULL
          /\ pc[t] = "push_adv" => msg_buf[cur_write] = arg[t]
          /\ pc[t] = "pop_adv" => buf[t] = msg_buf[cur_read]

Waiting(loc) == \E t \in Tasks : pc[t] = loc

\* No wakeup is lost: where osal_mutex_lock never fails, a full queue is
\* drained as long as a task pends in queue_pop, an empty one is filled as
\* long as a task pends in queue_push.
NoLostWakeup ==
    [](lock_failed = 0) =>
      /\ (Exists /\ msg_num = BufLen /\ Waiting("pop_pend"))
              ~> (msg_num < BufLen \/ ~Waiting("pop_pend"))
      /\ (Exists /\ msg_num = 0 /\ Waiting("push_pend"))
              ~> (msg_num > 0 \/ ~Waiting("push_pend"))
=============================================================================
