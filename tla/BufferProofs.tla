---------------------------- MODULE BufferProofs ----------------------------
(***************************************************************************)
(* Theorems about the two circular buffers: LinkQueue, for every finite    *)
(* set of tasks, every set of messages and every length of the queue, and  *)
(* RingBuffer, for every length of the buffer and of a call.               *)
(***************************************************************************)
EXTENDS LinkQueue, RingBuffer, FiniteSetTheorems, ListLemmas

-----------------------------------------------------------------------------
(* The queue *)


\* The index after a slot is again a slot: the wrap of queue.c:94 and 133.
LEMMA AdvanceWraps ==
    ASSUME NEW i \in Slots
    PROVE  /\ Advance(i) = IF i + 1 = BufLen THEN 0 ELSE i + 1
           /\ Advance(i) \in Slots
    BY BufLenAssumption DEF Advance, Slots

\* What moving a task between two locations adds to the number of tasks in locs.
Locs == {"idle"} \cup PushLocs \cup PopLocs

Delta(from, to, locs) ==
    (IF to \in locs THEN 1 ELSE 0) - (IF from \in locs THEN 1 ELSE 0)

\* Moving one task to location loc changes the number of tasks in a set of
\* locations by at most one.
LEMMA MoveCounts ==
    ASSUME TypeOK, NEW t \in Tasks, NEW loc, Goto(t, loc), NEW locs
    PROVE  /\ Cardinality(At(locs)) \in Nat
           /\ Delta(pc[t], loc, locs) \in Int
           /\ pc[t] \in locs => Cardinality(At(locs)) > 0
           /\ Cardinality(At(locs)') = Cardinality(At(locs))
                                         + Delta(pc[t], loc, locs)
<1> DEFINE A == At(locs)
           B == At(locs)'
<1>0. /\ t \in A <=> pc[t] \in locs
      /\ B = IF loc \in locs THEN A \cup {t} ELSE A \ {t}
      /\ A \subseteq Tasks /\ B \subseteq Tasks
    BY DEF At, TypeOK, Goto
<1> HIDE DEF A, B
<1>1. IsFiniteSet(A) /\ IsFiniteSet(B)
    BY <1>0, TasksAssumption, FS_Subset
<1>2. Cardinality(A) \in Nat /\ Cardinality(B) \in Nat
    BY <1>1, FS_CardinalityType
<1>3. t \in A => Cardinality(A) > 0
    <2>1. t \in A => Cardinality(A) # 0
        BY <1>1, FS_EmptySet
    <2> QED BY <1>2, <2>1
<1>4. /\ Cardinality(A \cup {t}) = IF t \in A THEN Cardinality(A)
                                    ELSE Cardinality(A) + 1
      /\ Cardinality(A \ {t}) = IF t \in A THEN Cardinality(A) - 1
                                 ELSE Cardinality(A)
    BY <1>1, FS_AddElement, FS_RemoveElement
<1>5. Cardinality(B) = IF loc \in locs THEN Cardinality(A \cup {t})
                       ELSE Cardinality(A \ {t})
    BY <1>0, Zenon
<1>6. Cardinality(B) = Cardinality(A) + Delta(pc[t], loc, locs)
    BY <1>0, <1>2, <1>4, <1>5 DEF Delta
<1>7. Delta(pc[t], loc, locs) \in Int
    BY DEF Delta
<1> QED BY <1>0, <1>2, <1>3, <1>6, <1>7 DEF A, B

-----------------------------------------------------------------------------
(* The token discipline. *)

\* How the two sums of TokensMatch change when task t moves to loc.
LEMMA TokenCounts ==
    ASSUME TypeOK, NEW t \in Tasks, NEW loc, Goto(t, loc),
           sync_read' \in Int, sync_write' \in Int
    PROVE  /\ Reads \in Nat /\ Writes \in Nat
           /\ pc[t] \in ReadClaims => Reads > sync_read
           /\ pc[t] \in WriteClaims => Writes > sync_write
           /\ Reads' = Reads + (sync_read' - sync_read)
                               + Delta(pc[t], loc, ReadClaims)
           /\ Writes' = Writes + (sync_write' - sync_write)
                                 + Delta(pc[t], loc, WriteClaims)
<1>1. sync_read \in Nat /\ sync_write \in Nat
    BY BufLenAssumption DEF TypeOK
<1>2. ASSUME NEW locs
      PROVE  /\ Cardinality(At(locs)) \in Nat
             /\ Delta(pc[t], loc, locs) \in Int
             /\ pc[t] \in locs => Cardinality(At(locs)) > 0
             /\ Cardinality(At(locs)') = Cardinality(At(locs))
                                           + Delta(pc[t], loc, locs)
    BY MoveCounts, Zenon
<1>3. /\ Reads' = sync_read' + Cardinality(At(ReadClaims)')
      /\ Writes' = sync_write' + Cardinality(At(WriteClaims)')
    BY DEF Reads, Writes, ReadClaims, WriteClaims
<1> QED BY <1>1, <1>2, <1>3 DEF Reads, Writes

\* Creating, failing to create and deleting the queue keep TokenInv.
LEMMA LifecycleStep ==
    ASSUME TokenInv,
           \/ \E sync \in {0, 1} :
                 \/ queue_create(sync)
                 \/ \E stop \in {"mem", "sync_read", "sync_write", "lock"} :
                       queue_create_fails(sync, stop)
           \/ queue_delete
    PROVE  TokenInv'
<1> USE BufLenAssumption, TasksAssumption DEF TokenInv
<1>1. ASSUME NEW sync \in {0, 1}, queue_create(sync)
      PROVE  TokenInv'
    <2> USE <1>1 DEF queue_create, AllIdle, Exists, locals
    <2>1. TypeOK'
        BY DEF TypeOK, Wanted, Slots
    <2>2. MutexOwned'
        BY DEF MutexOwned, TypeOK, Critical
    <2>3. At(ReadClaims)' = {} /\ At(WriteClaims)' = {}
        BY DEF At, ReadClaims, WriteClaims
    <2>4. TokensMatch'
        BY <2>3, FS_EmptySet DEF TokensMatch, Reads, Writes
    <2>5. Lifecycle' /\ TestStillHolds'
        BY DEF Lifecycle, TestStillHolds, Wanted
    <2> QED BY <2>1, <2>2, <2>4, <2>5
<1>2. ASSUME NEW sync \in {0, 1},
             NEW stop \in {"mem", "sync_read", "sync_write", "lock"},
             queue_create_fails(sync, stop)
      PROVE  TokenInv'
    <2> USE <1>2 DEF queue_create_fails, Exists, locals, fields, kernel
    <2>1. held' = {}
        BY DEF Lifecycle, Acquired, CleanedUp
    <2>2. TypeOK' /\ MutexOwned'
        BY <2>1 DEF TypeOK, MutexOwned
    <2>3. TokensMatch'
        BY <2>1 DEF TokensMatch
    <2>4. Lifecycle' /\ TestStillHolds'
        BY <2>1 DEF Lifecycle, TestStillHolds, AllIdle
    <2> QED BY <2>2, <2>3, <2>4
<1>3. ASSUME queue_delete
      PROVE  TokenInv'
    <2> USE <1>3 DEF queue_delete, Exists, locals
    <2>1. held' = {}
        BY DEF Lifecycle, Wanted, TypeOK
    <2>2. TypeOK' /\ MutexOwned'
        BY <2>1 DEF TypeOK, MutexOwned, Slots, AllIdle
    <2>3. TokensMatch'
        BY <2>1 DEF TokensMatch
    <2>4. Lifecycle' /\ TestStillHolds'
        BY <2>1 DEF Lifecycle, TestStillHolds, AllIdle
    <2> QED BY <2>2, <2>3, <2>4
<1> QED BY <1>1, <1>2, <1>3

\* A step inside an operation keeps Lifecycle: it touches neither the objects
\* nor the mode, and a queue with an operation under way exists.
LEMMA LifecycleKept ==
    ASSUME Lifecycle, Exists, UNCHANGED <<held, sync_mode>>
    PROVE  Lifecycle'
    BY DEF Lifecycle, Exists

\* Beginning an operation keeps TokenInv.
LEMMA EnterStep ==
    ASSUME TokenInv, NEW t \in Tasks, NEW synced, NEW raw,
           \/ synced = "push_pend" /\ raw = "push_store"
           \/ synced = "pop_pend" /\ raw = "pop_load",
           Enter(t, synced, raw), arg' \in [Tasks -> Data \cup {NULL}]
    PROVE  TokenInv'
<1> USE BufLenAssumption, TasksAssumption
        DEF TokenInv, Enter, fields, kernel
<1> DEFINE loc == IF sync_mode = 0 THEN raw ELSE synced
<1>1. Goto(t, loc) /\ pc[t] = "idle"
    OBVIOUS
<1>2. TypeOK'
    BY DEF TypeOK, Goto, PushLocs, PopLocs
<1>3. MutexOwned'
    BY DEF MutexOwned, TypeOK, Goto, Critical, AllIdle
<1>4. TokensMatch'
    <2>1. CASE sync_mode = 0
        BY <2>1 DEF TokensMatch
    <2>2. CASE sync_mode = 1
        BY <1>1, <2>2, TokenCounts DEF TokensMatch, Delta, ReadClaims, WriteClaims, TypeOK,
                                 Exists
    <2> QED BY <2>1, <2>2 DEF TypeOK
<1>5. TestStillHolds'
    BY DEF TestStillHolds, TypeOK, Goto
<1> QED BY <1>2, <1>3, <1>4, <1>5, LifecycleKept

\* A task that accounts for a count leaves room: the semaphore is below its
\* limit, and there is a message (or a free slot) to account for.
LEMMA TokenSpent ==
    ASSUME TypeOK, TokensMatch, Exists, sync_mode = 1, NEW t \in Tasks
    PROVE  /\ pc[t] \in ReadClaims => msg_num > 0 /\ sync_read < BufLen
           /\ pc[t] \in WriteClaims => msg_num < BufLen /\ sync_write < BufLen
<1>1. ASSUME NEW locs, pc[t] \in locs
      PROVE  Cardinality(At(locs)) \in Nat \ {0}
    <2>1. IsFiniteSet(At(locs)) /\ At(locs) # {}
        BY <1>1, TasksAssumption, FS_Subset DEF At
    <2> QED BY <2>1, FS_EmptySet, FS_CardinalityType
<1>2. ASSUME NEW locs
      PROVE  Cardinality(At(locs)) \in Nat
    BY TasksAssumption, FS_Subset, FS_CardinalityType DEF At
<1>3. /\ pc[t] \in ReadClaims => Cardinality(At(ReadClaims)) > 0
      /\ pc[t] \in WriteClaims => Cardinality(At(WriteClaims)) > 0
      /\ Cardinality(At(ReadClaims)) \in Nat
      /\ Cardinality(At(WriteClaims)) \in Nat
    BY <1>1, <1>2
<1> HIDE <1>1, <1>2
<1> QED BY <1>3, BufLenAssumption DEF TypeOK, TokensMatch, Reads, Writes

\* The steps of a task inside queue_push or queue_pop keep TokenInv.
LEMMA OperationStep ==
    ASSUME TokenInv, NEW t \in Tasks,
           \/ push_pend(t) \/ pop_pend(t) \/ pend_timeout(t)
           \/ mutex_lock_fails(t) \/ Run(t)
    PROVE  TokenInv'
<1> USE BufLenAssumption, TasksAssumption DEF TokenInv
<1>a. pc[t] # "idle" => Exists
    BY DEF Lifecycle, AllIdle
<1>b. pc[t] # "idle" /\ sync_mode # 0 => sync_mode = 1
    BY DEF TypeOK
<1>1. CASE push_pend(t)
    <2> USE <1>1 DEF push_pend, fields, SempPend
    <2>1. Goto(t, "push_lock") /\ Exists
        BY <1>a
    <2>2. TypeOK'
        BY DEF TypeOK, Goto, PushLocs, PopLocs
    <2>3. MutexOwned'
        BY DEF MutexOwned, TypeOK, Goto, Critical
    <2>4. TokensMatch'
        BY <2>1, TokenCounts DEF TokensMatch, Delta, ReadClaims, WriteClaims, TypeOK,
                                 Exists
    <2>5. TestStillHolds'
        BY DEF TestStillHolds, TypeOK, Goto
    <2> QED BY <2>1, <2>2, <2>3, <2>4, <2>5, LifecycleKept
<1>2. CASE pop_pend(t)
    <2> USE <1>2 DEF pop_pend, fields, SempPend
    <2>1. Goto(t, "pop_lock") /\ Exists
        BY <1>a
    <2>2. TypeOK'
        BY DEF TypeOK, Goto, PushLocs, PopLocs
    <2>3. MutexOwned'
        BY DEF MutexOwned, TypeOK, Goto, Critical
    <2>4. TokensMatch'
        BY <2>1, TokenCounts DEF TokensMatch, Delta, ReadClaims, WriteClaims, TypeOK,
                                 Exists
    <2>5. TestStillHolds'
        BY DEF TestStillHolds, TypeOK, Goto
    <2> QED BY <2>1, <2>2, <2>3, <2>4, <2>5, LifecycleKept
<1>3. CASE pend_timeout(t)
    <2> USE <1>3 DEF pend_timeout, fields, kernel
    <2>1. Goto(t, "idle") /\ Exists
        BY <1>a
    <2>2. TypeOK'
        BY DEF TypeOK, Goto, PushLocs, PopLocs
    <2>3. MutexOwned'
        BY DEF MutexOwned, TypeOK, Goto, Critical
    <2>4. TokensMatch'
        BY <2>1, TokenCounts DEF TokensMatch, Delta, ReadClaims, WriteClaims, TypeOK,
                                 Exists
    <2>5. TestStillHolds'
        BY DEF TestStillHolds, TypeOK, Goto
    <2> QED BY <2>1, <2>2, <2>3, <2>4, <2>5, LifecycleKept
<1>4. CASE mutex_lock_fails(t)
    <2> USE <1>4 DEF mutex_lock_fails, fields, kernel
    <2>1. Goto(t, "idle") /\ Exists
        BY <1>a
    <2>2. TypeOK'
        BY DEF TypeOK, Goto, PushLocs, PopLocs
    <2>3. MutexOwned'
        BY DEF MutexOwned, TypeOK, Goto, Critical
    <2>4. TokensMatch'
        BY <2>1, TokenCounts DEF TokensMatch, Delta, ReadClaims, WriteClaims, TypeOK,
                                 Exists
    <2>5. TestStillHolds'
        BY DEF TestStillHolds, TypeOK, Goto
    <2> QED BY <2>1, <2>2, <2>3, <2>4, <2>5, LifecycleKept
<1>5. CASE mutex_lock(t)
    <2> USE <1>5 DEF mutex_lock, fields, MutexTake
    <2>1. Goto(t, IF pc[t] = "push_lock" THEN "push_store" ELSE "pop_load") /\ Exists
        BY <1>a
    <2>2. TypeOK'
        BY DEF TypeOK, Goto, PushLocs, PopLocs
    <2>3. MutexOwned'
        BY DEF MutexOwned, TypeOK, Goto, Critical
    <2>4. TokensMatch'
        BY <2>1, TokenCounts DEF TokensMatch, Delta, ReadClaims, WriteClaims, TypeOK,
                                 Exists
    <2>5. TestStillHolds'
        BY DEF TestStillHolds, TypeOK, Goto
    <2> QED BY <2>1, <2>2, <2>3, <2>4, <2>5, LifecycleKept
<1>6. CASE push_store(t)
    <2> USE <1>6 DEF push_store, kernel
    <2>a. Exists /\ (sync_mode = 1 => msg_num < BufLen)
        BY <1>a, <1>b, TokenSpent DEF WriteClaims, TypeOK
    <2>1. Goto(t, IF msg_num < BufLen THEN "push_adv" ELSE "idle") /\ Exists
        BY <2>a DEF After, TypeOK
    <2>2. TypeOK'
        BY <2>1 DEF TypeOK, Goto, PushLocs, PopLocs
    <2>3. MutexOwned'
        BY <2>1, <2>a DEF MutexOwned, TypeOK, Goto, Critical
    <2>4. TokensMatch'
        BY <2>1, TokenCounts DEF TokensMatch, Delta, ReadClaims, WriteClaims, TypeOK,
                                 Exists
    <2>5. TestStillHolds'
        BY <2>1 DEF TestStillHolds, TypeOK, Goto
    <2> QED BY <2>1, <2>2, <2>3, <2>4, <2>5, LifecycleKept
<1>7. CASE pop_load(t)
    <2> USE <1>7 DEF pop_load, fields, kernel
    <2>a. Exists /\ (sync_mode = 1 => msg_num > 0)
        BY <1>a, <1>b, TokenSpent DEF ReadClaims, TypeOK
    <2>1. Goto(t, IF msg_num > 0 THEN "pop_adv" ELSE "idle") /\ Exists
        BY <2>a DEF After, TypeOK
    <2>2. TypeOK'
        BY <2>1 DEF TypeOK, Goto, PushLocs, PopLocs, Slots
    <2>3. MutexOwned'
        BY <2>1, <2>a DEF MutexOwned, TypeOK, Goto, Critical
    <2>4. TokensMatch'
        BY <2>1, TokenCounts DEF TokensMatch, Delta, ReadClaims, WriteClaims, TypeOK,
                                 Exists
    <2>5. TestStillHolds'
        BY <2>1 DEF TestStillHolds, TypeOK, Goto
    <2> QED BY <2>1, <2>2, <2>3, <2>4, <2>5, LifecycleKept
<1>8. CASE push_adv(t)
    <2> USE <1>8 DEF push_adv, After, kernel
    <2>b. \A u \in Tasks : u # t => pc[u] \notin Critical
        BY DEF MutexOwned, Critical, TypeOK
    <2>1. Goto(t, After("push_unlock")) /\ Exists
        BY <1>a
    <2>2. TypeOK'
        BY <2>1, AdvanceWraps DEF TypeOK, Goto, PushLocs, PopLocs, TestStillHolds
    <2>3. MutexOwned'
        BY <2>1 DEF MutexOwned, TypeOK, Goto, Critical
    <2>4. TokensMatch'
        BY <2>1, TokenCounts DEF TokensMatch, Delta, ReadClaims, WriteClaims, TypeOK,
                                 Exists, TestStillHolds
    <2>5. TestStillHolds'
        BY <2>1, <2>b DEF TestStillHolds, TypeOK, Goto, Critical
    <2> QED BY <2>1, <2>2, <2>3, <2>4, <2>5, LifecycleKept
<1>9. CASE pop_adv(t)
    <2> USE <1>9 DEF pop_adv, After, kernel
    <2>b. \A u \in Tasks : u # t => pc[u] \notin Critical
        BY DEF MutexOwned, Critical, TypeOK
    <2>1. Goto(t, After("pop_unlock")) /\ Exists
        BY <1>a
    <2>2. TypeOK'
        BY <2>1, AdvanceWraps DEF TypeOK, Goto, PushLocs, PopLocs, TestStillHolds
    <2>3. MutexOwned'
        BY <2>1 DEF MutexOwned, TypeOK, Goto, Critical
    <2>4. TokensMatch'
        BY <2>1, TokenCounts DEF TokensMatch, Delta, ReadClaims, WriteClaims, TypeOK,
                                 Exists, TestStillHolds
    <2>5. TestStillHolds'
        BY <2>1, <2>b DEF TestStillHolds, TypeOK, Goto, Critical
    <2> QED BY <2>1, <2>2, <2>3, <2>4, <2>5, LifecycleKept
<1>10. CASE mutex_unlock(t)
    <2> USE <1>10 DEF mutex_unlock, fields
    <2>1. Goto(t, IF pc[t] = "push_unlock" THEN "push_post" ELSE "pop_post") /\ Exists
        BY <1>a DEF TestStillHolds
    <2>2. TypeOK'
        BY <2>1 DEF TypeOK, Goto, PushLocs, PopLocs
    <2>3. MutexOwned'
        BY <2>1 DEF MutexOwned, TypeOK, Goto, Critical
    <2>4. TokensMatch'
        BY <2>1, TokenCounts DEF TokensMatch, Delta, ReadClaims, WriteClaims, TypeOK,
                                 Exists
    <2>5. TestStillHolds'
        BY <2>1 DEF TestStillHolds, TypeOK, Goto
    <2> QED BY <2>1, <2>2, <2>3, <2>4, <2>5, LifecycleKept
<1>11. CASE push_post(t)
    <2> USE <1>11 DEF push_post, fields, SempPost
    <2>c. sync_mode = 1 /\ sync_read < BufLen
        BY <1>a, <1>b, TokenSpent DEF ReadClaims, TypeOK, MutexOwned
    <2>1. Goto(t, "idle") /\ Exists
        BY <1>a
    <2>2. TypeOK'
        BY <2>1 DEF TypeOK, Goto, PushLocs, PopLocs
    <2>3. MutexOwned'
        BY <2>1 DEF MutexOwned, TypeOK, Goto, Critical
    <2>4. TokensMatch'
        BY <2>1, <2>c, TokenCounts DEF TokensMatch, Delta, ReadClaims, WriteClaims, TypeOK,
                                 Exists
    <2>5. TestStillHolds'
        BY <2>1 DEF TestStillHolds, TypeOK, Goto
    <2> QED BY <2>1, <2>2, <2>3, <2>4, <2>5, LifecycleKept
<1>12. CASE pop_post(t)
    <2> USE <1>12 DEF pop_post, fields, SempPost
    <2>c. sync_mode = 1 /\ sync_write < BufLen
        BY <1>a, <1>b, TokenSpent DEF WriteClaims, TypeOK, MutexOwned
    <2>1. Goto(t, "idle") /\ Exists
        BY <1>a
    <2>2. TypeOK'
        BY <2>1 DEF TypeOK, Goto, PushLocs, PopLocs
    <2>3. MutexOwned'
        BY <2>1 DEF MutexOwned, TypeOK, Goto, Critical
    <2>4. TokensMatch'
        BY <2>1, <2>c, TokenCounts DEF TokensMatch, Delta, ReadClaims, WriteClaims, TypeOK,
                                 Exists
    <2>5. TestStillHolds'
        BY <2>1 DEF TestStillHolds, TypeOK, Goto
    <2> QED BY <2>1, <2>2, <2>3, <2>4, <2>5, LifecycleKept
<1> QED BY <1>1, <1>2, <1>3, <1>4, <1>5, <1>6, <1>7, <1>8, <1>9, <1>10,
           <1>11, <1>12 DEF Run

\* Every step of the queue keeps TokenInv.
LEMMA TokenStep == TokenInv /\ [Next]_vars => TokenInv'
<1> SUFFICES ASSUME TokenInv, [Next]_vars PROVE TokenInv'
    OBVIOUS
<1>1. CASE UNCHANGED vars
    BY <1>1 DEF vars, fields, kernel, locals, TokenInv, TypeOK, MutexOwned,
                TokensMatch, Reads, Writes, At, Lifecycle, TestStillHolds,
                Exists, AllIdle
<1>2. ASSUME NEW t \in Tasks, NEW data \in Data, queue_push(t, data)
      PROVE  TokenInv'
    <2>1. arg' \in [Tasks -> Data \cup {NULL}]
        BY <1>2 DEF queue_push, TokenInv, TypeOK
    <2> QED BY <1>2, <2>1, EnterStep DEF queue_push
<1>3. ASSUME NEW t \in Tasks, queue_pop(t)
      PROVE  TokenInv'
    <2>1. arg' \in [Tasks -> Data \cup {NULL}]
        BY <1>3 DEF queue_pop, TokenInv, TypeOK
    <2> QED BY <1>3, <2>1, EnterStep DEF queue_pop
<1> QED BY <1>1, <1>2, <1>3, LifecycleStep, OperationStep DEF Next

\* TokenInv holds in every reachable state of the queue.
THEOREM TokenInvariant == Spec => []TokenInv
<1>1. Init => TokenInv
    BY BufLenAssumption, TasksAssumption
       DEF Init, TokenInv, TypeOK, MutexOwned, TokensMatch, Lifecycle,
           TestStillHolds, Exists, AllIdle, Slots
<1> QED BY <1>1, TokenStep, PTL DEF Spec

\* The fields, kernel counts and locals keep their types: no index leaves
\* msg_buf, no semaphore exceeds its limit.
THEOREM TypeCorrect == Spec => []TypeOK
    BY TokenInvariant, PTL DEF TokenInv

\* Semaphore counts, tokens in hand and messages always agree.
THEOREM TokensAlwaysMatch == Spec => []TokensMatch
    BY TokenInvariant, PTL DEF TokenInv

\* Whoever gets past osal_semp_pend finds the room or the message it waited
\* for, and its post is not refused.
THEOREM TokenKeepsPromise == Spec => []TokenIsPromise
<1>1. TokenInv => TokenIsPromise
    <2> SUFFICES ASSUME TokenInv, sync_mode = 1, NEW t \in Tasks
                 PROVE  /\ pc[t] \in {"push_store", "push_adv"}
                                => msg_num < BufLen
                        /\ pc[t] \in {"pop_load", "pop_adv"} => msg_num > 0
                        /\ pc[t] \in {"push_unlock", "pop_unlock"} => ret[t] = 0
                        /\ pc[t] = "push_post" => sync_read < BufLen
                        /\ pc[t] = "pop_post" => sync_write < BufLen
        BY DEF TokenIsPromise
    <2>1. pc[t] # "idle" => Exists
        BY DEF TokenInv, Lifecycle, AllIdle
    <2> QED BY <2>1, TokenSpent DEF TokenInv, TestStillHolds, ReadClaims,
                                    WriteClaims
<1> QED BY <1>1, TokenInvariant, PTL

\* No failure path of queue_create, and no queue_delete, leaks an object.
THEOREM NothingLeaks == Spec => []NoLeak
<1>1. TokenInv => NoLeak
    BY DEF TokenInv, Lifecycle, NoLeak, Wanted, TypeOK
<1> QED BY <1>1, TokenInvariant, PTL

-----------------------------------------------------------------------------
(* The queue implements BoundedFifo. *)

\* Sequences built slot by slot: adding an element at the end, removing the
\* first.
LEMMA SequenceFacts ==
    ASSUME NEW S, NEW n \in Nat, NEW f \in [1 .. n -> S]
    PROVE  /\ Len(f) = n
           /\ n = 0 => f = << >>
           /\ \A x \in S, g \in [1 .. n + 1 -> S] :
                 (g[n + 1] = x /\ \A i \in 1 .. n : g[i] = f[i])
                 => g = Append(f, x)
           /\ n > 0 =>
                 /\ f # << >> /\ Head(f) = f[1]
                 /\ \A g \in [1 .. n - 1 -> S] :
                       (\A i \in 1 .. n - 1 : g[i] = f[i + 1]) => g = Tail(f)
    OBVIOUS

\* Messages lie in slots, and different messages in different slots.
LEMMA SlotFacts ==
    ASSUME TypeOK
    PROVE  /\ \A i \in 1 .. BufLen + 1 : SlotOf(i) \in Slots
           /\ \A i, j \in 1 .. BufLen : SlotOf(i) = SlotOf(j) => i = j
           /\ SlotOf(1) = cur_read
           /\ Cached \in [1 .. msg_num -> Data \cup {NULL}]
    BY BufLenAssumption DEF TypeOK, Slots, SlotOf, Cached

\* Every step of the queue keeps FifoInv.
LEMMA FifoInvStep == FifoInv /\ [Next]_vars => FifoInv'
<1> SUFFICES ASSUME FifoInv, [Next]_vars PROVE FifoInv'
    OBVIOUS
<1>1. TokenInv'
    BY TokenStep DEF FifoInv
<1> USE BufLenAssumption, DataAssumption
<1>2. CASE UNCHANGED vars
    BY <1>1, <1>2 DEF vars, fields, kernel, locals, FifoInv, SlotOf, Exists
<1>3. ASSUME NEW sync \in {0, 1}, queue_create(sync)
      PROVE  FifoInv'
    BY <1>1, <1>3 DEF queue_create, locals, FifoInv, SlotOf, Exists, AllIdle,
                      Wanted, PushLocs, PopLocs
<1>4. ASSUME NEW sync \in {0, 1}, NEW stop, queue_create_fails(sync, stop)
      PROVE  FifoInv'
    BY <1>1, <1>4 DEF queue_create_fails, locals, fields, kernel, FifoInv,
                      SlotOf, Exists
<1>5. CASE queue_delete
    BY <1>1, <1>5 DEF queue_delete, locals, FifoInv, SlotOf, Exists, AllIdle,
                      PushLocs, PopLocs
<1>6. ASSUME NEW t \in Tasks, NEW data \in Data, queue_push(t, data)
      PROVE  FifoInv'
    BY <1>1, <1>6 DEF queue_push, Enter, Goto, fields, kernel, FifoInv, TokenInv,
                      TypeOK, SlotOf, Exists, PushLocs, PopLocs
<1>7. ASSUME NEW t \in Tasks, queue_pop(t)
      PROVE  FifoInv'
    BY <1>1, <1>7 DEF queue_pop, Enter, Goto, fields, kernel, FifoInv, TokenInv,
                      TypeOK, SlotOf, Exists, PushLocs, PopLocs
<1>8. ASSUME NEW t \in Tasks,
             \/ push_pend(t) \/ pop_pend(t) \/ pend_timeout(t)
             \/ mutex_lock_fails(t) \/ mutex_lock(t) \/ mutex_unlock(t)
             \/ push_post(t) \/ pop_post(t)
      PROVE  FifoInv'
    <2>1. PICK loc : /\ Goto(t, loc) /\ pc[t] # "idle"
                     /\ \/ loc = "idle"
                        \/ pc[t] = "push_pend" /\ loc = "push_lock"
                        \/ pc[t] = "push_lock" /\ loc = "push_store"
                        \/ pc[t] = "push_unlock" /\ loc = "push_post"
                        \/ pc[t] = "pop_pend" /\ loc = "pop_lock"
                        \/ pc[t] = "pop_lock" /\ loc = "pop_load"
                        \/ pc[t] = "pop_unlock" /\ loc = "pop_post"
        BY <1>8 DEF push_pend, pop_pend, pend_timeout, mutex_lock_fails,
                    mutex_lock, mutex_unlock, push_post, pop_post
    <2>2. /\ held' = held /\ msg_num' = msg_num /\ cur_write' = cur_write
          /\ cur_read' = cur_read /\ msg_buf' = msg_buf
          /\ arg' = arg /\ buf' = buf /\ ret' = ret
        BY <1>8 DEF push_pend, pop_pend, pend_timeout, mutex_lock_fails,
                    mutex_lock, mutex_unlock, push_post, pop_post, fields, kernel
    <2>3. pc \in [Tasks -> Locs]
        BY DEF FifoInv, TokenInv, TypeOK, Locs
    <2>4. (~Exists => msg_num = 0)' /\ (cur_write = SlotOf(msg_num + 1))'
        BY <2>2 DEF FifoInv, Exists, SlotOf
    <2> QED BY <1>1, <2>1, <2>2, <2>3, <2>4 DEF Goto, FifoInv, PushLocs, PopLocs
<1>9. ASSUME NEW t \in Tasks,
             push_store(t) \/ push_adv(t) \/ pop_load(t) \/ pop_adv(t)
      PROVE  FifoInv'
    <2> USE DEF FifoInv, TokenInv
    <2>1. Exists /\ \A u \in Tasks : u # t => pc[u] \notin Critical
        BY <1>9 DEF push_store, push_adv, pop_load, pop_adv, MutexOwned, Critical,
                    TypeOK, Lifecycle, AllIdle
    <2>2. CASE push_store(t)
        BY <1>1, <2>1, <2>2 DEF push_store, After, Goto, kernel, TypeOK, SlotOf,
                                Exists, PushLocs, PopLocs, Critical
    <2>3. CASE pop_load(t)
        BY <1>1, <2>1, <2>3 DEF pop_load, After, Goto, fields, kernel, TypeOK,
                                SlotOf, Exists, PushLocs, PopLocs, Critical
    <2>4. CASE push_adv(t)
        <3>1. cur_write' = SlotOf(msg_num + 1)'
            BY <2>4, AdvanceWraps DEF push_adv, TypeOK, SlotOf, Slots,
                                      TestStillHolds
        <3> QED BY <1>1, <2>1, <2>4, <3>1 DEF push_adv, After, Goto, kernel,
                          TypeOK, Exists, PushLocs, PopLocs, Critical
    <2>5. CASE pop_adv(t)
        <3>1. cur_write' = SlotOf(msg_num + 1)'
            <4>1. /\ cur_read' = IF cur_read + 1 = BufLen THEN 0
                                 ELSE cur_read + 1
                  /\ msg_num' = msg_num - 1
                  /\ cur_write' = cur_write
                BY <2>5, AdvanceWraps DEF pop_adv, TypeOK
            <4>2. cur_read \in 0 .. BufLen - 1 /\ msg_num \in 1 .. BufLen
                BY <2>5 DEF pop_adv, TypeOK, Slots, TestStillHolds
            <4> QED BY <4>1, <4>2 DEF SlotOf
        <3> QED BY <1>1, <2>1, <2>5, <3>1 DEF pop_adv, After, Goto, kernel,
                          TypeOK, Exists, PushLocs, PopLocs, Critical
    <2> QED BY <1>9, <2>2, <2>3, <2>4, <2>5
<1> QED BY <1>2, <1>3, <1>4, <1>5, <1>6, <1>7, <1>8, <1>9 DEF Next, Run

\* Every step of the queue is a step of BoundedFifo or leaves it unchanged.
LEMMA FifoSimulation ==
    ASSUME FifoInv, [Next]_vars
    PROVE  [Fifo!FifoNext]_(Fifo!fifoVars)
<1> USE BufLenAssumption, DataAssumption DEF Fifo!fifoVars
<1> DEFINE Idles == Exists' = Exists /\ Cached' = Cached /\ arg' = arg
                    /\ ret' = ret /\ Handed' = Handed
<1>t. TypeOK /\ FifoInv'
    BY FifoInvStep DEF FifoInv, TokenInv
<1>h. ASSUME NEW t \in Tasks, NEW loc, Goto(t, loc), buf' = buf,
             pc[t] # "pop_adv", loc # "pop_adv"
      PROVE  Handed' = Handed
    BY <1>h, <1>t DEF Goto, Handed, TypeOK
<1>c. ASSUME msg_num' = msg_num, cur_read' = cur_read, msg_buf' = msg_buf
      PROVE  Cached' = Cached
    BY <1>c DEF Cached, SlotOf
<1>1. CASE UNCHANGED vars
    BY <1>1, <1>c DEF vars, fields, kernel, locals, Exists, Handed
<1>2. ASSUME NEW sync \in {0, 1}, queue_create(sync)
      PROVE  Fifo!Create
    <2>1. Cached = << >> /\ Cached' = << >>
        BY <1>2, <1>t, SequenceFacts, SlotFacts DEF queue_create, Cached, FifoInv
    <2>2. Handed' = Handed
        BY <1>2 DEF queue_create, locals, Handed
    <2> QED BY <1>2, <2>1, <2>2 DEF queue_create, Fifo!Create, Exists, Wanted,
                                    locals
<1>3. ASSUME NEW sync \in {0, 1},
             NEW stop \in {"mem", "sync_read", "sync_write", "lock"},
             queue_create_fails(sync, stop)
      PROVE  Idles
    <2>1. ~Exists /\ ~Exists'
        BY <1>3 DEF queue_create_fails, Exists, Acquired, CleanedUp
    <2> QED BY <1>3, <1>c, <2>1 DEF queue_create_fails, locals, fields, Handed,
                                    Exists
<1>4. CASE queue_delete
    <2>1. Cached' = << >>
        BY <1>4 DEF queue_delete, Cached
    <2>2. Handed' = Handed
        BY <1>4 DEF queue_delete, locals, Handed
    <2>3. Fifo!Delete
        BY <1>4, <2>1, <2>2 DEF queue_delete, Fifo!Delete, Exists, locals
    <2> QED BY <2>3 DEF Fifo!FifoNext
<1>5. ASSUME NEW t \in Tasks, NEW data \in Data \cup {NULL},
             NEW synced, NEW raw, Enter(t, synced, raw),
             synced # "pop_adv", raw # "pop_adv",
             arg' = [arg EXCEPT ![t] = data]
      PROVE  Fifo!Begin(t, data)
    <2>1. Cached' = Cached /\ Exists /\ Exists'
        BY <1>5, <1>c DEF Enter, fields, Exists
    <2>2. Handed' = [Handed EXCEPT ![t] = NULL]
        BY <1>5, <1>t DEF Enter, Goto, Handed, TypeOK
    <2> QED BY <1>5, <2>1, <2>2 DEF Enter, Fifo!Begin
<1>6. ASSUME NEW t \in Tasks,
             \/ push_pend(t) \/ pop_pend(t) \/ pend_timeout(t)
             \/ mutex_lock_fails(t) \/ mutex_lock(t) \/ mutex_unlock(t)
             \/ push_post(t) \/ pop_post(t)
      PROVE  Idles
    <2>1. \E loc : Goto(t, loc) /\ pc[t] # "pop_adv" /\ loc # "pop_adv"
        BY <1>6 DEF push_pend, pop_pend, pend_timeout, mutex_lock_fails,
                    mutex_lock, mutex_unlock, push_post, pop_post
    <2>2. /\ held' = held /\ msg_num' = msg_num /\ cur_read' = cur_read
          /\ msg_buf' = msg_buf /\ arg' = arg /\ buf' = buf /\ ret' = ret
        BY <1>6 DEF push_pend, pop_pend, pend_timeout, mutex_lock_fails,
                    mutex_lock, mutex_unlock, push_post, pop_post, fields, kernel
    <2> QED BY <2>1, <2>2, <1>c, <1>h DEF Exists
<1>7. ASSUME NEW t \in Tasks, push_store(t)
      PROVE  Idles
    <2>1. Handed' = Handed
        BY <1>7, <1>t DEF push_store, After, Goto, Handed, TypeOK
    <2>2. CASE msg_num < BufLen
        <3>1. \A i \in 1 .. msg_num : SlotOf(i) # cur_write
            BY <1>t, <2>2, SlotFacts DEF FifoInv, TypeOK
        <3>2. \A i \in 1 .. msg_num : msg_buf'[SlotOf(i)] = msg_buf[SlotOf(i)]
            BY <1>7, <1>t, <2>2, <3>1, SlotFacts DEF push_store, TypeOK
        <3>3. Cached' = Cached
            BY <1>7, <3>2 DEF push_store, Cached, SlotOf
        <3> QED BY <1>7, <2>1, <3>3 DEF push_store, Exists
    <2>3. CASE ~(msg_num < BufLen)
        BY <1>7, <1>c, <2>1, <2>3 DEF push_store, Exists
    <2> QED BY <2>2, <2>3
<1>8. ASSUME NEW t \in Tasks, pop_load(t)
      PROVE  Idles
    <2>1. Handed' = Handed
        BY <1>8, <1>t DEF pop_load, After, Goto, Handed, TypeOK, FifoInv
    <2> QED BY <1>8, <1>c, <2>1 DEF pop_load, Exists, fields
<1>9. ASSUME NEW t \in Tasks, push_adv(t)
      PROVE  Fifo!Push(t)
    <2>1. /\ msg_num < BufLen /\ msg_num' = msg_num + 1 /\ Exists
          /\ arg[t] \in Data /\ ret[t] = -1
          /\ msg_buf[SlotOf(msg_num + 1)] = arg[t]
        BY <1>9 DEF push_adv, FifoInv, TokenInv, TestStillHolds, Lifecycle,
                    AllIdle, PushLocs
    <2>2. /\ Cached' \in [1 .. msg_num + 1 -> Data \cup {NULL}]
          /\ Cached'[msg_num + 1] = arg[t]
          /\ \A i \in 1 .. msg_num : Cached'[i] = Cached[i]
        BY <1>9, <1>t, <2>1, SlotFacts DEF push_adv, Cached, SlotOf, TypeOK
    <2>3. Cached' = Append(Cached, arg[t]) /\ Len(Cached) = msg_num
        BY <1>t, <2>1, <2>2, SlotFacts, SequenceFacts DEF TypeOK
    <2>4. Handed' = Handed
        BY <1>9, <1>t DEF push_adv, After, Goto, Handed, TypeOK
    <2> QED BY <1>9, <2>1, <2>3, <2>4 DEF push_adv, Fifo!Push, Exists
<1>10. ASSUME NEW t \in Tasks, pop_adv(t)
       PROVE  Fifo!Pop(t)
    <2>1. /\ msg_num \in 1 .. BufLen /\ msg_num' = msg_num - 1 /\ Exists
          /\ arg[t] = NULL /\ ret[t] = -1 /\ buf[t] = msg_buf[cur_read]
        BY <1>10, <1>t DEF pop_adv, FifoInv, TokenInv, TestStillHolds, Lifecycle,
                    AllIdle, PopLocs, TypeOK
    <2>2. cur_read' = IF cur_read + 1 = BufLen THEN 0 ELSE cur_read + 1
        BY <1>10, <1>t, AdvanceWraps DEF pop_adv, TypeOK
    <2>3. \A i \in 1 .. msg_num - 1 : SlotOf(i)' = SlotOf(i + 1)
        BY <1>t, <2>1, <2>2 DEF SlotOf, TypeOK, Slots
    <2>4. /\ Cached' \in [1 .. msg_num - 1 -> Data \cup {NULL}]
          /\ \A i \in 1 .. msg_num - 1 : Cached'[i] = Cached[i + 1]
        <3>1. \A i \in 1 .. msg_num - 1 : SlotOf(i + 1) \in Slots
            BY <1>t, <2>1, SlotFacts
        <3>2. Cached' = [i \in 1 .. msg_num - 1 |-> msg_buf[SlotOf(i + 1)]]
            BY <1>10, <2>1, <2>3 DEF pop_adv, Cached
        <3> QED BY <1>t, <2>1, <3>1, <3>2 DEF Cached, TypeOK
    <2>5. Cached' = Tail(Cached) /\ Cached # << >> /\ Head(Cached) = buf[t]
        <3>1. Cached[1] = buf[t]
            BY <1>t, <2>1, SlotFacts DEF Cached
        <3> QED BY <1>t, <2>1, <2>4, <3>1, SlotFacts, SequenceFacts
    <2>6. Handed' = [Handed EXCEPT ![t] = buf[t]]
        BY <1>10, <1>t DEF pop_adv, After, Goto, Handed, TypeOK
    <2> QED BY <1>10, <2>1, <2>5, <2>6 DEF pop_adv, Fifo!Pop, Exists
<1> HIDE DEF Fifo!fifoVars
<1>11. ASSUME NEW t \in Tasks, NEW data \in Data, queue_push(t, data)
       PROVE  Fifo!Begin(t, data)
    BY <1>5, <1>11 DEF queue_push
<1>12. ASSUME NEW t \in Tasks, queue_pop(t)
       PROVE  Fifo!Begin(t, NULL)
    BY <1>5, <1>12 DEF queue_pop
<1>13. Idles => UNCHANGED Fifo!fifoVars
    BY DEF Fifo!fifoVars
<1> HIDE DEF Idles
<1> QED BY <1>1, <1>2, <1>3, <1>4, <1>6, <1>7, <1>8, <1>9, <1>10, <1>11, <1>12,
           <1>13 DEF Next, Run, Fifo!FifoNext

\* The queue is a bounded FIFO whatever the number of tasks, the messages and
\* the length: every behaviour of queue.c is one of BoundedFifo.
THEOREM QueueIsFifo == Spec => FifoRefinement
<1>1. Init => FifoInv
    BY BufLenAssumption, TasksAssumption
       DEF Init, FifoInv, TokenInv, TypeOK, MutexOwned, TokensMatch, Lifecycle,
           TestStillHolds, Exists, AllIdle, Slots, SlotOf, PushLocs, PopLocs
<1>2. Init => Fifo!FifoInit
    BY DEF Init, Fifo!FifoInit, Cached, Handed, Exists
<1> QED BY <1>1, <1>2, FifoInvStep, FifoSimulation, PTL
           DEF Spec, FifoRefinement, Fifo!FifoSpec
-----------------------------------------------------------------------------
(* The ring buffer *)


Wrapped(x) == IF x < RingLen THEN x ELSE x - RingLen

\* A place inside a memcpy of k bytes, made after `done` bytes of a call of m,
\* gets one of the bytes of the call.
LEMMA OffsetInCall ==
    ASSUME NEW at \in Nat, NEW k \in Nat, NEW done \in Nat, NEW i \in Nat,
           NEW m \in Nat, at <= i, i < at + k, done + k <= m
    PROVE  /\ done + i - at + 1 \in 1 .. m
           /\ done = 0 => i - at + 1 \in 1 .. m
  OBVIOUS

\* Below twice the length, the remainder is at most one subtraction.
LEMMA WrapOnce ==
    ASSUME NEW x \in 0 .. 2 * RingLen - 1
    PROVE  x % RingLen = Wrapped(x)
    BY RingLengths DEF Wrapped

RingInv == RingTypeOK /\ NoOverrun

\* The memcpys of a write of n bytes into the free space: they stay inside the
\* ring, add up to n, and the second starts where the first one ended.
LEMMA WriteMoves ==
    ASSUME RingTypeOK, buflen = RingLen, NEW n \in 1 .. RingLen - datalen,
           NEW first, first = WriteFirst(n),
           NEW rest, rest = WriteRest(n, first),
           NEW tail, tail = dataoff + datalen
    PROVE  /\ first \in [at : 0 .. RingLen, n : 0 .. RingLen]
           /\ rest \in [at : Places, n : 0 .. RingLen]
           /\ first.n + rest.n = n
           /\ first.at + first.n <= RingLen
           /\ rest.at + rest.n <= RingLen
           /\ first.n > 0 => first.at = Wrapped(tail)
           /\ rest.n > 0 => rest.at = Wrapped(tail + first.n)
           /\ first.n > 0 /\ rest.n > 0 => rest.at = 0
<1> USE DEF Wrapped
<1>1. /\ RingLen \in Nat \ {0} /\ datalen \in 0 .. RingLen
      /\ dataoff \in 0 .. RingLen - 1 /\ n \in 1 .. RingLen - datalen
    BY RingLengths DEF RingTypeOK
<1>2. tail % RingLen = Wrapped(tail)
    BY <1>1, WrapOnce
<1>3. /\ first = [at |-> first.at, n |-> first.n]
      /\ first.n \in 0 .. n /\ first.at \in 0 .. RingLen
      /\ first.at + first.n <= RingLen
      /\ first.n > 0 => first.at = Wrapped(tail)
      /\ first.n < n => (tail + first.n = RingLen \/ tail + n <= RingLen)
      /\ first.n < n /\ tail + first.n # RingLen => first.n = 0
    <2>1. CASE tail > RingLen
        BY <1>1, <1>2, <2>1 DEF WriteFirst, Move
    <2>2. CASE tail <= RingLen /\ tail + n > RingLen
        BY <1>1, <2>2 DEF WriteFirst, Move
    <2>3. CASE tail + n <= RingLen
        BY <1>1, <2>3 DEF WriteFirst, Move, Skip
    <2> QED BY <1>1, <2>1, <2>2, <2>3
<1> DEFINE x == tail + first.n
<1>4. x \in 0 .. 2 * RingLen - 1
    BY <1>1, <1>3
<1> HIDE DEF x
<1>5. x % RingLen = Wrapped(x)
    BY <1>4, WrapOnce
<1>6. rest = [at |-> Wrapped(x), n |-> n - first.n]
    BY <1>5 DEF WriteRest, Move, x
<1>7. rest.at = Wrapped(x) /\ rest.n = n - first.n
    BY <1>6
<1>8. /\ rest.at \in Places /\ rest.n \in 0 .. RingLen
      /\ rest.at + rest.n <= RingLen
      /\ first.n > 0 /\ rest.n > 0 => rest.at = 0
    BY <1>1, <1>3, <1>4, <1>7 DEF Places, x
<1>9. /\ first \in [at : 0 .. RingLen, n : 0 .. RingLen]
      /\ rest \in [at : Places, n : 0 .. RingLen]
    BY <1>1, <1>3, <1>6, <1>7, <1>8
<1> QED BY <1>1, <1>3, <1>7, <1>8, <1>9 DEF x

\* The memcpys of a read of n bytes: they stay inside the ring, add up to n,
\* take the oldest bytes in order, and leave dataoff inside the ring.
LEMMA ReadMoves ==
    ASSUME RingTypeOK, buflen = RingLen, NEW n \in 1 .. datalen,
           NEW first, first = ReadFirst(n),
           NEW rest, rest = ReadRest(n, first)
    PROVE  /\ first \in [at : 0 .. RingLen, n : 0 .. RingLen]
           /\ rest \in [at : Places, n : 0 .. RingLen]
           /\ first.n + rest.n = n
           /\ first.at + first.n <= RingLen
           /\ rest.at + rest.n = Wrapped(dataoff + n)
           /\ rest.at + rest.n \in Places
           /\ first.n > 0 => first.at = dataoff
           /\ rest.n > 0 => rest.at = Wrapped(dataoff + first.n)
           /\ first.n > 0 => first.n = RingLen - dataoff
<1> USE DEF Wrapped, Places
<1>1. /\ RingLen \in Nat \ {0} /\ datalen \in 0 .. RingLen
      /\ dataoff \in 0 .. RingLen - 1 /\ n \in 1 .. datalen
    BY RingLengths DEF RingTypeOK
<1>2. CASE dataoff >= RingLen - n
    <2>1. first = [at |-> dataoff, n |-> RingLen - dataoff]
        BY <1>2 DEF ReadFirst, Move
    <2>2. RingLen % RingLen = 0
        BY <1>1, WrapOnce
    <2>3. rest = [at |-> 0, n |-> n - (RingLen - dataoff)]
        BY <1>1, <2>1, <2>2 DEF ReadRest, Move
    <2> QED BY <1>1, <1>2, <2>1, <2>3
<1>3. CASE ~(dataoff >= RingLen - n)
    <2>1. first = [at |-> 0, n |-> 0] /\ rest = [at |-> dataoff, n |-> n]
        BY <1>1, <1>3 DEF ReadFirst, ReadRest, Move, Skip
    <2> QED BY <1>1, <1>3, <2>1
<1> QED BY <1>2, <1>3

\* Every call keeps the types and stays inside the ring.
LEMMA RingStep == RingInv /\ [RingNext]_ring_vars => RingInv'
<1> SUFFICES ASSUME RingInv, [RingNext]_ring_vars PROVE RingInv'
    OBVIOUS
<1> USE RingLengths DEF RingInv
<1>1. CASE UNCHANGED ring_vars
    BY <1>1 DEF ring_vars, ring, RingTypeOK, NoOverrun
<1>2. CASE ring_buffer_init \/ ring_buffer_reset \/ ring_buffer_deinit
    BY <1>2 DEF ring_buffer_init, ring_buffer_reset, ring_buffer_deinit, RingTypeOK,
                NoOverrun, Idle, Skip, Move
<1>3. ASSUME NEW m \in 0 .. MaxLen, NEW data \in [1 .. m -> Bytes],
             ring_buffer_write(data)
      PROVE  RingInv'
    <2>1. Len(data) = m
        OBVIOUS
    <2>2. CASE m = 0 \/ datalen = buflen \/ buflen <= 0
        BY <1>3, <2>1, <2>2 DEF ring_buffer_write, ring, RingTypeOK, NoOverrun, Idle,
                                Skip, Move
    <2>3. CASE ~(m = 0 \/ datalen = buflen \/ buflen <= 0)
        <3> DEFINE n == WriteCount(m)
        <3>1. buflen = RingLen /\ n \in 1 .. RingLen - datalen /\ n <= m
            BY <2>3 DEF RingTypeOK, WriteCount
        <3> HIDE DEF n
        <3>2. PICK first, rest : first = WriteFirst(n) /\ rest = WriteRest(n, first)
            OBVIOUS
        <3>3. /\ ring_ret' = n /\ moves' = <<first, rest>>
              /\ mem' = Stored(data, first, rest) /\ datalen' = datalen + n
              /\ buflen' = buflen /\ dataoff' = dataoff
            BY <1>3, <2>1, <2>3, <3>2 DEF ring_buffer_write, n
        <3>4. /\ first \in [at : 0 .. RingLen, n : 0 .. RingLen]
              /\ rest \in [at : Places, n : 0 .. RingLen]
              /\ first.n + rest.n = n
              /\ first.at + first.n <= RingLen
              /\ rest.at + rest.n <= RingLen
            BY <3>1, <3>2, WriteMoves
        <3>5. mem' \in [Places -> Bytes]
            <4>1. \A i \in Places :
                     /\ rest.at <= i /\ i < rest.at + rest.n
                           => first.n + i - rest.at + 1 \in 1 .. m
                     /\ first.at <= i /\ i < first.at + first.n
                           => i - first.at + 1 \in 1 .. m
                <5>1. /\ first.at \in Nat /\ first.n \in Nat /\ rest.at \in Nat
                      /\ rest.n \in Nat /\ m \in Nat /\ Places \subseteq Nat
                    BY <3>4 DEF Places
                <5>2. first.n + rest.n <= m /\ 0 + first.n <= m
                    BY <3>1, <3>4, <5>1
                <5> QED BY <5>1, <5>2, OffsetInCall
            <4> QED BY <3>3, <4>1 DEF Stored, RingTypeOK
        <3>6. RingTypeOK'
            BY <3>1, <3>3, <3>5 DEF RingTypeOK
        <3>7. NoOverrun'
            BY <3>1, <3>3, <3>4 DEF NoOverrun, Places
        <3> QED BY <3>6, <3>7
    <2> QED BY <2>2, <2>3
<1>4. ASSUME NEW m \in 0 .. MaxLen, ring_buffer_read(m)
      PROVE  RingInv'
    <2>2. CASE m = 0 \/ datalen = 0 \/ buflen <= 0
        BY <1>4, <2>2 DEF ring_buffer_read, ring, RingTypeOK, NoOverrun, Idle, Skip, Move
    <2>3. CASE ~(m = 0 \/ datalen = 0 \/ buflen <= 0)
        <3> DEFINE n == ReadCount(m)
        <3>1. buflen = RingLen /\ n \in 1 .. datalen /\ n <= m
            BY <2>3 DEF RingTypeOK, ReadCount
        <3> HIDE DEF n
        <3>2. PICK first, rest : first = ReadFirst(n) /\ rest = ReadRest(n, first)
            OBVIOUS
        <3>3. /\ ring_ret' = n /\ moves' = <<first, rest>>
              /\ mem' = mem /\ datalen' = datalen - n
              /\ buflen' = buflen /\ dataoff' = rest.at + rest.n
            BY <1>4, <2>3, <3>2 DEF ring_buffer_read, n
        <3>4. /\ first \in [at : 0 .. RingLen, n : 0 .. RingLen]
              /\ rest \in [at : Places, n : 0 .. RingLen]
              /\ first.n + rest.n = n
              /\ first.at + first.n <= RingLen
              /\ rest.at + rest.n \in Places
            BY <3>1, <3>2, ReadMoves
        <3>6. RingTypeOK'
            BY <3>1, <3>3, <3>4 DEF RingTypeOK, Places
        <3>7. NoOverrun'
            BY <3>1, <3>3, <3>4 DEF NoOverrun, Places, RingTypeOK
        <3> QED BY <3>6, <3>7
    <2> QED BY <2>2, <2>3
<1> QED BY <1>1, <1>2, <1>3, <1>4 DEF RingNext

\* The type invariant and NoOverrun hold of every ring.
THEOREM RingInvariant == RingSpec => []RingInv
<1>1. RingInit => RingInv
    BY RingLengths DEF RingInit, RingInv, RingTypeOK, NoOverrun, Idle, Skip, Move
<1> QED BY <1>1, RingStep, PTL DEF RingSpec

\* The data never outgrows the buffer and dataoff stays inside it, although
\* ring_buffer_read moves it without a modulo.
THEOREM RingTypeCorrect == RingSpec => []RingTypeOK
    BY RingInvariant, PTL DEF RingInv

\* No memcpy of ring_buffer_write or ring_buffer_read leaves the ring, for any
\* length of the buffer and of the call.
THEOREM RingNeverOverruns == RingSpec => []NoOverrun
    BY RingInvariant, PTL DEF RingInv

-----------------------------------------------------------------------------
\* The memcpys first and rest of n bytes behind `used` bytes that start at `off`
\* touch no byte in use and bring the j-th byte to the j-th place behind them.
Among(p, move) == move.at <= p /\ p < move.at + move.n
Untouched(off, used, first, rest) ==
    \A i \in 1 .. used : LET p == Wrapped(off + i - 1)
                         IN  ~Among(p, rest) /\ ~Among(p, first)
Covered(end, n, first, rest) ==
    \A j \in 1 .. n :
        LET p == Wrapped(end + j - 1)
        IN  IF j > first.n
            THEN Among(p, rest) /\ first.n + p - rest.at + 1 = j
            ELSE ~Among(p, rest) /\ Among(p, first) /\ p - first.at + 1 = j

LEMMA WritePlaces ==
    ASSUME RingTypeOK, buflen = RingLen, NEW n \in 1 .. RingLen - datalen,
           NEW first, first = WriteFirst(n),
           NEW rest, rest = WriteRest(n, first)
    PROVE  /\ Untouched(dataoff, datalen, first, rest)
           /\ Covered(dataoff + datalen, n, first, rest)
<1> DEFINE n1 == first.n
           n2 == rest.n
           at1 == first.at
           at2 == rest.at
<1>1. /\ RingLen \in Nat \ {0} /\ datalen \in 0 .. RingLen /\ dataoff \in 0 .. RingLen - 1
    BY RingLengths DEF RingTypeOK
<1>2. /\ n1 \in Nat /\ n2 \in Nat /\ n1 + n2 = n /\ at1 \in Nat /\ at2 \in Nat
      /\ at1 + n1 <= RingLen /\ at2 + n2 <= RingLen
      /\ n1 > 0 => at1 = Wrapped(dataoff + datalen)
      /\ n2 > 0 => at2 = Wrapped(dataoff + datalen + n1)
    BY WriteMoves DEF Places
<1> HIDE DEF n1, n2, at1, at2
<1>3. ASSUME NEW i \in 1 .. datalen, NEW p, p = Wrapped(dataoff + i - 1)
      PROVE  ~(at2 <= p /\ p < at2 + n2) /\ ~(at1 <= p /\ p < at1 + n1)
    BY <1>1, <1>2, <1>3 DEF Wrapped
<1>4. ASSUME NEW j \in 1 .. n, NEW p, p = Wrapped(dataoff + datalen + j - 1)
      PROVE  IF j > n1
             THEN at2 <= p /\ p < at2 + n2 /\ n1 + p - at2 + 1 = j
             ELSE /\ ~(at2 <= p /\ p < at2 + n2)
                  /\ at1 <= p /\ p < at1 + n1 /\ p - at1 + 1 = j
    BY <1>1, <1>2, <1>4 DEF Wrapped
<1>5. Untouched(dataoff, datalen, first, rest)
    BY <1>3 DEF Untouched, Among, n1, n2, at1, at2
<1>6. Covered(dataoff + datalen, n, first, rest)
    BY <1>4 DEF Covered, Among, n1, n2, at1, at2
<1> QED BY <1>5, <1>6

\* The bytes of a ring are a list: `used` of them, from the place `off` on.
Listed(b, off, used) == [i \in 1 .. used |-> b[Wrapped(off + i - 1)]]

LEMMA ListedIsList ==
    ASSUME NEW b \in [Places -> Bytes], NEW off \in 0 .. RingLen - 1,
           NEW used \in 0 .. RingLen
    PROVE  /\ Listed(b, off, used) \in Seq(Bytes) /\ Len(Listed(b, off, used)) = used
           /\ \A i \in 1 .. used : /\ Wrapped(off + i - 1) \in Places
                                   /\ Listed(b, off, used)[i] = b[Wrapped(off + i - 1)]
<1>1. \A i \in 1 .. used : Wrapped(off + i - 1) \in Places
    BY RingLengths DEF Wrapped, Places
<1>2. used \in Nat /\ Listed(b, off, used) \in [1 .. used -> Bytes]
  <2>1. used \in Nat
      BY RingLengths
  <2>2. \A i \in 1 .. used : b[Wrapped(off + i - 1)] \in Bytes
      BY <1>1
  <2> QED
      BY <2>1, <2>2 DEF Listed
<1>3. \A i \in 1 .. used : Listed(b, off, used)[i] = b[Wrapped(off + i - 1)]
    BY DEF Listed
<1> QED
    BY <1>1, <1>2, <1>3, FunctionIsList

\* It is what the refinement mapping takes for the stream.
Mapped ==
    RingTypeOK => /\ dataoff \in 0 .. RingLen - 1 /\ datalen \in 0 .. RingLen
              /\ mem \in [Places -> Bytes]
              /\ Content = Listed(mem, dataoff, datalen)

LEMMA ContentListed == Mapped /\ Mapped'
<1>1. Mapped
  <2> SUFFICES ASSUME RingTypeOK PROVE Mapped
    BY DEF Mapped
  <2>1. /\ dataoff \in 0 .. RingLen - 1 /\ datalen \in 0 .. RingLen
        /\ mem \in [Places -> Bytes]
    BY RingLengths DEF RingTypeOK
  <2>2. dataoff \in Int /\ datalen \in Int
    BY <2>1, RingLengths
  <2>3. Content = Listed(mem, dataoff, datalen)
    BY <2>2, RingLengths DEF Content, PlaceOf, Listed, Wrapped
  <2> QED
    BY <2>1, <2>3 DEF Mapped
<1> QED
    BY <1>1, PTL

\* A write appends as much as fits.
LEMMA WriteAppends ==
    ASSUME RingInv, RingInv', NEW m \in 0 .. MaxLen, NEW data \in [1 .. m -> Bytes],
           ring_buffer_write(data)
    PROVE  Stream!Write(data)
<1> USE RingLengths
<1>1. data \in Seq(Bytes) /\ Len(data) = m /\ m \in Nat
    BY FunctionIsList
<1>2. /\ buflen \in {0, RingLen} /\ datalen \in 0 .. buflen /\ datalen \in 0 .. RingLen
      /\ dataoff \in 0 .. RingLen - 1 /\ mem \in [Places -> Bytes]
    BY DEF RingInv, RingTypeOK
<1>3. /\ Content \in Seq(Bytes) /\ Len(Content) = datalen
      /\ \A i \in 1 .. datalen : /\ Wrapped(dataoff + i - 1) \in Places
                                 /\ Content[i] = mem[Wrapped(dataoff + i - 1)]
  <2>1. Content = Listed(mem, dataoff, datalen)
    BY ContentListed DEF Mapped, RingInv
  <2> QED
    BY <1>2, <2>1, ListedIsList
<1>4. data = << >> <=> m = 0
    BY <1>1, EmptySeq
<1>5. CASE m = 0 \/ datalen = buflen \/ buflen <= 0
    <2>1. /\ UNCHANGED <<mem, ring>> /\ out' = << >>
          /\ ring_ret' = IF m = 0 THEN -1 ELSE 0
        BY <1>1, <1>5 DEF ring_buffer_write
    <2>2. Content' = Content
        BY <2>1 DEF Content, PlaceOf, ring
    <2>3. Content = Content \o SubSeq(data, 1, 0)
        BY <1>3, SubSeqEmpty, ConcatEmptySeq
    <2> DEFINE room == IF buflen > 0 THEN RingLen - Len(Content) ELSE 0
    <2>4. Stream!Moved(Len(data), room) = 0
        BY <1>1, <1>2, <1>3, <1>5 DEF Stream!Moved
    <2> QED
        BY <1>4, <2>1, <2>2, <2>3, <2>4 DEF Stream!Write, ring
<1>6. CASE ~(m = 0 \/ datalen = buflen \/ buflen <= 0)
    <2> DEFINE n == WriteCount(m)
               part == SubSeq(data, 1, n)
               all == Content \o part
    <2>1. buflen = RingLen /\ n \in 1 .. RingLen - datalen /\ n <= m
        BY <1>2, <1>6 DEF WriteCount
    <2>2. n = Stream!Moved(Len(data), IF buflen > 0 THEN RingLen - Len(Content) ELSE 0)
        BY <1>1, <1>2, <1>3, <1>6 DEF WriteCount, Stream!Moved
    <2>3. PICK first, rest : first = WriteFirst(n) /\ rest = WriteRest(n, first)
        OBVIOUS
    <2>4. /\ ring_ret' = n /\ out' = << >>
          /\ mem' = Stored(data, first, rest) /\ datalen' = datalen + n
          /\ buflen' = buflen /\ dataoff' = dataoff
        BY <1>1, <1>6, <2>3 DEF ring_buffer_write
    <2> HIDE DEF n
    <2>5. /\ part \in Seq(Bytes) /\ Len(part) = n
          /\ \A j \in 1 .. n : part[j] = data[j]
        <3>1. \A j \in 1 .. n : data[j] \in Bytes
            BY <2>1
        <3>2. n \in Int /\ 1 <= n
            BY <2>1, <1>3
        <3> QED
            BY <3>1, <3>2, SubSeqProperties
    <2>6. /\ all \in Seq(Bytes) /\ Len(all) = datalen + n
          /\ \A i \in 1 .. datalen : all[i] = Content[i]
          /\ \A j \in 1 .. n : all[datalen + j] = part[j]
        <3> HIDE DEF part
        <3>1. /\ all \in Seq(Bytes) /\ Len(all) = Len(Content) + Len(part)
              /\ \A i \in 1 .. Len(Content) : all[i] = Content[i]
              /\ \A j \in 1 .. Len(part) : all[Len(Content) + j] = part[j]
            <4>1. Content \in Seq(Bytes) /\ part \in Seq(Bytes)
                BY <1>3, <2>5
            <4> QED
                BY <4>1, Concatenated
        <3> HIDE DEF all
        <3> QED
            BY <1>3, <2>5, <3>1
    <2> HIDE DEF part, all
    <2>7. /\ mem' \in [Places -> Bytes] /\ datalen + n \in 0 .. RingLen
          /\ Content' = Listed(mem', dataoff, datalen + n)
        BY <2>4, ContentListed DEF Mapped, RingInv
    <2>8. /\ Content' \in Seq(Bytes) /\ Len(Content') = datalen + n
          /\ \A i \in 1 .. datalen + n :
               /\ Wrapped(dataoff + i - 1) \in Places
               /\ Content'[i] = mem'[Wrapped(dataoff + i - 1)]
        <3> DEFINE b == mem'
                   used == datalen + n
        <3>1. b \in [Places -> Bytes] /\ used \in 0 .. RingLen
            BY <2>7
        <3>2. Content' = Listed(b, dataoff, used)
            BY <2>7
        <3> HIDE DEF b, used
        <3>3. /\ Listed(b, dataoff, used) \in Seq(Bytes)
              /\ Len(Listed(b, dataoff, used)) = used
              /\ \A i \in 1 .. used :
                   /\ Wrapped(dataoff + i - 1) \in Places
                   /\ Listed(b, dataoff, used)[i] = b[Wrapped(dataoff + i - 1)]
            BY <1>2, <3>1, ListedIsList
        <3> QED
            BY <3>2, <3>3 DEF b, used
    <2>9. Untouched(dataoff, datalen, first, rest)
        BY <2>1, <2>3, WritePlaces DEF RingInv
    <2>10. Covered(dataoff + datalen, n, first, rest)
        BY <2>1, <2>3, WritePlaces DEF RingInv
    <2>11. \A i \in 1 .. datalen : Content'[i] = all[i]
        <3> TAKE i \in 1 .. datalen
        <3> DEFINE p == Wrapped(dataoff + i - 1)
        <3>1. p \in Places /\ Content[i] = mem[p] /\ all[i] = Content[i]
            BY <1>3, <2>6
        <3>2. i \in 1 .. datalen + n
            BY <1>2, <2>1
        <3>3. Content'[i] = mem'[p]
            BY <2>8, <3>2
        <3>4. mem'[p] = mem[p]
            BY <2>4, <2>9, <3>1 DEF Stored, Untouched, Among
        <3> QED
            BY <3>1, <3>3, <3>4
    <2>12. \A j \in 1 .. n : Content'[datalen + j] = all[datalen + j]
        <3> TAKE j \in 1 .. n
        <3> DEFINE p == Wrapped(dataoff + datalen + j - 1)
        <3>1. datalen + j \in 1 .. datalen + n
              /\ dataoff + (datalen + j) - 1 = dataoff + datalen + j - 1
            BY <1>2, <2>1
        <3>2. p \in Places /\ Content'[datalen + j] = mem'[p]
            BY <2>8, <3>1
        <3>3. all[datalen + j] = data[j]
            BY <2>5, <2>6
        <3>4. mem'[p] = data[j]
            BY <2>4, <2>10, <3>2 DEF Stored, Covered, Among
        <3> QED
            BY <3>2, <3>3, <3>4
    <2>13. Content' = all
        <3>1. \A i \in 1 .. datalen + n : Content'[i] = all[i]
            <4> TAKE i \in 1 .. datalen + n
            <4>1. CASE i <= datalen
                BY <1>2, <2>1, <2>11, <4>1
            <4>2. CASE i > datalen
                <5>1. i - datalen \in 1 .. n /\ i = datalen + (i - datalen)
                    BY <1>2, <2>1, <4>2
                <5> QED
                    BY <2>12, <5>1
            <4> QED
                BY <1>2, <2>1, <4>1, <4>2
        <3> QED
            BY <2>6, <2>8, <3>1, SeqEqual
    <2> QED
        BY <1>4, <1>6, <2>2, <2>4, <2>13 DEF Stream!Write, all, part
<1> QED BY <1>5, <1>6

\* The memcpys of a read bring the oldest bytes, in order.
LEMMA ReadPlaces ==
    ASSUME RingTypeOK, buflen = RingLen, NEW n \in 1 .. datalen,
           NEW first, first = ReadFirst(n),
           NEW rest, rest = ReadRest(n, first)
    PROVE  Fetched(n, first, rest) = Listed(mem, dataoff, n)
<1> DEFINE n1 == first.n
           n2 == rest.n
           at1 == first.at
           at2 == rest.at
<1>1. /\ RingLen \in Nat \ {0} /\ datalen \in 0 .. RingLen /\ dataoff \in 0 .. RingLen - 1
    BY RingLengths DEF RingTypeOK
<1>2. /\ n1 \in Nat /\ n2 \in Nat /\ n1 + n2 = n /\ at1 \in Nat /\ at2 \in Nat
      /\ n1 > 0 => at1 = dataoff /\ n1 = RingLen - dataoff
      /\ n2 > 0 => at2 = Wrapped(dataoff + n1)
      /\ at2 + n2 = Wrapped(dataoff + n)
    BY ReadMoves DEF Places
<1> HIDE DEF n1, n2, at1, at2
<1>3. ASSUME NEW j \in 1 .. n
      PROVE  (IF j <= n1 THEN at1 + j - 1 ELSE at2 + j - 1 - n1)
                = Wrapped(dataoff + j - 1)
    BY <1>1, <1>2 DEF Wrapped
<1>4. \A j \in 1 .. n : (IF j <= n1 THEN mem[at1 + j - 1] ELSE mem[at2 + j - 1 - n1])
                          = mem[Wrapped(dataoff + j - 1)]
    BY <1>3
<1> QED
    BY <1>4 DEF Fetched, Listed, n1, n2, at1, at2

\* The first n bytes of a ring, and the others.
LEMMA ListedParts ==
    ASSUME NEW b \in [Places -> Bytes], NEW off \in 0 .. RingLen - 1,
           NEW used \in 0 .. RingLen, NEW n \in 1 .. used
    PROVE  /\ SubSeq(Listed(b, off, used), 1, n) = Listed(b, off, n)
           /\ SubSeq(Listed(b, off, used), n + 1, used)
                = Listed(b, Wrapped(off + n), used - n)
<1> DEFINE all == Listed(b, off, used)
<1>1. /\ RingLen \in Nat \ {0} /\ used \in Nat /\ n \in Nat /\ n \in 0 .. RingLen
      /\ used - n \in 0 .. RingLen /\ Wrapped(off + n) \in 0 .. RingLen - 1
    BY RingLengths DEF Wrapped
<1>2. /\ all \in Seq(Bytes) /\ Len(all) = used
      /\ \A i \in 1 .. used : all[i] = b[Wrapped(off + i - 1)] /\ all[i] \in Bytes
  <2>1. /\ all \in Seq(Bytes) /\ Len(all) = used
        /\ \A i \in 1 .. used : all[i] = b[Wrapped(off + i - 1)]
    BY ListedIsList
  <2> QED
    BY <2>1, ElementOfSeq
<1> HIDE DEF all
<1>3. SubSeq(all, 1, n) = Listed(b, off, n)
  <2> DEFINE old == Listed(b, off, n)
             part == SubSeq(all, 1, n)
  <2>1. /\ old \in Seq(Bytes) /\ Len(old) = n
        /\ \A i \in 1 .. n : old[i] = b[Wrapped(off + i - 1)]
    BY <1>1, ListedIsList
  <2>2. \A i \in 1 .. n : all[i] \in Bytes
    BY <1>1, <1>2
  <2>3. /\ part \in Seq(Bytes) /\ Len(part) = n
        /\ \A i \in 1 .. n : part[i] = all[i]
    BY <1>1, <2>2, SubSeqProperties
  <2> HIDE DEF old, part
  <2>4. \A i \in 1 .. n : part[i] = old[i]
    <3> TAKE i \in 1 .. n
    <3>1. i \in 1 .. used
      BY <1>1
    <3> QED
      BY <1>2, <2>1, <2>3, <3>1
  <2>5. part = old
    BY <2>1, <2>3, <2>4, SeqEqual
  <2> QED
    BY <2>5 DEF old, part
<1>4. SubSeq(all, n + 1, used) = Listed(b, Wrapped(off + n), used - n)
  <2> DEFINE new == Listed(b, Wrapped(off + n), used - n)
             part == SubSeq(all, n + 1, used)
  <2>1. /\ new \in Seq(Bytes) /\ Len(new) = used - n
        /\ \A i \in 1 .. used - n : new[i] = b[Wrapped(Wrapped(off + n) + i - 1)]
    BY <1>1, ListedIsList
  <2>2. \A i \in n + 1 .. used : all[i] \in Bytes
    BY <1>1, <1>2
  <2>3. /\ part \in Seq(Bytes) /\ Len(part) = used - n
        /\ \A i \in 1 .. used - n : part[i] = all[n + i]
    <3>1. /\ part \in Seq(Bytes)
          /\ Len(part) = IF n + 1 <= used THEN used - (n + 1) + 1 ELSE 0
          /\ \A i \in 1 .. used - (n + 1) + 1 : part[i] = all[(n + 1) + i - 1]
      BY <1>1, <2>2, SubSeqProperties
    <3> HIDE DEF part
    <3> QED
      BY <1>1, <3>1
  <2>4. \A i \in 1 .. used - n : Wrapped(Wrapped(off + n) + i - 1) = Wrapped(off + (n + i) - 1)
    BY <1>1 DEF Wrapped
  <2> HIDE DEF new, part
  <2>5. \A i \in 1 .. used - n : part[i] = new[i]
    <3> TAKE i \in 1 .. used - n
    <3>1. n + i \in 1 .. used
      BY <1>1
    <3> QED
      BY <1>2, <2>1, <2>3, <2>4, <3>1
  <2>6. part = new
    BY <2>1, <2>3, <2>5, SeqEqual
  <2> QED
    BY <2>6 DEF new, part
<1> QED
    BY <1>3, <1>4 DEF all

\* A read delivers and removes the oldest bytes, as many as there are.
LEMMA ReadRemoves ==
    ASSUME RingInv, RingInv', NEW m \in 0 .. MaxLen, ring_buffer_read(m)
    PROVE  Stream!Read(m)
<1> USE RingLengths
<1>1. /\ buflen \in {0, RingLen} /\ datalen \in 0 .. buflen /\ datalen \in 0 .. RingLen
      /\ dataoff \in 0 .. RingLen - 1 /\ mem \in [Places -> Bytes] /\ m \in Nat
    BY DEF RingInv, RingTypeOK
<1>2. Content = Listed(mem, dataoff, datalen)
    BY ContentListed DEF Mapped, RingInv
<1>3. Content \in Seq(Bytes) /\ Len(Content) = datalen
    BY <1>1, <1>2, ListedIsList
<1>4. CASE m = 0 \/ datalen = 0 \/ buflen <= 0
    <2>1. /\ UNCHANGED <<mem, ring>> /\ out' = << >>
          /\ ring_ret' = IF m = 0 THEN -1 ELSE 0
        BY <1>4 DEF ring_buffer_read, ring
    <2>2. Content' = Content
        BY <2>1 DEF Content, PlaceOf, ring
    <2>3. SubSeq(Content, 1, 0) = << >> /\ SubSeq(Content, 1, Len(Content)) = Content
        BY <1>3, SubSeqEmpty, SubSeqFull
    <2>4. Stream!Moved(m, Len(Content)) = 0
        BY <1>1, <1>3, <1>4 DEF Stream!Moved
    <2> QED
        BY <2>1, <2>2, <2>3, <2>4 DEF Stream!Read, ring
<1>5. CASE ~(m = 0 \/ datalen = 0 \/ buflen <= 0)
    <2> DEFINE n == ReadCount(m)
    <2>1. buflen = RingLen /\ n \in 1 .. datalen /\ n <= m
        BY <1>1, <1>5 DEF ReadCount
    <2>2. n = Stream!Moved(m, Len(Content))
        BY <1>3 DEF ReadCount, Stream!Moved
    <2>3. PICK first, rest : first = ReadFirst(n) /\ rest = ReadRest(n, first)
        OBVIOUS
    <2>4. /\ ring_ret' = n /\ out' = Fetched(n, first, rest)
          /\ mem' = mem /\ datalen' = datalen - n
          /\ buflen' = buflen /\ dataoff' = rest.at + rest.n
        BY <1>5, <2>3 DEF ring_buffer_read
    <2> HIDE DEF n
    <2>5. out' = Listed(mem, dataoff, n)
        BY <2>1, <2>3, <2>4, ReadPlaces DEF RingInv
    <2>6. dataoff' = Wrapped(dataoff + n)
        BY <2>1, <2>3, <2>4, ReadMoves DEF RingInv
    <2>7. Content' = Listed(mem, Wrapped(dataoff + n), datalen - n)
        BY <2>4, <2>6, ContentListed DEF Mapped, RingInv
    <2>8. /\ SubSeq(Content, 1, n) = Listed(mem, dataoff, n)
          /\ SubSeq(Content, n + 1, datalen)
               = Listed(mem, Wrapped(dataoff + n), datalen - n)
        BY <1>1, <1>2, <2>1, ListedParts
    <2> QED
        BY <1>3, <1>5, <2>2, <2>4, <2>5, <2>7, <2>8 DEF Stream!Read
<1> QED BY <1>4, <1>5

\* Initialising, resetting and releasing leave no bytes.
LEMMA RestartEmpties ==
    ASSUME RingInv, RingInv', ring_buffer_init \/ ring_buffer_reset \/ ring_buffer_deinit
    PROVE  Stream!Restart
<1>1. datalen' = 0 /\ ring_ret' = 0 /\ out' = << >>
    BY DEF ring_buffer_init, ring_buffer_reset, ring_buffer_deinit
<1>2. Content' = << >>
    BY <1>1 DEF Content
<1>3. (buflen > 0)' \in BOOLEAN
    OBVIOUS
<1> QED BY <1>1, <1>2, <1>3 DEF Stream!Restart

\* reads deliver the bytes written, in order, once each: the ring implements a
\* bounded byte stream, for any buffer, any offset and any length of a call.
THEOREM RingIsStream == RingSpec => StreamRefinement
<1>1. RingInit => Stream!ByteInit
    BY DEF RingInit, Stream!ByteInit, Content
<1>2. RingInv /\ RingInv' /\ [RingNext]_ring_vars => [Stream!ByteNext]_(Stream!byteVars)
    <2> SUFFICES ASSUME RingInv, RingInv', [RingNext]_ring_vars
                 PROVE  [Stream!ByteNext]_(Stream!byteVars)
        OBVIOUS
    <2>1. CASE UNCHANGED ring_vars
        BY <2>1 DEF ring_vars, ring, Content, PlaceOf, Stream!byteVars
    <2>2. CASE ring_buffer_init \/ ring_buffer_reset \/ ring_buffer_deinit
        BY <2>2, RestartEmpties DEF Stream!ByteNext
    <2>3. ASSUME NEW m \in 0 .. MaxLen, NEW data \in [1 .. m -> Bytes],
                 ring_buffer_write(data)
          PROVE  Stream!ByteNext
        BY <2>3, WriteAppends DEF Stream!ByteNext
    <2>4. ASSUME NEW m \in 0 .. MaxLen, ring_buffer_read(m)
          PROVE  Stream!ByteNext
        BY <2>4, ReadRemoves DEF Stream!ByteNext
    <2> QED BY <2>1, <2>2, <2>3, <2>4 DEF RingNext
<1> QED
    BY <1>1, <1>2, RingInvariant, PTL DEF RingSpec, StreamRefinement, Stream!ByteSpec
=============================================================================
