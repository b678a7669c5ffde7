------------------------------- MODULE Stimer -------------------------------
(***************************************************************************)
(* The soft timers of stimer/stimer.c: tasks create, delete and control    *)
(* timers, which a list sorted by dead_time holds; the daemon sleeps on a  *)
(* semaphore until the first of them is due and runs the handlers.         *)
(*                                                                         *)
(* Each timer is used by one task, which is named after it: a call on a    *)
(* timer that another task is deleting is an error of the callers.  Only   *)
(* the daemon keeps the mutex over several steps (handlers take time); the *)
(* other critical sections are one step, taken when the mutex is free.     *)
(*                                                                         *)
(* Definitions named M_... are deliberate faults the runs must detect; the *)
(* specification uses none of them.                                        *)
(***************************************************************************)
EXTENDS Integers, Sequences, SequencesExt

CONSTANTS
    Timers,     \* timers, and the tasks that use them
    NoItem,     \* a null pointer
    Cycles,     \* the cycles that callers ask for
    WaitMax,    \* cn_stimer_wait_max: the largest uint32_t, "wait for ever"
    MaxTime     \* bound on the clock

\* A cycle of WaitMax would never end: it reads as "wait for ever".  A cycle of
\* 0 of a periodic timer would keep the daemon in timer_scan for ever.
ASSUME CycleRange == Cycles \subseteq 1 .. WaitMax - 1
ASSUME BoundTypes == /\ WaitMax \in Nat /\ MaxTime \in Nat
                     /\ NoItem \notin Timers

VARIABLES
    now,         \* osal_sys_time
    semp,        \* the count of s_stimer_cb.semp, at most 1
    lst,         \* s_stimer_cb.lst
    item,        \* the fields of each stimer_item_t
    call,        \* where the task of each timer is in the API
    dpc,         \* where the daemon is in __timer_entry
    wait,        \* wait_time
    cur,         \* cur_time: that of timer_scan, later that of __timer_entry
    handled,     \* the item that timer_scan has taken off the list, or NoItem
    daemon_exit, \* s_stimer_cb.daemon_exit
    lock_failed  \* whether osal_mutex_lock has ever returned false

daemon == <<dpc, wait, cur, handled>>
vars == <<now, semp, lst, item, call, daemon, daemon_exit, lock_failed>>

\* cn_stimer_dead_max: later than anything.
DeadMax == MaxTime + WaitMax + 1
Blank == [cycle |-> 0, once |-> FALSE, start |-> FALSE, dead |-> DeadMax]

Listed == {t \in Timers : call[t] \in {"created", "idle"}}
MutexFree == dpc \notin {"scan", "handler"}
Post == semp' = 1

Place(t) == CHOOSE i \in DOMAIN lst : lst[i] = t
timer_remove(t) ==
    IF \E i \in DOMAIN lst : lst[i] = t THEN RemoveAt(lst, Place(t)) ELSE lst

\* timer_add: behind the items that are due earlier, before the others.
M_AddAtHead(l, t, its) == <<t>> \o l
timer_add(l, t, its) ==
    LET later(p) == p > Len(l) \/ its[l[p]].dead >= its[t].dead
        p == CHOOSE p \in 1 .. Len(l) + 1 :
                 later(p) /\ \A q \in 1 .. p - 1 : ~later(q)
    IN  InsertAt(l, p, t)

-----------------------------------------------------------------------------
(* stimer_create and stimer_delete: the post comes after the unlock. *)

\* The item is filled in before the mutex is taken.
stimer_create(t, cycle, once, start) ==
    /\ call[t] = "none"
    /\ item' = [item EXCEPT ![t] =
                   [cycle |-> cycle, once |-> once, start |-> start,
                    dead |-> IF start THEN now + cycle ELSE DeadMax]]
    /\ call' = [call EXCEPT ![t] = "creating"]
    /\ UNCHANGED <<now, semp, lst, daemon, daemon_exit, lock_failed>>

create_add(t) ==
    /\ call[t] = "creating"
    /\ MutexFree
    /\ lst' = timer_add(lst, t, item)
    /\ call' = [call EXCEPT ![t] = "created"]
    /\ UNCHANGED <<now, semp, item, daemon, daemon_exit, lock_failed>>

\* The mutex is not granted: the item is freed.
create_fails(t) ==
    /\ call[t] = "creating"
    /\ lock_failed' = TRUE
    /\ item' = [item EXCEPT ![t] = Blank]
    /\ call' = [call EXCEPT ![t] = "none"]
    /\ UNCHANGED <<now, semp, lst, daemon, daemon_exit>>

stimer_delete(t) ==
    /\ call[t] = "idle"
    /\ MutexFree
    /\ lst' = timer_remove(t)
    /\ item' = [item EXCEPT ![t] = Blank]
    /\ call' = [call EXCEPT ![t] = "deleted"]
    /\ UNCHANGED <<now, semp, daemon, daemon_exit, lock_failed>>

M_PostForgotten(t) ==
    /\ call[t] \in {"created", "deleted"}
    /\ call' = [call EXCEPT ![t] = IF call[t] = "created" THEN "idle" ELSE "none"]
    /\ UNCHANGED <<semp, now, lst, item, daemon, daemon_exit, lock_failed>>
post_after(t) ==
    /\ call[t] \in {"created", "deleted"}
    /\ Post
    /\ call' = [call EXCEPT ![t] = IF call[t] = "created" THEN "idle" ELSE "none"]
    /\ UNCHANGED <<now, lst, item, daemon, daemon_exit, lock_failed>>

-----------------------------------------------------------------------------
(* stimer_ioctl: stop, start and recycle requeue the item and post before  *)
(* the unlock; gettime and the unknown options change nothing.             *)

Requeue(t, it) ==
    /\ call[t] = "idle"
    /\ MutexFree
    /\ item' = [item EXCEPT ![t] = it]
    /\ lst' = timer_add(timer_remove(t), t, item')
    /\ Post
    /\ UNCHANGED <<now, call, daemon, daemon_exit, lock_failed>>

M_StopKeepsDeadline(t) ==
    Requeue(t, [item[t] EXCEPT !.start = FALSE])
ioctl_stop(t) ==
    Requeue(t, [item[t] EXCEPT !.start = FALSE, !.dead = DeadMax])

ioctl_start(t) ==
    Requeue(t, [item[t] EXCEPT !.start = TRUE, !.dead = item[t].cycle + now])

ioctl_recycle(t, cycle) ==
    Requeue(t, [item[t] EXCEPT
                   !.cycle = cycle,
                   !.dead = IF item[t].start THEN cycle + now ELSE @])

-----------------------------------------------------------------------------
(* The daemon, __timer_entry. *)

stimer_daemonquit ==
    /\ daemon_exit' = TRUE
    /\ UNCHANGED <<now, semp, lst, item, call, daemon, lock_failed>>

\* A daemon that is told to quit returns, and its locals are gone.
entry_loop ==
    /\ dpc = "loop"
    /\ IF daemon_exit THEN dpc' = "returned" /\ wait' = WaitMax /\ cur' = 0
       ELSE dpc' = "pend" /\ UNCHANGED <<wait, cur>>
    /\ UNCHANGED <<now, semp, lst, item, call, handled, daemon_exit, lock_failed>>

\* osal_semp_pend: a post wakes the daemon, or the timeout does.  A finite
\* timeout may end early (the Linux port adds the milliseconds in a wrong
\* unit), so it is not tied to the clock here.  cur_time is not used again.
entry_pend ==
    /\ dpc = "pend"
    /\ \/ semp = 1 /\ semp' = 0
       \/ wait # WaitMax /\ UNCHANGED semp
    /\ dpc' = "lock" /\ cur' = 0
    /\ UNCHANGED <<now, lst, item, call, wait, handled, daemon_exit, lock_failed>>

entry_lock ==
    /\ dpc = "lock"
    /\ \/ dpc' = "scan" /\ UNCHANGED lock_failed
       \/ dpc' = "sample" /\ lock_failed' = TRUE
    /\ UNCHANGED <<now, semp, lst, item, call, wait, cur, handled, daemon_exit>>

\* The check of timer_scan.
M_DueStrictly(it) == it.dead < now
Due(it) == it.dead <= now

\* One turn of the loop of timer_scan: the first item is due and its handler
\* starts, or the scan ends and the mutex is released.
timer_scan ==
    /\ dpc = "scan"
    /\ IF lst = << >>
       THEN dpc' = "sample" /\ UNCHANGED <<lst, cur, handled, lock_failed>>
       ELSE LET first == Head(lst)
            IN  /\ cur' = now
                /\ IF Due(item[first])
                   THEN handled' = first /\ lst' = Tail(lst) /\ dpc' = "handler"
                   ELSE /\ lst' = timer_add(Tail(lst), first, item)
                        /\ dpc' = "sample"
                        /\ UNCHANGED handled
    /\ UNCHANGED <<now, semp, item, call, wait, daemon_exit, lock_failed>>

\* The handler returns: the timer is stopped or set again, and listed.
Expired(it) ==
    IF it.once THEN [it EXCEPT !.start = FALSE, !.dead = DeadMax]
    ELSE [it EXCEPT !.dead = cur + it.cycle]

handler_return ==
    /\ dpc = "handler"
    /\ item' = [item EXCEPT ![handled] = Expired(@)]
    /\ lst' = timer_add(lst, handled, item')
    /\ handled' = NoItem
    /\ dpc' = "scan"
    /\ UNCHANGED <<now, semp, call, wait, cur, daemon_exit, lock_failed>>

\* cur_time is read before the mutex is taken again.
entry_sample ==
    /\ dpc = "sample"
    /\ cur' = now
    /\ dpc' = "compute"
    /\ UNCHANGED <<now, semp, lst, item, call, wait, handled, daemon_exit, lock_failed>>

\* The wait until the first item is due, an uint32_t.
WaitTime ==
    IF lst = << >> \/ item[Head(lst)].dead = DeadMax THEN WaitMax
    ELSE LET d == item[Head(lst)].dead
             w == IF d > cur THEN (d - cur) % (WaitMax + 1) ELSE 0
         IN  IF w > WaitMax - 1 THEN WaitMax ELSE w

entry_compute ==
    /\ dpc = "compute"
    /\ \/ wait' = WaitTime /\ UNCHANGED lock_failed
       \/ UNCHANGED wait /\ lock_failed' = TRUE
    /\ dpc' = "loop"
    /\ UNCHANGED <<now, semp, lst, item, call, cur, handled, daemon_exit>>

-----------------------------------------------------------------------------
Tick ==
    /\ now < MaxTime
    /\ now' = now + 1
    /\ UNCHANGED <<semp, lst, item, call, daemon, daemon_exit, lock_failed>>

\* stimer_init has succeeded; its task has not run yet.
Init ==
    /\ now = 0 /\ semp = 0 /\ lst = << >>
    /\ item = [t \in Timers |-> Blank]
    /\ call = [t \in Timers |-> "none"]
    /\ dpc = "loop" /\ wait = WaitMax /\ cur = 0 /\ handled = NoItem
    /\ daemon_exit = FALSE /\ lock_failed = FALSE

Finish(t) == create_add(t) \/ create_fails(t) \/ post_after(t)

Task(t) ==
    \/ Finish(t)
    \/ \E cycle \in Cycles, once, start \in BOOLEAN :
          stimer_create(t, cycle, once, start)
    \/ stimer_delete(t)
    \/ ioctl_stop(t)
    \/ ioctl_start(t)
    \/ \E cycle \in Cycles : ioctl_recycle(t, cycle)

Daemon ==
    \/ entry_loop \/ entry_pend \/ entry_lock \/ timer_scan \/ handler_return
    \/ entry_sample \/ entry_compute

Next == Daemon \/ Tick \/ stimer_daemonquit \/ \E t \in Timers : Task(t)

Spec == Init /\ [][Next]_vars

\* The scheduler runs every task that can run; time goes on.
Fairness ==
    /\ WF_vars(Daemon) /\ WF_vars(Tick)
    /\ \A t \in Timers : WF_vars(Finish(t))

FairSpec == Spec /\ Fairness

-----------------------------------------------------------------------------
\* The types.
TypeOK ==
    /\ now \in 0 .. MaxTime /\ semp \in 0 .. 1 /\ cur \in 0 .. MaxTime
    /\ lst \in Seq(Timers)
    /\ item \in [Timers -> [cycle : Cycles \cup {0}, once : BOOLEAN,
                            start : BOOLEAN, dead : 0 .. DeadMax]]
    /\ call \in [Timers -> {"none", "creating", "created", "idle", "deleted"}]
    /\ dpc \in {"loop", "pend", "lock", "scan", "handler", "sample", "compute",
                "returned"}
    /\ wait \in 0 .. WaitMax
    /\ handled \in Timers \cup {NoItem}
    /\ daemon_exit \in BOOLEAN /\ lock_failed \in BOOLEAN

\* Every variable has its type, and the list is sorted by dead_time and holds
\* every timer of the application once, except the one whose handler runs:
\* timer_scan has it in its hands while other tasks ask for theirs.
ListSound ==
    /\ TypeOK
    /\ \A i, j \in 1 .. Len(lst) : i < j => item[lst[i]].dead <= item[lst[j]].dead
    /\ \A i, j \in 1 .. Len(lst) : lst[i] = lst[j] => i = j
    /\ {lst[i] : i \in 1 .. Len(lst)} = Listed \ {handled}
    /\ dpc = "handler" <=> handled # NoItem

\* A handler runs only for a timer that exists and is started: once
\* stimer_delete or a stop has returned, it is not running and will not.
QuietWhenStopped ==
    dpc = "handler" => handled \in Listed /\ item[handled].start

\* When timer_scan ends, no started timer was due when it looked at the clock.
ScanComplete ==
    [][dpc = "scan" /\ dpc' = "sample"
          => \A t \in Listed : item[t].start => item[t].dead > now]_vars

\* The daemon never sleeps past a deadline: the wait it pends for ends no later
\* than the first started timer is due, counted from the clock it read, unless
\* a post is there or about to come (or the mutex was refused, which loses a
\* turn).
NeverOversleep ==
    ~lock_failed /\ dpc \in {"loop", "pend"} =>
        \/ semp = 1
        \/ \E t \in Timers : call[t] \in {"created", "deleted"}
        \/ \A t \in Listed : item[t].start =>
              wait # WaitMax /\ (cur + wait <= item[t].dead \/ wait = 0)

\* A due timer is served: while the daemon is not told to quit, it fires, or
\* its task changes it first; this where osal_mutex_lock does not fail.
DueIsServed ==
    []~lock_failed => \A t \in Timers :
        LET overdue == t \in Listed /\ item[t].start /\ item[t].dead <= now
        IN  overdue ~> daemon_exit \/ ~overdue
=============================================================================
