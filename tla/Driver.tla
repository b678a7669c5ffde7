------------------------------- MODULE Driver -------------------------------
(***************************************************************************)
(* The device framework of driver/driver.c: board code registers drivers   *)
(* by name, applications open, use and close devices of them.  One mutex   *)
(* protects the list of drivers and the open list of each; it is held      *)
(* while the operations of the driver itself run.  read, write, ioctl and  *)
(* seek take no lock.                                                      *)
(*                                                                         *)
(* Each task has at most one device open, and the struct dev_cb is named   *)
(* after its task.  The fields kept for debugging (counters, errno,        *)
(* drivnum) are left out.                                                  *)
(*                                                                         *)
(* Definitions named M_... are deliberate faults the runs must detect; the *)
(* specification uses none of them.                                        *)
(***************************************************************************)
EXTENDS Integers, Sequences, SequencesExt, FiniteSets

CONSTANTS
    Tasks,         \* the tasks of applications
    Names,         \* the names of drivers
    None,          \* no task, no driver
    Exclusive,     \* the drivers registered with O_EXCL
    HasInit,       \* the drivers with an init operation
    HasDeinit,     \* the drivers with a deinit operation
    OwnerChecked   \* whether the port's osal_mutex_unlock refuses a task that
                   \* does not hold the mutex (LiteOS) or not (Linux)

ASSUME NoneIsNothing == None \notin Tasks /\ None \notin Names
ASSUME DriverSets == /\ Exclusive \subseteq Names /\ HasInit \subseteq Names
                     /\ HasDeinit \subseteq Names /\ OwnerChecked \in BOOLEAN

VARIABLES
    lock,     \* the task that holds s_los_driv_module.lock, or None
    drivlst,  \* the registered drivers
    inited,   \* the drivers with cn_driv_status_initialized
    devlst,   \* the open list of each driver
    driv,     \* the driver each task's device is attached to, or None
    pc,       \* where each task is
    arg       \* the name it opens

module == <<drivlst, inited, devlst>>
vars == <<lock, module, driv, pc, arg>>

Goto(t, from, to) == pc[t] = from /\ pc' = [pc EXCEPT ![t] = to]
Unlocked(t) == IF OwnerChecked /\ lock # t THEN lock ELSE None

-----------------------------------------------------------------------------
(* Board code; no operation of a driver runs inside these calls. *)

NotMatched(n) == n \notin drivlst

los_driv_register(n) ==
    /\ lock = None /\ NotMatched(n)
    /\ drivlst' = drivlst \cup {n}
    /\ inited' = inited \ {n}
    /\ devlst' = [devlst EXCEPT ![n] = << >>]
    /\ UNCHANGED <<lock, driv, pc, arg>>

\* The driver leaves the list and is freed, open or not.
los_driv_unregister(n) ==
    /\ lock = None /\ n \in drivlst
    /\ drivlst' = drivlst \ {n}
    /\ UNCHANGED <<lock, inited, devlst, driv, pc, arg>>

-----------------------------------------------------------------------------
(* los_dev_open *)

los_dev_open(t, n) ==
    /\ driv[t] = None
    /\ Goto(t, "idle", "open_lock")
    /\ arg' = [arg EXCEPT ![t] = n]
    /\ UNCHANGED <<lock, module, driv>>

M_LockNotAwaited(t, from, to) ==
    /\ Goto(t, from, to)
    /\ lock' = t
    /\ UNCHANGED <<module, driv, arg>>
mutex_lock(t, from, to) ==
    /\ lock = None
    /\ Goto(t, from, to)
    /\ lock' = t
    /\ UNCHANGED <<module, driv, arg>>

\* An exclusive driver is opened only once.
M_AlwaysAdmitted(n) == n \in drivlst
Admitted(n) == n \in drivlst /\ ~(n \in Exclusive /\ devlst[n] # << >>)

open_match(t) ==
    /\ Goto(t, "open_match", IF Admitted(arg[t]) THEN "open_init" ELSE "open_fail")
    /\ UNCHANGED <<lock, module, driv, arg>>

\* The first open calls the driver's init, which may fail.
open_init(t) ==
    LET n == arg[t]
    IN  /\ IF n \notin inited /\ n \in HasInit
           THEN \/ inited' = inited \cup {n} /\ Goto(t, "open_init", "open_op")
                \/ UNCHANGED inited /\ Goto(t, "open_init", "open_fail")
           ELSE UNCHANGED inited /\ Goto(t, "open_init", "open_op")
        /\ UNCHANGED <<lock, drivlst, devlst, driv, arg>>

\* The driver's open, which may fail.
open_op(t) ==
    /\ Goto(t, "open_op", "open_link") \/ Goto(t, "open_op", "open_fail")
    /\ UNCHANGED <<lock, module, driv, arg>>

open_link(t) ==
    LET n == arg[t]
    IN  /\ Goto(t, "open_link", "idle")
        /\ devlst' = [devlst EXCEPT ![n] = <<t>> \o @]
        /\ driv' = [driv EXCEPT ![t] = n]
        /\ lock' = Unlocked(t)
        /\ UNCHANGED <<drivlst, inited, arg>>

\* The error exits release the mutex and free the device.
open_fail(t) ==
    /\ Goto(t, "open_fail", "idle")
    /\ lock' = Unlocked(t)
    /\ UNCHANGED <<module, driv, arg>>

-----------------------------------------------------------------------------
(* los_dev_close *)

los_dev_close(t) ==
    /\ driv[t] # None
    /\ Goto(t, "idle", "close_lock")
    /\ UNCHANGED <<lock, module, driv, arg>>

\* The device is detached; one that is not on the list of its driver is an
\* error that leaves it attached.
Attached(t) == t \in Range(devlst[driv[t]])

Place(t) == CHOOSE i \in DOMAIN devlst[driv[t]] : devlst[driv[t]][i] = t

close_detach(t) ==
    /\ Goto(t, "close_detach", IF Attached(t) THEN "close_op" ELSE "close_exit")
    /\ devlst' = IF Attached(t)
                 THEN [devlst EXCEPT ![driv[t]] = RemoveAt(@, Place(t))]
                 ELSE devlst
    /\ UNCHANGED <<lock, drivlst, inited, driv, arg>>

\* The driver's close returns; the last close calls its deinit.
M_LastByCount(n) == Len(devlst[n]) <= 1
LastClose(n) == devlst[n] = << >>

close_op(t) ==
    LET n == driv[t]
    IN  /\ Goto(t, "close_op", "close_unlock")
        /\ inited' = IF LastClose(n) /\ n \in HasDeinit THEN inited \ {n} ELSE inited
        /\ driv' = [driv EXCEPT ![t] = None]
        /\ UNCHANGED <<lock, drivlst, devlst, arg>>

close_unlock(t) ==
    /\ Goto(t, "close_unlock", "close_exit")
    /\ lock' = Unlocked(t)
    /\ UNCHANGED <<module, driv, arg>>

\* The error exits stand behind the return of success, which runs into them:
\* the mutex is released a second time.
close_exit(t) ==
    /\ Goto(t, "close_exit", "idle")
    /\ lock' = Unlocked(t)
    /\ UNCHANGED <<module, driv, arg>>

-----------------------------------------------------------------------------
(* los_dev_read, los_dev_write, los_dev_ioctl and los_dev_seek *)

dev_io(t) ==
    /\ driv[t] # None
    /\ Goto(t, "idle", "io")
    /\ UNCHANGED <<lock, module, driv, arg>>

dev_io_return(t) ==
    /\ Goto(t, "io", "idle")
    /\ UNCHANGED <<lock, module, driv, arg>>

\* los_driv_init has succeeded; the static drivers are not loaded yet.
Init ==
    /\ lock = None /\ drivlst = {} /\ inited = {}
    /\ devlst = [n \in Names |-> << >>]
    /\ driv = [t \in Tasks |-> None]
    /\ pc = [t \in Tasks |-> "idle"]
    /\ arg = [t \in Tasks |-> None]

Task(t) ==
    \/ \E n \in Names : los_dev_open(t, n)
    \/ mutex_lock(t, "open_lock", "open_match")
    \/ open_match(t) \/ open_init(t) \/ open_op(t) \/ open_link(t) \/ open_fail(t)
    \/ los_dev_close(t)
    \/ mutex_lock(t, "close_lock", "close_detach")
    \/ close_detach(t) \/ close_op(t) \/ close_unlock(t) \/ close_exit(t)
    \/ dev_io(t) \/ dev_io_return(t)

Board(n) == los_driv_register(n) \/ los_driv_unregister(n)

Next == (\E t \in Tasks : Task(t)) \/ (\E n \in Names : Board(n))

Spec == Init /\ [][Next]_vars

\* Board code unregisters a driver only when nothing refers to it.
Unreferred == \A t \in Tasks : driv[t] \in drivlst \cup {None}

CarefulNext == Next /\ Unreferred'

CarefulSpec == Init /\ [][CarefulNext]_vars

-----------------------------------------------------------------------------
\* The types.
TypeOK ==
    /\ lock \in Tasks \cup {None}
    /\ drivlst \subseteq Names /\ inited \subseteq Names
    /\ devlst \in [Names -> Seq(Tasks)]
    /\ driv \in [Tasks -> Names \cup {None}]
    /\ arg \in [Tasks -> Names \cup {None}]
    /\ pc \in [Tasks -> {"idle", "io", "open_lock", "open_match", "open_init",
                         "open_op", "open_link", "open_fail", "close_lock",
                         "close_detach", "close_op", "close_unlock", "close_exit"}]

Critical(t) ==
    pc[t] \in {"open_match", "open_init", "open_op", "open_link", "open_fail",
               "close_detach", "close_op", "close_unlock"}

\* The lock is "used to lock the devlst" (driver.c): a task between its lock and
\* its unlock holds it, so no two are there at once.
LockHeld == \A t \in Tasks : Critical(t) => lock = t

\* Every variable has its type, and the open list of a driver holds the open
\* devices of that driver, once each; close finds its device, and an exclusive
\* driver has one device at most.
OpenListExact ==
    /\ TypeOK
    /\ \A n \in Names :
         /\ IsInjective(devlst[n])
         /\ \A t \in Tasks : t \in Range(devlst[n]) => driv[t] = n
         /\ \A t \in Tasks : driv[t] = n /\ pc[t] # "close_op" =>
               t \in Range(devlst[n])
         /\ n \in Exclusive => Len(devlst[n]) <= 1

\* A device is used only while its driver is registered and initialized,
\* whatever other tasks open and close meanwhile without success.
IoOnReadyDriver ==
    \A t \in Tasks : pc[t] = "io" =>
        driv[t] \in drivlst /\ (driv[t] \in HasInit => driv[t] \in inited)
=============================================================================
