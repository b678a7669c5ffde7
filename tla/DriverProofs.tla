---------------------------- MODULE DriverProofs ----------------------------
(***************************************************************************)
(* On a port that checks the owner of a mutex the second unlock of         *)
(* los_dev_close is harmless: whoever is between its lock and its unlock   *)
(* holds the mutex.  From that follow the open lists and the devices in    *)
(* use, for any number of tasks and drivers.                               *)
(***************************************************************************)
EXTENDS Driver, ListLemmas

\* The part of the state the argument needs.  LockHeld is inductive with it.
LockTypes ==
    /\ lock \in Tasks \cup {None}
    /\ pc \in [Tasks -> {"idle", "io", "open_lock", "open_match", "open_init",
                         "open_op", "open_link", "open_fail", "close_lock",
                         "close_detach", "close_op", "close_unlock", "close_exit"}]

LockInv == LockTypes /\ LockHeld

\* The mutex is free at first and nobody is inside.
LEMMA InitLock == Init => LockInv
  BY DEF Init, LockInv, LockTypes, LockHeld, Critical

\* Each step of an application keeps it.
LEMMA TaskStep ==
    ASSUME OwnerChecked, LockInv, NEW t \in Tasks, Task(t)
    PROVE  LockInv'
<1> USE NoneIsNothing DEF LockInv, LockTypes, LockHeld, Critical, Goto
<1>1. CASE \E n \in Names : los_dev_open(t, n)
  BY <1>1 DEF los_dev_open
<1>2. CASE mutex_lock(t, "open_lock", "open_match")
  BY <1>2 DEF mutex_lock
<1>3. CASE open_match(t)
  BY <1>3 DEF open_match
<1>4. CASE open_init(t)
  BY <1>4 DEF open_init
<1>5. CASE open_op(t)
  BY <1>5 DEF open_op
<1>6. CASE open_link(t)
  BY <1>6 DEF open_link, Unlocked
<1>7. CASE open_fail(t)
  BY <1>7 DEF open_fail, Unlocked
<1>8. CASE los_dev_close(t)
  BY <1>8 DEF los_dev_close
<1>9. CASE mutex_lock(t, "close_lock", "close_detach")
  BY <1>9 DEF mutex_lock
<1>10. CASE close_detach(t)
  BY <1>10 DEF close_detach
<1>11. CASE close_op(t)
  BY <1>11 DEF close_op
<1>12. CASE close_unlock(t)
  BY <1>12 DEF close_unlock, Unlocked
\* The second unlock: t holds the mutex only if it came here by the error exit.
<1>13. CASE close_exit(t)
  BY <1>13 DEF close_exit, Unlocked
<1>14. CASE dev_io(t) \/ dev_io_return(t)
  BY <1>14 DEF dev_io, dev_io_return
<1> QED
  BY <1>1, <1>2, <1>3, <1>4, <1>5, <1>6, <1>7, <1>8, <1>9, <1>10, <1>11,
     <1>12, <1>13, <1>14 DEF Task

\* So does every step: board code leaves the mutex as it found it, free.
LEMMA NextLock == OwnerChecked /\ LockInv /\ [Next]_vars => LockInv'
<1> SUFFICES ASSUME OwnerChecked, LockInv, [Next]_vars PROVE LockInv'
  OBVIOUS
<1>1. CASE \E t \in Tasks : Task(t)
  BY <1>1, TaskStep
<1>2. CASE \E n \in Names : Board(n)
  BY <1>2 DEF LockInv, LockTypes, LockHeld, Critical, Board,
              los_driv_register, los_driv_unregister
<1>3. CASE UNCHANGED vars
  BY <1>3 DEF LockInv, LockTypes, LockHeld, Critical, vars
<1> QED
  BY <1>1, <1>2, <1>3 DEF Next

\* Whoever is between its lock and its unlock in los_dev_open and los_dev_close
\* holds the mutex, where osal_mutex_unlock checks the owner.
THEOREM LockAlwaysHeld == ASSUME OwnerChecked PROVE Spec => []LockHeld
<1>1. Init => LockInv
  BY InitLock
<1>2. LockInv /\ [Next]_vars => LockInv'
  BY NextLock
<1>3. LockInv => LockHeld
  BY DEF LockInv
<1> QED
  BY <1>1, <1>2, <1>3, PTL DEF Spec

-----------------------------------------------------------------------------
\* The open lists.  Besides the lock the argument needs what each task knows
\* at each place, and that a device is on at most one list.
Pcs == {"idle", "io", "open_lock", "open_match", "open_init", "open_op", "open_link",
        "open_fail", "close_lock", "close_detach", "close_op", "close_unlock",
        "close_exit"}
Opening == {"open_match", "open_init", "open_op", "open_link", "open_lock", "open_fail"}
Attaching == {"open_init", "open_op", "open_link"}

On(n, t) == \E i \in 1 .. Len(devlst[n]) : devlst[n][i] = t

Types ==
    /\ lock \in Tasks \cup {None} /\ drivlst \subseteq Names /\ inited \subseteq Names
    /\ devlst \in [Names -> Seq(Tasks)]
    /\ driv \in [Tasks -> Names \cup {None}] /\ arg \in [Tasks -> Names \cup {None}]
    /\ pc \in [Tasks -> Pcs]

\* What a task knows of its own device and of the driver it opens.
Knows(t) ==
    /\ pc[t] \in Opening \cup {"close_unlock"} => driv[t] = None
    /\ pc[t] \in {"io", "close_lock", "close_detach", "close_op"} => driv[t] # None
    /\ pc[t] \in Opening => arg[t] \in Names
    /\ pc[t] \in Attaching =>
          arg[t] \in drivlst /\ (arg[t] \in Exclusive => devlst[arg[t]] = << >>)
    /\ pc[t] \in {"open_op", "open_link"} /\ arg[t] \in HasInit => arg[t] \in inited

\* A device is on the list of its driver from open_link to close_detach, once,
\* and on no other.
Lists ==
    /\ \A n \in Names, t \in Tasks :
          On(n, t) <=> driv[t] = n /\ pc[t] # "close_op"
    /\ \A n \in Names : \A i, j \in 1 .. Len(devlst[n]) :
          devlst[n][i] = devlst[n][j] => i = j
    /\ \A n \in Exclusive : Len(devlst[n]) <= 1

\* A driver with devices is registered, and initialized while one is open.
Ready ==
    /\ Unreferred
    /\ \A t \in Tasks : driv[t] # None /\ pc[t] # "close_op" /\ driv[t] \in HasInit =>
          driv[t] \in inited

DrvInv == Types /\ LockHeld /\ (\A t \in Tasks : Knows(t)) /\ Lists /\ Ready

\* No device is open at first.
LEMMA InitDrv == Init => DrvInv
  BY NoneIsNothing, EmptySeq, DriverSets
     DEF Init, DrvInv, Types, Pcs, LockHeld, Critical, Knows, Opening, Attaching,
         Lists, On, Ready, Unreferred

\* A step of t that leaves the open lists, the drivers and the devices alone.
LEMMA QuietStep ==
    ASSUME DrvInv, NEW t \in Tasks, Types', LockHeld', Unreferred', Knows(t)',
           UNCHANGED <<drivlst, devlst, driv>>, inited \subseteq inited',
           \A u \in Tasks : u # t => pc'[u] = pc[u] /\ arg'[u] = arg[u],
           pc[t] # "close_op", pc'[t] # "close_op"
    PROVE  DrvInv'
<1>1. \A u \in Tasks : pc'[u] = "close_op" <=> pc[u] = "close_op"
  OBVIOUS
<1>2. \A n, u : On(n, u)' <=> On(n, u)
  BY DEF On
<1>3. Lists'
  BY <1>1, <1>2 DEF DrvInv, Lists
<1>4. Ready'
  BY <1>1 DEF DrvInv, Ready
<1>5. ASSUME NEW u \in Tasks PROVE Knows(u)'
  <2>1. CASE u = t
    BY <2>1
  <2>2. CASE u # t
    BY <2>2 DEF DrvInv, Knows
  <2> QED
    BY <2>1, <2>2
<1> QED
  BY <1>3, <1>4, <1>5 DEF DrvInv

\* The steps of los_dev_open up to the link, of its error exit, and of the io.
LEMMA PlainStep ==
    ASSUME DrvInv, NEW t \in Tasks, LockHeld', Unreferred',
           \/ \E n \in Names : los_dev_open(t, n)
           \/ mutex_lock(t, "open_lock", "open_match")
           \/ open_match(t) \/ open_init(t) \/ open_op(t) \/ open_fail(t)
           \/ los_dev_close(t)
           \/ mutex_lock(t, "close_lock", "close_detach")
           \/ close_unlock(t) \/ close_exit(t)
           \/ dev_io(t) \/ dev_io_return(t)
    PROVE  DrvInv'
<1> USE DEF Goto
<1> DEFINE Quiet ==
             /\ Types' /\ Knows(t)'
             /\ UNCHANGED <<drivlst, devlst, driv>> /\ inited \subseteq inited'
             /\ \A u \in Tasks : u # t => pc'[u] = pc[u] /\ arg'[u] = arg[u]
             /\ pc[t] # "close_op" /\ pc'[t] # "close_op"
<1>0. Types /\ Knows(t)
  BY DEF DrvInv
<1>1. CASE \E n \in Names : los_dev_open(t, n)
  <2> Quiet
    BY <1>0, <1>1, NoneIsNothing
       DEF Types, Pcs, Knows, Opening, Attaching, los_dev_open, module
  <2> QED
    BY QuietStep
<1>2. CASE mutex_lock(t, "open_lock", "open_match")
  <2> Quiet
    BY <1>0, <1>2 DEF Types, Pcs, Knows, Opening, Attaching, mutex_lock, module
  <2> QED
    BY QuietStep
<1>3. CASE open_match(t)
  <2> Quiet
    BY <1>0, <1>3 DEF Types, Pcs, Knows, Opening, Attaching, open_match, Admitted, module
  <2> QED
    BY QuietStep
<1>4. CASE open_init(t)
  <2> Quiet
    BY <1>0, <1>4 DEF Types, Pcs, Knows, Opening, Attaching, open_init
  <2> QED
    BY QuietStep
<1>5. CASE open_op(t)
  <2> Quiet
    BY <1>0, <1>5 DEF Types, Pcs, Knows, Opening, Attaching, open_op, module
  <2> QED
    BY QuietStep
<1>6. CASE open_fail(t)
  <2> Quiet
    BY <1>0, <1>6
       DEF Types, Pcs, Knows, Opening, Attaching, open_fail, Unlocked, module
  <2> QED
    BY QuietStep
<1>7. CASE los_dev_close(t)
  <2> Quiet
    BY <1>0, <1>7 DEF Types, Pcs, Knows, Opening, Attaching, los_dev_close, module
  <2> QED
    BY QuietStep
<1>8. CASE mutex_lock(t, "close_lock", "close_detach")
  <2> Quiet
    BY <1>0, <1>8 DEF Types, Pcs, Knows, Opening, Attaching, mutex_lock, module
  <2> QED
    BY QuietStep
<1>9. CASE close_unlock(t)
  <2> Quiet
    BY <1>0, <1>9
       DEF Types, Pcs, Knows, Opening, Attaching, close_unlock, Unlocked, module
  <2> QED
    BY QuietStep
<1>10. CASE close_exit(t)
  <2> Quiet
    BY <1>0, <1>10
       DEF Types, Pcs, Knows, Opening, Attaching, close_exit, Unlocked, module
  <2> QED
    BY QuietStep
<1>11. CASE dev_io(t)
  <2> Quiet
    BY <1>0, <1>11 DEF Types, Pcs, Knows, Opening, Attaching, dev_io, module
  <2> QED
    BY QuietStep
<1>12. CASE dev_io_return(t)
  <2> Quiet
    BY <1>0, <1>12 DEF Types, Pcs, Knows, Opening, Attaching, dev_io_return, module
  <2> QED
    BY QuietStep
<1> QED
  BY <1>1, <1>2, <1>3, <1>4, <1>5, <1>6, <1>7, <1>8, <1>9, <1>10, <1>11, <1>12

\* The new device is put in front of the open list of its driver.
LEMMA LinkStep ==
    ASSUME DrvInv, NEW t \in Tasks, open_link(t), LockHeld', Unreferred'
    PROVE  DrvInv'
<1> DEFINE n == arg[t]
           s == devlst[n]
<1>1. /\ pc[t] = "open_link" /\ n \in Names /\ driv[t] = None /\ n \in drivlst
      /\ (n \in Exclusive => s = << >>) /\ (n \in HasInit => n \in inited)
  BY DEF open_link, Goto, DrvInv, Knows, Opening, Attaching
<1>2. /\ devlst' = [devlst EXCEPT ![n] = <<t>> \o s] /\ driv' = [driv EXCEPT ![t] = n]
      /\ pc' = [pc EXCEPT ![t] = "idle"] /\ lock' \in {lock, None}
      /\ UNCHANGED <<drivlst, inited, arg>>
  BY <1>1 DEF open_link, Goto, Unlocked, DrvInv, Types
<1>3. Types
  BY DEF DrvInv
<1>4. s \in Seq(Tasks) /\ Len(s) \in Nat /\ ~On(n, t)
  BY <1>1, <1>3, NoneIsNothing, LenProperties DEF Types, DrvInv, Lists
<1> DEFINE r == <<t>> \o s
<1>5. /\ r \in Seq(Tasks) /\ Len(r) = Len(s) + 1 /\ r[1] = t
      /\ \A i \in 1 .. Len(s) : r[i + 1] = s[i]
  BY <1>4
<1>6. /\ devlst'[n] = r /\ \A m \in Names : m # n => devlst'[m] = devlst[m]
      /\ driv'[t] = n /\ \A u \in Tasks : u # t => driv'[u] = driv[u]
      /\ pc'[t] = "idle" /\ \A u \in Tasks : u # t => pc'[u] = pc[u]
  BY <1>1, <1>2, <1>3 DEF Types
<1> HIDE DEF r
<1>7. Types'
  BY <1>1, <1>2, <1>3, <1>5 DEF Types, Pcs, r
<1>8. \A u : (\E i \in 1 .. Len(r) : r[i] = u)
                <=> u = t \/ \E i \in 1 .. Len(s) : s[i] = u
  <2> TAKE u
  <2>1. ASSUME NEW i \in 1 .. Len(r), r[i] = u, u # t
        PROVE  \E j \in 1 .. Len(s) : s[j] = u
    <3>1. i # 1 /\ i - 1 \in 1 .. Len(s) /\ (i - 1) + 1 = i
      BY <1>4, <1>5, <2>1
    <3>2. r[(i - 1) + 1] = s[i - 1]
      BY <1>5, <3>1
    <3> QED
      BY <2>1, <3>1, <3>2
  <2>2. ASSUME NEW j \in 1 .. Len(s), s[j] = u
        PROVE  \E i \in 1 .. Len(r) : r[i] = u
    <3>1. j + 1 \in 1 .. Len(r) /\ r[j + 1] = u
      BY <1>4, <1>5, <2>2
    <3> QED
      BY <3>1
  <2>3. 1 \in 1 .. Len(r) /\ r[1] = t
    BY <1>4, <1>5
  <2> QED
    BY <2>1, <2>2, <2>3
<1>9. ASSUME NEW i \in 1 .. Len(r), NEW j \in 1 .. Len(r), r[i] = r[j]
      PROVE  i = j
  <2>1. \A k \in 1 .. Len(r) : k # 1 =>
           k - 1 \in 1 .. Len(s) /\ r[k] = s[k - 1]
    <3> TAKE k \in 1 .. Len(r)
    <3> HAVE k # 1
    <3>1. k - 1 \in 1 .. Len(s) /\ (k - 1) + 1 = k
      BY <1>4, <1>5
    <3>2. r[(k - 1) + 1] = s[k - 1]
      BY <1>5, <3>1
    <3> QED
      BY <3>1, <3>2
  <2>2. \A k \in 1 .. Len(s) : s[k] # t
    BY <1>4 DEF On
  <2>3. \A k, m \in 1 .. Len(s) : s[k] = s[m] => k = m
    BY <1>1 DEF DrvInv, Lists
  <2>4. \A k \in 1 .. Len(r) : r[k] = t => k = 1
    BY <2>1, <2>2
  <2>6. CASE i = 1 \/ j = 1
    <3>1. r[i] = t /\ r[j] = t
      BY <1>5, <1>9, <2>6
    <3> QED
      BY <2>4, <3>1
  <2>5. CASE i # 1 /\ j # 1
    <3>1. i - 1 = j - 1
      BY <1>9, <2>1, <2>3, <2>5
    <3> QED
      BY <1>4, <1>5, <3>1
  <2> QED
    BY <2>5, <2>6
<1>10. Lists'
  <2>1. ASSUME NEW m \in Names, NEW u \in Tasks
        PROVE  On(m, u)' <=> driv'[u] = m /\ pc'[u] # "close_op"
    <3>0. On(m, u) <=> driv[u] = m /\ pc[u] # "close_op"
      BY DEF DrvInv, Lists
    <3>1. CASE m # n
      <4>1. On(m, u)' <=> On(m, u)
        BY <1>6, <3>1 DEF On
      <4>2. CASE u = t
        BY <1>1, <1>6, <3>0, <3>1, <4>1, <4>2, NoneIsNothing
      <4>3. CASE u # t
        BY <1>6, <3>0, <4>1, <4>3
      <4> QED
        BY <4>2, <4>3
    <3>2. CASE m = n
      <4>1. On(m, u)' <=> u = t \/ On(m, u)
        BY <1>6, <1>8, <3>2 DEF On
      <4> QED
        BY <1>6, <3>0, <3>2, <4>1
    <3> QED
      BY <3>1, <3>2
  <2>2. ASSUME NEW m \in Names
        PROVE  \A i, j \in 1 .. Len(devlst'[m]) : devlst'[m][i] = devlst'[m][j] => i = j
    <3>1. CASE m = n
      BY <1>6, <1>9, <3>1
    <3>2. CASE m # n
      BY <1>6, <3>2 DEF DrvInv, Lists
    <3> QED
      BY <3>1, <3>2
  <2>3. ASSUME NEW m \in Exclusive PROVE Len(devlst'[m]) <= 1
    <3>1. CASE m = n
      BY <1>1, <1>5, <1>6, <2>3, <3>1
    <3>2. CASE m # n
      BY <1>6, <2>3, <3>2, DriverSets DEF DrvInv, Lists
    <3> QED
      BY <3>1, <3>2
  <2> QED
    BY <2>1, <2>2, <2>3 DEF Lists
<1>11. Ready'
  BY <1>1, <1>2, <1>6 DEF DrvInv, Ready
\* No other task is between its check of the open list and its own link.
<1>12. ASSUME NEW u \in Tasks PROVE Knows(u)'
  <2>1. CASE u = t
    BY <1>6, <2>1 DEF Knows, Opening, Attaching
  <2>2. CASE u # t
    <3>1. pc[u] \notin Attaching
      BY <1>1, <2>2 DEF DrvInv, LockHeld, Critical, Attaching
    <3> QED
      BY <1>2, <1>6, <2>2, <3>1 DEF DrvInv, Knows, Attaching
  <2> QED
    BY <2>1, <2>2
<1> QED
  BY <1>7, <1>10, <1>11, <1>12 DEF DrvInv

\* A device that is closed is on the open list of its driver, and leaves it.
LEMMA DetachStep ==
    ASSUME DrvInv, NEW t \in Tasks, close_detach(t), LockHeld', Unreferred'
    PROVE  DrvInv'
<1> DEFINE n == driv[t]
           s == devlst[n]
           k == Place(t)
           r == RemoveAt(s, k)
<1>1. Types /\ pc[t] = "close_detach" /\ n \in Names /\ On(n, t)
  BY DEF close_detach, Goto, DrvInv, Types, Knows, Lists
<1>2. s \in Seq(Tasks) /\ Len(s) \in Nat /\ DOMAIN s = 1 .. Len(s)
  BY <1>1, LenProperties DEF Types
<1>3. k \in 1 .. Len(s) /\ s[k] = t
  BY <1>1, <1>2 DEF On, Place
<1>4. Attached(t)
  BY <1>2, <1>3 DEF Attached, Range
<1>5. /\ devlst' = [devlst EXCEPT ![n] = r] /\ pc' = [pc EXCEPT ![t] = "close_op"]
      /\ UNCHANGED <<lock, drivlst, inited, driv, arg>>
  BY <1>4 DEF close_detach, Goto
<1>6. \A i, j \in 1 .. Len(s) : s[i] = s[j] => i = j
  BY <1>1 DEF DrvInv, Lists
<1> HIDE DEF k
<1>7. /\ r \in Seq(Tasks) /\ Len(r) = Len(s) - 1
      /\ \A i, j \in 1 .. Len(r) : r[i] = r[j] => i = j
      /\ \A x : (\E i \in 1 .. Len(r) : r[i] = x)
                  <=> (\E i \in 1 .. Len(s) : s[i] = x) /\ x # s[k]
  BY <1>2, <1>3, <1>6, Removed
<1> HIDE DEF r
<1>8. /\ devlst'[n] = r /\ \A m \in Names : m # n => devlst'[m] = devlst[m]
      /\ pc'[t] = "close_op" /\ \A u \in Tasks : u # t => pc'[u] = pc[u]
  BY <1>1, <1>5 DEF Types
<1>9. Types'
  BY <1>1, <1>5, <1>7 DEF Types, Pcs
<1>10. Lists'
  <2>1. ASSUME NEW m \in Names, NEW u \in Tasks
        PROVE  On(m, u)' <=> driv[u] = m /\ pc'[u] # "close_op"
    <3>0. On(m, u) <=> driv[u] = m /\ pc[u] # "close_op"
      BY DEF DrvInv, Lists
    <3>1. CASE m # n
      <4>1. On(m, u)' <=> On(m, u)
        BY <1>8, <3>1 DEF On
      <4> QED
        BY <1>8, <3>0, <3>1, <4>1
    <3>2. CASE m = n
      <4>1. On(m, u)' <=> On(m, u) /\ u # t
        <5>1. (\E i \in 1 .. Len(r) : r[i] = u)
                <=> (\E i \in 1 .. Len(s) : s[i] = u) /\ u # t
          BY <1>3, <1>7
        <5>2. On(m, u)' <=> \E i \in 1 .. Len(r) : r[i] = u
          BY <1>8, <3>2 DEF On
        <5>3. On(m, u) <=> \E i \in 1 .. Len(s) : s[i] = u
          BY <3>2 DEF On
        <5> QED
          BY <5>1, <5>2, <5>3
      <4> QED
        BY <1>8, <3>0, <3>2, <4>1
    <3> QED
      BY <3>1, <3>2
  <2>2. ASSUME NEW m \in Names
        PROVE  \A i, j \in 1 .. Len(devlst'[m]) : devlst'[m][i] = devlst'[m][j] => i = j
    BY <1>7, <1>8 DEF DrvInv, Lists
  <2>3. ASSUME NEW m \in Exclusive PROVE Len(devlst'[m]) <= 1
    <3>1. m \in Names /\ Len(devlst[m]) <= 1
      BY DriverSets DEF DrvInv, Lists
    <3>2. CASE m = n
      BY <1>2, <1>7, <1>8, <3>1, <3>2
    <3>3. CASE m # n
      BY <1>8, <3>1, <3>3
    <3> QED
      BY <3>2, <3>3
  <2> QED
    BY <1>5, <2>1, <2>2, <2>3 DEF Lists
<1>11. Ready'
  BY <1>5, <1>8 DEF DrvInv, Ready
<1>12. ASSUME NEW u \in Tasks PROVE Knows(u)'
  <2>1. CASE u = t
    BY <1>1, <1>5, <1>8, <2>1, NoneIsNothing DEF Knows, Opening, Attaching
  <2>2. CASE u # t
    <3>1. pc[u] \notin Attaching
      BY <1>1, <2>2 DEF DrvInv, LockHeld, Critical, Attaching
    <3> QED
      BY <1>5, <1>8, <2>2, <3>1 DEF DrvInv, Knows, Attaching
  <2> QED
    BY <2>1, <2>2
<1> QED
  BY <1>9, <1>10, <1>11, <1>12 DEF DrvInv

\* The last close deinitializes the driver: the open list is empty then, and no
\* other task has a device of that driver or is about to have one.
LEMMA CloseStep ==
    ASSUME DrvInv, NEW t \in Tasks, close_op(t), LockHeld', Unreferred'
    PROVE  DrvInv'
<1> DEFINE n == driv[t]
<1>1. Types /\ pc[t] = "close_op" /\ n \in Names
  BY DEF close_op, Goto, DrvInv, Types, Knows
<1>2. /\ pc' = [pc EXCEPT ![t] = "close_unlock"] /\ driv' = [driv EXCEPT ![t] = None]
      /\ inited' = (IF LastClose(n) /\ n \in HasDeinit THEN inited \ {n} ELSE inited)
      /\ UNCHANGED <<lock, drivlst, devlst, arg>>
  BY DEF close_op, Goto
<1>3. /\ pc'[t] = "close_unlock" /\ driv'[t] = None
      /\ \A u \in Tasks : u # t => pc'[u] = pc[u] /\ driv'[u] = driv[u]
  BY <1>1, <1>2 DEF Types
<1>4. Types'
  BY <1>1, <1>2 DEF Types, Pcs
\* A task with a device is the only one inside, or its device is listed.
<1>5. ASSUME NEW u \in Tasks, u # t PROVE pc[u] \notin Attaching \cup {"close_op"}
  BY <1>1, <1>5 DEF DrvInv, LockHeld, Critical, Attaching
<1>6. ASSUME NEW u \in Tasks, u # t, driv[u] = n PROVE ~LastClose(n)
  <2>1. On(n, u)
    BY <1>1, <1>5, <1>6 DEF DrvInv, Lists
  <2>2. Len(<< >>) = 0
    BY EmptySeq
  <2> QED
    BY <2>1, <2>2 DEF On, LastClose
<1>7. Lists'
  <2>1. ASSUME NEW m \in Names, NEW u \in Tasks
        PROVE  On(m, u)' <=> driv'[u] = m /\ pc'[u] # "close_op"
    <3>1. On(m, u)' <=> On(m, u)
      BY <1>2 DEF On
    <3>2. On(m, u) <=> driv[u] = m /\ pc[u] # "close_op"
      BY DEF DrvInv, Lists
    <3>3. CASE u = t
      BY <1>1, <1>3, <3>1, <3>2, <3>3, NoneIsNothing
    <3>4. CASE u # t
      BY <1>3, <3>1, <3>2, <3>4
    <3> QED
      BY <3>3, <3>4
  <2> QED
    BY <1>2, <2>1 DEF DrvInv, Lists
<1>8. Ready'
  <2>1. ASSUME NEW u \in Tasks, driv'[u] # None, pc'[u] # "close_op",
               driv'[u] \in HasInit
        PROVE  driv'[u] \in inited'
    <3>1. u # t /\ driv'[u] = driv[u] /\ driv[u] \in inited
      BY <1>3, <2>1 DEF DrvInv, Ready
    <3>2. driv[u] = n => ~LastClose(n)
      BY <1>6, <3>1
    <3> QED
      BY <1>2, <3>1, <3>2
  <2> QED
    BY <2>1 DEF Ready
<1>9. ASSUME NEW u \in Tasks PROVE Knows(u)'
  <2>1. CASE u = t
    BY <1>3, <2>1 DEF Knows, Opening, Attaching
  <2>2. CASE u # t
    <3>1. pc[u] \notin Attaching
      BY <1>5, <2>2
    <3> QED
      BY <1>2, <1>3, <2>2, <3>1 DEF DrvInv, Knows, Attaching
  <2> QED
    BY <2>1, <2>2
<1> QED
  BY <1>4, <1>7, <1>8, <1>9 DEF DrvInv

\* Board code works while the mutex is free, so no task is in an open or a close;
\* a driver that is registered has no device, and one that is referred to stays.
LEMMA BoardStep ==
    ASSUME DrvInv, NEW n \in Names, Board(n), LockHeld', Unreferred'
    PROVE  DrvInv'
<1>1. Types /\ lock = None /\ UNCHANGED <<lock, driv, pc, arg>>
  BY DEF DrvInv, Board, los_driv_register, los_driv_unregister
<1>2. \A u \in Tasks : pc[u] \notin Attaching \cup {"close_op"}
  BY <1>1, NoneIsNothing DEF DrvInv, LockHeld, Critical, Attaching
<1>3. \A u \in Tasks : Knows(u)'
  BY <1>1, <1>2 DEF DrvInv, Knows, Attaching
<1>4. CASE los_driv_unregister(n)
  <2>1. UNCHANGED <<inited, devlst>> /\ drivlst' \subseteq drivlst
    BY <1>4 DEF los_driv_unregister
  <2>2. Types' /\ Lists' /\ Ready'
    BY <1>1, <2>1 DEF DrvInv, Types, Lists, On, Ready
  <2> QED
    BY <1>3, <2>2 DEF DrvInv
<1>5. CASE los_driv_register(n)
  <2>1. /\ n \notin drivlst /\ drivlst' = drivlst \cup {n} /\ inited' = inited \ {n}
        /\ devlst' = [devlst EXCEPT ![n] = << >>]
    BY <1>5 DEF los_driv_register, NotMatched
  <2>2. \A u \in Tasks : driv[u] # n
    BY <2>1, NoneIsNothing DEF DrvInv, Ready, Unreferred
  <2>3. /\ devlst'[n] = << >> /\ \A m \in Names : m # n => devlst'[m] = devlst[m]
        /\ Len(<< >>) = 0
    BY <1>1, <2>1, EmptySeq DEF Types
  <2>4. Types'
    BY <1>1, <2>1, EmptySeq DEF Types
  <2>5. Ready'
    BY <1>1, <2>1, <2>2 DEF DrvInv, Ready
  <2>6. ASSUME NEW m \in Names, NEW u \in Tasks
        PROVE  On(m, u)' <=> driv[u] = m /\ pc[u] # "close_op"
    <3>1. On(m, u) <=> driv[u] = m /\ pc[u] # "close_op"
      BY DEF DrvInv, Lists
    <3>2. CASE m = n
      BY <2>2, <2>3, <3>2 DEF On
    <3>3. CASE m # n
      BY <2>3, <3>1, <3>3 DEF On
    <3> QED
      BY <3>2, <3>3
  <2>7. ASSUME NEW m \in Names
        PROVE  \A i, j \in 1 .. Len(devlst'[m]) : devlst'[m][i] = devlst'[m][j] => i = j
    BY <2>3 DEF DrvInv, Lists
  <2>8. ASSUME NEW m \in Exclusive PROVE Len(devlst'[m]) <= 1
    <3>1. m \in Names /\ Len(devlst[m]) <= 1
      BY DriverSets DEF DrvInv, Lists
    <3> QED
      BY <2>3, <3>1
  <2>9. Lists'
    BY <1>1, <2>6, <2>7, <2>8 DEF Lists
  <2> QED
    BY <1>3, <2>4, <2>5, <2>9 DEF DrvInv
<1> QED
  BY <1>4, <1>5 DEF Board

\* Every step keeps both invariants.
LEMMA NextDrv ==
    OwnerChecked /\ LockInv /\ DrvInv /\ [CarefulNext]_vars => (LockInv /\ DrvInv)'
<1> SUFFICES ASSUME OwnerChecked, LockInv, DrvInv, [CarefulNext]_vars
             PROVE  (LockInv /\ DrvInv)'
  OBVIOUS
<1>1. LockInv' /\ LockHeld'
  BY NextLock DEF CarefulNext, LockInv
<1>2. CASE UNCHANGED vars
  BY <1>1, <1>2
     DEF vars, module, DrvInv, Types, LockHeld, Critical, Knows, Lists, On, Ready,
         Unreferred
<1>3. ASSUME NEW t \in Tasks, Task(t), Unreferred' PROVE DrvInv'
  BY <1>1, <1>3, PlainStep, LinkStep, DetachStep, CloseStep DEF Task
<1>4. ASSUME NEW n \in Names, Board(n), Unreferred' PROVE DrvInv'
  BY <1>1, <1>4, BoardStep
<1> QED
  BY <1>1, <1>2, <1>3, <1>4 DEF CarefulNext, Next

\* So they hold of every state, when board code takes care.
LEMMA DriverInvariant == ASSUME OwnerChecked PROVE CarefulSpec => [](LockInv /\ DrvInv)
<1>1. Init => LockInv /\ DrvInv
  BY InitLock, InitDrv
<1>2. LockInv /\ DrvInv /\ [CarefulNext]_vars => (LockInv /\ DrvInv)'
  BY NextDrv
<1> QED
  BY <1>1, <1>2, PTL DEF CarefulSpec

\* Every open list holds the open devices of its driver, once each, and an
\* exclusive driver has one device at most: close always finds its device.
THEOREM OpenListsExact == ASSUME OwnerChecked PROVE CarefulSpec => []OpenListExact
<1>1. DrvInv => OpenListExact
  <2> SUFFICES ASSUME DrvInv PROVE OpenListExact
    OBVIOUS
  <2>1. TypeOK
    BY DEF DrvInv, Types, Pcs, TypeOK
  <2>2. ASSUME NEW n \in Names
        PROVE  /\ IsInjective(devlst[n])
               /\ \A t \in Tasks : t \in Range(devlst[n]) <=> On(n, t)
    <3>1. DOMAIN devlst[n] = 1 .. Len(devlst[n])
      BY LenProperties DEF DrvInv, Types
    <3> QED
      BY <3>1 DEF DrvInv, Lists, On, IsInjective, Range
  <2> QED
    BY <2>1, <2>2 DEF DrvInv, Lists, OpenListExact
<1> QED
  BY <1>1, DriverInvariant, PTL

\* read, write, ioctl and seek take no lock and yet never run on a driver that is
\* not registered or not initialized.
THEOREM IoOnReadyDrivers == ASSUME OwnerChecked PROVE CarefulSpec => []IoOnReadyDriver
<1>1. DrvInv => IoOnReadyDriver
  BY NoneIsNothing DEF DrvInv, Types, Knows, Ready, Unreferred, IoOnReadyDriver
<1> QED
  BY <1>1, DriverInvariant, PTL
=============================================================================
