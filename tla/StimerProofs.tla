---------------------------- MODULE StimerProofs ----------------------------
(***************************************************************************)
(* The timer list stays sorted and complete, and the daemon never sleeps   *)
(* past a deadline, for any number of timers, any cycles and any clock.    *)
(***************************************************************************)
EXTENDS Stimer, ListLemmas

Items == [cycle : Cycles \cup {0}, once : BOOLEAN, start : BOOLEAN,
          dead : 0 .. DeadMax]

Members(l) == {l[i] : i \in 1 .. Len(l)}
Sorted(l, its) ==
    \A i, j \in 1 .. Len(l) : i < j => its[l[i]].dead <= its[l[j]].dead
Distinct(l) == \A i, j \in 1 .. Len(l) : l[i] = l[j] => i = j

\* l holds the timers of S, once each, sorted by dead_time.
Lists(l, its, S) ==
    l \in Seq(Timers) /\ Sorted(l, its) /\ Distinct(l) /\ Members(l) = S

\* cn_stimer_dead_max is later than any dead_time of a started timer.
LEMMA Times ==
    /\ DeadMax \in Nat /\ WaitMax \in Nat /\ MaxTime \in Nat
    /\ DeadMax = MaxTime + WaitMax + 1
  BY BoundTypes DEF DeadMax

\* timer_add finds a place: the walk ends at the end of the list.
LEMMA AddPlace ==
    ASSUME NEW l \in Seq(Timers), NEW its, NEW t
    PROVE  LET later(p) == p > Len(l) \/ its[l[p]].dead >= its[t].dead
               p == CHOOSE p \in 1 .. Len(l) + 1 :
                        later(p) /\ \A q \in 1 .. p - 1 : ~later(q)
           IN  /\ p \in 1 .. Len(l) + 1 /\ later(p)
               /\ \A q \in 1 .. p - 1 : ~later(q)
<1> DEFINE later(p) == p > Len(l) \/ its[l[p]].dead >= its[t].dead
           places == {p \in 1 .. Len(l) + 1 : later(p)}
<1>1. Len(l) \in Nat
  BY LenProperties
<1>2. Len(l) + 1 \in places /\ places \subseteq Nat
  BY <1>1
<1>3. PICK p \in places : \A q \in places : p <= q
  <2> HIDE DEF places
  <2> QED
    BY <1>2, Least
<1>4. p \in 1 .. Len(l) + 1 /\ later(p)
  BY <1>3
<1>5. \A q \in 1 .. p - 1 : ~later(q)
  <2> SUFFICES ASSUME NEW q \in 1 .. p - 1, later(q) PROVE FALSE
    OBVIOUS
  <2> HIDE DEF later
  <2>1. q \in places
    BY <1>1, <1>4
  <2>2. p <= q
    BY <1>3, <2>1
  <2> QED
    BY <1>1, <1>4, <2>2
<1>6. \E k \in 1 .. Len(l) + 1 : later(k) /\ \A q \in 1 .. k - 1 : ~later(q)
  <2> HIDE DEF later
  <2> QED
    BY <1>4, <1>5
<1> HIDE DEF later
<1> DEFINE k == CHOOSE p_1 \in 1 .. Len(l) + 1 :
                   later(p_1) /\ \A q \in 1 .. p_1 - 1 : ~later(q)
<1>7. k \in 1 .. Len(l) + 1 /\ later(k) /\ \A q \in 1 .. k - 1 : ~later(q)
  BY <1>6
<1> QED
  BY <1>7 DEF later

\* timer_add keeps the list sorted and adds the timer, and nothing else.
LEMMA AddTimer ==
    ASSUME NEW l, NEW its \in [Timers -> Items], NEW S, Lists(l, its, S),
           NEW t \in Timers, t \notin S
    PROVE  Lists(timer_add(l, t, its), its, S \cup {t})
<1> DEFINE later(p) == p > Len(l) \/ its[l[p]].dead >= its[t].dead
           k == CHOOSE p \in 1 .. Len(l) + 1 :
                   later(p) /\ \A q \in 1 .. p - 1 : ~later(q)
           n == Len(l)
           r == InsertAt(l, k, t)
<1>1. /\ l \in Seq(Timers) /\ Sorted(l, its) /\ Distinct(l) /\ Members(l) = S
      /\ n \in Nat /\ \A i \in 1 .. n : l[i] \in Timers /\ l[i] \in S
  BY LenProperties, ElementOfSeq DEF Lists, Members
<1>2. k \in 1 .. n + 1 /\ later(k) /\ \A q \in 1 .. k - 1 : ~later(q)
  BY <1>1, AddPlace
<1>3. timer_add(l, t, its) = r
  BY DEF timer_add
<1> HIDE DEF k
<1>4. /\ r \in Seq(Timers) /\ Len(r) = n + 1
      /\ \A i \in 1 .. n + 1 :
           r[i] = IF i < k THEN l[i] ELSE IF i = k THEN t ELSE l[i - 1]
  <2>1. l \in Seq(Timers) /\ k \in 1 .. Len(l) + 1
    BY <1>1, <1>2
  <2> HIDE DEF n
  <2>2. /\ r \in Seq(Timers) /\ Len(r) = Len(l) + 1
        /\ \A i \in 1 .. Len(l) + 1 :
             r[i] = IF i < k THEN l[i] ELSE IF i = k THEN t ELSE l[i - 1]
    BY <2>1, Inserted, SMTT(60)
  <2> QED
    BY <2>2 DEF n
<1> HIDE DEF r
<1> DEFINE dead(x) == its[x].dead
<1>5. \A x \in Timers : dead(x) \in Int
  BY Times DEF Items
<1>6. /\ k \in Int /\ 1 <= k /\ k <= n + 1
      /\ k <= n => dead(l[k]) >= dead(t)
      /\ \A q \in 1 .. k - 1 : q \in 1 .. n /\ dead(l[q]) < dead(t)
  <2>1. k \in Int /\ 1 <= k /\ k <= n + 1
    BY <1>1, <1>2
  <2>2. k <= n => dead(l[k]) >= dead(t)
    BY <1>1, <1>2, <2>1
  <2>3. ASSUME NEW q \in 1 .. k - 1 PROVE q \in 1 .. n /\ dead(l[q]) < dead(t)
    <3>1. q \in 1 .. n /\ ~(q > n)
      BY <1>1, <2>1
    <3>2. ~(dead(l[q]) >= dead(t))
      BY <1>2, <3>1
    <3>3. dead(l[q]) \in Int /\ dead(t) \in Int
      BY <1>1, <1>5, <3>1
    <3> HIDE DEF dead
    <3> QED
      BY <3>1, <3>2, <3>3
  <2> QED
    BY <2>1, <2>2, <2>3
<1>7. \A i, j \in 1 .. n : i <= j => dead(l[i]) <= dead(l[j])
  <2> TAKE i, j \in 1 .. n
  <2>1. i = j => dead(l[i]) <= dead(l[j])
    BY <1>1, <1>5
  <2>2. i < j => dead(l[i]) <= dead(l[j])
    BY <1>1 DEF Sorted
  <2> QED
    BY <2>1, <2>2
<1>8. \A i \in 1 .. n : IF i < k THEN dead(l[i]) <= dead(t) ELSE dead(t) <= dead(l[i])
  <2> TAKE i \in 1 .. n
  <2>0. dead(l[i]) \in Int /\ dead(t) \in Int
    BY <1>1, <1>5
  <2>1. CASE i < k
    <3>1. i \in 1 .. k - 1
      BY <1>6, <2>1
    <3>2. dead(l[i]) < dead(t)
      BY <1>6, <3>1
    <3> HIDE DEF dead
    <3> QED
      BY <2>0, <2>1, <3>2
  <2>2. CASE ~(i < k)
    <3>1. k \in 1 .. n /\ k <= i
      BY <1>1, <1>6, <2>2
    <3>2. dead(l[k]) >= dead(t) /\ dead(l[k]) <= dead(l[i]) /\ dead(l[k]) \in Int
      BY <1>1, <1>5, <1>6, <1>7, <3>1
    <3> HIDE DEF dead
    <3> QED
      BY <2>0, <2>2, <3>2
  <2> QED
    BY <2>1, <2>2
<1> HIDE DEF dead
<1>9. ASSUME NEW i \in 1 .. n + 1
      PROVE  \/ i < k /\ i \in 1 .. n /\ r[i] = l[i]
             \/ i = k /\ r[i] = t
             \/ i > k /\ i - 1 \in 1 .. n /\ r[i] = l[i - 1]
  BY <1>1, <1>4, <1>6
<1>10. ASSUME NEW i \in 1 .. n + 1, NEW j \in 1 .. n + 1, i < j
       PROVE  dead(r[i]) <= dead(r[j])
  <2>1. CASE i < k /\ j < k
    BY <1>6, <1>7, <1>9, <1>10, <2>1
  <2>2. CASE i < k /\ j = k
    BY <1>6, <1>8, <1>9, <2>2
  <2>3. CASE i < k /\ j > k
    <3>1. i \in 1 .. n /\ j - 1 \in 1 .. n /\ i <= j - 1 /\ r[i] = l[i] /\ r[j] = l[j - 1]
      BY <1>6, <1>9, <2>3
    <3> QED
      BY <1>7, <3>1
  <2>4. CASE i = k /\ j > k
    <3>1. j - 1 \in 1 .. n /\ ~(j - 1 < k) /\ r[i] = t /\ r[j] = l[j - 1]
      BY <1>6, <1>9, <2>4
    <3> QED
      BY <1>8, <3>1
  <2>5. CASE i > k /\ j > k
    <3>1. /\ i - 1 \in 1 .. n /\ j - 1 \in 1 .. n /\ i - 1 <= j - 1
          /\ r[i] = l[i - 1] /\ r[j] = l[j - 1]
      BY <1>6, <1>9, <1>10, <2>5
    <3> QED
      BY <1>7, <3>1
  <2> QED
    BY <1>6, <1>10, <2>1, <2>2, <2>3, <2>4, <2>5
<1>11. ASSUME NEW i \in 1 .. n + 1, NEW j \in 1 .. n + 1, r[i] = r[j] PROVE i = j
  <2>1. \A a, b \in 1 .. n : l[a] = l[b] => a = b
    BY <1>1 DEF Distinct
  <2>2. \A a \in 1 .. n : l[a] # t
    BY <1>1
  <2>3. CASE i = k \/ j = k
    <3>1. r[i] = t /\ r[j] = t
      BY <1>6, <1>9, <1>11, <2>3
    <3>2. i = k
      BY <1>6, <1>9, <2>2, <3>1
    <3>3. j = k
      BY <1>6, <1>9, <2>2, <3>1
    <3> QED
      BY <3>2, <3>3
  <2>4. CASE i < k /\ j < k
    <3>1. i \in 1 .. n /\ j \in 1 .. n /\ l[i] = l[j]
      BY <1>6, <1>9, <1>11, <2>4
    <3> QED
      BY <2>1, <3>1
  <2>5. CASE i < k /\ j > k
    <3>1. i = j - 1
      BY <1>6, <1>9, <1>11, <2>1, <2>5
    <3> QED
      BY <1>6, <2>5, <3>1
  <2>6. CASE i > k /\ j < k
    <3>1. i - 1 = j
      BY <1>6, <1>9, <1>11, <2>1, <2>6
    <3> QED
      BY <1>6, <2>6, <3>1
  <2>7. CASE i > k /\ j > k
    <3>1. i - 1 = j - 1
      BY <1>6, <1>9, <1>11, <2>1, <2>7
    <3> QED
      BY <3>1
  <2> QED
    BY <1>6, <2>3, <2>4, <2>5, <2>6, <2>7
<1>12. Members(r) = S \cup {t}
  <2>1. ASSUME NEW x \in Members(r) PROVE x \in S \cup {t}
    <3>1. PICK i \in 1 .. n + 1 : r[i] = x
      BY <1>4 DEF Members
    <3> QED
      BY <1>1, <1>9, <3>1
  <2>2. t \in Members(r)
    <3>1. k \in 1 .. n + 1 /\ r[k] = t
      BY <1>1, <1>4, <1>6
    <3> QED
      BY <1>4, <3>1 DEF Members
  <2>3. ASSUME NEW x \in S PROVE x \in Members(r)
    <3>1. PICK m \in 1 .. n : l[m] = x
      BY <1>1 DEF Members
    <3>2. CASE m < k
      <4>1. m \in 1 .. n + 1 /\ r[m] = x
        BY <1>1, <1>4, <1>6, <3>1, <3>2
      <4> QED
        BY <1>4, <4>1 DEF Members
    <3>3. CASE ~(m < k)
      <4>1. m + 1 \in 1 .. n + 1 /\ ~(m + 1 < k) /\ m + 1 # k /\ m + 1 - 1 = m
        BY <1>1, <1>6, <3>3
      <4>2. r[m + 1] = x
        BY <1>4, <3>1, <4>1
      <4> QED
        BY <1>4, <4>1, <4>2 DEF Members
    <3> QED
      BY <3>2, <3>3
  <2> QED
    BY <2>1, <2>2, <2>3
<1> QED
  BY <1>3, <1>4, <1>10, <1>11, <1>12 DEF Lists, Sorted, Distinct, dead

\* Taking a timer off the list leaves the others.
LEMMA RemovePlace ==
    ASSUME NEW l, NEW its, NEW S, Lists(l, its, S), NEW k \in 1 .. Len(l)
    PROVE  Lists(RemoveAt(l, k), its, S \ {l[k]})
<1> DEFINE n == Len(l)
           r == RemoveAt(l, k)
<1>1. l \in Seq(Timers) /\ n \in Nat /\ k \in Int
  BY LenProperties DEF Lists
<1>2. \A i, j \in 1 .. Len(l) : l[i] = l[j] => i = j
  BY DEF Lists, Distinct
<1>3. \A i, j \in 1 .. n : i < j => its[l[i]].dead <= its[l[j]].dead
  BY DEF Lists, Sorted
<1>4. /\ r \in Seq(Timers) /\ Len(r) = n - 1
      /\ \A i \in 1 .. n - 1 : r[i] = IF i < k THEN l[i] ELSE l[i + 1]
  BY <1>1, RemovedAt
<1>5. /\ \A i, j \in 1 .. Len(r) : r[i] = r[j] => i = j
      /\ {r[i] : i \in 1 .. Len(r)} = {l[i] : i \in 1 .. Len(l)} \ {l[k]}
  BY <1>1, <1>2, RemovedElements
<1> HIDE DEF r
<1>6. ASSUME NEW i \in 1 .. n - 1, NEW j \in 1 .. n - 1, i < j
      PROVE  its[r[i]].dead <= its[r[j]].dead
  <2> DEFINE at(m) == IF m < k THEN m ELSE m + 1
  <2>1. at(i) \in 1 .. n /\ at(j) \in 1 .. n /\ at(i) < at(j)
    BY <1>1, <1>6
  <2>2. r[i] = l[at(i)] /\ r[j] = l[at(j)]
    BY <1>4
  <2> HIDE DEF at
  <2> QED
    BY <1>3, <2>1, <2>2
<1>7. Sorted(r, its) /\ Distinct(r)
  BY <1>4, <1>5, <1>6 DEF Sorted, Distinct
<1>8. Members(r) = S \ {l[k]}
  BY <1>5 DEF Lists, Members
<1> QED
  BY <1>4, <1>7, <1>8 DEF Lists, r

\* timer_remove finds the timer where it is.
LEMMA RemoveTimer ==
    ASSUME NEW its, NEW S, Lists(lst, its, S), NEW t \in S
    PROVE  Lists(timer_remove(t), its, S \ {t})
<1> DEFINE k == Place(t)
<1>1. DOMAIN lst = 1 .. Len(lst)
  BY LenProperties DEF Lists
<1>2. \E i \in 1 .. Len(lst) : lst[i] = t
  BY DEF Lists, Members
<1>3. k \in 1 .. Len(lst) /\ lst[k] = t /\ timer_remove(t) = RemoveAt(lst, k)
  BY <1>1, <1>2 DEF timer_remove, Place
<1> HIDE DEF k
<1>4. Lists(RemoveAt(lst, k), its, S \ {lst[k]})
  BY <1>3, RemovePlace
<1> QED
  BY <1>3, <1>4

\* The first timer is the one due first; the others stay behind it.
LEMMA FirstTimer ==
    ASSUME NEW its \in [Timers -> Items], NEW S, Lists(lst, its, S), lst # << >>
    PROVE  /\ Head(lst) \in S /\ Head(lst) \in Timers
           /\ Lists(Tail(lst), its, S \ {Head(lst)})
           /\ \A x \in S : its[Head(lst)].dead <= its[x].dead
<1> DEFINE n == Len(lst)
           r == Tail(lst)
<1>1. /\ lst \in Seq(Timers)
      /\ \A i, j \in 1 .. n : i < j => its[lst[i]].dead <= its[lst[j]].dead
      /\ \A i, j \in 1 .. n : lst[i] = lst[j] => i = j
  BY DEF Lists, Sorted, Distinct
<1>2. /\ n \in Nat /\ n >= 1 /\ Head(lst) = lst[1]
      /\ r \in Seq(Timers) /\ Len(r) = n - 1
      /\ \A i \in 1 .. n - 1 : r[i] = lst[i + 1]
  <2>1. n \in Nat /\ n # 0
    BY <1>1, LenProperties, EmptySeq
  <2> QED
    BY <1>1, <2>1, HeadTailProperties
<1>3. \A x : x \in S <=> \E i \in 1 .. n : lst[i] = x
  BY DEF Lists, Members
<1>4. \A i \in 1 .. n : lst[i] \in Timers
  BY <1>1, ElementOfSeq
<1>5. \A x \in Timers : its[x].dead \in Int
  BY Times DEF Items
<1> HIDE DEF r
<1>6. lst[1] \in S /\ lst[1] \in Timers
  BY <1>2, <1>3, <1>4
<1>7. ASSUME NEW x \in S PROVE its[lst[1]].dead <= its[x].dead
  <2>1. PICK i \in 1 .. n : lst[i] = x
    BY <1>3
  <2>2. CASE i = 1
    BY <1>5, <1>6, <2>1, <2>2
  <2>3. CASE i # 1
    <3>1. 1 \in 1 .. n /\ 1 < i
      BY <1>2, <2>3
    <3> QED
      BY <1>1, <2>1, <3>1
  <2> QED
    BY <2>2, <2>3
<1>8. Sorted(r, its) /\ Distinct(r)
  <2>1. ASSUME NEW i \in 1 .. n - 1, NEW j \in 1 .. n - 1
        PROVE  /\ i < j => its[r[i]].dead <= its[r[j]].dead
               /\ r[i] = r[j] => i = j
    <3>1. i + 1 \in 1 .. n /\ j + 1 \in 1 .. n /\ (i < j => i + 1 < j + 1)
      BY <1>2
    <3>2. r[i] = lst[i + 1] /\ r[j] = lst[j + 1]
      BY <1>2
    <3>3. r[i] = r[j] => i + 1 = j + 1
      BY <1>1, <3>1, <3>2
    <3>4. i < j => its[r[i]].dead <= its[r[j]].dead
      BY <1>1, <3>1, <3>2
    <3> QED
      BY <3>3, <3>4
  <2> QED
    BY <1>2, <2>1 DEF Sorted, Distinct
<1>9. Members(r) = S \ {lst[1]}
  <2>1. ASSUME NEW x \in Members(r) PROVE x \in S /\ x # lst[1]
    <3>1. PICK i \in 1 .. n - 1 : r[i] = x
      BY <1>2 DEF Members
    <3>2. i + 1 \in 1 .. n /\ i + 1 # 1 /\ 1 \in 1 .. n /\ lst[i + 1] = x
      BY <1>2, <3>1
    <3> QED
      BY <1>1, <1>3, <3>2
  <2>2. ASSUME NEW x \in S, x # lst[1] PROVE x \in Members(r)
    <3>1. PICK i \in 1 .. n : lst[i] = x
      BY <1>3
    <3>2. i - 1 \in 1 .. n - 1 /\ i - 1 + 1 = i
      BY <1>2, <2>2, <3>1
    <3>3. r[i - 1] = x
      BY <1>2, <3>1, <3>2
    <3> QED
      BY <1>2, <3>2, <3>3 DEF Members
  <2> QED
    BY <2>1, <2>2
<1> QED
  BY <1>2, <1>6, <1>7, <1>8, <1>9 DEF Lists, r

\* The fields of a timer that is not listed do not matter.
LEMMA OtherTimer ==
    ASSUME NEW its \in [Timers -> Items], NEW S, NEW l, Lists(l, its, S),
           NEW t \in Timers, t \notin S, NEW it
    PROVE  Lists(l, [its EXCEPT ![t] = it], S)
<1> DEFINE new == [its EXCEPT ![t] = it]
<1>1. \A i \in 1 .. Len(l) : l[i] \in S /\ l[i] \in Timers
  BY ElementOfSeq DEF Lists, Members
<1>2. \A i \in 1 .. Len(l) : new[l[i]] = its[l[i]]
  BY <1>1
<1> HIDE DEF new
<1>3. Sorted(l, new)
  BY <1>2 DEF Lists, Sorted
<1> QED
  BY <1>3 DEF Lists, new

-----------------------------------------------------------------------------
\* The variables other than the list.
Values ==
    /\ now \in 0 .. MaxTime /\ semp \in 0 .. 1 /\ cur \in 0 .. MaxTime
    /\ item \in [Timers -> Items]
    /\ call \in [Timers -> {"none", "creating", "created", "idle", "deleted"}]
    /\ dpc \in {"loop", "pend", "lock", "scan", "handler", "sample", "compute",
                "returned"}
    /\ wait \in 0 .. WaitMax
    /\ handled \in Timers \cup {NoItem}
    /\ daemon_exit \in BOOLEAN /\ lock_failed \in BOOLEAN
    /\ cur <= now

\* A stopped timer has the latest dead_time; a started one is due within the
\* longest cycle from now.
GoodItem(it, time) ==
    IF it.start THEN it.dead <= time + WaitMax - 1 ELSE it.dead = DeadMax

Fields ==
    \A t \in Timers :
        /\ call[t] \in {"creating", "created", "idle"} => item[t].cycle \in Cycles
        /\ GoodItem(item[t], now)

\* The handler runs for a started timer, while the mutex is held.
Handling ==
    /\ dpc = "handler" <=> handled # NoItem
    /\ dpc = "handler" => handled \in Listed /\ item[handled].start

ListOk == Lists(lst, item, Listed \ {handled})

TimerInv == Values /\ Fields /\ Handling /\ ListOk

\* No timer exists at first.
LEMMA InitTimers == Init => TimerInv
<1> SUFFICES ASSUME Init PROVE TimerInv
  OBVIOUS
<1>1. Blank \in Items /\ GoodItem(Blank, now)
  BY Times DEF Blank, Items, GoodItem
<1>2. Listed = {} /\ Handling
  BY BoundTypes DEF Init, Listed, Handling
<1>3. ListOk
  <2>1. << >> \in Seq(Timers) /\ Len(<< >>) = 0
    BY EmptySeq
  <2>2. Members(<< >>) = {} /\ Sorted(<< >>, item) /\ Distinct(<< >>)
    BY <2>1 DEF Members, Sorted, Distinct
  <2> QED
    BY <1>2, <2>1, <2>2 DEF ListOk, Lists, Init
<1>4. /\ item = [t \in Timers |-> Blank] /\ call = [t \in Timers |-> "none"]
      /\ now = 0 /\ semp = 0 /\ dpc = "loop" /\ wait = WaitMax /\ cur = 0
      /\ handled = NoItem /\ daemon_exit = FALSE /\ lock_failed = FALSE
  BY DEF Init
<1>5. Fields /\ item \in [Timers -> Items]
  <2> HIDE DEF Blank
  <2> QED
    BY <1>1, <1>4 DEF Fields
<1>6. Values
  <2>1. call \in [Timers -> {"none", "creating", "created", "idle", "deleted"}]
    BY <1>4
  <2>2. 0 \in 0 .. MaxTime /\ 0 \in 0 .. 1 /\ WaitMax \in 0 .. WaitMax
    BY Times
  <2>3. daemon_exit \in BOOLEAN /\ lock_failed \in BOOLEAN
    BY <1>4
  <2>4. /\ now \in 0 .. MaxTime /\ semp \in 0 .. 1 /\ cur \in 0 .. MaxTime
        /\ wait \in 0 .. WaitMax /\ cur <= now
    BY <1>4, <2>2
  <2>5. handled \in Timers \cup {NoItem} /\ dpc = "loop"
    BY <1>4
  <2> QED
    BY <1>5, <2>1, <2>3, <2>4, <2>5 DEF Values
<1> QED
  BY <1>2, <1>3, <1>5, <1>6 DEF TimerInv

\* A timer that is created has good fields.
LEMMA NewItem ==
    ASSUME TimerInv, NEW cycle \in Cycles, NEW once \in BOOLEAN, NEW start \in BOOLEAN
    PROVE  LET it == [cycle |-> cycle, once |-> once, start |-> start,
                      dead |-> IF start THEN now + cycle ELSE DeadMax]
           IN  it \in Items /\ GoodItem(it, now)
<1>1. now \in 0 .. MaxTime /\ cycle \in 1 .. WaitMax - 1
  BY CycleRange DEF TimerInv, Values
<1>2. now + cycle \in 0 .. DeadMax /\ now + cycle <= now + WaitMax - 1 /\ DeadMax \in 0 .. DeadMax
  BY <1>1, Times
<1> DEFINE dead == IF start THEN now + cycle ELSE DeadMax
           it == [cycle |-> cycle, once |-> once, start |-> start, dead |-> dead]
<1>3. /\ dead \in 0 .. DeadMax
      /\ IF start THEN dead <= now + WaitMax - 1 ELSE dead = DeadMax
  BY <1>2
<1> HIDE DEF dead
<1>4. it \in Items /\ it.start = start /\ it.dead = dead
  BY <1>3 DEF Items
<1>5. GoodItem(it, now)
  BY <1>3, <1>4 DEF GoodItem
<1> QED
  BY <1>4, <1>5 DEF dead

LEMMA CreateTimers ==
    ASSUME TimerInv, NEW t \in Timers, NEW cycle \in Cycles, NEW once \in BOOLEAN,
           NEW start \in BOOLEAN, stimer_create(t, cycle, once, start)
    PROVE  TimerInv'
<1> DEFINE it == [cycle |-> cycle, once |-> once, start |-> start,
                  dead |-> IF start THEN now + cycle ELSE DeadMax]
<1>1. it \in Items /\ GoodItem(it, now) /\ it.cycle \in Cycles
  BY NewItem
<1>2. /\ call[t] = "none" /\ item' = [item EXCEPT ![t] = it]
      /\ call' = [call EXCEPT ![t] = "creating"]
      /\ UNCHANGED <<now, semp, lst, daemon, daemon_exit, lock_failed>>
  BY DEF stimer_create
<1> HIDE DEF it
<1>3. Values' /\ Fields'
  BY <1>1, <1>2 DEF TimerInv, Values, Fields, daemon
<1>4. Listed' = Listed /\ t \notin Listed
  BY <1>2 DEF TimerInv, Values, Listed
<1>5. Handling'
  BY <1>2, <1>4 DEF TimerInv, Values, Handling, daemon
<1>6. ListOk'
  BY <1>2, <1>4, OtherTimer DEF TimerInv, Values, ListOk, daemon
<1> QED
  BY <1>3, <1>5, <1>6 DEF TimerInv

\* A timer whose creation ends without the mutex was never listed.
LEMMA FailTimers ==
    ASSUME TimerInv, NEW t \in Timers, create_fails(t)
    PROVE  TimerInv'
<1>1. Blank \in Items /\ GoodItem(Blank, now)
  BY Times DEF Blank, Items, GoodItem
<1>2. /\ call[t] = "creating" /\ item' = [item EXCEPT ![t] = Blank]
      /\ call' = [call EXCEPT ![t] = "none"] /\ lock_failed' = TRUE
      /\ UNCHANGED <<now, semp, lst, daemon, daemon_exit>>
  BY DEF create_fails
<1>3. Values' /\ Fields'
  BY <1>1, <1>2 DEF TimerInv, Values, Fields, daemon
<1>4. Listed' = Listed /\ t \notin Listed
  BY <1>2 DEF TimerInv, Values, Listed
<1>5. Handling'
  BY <1>2, <1>4 DEF TimerInv, Values, Handling, daemon
<1>6. ListOk'
  BY <1>2, <1>4, OtherTimer DEF TimerInv, Values, ListOk, daemon
<1> QED
  BY <1>3, <1>5, <1>6 DEF TimerInv

\* While the mutex is free no timer is in the hands of the daemon.
LEMMA NoneInHand ==
    ASSUME TimerInv, MutexFree
    PROVE  /\ dpc # "handler" /\ handled = NoItem /\ Listed \subseteq Timers
           /\ Lists(lst, item, Listed) /\ item \in [Timers -> Items]
<1>1. dpc # "handler" /\ handled = NoItem
  BY DEF TimerInv, Handling, MutexFree
<1>2. Listed \ {handled} = Listed
  BY <1>1, BoundTypes DEF Listed
<1> QED
  BY <1>1, <1>2 DEF TimerInv, ListOk, Values, Listed

LEMMA AddTimers ==
    ASSUME TimerInv, NEW t \in Timers, create_add(t)
    PROVE  TimerInv'
<1>1. /\ call[t] = "creating" /\ MutexFree /\ lst' = timer_add(lst, t, item)
      /\ call' = [call EXCEPT ![t] = "created"]
      /\ UNCHANGED <<now, semp, item, daemon, daemon_exit, lock_failed>>
  BY DEF create_add
<1>2. /\ dpc # "handler" /\ handled = NoItem /\ Lists(lst, item, Listed)
      /\ item \in [Timers -> Items]
  BY <1>1, NoneInHand
<1>3. Listed' = Listed \cup {t} /\ t \notin Listed
  BY <1>1 DEF TimerInv, Values, Listed
<1>4. Lists(timer_add(lst, t, item), item, Listed \cup {t})
  BY <1>2, <1>3, AddTimer
<1>5. Listed' \ {handled'} = Listed \cup {t}
  BY <1>1, <1>2, <1>3, BoundTypes DEF Listed, daemon
<1>6. ListOk'
  BY <1>1, <1>4, <1>5 DEF ListOk
<1>7. Values' /\ Fields' /\ Handling'
  BY <1>1, <1>2 DEF TimerInv, Values, Fields, Handling, daemon
<1> QED
  BY <1>6, <1>7 DEF TimerInv

LEMMA DeleteTimers ==
    ASSUME TimerInv, NEW t \in Timers, stimer_delete(t)
    PROVE  TimerInv'
<1>0. Blank \in Items /\ GoodItem(Blank, now)
  BY Times DEF Blank, Items, GoodItem
<1>1. /\ call[t] = "idle" /\ MutexFree /\ lst' = timer_remove(t)
      /\ item' = [item EXCEPT ![t] = Blank] /\ call' = [call EXCEPT ![t] = "deleted"]
      /\ UNCHANGED <<now, semp, daemon, daemon_exit, lock_failed>>
  BY DEF stimer_delete
<1>2. /\ dpc # "handler" /\ handled = NoItem /\ Lists(lst, item, Listed)
      /\ item \in [Timers -> Items]
  BY <1>1, NoneInHand
<1>3. Listed' = Listed \ {t} /\ t \in Listed
  BY <1>1 DEF TimerInv, Values, Listed
<1>4. Lists(timer_remove(t), item, Listed \ {t})
  BY <1>2, <1>3, RemoveTimer
<1>5. Lists(timer_remove(t), [item EXCEPT ![t] = Blank], Listed \ {t})
  BY <1>2, <1>4, OtherTimer
<1>6. Listed' \ {handled'} = Listed \ {t}
  BY <1>1, <1>2, <1>3, BoundTypes DEF Listed, daemon
<1>7. ListOk'
  BY <1>1, <1>5, <1>6 DEF ListOk
<1>8. Values' /\ Fields' /\ Handling'
  BY <1>0, <1>1, <1>2 DEF TimerInv, Values, Fields, Handling, daemon
<1> QED
  BY <1>7, <1>8 DEF TimerInv

\* stop, start and recycle list the timer anew, at its new place.
LEMMA RequeueTimers ==
    ASSUME TimerInv, NEW t \in Timers, NEW it \in Items, GoodItem(it, now),
           it.cycle \in Cycles, Requeue(t, it)
    PROVE  TimerInv'
<1> DEFINE its == [item EXCEPT ![t] = it]
           l == timer_remove(t)
<1>1. /\ call[t] = "idle" /\ MutexFree /\ item' = its
      /\ lst' = timer_add(l, t, its) /\ semp' = 1
      /\ UNCHANGED <<now, call, daemon, daemon_exit, lock_failed>>
  BY DEF Requeue, Post
<1>2. /\ dpc # "handler" /\ handled = NoItem /\ Lists(lst, item, Listed)
      /\ item \in [Timers -> Items]
  BY <1>1, NoneInHand
<1>3. t \in Listed /\ Listed' = Listed
  BY <1>1 DEF Listed
<1>4. Lists(l, item, Listed \ {t})
  BY <1>2, <1>3, RemoveTimer
<1> HIDE DEF l
<1>5. Lists(l, its, Listed \ {t}) /\ its \in [Timers -> Items]
  BY <1>2, <1>4, OtherTimer
<1> HIDE DEF its
<1>6. Lists(timer_add(l, t, its), its, (Listed \ {t}) \cup {t})
  BY <1>5, AddTimer
<1>7. Listed' \ {handled'} = (Listed \ {t}) \cup {t}
  BY <1>1, <1>2, <1>3, BoundTypes DEF Listed, daemon
<1>8. ListOk'
  BY <1>1, <1>6, <1>7 DEF ListOk
<1>9. Values' /\ Fields' /\ Handling'
  BY <1>1, <1>2 DEF TimerInv, Values, Fields, Handling, daemon, its
<1> QED
  BY <1>8, <1>9 DEF TimerInv

\* A timer that is stopped.
LEMMA StoppedItem ==
    ASSUME NEW it \in Items
    PROVE  LET s == [it EXCEPT !.start = FALSE, !.dead = DeadMax]
           IN  /\ s \in Items /\ s.start = FALSE /\ s.dead = DeadMax
               /\ s.cycle = it.cycle
<1> DEFINE s == [it EXCEPT !.start = FALSE, !.dead = DeadMax]
           m == [it EXCEPT !.start = FALSE]
<1>1. /\ m \in Items /\ m.start = FALSE /\ m.cycle = it.cycle
      /\ s = [m EXCEPT !.dead = DeadMax]
  BY DEF Items
<1>2. DeadMax \in 0 .. DeadMax
  BY Times
<1> HIDE DEF m, s
<1>3. s \in Items /\ s.start = FALSE /\ s.dead = DeadMax /\ s.cycle = it.cycle
  BY <1>1, <1>2 DEF Items
<1> QED
  BY <1>3 DEF s

LEMMA StopTimers ==
    ASSUME TimerInv, NEW t \in Timers, ioctl_stop(t)
    PROVE  TimerInv'
<1> DEFINE it == [item[t] EXCEPT !.start = FALSE, !.dead = DeadMax]
<1>1. call[t] = "idle" /\ item[t] \in Items /\ item[t].cycle \in Cycles
  BY DEF ioctl_stop, Requeue, TimerInv, Values, Fields
<1>2. it \in Items /\ GoodItem(it, now) /\ it.cycle \in Cycles
  BY <1>1, StoppedItem DEF GoodItem
<1>3. Requeue(t, it)
  BY DEF ioctl_stop
<1> HIDE DEF it
<1> QED
  BY <1>2, <1>3, RequeueTimers

LEMMA StartTimers ==
    ASSUME TimerInv, NEW t \in Timers, ioctl_start(t)
    PROVE  TimerInv'
<1> DEFINE it == [item[t] EXCEPT !.start = TRUE, !.dead = item[t].cycle + now]
<1>1. call[t] = "idle" /\ item[t] \in Items /\ item[t].cycle \in Cycles
  BY DEF ioctl_start, Requeue, TimerInv, Values, Fields
<1>2. now \in 0 .. MaxTime /\ item[t].cycle \in 1 .. WaitMax - 1
  BY <1>1, CycleRange DEF TimerInv, Values
<1>3. /\ item[t].cycle + now \in 0 .. DeadMax
      /\ item[t].cycle + now <= now + WaitMax - 1
  BY <1>2, Times
<1>4. it \in Items /\ GoodItem(it, now) /\ it.cycle \in Cycles
  BY <1>1, <1>3 DEF Items, GoodItem
<1>5. Requeue(t, it)
  BY DEF ioctl_start
<1> HIDE DEF it
<1> QED
  BY <1>4, <1>5, RequeueTimers

LEMMA RecycleTimers ==
    ASSUME TimerInv, NEW t \in Timers, NEW cycle \in Cycles, ioctl_recycle(t, cycle)
    PROVE  TimerInv'
<1> DEFINE it == [item[t] EXCEPT !.cycle = cycle,
                                 !.dead = IF item[t].start THEN cycle + now ELSE @]
<1>1. call[t] = "idle" /\ item[t] \in Items /\ GoodItem(item[t], now)
  BY DEF ioctl_recycle, Requeue, TimerInv, Values, Fields
<1>2. now \in 0 .. MaxTime /\ cycle \in 1 .. WaitMax - 1
  BY CycleRange DEF TimerInv, Values
<1>3. cycle + now \in 0 .. DeadMax /\ cycle + now <= now + WaitMax - 1
  BY <1>2, Times
<1>4. it \in Items /\ GoodItem(it, now) /\ it.cycle \in Cycles
  BY <1>1, <1>3 DEF Items, GoodItem
<1>5. Requeue(t, it)
  BY DEF ioctl_recycle
<1> HIDE DEF it
<1> QED
  BY <1>4, <1>5, RequeueTimers

\* timer_scan takes the first timer off the list if it is due: it is started
\* then, for a stopped one is never due.
LEMMA ScanTimers ==
    ASSUME TimerInv, timer_scan
    PROVE  TimerInv'
<1>1. /\ dpc = "scan" /\ UNCHANGED <<now, semp, item, call, wait, daemon_exit, lock_failed>>
      /\ cur' \in {cur, now}
  BY DEF timer_scan
<1>2. /\ handled = NoItem /\ Listed \subseteq Timers /\ Listed \ {handled} = Listed
      /\ Lists(lst, item, Listed) /\ item \in [Timers -> Items] /\ Listed' = Listed
  <2>1. handled = NoItem
    BY <1>1 DEF TimerInv, Handling
  <2>2. Listed \ {handled} = Listed
    BY <2>1, BoundTypes DEF Listed
  <2> QED
    BY <1>1, <2>1, <2>2 DEF TimerInv, ListOk, Values, Listed
<1>3. CASE lst = << >>
  <2>1. UNCHANGED <<lst, handled>> /\ dpc' = "sample"
    BY <1>3 DEF timer_scan
  <2> QED
    BY <1>1, <1>2, <2>1 DEF TimerInv, Values, Fields, Handling, ListOk
<1>4. CASE lst # << >>
  <2> DEFINE first == Head(lst)
             l == Tail(lst)
  <2>1. /\ first \in Listed /\ first \in Timers /\ Lists(l, item, Listed \ {first})
    BY <1>2, <1>4, FirstTimer
  <2>2. IF Due(item[first])
        THEN handled' = first /\ lst' = l /\ dpc' = "handler"
        ELSE lst' = timer_add(l, first, item) /\ dpc' = "sample" /\ UNCHANGED handled
    BY <1>4 DEF timer_scan
  <2> HIDE DEF first, l
  <2>3. CASE Due(item[first])
    <3>1. item[first].start
      <4>1. item[first].dead <= now /\ now < DeadMax
        BY <2>3, Times DEF Due, TimerInv, Values
      <4>2. item[first].dead # DeadMax
        BY <4>1, Times DEF TimerInv, Values
      <4> QED
        BY <2>1, <4>2 DEF TimerInv, Fields, GoodItem
    <3>2. Handling'
      BY <1>1, <1>2, <2>1, <2>2, <2>3, <3>1, BoundTypes DEF Handling
    <3>3. Values' /\ Fields'
      BY <1>1, <2>1, <2>2, <2>3, Times DEF TimerInv, Values, Fields
    <3>4. ListOk'
      BY <1>1, <1>2, <2>1, <2>2, <2>3 DEF ListOk
    <3> QED
      BY <3>2, <3>3, <3>4 DEF TimerInv
  <2>4. CASE ~Due(item[first])
    <3>1. Lists(timer_add(l, first, item), item, (Listed \ {first}) \cup {first})
      BY <1>2, <2>1, AddTimer
    <3>2. (Listed \ {first}) \cup {first} = Listed
      BY <2>1
    <3>3. ListOk'
      BY <1>1, <1>2, <2>2, <2>4, <3>1, <3>2 DEF ListOk
    <3>4. Values' /\ Fields' /\ Handling'
      BY <1>1, <1>2, <2>2, <2>4, Times DEF TimerInv, Values, Fields, Handling
    <3> QED
      BY <3>3, <3>4 DEF TimerInv
  <2> QED
    BY <2>3, <2>4
<1> QED
  BY <1>3, <1>4

\* After its handler the timer is stopped or set again, and listed.
LEMMA ReturnTimers ==
    ASSUME TimerInv, handler_return
    PROVE  TimerInv'
<1> DEFINE it == Expired(item[handled])
           its == [item EXCEPT ![handled] = it]
<1>1. /\ dpc = "handler" /\ item' = its /\ lst' = timer_add(lst, handled, its)
      /\ handled' = NoItem /\ dpc' = "scan"
      /\ UNCHANGED <<now, semp, call, wait, cur, daemon_exit, lock_failed>>
  BY DEF handler_return
<1>2. /\ handled \in Listed /\ handled \in Timers /\ item[handled].start
      /\ item \in [Timers -> Items] /\ item[handled] \in Items
      /\ item[handled].cycle \in Cycles
  BY <1>1 DEF TimerInv, Handling, Listed, Values, Fields
<1>3. cur \in 0 .. MaxTime /\ now \in 0 .. MaxTime /\ cur <= now
      /\ item[handled].cycle \in 1 .. WaitMax - 1
  BY <1>2, CycleRange DEF TimerInv, Values
<1>4. cur + item[handled].cycle \in 0 .. DeadMax
      /\ cur + item[handled].cycle <= now + WaitMax - 1
  BY <1>3, Times
<1>5. it \in Items /\ GoodItem(it, now) /\ it.cycle \in Cycles
  <2>1. CASE item[handled].once
    BY <1>2, <2>1, StoppedItem DEF Expired, GoodItem
  <2>2. CASE ~item[handled].once
    <3>1. it = [item[handled] EXCEPT !.dead = cur + item[handled].cycle]
      BY <2>2 DEF Expired
    <3> QED
      BY <1>2, <1>4, <3>1 DEF Items, GoodItem
  <2> QED
    BY <2>1, <2>2
<1> HIDE DEF it
<1>6. Lists(lst, its, Listed \ {handled}) /\ its \in [Timers -> Items]
  BY <1>2, <1>5, OtherTimer DEF TimerInv, ListOk
<1>7. its[handled] = it /\ \A t \in Timers : t # handled => its[t] = item[t]
  BY <1>2
<1> HIDE DEF its
<1>8. Lists(timer_add(lst, handled, its), its, (Listed \ {handled}) \cup {handled})
  BY <1>2, <1>6, AddTimer
<1>9. Listed' \ {handled'} = (Listed \ {handled}) \cup {handled}
  BY <1>1, <1>2, BoundTypes DEF Listed
<1>10. ListOk'
  BY <1>1, <1>8, <1>9 DEF ListOk
<1>11. Values' /\ Handling'
  BY <1>1, <1>6 DEF TimerInv, Values, Handling
<1>12. Fields'
  BY <1>1, <1>5, <1>7 DEF TimerInv, Fields
<1> QED
  BY <1>10, <1>11, <1>12 DEF TimerInv

\* The longest wait fits its type, whatever the clock says.
LEMMA WaitRange == TimerInv => WaitTime \in 0 .. WaitMax
<1> SUFFICES ASSUME TimerInv PROVE WaitTime \in 0 .. WaitMax
  OBVIOUS
<1>1. CASE lst = << >> \/ item[Head(lst)].dead = DeadMax
  BY <1>1, Times DEF WaitTime
<1>2. CASE ~(lst = << >> \/ item[Head(lst)].dead = DeadMax)
  <2> DEFINE d == item[Head(lst)].dead
             w == IF d > cur THEN (d - cur) % (WaitMax + 1) ELSE 0
  <2>1. Head(lst) \in Timers
    BY <1>2, FirstTimer DEF TimerInv, ListOk, Values
  <2>2. d \in Int /\ cur \in Int
    BY <2>1, Times DEF TimerInv, Values, Items
  <2> HIDE DEF d
  <2>3. d - cur \in Int /\ WaitMax + 1 \in Nat /\ WaitMax + 1 > 0
    BY <2>2, Times
  <2>4. \A a \in Int, b \in Nat : b > 0 => a % b \in 0 .. b - 1
    OBVIOUS
  <2>5. (d - cur) % (WaitMax + 1) \in 0 .. WaitMax
    BY <2>3, <2>4, Times
  <2>6. w \in 0 .. WaitMax
    BY <2>5, Times
  <2>7. WaitTime = IF w > WaitMax - 1 THEN WaitMax ELSE w
    BY <1>2 DEF WaitTime, d
  <2> HIDE DEF w
  <2> QED
    BY <2>6, <2>7, Times
<1> QED
  BY <1>1, <1>2

\* The steps that leave the timers alone.
LEMMA OtherSteps ==
    ASSUME TimerInv,
           \/ entry_loop \/ entry_pend \/ entry_lock \/ entry_sample \/ entry_compute
           \/ Tick \/ stimer_daemonquit \/ (\E t \in Timers : post_after(t))
           \/ UNCHANGED vars
    PROVE  TimerInv'
<1>1. ASSUME UNCHANGED <<lst, item, handled>>, Listed' = Listed, now' >= now,
             dpc' # "handler", dpc # "handler" \/ UNCHANGED dpc
      PROVE  Handling' /\ ListOk'
  BY <1>1 DEF TimerInv, Handling, ListOk
<1>2. ASSUME UNCHANGED <<lst, item, handled, dpc>>, Listed' = Listed
      PROVE  Handling' /\ ListOk'
  BY <1>2 DEF TimerInv, Handling, ListOk
<1>3. ASSUME UNCHANGED <<item, call, now>> PROVE Fields'
  BY <1>3 DEF TimerInv, Fields
<1>4. CASE entry_loop
  <2>1. Values'
    BY <1>4, Times DEF entry_loop, TimerInv, Values
  <2> QED
    BY <1>1, <1>3, <1>4, <2>1 DEF entry_loop, TimerInv, Values, Listed
<1>5. CASE entry_pend
  <2>1. Values'
    BY <1>5, Times DEF entry_pend, TimerInv, Values
  <2> QED
    BY <1>1, <1>3, <1>5, <2>1 DEF entry_pend, TimerInv, Values, Listed
<1>6. CASE entry_lock
  <2>1. Values'
    BY <1>6 DEF entry_lock, TimerInv, Values
  <2> QED
    BY <1>1, <1>3, <1>6, <2>1 DEF entry_lock, TimerInv, Values, Listed
<1>7. CASE entry_sample
  <2>1. Values'
    BY <1>7 DEF entry_sample, TimerInv, Values
  <2> QED
    BY <1>1, <1>3, <1>7, <2>1 DEF entry_sample, TimerInv, Values, Listed
<1>8. CASE entry_compute
  <2>1. Values'
    BY <1>8, WaitRange DEF entry_compute, TimerInv, Values
  <2> QED
    BY <1>1, <1>3, <1>8, <2>1 DEF entry_compute, TimerInv, Values, Listed
<1>9. CASE Tick
  <2>1. now \in 0 .. MaxTime /\ now < MaxTime /\ now' = now + 1
    BY <1>9 DEF Tick, TimerInv, Values
  <2>2. UNCHANGED <<semp, lst, item, call, dpc, wait, cur, handled, daemon_exit, lock_failed>>
    BY <1>9 DEF Tick, daemon
  <2>3. Values'
    BY <2>1, <2>2, Times DEF TimerInv, Values
  <2>4. Fields'
    <3>1. ASSUME NEW t \in Timers, GoodItem(item[t], now) PROVE GoodItem(item[t], now + 1)
      <4>1. item[t].dead \in Int
        BY Times DEF TimerInv, Values, Items
      <4> QED
        BY <2>1, <3>1, <4>1, Times DEF GoodItem
    <3> QED
      BY <2>1, <2>2, <3>1 DEF TimerInv, Fields
  <2> QED
    BY <1>2, <2>2, <2>3, <2>4 DEF TimerInv, Listed
<1>10. CASE stimer_daemonquit
  <2>1. Values'
    BY <1>10 DEF stimer_daemonquit, TimerInv, Values, daemon
  <2> QED
    BY <1>2, <1>3, <1>10, <2>1 DEF stimer_daemonquit, TimerInv, Listed, daemon
<1>11. ASSUME NEW t \in Timers, post_after(t) PROVE TimerInv'
  <2>1. /\ call[t] \in {"created", "deleted"} /\ semp' = 1
        /\ call' = [call EXCEPT ![t] = IF call[t] = "created" THEN "idle" ELSE "none"]
        /\ UNCHANGED <<now, lst, item, dpc, wait, cur, handled, daemon_exit, lock_failed>>
    BY <1>11 DEF post_after, Post, daemon
  <2>2. Values' /\ Listed' = Listed
    BY <2>1 DEF TimerInv, Values, Listed
  <2>3. Fields'
    BY <2>1 DEF TimerInv, Values, Fields
  <2> QED
    BY <1>2, <2>1, <2>2, <2>3 DEF TimerInv
<1>12. CASE UNCHANGED vars
  BY <1>2, <1>3, <1>12 DEF vars, daemon, TimerInv, Values, Listed
<1> QED
  BY <1>4, <1>5, <1>6, <1>7, <1>8, <1>9, <1>10, <1>11, <1>12

\* Each step keeps the timers in order.
LEMMA NextTimers == TimerInv /\ [Next]_vars => TimerInv'
<1> SUFFICES ASSUME TimerInv, [Next]_vars PROVE TimerInv'
  OBVIOUS
<1>1. ASSUME NEW t \in Timers, Task(t) PROVE TimerInv'
  BY <1>1, CreateTimers, AddTimers, FailTimers, DeleteTimers, StopTimers, StartTimers,
     RecycleTimers, OtherSteps DEF Task, Finish
<1>2. CASE Daemon
  BY <1>2, ScanTimers, ReturnTimers, OtherSteps DEF Daemon
<1> QED
  BY <1>1, <1>2, OtherSteps DEF Next

-----------------------------------------------------------------------------
\* The daemon has been told, or is about to be, that the list has changed.
Pending == semp = 1 \/ \E t \in Timers : call[t] \in {"created", "deleted"}

\* Between the unlock and the computation the clock the daemon has read is
\* good for every timer, and the wait it has computed ends before the first.
Wakeup ==
    ~lock_failed =>
      \/ Pending
      \/ /\ dpc = "compute" => \A t \in Listed :
                item[t].start => item[t].dead <= cur + WaitMax - 1
         /\ dpc \in {"loop", "pend"} => \A t \in Listed :
                item[t].start =>
                   wait # WaitMax /\ (cur + wait <= item[t].dead \/ wait = 0)

\* Nothing is listed at first.
LEMMA InitWakeup == Init => Wakeup
  BY DEF Init, Wakeup, Listed

\* The wait that the daemon computes.
LEMMA ComputedWait ==
    ASSUME TimerInv, dpc = "compute",
           \A t \in Listed : item[t].start => item[t].dead <= cur + WaitMax - 1
    PROVE  \A t \in Listed : item[t].start =>
              WaitTime # WaitMax /\ (cur + WaitTime <= item[t].dead \/ WaitTime = 0)
<1> SUFFICES ASSUME NEW t \in Listed, item[t].start
             PROVE  WaitTime # WaitMax
                      /\ (cur + WaitTime <= item[t].dead \/ WaitTime = 0)
  OBVIOUS
<1> DEFINE first == Head(lst)
           d == item[first].dead
           e == item[t].dead
<1>1. /\ handled = NoItem /\ Listed \ {handled} = Listed /\ t \in Timers
      /\ item \in [Timers -> Items] /\ Lists(lst, item, Listed)
  <2>1. handled = NoItem
    BY DEF TimerInv, Handling
  <2>2. Listed \ {handled} = Listed
    BY <2>1, BoundTypes DEF Listed
  <2> QED
    BY <2>1, <2>2 DEF TimerInv, Values, ListOk, Listed
<1>2. lst # << >>
  <2>1. Members(lst) # {}
    BY <1>1 DEF Lists
  <2>2. Len(<< >>) = 0
    BY EmptySeq
  <2> QED
    BY <2>1, <2>2 DEF Members
<1>3. first \in Listed /\ first \in Timers /\ d <= e
  BY <1>1, <1>2, FirstTimer
<1>4. /\ d \in Int /\ e \in Int /\ cur \in 0 .. MaxTime /\ now \in 0 .. MaxTime
      /\ item[t].cycle \in 1 .. WaitMax - 1 /\ e <= cur + WaitMax - 1
      /\ e <= now + WaitMax - 1
  <2>1. d \in Int /\ e \in Int
    BY <1>1, <1>3, Times DEF Items
  <2>2. cur \in 0 .. MaxTime /\ now \in 0 .. MaxTime
    BY DEF TimerInv, Values
  <2>3. call[t] \in {"created", "idle"}
    BY DEF Listed
  <2>4. item[t].cycle \in Cycles /\ e <= now + WaitMax - 1
    BY <1>1, <2>3 DEF TimerInv, Fields, GoodItem
  <2>5. e <= cur + WaitMax - 1
    OBVIOUS
  <2> QED
    BY <2>1, <2>2, <2>4, <2>5, CycleRange
<1>5. d # DeadMax /\ WaitMax >= 2
  BY <1>3, <1>4, Times
<1>6. WaitTime = LET w == IF d > cur THEN (d - cur) % (WaitMax + 1) ELSE 0
                 IN  IF w > WaitMax - 1 THEN WaitMax ELSE w
  BY <1>2, <1>5 DEF WaitTime
<1> HIDE DEF d, e, first
<1>7. CASE d > cur
  <2>1. d - cur \in 0 .. WaitMax - 1 /\ WaitMax + 1 \in Nat
    BY <1>3, <1>4, <1>7, Times
  <2>2. \A a, b \in Nat : a < b => a % b = a
    OBVIOUS
  <2>3. (d - cur) % (WaitMax + 1) = d - cur
    BY <2>1, <2>2, Times
  <2>4. WaitTime = d - cur
    BY <1>6, <1>7, <2>1, <2>3, Times
  <2>5. WaitTime # WaitMax /\ cur + WaitTime <= e
    BY <1>3, <1>4, <2>1, <2>4, Times
  <2> QED
    BY <2>5 DEF e
<1>8. CASE ~(d > cur)
  BY <1>5, <1>6, <1>8, Times
<1> QED
  BY <1>7, <1>8

\* No step of another task leaves the daemon asleep.
LEMMA NextWakeup == TimerInv /\ Wakeup /\ [Next]_vars => Wakeup'
<1> SUFFICES ASSUME TimerInv, Wakeup, [Next]_vars PROVE Wakeup'
  OBVIOUS
<1>1. ASSUME UNCHANGED <<semp, item, call, dpc, wait, cur, lock_failed>> PROVE Wakeup'
  BY <1>1 DEF Wakeup, Pending, Listed
<1>2. ASSUME lock_failed' \/ Pending' PROVE Wakeup'
  BY <1>2 DEF Wakeup
<1>3. ASSUME dpc' \notin {"compute", "loop", "pend"} PROVE Wakeup'
  BY <1>3 DEF Wakeup
<1>4. ASSUME NEW t \in Timers, Task(t) PROVE Wakeup'
  <2>1. ASSUME NEW cycle \in Cycles, NEW once \in BOOLEAN, NEW start \in BOOLEAN,
               stimer_create(t, cycle, once, start)
        PROVE  Wakeup'
    <3>1. /\ call[t] = "none" /\ call' = [call EXCEPT ![t] = "creating"]
          /\ \A x \in Timers : x # t => item'[x] = item[x] /\ call'[x] = call[x]
          /\ UNCHANGED <<semp, dpc, wait, cur, lock_failed>>
      BY <2>1 DEF stimer_create, daemon, TimerInv, Values
    <3>2. Listed' = Listed /\ t \notin Listed /\ (Pending => Pending')
      BY <3>1 DEF TimerInv, Values, Listed, Pending
    <3>3. \A x \in Listed : item'[x] = item[x]
      BY <3>1, <3>2 DEF Listed
    <3> QED
      BY <3>1, <3>2, <3>3 DEF Wakeup
  <2>2. CASE create_add(t) \/ stimer_delete(t)
    <3>1. Pending'
      BY <2>2 DEF create_add, stimer_delete, TimerInv, Values, Pending
    <3> QED
      BY <1>2, <3>1
  <2>3. CASE create_fails(t)
    BY <1>2, <2>3 DEF create_fails
  <2>4. ASSUME \/ post_after(t) \/ ioctl_stop(t) \/ ioctl_start(t)
               \/ \E cycle \in Cycles : ioctl_recycle(t, cycle)
        PROVE  Wakeup'
    <3>1. semp' = 1
      BY <2>4 DEF post_after, ioctl_stop, ioctl_start, ioctl_recycle, Requeue, Post
    <3> QED
      BY <1>2, <3>1 DEF Pending
  <2> QED
    BY <1>4, <2>1, <2>2, <2>3, <2>4 DEF Task, Finish
<1>5. CASE entry_loop
  BY <1>5 DEF entry_loop, Wakeup, Pending, Listed
<1>6. CASE entry_pend \/ entry_lock \/ timer_scan \/ handler_return
  BY <1>3, <1>6 DEF entry_pend, entry_lock, timer_scan, handler_return
<1>7. CASE entry_sample
  <2>1. dpc' = "compute" /\ cur' = now /\ UNCHANGED <<item, call>>
    BY <1>7 DEF entry_sample
  <2>2. \A t \in Listed' : item'[t].start => item'[t].dead <= cur' + WaitMax - 1
    BY <2>1 DEF TimerInv, Fields, GoodItem, Listed
  <2> QED
    BY <2>1, <2>2 DEF Wakeup
<1>8. CASE entry_compute
  <2>1. /\ dpc = "compute" /\ dpc' = "loop" /\ UNCHANGED <<semp, item, call, cur>>
        /\ \/ wait' = WaitTime /\ UNCHANGED lock_failed
           \/ lock_failed' = TRUE
    BY <1>8 DEF entry_compute
  <2>2. CASE lock_failed'
    BY <1>2, <2>2
  <2>3. CASE ~lock_failed' /\ Pending
    <3>1. Pending'
      BY <2>1, <2>3 DEF Pending
    <3> QED
      BY <1>2, <3>1
  <2>4. CASE ~lock_failed' /\ ~Pending
    <3>1. wait' = WaitTime /\ ~lock_failed
      BY <2>1, <2>4
    <3>2. \A t \in Listed : item[t].start => item[t].dead <= cur + WaitMax - 1
      BY <2>1, <2>4, <3>1 DEF Wakeup
    <3>3. \A t \in Listed : item[t].start =>
             WaitTime # WaitMax /\ (cur + WaitTime <= item[t].dead \/ WaitTime = 0)
      BY <2>1, <3>2, ComputedWait
    <3>4. Listed' = Listed
      BY <2>1 DEF Listed
    <3> HIDE DEF Pending
    <3> QED
      BY <2>1, <3>1, <3>3, <3>4 DEF Wakeup
  <2> QED
    BY <2>2, <2>3, <2>4
<1>9. CASE Tick \/ stimer_daemonquit \/ UNCHANGED vars
  BY <1>1, <1>9 DEF Tick, stimer_daemonquit, vars, daemon
<1> QED
  BY <1>4, <1>5, <1>6, <1>7, <1>8, <1>9 DEF Next, Daemon

-----------------------------------------------------------------------------
\* The inductive invariant.
THEOREM TimerInvariant == Spec => [](TimerInv /\ Wakeup)
<1>1. Init => TimerInv /\ Wakeup
  BY InitTimers, InitWakeup
<1>2. TimerInv /\ Wakeup /\ [Next]_vars => (TimerInv /\ Wakeup)'
  BY NextTimers, NextWakeup
<1> QED
  BY <1>1, <1>2, PTL DEF Spec

\* While other tasks create, delete and control timers and a handler runs, the
\* list stays sorted and holds every timer once: for any number of timers.
THEOREM TimersStayListed == Spec => []ListSound
<1>1. TimerInv => ListSound
  <2> SUFFICES ASSUME TimerInv PROVE ListSound
    OBVIOUS
  <2>1. TypeOK
    BY DEF TimerInv, Values, ListOk, Lists, Items, TypeOK
  <2> QED
    BY <2>1 DEF TimerInv, ListOk, Lists, Sorted, Distinct, Members, Handling, ListSound
<1> QED
  BY <1>1, TimerInvariant, PTL

\* A timer that was deleted or stopped is quiet.
THEOREM StoppedTimersAreQuiet == Spec => []QuietWhenStopped
<1>1. TimerInv => QuietWhenStopped
  BY DEF TimerInv, Handling, QuietWhenStopped
<1> QED
  BY <1>1, TimerInvariant, PTL

\* The daemon does not sleep past a deadline, for any cycles below "for ever".
THEOREM DaemonNeverOversleeps == Spec => []NeverOversleep
<1>1. Wakeup => NeverOversleep
  BY DEF Wakeup, Pending, NeverOversleep
<1> QED
  BY <1>1, TimerInvariant, PTL

\* timer_scan leaves no timer that was due when it looked at the clock.
THEOREM ScansAreComplete == Spec => ScanComplete
<1>1. TimerInv /\ [Next]_vars =>
        [dpc = "scan" /\ dpc' = "sample"
           => \A t \in Listed : item[t].start => item[t].dead > now]_vars
  <2> SUFFICES ASSUME TimerInv, Next, dpc = "scan", dpc' = "sample",
                      NEW t \in Listed, item[t].start
               PROVE  item[t].dead > now
    OBVIOUS
  <2>1. timer_scan
    BY DEF Next, Daemon, Task, Finish, entry_loop, entry_pend, entry_lock, handler_return,
           entry_sample, entry_compute, Tick, stimer_daemonquit, stimer_create, create_add,
           create_fails, post_after, stimer_delete, ioctl_stop, ioctl_start, ioctl_recycle,
           Requeue, daemon
  <2>2. handled = NoItem
    BY DEF TimerInv, Handling
  <2>3. Listed \ {handled} = Listed /\ t \in Timers
    BY <2>2, BoundTypes DEF Listed
  <2>4. Lists(lst, item, Listed) /\ item \in [Timers -> Items] /\ now \in Int
    BY <2>3 DEF TimerInv, ListOk, Values
  <2>5. lst # << >>
    <3>1. Members(lst) # {}
      BY <2>4 DEF Lists
    <3>2. Len(<< >>) = 0
      BY EmptySeq
    <3> QED
      BY <3>1, <3>2 DEF Members
  <2>6. ~Due(item[Head(lst)])
    BY <2>1, <2>5 DEF timer_scan
  <2>7. Head(lst) \in Timers /\ item[Head(lst)].dead <= item[t].dead
    BY <2>4, <2>5, FirstTimer
  <2>8. item[Head(lst)].dead \in Int /\ item[t].dead \in Int
    BY <2>3, <2>4, <2>7, Times DEF Items
  <2> QED
    BY <2>4, <2>6, <2>7, <2>8 DEF Due
<1> QED
  BY <1>1, TimerInvariant, PTL DEF Spec, ScanComplete
=============================================================================
