----------------------------- MODULE UsipProofs -----------------------------
(***************************************************************************)
(* Proofs about USIP, for every number of slots, sequence numbers, calls,  *)
(* retransmissions and faults.  One inductive invariant, UsipInv, has      *)
(* three layers.  What the variables hold and what a transmission looks    *)
(* like (Basics) holds whatever the line does.  While every ack is awaited *)
(* (Exchange), there is at most one package or ack of a station under way, *)
(* it is the current one, and it is unread at the read index or not there. *)
(* While only frames with data are damaged (Ordered), the list and the     *)
(* deliveries of the receive task are those of the current call.           *)
(***************************************************************************)
EXTENDS Usip, ListLemmas

-----------------------------------------------------------------------------
(* The inductive invariant *)

\* What the variables hold.
Slots == 0 .. USIP_UART_SKB_NUM - 1
Nodes == [msg : Nat, pkg : Nat]
Items == Bodies \cup {End, BadEsc}
Senders == [pc : {"idle", "convert", "send", "sending", "wait"}, size : Nat,
            pkg : Nat, loop_cnt : Nat, broken : BOOLEAN]
Uarts == {u \in [head : BOOLEAN, bytes : Bodies, posts : Nat,
                 skb : [Slots -> Bodies], w : Slots, r : Slots, unread : Int] :
            u.bytes # None => u.head}

\* Every variable keeps its type.
Types ==
    /\ snd \in [Stations -> Senders]
    /\ g_seq \in [Stations -> 0 .. USIP_SEQ_MAX]
    /\ g_wait_seq \in [Stations -> 0 .. USIP_SEQ_MAX]
    /\ send_buf \in [Stations -> Bodies]
    /\ ack_sem \in [Stations -> 0 .. 1] /\ rx_sem \in [Stations -> 0 .. 1]
    /\ uart \in [Stations -> Uarts]
    /\ list \in [Stations -> Seq(Nodes)] /\ last_rcvd \in [Stations -> BOOLEAN]
    /\ sent \in [Stations -> Seq(Sizes)] /\ result \in [Stations -> Seq(Codes)]
    /\ got \in [Stations -> Seq(Seq(Nodes))] /\ taken \in [Stations -> SUBSET Nodes]

\* What a transmission looks like: a frame, a frame of another length than the
\* sending task believes, or an ack that broke into one of these.
Transmissions ==
    {<<Noise>>, <<End, Noise>>}
      \cup {Frame(x) : x \in Bodies \ {None}}
      \cup {<<Noise>> \o Frame(x) : x \in Bodies \ {None}}
      \cup {<<End, Noise>> \o Frame(x) : x \in Bodies \ {None}}

\* The line carries nothing but transmissions.
Lines == line \in [Stations -> Seq(Transmissions)]

\* The calls of a station and their results, and how far the current one is.
Call(s) ==
    /\ Len(sent[s]) + Len(sent[Peer(s)]) <= MaxSent
    /\ Len(sent[s]) = Len(result[s]) + (IF snd[s].pc = "idle" THEN 0 ELSE 1)
    /\ snd[s].pc # "idle" => snd[s].size = sent[s][Len(sent[s])]
    /\ snd[s].pkg <= LastPackage(snd[s].size)
    /\ snd[s].loop_cnt <= USIP_MAX_ARQ_TIMES
    /\ snd[s].pc = "wait" => snd[s].loop_cnt < USIP_MAX_ARQ_TIMES
    /\ snd[s].pc \in {"send", "sending", "wait"} => send_buf[s] # None
    /\ uart[s].posts = 0

Calls == \A s \in Stations : Call(s)

\* Between two transmissions no frame is begun, and the line carries frames.
Framed ==
    trouble \cap {"framing", "shared"} = {} =>
      \A s \in Stations :
        /\ ~uart[s].head
        /\ \A i \in DOMAIN line[s] : \E x \in Bodies \ {None} : line[s][i] = Frame(x)

\* What is unread is at the read index, and an ack is nowhere else.
Window(s) ==
    /\ uart[s].unread = rx_sem[s]
    /\ rx_sem[s] = 0 => uart[s].w = uart[s].r
    /\ rx_sem[s] = 1 => uart[s].w = (uart[s].r + 1) % USIP_UART_SKB_NUM
    /\ uart[s].bytes \in {None, Noise}
    /\ \A j \in Slots : uart[s].skb[j].kind = "ack" => rx_sem[s] = 1 /\ j = uart[s].r

\* A transmission with a body of this kind, one such transmission at most, and
\* which body it is.
Carries(t, kind) == \E i \in DOMAIN t : t[i].kind = kind
Some(q, kind) == \E i \in DOMAIN q : Carries(q[i], kind)
Once(q, kind) ==
    \A i, j \in DOMAIN q : Carries(q[i], kind) /\ Carries(q[j], kind) => i = j
AllAre(q, kind, x) ==
    \A i \in DOMAIN q : \A j \in DOMAIN q[i] : q[i][j].kind = kind => q[i][j] = x

\* Where a package or its ack may be.
DataOnLine(s) == Some(line[Peer(s)], "data")
DataInSlot(s) == rx_sem[Peer(s)] = 1 /\ Slot(Peer(s)).kind = "data"
AckOnLine(s) == Some(line[s], "ack")
AckInSlot(s) == Slot(s).kind = "ack"
AckSeen(s) == ack_sem[s] = 1
Acked(s) == AckOnLine(s) \/ AckInSlot(s) \/ AckSeen(s)

\* The package of s that is under way, or its ack, is at one place only, and the
\* sending task waits for it.
OneOfThem(s) ==
    /\ Once(line[Peer(s)], "data") /\ Once(line[s], "ack")
    /\ DataOnLine(s) \/ DataInSlot(s) \/ Acked(s) => snd[s].pc = "wait"
    /\ DataOnLine(s) => ~DataInSlot(s) /\ ~Acked(s)
    /\ DataInSlot(s) => ~Acked(s)
    /\ AckOnLine(s) => ~AckInSlot(s) /\ ~AckSeen(s)
    /\ AckInSlot(s) => ~AckSeen(s)

\* Package p of the current message of s.
Current(s, p) == [msg |-> Len(sent[s]), pkg |-> p]

\* Whatever of s is under way belongs to its current package.
RightOnes(s) ==
    /\ snd[s].pc \in {"send", "sending", "wait"} /\ send_buf[s].kind = "data" =>
         send_buf[s] = Package(s)
    /\ AllAre(line[Peer(s)], "data", Package(s))
    /\ AllAre(line[s], "ack", Ack(g_wait_seq[s]))
    /\ DataInSlot(s) => Slot(Peer(s)) = Package(s)
    /\ AckInSlot(s) => Slot(s) = Ack(g_wait_seq[s])

\* What is acknowledged, was acknowledged before, or returned 0, was taken.
Received(s) ==
    /\ Acked(s) => Current(s, snd[s].pkg) \in taken[Peer(s)]
    /\ \A p \in 0 .. snd[s].pkg - 1 : Current(s, p) \in taken[Peer(s)]
    /\ \A m \in DOMAIN result[s] :
         result[s][m] = "ok" => Packages(s, m) \subseteq taken[Peer(s)]

\* While every ack is awaited, this holds for both stations.
Going(s) == OneOfThem(s) /\ RightOnes(s) /\ Received(s)
Exchange == Awaited => \A s \in Stations : Window(s) /\ Going(s)

\* The packages of the current message that the peer keeps in its list, and
\* the messages it has delivered.
Through(s) == Acked(s) /\ snd[s].pkg = LastPackage(snd[s].size)
Listing(s) ==
    IF snd[s].pc = "idle" \/ Through(s) THEN 0
    ELSE IF Acked(s) THEN snd[s].pkg + 1 ELSE snd[s].pkg
Delivered(s) ==
    IF snd[s].pc = "idle" \/ Through(s) THEN Len(sent[s]) ELSE Len(sent[s]) - 1

\* The peer lists the packages of the current message that it has, and has
\* delivered each message before it.
InOrder(s) ==
    /\ \A m \in DOMAIN sent[s] : sent[s][m] # 0
    /\ ~last_rcvd[Peer(s)]
    /\ get_data_frame_list(list[Peer(s)]) = [i \in 1 .. Listing(s) |-> Current(s, i - 1)]
    /\ got[Peer(s)] = [m \in 1 .. Delivered(s) |-> Message(s, m)]

Ordered == trouble \subseteq {"data"} => \A s \in Stations : InOrder(s)

\* The invariant.
UsipInv == Types /\ Lines /\ Calls /\ Framed /\ Exchange /\ Ordered

-----------------------------------------------------------------------------
(* The stations and what goes over the line *)

\* The other end of the line.
LEMMA Peers ==
    ASSUME NEW s \in Stations
    PROVE  /\ Peer(s) \in Stations /\ Peer(s) # s /\ Peer(Peer(s)) = s
           /\ \A t \in Stations : t = s \/ t = Peer(s)
<1>1. PICK a, b \in Stations : a # b /\ Stations = {a, b}
  BY TwoEnds
<1>2. Peer(a) = b /\ Peer(b) = a
  BY <1>1 DEF Peer
<1> QED
  BY <1>1, <1>2

\* A body is told by its kind.
LEMMA BodyKinds ==
    /\ None \in Bodies /\ Noise \in Bodies
    /\ \A q \in 0 .. USIP_SEQ_MAX : Ack(q) \in Bodies
    /\ \A x \in Bodies : /\ x.kind \in {"none", "noise", "ack", "data"}
                         /\ x.kind = "none" => x = None
                         /\ x.kind = "noise" => x = Noise
                         /\ x.kind = "ack" => x.seq \in 0 .. USIP_SEQ_MAX /\ x = Ack(x.seq)
    /\ None.kind = "none" /\ Noise.kind = "noise" /\ End.kind = "end"
    /\ BadEsc.kind = "badesc" /\ \A q : Ack(q).kind = "ack"
<1>1. /\ None \in Bodies /\ Noise \in Bodies
      /\ \A q \in 0 .. USIP_SEQ_MAX : Ack(q) \in Bodies
  BY DEF Bodies
<1>2. /\ None.kind = "none" /\ Noise.kind = "noise" /\ End.kind = "end"
      /\ BadEsc.kind = "badesc" /\ \A q : Ack(q).kind = "ack" /\ Ack(q).seq = q
      /\ \A q, m, p, l, b : Data(q, m, p, l, b).kind = "data"
  BY DEF None, Noise, End, BadEsc, Ack, Data
<1>3. ASSUME NEW x \in Bodies
      PROVE  /\ x.kind \in {"none", "noise", "ack", "data"}
             /\ x.kind = "none" => x = None
             /\ x.kind = "noise" => x = Noise
             /\ x.kind = "ack" => x.seq \in 0 .. USIP_SEQ_MAX /\ x = Ack(x.seq)
  <2>1. CASE x \in {None, Noise}
    BY <1>2, <2>1
  <2>2. CASE \E q \in 0 .. USIP_SEQ_MAX : x = Ack(q)
    BY <1>2, <2>2
  <2>3. CASE \E q, m, p, l, b : x = Data(q, m, p, l, b)
    BY <1>2, <2>3
  <2>4. \/ x \in {None, Noise}
        \/ \E q \in 0 .. USIP_SEQ_MAX : x = Ack(q)
        \/ \E q, m, p, l, b : x = Data(q, m, p, l, b)
    BY DEF Bodies
  <2> QED
    BY <2>1, <2>2, <2>3, <2>4
<1> QED
  BY <1>1, <1>2, <1>3

\* receive_one_byte keeps the types of its state.
LEMMA ItemKept ==
    ASSUME NEW u \in Uarts, NEW x \in Items
    PROVE  receive_item(u, x) \in Uarts
<1>1. USIP_UART_SKB_NUM \in Nat \ {0} /\ (u.w + 1) % USIP_UART_SKB_NUM \in Slots
  BY Bounds DEF Uarts, Slots
<1>2. CASE x = End
  <2>1. CASE ~u.head
    <3>1. (IF u.skb[u.w] = None THEN None ELSE Noise) \in Bodies
      BY BodyKinds
    <3> QED
      BY <1>2, <2>1, <3>1 DEF receive_item, OnEnd, Uarts
  <2>2. CASE u.head /\ u.bytes = None
    BY <1>2, <2>2 DEF receive_item, OnEnd, Uarts
  <2>3. CASE u.head /\ u.bytes # None
    <3> DEFINE v == receive_item(u, x)
    <3>1. /\ v = [u EXCEPT !.head = FALSE, !.bytes = None, !.skb[u.w] = u.bytes,
                           !.w = (u.w + 1) % USIP_UART_SKB_NUM,
                           !.unread = u.unread + 1, !.posts = u.posts + 1]
      BY <1>2, <2>3 DEF receive_item, OnEnd
    <3>2. [u.skb EXCEPT ![u.w] = u.bytes] \in [Slots -> Bodies]
      BY DEF Uarts
    <3>3. u.unread + 1 \in Int /\ u.posts + 1 \in Nat
      BY DEF Uarts
    <3>4. v \in [head : BOOLEAN, bytes : Bodies, posts : Nat,
                 skb : [Slots -> Bodies], w : Slots, r : Slots, unread : Int]
      BY <1>1, <3>1, <3>2, <3>3, BodyKinds DEF Uarts
    <3>5. v.bytes = None
      BY <3>1 DEF Uarts
    <3> QED
      BY <3>4, <3>5 DEF Uarts
  <2> QED
    BY <2>1, <2>2, <2>3 DEF Uarts
<1>3. CASE x # End
  BY <1>1, <1>3, BodyKinds DEF receive_item, Uarts, Items
<1> QED
  BY <1>2, <1>3

\* What receive_one_byte makes of a transmission, item by item.
LEMMA ReceiveRun ==
    ASSUME NEW u \in Uarts, NEW t \in Seq(Items)
    PROVE  \E v \in [0 .. Len(t) -> Uarts] :
             /\ v[0] = u /\ v[Len(t)] = FoldLeft(receive_item, u, t)
             /\ \A k \in 1 .. Len(t) : v[k] = receive_item(v[k - 1], t[k])
<1> DEFINE n == Len(t)
           f == [a \in Uarts |-> [x \in Items |-> receive_item(a, x)]]
           iter[s \in SUBSET DOMAIN t] ==
             IF s = {} THEN u ELSE LET i == Max(s) IN receive_item(iter[s \ {i}], t[i])
<1>1. n \in Nat /\ DOMAIN t = 1 .. n /\ t \in [1 .. n -> Items]
  BY LenProperties
<1>2. f \in [Uarts -> [Items -> Uarts]]
  BY ItemKept
<1>3. FoldLeft(receive_item, u, t) = iter[DOMAIN t]
  BY DEF FoldLeft, MapThenFoldSet
<1>4. \A s \in SUBSET (1 .. n) :
        iter[s] = IF s = {} THEN u ELSE receive_item(iter[s \ {Max(s)}], t[Max(s)])
  <2> DEFINE F(g) == [s \in SUBSET DOMAIN t |->
               IF s = {} THEN u ELSE LET i == Max(s) IN receive_item(g[s \ {i}], t[i])]
  <2>1. PICK g \in [SUBSET (1 .. n) -> Uarts] : \A s \in SUBSET (1 .. n) :
               g[s] = IF s = {} THEN u ELSE f[g[s \ {Max(s)}]][t[Max(s)]]
    <3>1. \E g : FoldsSets(g, Uarts, f, u, n, t)
      <4> HIDE DEF f, n
      <4> QED
        BY <1>1, <1>2, FoldExists
    <3> QED
      BY <3>1 DEF FoldsSets
  <2>2. ASSUME NEW s \in SUBSET (1 .. n)
        PROVE  g[s] = IF s = {} THEN u ELSE receive_item(g[s \ {Max(s)}], t[Max(s)])
    <3>1. CASE s = {}
      BY <2>1, <3>1
    <3>2. CASE s # {}
      <4>1. Max(s) \in s
        <5> HIDE DEF n
        <5> QED
          BY <1>1, <3>2, Greatest
      <4>2. g[s \ {Max(s)}] \in Uarts /\ t[Max(s)] \in Items
        BY <1>1, <4>1
      <4> QED
        BY <2>1, <3>2, <4>2
    <3> QED
      BY <3>1, <3>2
  <2>3. g = F(g)
    BY <1>1, <2>2
  <2>4. iter = F(iter)
    <3>1. iter = CHOOSE h : h = F(h)
      OBVIOUS
    <3> HIDE DEF F, iter
    <3> QED
      BY <2>3, <3>1
  <2> HIDE DEF iter
  <2> QED
    BY <1>1, <2>4
<1> HIDE DEF iter
<1>5. FoldsInto(iter, Uarts, f, u, n, t)
  <2>1. ASSUME NEW s \in SUBSET (1 .. n), s # {} PROVE t[Max(s)] \in Items
    <3> HIDE DEF n
    <3>1. Max(s) \in 1 .. n
      BY <1>1, <2>1, Greatest
    <3> QED
      BY <1>1, <3>1
  <2> QED
    BY <1>4, <2>1 DEF FoldsInto
<1>6. PICK v : FoldsUp(v, Uarts, f, u, n, t) /\ v[n] = iter[1 .. n]
  <2>1. FoldsTo(iter[1 .. n], Uarts, f, u, n, t)
    <3> HIDE DEF f, n
    <3> QED
      BY <1>1, <1>2, <1>5, FoldRuns
  <2> QED
    BY <2>1 DEF FoldsTo
<1>7. /\ v \in [0 .. n -> Uarts] /\ v[0] = u
      /\ \A k \in 1 .. n : v[k] = f[v[k - 1]][t[k]]
  BY <1>6 DEF FoldsUp
<1>8. ASSUME NEW k \in 1 .. n PROVE v[k] = receive_item(v[k - 1], t[k])
  <2>1. v[k - 1] \in Uarts /\ t[k] \in Items
    BY <1>1, <1>7
  <2> QED
    BY <1>7, <2>1
<1> QED
  BY <1>1, <1>3, <1>6, <1>7, <1>8

\* What is in t: bodies, and whether its last item is an END.
BodiesIn(t) == {t[i] : i \in DOMAIN t} \ {End}

\* The items of a transmission: it ends with an END, or it is noise.
LEMMA TransmissionItems ==
    ASSUME NEW t \in Transmissions
    PROVE  /\ t \in Seq(Items) /\ Len(t) \in 1 .. 5
           /\ BodiesIn(t) \subseteq Bodies \ {None}
           /\ t[Len(t)] = End \/ BodiesIn(t) = {Noise}
<1>1. ASSUME NEW x \in Bodies \ {None} PROVE x # End /\ x \in Items
  BY BodyKinds DEF Items
<1>2. Noise \in Bodies \ {None} /\ End \in Items
  BY BodyKinds DEF Items
<1>3. CASE t = <<Noise>>
  BY <1>1, <1>2, <1>3 DEF BodiesIn
<1>4. CASE t = <<End, Noise>>
  BY <1>1, <1>2, <1>4 DEF BodiesIn
<1>5. CASE \E x \in Bodies \ {None} : t = Frame(x)
  BY <1>1, <1>2, <1>5 DEF BodiesIn, Frame
<1>6. CASE \E x \in Bodies \ {None} : t = <<Noise>> \o Frame(x)
  BY <1>1, <1>2, <1>6 DEF BodiesIn, Frame
<1>7. CASE \E x \in Bodies \ {None} : t = <<End, Noise>> \o Frame(x)
  BY <1>1, <1>2, <1>7 DEF BodiesIn, Frame
<1> QED
  BY <1>3, <1>4, <1>5, <1>6, <1>7 DEF Transmissions

\* v is what receive_one_byte made of u with ENDs and bodies of X.
Parsed(u, v, X) ==
    /\ v.r = u.r /\ v.unread = u.unread + v.posts
    /\ v.bytes \in {None, Noise} \cup X
    /\ v.posts = 0 => /\ v.w = u.w
                      /\ \A j \in Slots : v.skb[j] \in {u.skb[j], Noise}
    /\ v.posts = 1 => /\ v.w = (u.w + 1) % USIP_UART_SKB_NUM
                      /\ v.skb[u.w] \in {Noise} \cup X
                      /\ \A j \in Slots \ {u.w} : v.skb[j] \in {u.skb[j], Noise}

\* One more item of a transmission.
LEMMA ParsedStep ==
    ASSUME NEW u \in Uarts, NEW v \in Uarts, NEW X \in SUBSET (Bodies \ {None}),
           Parsed(u, v, X), NEW x \in X \cup {End}
    PROVE  Parsed(u, receive_item(v, x), X)
<1> DEFINE z == receive_item(v, x)
<1> SUFFICES Parsed(u, z, X)
  OBVIOUS
<1>1. /\ v.skb \in [Slots -> Bodies] /\ u.w \in Slots /\ v.w \in Slots
      /\ v.posts \in Nat /\ v.unread \in Int /\ u.unread \in Int
  BY DEF Uarts
<1>2. CASE x = End /\ ~v.head
  <2>1. z = [v EXCEPT !.head = TRUE,
                      !.skb[v.w] = IF v.skb[v.w] = None THEN None ELSE Noise]
    BY <1>2 DEF receive_item, OnEnd
  <2>2. /\ z.r = v.r /\ z.unread = v.unread /\ z.posts = v.posts /\ z.w = v.w
        /\ z.bytes = v.bytes
        /\ \A j \in Slots : z.skb[j] \in {v.skb[j], Noise}
    BY <1>1, <2>1 DEF Uarts
  <2> HIDE DEF z
  <2> QED
    BY <1>1, <2>2 DEF Parsed
<1>3. CASE x = End /\ v.head /\ v.bytes = None
  <2>1. z = [v EXCEPT !.head = FALSE]
    BY <1>3 DEF receive_item, OnEnd
  <2>2. /\ z.r = v.r /\ z.unread = v.unread /\ z.posts = v.posts /\ z.w = v.w
        /\ z.bytes = v.bytes /\ z.skb = v.skb
    BY <2>1 DEF Uarts
  <2> HIDE DEF z
  <2> QED
    BY <2>2 DEF Parsed
<1>4. CASE x = End /\ v.head /\ v.bytes # None
  <2>1. z = [v EXCEPT !.head = FALSE, !.bytes = None, !.skb[v.w] = v.bytes,
                      !.w = (v.w + 1) % USIP_UART_SKB_NUM,
                      !.unread = v.unread + 1, !.posts = v.posts + 1]
    BY <1>4 DEF receive_item, OnEnd
  <2>2. /\ z.r = v.r /\ z.unread = v.unread + 1 /\ z.posts = v.posts + 1
        /\ z.w = (v.w + 1) % USIP_UART_SKB_NUM /\ z.bytes = None
        /\ z.skb = [v.skb EXCEPT ![v.w] = v.bytes]
    BY <2>1 DEF Uarts
  <2> HIDE DEF z
  <2>3. z.skb[v.w] = v.bytes /\ \A j \in Slots \ {v.w} : z.skb[j] = v.skb[j]
    BY <1>1, <2>2
  <2>4. z.posts # 0 /\ (z.posts = 1 => v.posts = 0)
    BY <1>1, <2>2
  <2>5. z.unread = u.unread + z.posts
    BY <1>1, <2>2 DEF Parsed
  <2> QED
    BY <1>1, <1>4, <2>2, <2>3, <2>4, <2>5 DEF Parsed
<1>5. CASE x # End
  <2>1. x # BadEsc /\ x \in Bodies /\ x \in X
    BY <1>5, BodyKinds
  <2>2. /\ z.r = v.r /\ z.unread = v.unread /\ z.posts = v.posts /\ z.w = v.w
        /\ z.bytes \in {v.bytes, x, Noise} /\ z.skb = v.skb
    BY <1>5, <2>1 DEF receive_item, Uarts
  <2> HIDE DEF z
  <2> QED
    BY <2>1, <2>2 DEF Parsed
<1> QED
  BY <1>2, <1>3, <1>4, <1>5

\* An END closes what was open.
LEMMA EndCloses ==
    ASSUME NEW v \in Uarts
    PROVE  receive_item(v, End).bytes = None
<1>1. CASE v.head /\ v.bytes # None
  BY <1>1 DEF receive_item, OnEnd, Uarts
<1>2. CASE v.bytes = None
  BY <1>2 DEF receive_item, OnEnd, Uarts
<1> QED
  BY <1>1, <1>2 DEF Uarts

\* What the interrupt makes of one transmission, damaged or not.
LEMMA Receives ==
    ASSUME NEW u \in Uarts, u.posts = 0, u.bytes \in {None, Noise},
           NEW t \in Transmissions
    PROVE  LET v == FoldLeft(receive_item, u, t)
           IN  /\ v \in Uarts /\ Parsed(u, v, BodiesIn(t))
               /\ v.bytes \in {None, Noise}
<1> DEFINE n == Len(t)
           X == BodiesIn(t)
<1>1. /\ t \in Seq(Items) /\ n \in Nat \ {0} /\ X \in SUBSET (Bodies \ {None})
      /\ t[n] = End \/ X = {Noise}
      /\ \A k \in 1 .. n : t[k] \in X \cup {End}
  <2>1. t \in Seq(Items) /\ n \in 1 .. 5 /\ DOMAIN t = 1 .. n
    BY TransmissionItems
  <2>2. \A k \in 1 .. n : t[k] \in X \cup {End}
    BY <2>1 DEF BodiesIn
  <2> QED
    BY <2>1, <2>2, TransmissionItems
<1>2. PICK v \in [0 .. n -> Uarts] :
         /\ v[0] = u /\ v[n] = FoldLeft(receive_item, u, t)
         /\ \A k \in 1 .. n : v[k] = receive_item(v[k - 1], t[k])
  BY <1>1, ReceiveRun
<1> DEFINE T == {k \in Nat : k <= n => Parsed(u, v[k], X)}
<1>3. 0 \in T
  <2>1. u.unread \in Int /\ u.skb \in [Slots -> Bodies]
    BY DEF Uarts
  <2>2. Parsed(u, u, X)
    BY <2>1 DEF Parsed
  <2> QED
    BY <1>2, <2>2
<1>4. ASSUME NEW k \in Nat, k \in T PROVE k + 1 \in T
  <2>1. SUFFICES ASSUME k + 1 <= n PROVE Parsed(u, v[k + 1], X)
    OBVIOUS
  <2>2. k + 1 \in 1 .. n /\ k \in 0 .. n /\ k + 1 - 1 = k /\ k <= n
    BY <1>1, <2>1
  <2>3. v[k + 1] = receive_item(v[k], t[k + 1]) /\ v[k] \in Uarts
        /\ t[k + 1] \in X \cup {End}
    BY <1>1, <1>2, <2>2
  <2>4. Parsed(u, v[k], X)
    BY <1>4, <2>2
  <2> HIDE DEF X
  <2> QED
    BY <1>1, <2>3, <2>4, ParsedStep
<1>5. Parsed(u, v[n], X)
  <2>1. n \in T
    <3> HIDE DEF T, n
    <3> QED
      BY <1>1, <1>3, <1>4, Induction
  <2> QED
    BY <1>1, <2>1
<1>6. v[n].bytes \in {None, Noise}
  <2>1. CASE X = {Noise}
    BY <1>5, <2>1 DEF Parsed
  <2>2. CASE t[n] = End
    <3>1. n \in 1 .. n /\ n - 1 \in 0 .. n
      BY <1>1
    <3>2. v[n] = receive_item(v[n - 1], End) /\ v[n - 1] \in Uarts
      BY <1>2, <2>2, <3>1
    <3> QED
      BY <3>2, EndCloses
  <2> QED
    BY <1>1, <2>1, <2>2
<1> QED
  BY <1>1, <1>2, <1>5, <1>6

\* While heads and ends are in step a frame gets into its slot as it is.
LEMMA ReceivesFrame ==
    ASSUME NEW u \in Uarts, ~u.head, u.posts = 0, NEW x \in Bodies \ {None}
    PROVE  LET v == FoldLeft(receive_item, u, Frame(x))
           IN  v.posts = 1 /\ ~v.head /\ v.skb[u.w] = x
<1>1. /\ Frame(x) \in Seq(Items) /\ Len(Frame(x)) = 3
      /\ Frame(x)[1] = End /\ Frame(x)[2] = x /\ Frame(x)[3] = End
  BY BodyKinds DEF Frame, Items
<1>2. PICK v \in [0 .. Len(Frame(x)) -> Uarts] :
         /\ v[0] = u /\ v[Len(Frame(x))] = FoldLeft(receive_item, u, Frame(x))
         /\ \A k \in 1 .. Len(Frame(x)) : v[k] = receive_item(v[k - 1], Frame(x)[k])
  BY <1>1, ReceiveRun
<1>3. /\ v[1] = receive_item(u, End) /\ v[2] = receive_item(v[1], x)
      /\ v[3] = receive_item(v[2], End)
      /\ v[1] \in Uarts /\ v[2] \in Uarts /\ v[3] \in Uarts
  <2>1. v \in [0 .. 3 -> Uarts] /\ v[0] = u
        /\ \A k \in 1 .. 3 : v[k] = receive_item(v[k - 1], Frame(x)[k])
    BY <1>1, <1>2
  <2>2. /\ v[1] = receive_item(v[1 - 1], Frame(x)[1])
        /\ v[2] = receive_item(v[2 - 1], Frame(x)[2])
        /\ v[3] = receive_item(v[3 - 1], Frame(x)[3])
    BY <2>1
  <2> QED
    BY <1>1, <2>1, <2>2
<1>4. v[1].head /\ v[1].bytes = None /\ v[1].posts = 0 /\ v[1].w = u.w
  <2>1. v[1] = [u EXCEPT !.head = TRUE,
                         !.skb[u.w] = IF u.skb[u.w] = None THEN None ELSE Noise]
    BY <1>3 DEF receive_item, OnEnd
  <2> QED
    BY <2>1 DEF Uarts
<1>5. v[2].head /\ v[2].bytes = x /\ v[2].posts = 0 /\ v[2].w = u.w
  <2>1. x # End /\ x # BadEsc
    BY BodyKinds
  <2>2. v[2] = [v[1] EXCEPT !.bytes = x]
    BY <1>3, <1>4, <2>1 DEF receive_item
  <2> QED
    BY <1>3, <1>4, <2>2 DEF Uarts
<1>6. v[3].posts = 1 /\ ~v[3].head /\ v[3].skb[u.w] = x
  <2>1. v[3] = [v[2] EXCEPT !.head = FALSE, !.bytes = None,
                           !.skb[v[2].w] = v[2].bytes,
                           !.w = (v[2].w + 1) % USIP_UART_SKB_NUM,
                           !.unread = v[2].unread + 1, !.posts = v[2].posts + 1]
    <3>1. v[2].bytes # None
      BY <1>5
    <3> QED
      BY <1>3, <1>5, <3>1 DEF receive_item, OnEnd
  <2>2. v[2].skb \in [Slots -> Bodies] /\ u.w \in Slots
    BY <1>3 DEF Uarts
  <2>3. /\ v[3].posts = v[2].posts + 1 /\ v[3].head = FALSE
        /\ v[3].skb = [v[2].skb EXCEPT ![v[2].w] = v[2].bytes]
    BY <1>3, <2>1 DEF Uarts
  <2> QED
    BY <1>5, <2>2, <2>3
<1> QED
  BY <1>1, <1>2, <1>6

\* get_data_frame_list as a fold of a function.
add_data == [data \in Seq(Nodes) |-> [n \in Nodes |->
                IF n = Blank THEN data ELSE Append(data, n)]]

\* get_data_frame_list is a fold of add_data.
LEMMA DataFolds ==
    ASSUME NEW q \in Seq(Nodes)
    PROVE  /\ add_data \in [Seq(Nodes) -> [Nodes -> Seq(Nodes)]]
           /\ FoldsTo(get_data_frame_list(q), Seq(Nodes), add_data, << >>, Len(q), q)
<1> DEFINE n == Len(q)
           iter[s \in SUBSET DOMAIN q] ==
             IF s = {} THEN << >>
             ELSE LET i == Max(s)
                  IN  IF q[i] = Blank THEN iter[s \ {i}]
                      ELSE Append(iter[s \ {i}], q[i])
<1>1. n \in Nat /\ DOMAIN q = 1 .. n /\ q \in [1 .. n -> Nodes] /\ << >> \in Seq(Nodes)
  BY LenProperties
<1>2. add_data \in [Seq(Nodes) -> [Nodes -> Seq(Nodes)]]
  BY DEF add_data
<1>3. get_data_frame_list(q) = iter[DOMAIN q]
  BY DEF get_data_frame_list, FoldLeft, MapThenFoldSet
<1>4. \A s \in SUBSET (1 .. n) :
        iter[s] = IF s = {} THEN << >>
                  ELSE IF q[Max(s)] = Blank THEN iter[s \ {Max(s)}]
                  ELSE Append(iter[s \ {Max(s)}], q[Max(s)])
  <2> DEFINE F(g) == [s \in SUBSET DOMAIN q |->
                        IF s = {} THEN << >>
                        ELSE LET i == Max(s)
                             IN  IF q[i] = Blank THEN g[s \ {i}]
                                 ELSE Append(g[s \ {i}], q[i])]
  <2>1. PICK g \in [SUBSET (1 .. n) -> Seq(Nodes)] : \A s \in SUBSET (1 .. n) :
               g[s] = IF s = {} THEN << >> ELSE add_data[g[s \ {Max(s)}]][q[Max(s)]]
    <3>1. \E g : FoldsSets(g, Seq(Nodes), add_data, << >>, n, q)
      <4> HIDE DEF n
      <4> QED
        BY <1>1, <1>2, FoldExists
    <3> QED
      BY <3>1 DEF FoldsSets
  <2>2. ASSUME NEW s \in SUBSET (1 .. n)
        PROVE  g[s] = IF s = {} THEN << >>
                      ELSE IF q[Max(s)] = Blank THEN g[s \ {Max(s)}]
                      ELSE Append(g[s \ {Max(s)}], q[Max(s)])
    <3>1. CASE s = {}
      BY <2>1, <3>1
    <3>2. CASE s # {}
      <4>1. Max(s) \in s
        <5> HIDE DEF n
        <5> QED
          BY <1>1, <3>2, Greatest
      <4>2. g[s \ {Max(s)}] \in Seq(Nodes) /\ q[Max(s)] \in Nodes
        BY <1>1, <4>1
      <4> QED
        BY <2>1, <3>2, <4>2 DEF add_data
    <3> QED
      BY <3>1, <3>2
  <2>3. g = F(g)
    BY <1>1, <2>2
  <2>4. iter = F(iter)
    <3>1. iter = CHOOSE h : h = F(h)
      OBVIOUS
    <3> HIDE DEF F, iter
    <3> QED
      BY <2>3, <3>1
  <2> HIDE DEF iter
  <2> QED
    BY <1>1, <2>4
<1> HIDE DEF iter
<1>5. FoldsInto(iter, Seq(Nodes), add_data, << >>, n, q)
  <2>1. ASSUME NEW s \in SUBSET (1 .. n), s # {} PROVE q[Max(s)] \in Nodes
    <3> HIDE DEF n
    <3>1. Max(s) \in 1 .. n
      BY <1>1, <2>1, Greatest
    <3> QED
      BY <1>1, <3>1
  <2> QED
    BY <1>4, <2>1 DEF FoldsInto, add_data
<1>6. FoldsTo(iter[1 .. n], Seq(Nodes), add_data, << >>, n, q)
  <2> HIDE DEF n
  <2> QED
    BY <1>1, <1>2, <1>5, FoldRuns
<1> QED
  BY <1>1, <1>2, <1>3, <1>6

\* The data of no nodes, and of one node more.
LEMMA DataOfList ==
    /\ get_data_frame_list(<< >>) = << >>
    /\ \A q \in Seq(Nodes), x \in Nodes :
         /\ get_data_frame_list(q) \in Seq(Nodes)
         /\ get_data_frame_list(Append(q, x))
              = IF x = Blank THEN get_data_frame_list(q)
                ELSE Append(get_data_frame_list(q), x)
<1>1. get_data_frame_list(<< >>) = << >>
  <2>1. << >> \in Seq(Nodes) /\ Len(<< >>) = 0
    OBVIOUS
  <2>2. FoldsTo(get_data_frame_list(<< >>), Seq(Nodes), add_data, << >>, 0, << >>)
    BY <2>1, DataFolds
  <2> QED
    BY <2>2 DEF FoldsTo, FoldsUp
<1>2. ASSUME NEW q \in Seq(Nodes), NEW x \in Nodes
      PROVE  /\ get_data_frame_list(q) \in Seq(Nodes)
             /\ get_data_frame_list(Append(q, x))
                  = add_data[get_data_frame_list(q)][x]
  <2> DEFINE u == Append(q, x)
  <2>1. << >> \in Seq(Nodes) /\ u \in Seq(Nodes)
    OBVIOUS
  <2>2. /\ add_data \in [Seq(Nodes) -> [Nodes -> Seq(Nodes)]]
        /\ FoldsTo(get_data_frame_list(q), Seq(Nodes), add_data, << >>, Len(q), q)
        /\ FoldsTo(get_data_frame_list(u), Seq(Nodes), add_data, << >>, Len(u), u)
    <3> HIDE DEF u
    <3> QED
      BY <2>1, DataFolds
  <2> DEFINE S == Seq(Nodes)
             a == get_data_frame_list(q)
             b == get_data_frame_list(u)
  <2>3. a \in S /\ b = add_data[a][x]
    <3>1. Longer(u, q, x, Nodes)
      BY DEF Longer
    <3>2. /\ FoldsTo(a, S, add_data, << >>, Len(q), q)
          /\ FoldsTo(b, S, add_data, << >>, Len(u), u)
      BY <2>2
    <3> HIDE DEF S, a, b, u
    <3> QED
      BY <3>1, <3>2, FoldsFurther
  <2> QED
    BY <2>3
<1> QED
  BY <1>1, <1>2 DEF add_data

-----------------------------------------------------------------------------
(* Transmissions one behind the other *)

\* A transmission is put on the line.
LEMMA Queued ==
    ASSUME NEW q \in Seq(Transmissions), NEW t \in Transmissions, NEW kind
    PROVE  LET a == Append(q, t)
           IN  /\ a \in Seq(Transmissions)
               /\ Some(a, kind) <=> Some(q, kind) \/ Carries(t, kind)
               /\ Once(q, kind) /\ ~(Some(q, kind) /\ Carries(t, kind)) => Once(a, kind)
               /\ \A x : /\ AllAre(q, kind, x)
                         /\ \A j \in DOMAIN t : t[j].kind = kind => t[j] = x
                         => AllAre(a, kind, x)
<1> DEFINE a == Append(q, t)
           n == Len(q)
<1>1. /\ n \in Nat /\ DOMAIN q = 1 .. n
      /\ a \in Seq(Transmissions) /\ DOMAIN a = 1 .. n + 1
      /\ \A i \in 1 .. n : a[i] = q[i]
      /\ a[n + 1] = t
  BY LenProperties, AppendProperties
<1> HIDE DEF a, n
<1>2. /\ \A i \in 1 .. n : i \in 1 .. n + 1
      /\ n + 1 \in 1 .. n + 1
      /\ \A i \in 1 .. n + 1 : i \in 1 .. n \/ i = n + 1
  BY <1>1
<1>3. Some(a, kind) <=> Some(q, kind) \/ Carries(t, kind)
  BY <1>1, <1>2 DEF Some
<1>4. Once(q, kind) /\ ~(Some(q, kind) /\ Carries(t, kind)) => Once(a, kind)
  BY <1>1, <1>2 DEF Once, Some
<1>5. ASSUME NEW x, AllAre(q, kind, x), \A j \in DOMAIN t : t[j].kind = kind => t[j] = x
      PROVE  AllAre(a, kind, x)
  BY <1>1, <1>2, <1>5 DEF AllAre
<1> QED
  BY <1>1, <1>3, <1>4, <1>5 DEF a

\* A transmission is taken from the line.
LEMMA Dequeued ==
    ASSUME NEW q \in Seq(Transmissions), q # << >>, NEW kind
    PROVE  LET t == Head(q)
           IN  /\ t \in Transmissions /\ Tail(q) \in Seq(Transmissions)
               /\ Some(q, kind) <=> Carries(t, kind) \/ Some(Tail(q), kind)
               /\ Once(q, kind) => /\ Once(Tail(q), kind)
                                   /\ ~(Carries(t, kind) /\ Some(Tail(q), kind))
               /\ \A x : AllAre(q, kind, x) =>
                    /\ AllAre(Tail(q), kind, x)
                    /\ \A j \in DOMAIN t : t[j].kind = kind => t[j] = x
<1> DEFINE b == Tail(q)
           n == Len(q)
           t == Head(q)
<1>1. /\ n \in Nat \ {0} /\ DOMAIN q = 1 .. n
      /\ t = q[1] /\ t \in Transmissions
      /\ b \in Seq(Transmissions) /\ DOMAIN b = 1 .. n - 1
      /\ \A i \in 1 .. n - 1 : b[i] = q[i + 1]
  <2>1. n \in Nat /\ n # 0
    BY LenProperties, EmptySeq
  <2> QED
    BY <2>1, LenProperties, HeadTailProperties
<1> HIDE DEF b, n, t
<1>2. /\ 1 \in 1 .. n
      /\ \A i \in 1 .. n - 1 : i + 1 \in 1 .. n /\ i + 1 # 1
      /\ \A i \in 1 .. n : i = 1 \/ \E j \in 1 .. n - 1 : i = j + 1
      /\ \A i, j \in 1 .. n - 1 : i + 1 = j + 1 => i = j
  <2>1. ASSUME NEW i \in 1 .. n, i # 1
        PROVE  i - 1 \in 1 .. n - 1 /\ i = (i - 1) + 1
    BY <1>1, <2>1
  <2>2. \A i \in 1 .. n : i = 1 \/ \E j \in 1 .. n - 1 : i = j + 1
    BY <2>1
  <2> QED
    BY <1>1, <2>2
<1>3. Some(q, kind) <=> Carries(t, kind) \/ Some(b, kind)
  <2>1. ASSUME NEW i \in 1 .. n, Carries(q[i], kind)
        PROVE  Carries(t, kind) \/ Some(b, kind)
    <3>1. CASE i = 1
      BY <1>1, <2>1, <3>1
    <3>2. CASE i # 1
      <4>1. PICK j \in 1 .. n - 1 : i = j + 1
        BY <1>2, <3>2
      <4>2. Carries(b[j], kind)
        BY <1>1, <2>1, <4>1
      <4> QED
        BY <1>1, <4>1, <4>2 DEF Some
    <3> QED
      BY <3>1, <3>2
  <2>2. ASSUME NEW i \in 1 .. n - 1, Carries(b[i], kind) PROVE Some(q, kind)
    <3>1. i + 1 \in 1 .. n /\ Carries(q[i + 1], kind)
      BY <1>1, <1>2, <2>2
    <3> QED
      BY <1>1, <3>1 DEF Some
  <2>3. Carries(t, kind) => Some(q, kind)
    BY <1>1, <1>2 DEF Some
  <2> QED
    BY <1>1, <2>1, <2>2, <2>3 DEF Some
<1>4. Once(q, kind) => Once(b, kind) /\ ~(Carries(t, kind) /\ Some(b, kind))
  <2>1. ASSUME Once(q, kind), NEW i \in 1 .. n - 1, NEW j \in 1 .. n - 1,
               Carries(b[i], kind), Carries(b[j], kind)
        PROVE  i = j
    <3>1. /\ i + 1 \in 1 .. n /\ Carries(q[i + 1], kind)
          /\ j + 1 \in 1 .. n /\ Carries(q[j + 1], kind)
      BY <1>1, <1>2, <2>1
    <3>2. i + 1 = j + 1
      BY <1>1, <2>1, <3>1 DEF Once
    <3> QED
      BY <1>2, <3>2
  <2>2. ASSUME Once(q, kind), Carries(t, kind),
               NEW i \in 1 .. n - 1, Carries(b[i], kind)
        PROVE  FALSE
    <3>1. i + 1 \in 1 .. n /\ i + 1 # 1 /\ Carries(q[i + 1], kind) /\ Carries(q[1], kind)
      BY <1>1, <1>2, <2>2
    <3> QED
      BY <1>1, <1>2, <2>2, <3>1 DEF Once
  <2> QED
    BY <1>1, <2>1, <2>2 DEF Once, Some
<1>5. \A x : AllAre(q, kind, x) =>
                            /\ AllAre(b, kind, x)
                            /\ \A j \in DOMAIN t : t[j].kind = kind => t[j] = x
  BY <1>1, <1>2 DEF AllAre
<1> QED
  BY <1>1, <1>3, <1>4, <1>5 DEF b, t

\* A transmission with nothing to read but x.
Only(t, x) == t \in Transmissions /\ \A j \in DOMAIN t : t[j] \in {End, Noise, x}

\* What the stations put on the line.
LEMMA Sendable ==
    /\ Only(<<Noise>>, Noise) /\ Only(<<End, Noise>>, Noise)
    /\ \A x \in Bodies \ {None} :
         /\ Only(Frame(x), x) /\ Carries(Frame(x), x.kind)
         /\ Only(<<Noise>> \o Frame(x), x) /\ Only(<<End, Noise>> \o Frame(x), x)
<1>1. ASSUME NEW x \in Bodies \ {None}
      PROVE  /\ Only(Frame(x), x) /\ Carries(Frame(x), x.kind)
             /\ Only(<<Noise>> \o Frame(x), x) /\ Only(<<End, Noise>> \o Frame(x), x)
  <2>1. /\ Frame(x) \in Transmissions
        /\ <<Noise>> \o Frame(x) \in Transmissions
        /\ <<End, Noise>> \o Frame(x) \in Transmissions
    BY DEF Transmissions
  <2>2. \A j \in DOMAIN Frame(x) : Frame(x)[j] \in {End, Noise, x}
    BY DEF Frame
  <2>3. \A j \in DOMAIN (<<Noise>> \o Frame(x)) :
           (<<Noise>> \o Frame(x))[j] \in {End, Noise, x}
    BY DEF Frame
  <2>4. \A j \in DOMAIN (<<End, Noise>> \o Frame(x)) :
           (<<End, Noise>> \o Frame(x))[j] \in {End, Noise, x}
    BY DEF Frame
  <2>5. 2 \in DOMAIN Frame(x) /\ Frame(x)[2] = x
    BY DEF Frame
  <2> QED
    BY <2>1, <2>2, <2>3, <2>4, <2>5 DEF Only, Carries
<1>2. Only(<<Noise>>, Noise) /\ Only(<<End, Noise>>, Noise)
  BY DEF Only, Transmissions
<1> QED
  BY <1>1, <1>2

\* What a transmission with one body, or noise, carries.
LEMMA Readable ==
    ASSUME NEW t, NEW x, Only(t, x), NEW kind \in {"data", "ack"}
    PROVE  /\ t \in Transmissions
           /\ \A j \in DOMAIN t : t[j].kind = kind => t[j] = x
           /\ x.kind # kind => ~Carries(t, kind)
           /\ BodiesIn(t) \subseteq {Noise, x}
<1>1. Noise.kind \notin {"data", "ack"} /\ End.kind \notin {"data", "ack"}
  BY BodyKinds
<1> QED
  BY <1>1 DEF Only, Carries, BodiesIn

\* What the line makes of a transmission when only frames are damaged.
LEMMA DamagedBodies ==
    ASSUME NEW t \in Transmissions
    PROVE  /\ Only(Damaged(t, Noise), Noise)
           /\ \A x \in Bodies \ {None} : t = Frame(x) => Damaged(t, Noise) = Frame(Noise)
<1>1. ASSUME NEW x \in Bodies \ {None} PROVE x # End
  BY BodyKinds
<1>2. Noise \in Bodies \ {None} /\ Noise # End
  BY BodyKinds
<1> DEFINE d == [i \in DOMAIN t |-> IF t[i] = End THEN End ELSE Noise]
<1>3. Damaged(t, Noise) = d
  BY <1>2 DEF Damaged
<1>4. CASE t = <<Noise>>
  <2>1. d = <<Noise>>
    BY <1>2, <1>4
  <2> QED
    BY <1>1, <1>3, <1>4, <2>1, Sendable DEF Frame
<1>5. CASE t = <<End, Noise>>
  <2>1. d = <<End, Noise>>
    BY <1>2, <1>5
  <2> QED
    BY <1>1, <1>3, <1>5, <2>1, Sendable DEF Frame
<1>6. ASSUME NEW x \in Bodies \ {None}, t = Frame(x) PROVE d = Frame(Noise)
  BY <1>1, <1>2, <1>6 DEF Frame
<1>7. ASSUME NEW x \in Bodies \ {None}, t = <<Noise>> \o Frame(x)
      PROVE  d = <<Noise>> \o Frame(Noise)
  BY <1>1, <1>2, <1>7 DEF Frame
<1>8. ASSUME NEW x \in Bodies \ {None}, t = <<End, Noise>> \o Frame(x)
      PROVE  d = <<End, Noise>> \o Frame(Noise)
  BY <1>1, <1>2, <1>8 DEF Frame
<1>9. Only(d, Noise)
  BY <1>2, <1>4, <1>5, <1>6, <1>7, <1>8, <1>3, Sendable DEF Transmissions
<1> QED
  BY <1>3, <1>6, <1>9

\* Whatever the line does, what comes is made of these items.
LEMMA DamagedItems ==
    ASSUME NEW t \in Transmissions, NEW x \in {Noise, BadEsc, End}
    PROVE  Damaged(t, x) \in Seq(Items)
<1>0. t \in Seq(Items) /\ Len(t) \in 1 .. 5
  BY TransmissionItems
<1>1. t \in Seq(Items) /\ Len(t) \in 1 .. 5 /\ t # << >>
  BY <1>0, EmptySeq
<1>2. CASE x # End
  <2>1. /\ Damaged(t, x) = [i \in DOMAIN t |-> IF t[i] = End THEN End ELSE x]
        /\ x \in Items /\ End \in Items /\ DOMAIN t = 1 .. Len(t) /\ Len(t) \in Nat
    BY <1>1, <1>2, BodyKinds DEF Damaged, Items
  <2>2. Damaged(t, x) \in [1 .. Len(t) -> Items]
    BY <2>1
  <2> QED
    BY <2>1, <2>2, FunctionIsList
<1>3. CASE x = End
  <2>1. Tail(t) \in Seq(Items)
    BY <1>1
  <2>2. Front(t) \in Seq(Items)
    BY <1>1 DEF Front
  <2> QED
    BY <1>3, <2>1, <2>2 DEF Damaged
<1> QED
  BY <1>2, <1>3

-----------------------------------------------------------------------------
(* A transmission arrives *)

\* The interrupt changes its own variables and those of the line.
LEMMA Arrival ==
    ASSUME Types, Lines, Calls, NEW s \in Stations, line[s] # << >>,
           NEW t \in Seq(Items), NEW what, receive_transmission(s, t, what)
    PROVE  LET v == FoldLeft(receive_item, uart[s], t)
           IN  /\ uart' = [uart EXCEPT ![s] = [v EXCEPT !.posts = 0]]
               /\ v \in Uarts /\ uart'[s] \in Uarts /\ uart'[s].posts = 0
               /\ uart'[s] = [v EXCEPT !.posts = 0]
               /\ \A p \in Stations \ {s} : uart'[p] = uart[p] /\ rx_sem'[p] = rx_sem[p]
               /\ rx_sem' \in [Stations -> 0 .. 1] /\ uart' \in [Stations -> Uarts]
               /\ rx_sem'[s] = IF v.posts + rx_sem[s] = 0 THEN 0 ELSE 1
               /\ v.posts + rx_sem[s] > 1 => "token" \in trouble'
               /\ line' = [line EXCEPT ![s] = Tail(@)]
               /\ line' \in [Stations -> Seq(Transmissions)]
<1> DEFINE v == FoldLeft(receive_item, uart[s], t)
<1>1. uart[s] \in Uarts /\ uart[s].posts = 0
  BY DEF Types, Calls, Call
<1>2. v \in Uarts
  <2>1. PICK w \in [0 .. Len(t) -> Uarts] : w[Len(t)] = FoldLeft(receive_item, uart[s], t)
    BY <1>1, ReceiveRun
  <2>2. Len(t) \in 0 .. Len(t)
    BY LenProperties
  <2> QED
    BY <2>1, <2>2
<1>3. /\ uart' = [uart EXCEPT ![s] = [v EXCEPT !.posts = 0]]
      /\ rx_sem' = [rx_sem EXCEPT ![s] = IF v.posts + rx_sem[s] = 0 THEN 0 ELSE 1]
      /\ v.posts + rx_sem[s] > 1 => "token" \in trouble'
      /\ line' = [line EXCEPT ![s] = Tail(@)]
  BY DEF receive_transmission
<1> HIDE DEF v
<1>4. [v EXCEPT !.posts = 0] \in Uarts /\ [v EXCEPT !.posts = 0].posts = 0
  BY <1>2 DEF Uarts
<1>5. line' \in [Stations -> Seq(Transmissions)]
  <2>1. Tail(line[s]) \in Seq(Transmissions)
    BY DEF Lines
  <2> QED
    BY <1>3, <2>1 DEF Lines
<1>6. /\ uart' \in [Stations -> Uarts] /\ uart'[s] = [v EXCEPT !.posts = 0]
      /\ \A p \in Stations \ {s} : uart'[p] = uart[p] /\ rx_sem'[p] = rx_sem[p]
      /\ rx_sem' \in [Stations -> 0 .. 1]
      /\ rx_sem'[s] = IF v.posts + rx_sem[s] = 0 THEN 0 ELSE 1
  BY <1>3, <1>4 DEF Types
<1> QED
  BY <1>2, <1>3, <1>4, <1>5, <1>6 DEF v

\* While acks are awaited it fills the slot at the read index, or leaves it
\* as it is, or spoils what is in it.
LEMMA ArrivalWindow ==
    ASSUME Types, Lines, Calls, NEW s \in Stations, line[s] # << >>, Window(s),
           NEW t \in Transmissions, NEW what, receive_transmission(s, t, what),
           "token" \notin trouble'
    PROVE  /\ Window(s)'
           /\ \/ rx_sem'[s] = rx_sem[s] /\ Slot(s)' \in {Slot(s), Noise}
              \/ rx_sem[s] = 0 /\ rx_sem'[s] = 1 /\ Slot(s)' \in {Noise} \cup BodiesIn(t)
<1> DEFINE u == uart[s]
           v == FoldLeft(receive_item, uart[s], t)
           z == uart'[s]
<1>1. /\ u \in Uarts /\ u.posts = 0 /\ u.bytes \in {None, Noise}
      /\ t \in Seq(Items) /\ rx_sem[s] \in 0 .. 1
      /\ u.unread = rx_sem[s]
      /\ rx_sem[s] = 0 => u.w = u.r
      /\ rx_sem[s] = 1 => u.w = (u.r + 1) % USIP_UART_SKB_NUM
      /\ \A j \in Slots : u.skb[j].kind = "ack" => rx_sem[s] = 1 /\ j = u.r
  BY TransmissionItems DEF Types, Calls, Call, Window
<1>2. v \in Uarts /\ Parsed(u, v, BodiesIn(t)) /\ v.bytes \in {None, Noise}
  BY <1>1, Receives
<1>3. /\ v.posts + rx_sem[s] <= 1
      /\ z = [v EXCEPT !.posts = 0]
      /\ rx_sem'[s] = IF v.posts + rx_sem[s] = 0 THEN 0 ELSE 1
  <2>1. /\ z = [v EXCEPT !.posts = 0]
        /\ rx_sem'[s] = IF v.posts + rx_sem[s] = 0 THEN 0 ELSE 1
        /\ v.posts + rx_sem[s] > 1 => "token" \in trouble'
    BY <1>1, Arrival
  <2>2. v.posts \in Nat
    BY <1>2 DEF Uarts
  <2> QED
    BY <1>1, <2>1, <2>2
<1>4. Slot(s) = u.skb[u.r] /\ Slot(s)' = z.skb[z.r]
  BY DEF Slot
<1>5. Window(s)' <=>
        /\ z.unread = rx_sem'[s]
        /\ rx_sem'[s] = 0 => z.w = z.r
        /\ rx_sem'[s] = 1 => z.w = (z.r + 1) % USIP_UART_SKB_NUM
        /\ z.bytes \in {None, Noise}
        /\ \A j \in Slots : z.skb[j].kind = "ack" => rx_sem'[s] = 1 /\ j = z.r
  BY DEF Window
<1> DEFINE rx == rx_sem[s]
           rxp == rx_sem'[s]
<1> HIDE DEF u, v, z, rx, rxp
<1>6. /\ z.unread = v.unread /\ z.w = v.w /\ z.r = v.r /\ z.bytes = v.bytes
      /\ z.skb = v.skb /\ v.posts \in Nat
  BY <1>2, <1>3 DEF Uarts
<1>7. Noise.kind # "ack" /\ rx \in 0 .. 1 /\ u.r \in Slots /\ u.w \in Slots
  BY <1>1, BodyKinds DEF Uarts, rx
<1>8. CASE v.posts = 0
  <2>1. /\ v.r = u.r /\ v.unread = u.unread /\ v.w = u.w
        /\ \A j \in Slots : v.skb[j] \in {u.skb[j], Noise}
    BY <1>1, <1>2, <1>8 DEF Parsed, Uarts
  <2>2. rxp = rx
    BY <1>3, <1>7, <1>8 DEF rx, rxp
  <2>3. \A j \in Slots : z.skb[j].kind = "ack" => rxp = 1 /\ j = z.r
    BY <1>1, <1>6, <1>7, <2>1, <2>2 DEF rx
  <2>4. Window(s)'
    BY <1>1, <1>2, <1>5, <1>6, <2>1, <2>2, <2>3 DEF rx, rxp
  <2>5. Slot(s)' \in {Slot(s), Noise}
    BY <1>4, <1>6, <1>7, <2>1
  <2> QED
    BY <2>2, <2>4, <2>5 DEF rx, rxp
<1>9. CASE v.posts # 0
  <2>1. v.posts = 1 /\ rx = 0 /\ rxp = 1
    BY <1>3, <1>6, <1>7, <1>9 DEF rx, rxp
  <2>2. /\ v.r = u.r /\ v.unread = u.unread + 1 /\ u.w = u.r
        /\ v.w = (u.r + 1) % USIP_UART_SKB_NUM
        /\ v.skb[u.r] \in {Noise} \cup BodiesIn(t)
        /\ \A j \in Slots \ {u.r} : v.skb[j] \in {u.skb[j], Noise}
    BY <1>1, <1>2, <2>1 DEF Parsed, rx
  <2>3. \A j \in Slots : z.skb[j].kind = "ack" => rxp = 1 /\ j = z.r
    BY <1>1, <1>6, <1>7, <2>1, <2>2 DEF rx
  <2>4. Window(s)'
    BY <1>1, <1>2, <1>5, <1>6, <2>1, <2>2, <2>3 DEF rx, rxp
  <2>5. Slot(s)' \in {Noise} \cup BodiesIn(t)
    BY <1>4, <1>6, <2>2
  <2> QED
    BY <2>1, <2>4, <2>5 DEF rx, rxp
<1> QED
  BY <1>8, <1>9

\* In step, a frame of anything fills the slot and leaves the interrupt
\* waiting for a head.
LEMMA ArrivalInStep ==
    ASSUME Types, Lines, Calls, NEW s \in Stations, line[s] # << >>,
           NEW x \in Bodies \ {None}, ~uart[s].head,
           NEW what, receive_transmission(s, Frame(x), what)
    PROVE  /\ ~uart'[s].head
           /\ Window(s) /\ "token" \notin trouble' =>
                rx_sem[s] = 0 /\ rx_sem'[s] = 1 /\ Slot(s)' = x
<1> DEFINE u == uart[s]
           v == FoldLeft(receive_item, uart[s], Frame(x))
           z == uart'[s]
<1>1. u \in Uarts /\ u.posts = 0 /\ rx_sem[s] \in 0 .. 1 /\ Frame(x) \in Transmissions
  BY Sendable DEF Types, Calls, Call, Only
<1>2. v.posts = 1 /\ ~v.head /\ v.skb[u.w] = x
  BY <1>1, ReceivesFrame
<1>3. /\ v \in Uarts /\ z = [v EXCEPT !.posts = 0]
      /\ rx_sem'[s] = IF v.posts + rx_sem[s] = 0 THEN 0 ELSE 1
      /\ v.posts + rx_sem[s] > 1 => "token" \in trouble'
  BY <1>1, TransmissionItems, Arrival
<1>4. z.head = v.head /\ z.skb = v.skb /\ z.r = v.r
  BY <1>3 DEF Uarts
<1>5. ASSUME Window(s), "token" \notin trouble'
      PROVE  rx_sem[s] = 0 /\ rx_sem'[s] = 1 /\ Slot(s)' = x
  <2>1. rx_sem[s] = 0 /\ rx_sem'[s] = 1
    BY <1>1, <1>2, <1>3, <1>5
  <2>2. u.w = u.r /\ u.bytes \in {None, Noise}
    BY <1>5, <2>1 DEF Window
  <2>3. v.r = u.r
    BY <1>1, <2>2, Receives DEF Parsed
  <2> QED
    BY <1>2, <1>4, <2>1, <2>2, <2>3 DEF Slot
<1> QED
  BY <1>2, <1>4, <1>5

-----------------------------------------------------------------------------
(* Every variable keeps its type, and calls and frames their order *)

\* The part of the invariant that holds whatever the line does.
Basics == Types /\ Lines /\ Calls /\ Framed

\* Sequence numbers, packages and indexes stay in their ranges.
LEMMA Numbers ==
    /\ \A q \in 0 .. USIP_SEQ_MAX :
         (IF q = USIP_SEQ_MAX THEN 0 ELSE q + 1) \in 0 .. USIP_SEQ_MAX
    /\ \A n \in Nat : LastPackage(n) \in Nat
    /\ 0 \in 0 .. USIP_SEQ_MAX /\ \A n \in Sizes : n \in Nat
    /\ 0 \in Slots /\ \A i \in Slots : (i + 1) % USIP_UART_SKB_NUM \in Slots
BY Bounds DEF LastPackage, Slots

\* What the current call is about.
LEMMA CurrentCall ==
    ASSUME Types, Calls, NEW s \in Stations, snd[s].pc # "idle"
    PROVE  /\ Len(sent[s]) \in 1 .. MaxSent /\ Len(sent[s]) = Len(result[s]) + 1
           /\ Len(sent[s]) \in Nat /\ Len(result[s]) \in Nat
           /\ snd[s].size \in Sizes /\ snd[s].size = sent[s][Len(sent[s])]
           /\ Package(s) \in Bodies \ {None} /\ Package(s).kind = "data"
<1>1. /\ Len(sent[s]) \in Nat /\ Len(result[s]) \in Nat
      /\ Len(sent[Peer(s)]) \in Nat
      /\ Len(sent[s]) + Len(sent[Peer(s)]) <= MaxSent
      /\ Len(sent[s]) = Len(result[s]) + 1
      /\ sent[s] \in Seq(Sizes) /\ snd[s] \in Senders
      /\ snd[s].size = sent[s][Len(sent[s])] /\ snd[s].pkg <= LastPackage(snd[s].size)
      /\ g_wait_seq[s] \in 0 .. USIP_SEQ_MAX
  BY Peers, LenProperties DEF Types, Calls, Call
<1> DEFINE m == Len(sent[s])
           n == Len(sent[Peer(s)])
           size == snd[s].size
           p == snd[s].pkg
<1>2. m \in 1 .. MaxSent
  <2>1. m \in Nat /\ n \in Nat /\ m + n <= MaxSent /\ MaxSent \in Nat
    BY <1>1, Bounds
  <2>2. m >= 1
    BY <1>1
  <2> HIDE DEF m, n
  <2> QED
    BY <2>1, <2>2
<1>3. size \in Sizes
  BY <1>1, <1>2, ElementOfSeq
<1>4. p \in 0 .. LastPackage(size)
  <2>1. p \in Nat /\ p <= LastPackage(size) /\ LastPackage(size) \in Nat
    BY <1>1, <1>3, Numbers DEF Senders
  <2> HIDE DEF p, size
  <2> QED
    BY <2>1
<1>5. p \in UNION {0 .. LastPackage(k) : k \in Sizes}
  BY <1>3, <1>4
<1>6. Package(s) \in Bodies
  <2> DEFINE q == g_wait_seq[s]
             l == p = LastPackage(size)
             b == size > 0
  <2>1. Package(s) = Data(q, m, p, l, b)
    BY DEF Package
  <2>2. q \in 0 .. USIP_SEQ_MAX /\ l \in BOOLEAN /\ b \in BOOLEAN
    BY <1>1
  <2> HIDE DEF q, m, p, l, b
  <2> QED
    BY <1>2, <1>5, <2>1, <2>2 DEF Bodies
<1>7. Package(s).kind = "data"
  BY DEF Package, Data
<1> QED
  BY <1>1, <1>2, <1>3, <1>6, <1>7, BodyKinds

\* After usip_init nothing is under way.
LEMMA InitBasics == Init => UsipInv
<1> SUFFICES ASSUME Init PROVE UsipInv
  OBVIOUS
<1> USE DEF Init
<1>1. Types
  <2>1. \A s \in Stations : uart[s] \in Uarts
    BY Numbers, BodyKinds DEF Uarts, Slots
  <2>2. uart \in [Stations -> Uarts]
    BY <2>1
  <2>3. snd \in [Stations -> Senders]
    BY DEF Senders
  <2>4. send_buf \in [Stations -> Bodies]
    BY BodyKinds
  <2>5. /\ g_seq \in [Stations -> 0 .. USIP_SEQ_MAX]
        /\ g_wait_seq \in [Stations -> 0 .. USIP_SEQ_MAX]
        /\ ack_sem \in [Stations -> 0 .. 1] /\ rx_sem \in [Stations -> 0 .. 1]
    BY Numbers
  <2>6. /\ list \in [Stations -> Seq(Nodes)] /\ last_rcvd \in [Stations -> BOOLEAN]
        /\ sent \in [Stations -> Seq(Sizes)] /\ result \in [Stations -> Seq(Codes)]
        /\ got \in [Stations -> Seq(Seq(Nodes))] /\ taken \in [Stations -> SUBSET Nodes]
    OBVIOUS
  <2> QED
    BY <2>2, <2>3, <2>4, <2>5, <2>6 DEF Types
<1>2. Lines
  BY DEF Lines
<1>3. \A s \in Stations :
        /\ sent[s] = << >> /\ result[s] = << >> /\ sent[Peer(s)] = << >>
        /\ line[s] = << >> /\ line[Peer(s)] = << >>
        /\ snd[s].pc = "idle" /\ snd[s].pkg = 0 /\ snd[s].size = 0 /\ snd[s].loop_cnt = 0
        /\ rx_sem[s] = 0 /\ rx_sem[Peer(s)] = 0 /\ ack_sem[s] = 0
        /\ uart[s].posts = 0 /\ ~uart[s].head /\ uart[s].unread = 0
        /\ uart[s].w = 0 /\ uart[s].r = 0 /\ uart[s].bytes = None
        /\ \A j \in Slots : uart[s].skb[j] = None
        /\ list[Peer(s)] = << >> /\ got[Peer(s)] = << >> /\ ~last_rcvd[Peer(s)]
  BY Peers DEF Slots
<1>4. Calls
  <2>1. Len(<< >>) = 0 /\ 0 <= LastPackage(0) /\ 0 <= MaxSent /\ 0 <= USIP_MAX_ARQ_TIMES
    BY Bounds DEF LastPackage
  <2> QED
    BY <1>3, <2>1 DEF Calls, Call
<1> HIDE DEF Init
<1>5. Framed
  BY <1>3 DEF Framed
<1>6. ASSUME NEW s \in Stations
      PROVE  /\ ~DataOnLine(s) /\ ~DataInSlot(s) /\ ~AckOnLine(s) /\ ~AckInSlot(s)
             /\ ~AckSeen(s) /\ ~Acked(s)
  <2>1. Slot(s) = None /\ None.kind # "ack"
    BY <1>3, Numbers, BodyKinds DEF Slot
  <2>2. ~Some(line[s], "ack") /\ ~Some(line[Peer(s)], "data")
    BY <1>3 DEF Some
  <2> QED
    BY <1>3, <2>1, <2>2
       DEF DataOnLine, DataInSlot, AckOnLine, AckInSlot, AckSeen, Acked
<1>7. Exchange
  <2>1. ASSUME NEW s \in Stations
        PROVE  Window(s) /\ Going(s)
    <3>1. Window(s)
      <4>1. None.kind # "ack"
        BY BodyKinds
      <4> QED
        BY <1>3, <4>1 DEF Window
    <3>2. OneOfThem(s)
      BY <1>3, <1>6 DEF OneOfThem, Once
    <3>3. RightOnes(s)
      BY <1>3, <1>6 DEF RightOnes, AllAre
    <3>4. Received(s)
      BY <1>3, <1>6 DEF Received
    <3> QED
      BY <3>1, <3>2, <3>3, <3>4 DEF Going
  <2> QED
    BY <2>1 DEF Exchange
<1>8. Ordered
  <2>1. ASSUME NEW s \in Stations PROVE InOrder(s)
    <3>1. Listing(s) = 0 /\ Delivered(s) = 0
      BY <1>3 DEF Listing, Delivered
    <3>3. /\ [i \in 1 .. 0 |-> Current(s, i - 1)] = << >>
          /\ [m \in 1 .. 0 |-> Message(s, m)] = << >>
      OBVIOUS
    <3>4. DOMAIN sent[s] = {}
      BY <1>3
    <3>5. get_data_frame_list(list[Peer(s)]) = << >>
      BY <1>3, DataOfList
    <3> QED
      BY <1>3, <3>1, <3>3, <3>4, <3>5 DEF InOrder
  <2> QED
    BY <2>1 DEF Ordered
<1> QED
  BY <1>1, <1>2, <1>4, <1>5, <1>7, <1>8 DEF UsipInv

\* A call of usip_send_data keeps Basics.
LEMMA SendDataBasics ==
    ASSUME Basics, NEW s \in Stations, NEW size \in Sizes, usip_send_data(s, size)
    PROVE  Basics'
<1> USE DEF Basics
<1>0. /\ snd' = [snd EXCEPT ![s] = [pc |-> "convert", size |-> size, pkg |-> 0,
                                    loop_cnt |-> 0, broken |-> FALSE]]
      /\ sent' = [sent EXCEPT ![s] = Append(@, size)]
      /\ g_seq' = [g_seq EXCEPT ![s] = IF @ = USIP_SEQ_MAX THEN 0 ELSE @ + 1]
      /\ g_wait_seq' = [g_wait_seq EXCEPT ![s] = g_seq[s]]
      /\ trouble \subseteq trouble'
      /\ snd[s].pc = "idle" /\ Len(sent[s]) + Len(sent[Peer(s)]) < MaxSent
      /\ UNCHANGED <<send_buf, ack_sem, line, uart, rx_sem, list, last_rcvd, got,
                     taken, result>>
  BY DEF usip_send_data, get_seq, receiver
<1>1. Types'
  <2>1. snd' \in [Stations -> Senders]
    BY <1>0, Numbers DEF Types, Senders
  <2>2. sent' \in [Stations -> Seq(Sizes)]
    BY <1>0 DEF Types
  <2>3. /\ g_seq' \in [Stations -> 0 .. USIP_SEQ_MAX]
        /\ g_wait_seq' \in [Stations -> 0 .. USIP_SEQ_MAX]
    BY <1>0, Numbers DEF Types
  <2> QED
    BY <1>0, <2>1, <2>2, <2>3 DEF Types
<1>2. Lines'
  BY <1>0 DEF Lines
<1>3. Calls'
  <2>1. /\ sent'[s] = Append(sent[s], size) /\ sent[s] \in Seq(Sizes)
        /\ Len(sent'[s]) = Len(sent[s]) + 1 /\ sent'[s][Len(sent[s]) + 1] = size
        /\ \A t \in Stations \ {s} : sent'[t] = sent[t] /\ snd'[t] = snd[t]
        /\ snd'[s] = [pc |-> "convert", size |-> size, pkg |-> 0,
                      loop_cnt |-> 0, broken |-> FALSE]
    BY <1>0, AppendProperties DEF Types
  <2>3. /\ Peer(s) \in Stations \ {s} /\ Peer(Peer(s)) = s
        /\ \A p \in Stations : p = s \/ p = Peer(s)
    BY Peers
  <2>4. LastPackage(size) \in Nat /\ USIP_MAX_ARQ_TIMES \in Nat
    BY Numbers, Bounds
  <2>5. Len(sent'[s]) + Len(sent'[Peer(s)]) <= MaxSent
    <3> DEFINE m == Len(sent[s])
               n == Len(sent[Peer(s)])
    <3>1. m \in Nat /\ n \in Nat /\ MaxSent \in Nat /\ m + n < MaxSent
      BY <1>0, <2>3, LenProperties, Bounds DEF Types
    <3>2. Len(sent'[s]) = m + 1 /\ Len(sent'[Peer(s)]) = n
      BY <2>1, <2>3
    <3> HIDE DEF m, n
    <3> QED
      BY <3>1, <3>2
  <2>6. Len(sent'[s]) \in Nat /\ Len(sent'[Peer(s)]) \in Nat
    BY <2>1, <2>3, LenProperties DEF Types
  <2>7. Call(s)'
    <3>1. Len(sent[s]) = Len(result[s]) /\ uart[s].posts = 0
      <4> DEFINE n == Len(result[s])
      <4>1. n \in Nat /\ uart[s].posts = 0 /\ Len(sent[s]) = n + 0
        BY <1>0, LenProperties DEF Types, Calls, Call
      <4> HIDE DEF n
      <4>2. n + 0 = n
        BY <4>1
      <4> QED
        BY <4>1, <4>2 DEF n
    <3>2. /\ snd'[s].pc = "convert" /\ snd'[s].size = size /\ snd'[s].pkg = 0
          /\ snd'[s].loop_cnt = 0
      BY <2>1
    <3>3. result' = result /\ uart' = uart
      BY <1>0
    <3>4. Len(sent'[s]) = Len(result'[s]) + 1 /\ sent'[s][Len(sent'[s])] = size
      BY <2>1, <3>1, <3>3
    <3>5. snd'[s].pkg <= LastPackage(snd'[s].size) /\ 0 <= USIP_MAX_ARQ_TIMES
      BY <2>4, <3>2
    <3> QED
      BY <2>5, <3>1, <3>2, <3>3, <3>4, <3>5 DEF Call
  <2>8. Call(Peer(s))'
    <3>1. Len(sent'[Peer(s)]) + Len(sent'[s]) <= MaxSent
      <4> DEFINE m == Len(sent'[s])
                 n == Len(sent'[Peer(s)])
      <4>1. m \in Nat /\ n \in Nat /\ m + n <= MaxSent
        BY <2>5, <2>6
      <4> HIDE DEF m, n
      <4>2. n + m <= MaxSent
        BY <4>1
      <4> QED
        BY <4>2 DEF m, n
    <3> QED
      BY <1>0, <2>1, <2>3, <3>1 DEF Calls, Call
  <2> QED
    BY <2>3, <2>7, <2>8 DEF Calls
<1>4. Framed'
  BY <1>0 DEF Framed
<1> QED
  BY <1>1, <1>2, <1>3, <1>4

\* So do the steps of the sending task that leave its calls alone.
LEMMA ConvertBasics ==
    ASSUME Basics, NEW s \in Stations,
           convert_tlv_to_usip_frame(s) \/ send_one_frame(s) \/ wait_timeout(s)
    PROVE  Basics'
<1> USE DEF Basics
<1>1. /\ UNCHANGED <<g_seq, g_wait_seq, ack_sem, line, uart, rx_sem, list,
                     last_rcvd, got, taken, sent, result>>
      /\ trouble \subseteq trouble' /\ snd[s].pc # "idle"
      /\ \A t \in Stations \ {s} : snd'[t] = snd[t] /\ send_buf'[t] = send_buf[t]
      /\ snd' \in [Stations -> Senders] /\ send_buf' \in [Stations -> Bodies]
      /\ snd'[s].pc \in {"send", "sending"} /\ snd'[s].size = snd[s].size
      /\ snd'[s].pkg = snd[s].pkg
      /\ snd'[s].loop_cnt <= USIP_MAX_ARQ_TIMES
      /\ send_buf'[s] # None
  <2>0. /\ snd \in [Stations -> Senders] /\ snd[s] \in Senders
        /\ send_buf \in [Stations -> Bodies] /\ USIP_MAX_ARQ_TIMES \in Nat
        /\ snd[s].loop_cnt \in Nat /\ snd[s].loop_cnt <= USIP_MAX_ARQ_TIMES
    BY Bounds DEF Types, Calls, Call, Senders
  <2>1. CASE convert_tlv_to_usip_frame(s)
    <3>1. snd[s].pc # "idle" /\ Package(s) \in Bodies \ {None} /\ Noise \in Bodies \ {None}
      BY <2>1, CurrentCall, BodyKinds DEF convert_tlv_to_usip_frame
    <3>2. /\ send_buf' = [send_buf EXCEPT ![s] = IF snd[s].broken THEN Noise ELSE Package(s)]
          /\ snd' = [snd EXCEPT ![s].pc = "send", ![s].broken = FALSE]
      BY <2>1 DEF convert_tlv_to_usip_frame
    <3>3. snd' \in [Stations -> Senders] /\ send_buf' \in [Stations -> Bodies]
      BY <2>0, <3>1, <3>2 DEF Senders
    <3>4. send_buf'[s] # None
      BY <2>0, <3>1, <3>2
    <3> QED
      BY <2>0, <2>1, <3>1, <3>2, <3>3, <3>4
         DEF convert_tlv_to_usip_frame, receiver, history, Senders
  <2>2. CASE send_one_frame(s)
    <3>1. snd' = [snd EXCEPT ![s].pc = "sending", ![s].broken = FALSE]
      BY <2>2 DEF send_one_frame
    <3>2. snd' \in [Stations -> Senders]
      BY <2>0, <3>1 DEF Senders
    <3>3. /\ \A t \in Stations \ {s} : snd'[t] = snd[t]
          /\ snd'[s].pc = "sending" /\ snd'[s].size = snd[s].size
          /\ snd'[s].pkg = snd[s].pkg /\ snd'[s].loop_cnt = snd[s].loop_cnt
      BY <2>0, <3>1 DEF Senders
    <3>4. snd[s].pc = "send" /\ send_buf[s] # None /\ send_buf' = send_buf
      BY <2>2 DEF send_one_frame, Calls, Call
    <3>5. /\ UNCHANGED <<g_seq, g_wait_seq, ack_sem, line, uart, rx_sem, list,
                         last_rcvd, got, taken, sent, result>>
          /\ trouble \subseteq trouble'
      BY <2>2 DEF send_one_frame, receiver, history
    <3> QED
      BY <2>0, <3>2, <3>3, <3>4, <3>5
  <2>3. CASE wait_timeout(s)
    <3>1. /\ snd' = [snd EXCEPT ![s].pc = "send", ![s].loop_cnt = snd[s].loop_cnt + 1]
          /\ snd[s].pc = "wait" /\ send_buf[s] # None /\ send_buf' = send_buf
      BY <2>3 DEF wait_timeout, Calls, Call
    <3>2. snd[s].loop_cnt + 1 <= USIP_MAX_ARQ_TIMES /\ snd[s].loop_cnt + 1 \in Nat
      <4>1. snd[s].loop_cnt < USIP_MAX_ARQ_TIMES
        BY <3>1 DEF Calls, Call
      <4> DEFINE c == snd[s].loop_cnt
      <4>2. c \in Nat /\ c < USIP_MAX_ARQ_TIMES
        BY <2>0, <4>1
      <4> HIDE DEF c
      <4>3. c + 1 <= USIP_MAX_ARQ_TIMES /\ c + 1 \in Nat
        BY <2>0, <4>2
      <4> QED
        BY <4>3 DEF c
    <3>3. /\ snd' \in [Stations -> Senders]
          /\ \A t \in Stations \ {s} : snd'[t] = snd[t]
          /\ snd'[s].pc = "send" /\ snd'[s].size = snd[s].size
          /\ snd'[s].pkg = snd[s].pkg /\ snd'[s].loop_cnt = snd[s].loop_cnt + 1
      BY <2>0, <3>1, <3>2 DEF Senders
    <3>4. /\ UNCHANGED <<g_seq, g_wait_seq, ack_sem, line, uart, rx_sem, list,
                         last_rcvd, got, taken, sent, result>>
          /\ trouble \subseteq trouble'
      BY <2>3 DEF wait_timeout, receiver, history
    <3> QED
      BY <2>0, <3>1, <3>2, <3>3, <3>4
  <2> QED
    BY <2>1, <2>2, <2>3
<1>2. Types' /\ Lines' /\ Framed'
  BY <1>1 DEF Types, Lines, Framed
<1>3. ASSUME NEW p \in Stations PROVE Call(p)'
  <2>1. CASE p = s
    BY <1>1, <2>1 DEF Calls, Call
  <2>2. CASE p # s
    BY <1>1, <2>2 DEF Calls, Call
  <2> QED
    BY <2>1, <2>2
<1> QED
  BY <1>2, <1>3 DEF Calls

\* What send_one_frame put on the line.
LEMMA Transmitted ==
    ASSUME NEW s \in Stations, send_buf[s] \in Bodies \ {None}
    PROVE  /\ Transmission(s) \in Transmissions
           /\ send_buf[s].kind # "ack" =>
                Transmission(s) = Frame(send_buf[s]) /\ Only(Transmission(s), send_buf[s])
           /\ send_buf[s].kind = "ack" => Only(Transmission(s), Noise)
BY Sendable DEF Transmission, Only

\* usip_send_data returns: the call has its result.
LEMMA Returned ==
    ASSUME Basics, NEW s \in Stations, NEW code \in Codes, snd[s].pc # "idle",
           Return(s, code), UNCHANGED <<sent, uart>>
    PROVE  /\ snd' \in [Stations -> Senders] /\ result' \in [Stations -> Seq(Codes)]
           /\ \A t \in Stations \ {s} : snd'[t] = snd[t] /\ result'[t] = result[t]
           /\ snd'[s] = [pc |-> "idle", size |-> 0, pkg |-> 0, loop_cnt |-> 0,
                         broken |-> FALSE]
           /\ result'[s] = Append(result[s], code)
           /\ Len(result'[s]) = Len(sent[s])
           /\ Call(s)'
<1>1. /\ snd' = [snd EXCEPT ![s] = [pc |-> "idle", size |-> 0, pkg |-> 0,
                                    loop_cnt |-> 0, broken |-> FALSE]]
      /\ result' = [result EXCEPT ![s] = Append(@, code)]
  BY DEF Return
<1>2. snd' \in [Stations -> Senders] /\ result' \in [Stations -> Seq(Codes)]
  BY <1>1 DEF Basics, Types, Senders
<1>3. Len(Append(result[s], code)) = Len(result[s]) + 1
  BY AppendProperties DEF Basics, Types
<1>4. Len(sent[s]) = Len(result[s]) + 1
  BY CurrentCall DEF Basics
<1>5. /\ snd'[s] = [pc |-> "idle", size |-> 0, pkg |-> 0, loop_cnt |-> 0,
                    broken |-> FALSE]
      /\ result'[s] = Append(result[s], code)
  BY <1>1 DEF Basics, Types
<1>6. Call(s)'
  <2>1. /\ snd'[s].pc = "idle" /\ snd'[s].size = 0 /\ snd'[s].pkg = 0
        /\ snd'[s].loop_cnt = 0
    BY <1>5
  <2>2. 0 <= USIP_MAX_ARQ_TIMES /\ 0 <= LastPackage(0)
    BY Bounds DEF LastPackage
  <2>3. Len(sent[s]) = Len(result'[s]) + 0
    <3> DEFINE n == Len(sent[s])
    <3>1. n \in Nat /\ Len(result'[s]) = n
      BY <1>3, <1>4, <1>5, LenProperties DEF Basics, Types
    <3> HIDE DEF n
    <3>2. n = n + 0
      BY <3>1
    <3> QED
      BY <3>1, <3>2 DEF n
  <2>4. Len(sent[s]) + Len(sent[Peer(s)]) <= MaxSent /\ uart[s].posts = 0
    BY DEF Basics, Calls, Call
  <2> QED
    BY <2>1, <2>2, <2>3, <2>4 DEF Call
<1> QED
  BY <1>1, <1>2, <1>3, <1>4, <1>5, <1>6 DEF Basics, Types

\* A frame behind frames.
LEMMA AppendedAll ==
    ASSUME NEW q \in Seq(Transmissions), NEW x \in Bodies \ {None},
           \A i \in DOMAIN q : \E y \in Bodies \ {None} : q[i] = Frame(y)
    PROVE  \A i \in DOMAIN Append(q, Frame(x)) :
             \E y \in Bodies \ {None} : Append(q, Frame(x))[i] = Frame(y)
<1> DEFINE t == Frame(x)
           a == Append(q, t)
           n == Len(q)
<1>1. t \in Transmissions
  BY Sendable DEF Only
<1>2. /\ n \in Nat /\ DOMAIN q = 1 .. n /\ DOMAIN a = 1 .. n + 1
      /\ \A i \in 1 .. n : a[i] = q[i]
      /\ a[n + 1] = Frame(x)
  <2> HIDE DEF t
  <2>1. /\ n \in Nat /\ DOMAIN q = 1 .. n /\ DOMAIN a = 1 .. n + 1
        /\ \A i \in 1 .. n : a[i] = q[i]
        /\ a[n + 1] = t
    BY <1>1, LenProperties, AppendProperties
  <2> QED
    BY <2>1 DEF t
<1> HIDE DEF a, n
<1>3. \A i \in 1 .. n + 1 : i \in 1 .. n \/ i = n + 1
  BY <1>2
<1> QED
  BY <1>2, <1>3 DEF a

\* So does the end of send_one_frame.
LEMMA FrameSentBasics ==
    ASSUME Basics, NEW s \in Stations, frame_sent(s)
    PROVE  Basics'
<1> USE DEF Basics
<1>1. /\ UNCHANGED <<g_seq, g_wait_seq, send_buf, ack_sem, uart, rx_sem, list,
                     last_rcvd, got, taken, sent>>
      /\ line' = [line EXCEPT ![Peer(s)] = Append(@, Transmission(s))]
      /\ trouble \subseteq trouble'
      /\ send_buf[s].kind # "data" => "shared" \in trouble'
      /\ snd[s].pc = "sending"
      /\ IF LastTry(s) THEN Return(s, "error")
         ELSE snd' = [snd EXCEPT ![s].pc = "wait"] /\ UNCHANGED result
  BY DEF frame_sent, receiver
<1>2. /\ send_buf[s] \in Bodies \ {None} /\ snd \in [Stations -> Senders]
      /\ Peer(s) \in Stations
  BY <1>1, Peers DEF Types, Calls, Call
<1>3. Transmission(s) \in Transmissions
  BY <1>2, Transmitted
<1>4. Lines'
  <2>1. Append(line[Peer(s)], Transmission(s)) \in Seq(Transmissions)
    BY <1>2, <1>3 DEF Lines
  <2> QED
    BY <1>1, <1>2, <2>1 DEF Lines
<1>5. /\ snd' \in [Stations -> Senders] /\ result' \in [Stations -> Seq(Codes)]
      /\ \A t \in Stations \ {s} : snd'[t] = snd[t] /\ result'[t] = result[t]
      /\ Call(s)'
  <2>1. CASE LastTry(s)
    <3>1. Return(s, "error") /\ "error" \in Codes /\ snd[s].pc # "idle"
      BY <1>1, <2>1 DEF Codes
    <3>2. /\ snd' \in [Stations -> Senders] /\ result' \in [Stations -> Seq(Codes)]
          /\ \A t \in Stations \ {s} : snd'[t] = snd[t] /\ result'[t] = result[t]
          /\ snd'[s] = [pc |-> "idle", size |-> 0, pkg |-> 0, loop_cnt |-> 0,
                        broken |-> FALSE]
          /\ Call(s)'
      BY <1>1, <3>1, Returned
    <3> QED
      BY <3>2
  <2>2. CASE ~LastTry(s)
    <3>1. snd' = [snd EXCEPT ![s].pc = "wait"] /\ UNCHANGED result
      BY <1>1, <2>2
    <3>2. /\ snd' \in [Stations -> Senders]
          /\ \A t \in Stations \ {s} : snd'[t] = snd[t]
          /\ snd'[s].pc = "wait" /\ snd'[s].size = snd[s].size
          /\ snd'[s].pkg = snd[s].pkg /\ snd'[s].loop_cnt = snd[s].loop_cnt
      BY <1>2, <3>1 DEF Senders
    <3>3. snd[s].loop_cnt < USIP_MAX_ARQ_TIMES
      <4>1. snd[s].loop_cnt <= USIP_MAX_ARQ_TIMES /\ snd[s].loop_cnt \in Nat
        BY <1>2 DEF Calls, Call, Senders
      <4>2. snd[s].loop_cnt # USIP_MAX_ARQ_TIMES
        BY <2>2 DEF LastTry
      <4> QED
        BY <4>1, <4>2, Bounds
    <3>4. Call(s)'
      BY <1>1, <3>1, <3>2, <3>3 DEF Calls, Call
    <3> QED
      BY <3>1, <3>2, <3>4 DEF Types
  <2> QED
    BY <2>1, <2>2
<1>6. Types'
  BY <1>1, <1>5 DEF Types
<1>7. ASSUME NEW p \in Stations PROVE Call(p)'
  <2>1. CASE p # s
    BY <1>1, <1>5, <2>1 DEF Calls, Call
  <2> QED
    BY <1>5, <2>1
<1>8. Framed'
  <2> SUFFICES ASSUME trouble' \cap {"framing", "shared"} = {}, NEW p \in Stations
               PROVE  /\ ~uart[p].head
                      /\ \A i \in DOMAIN line'[p] : \E x \in Bodies \ {None} :
                           line'[p][i] = Frame(x)
    BY <1>1 DEF Framed
  <2>1. /\ ~uart[p].head
        /\ \A i \in DOMAIN line[p] : \E x \in Bodies \ {None} : line[p][i] = Frame(x)
    BY <1>1 DEF Framed
  <2>2. Transmission(s) = Frame(send_buf[s])
    BY <1>1, <1>2, Transmitted
  <2>3. CASE p = Peer(s)
    <3>1. line'[p] = Append(line[p], Frame(send_buf[s])) /\ line[p] \in Seq(Transmissions)
      BY <1>1, <1>2, <2>2, <2>3 DEF Lines
    <3> QED
      BY <1>2, <2>1, <3>1, AppendedAll
  <2>4. CASE p # Peer(s)
    BY <1>1, <2>1, <2>4 DEF Lines
  <2> QED
    BY <2>3, <2>4
<1> QED
  BY <1>4, <1>6, <1>7, <1>8 DEF Calls

\* So does the ack that the sending task takes.
LEMMA WaitAckBasics ==
    ASSUME Basics, NEW s \in Stations, wait_ack(s)
    PROVE  Basics'
<1> USE DEF Basics
<1>1. /\ UNCHANGED <<g_seq, g_wait_seq, send_buf, line, uart, rx_sem, list,
                     last_rcvd, got, taken, sent, trouble>>
      /\ ack_sem' = [ack_sem EXCEPT ![s] = 0]
      /\ snd[s].pc = "wait"
      /\ IF snd[s].pkg = LastPackage(snd[s].size) THEN Return(s, "ok")
         ELSE /\ snd' = [snd EXCEPT ![s].pc = "convert", ![s].pkg = @ + 1,
                                    ![s].loop_cnt = 0]
              /\ UNCHANGED result
  BY DEF wait_ack, receiver
<1>2. snd \in [Stations -> Senders]
  BY DEF Types
<1>3. /\ snd' \in [Stations -> Senders] /\ result' \in [Stations -> Seq(Codes)]
      /\ \A t \in Stations \ {s} : snd'[t] = snd[t] /\ result'[t] = result[t]
      /\ Call(s)'
  <2>1. CASE snd[s].pkg = LastPackage(snd[s].size)
    <3>1. Return(s, "ok") /\ "ok" \in Codes /\ snd[s].pc # "idle"
      BY <1>1, <2>1 DEF Codes
    <3>2. /\ snd' \in [Stations -> Senders] /\ result' \in [Stations -> Seq(Codes)]
          /\ \A t \in Stations \ {s} : snd'[t] = snd[t] /\ result'[t] = result[t]
          /\ snd'[s] = [pc |-> "idle", size |-> 0, pkg |-> 0, loop_cnt |-> 0,
                        broken |-> FALSE]
          /\ Call(s)'
      BY <1>1, <3>1, Returned
    <3> QED
      BY <3>2
  <2>2. CASE snd[s].pkg # LastPackage(snd[s].size)
    <3>1. /\ snd' = [snd EXCEPT ![s].pc = "convert", ![s].pkg = snd[s].pkg + 1,
                                ![s].loop_cnt = 0]
          /\ UNCHANGED result
      BY <1>1, <2>2
    <3>2. /\ snd' \in [Stations -> Senders]
          /\ \A t \in Stations \ {s} : snd'[t] = snd[t]
          /\ snd'[s].pc = "convert" /\ snd'[s].size = snd[s].size
          /\ snd'[s].pkg = snd[s].pkg + 1 /\ snd'[s].loop_cnt = 0
      BY <1>2, <3>1 DEF Senders
    <3>3. snd[s].pkg + 1 <= LastPackage(snd[s].size) /\ 0 <= USIP_MAX_ARQ_TIMES
      <4> DEFINE a == snd[s].pkg
                 b == LastPackage(snd[s].size)
      <4>1. a \in Nat /\ b \in Nat /\ a <= b /\ a # b
        BY <1>2, <2>2, Numbers DEF Calls, Call, Senders
      <4> HIDE DEF a, b
      <4>2. a + 1 <= b
        BY <4>1
      <4> QED
        BY <4>2, Bounds DEF a, b
    <3>4. Call(s)'
      BY <1>1, <3>1, <3>2, <3>3 DEF Calls, Call
    <3> QED
      BY <3>1, <3>2, <3>4 DEF Types
  <2> QED
    BY <2>1, <2>2
<1>4. Types'
  <2>1. ack_sem' \in [Stations -> 0 .. 1]
    BY <1>1 DEF Types
  <2> QED
    BY <1>1, <1>3, <2>1 DEF Types
<1>5. ASSUME NEW p \in Stations PROVE Call(p)'
  <2>1. CASE p # s
    BY <1>1, <1>3, <2>1 DEF Calls, Call
  <2> QED
    BY <1>3, <2>1
<1>6. Lines' /\ Framed'
  BY <1>1 DEF Lines, Framed
<1> QED
  BY <1>4, <1>5, <1>6 DEF Calls

\* So does whatever comes to receive_one_byte.
LEMMA ArrivalBasics ==
    ASSUME Basics, NEW s \in Stations, line[s] # << >>, NEW t \in Seq(Items),
           NEW what, receive_transmission(s, t, what),
           trouble' \cap {"framing", "shared"} = {} =>
             \E x \in Bodies \ {None} : t = Frame(x)
    PROVE  Basics'
<1> USE DEF Basics
<1>1. /\ UNCHANGED <<snd, g_seq, g_wait_seq, send_buf, ack_sem, list, last_rcvd,
                     got, taken, sent, result>>
      /\ trouble \subseteq trouble'
  BY DEF receive_transmission, sender, receiver, history
<1>2. /\ uart' \in [Stations -> Uarts] /\ uart'[s].posts = 0
      /\ \A p \in Stations \ {s} : uart'[p] = uart[p]
      /\ rx_sem' \in [Stations -> 0 .. 1]
      /\ line' = [line EXCEPT ![s] = Tail(@)]
      /\ line' \in [Stations -> Seq(Transmissions)]
  BY Arrival
<1>3. Types' /\ Lines'
  BY <1>1, <1>2 DEF Types, Lines
<1>4. ASSUME NEW p \in Stations PROVE Call(p)'
  <2>1. uart'[p].posts = 0
    BY <1>2 DEF Calls, Call
  <2> QED
    BY <1>1, <2>1 DEF Calls, Call
<1>5. Framed'
  <2> SUFFICES ASSUME trouble' \cap {"framing", "shared"} = {}, NEW p \in Stations
               PROVE  /\ ~uart'[p].head
                      /\ \A i \in DOMAIN line'[p] : \E x \in Bodies \ {None} :
                           line'[p][i] = Frame(x)
    BY <1>1 DEF Framed
  <2>1. /\ ~uart[p].head
        /\ \A i \in DOMAIN line[p] : \E x \in Bodies \ {None} : line[p][i] = Frame(x)
    BY <1>1 DEF Framed
  <2>2. CASE p = s
    <3>1. PICK x \in Bodies \ {None} : t = Frame(x)
      OBVIOUS
    <3>2. ~uart'[p].head
      BY <2>1, <2>2, <3>1, ArrivalInStep
    <3>3. ASSUME NEW i \in DOMAIN line'[p]
          PROVE  \E y \in Bodies \ {None} : line'[p][i] = Frame(y)
      <4> DEFINE q == line[p]
      <4>1. q \in Seq(Transmissions) /\ q # << >> /\ line'[p] = Tail(q)
        BY <1>2, <2>2 DEF Lines
      <4> HIDE DEF q
      <4>2. i \in 1 .. Len(q) - 1 /\ Tail(q)[i] = q[i + 1] /\ i + 1 \in DOMAIN q
        BY <3>3, <4>1, HeadTailProperties, LenProperties
      <4> QED
        BY <2>1, <4>1, <4>2 DEF q
    <3> QED
      BY <3>2, <3>3
  <2>3. CASE p # s
    BY <1>2, <2>1, <2>3 DEF Lines
  <2> QED
    BY <2>2, <2>3
<1> QED
  BY <1>3, <1>4, <1>5 DEF Calls

\* The transmission that comes is the first one, or what the line made of it.
LEMMA HeadOfLine ==
    ASSUME Basics, NEW s \in Stations, line[s] # << >>
    PROVE  /\ Head(line[s]) \in Transmissions
           /\ trouble \cap {"framing", "shared"} = {} =>
                \E x \in Bodies \ {None} : Head(line[s]) = Frame(x)
<1>1. line[s] \in Seq(Transmissions)
  BY DEF Basics, Lines
<1>2. 1 \in DOMAIN line[s] /\ Head(line[s]) = line[s][1]
  BY <1>1, EmptySeq, LenProperties
<1>3. Head(line[s]) \in Transmissions
  BY <1>1, HeadTailProperties
<1> QED
  BY <1>2, <1>3 DEF Basics, Framed

\* Damaged or not.
LEMMA ReceiveBasics ==
    ASSUME Basics, NEW s \in Stations,
           receive_one_byte(s) \/ \E x \in {Noise, BadEsc, End} : line_fault(s, x)
    PROVE  Basics'
<1>1. CASE receive_one_byte(s)
  <2>1. /\ line[s] # << >> /\ receive_transmission(s, Head(line[s]), {})
        /\ trouble \subseteq trouble'
    BY <1>1 DEF receive_one_byte, receive_transmission
  <2>2. Head(line[s]) \in Seq(Items)
    BY <2>1, HeadOfLine, TransmissionItems
  <2>3. trouble' \cap {"framing", "shared"} = {} =>
          \E x \in Bodies \ {None} : Head(line[s]) = Frame(x)
    BY <2>1, HeadOfLine
  <2> QED
    BY <2>1, <2>2, <2>3, ArrivalBasics
<1>2. ASSUME NEW x \in {Noise, BadEsc, End}, line_fault(s, x) PROVE Basics'
  <2> DEFINE t == Head(line[s])
             d == Damaged(t, x)
             what == IF x # Noise THEN {"framing"}
                     ELSE IF \E i \in DOMAIN t : t[i].kind = "ack"
                     THEN {"ack"} ELSE {"data"}
  <2>1. line[s] # << >> /\ receive_transmission(s, d, what)
    BY <1>2 DEF line_fault
  <2>2. trouble \cup what \subseteq trouble'
    BY <2>1 DEF receive_transmission
  <2>3. t \in Transmissions /\ d \in Seq(Items)
    BY <2>1, HeadOfLine, DamagedItems
  <2>4. ASSUME trouble' \cap {"framing", "shared"} = {}
        PROVE  \E y \in Bodies \ {None} : d = Frame(y)
    <3>1. x = Noise /\ trouble \cap {"framing", "shared"} = {}
      BY <2>2, <2>4
    <3>2. PICK y \in Bodies \ {None} : t = Frame(y)
      BY <2>1, <3>1, HeadOfLine
    <3>3. d = Frame(Noise) /\ Noise \in Bodies \ {None}
      BY <2>3, <3>1, <3>2, DamagedBodies, BodyKinds
    <3> QED
      BY <3>3
  <2> HIDE DEF d, what
  <2> QED
    BY <2>1, <2>3, <2>4, ArrivalBasics
<1> QED
  BY <1>1, <1>2

-----------------------------------------------------------------------------
(* The receive task reads a frame *)

\* The read index goes on.
LEMMA Consuming ==
    ASSUME Types, NEW s \in Stations, NEW slot \in Bodies, uart' = Consumed(s, slot)
    PROVE  /\ uart' \in [Stations -> Uarts]
           /\ \A p \in Stations \ {s} : uart'[p] = uart[p]
           /\ uart'[s].head = uart[s].head /\ uart'[s].bytes = uart[s].bytes
           /\ uart'[s].posts = uart[s].posts /\ uart'[s].w = uart[s].w
           /\ uart'[s].r = (uart[s].r + 1) % USIP_UART_SKB_NUM
           /\ uart'[s].unread = uart[s].unread - 1
           /\ uart'[s].skb = [uart[s].skb EXCEPT ![uart[s].r] = slot]
<1> DEFINE u == uart[s]
<1>1. u \in Uarts /\ uart \in [Stations -> Uarts]
  BY DEF Types
<1>2. uart' = [uart EXCEPT ![s] = [u EXCEPT !.skb[u.r] = slot,
                 !.r = (u.r + 1) % USIP_UART_SKB_NUM, !.unread = u.unread - 1]]
  BY <1>1 DEF Consumed
<1> HIDE DEF u
<1> DEFINE z == [u EXCEPT !.skb[u.r] = slot,
                          !.r = (u.r + 1) % USIP_UART_SKB_NUM, !.unread = u.unread - 1]
<1>3. /\ u.r \in Slots /\ u.skb \in [Slots -> Bodies] /\ u.unread - 1 \in Int
      /\ (u.r + 1) % USIP_UART_SKB_NUM \in Slots
  BY <1>1, Numbers DEF Uarts
<1>4. [u.skb EXCEPT ![u.r] = slot] \in [Slots -> Bodies]
  BY <1>3
<1>5. /\ z.head = u.head /\ z.bytes = u.bytes /\ z.posts = u.posts /\ z.w = u.w
      /\ z.r = (u.r + 1) % USIP_UART_SKB_NUM /\ z.unread = u.unread - 1
      /\ z.skb = [u.skb EXCEPT ![u.r] = slot]
  BY <1>1 DEF Uarts
<1>6. z \in Uarts
  BY <1>1, <1>3, <1>4 DEF Uarts
<1> HIDE DEF z
<1>7. uart' = [uart EXCEPT ![s] = z]
  BY <1>2 DEF z
<1> QED
  BY <1>1, <1>5, <1>6, <1>7 DEF u

\* usip_rec_task lists a node, and delivers the list after the last package.
LEMMA Listings ==
    ASSUME Types, NEW s \in Stations, NEW node \in Nodes, NEW flag \in BOOLEAN,
           Listed(s, node, flag)
    PROVE  /\ list' \in [Stations -> Seq(Nodes)]
           /\ last_rcvd' \in [Stations -> BOOLEAN]
           /\ got' \in [Stations -> Seq(Seq(Nodes))]
           /\ \A p \in Stations \ {s} :
                list'[p] = list[p] /\ last_rcvd'[p] = last_rcvd[p] /\ got'[p] = got[p]
           /\ ~last_rcvd'[s]
           /\ list'[s] = IF flag THEN << >> ELSE Append(list[s], node)
           /\ got'[s] = IF flag
                        THEN Append(got[s], get_data_frame_list(Append(list[s], node)))
                        ELSE got[s]
<1> DEFINE q == Append(list[s], node)
<1>1. q \in Seq(Nodes)
  BY DEF Types
<1>2. get_data_frame_list(q) \in Seq(Nodes)
  <2>1. Blank \in Nodes
    BY DEF Blank, Nodes
  <2> HIDE DEF q
  <2> QED
    BY <1>1, DataOfList
<1> HIDE DEF q
<1>3. CASE flag
  <2>1. /\ got' = [got EXCEPT ![s] = Append(@, get_data_frame_list(q))]
        /\ list' = [list EXCEPT ![s] = << >>]
        /\ last_rcvd' = [last_rcvd EXCEPT ![s] = FALSE]
    BY <1>3 DEF Listed, q
  <2>2. Append(got[s], get_data_frame_list(q)) \in Seq(Seq(Nodes))
    BY <1>2 DEF Types
  <2> QED
    BY <1>3, <2>1, <2>2 DEF Types, q
<1>4. CASE ~flag
  <2>1. /\ got' = got /\ list' = [list EXCEPT ![s] = q]
        /\ last_rcvd' = [last_rcvd EXCEPT ![s] = FALSE]
    BY <1>4 DEF Listed, q
  <2> QED
    BY <1>1, <1>4, <2>1 DEF Types, q
<1> QED
  BY <1>3, <1>4

\* The data that a node holds, and its ack.
LEMMA DataBody ==
    ASSUME NEW d \in Bodies, d.kind = "data"
    PROVE  /\ d.seq \in 0 .. USIP_SEQ_MAX /\ Ack(d.seq) \in Bodies \ {None}
           /\ Ack(d.seq).kind = "ack"
           /\ d.last \in BOOLEAN /\ d.bytes \in BOOLEAN
           /\ [msg |-> d.msg, pkg |-> d.pkg] \in Nodes
           /\ [msg |-> d.msg, pkg |-> d.pkg] # Blank
<1>1. PICK q \in 0 .. USIP_SEQ_MAX, m \in 1 .. MaxSent,
           p \in UNION {0 .. LastPackage(n) : n \in Sizes},
           l \in BOOLEAN, b \in BOOLEAN : d = Data(q, m, p, l, b)
  <2>1. d \notin {None, Noise} /\ \A q \in 0 .. USIP_SEQ_MAX : d # Ack(q)
    BY BodyKinds
  <2> QED
    BY <2>1 DEF Bodies
<1>2. d.seq = q /\ d.msg = m /\ d.pkg = p /\ d.last = l /\ d.bytes = b
  BY <1>1 DEF Data
<1>3. m \in Nat /\ m # 0
  BY Bounds
<1>4. p \in Nat
  <2>1. PICK n \in Sizes : p \in 0 .. LastPackage(n)
    OBVIOUS
  <2> QED
    BY <2>1
<1>5. /\ [msg |-> d.msg, pkg |-> d.pkg] \in Nodes
      /\ [msg |-> d.msg, pkg |-> d.pkg] # Blank
  BY <1>2, <1>3, <1>4 DEF Nodes, Blank
<1>6. Ack(q) \in Bodies /\ Ack(q).kind = "ack" /\ Ack(q) # None
  BY BodyKinds
<1> QED
  BY <1>2, <1>5, <1>6

\* usip_send_ack overwrites the buffer, and puts an ack on the line unless a byte
\* is just going out.
LEMMA Acking ==
    ASSUME Types, Lines, NEW s \in Stations, NEW q \in 0 .. USIP_SEQ_MAX,
           usip_send_ack(s, q)
    PROVE  /\ send_buf' \in [Stations -> Bodies] /\ send_buf'[s] = Ack(q)
           /\ snd' \in [Stations -> Senders]
           /\ \A p \in Stations \ {s} : send_buf'[p] = send_buf[p] /\ snd'[p] = snd[p]
           /\ snd'[s].pc = snd[s].pc /\ snd'[s].size = snd[s].size
           /\ snd'[s].pkg = snd[s].pkg /\ snd'[s].loop_cnt = snd[s].loop_cnt
           /\ \/ snd[s].pc = "sending" /\ line' = line
              \/ \E t : /\ Only(t, Ack(q)) /\ (snd[s].pc # "sending" => t = Frame(Ack(q)))
                        /\ line' = [line EXCEPT ![Peer(s)] = Append(@, t)]
           /\ line' \in [Stations -> Seq(Transmissions)]
<1> DEFINE a == Ack(q)
<1>0. a \in Bodies \ {None} /\ Peer(s) \in Stations
  BY Peers, BodyKinds
<1>1. /\ send_buf' = [send_buf EXCEPT ![s] = a]
      /\ \/ snd' = snd
         \/ snd' = [snd EXCEPT ![s].broken = TRUE]
  BY DEF usip_send_ack
<1>2. snd \in [Stations -> Senders] /\ send_buf \in [Stations -> Bodies]
  BY DEF Types
<1>3. /\ send_buf' \in [Stations -> Bodies] /\ send_buf'[s] = a
      /\ \A p \in Stations \ {s} : send_buf'[p] = send_buf[p]
  <2> HIDE DEF a
  <2> QED
    BY <1>0, <1>1, <1>2
<1>4. /\ snd' \in [Stations -> Senders] /\ \A p \in Stations \ {s} : snd'[p] = snd[p]
      /\ snd'[s].pc = snd[s].pc /\ snd'[s].size = snd[s].size
      /\ snd'[s].pkg = snd[s].pkg /\ snd'[s].loop_cnt = snd[s].loop_cnt
  <2>1. CASE snd' = snd
    BY <1>2, <2>1
  <2>2. CASE snd' = [snd EXCEPT ![s].broken = TRUE]
    BY <1>2, <2>2 DEF Senders
  <2> QED
    BY <1>1, <2>1, <2>2
<1>5. \/ snd[s].pc = "sending" /\ line' = line
      \/ \E t : /\ Only(t, a) /\ (snd[s].pc # "sending" => t = Frame(a))
                /\ line' = [line EXCEPT ![Peer(s)] = Append(@, t)]
  <2> DEFINE t == Frame(a)
             p1 == <<Noise>> \o Frame(a)
             p2 == <<End, Noise>> \o Frame(a)
  <2>1. Only(t, a) /\ Only(p1, a) /\ Only(p2, a)
    BY <1>0, Sendable
  <2>2. \/ line' = [line EXCEPT ![Peer(s)] = Append(@, t)]
        \/ snd[s].pc = "sending" /\ line' = line
        \/ snd[s].pc = "sending" /\ line' = [line EXCEPT ![Peer(s)] = Append(@, p1)]
        \/ snd[s].pc = "sending" /\ line' = [line EXCEPT ![Peer(s)] = Append(@, p2)]
    BY DEF usip_send_ack
  <2> HIDE DEF t, p1, p2
  <2>3. snd[s].pc # "sending" => t = Frame(a)
    BY DEF t
  <2> QED
    BY <2>1, <2>2, <2>3 DEF t
<1>6. line' \in [Stations -> Seq(Transmissions)]
  <2>1. line \in [Stations -> Seq(Transmissions)]
    BY DEF Lines
  <2>2. ASSUME NEW t, Only(t, a), line' = [line EXCEPT ![Peer(s)] = Append(@, t)]
        PROVE  line' \in [Stations -> Seq(Transmissions)]
    <3>1. t \in Transmissions
      BY <2>2 DEF Only
    <3>2. Append(line[Peer(s)], t) \in Seq(Transmissions)
      BY <1>0, <2>1, <3>1
    <3> QED
      BY <2>1, <2>2, <3>2
  <2> HIDE DEF a
  <2> QED
    BY <1>5, <2>1, <2>2
<1> QED
  BY <1>3, <1>4, <1>5, <1>6

\* So does the receive task.
LEMMA ReadBasics ==
    ASSUME Basics, NEW s \in Stations, usip_rec_task(s)
    PROVE  Basics'
<1> USE DEF Basics
<1>1. /\ rx_sem[s] = 1 /\ rx_sem' = [rx_sem EXCEPT ![s] = 0]
      /\ UNCHANGED <<g_seq, g_wait_seq, sent, result>>
      /\ trouble \subseteq trouble'
  BY DEF usip_rec_task, read_bad_frame, read_ack, read_data, TakeToken, sender, history
<1>2. /\ uart[s] \in Uarts /\ Slot(s) \in Bodies /\ None \in Bodies /\ Blank \in Nodes
  BY BodyKinds DEF Types, Uarts, Slot, Blank, Nodes
<1>3. rx_sem' \in [Stations -> 0 .. 1]
  BY <1>1 DEF Types
<1>4. ASSUME uart' \in [Stations -> Uarts], snd' \in [Stations -> Senders],
             send_buf' \in [Stations -> Bodies],
             \A p \in Stations : /\ uart'[p].posts = uart[p].posts
                                 /\ uart'[p].head = uart[p].head
                                 /\ snd'[p].pc = snd[p].pc /\ snd'[p].size = snd[p].size
                                 /\ snd'[p].pkg = snd[p].pkg
                                 /\ snd'[p].loop_cnt = snd[p].loop_cnt
                                 /\ send_buf[p] # None => send_buf'[p] # None
      PROVE  Calls'
  <2> SUFFICES ASSUME NEW p \in Stations PROVE Call(p)'
    BY DEF Calls
  <2>1. Call(p)
    BY DEF Calls
  <2> HIDE DEF Basics
  <2> QED
    BY <1>1, <1>4, <2>1 DEF Call
<1>5. CASE read_bad_frame(s)
  <2>1. /\ uart' = Consumed(s, None) /\ Listed(s, Blank, last_rcvd[s])
        /\ UNCHANGED <<snd, send_buf, ack_sem, line, taken>>
    BY <1>5 DEF read_bad_frame, sender
  <2>2. last_rcvd[s] \in BOOLEAN
    BY DEF Types
  <2>3. /\ uart' \in [Stations -> Uarts]
        /\ \A p \in Stations : uart'[p].posts = uart[p].posts /\ uart'[p].head = uart[p].head
    BY <1>2, <2>1, Consuming
  <2>4. /\ list' \in [Stations -> Seq(Nodes)] /\ last_rcvd' \in [Stations -> BOOLEAN]
        /\ got' \in [Stations -> Seq(Seq(Nodes))]
    BY <1>2, <2>1, <2>2, Listings
  <2>5. Types'
    BY <1>1, <1>3, <2>1, <2>3, <2>4 DEF Types
  <2>6. Calls'
    BY <1>4, <2>1, <2>3 DEF Types
  <2>7. Lines' /\ Framed'
    BY <1>1, <2>1, <2>3 DEF Lines, Framed
  <2> QED
    BY <2>5, <2>6, <2>7
<1>6. CASE read_ack(s)
  <2>1. /\ UNCHANGED <<snd, send_buf, line, taken>>
        /\ \/ /\ ack_sem' = [ack_sem EXCEPT ![s] = 1]
              /\ uart' = Consumed(s, None)
              /\ last_rcvd' = [last_rcvd EXCEPT ![s] = FALSE]
              /\ UNCHANGED <<list, got>>
           \/ Listed(s, Blank, FALSE) /\ UNCHANGED <<ack_sem, uart>>
    BY <1>6 DEF read_ack, sender
  <2>2. ack_sem' \in [Stations -> 0 .. 1]
    <3>1. ack_sem \in [Stations -> 0 .. 1]
      BY DEF Types
    <3>2. CASE ack_sem' = ack_sem
      BY <3>1, <3>2
    <3>3. CASE ack_sem' = [ack_sem EXCEPT ![s] = 1]
      BY <3>1, <3>3
    <3> QED
      BY <2>1, <3>2, <3>3
  <2>3. /\ uart' \in [Stations -> Uarts]
        /\ \A p \in Stations : uart'[p].posts = uart[p].posts /\ uart'[p].head = uart[p].head
    <3>1. CASE uart' = uart
      BY <3>1 DEF Types
    <3>2. CASE uart' = Consumed(s, None)
      BY <1>2, <3>2, Consuming
    <3> QED
      BY <2>1, <3>1, <3>2
  <2>4. /\ list' \in [Stations -> Seq(Nodes)] /\ last_rcvd' \in [Stations -> BOOLEAN]
        /\ got' \in [Stations -> Seq(Seq(Nodes))]
    <3>1. CASE Listed(s, Blank, FALSE)
      BY <1>2, <3>1, Listings
    <3>2. CASE last_rcvd' = [last_rcvd EXCEPT ![s] = FALSE] /\ UNCHANGED <<list, got>>
      BY <3>2 DEF Types
    <3> QED
      BY <2>1, <3>1, <3>2
  <2>5. Types'
    BY <1>1, <1>3, <2>1, <2>2, <2>3, <2>4 DEF Types
  <2>6. Calls'
    BY <1>4, <2>1, <2>3 DEF Types
  <2>7. Lines' /\ Framed'
    BY <1>1, <2>1, <2>3 DEF Lines, Framed
  <2> QED
    BY <2>5, <2>6, <2>7
<1>7. CASE read_data(s)
  <2> DEFINE d == Slot(s)
             node == [msg |-> d.msg, pkg |-> d.pkg]
             flag == d.last \/ last_rcvd[s]
  <2>1. /\ d.kind = "data" /\ usip_send_ack(s, d.seq) /\ uart' = Consumed(s, d)
        /\ UNCHANGED ack_sem
        /\ taken' = [taken EXCEPT ![s] = @ \cup {node}]
        /\ \/ Listed(s, node, flag)
           \/ last_rcvd' = [last_rcvd EXCEPT ![s] = flag] /\ UNCHANGED <<list, got>>
        /\ snd[s].pc \in {"convert", "sending"} => "shared" \in trouble'
    BY <1>7 DEF read_data, AckSeq
  <2>2. /\ d.seq \in 0 .. USIP_SEQ_MAX /\ Ack(d.seq) \in Bodies \ {None}
        /\ node \in Nodes /\ d.last \in BOOLEAN /\ last_rcvd[s] \in BOOLEAN
    BY <1>2, <2>1, DataBody DEF Types
  <2>3. /\ uart' \in [Stations -> Uarts]
        /\ \A p \in Stations : uart'[p].posts = uart[p].posts /\ uart'[p].head = uart[p].head
    BY <1>2, <2>1, Consuming
  <2>4. /\ send_buf' \in [Stations -> Bodies] /\ send_buf'[s] = Ack(d.seq)
        /\ snd' \in [Stations -> Senders]
        /\ \A p \in Stations \ {s} : send_buf'[p] = send_buf[p] /\ snd'[p] = snd[p]
        /\ snd'[s].pc = snd[s].pc /\ snd'[s].size = snd[s].size
        /\ snd'[s].pkg = snd[s].pkg /\ snd'[s].loop_cnt = snd[s].loop_cnt
        /\ \/ snd[s].pc = "sending" /\ line' = line
           \/ \E t : /\ Only(t, Ack(d.seq)) /\ (snd[s].pc # "sending" => t = Frame(Ack(d.seq)))
                     /\ line' = [line EXCEPT ![Peer(s)] = Append(@, t)]
        /\ line' \in [Stations -> Seq(Transmissions)]
    BY <2>1, <2>2, Acking
  <2>5. /\ list' \in [Stations -> Seq(Nodes)] /\ last_rcvd' \in [Stations -> BOOLEAN]
        /\ got' \in [Stations -> Seq(Seq(Nodes))]
    <3>1. flag \in BOOLEAN
      BY <2>2
    <3> HIDE DEF node, flag
    <3>2. CASE Listed(s, node, flag)
      BY <2>2, <3>1, <3>2, Listings
    <3>3. CASE last_rcvd' = [last_rcvd EXCEPT ![s] = flag] /\ UNCHANGED <<list, got>>
      BY <3>1, <3>3 DEF Types
    <3> QED
      BY <2>1, <3>2, <3>3
  <2>6. taken' \in [Stations -> SUBSET Nodes]
    <3> HIDE DEF node
    <3> QED
      BY <2>1, <2>2 DEF Types
  <2>7. Types'
    BY <1>1, <1>3, <2>1, <2>3, <2>4, <2>5, <2>6 DEF Types
  <2>8. Calls'
    BY <1>4, <2>2, <2>3, <2>4
  <2>9. Lines'
    BY <2>4 DEF Lines
  <2>10. Framed'
    <3> SUFFICES ASSUME trouble' \cap {"framing", "shared"} = {}, NEW p \in Stations
                 PROVE  /\ ~uart'[p].head
                        /\ \A i \in DOMAIN line'[p] : \E x \in Bodies \ {None} :
                             line'[p][i] = Frame(x)
      BY DEF Framed
    <3>1. /\ ~uart[p].head /\ line[p] \in Seq(Transmissions)
          /\ \A i \in DOMAIN line[p] : \E x \in Bodies \ {None} : line[p][i] = Frame(x)
      BY <1>1 DEF Framed, Lines
    <3>2. line' = [line EXCEPT ![Peer(s)] = Append(@, Frame(Ack(d.seq)))]
      <4>1. snd[s].pc # "sending"
        BY <2>1
      <4>2. PICK t : /\ snd[s].pc # "sending" => t = Frame(Ack(d.seq))
                     /\ line' = [line EXCEPT ![Peer(s)] = Append(@, t)]
        BY <2>4, <4>1
      <4> QED
        BY <4>1, <4>2
    <3>3. CASE p = Peer(s)
      <4>1. line'[p] = Append(line[p], Frame(Ack(d.seq)))
        BY <3>2, <3>3 DEF Lines
      <4> QED
        BY <2>2, <2>3, <3>1, <4>1, AppendedAll
    <3>4. CASE p # Peer(s)
      <4>1. line'[p] = line[p]
        BY <3>2, <3>4 DEF Lines
      <4> QED
        BY <2>3, <3>1, <4>1
    <3> QED
      BY <3>3, <3>4
  <2> QED
    BY <2>7, <2>8, <2>9, <2>10
<1> QED
  BY <1>5, <1>6, <1>7 DEF usip_rec_task

\* So every step does.
LEMMA StepBasics ==
    ASSUME Basics, [Next]_vars
    PROVE  Basics'
<1>1. CASE UNCHANGED vars
  BY <1>1 DEF vars, sender, receiver, history, Basics, Types, Lines, Calls, Call, Framed
<1>2. ASSUME NEW s \in Stations, NEW size \in Sizes, usip_send_data(s, size)
      PROVE  Basics'
  BY <1>2, SendDataBasics
<1>3. ASSUME NEW s \in Stations, usip_send_tlv(s) PROVE Basics'
  BY <1>3, ConvertBasics, FrameSentBasics, WaitAckBasics DEF usip_send_tlv
<1>4. ASSUME NEW s \in Stations,
             receive_one_byte(s) \/ \E x \in {Noise, BadEsc, End} : line_fault(s, x)
      PROVE  Basics'
  BY <1>4, ReceiveBasics
<1>5. ASSUME NEW s \in Stations, usip_rec_task(s) PROVE Basics'
  BY <1>5, ReadBasics
<1> QED
  BY <1>1, <1>2, <1>3, <1>4, <1>5 DEF Next

-----------------------------------------------------------------------------
(* A package and its ack go round while acks are awaited *)

\* What is not on the line may be anything.
LEMMA NoneOfThem ==
    ASSUME NEW q, NEW kind, ~Some(q, kind)
    PROVE  Once(q, kind) /\ \A x : AllAre(q, kind, x)
BY DEF Some, Once, AllAre, Carries

\* A station that a step does not concern.
LEMMA GoingElsewhere ==
    ASSUME NEW p \in Stations, Going(p),
           UNCHANGED <<line, uart, rx_sem, taken>>,
           snd'[p] = snd[p], send_buf'[p] = send_buf[p], g_wait_seq'[p] = g_wait_seq[p],
           ack_sem'[p] = ack_sem[p], sent'[p] = sent[p], result'[p] = result[p]
    PROVE  Going(p)'
<1>1. /\ DataOnLine(p)' <=> DataOnLine(p)
      /\ DataInSlot(p)' <=> DataInSlot(p)
      /\ AckOnLine(p)' <=> AckOnLine(p)
      /\ AckInSlot(p)' <=> AckInSlot(p)
      /\ AckSeen(p)' <=> AckSeen(p)
      /\ Acked(p)' <=> Acked(p)
  BY DEF DataOnLine, DataInSlot, AckOnLine, AckInSlot, AckSeen, Acked, Slot
<1>2. Package(p)' = Package(p) /\ Slot(p)' = Slot(p) /\ Slot(Peer(p))' = Slot(Peer(p))
  BY DEF Package, Slot
<1>3. OneOfThem(p)'
  BY <1>1 DEF Going, OneOfThem
<1>4. RightOnes(p)'
  BY <1>1, <1>2 DEF Going, RightOnes
<1>5. Received(p)'
  <2>1. /\ \A k : Current(p, k)' = Current(p, k)
        /\ \A m : Packages(p, m)' = Packages(p, m)
    BY DEF Current, Packages
  <2> QED
    BY <1>1, <2>1 DEF Going, Received
<1> QED
  BY <1>3, <1>4, <1>5 DEF Going

\* Nothing of s is under way.
Nothing(s) ==
    /\ ~DataOnLine(s) /\ ~DataInSlot(s) /\ ~AckOnLine(s) /\ ~AckInSlot(s) /\ ~AckSeen(s)

\* Nothing comes under way while line, slots and semaphore stay.
LEMMA NothingGoes ==
    ASSUME NEW s \in Stations, Nothing(s), UNCHANGED <<line, uart, rx_sem>>,
           ack_sem'[s] = ack_sem[s]
    PROVE  Nothing(s)' /\ OneOfThem(s)' /\ ~Acked(s)'
           /\ (\A x : AllAre(line'[Peer(s)], "data", x) /\ AllAre(line'[s], "ack", x))
<1>1. Nothing(s)'
  BY DEF Nothing, DataOnLine, DataInSlot, AckOnLine, AckInSlot, AckSeen, Slot
<1>2. ~Some(line'[Peer(s)], "data") /\ ~Some(line'[s], "ack")
  BY <1>1 DEF Nothing, DataOnLine, AckOnLine
<1>3. /\ Once(line'[Peer(s)], "data") /\ Once(line'[s], "ack")
      /\ \A x : AllAre(line'[Peer(s)], "data", x) /\ AllAre(line'[s], "ack", x)
  BY <1>2, NoneOfThem
<1>4. ~Acked(s)'
  BY <1>1 DEF Nothing, Acked
<1> QED
  BY <1>1, <1>3, <1>4 DEF Nothing, OneOfThem

\* The task is not waiting: nothing of it is under way.
LEMMA NothingWhile ==
    ASSUME Types, NEW s \in Stations, OneOfThem(s), snd[s].pc # "wait"
    PROVE  Nothing(s)
BY DEF OneOfThem, Nothing, Acked

\* Every result belongs to a message.
LEMMA ReceivedPackages ==
    ASSUME Types, Calls, NEW s \in Stations, NEW m \in DOMAIN result[s]
    PROVE  m \in DOMAIN sent[s] /\ m \in 1 .. Len(result[s])
<1>1. /\ Len(result[s]) \in Nat /\ Len(sent[s]) \in Nat
      /\ DOMAIN result[s] = 1 .. Len(result[s]) /\ DOMAIN sent[s] = 1 .. Len(sent[s])
  BY LenProperties DEF Types
<1>2. Len(sent[s]) = Len(result[s]) + (IF snd[s].pc = "idle" THEN 0 ELSE 1)
  BY DEF Calls, Call
<1> DEFINE a == Len(sent[s])
           b == Len(result[s])
<1>3. a \in Nat /\ b \in Nat /\ (a = b + 0 \/ a = b + 1) /\ m \in 1 .. b
  BY <1>1, <1>2
<1> HIDE DEF a, b
<1>4. m \in 1 .. a
  BY <1>3
<1> QED
  BY <1>1, <1>4 DEF a

\* A call begins with nothing under way.
LEMMA SendDataGoing ==
    ASSUME Basics, NEW s \in Stations, NEW size \in Sizes, usip_send_data(s, size),
           Going(s)
    PROVE  Going(s)'
<1> USE DEF Basics
<1>1. /\ snd' = [snd EXCEPT ![s] = [pc |-> "convert", size |-> size, pkg |-> 0,
                                    loop_cnt |-> 0, broken |-> FALSE]]
      /\ sent' = [sent EXCEPT ![s] = Append(@, size)]
      /\ snd[s].pc = "idle"
      /\ UNCHANGED <<send_buf, ack_sem, line, uart, rx_sem, taken, result>>
  BY DEF usip_send_data, receiver
<1>2. Nothing(s)
  BY <1>1, NothingWhile DEF Going
<1>3. /\ Nothing(s)' /\ OneOfThem(s)' /\ ~Acked(s)'
      /\ \A x : AllAre(line'[Peer(s)], "data", x) /\ AllAre(line'[s], "ack", x)
  BY <1>1, <1>2, NothingGoes
<1>4. snd'[s].pc = "convert" /\ snd'[s].pkg = 0
  BY <1>1 DEF Types
<1>5. RightOnes(s)'
  BY <1>3, <1>4 DEF RightOnes, Nothing
<1>6. Received(s)'
  <2>1. ASSUME NEW m \in DOMAIN result[s] PROVE Packages(s, m)' = Packages(s, m)
    <3>1. m \in DOMAIN sent[s] /\ sent[s] \in Seq(Sizes)
      BY ReceivedPackages DEF Types
    <3>2. sent'[s] = Append(sent[s], size)
      BY <1>1 DEF Types
    <3>3. sent'[s][m] = sent[s][m]
      BY <3>1, <3>2, AppendProperties, LenProperties
    <3> QED
      BY <3>3 DEF Packages
  <2>2. \A p \in 0 .. 0 - 1 : FALSE
    OBVIOUS
  <2> QED
    BY <1>1, <1>3, <1>4, <2>1, <2>2 DEF Going, Received
<1> QED
  BY <1>3, <1>5, <1>6 DEF Going

\* Nothing comes under way while the frame is built, or before it is sent again.
LEMMA ConvertGoing ==
    ASSUME Basics, NEW s \in Stations, Going(s), Nothing(s),
           convert_tlv_to_usip_frame(s) \/ send_one_frame(s) \/ wait_timeout(s)
    PROVE  Going(s)'
<1> USE DEF Basics
<1>0. snd[s] \in Senders /\ snd \in [Stations -> Senders]
  BY DEF Types
<1>1. /\ UNCHANGED <<g_wait_seq, ack_sem, line, uart, rx_sem, taken, sent, result>>
      /\ snd'[s].size = snd[s].size /\ snd'[s].pkg = snd[s].pkg
      /\ \/ send_buf'[s] \in {Package(s), Noise}
         \/ snd[s].pc \in {"send", "wait"} /\ send_buf' = send_buf
  <2>1. CASE convert_tlv_to_usip_frame(s)
    <3>1. /\ snd' = [snd EXCEPT ![s].pc = "send", ![s].broken = FALSE]
          /\ send_buf' = [send_buf EXCEPT
                            ![s] = IF snd[s].broken THEN Noise ELSE Package(s)]
      BY <2>1 DEF convert_tlv_to_usip_frame
    <3>2. send_buf'[s] \in {Package(s), Noise}
      BY <3>1 DEF Types
    <3>3. snd'[s].size = snd[s].size /\ snd'[s].pkg = snd[s].pkg
      BY <1>0, <3>1 DEF Senders
    <3> QED
      BY <2>1, <3>2, <3>3 DEF convert_tlv_to_usip_frame, receiver, history
  <2>2. CASE send_one_frame(s)
    <3>1. /\ snd' = [snd EXCEPT ![s].pc = "sending", ![s].broken = FALSE]
      BY <2>2 DEF send_one_frame
    <3>3. snd'[s].size = snd[s].size /\ snd'[s].pkg = snd[s].pkg
      BY <1>0, <3>1 DEF Senders
    <3> QED
      BY <2>2, <3>3 DEF send_one_frame, receiver, history
  <2>3. CASE wait_timeout(s)
    <3>1. snd' = [snd EXCEPT ![s].pc = "send", ![s].loop_cnt = @ + 1]
      BY <2>3 DEF wait_timeout
    <3>3. snd'[s].size = snd[s].size /\ snd'[s].pkg = snd[s].pkg
      BY <1>0, <3>1 DEF Senders
    <3> QED
      BY <2>3, <3>3 DEF wait_timeout, receiver, history
  <2> QED
    BY <2>1, <2>2, <2>3
<1>2. /\ Nothing(s)' /\ OneOfThem(s)' /\ ~Acked(s)'
      /\ \A x : AllAre(line'[Peer(s)], "data", x) /\ AllAre(line'[s], "ack", x)
  BY <1>1, NothingGoes
<1>3. Package(s)' = Package(s)
  BY <1>1 DEF Package
<1>4. Noise.kind # "data"
  BY BodyKinds
<1>5. RightOnes(s)'
  BY <1>1, <1>2, <1>3, <1>4 DEF Going, RightOnes, Nothing
<1>6. Received(s)'
  <2>1. /\ \A k : Current(s, k)' = Current(s, k)
        /\ \A m : Packages(s, m)' = Packages(s, m)
    BY <1>1 DEF Current, Packages
  <2> QED
    BY <1>1, <1>2, <2>1 DEF Going, Received
<1> QED
  BY <1>2, <1>5, <1>6 DEF Going

\* Without "late" a timeout means that nothing is under way.
LEMMA NoneLate ==
    ASSUME Types, NEW s \in Stations, wait_timeout(s), "late" \notin trouble',
           Window(s)
    PROVE  Nothing(s)
<1>1. Quiet /\ ack_sem[s] = 0 /\ Peer(s) \in Stations
  BY Peers DEF wait_timeout
<1>2. line[s] = << >> /\ line[Peer(s)] = << >> /\ rx_sem[s] = 0 /\ rx_sem[Peer(s)] = 0
  BY <1>1 DEF Quiet
<1>3. Slot(s).kind # "ack"
  BY <1>2 DEF Window, Slot, Types, Uarts
<1> QED
  BY <1>1, <1>2, <1>3
     DEF Nothing, DataOnLine, DataInSlot, AckOnLine, AckInSlot, AckSeen, Some

\* The ack that is taken is under way no more.
LEMMA WaitAckGoing ==
    ASSUME Basics, NEW s \in Stations, wait_ack(s), Going(s)
    PROVE  Going(s)'
<1> USE DEF Basics
<1>1. /\ UNCHANGED <<g_wait_seq, send_buf, line, uart, rx_sem, taken, sent>>
      /\ ack_sem' = [ack_sem EXCEPT ![s] = 0]
      /\ snd[s].pc = "wait" /\ ack_sem[s] = 1
      /\ IF snd[s].pkg = LastPackage(snd[s].size) THEN Return(s, "ok")
         ELSE /\ snd' = [snd EXCEPT ![s].pc = "convert", ![s].pkg = @ + 1,
                                    ![s].loop_cnt = 0]
              /\ UNCHANGED result
  BY DEF wait_ack, receiver
<1>2. /\ snd \in [Stations -> Senders] /\ ack_sem'[s] = 0 /\ snd[s].pkg \in Nat
  BY <1>1 DEF Types, Senders
<1>3. /\ AckSeen(s) /\ Acked(s) /\ ~DataOnLine(s) /\ ~DataInSlot(s) /\ ~AckOnLine(s)
      /\ ~AckInSlot(s)
  BY <1>1 DEF Going, OneOfThem, AckSeen, Acked
<1>4. Nothing(s)'
  BY <1>1, <1>2, <1>3
     DEF Nothing, DataOnLine, DataInSlot, AckOnLine, AckInSlot, AckSeen, Slot
<1>5. /\ OneOfThem(s)' /\ ~Acked(s)'
      /\ \A x : AllAre(line'[Peer(s)], "data", x) /\ AllAre(line'[s], "ack", x)
  <2>1. ~Some(line'[Peer(s)], "data") /\ ~Some(line'[s], "ack")
    BY <1>4 DEF Nothing, DataOnLine, AckOnLine
  <2>2. /\ Once(line'[Peer(s)], "data") /\ Once(line'[s], "ack")
        /\ \A x : AllAre(line'[Peer(s)], "data", x) /\ AllAre(line'[s], "ack", x)
    BY <2>1, NoneOfThem
  <2>3. ~Acked(s)'
    BY <1>4 DEF Nothing, Acked
  <2> QED
    BY <1>4, <2>2, <2>3 DEF Nothing, OneOfThem
<1>6. /\ Current(s, snd[s].pkg) \in taken[Peer(s)]
      /\ \A p \in 0 .. snd[s].pkg - 1 : Current(s, p) \in taken[Peer(s)]
      /\ \A m \in DOMAIN result[s] :
           result[s][m] = "ok" => Packages(s, m) \subseteq taken[Peer(s)]
  BY <1>3 DEF Going, Received
<1>7. /\ \A k : Current(s, k)' = Current(s, k)
      /\ \A m : Packages(s, m)' = Packages(s, m)
  BY <1>1 DEF Current, Packages
<1>8. ASSUME NEW p \in 0 .. snd[s].pkg PROVE Current(s, p) \in taken[Peer(s)]
  <2>1. CASE p = snd[s].pkg
    BY <1>6, <2>1
  <2>2. CASE p # snd[s].pkg
    <3>1. p \in 0 .. snd[s].pkg - 1
      BY <1>2, <2>2
    <3> QED
      BY <1>6, <3>1
  <2> QED
    BY <2>1, <2>2
<1>9. CASE snd[s].pkg = LastPackage(snd[s].size)
  <2>1. /\ snd'[s] = [pc |-> "idle", size |-> 0, pkg |-> 0, loop_cnt |-> 0,
                      broken |-> FALSE]
        /\ result'[s] = Append(result[s], "ok") /\ result[s] \in Seq(Codes)
    <3>1. Return(s, "ok") /\ "ok" \in Codes /\ snd[s].pc # "idle"
      BY <1>1, <1>9 DEF Codes
    <3> QED
      BY <1>1, <3>1, Returned DEF Types
  <2>2. snd'[s].pc = "idle" /\ snd'[s].pkg = 0
    BY <2>1
  <2>3. RightOnes(s)'
    BY <1>4, <1>5, <2>2 DEF RightOnes, Nothing
  <2>4. ASSUME NEW m \in DOMAIN result'[s], result'[s][m] = "ok"
        PROVE  Packages(s, m) \subseteq taken[Peer(s)]
    <3> DEFINE n == Len(result[s])
    <3>1. /\ n \in Nat /\ DOMAIN result[s] = 1 .. n /\ m \in 1 .. n + 1
          /\ \A i \in 1 .. n : result'[s][i] = result[s][i]
      BY <2>1, <2>4, AppendProperties, LenProperties DEF Codes
    <3>2. n + 1 = Len(sent[s]) /\ snd[s].size = sent[s][Len(sent[s])]
      BY <1>1, CurrentCall
    <3> HIDE DEF n
    <3>3. CASE m \in 1 .. n
      BY <1>6, <2>4, <3>1, <3>3
    <3>4. CASE m = n + 1
      <4>1. Packages(s, m) = {Current(s, p) : p \in 0 .. snd[s].pkg}
        BY <1>9, <3>2, <3>4 DEF Packages, Current, LastPackage
      <4> QED
        BY <1>8, <4>1
    <3> QED
      BY <3>1, <3>3, <3>4
  <2>5. \A p \in 0 .. 0 - 1 : FALSE
    OBVIOUS
  <2>6. Received(s)'
    BY <1>1, <1>5, <1>7, <2>2, <2>4, <2>5 DEF Received
  <2> QED
    BY <1>5, <2>3, <2>6 DEF Going
<1>10. CASE snd[s].pkg # LastPackage(snd[s].size)
  <2>1. /\ snd' = [snd EXCEPT ![s].pc = "convert", ![s].pkg = snd[s].pkg + 1,
                              ![s].loop_cnt = 0]
        /\ UNCHANGED result
    BY <1>1, <1>10
  <2>2. snd'[s].pc = "convert" /\ snd'[s].pkg = snd[s].pkg + 1
    BY <1>2, <2>1 DEF Senders
  <2>3. RightOnes(s)'
    BY <1>4, <1>5, <2>2 DEF RightOnes, Nothing
  <2>4. snd'[s].pkg - 1 = snd[s].pkg
    BY <1>2, <2>2
  <2>5. Received(s)'
    BY <1>1, <1>5, <1>6, <1>7, <1>8, <2>1, <2>4 DEF Received
  <2> QED
    BY <1>5, <2>3, <2>5 DEF Going
<1> QED
  BY <1>9, <1>10

\* The package goes out.
LEMMA FrameSentGoing ==
    ASSUME Basics, NEW s \in Stations, frame_sent(s), ~LastTry(s),
           Going(s), Going(Peer(s))
    PROVE  Going(s)' /\ Going(Peer(s))'
<1> USE DEF Basics
<1> DEFINE p == Peer(s)
           t == Transmission(s)
<1>1. /\ UNCHANGED <<g_wait_seq, send_buf, ack_sem, uart, rx_sem, taken, sent, result>>
      /\ line' = [line EXCEPT ![p] = Append(@, t)]
      /\ snd[s].pc = "sending" /\ snd' = [snd EXCEPT ![s].pc = "wait"]
  BY DEF frame_sent, receiver
<1>2. /\ p \in Stations /\ p # s /\ Peer(p) = s
      /\ send_buf[s] \in Bodies \ {None} /\ snd \in [Stations -> Senders]
      /\ line \in [Stations -> Seq(Transmissions)]
  BY <1>1, Peers DEF Types, Lines, Calls, Call
<1>3. /\ snd'[s].pc = "wait" /\ snd'[s].pkg = snd[s].pkg /\ snd'[s].size = snd[s].size
      /\ snd'[p] = snd[p]
      /\ line'[p] = Append(line[p], t) /\ line'[s] = line[s]
  BY <1>1, <1>2 DEF Senders
<1>4. /\ t \in Transmissions
      /\ \/ Only(t, send_buf[s]) /\ send_buf[s].kind # "ack"
         \/ Only(t, Noise)
  BY <1>2, Transmitted
<1>5. Nothing(s)
  BY <1>1, NothingWhile DEF Going
<1>6. Noise.kind \notin {"data", "ack"}
  BY BodyKinds
<1>7. Package(s)' = Package(s) /\ (send_buf[s].kind = "data" => send_buf[s] = Package(s))
  BY <1>1, <1>3 DEF Package, Going, RightOnes
<1> HIDE DEF t, p
<1>8. /\ \A j \in DOMAIN t : t[j].kind = "data" => t[j] = Package(s)
      /\ ~Carries(t, "ack")
  BY <1>4, <1>6, <1>7, Readable
<1>9. /\ Once(line[p], "data") /\ ~Some(line[p], "data") /\ AllAre(line[p], "data", Package(s))
      /\ Once(line[s], "ack") /\ ~Some(line[s], "ack")
  BY <1>5, NoneOfThem DEF p, Nothing, DataOnLine, AckOnLine
<1>10. Once(line'[p], "data") /\ AllAre(line'[p], "data", Package(s))
  BY <1>2, <1>3, <1>4, <1>8, <1>9, Queued
<1>11. Going(s)'
  <2>1. ~DataInSlot(s)' /\ ~AckOnLine(s)' /\ ~AckInSlot(s)' /\ ~AckSeen(s)' /\ ~Acked(s)'
    BY <1>1, <1>3, <1>5
       DEF Nothing, DataInSlot, AckOnLine, AckInSlot, AckSeen, Slot, Acked
  <2>2. OneOfThem(s)'
    BY <1>3, <1>9, <1>10, <2>1 DEF OneOfThem, p
  <2>3. RightOnes(s)'
    BY <1>1, <1>3, <1>7, <1>9, <1>10, <2>1, NoneOfThem DEF RightOnes, p
  <2>4. Received(s)'
    <3>1. /\ \A k : Current(s, k)' = Current(s, k)
          /\ \A m : Packages(s, m)' = Packages(s, m)
      BY <1>1 DEF Current, Packages
    <3> QED
      BY <1>1, <1>3, <2>1, <3>1 DEF Going, Received
  <2> QED
    BY <2>2, <2>3, <2>4 DEF Going
<1>12. Going(p)'
  <2>0. Going(p)
    BY DEF p
  <2>1. /\ Some(line'[p], "ack") <=> Some(line[p], "ack")
        /\ Once(line[p], "ack") => Once(line'[p], "ack")
        /\ \A x : AllAre(line[p], "ack", x) => AllAre(line'[p], "ack", x)
    <3>1. \A j \in DOMAIN t : t[j].kind # "ack"
      BY <1>8 DEF Carries
    <3>2. Some(line'[p], "ack") <=> Some(line[p], "ack")
      BY <1>2, <1>3, <1>4, <1>8, Queued
    <3>3. Once(line[p], "ack") => Once(line'[p], "ack")
      BY <1>2, <1>3, <1>4, <1>8, Queued
    <3>4. \A x : AllAre(line[p], "ack", x) => AllAre(line'[p], "ack", x)
      BY <1>2, <1>3, <1>4, <3>1, Queued
    <3> QED
      BY <3>2, <3>3, <3>4
  <2>2. /\ DataOnLine(p)' <=> DataOnLine(p)
        /\ DataInSlot(p)' <=> DataInSlot(p)
        /\ AckOnLine(p)' <=> AckOnLine(p)
        /\ AckInSlot(p)' <=> AckInSlot(p)
        /\ AckSeen(p)' <=> AckSeen(p)
        /\ Acked(p)' <=> Acked(p)
    BY <1>1, <1>2, <1>3, <2>1
       DEF DataOnLine, DataInSlot, AckOnLine, AckInSlot, AckSeen, Acked, Slot
  <2>3. Package(p)' = Package(p) /\ Slot(p)' = Slot(p) /\ Slot(s)' = Slot(s)
    BY <1>1, <1>3 DEF Package, Slot
  <2>4. OneOfThem(p)'
    BY <1>2, <1>3, <2>0, <2>1, <2>2 DEF Going, OneOfThem
  <2>5. RightOnes(p)'
    BY <1>1, <1>2, <1>3, <2>0, <2>1, <2>2, <2>3 DEF Going, RightOnes
  <2>6. Received(p)'
    <3>1. /\ \A k : Current(p, k)' = Current(p, k)
          /\ \A m : Packages(p, m)' = Packages(p, m)
      BY <1>1 DEF Current, Packages
    <3> QED
      BY <1>1, <1>3, <2>0, <2>2, <3>1 DEF Going, Received
  <2> QED
    BY <2>4, <2>5, <2>6 DEF Going
<1> QED
  BY <1>11, <1>12 DEF p

\* A transmission arrives at s: it may bring the package of the peer or the
\* ack that s waits for.  t is what the line made of the first transmission.
LEMMA ArrivalGoing ==
    ASSUME Basics, NEW s \in Stations, line[s] # << >>, Window(s),
           Going(s), Going(Peer(s)),
           NEW t \in Transmissions, NEW what, receive_transmission(s, t, what),
           t = Head(line[s]) \/ Only(t, Noise), "token" \notin trouble'
    PROVE  Window(s)' /\ Going(s)' /\ Going(Peer(s))'
<1> USE DEF Basics
<1> DEFINE p == Peer(s)
           h == Head(line[s])
<1>1. UNCHANGED <<snd, g_wait_seq, send_buf, ack_sem, taken, sent, result>>
  BY DEF receive_transmission, sender, receiver, history
<1>2. /\ Window(s)'
      /\ \/ rx_sem'[s] = rx_sem[s] /\ Slot(s)' \in {Slot(s), Noise}
         \/ rx_sem[s] = 0 /\ rx_sem'[s] = 1 /\ Slot(s)' \in {Noise} \cup BodiesIn(t)
  BY ArrivalWindow
<1>3. /\ p \in Stations /\ p # s /\ Peer(p) = s
      /\ line[s] \in Seq(Transmissions) /\ line \in [Stations -> Seq(Transmissions)]
  BY Peers DEF Lines
<1>4. /\ uart'[p] = uart[p] /\ rx_sem'[p] = rx_sem[p]
      /\ line'[s] = Tail(line[s]) /\ line'[p] = line[p]
  BY <1>3, TransmissionItems, Arrival
<1>5. Slot(p)' = Slot(p) /\ Package(p)' = Package(p) /\ Package(s)' = Package(s)
  BY <1>1, <1>4 DEF Slot, Package
<1>6. Noise.kind \notin {"data", "ack"} /\ rx_sem[s] \in 0 .. 1
  BY BodyKinds DEF Types
<1>7. ASSUME NEW kind \in {"data", "ack"}, NEW x, AllAre(line[s], kind, x),
             Once(line[s], kind)
      PROVE  /\ Once(line'[s], kind) /\ AllAre(line'[s], kind, x)
             /\ Some(line'[s], kind) => Some(line[s], kind) /\ ~Carries(h, kind)
             /\ Carries(h, kind) => Some(line[s], kind)
             /\ rx_sem[s] = 0 /\ rx_sem'[s] = 1 /\ Slot(s)'.kind = kind =>
                  Slot(s)' = x /\ Carries(h, kind)
             /\ rx_sem'[s] = rx_sem[s] /\ Slot(s)'.kind = kind => Slot(s)' = Slot(s)
  <2>1. /\ h \in Transmissions
        /\ Some(line[s], kind) <=> Carries(h, kind) \/ Some(Tail(line[s]), kind)
        /\ Once(Tail(line[s]), kind) /\ ~(Carries(h, kind) /\ Some(Tail(line[s]), kind))
        /\ AllAre(Tail(line[s]), kind, x)
        /\ \A j \in DOMAIN h : h[j].kind = kind => h[j] = x
    BY <1>3, <1>7, Dequeued
  <2>2. ASSUME NEW b \in BodiesIn(t), b.kind = kind PROVE b = x /\ Carries(h, kind)
    <3>1. CASE t = h
      <4>1. PICK j \in DOMAIN h : h[j] = b
        BY <3>1 DEF BodiesIn
      <4> QED
        BY <2>1, <2>2, <4>1 DEF Carries
    <3>2. CASE Only(t, Noise)
      <4>1. b = Noise
        BY <1>7, <3>2, Readable
      <4> QED
        BY <1>6, <2>2, <4>1
    <3> QED
      BY <3>1, <3>2
  <2>3. Noise.kind # kind
    BY <1>6
  <2> QED
    BY <1>2, <1>4, <2>1, <2>2, <2>3
<1> HIDE DEF p, h
<1>8. Going(s)'
  <2>0. /\ Once(line[s], "ack") /\ AllAre(line[s], "ack", Ack(g_wait_seq[s]))
    BY DEF Going, OneOfThem, RightOnes
  <2>1. /\ Once(line'[s], "ack") /\ AllAre(line'[s], "ack", Ack(g_wait_seq[s]))
        /\ Some(line'[s], "ack") => Some(line[s], "ack") /\ ~Carries(h, "ack")
        /\ Carries(h, "ack") => Some(line[s], "ack")
        /\ rx_sem[s] = 0 /\ rx_sem'[s] = 1 /\ Slot(s)'.kind = "ack" =>
             Slot(s)' = Ack(g_wait_seq[s]) /\ Carries(h, "ack")
        /\ rx_sem'[s] = rx_sem[s] /\ Slot(s)'.kind = "ack" => Slot(s)' = Slot(s)
    BY <1>7, <2>0
  <2>2. /\ DataOnLine(s)' <=> DataOnLine(s)
        /\ DataInSlot(s)' <=> DataInSlot(s)
        /\ AckSeen(s)' <=> AckSeen(s)
        /\ AckOnLine(s)' => AckOnLine(s) /\ ~Carries(h, "ack")
        /\ AckInSlot(s)' => AckInSlot(s) \/ (AckOnLine(s) /\ Carries(h, "ack"))
    BY <1>1, <1>2, <1>4, <1>5, <2>1
       DEF DataOnLine, DataInSlot, AckSeen, AckOnLine, AckInSlot, p
  <2>3. Acked(s)' => Acked(s)
    BY <2>2 DEF Acked
  <2>4. OneOfThem(s)'
    BY <1>1, <1>4, <2>1, <2>2, <2>3 DEF Going, OneOfThem, Acked, p
  <2>5. RightOnes(s)'
    <3>1. AckInSlot(s)' => Slot(s)' = Ack(g_wait_seq[s])
      BY <1>2, <2>1 DEF AckInSlot, Going, RightOnes
    <3> QED
      BY <1>1, <1>4, <1>5, <2>1, <2>2, <3>1 DEF Going, RightOnes, p
  <2>6. Received(s)'
    <3>1. /\ \A k : Current(s, k)' = Current(s, k)
          /\ \A m : Packages(s, m)' = Packages(s, m)
      BY <1>1 DEF Current, Packages
    <3> QED
      BY <1>1, <2>3, <3>1 DEF Going, Received
  <2> QED
    BY <2>4, <2>5, <2>6 DEF Going
<1>9. Going(p)'
  <2>0. Going(p) /\ Once(line[s], "data") /\ AllAre(line[s], "data", Package(p))
    BY <1>3 DEF Going, OneOfThem, RightOnes, p
  <2>1. /\ Once(line'[s], "data") /\ AllAre(line'[s], "data", Package(p))
        /\ Some(line'[s], "data") => Some(line[s], "data") /\ ~Carries(h, "data")
        /\ Carries(h, "data") => Some(line[s], "data")
        /\ rx_sem[s] = 0 /\ rx_sem'[s] = 1 /\ Slot(s)'.kind = "data" =>
             Slot(s)' = Package(p) /\ Carries(h, "data")
        /\ rx_sem'[s] = rx_sem[s] /\ Slot(s)'.kind = "data" => Slot(s)' = Slot(s)
    BY <1>7, <2>0
  <2>2. /\ AckOnLine(p)' <=> AckOnLine(p)
        /\ AckInSlot(p)' <=> AckInSlot(p)
        /\ AckSeen(p)' <=> AckSeen(p)
        /\ DataOnLine(p)' => DataOnLine(p) /\ ~Carries(h, "data")
        /\ DataInSlot(p)' => DataInSlot(p) \/ (DataOnLine(p) /\ Carries(h, "data"))
    BY <1>1, <1>2, <1>3, <1>4, <1>5, <2>1
       DEF DataOnLine, DataInSlot, AckSeen, AckOnLine, AckInSlot
  <2>3. Acked(p)' <=> Acked(p)
    BY <2>2 DEF Acked
  <2>4. OneOfThem(p)'
    BY <1>1, <1>3, <1>4, <2>0, <2>1, <2>2, <2>3 DEF Going, OneOfThem
  <2>5. RightOnes(p)'
    <3>1. DataInSlot(p)' => Slot(s)' = Package(p)
      BY <1>2, <1>3, <2>0, <2>1 DEF DataInSlot, Going, RightOnes
    <3> QED
      BY <1>1, <1>3, <1>4, <1>5, <2>0, <2>1, <2>2, <3>1 DEF Going, RightOnes
  <2>6. Received(p)'
    <3>1. /\ \A k : Current(p, k)' = Current(p, k)
          /\ \A m : Packages(p, m)' = Packages(p, m)
      BY <1>1 DEF Current, Packages
    <3> QED
      BY <1>1, <2>0, <2>3, <3>1 DEF Going, Received
  <2> QED
    BY <2>4, <2>5, <2>6 DEF Going
<1> QED
  BY <1>2, <1>8, <1>9 DEF p

\* The slot that was read is consumed: no other holds an ack.
LEMMA ReadWindow ==
    ASSUME Basics, NEW s \in Stations, Window(s), rx_sem[s] = 1,
           rx_sem' = [rx_sem EXCEPT ![s] = 0],
           NEW slot \in Bodies, slot.kind # "ack", uart' = Consumed(s, slot)
    PROVE  /\ Window(s)' /\ ~AckInSlot(s)'
           /\ \A p \in Stations \ {s} : uart'[p] = uart[p] /\ rx_sem'[p] = rx_sem[p]
           /\ rx_sem'[s] = 0
<1> DEFINE u == uart[s]
           z == uart'[s]
<1>1. /\ z \in Uarts /\ u \in Uarts
      /\ \A p \in Stations \ {s} : uart'[p] = uart[p]
      /\ z.bytes = u.bytes /\ z.w = u.w
      /\ z.r = (u.r + 1) % USIP_UART_SKB_NUM
      /\ z.unread = u.unread - 1
      /\ z.skb = [u.skb EXCEPT ![u.r] = slot]
  BY Consuming DEF Basics, Types
<1>2. /\ u.unread = rx_sem[s]
      /\ rx_sem[s] = 1 => u.w = (u.r + 1) % USIP_UART_SKB_NUM
      /\ u.bytes \in {None, Noise}
      /\ \A j \in Slots : u.skb[j].kind = "ack" => rx_sem[s] = 1 /\ j = u.r
  BY DEF Window
<1>3. rx_sem'[s] = 0 /\ \A p \in Stations \ {s} : rx_sem'[p] = rx_sem[p]
  BY DEF Basics, Types
<1> HIDE DEF u, z
<1>4. u.skb \in [Slots -> Bodies] /\ u.r \in Slots /\ z.r \in Slots
  BY <1>1 DEF Uarts
<1>5. \A j \in Slots : z.skb[j].kind # "ack"
  BY <1>1, <1>2, <1>4
<1>6. z.unread = 0 /\ z.w = z.r
  BY <1>1, <1>2
<1>7. Window(s)'
  BY <1>1, <1>2, <1>3, <1>5, <1>6 DEF Window, z
<1>8. ~AckInSlot(s)'
  BY <1>4, <1>5 DEF AckInSlot, Slot, z
<1> QED
  BY <1>1, <1>3, <1>7, <1>8

\* The station whose package s reads, or does not read, when nothing else of
\* it changes.
LEMMA GoingBeside ==
    ASSUME NEW p \in Stations, Going(p), ~DataInSlot(p), ~DataInSlot(p)',
           UNCHANGED <<line, taken>>, uart'[p] = uart[p],
           snd'[p] = snd[p], send_buf'[p] = send_buf[p], g_wait_seq'[p] = g_wait_seq[p],
           ack_sem'[p] = ack_sem[p], sent'[p] = sent[p], result'[p] = result[p]
    PROVE  Going(p)'
<1>1. /\ DataOnLine(p)' <=> DataOnLine(p)
      /\ AckOnLine(p)' <=> AckOnLine(p)
      /\ AckInSlot(p)' <=> AckInSlot(p)
      /\ AckSeen(p)' <=> AckSeen(p)
      /\ Acked(p)' <=> Acked(p)
  BY DEF DataOnLine, AckOnLine, AckInSlot, AckSeen, Acked, Slot
<1>2. Package(p)' = Package(p) /\ Slot(p)' = Slot(p)
  BY DEF Package, Slot
<1>3. OneOfThem(p)'
  BY <1>1 DEF Going, OneOfThem
<1>4. RightOnes(p)'
  BY <1>1, <1>2 DEF Going, RightOnes
<1>5. Received(p)'
  <2>1. /\ \A k : Current(p, k)' = Current(p, k)
        /\ \A m : Packages(p, m)' = Packages(p, m)
    BY DEF Current, Packages
  <2> QED
    BY <1>1, <2>1 DEF Going, Received
<1> QED
  BY <1>3, <1>4, <1>5 DEF Going

\* A damaged frame is ignored: the package is under way no more.
LEMMA ReadBadGoing ==
    ASSUME Basics, NEW s \in Stations, read_bad_frame(s),
           Window(s), Going(s), Going(Peer(s))
    PROVE  Window(s)' /\ Going(s)' /\ Going(Peer(s))'
<1> DEFINE p == Peer(s)
<1>1. /\ Slot(s) \in {None, Noise} /\ rx_sem[s] = 1
      /\ rx_sem' = [rx_sem EXCEPT ![s] = 0] /\ uart' = Consumed(s, None)
      /\ UNCHANGED <<snd, g_wait_seq, send_buf, ack_sem, line, taken, sent, result>>
  BY DEF read_bad_frame, TakeToken, sender, history
<1>2. /\ p \in Stations /\ p # s /\ Peer(p) = s /\ None \in Bodies
      /\ None.kind \notin {"ack", "data"} /\ Noise.kind \notin {"ack", "data"}
  BY Peers, BodyKinds
<1>3. /\ Window(s)' /\ ~AckInSlot(s)'
      /\ uart'[p] = uart[p] /\ rx_sem'[p] = rx_sem[p] /\ rx_sem'[s] = 0
  BY <1>1, <1>2, ReadWindow
<1>4. ~AckInSlot(s) /\ ~DataInSlot(p) /\ ~DataInSlot(p)'
  BY <1>1, <1>2, <1>3 DEF AckInSlot, DataInSlot
<1>5. Going(p)'
  BY <1>1, <1>2, <1>3, <1>4, GoingBeside
<1>6. Going(s)'
  <2>1. /\ DataOnLine(s)' <=> DataOnLine(s)
        /\ DataInSlot(s)' <=> DataInSlot(s)
        /\ AckOnLine(s)' <=> AckOnLine(s)
        /\ AckSeen(s)' <=> AckSeen(s)
        /\ Acked(s)' <=> Acked(s)
    BY <1>1, <1>3, <1>4 DEF DataOnLine, DataInSlot, AckOnLine, AckSeen, Acked, Slot
  <2>2. Package(s)' = Package(s) /\ Slot(p)' = Slot(p)
    BY <1>1, <1>3 DEF Package, Slot
  <2>3. OneOfThem(s)'
    BY <1>1, <1>3, <1>4, <2>1 DEF Going, OneOfThem
  <2>4. RightOnes(s)'
    BY <1>1, <1>3, <2>1, <2>2 DEF Going, RightOnes
  <2>5. Received(s)'
    <3>1. /\ \A k : Current(s, k)' = Current(s, k)
          /\ \A m : Packages(s, m)' = Packages(s, m)
      BY <1>1 DEF Current, Packages
    <3> QED
      BY <1>1, <2>1, <3>1 DEF Going, Received
  <2> QED
    BY <2>3, <2>4, <2>5 DEF Going
<1> QED
  BY <1>3, <1>5, <1>6

\* The ack that is read is the one that is awaited.
LEMMA ReadAckGoing ==
    ASSUME Basics, NEW s \in Stations, read_ack(s),
           Window(s), Going(s), Going(Peer(s))
    PROVE  Window(s)' /\ Going(s)' /\ Going(Peer(s))'
<1> DEFINE p == Peer(s)
<1>1. /\ AckInSlot(s) /\ Slot(s) = Ack(g_wait_seq[s])
  BY DEF read_ack, AckInSlot, Going, RightOnes
<1>2. Slot(s).seq = g_wait_seq[s]
  BY <1>1 DEF Ack
<1>3. /\ rx_sem[s] = 1 /\ rx_sem' = [rx_sem EXCEPT ![s] = 0]
      /\ uart' = Consumed(s, None) /\ ack_sem' = [ack_sem EXCEPT ![s] = 1]
      /\ UNCHANGED <<snd, g_wait_seq, send_buf, line, taken, sent, result>>
  BY <1>2 DEF read_ack, TakeToken, sender, history
<1>4. /\ p \in Stations /\ p # s /\ Peer(p) = s /\ None \in Bodies
      /\ None.kind \notin {"ack", "data"}
  BY Peers, BodyKinds
<1>5. /\ Window(s)' /\ ~AckInSlot(s)'
      /\ uart'[p] = uart[p] /\ rx_sem'[p] = rx_sem[p] /\ rx_sem'[s] = 0
  BY <1>3, <1>4, ReadWindow
<1>6. ack_sem'[s] = 1 /\ ack_sem'[p] = ack_sem[p]
  BY <1>3, <1>4 DEF Basics, Types
<1>7. ~DataInSlot(p) /\ ~DataInSlot(p)'
  BY <1>1, <1>4, <1>5 DEF AckInSlot, DataInSlot
<1>8. Going(p)'
  BY <1>3, <1>4, <1>5, <1>6, <1>7, GoingBeside
<1>9. Going(s)'
  <2>1. /\ DataOnLine(s)' <=> DataOnLine(s)
        /\ DataInSlot(s)' <=> DataInSlot(s)
        /\ AckOnLine(s)' <=> AckOnLine(s)
        /\ AckSeen(s)' /\ Acked(s)' /\ Acked(s)
    BY <1>1, <1>3, <1>5, <1>6 DEF DataOnLine, DataInSlot, AckOnLine, AckSeen, Acked, Slot
  <2>2. Package(s)' = Package(s) /\ Slot(p)' = Slot(p)
    BY <1>3, <1>5 DEF Package, Slot
  <2>3. OneOfThem(s)'
    BY <1>1, <1>3, <1>5, <2>1 DEF Going, OneOfThem
  <2>4. RightOnes(s)'
    BY <1>3, <1>5, <2>1, <2>2 DEF Going, RightOnes
  <2>5. Received(s)'
    <3>1. /\ \A k : Current(s, k)' = Current(s, k)
          /\ \A m : Packages(s, m)' = Packages(s, m)
      BY <1>3 DEF Current, Packages
    <3> QED
      BY <1>3, <2>1, <3>1 DEF Going, Received
  <2> QED
    BY <2>3, <2>4, <2>5 DEF Going
<1> QED
  BY <1>5, <1>8, <1>9

\* What read_data does to the line.
LEMMA ReadData ==
    ASSUME Basics, NEW s \in Stations, read_data(s)
    PROVE  LET d == Slot(s)
               p == Peer(s)
           IN  /\ d \in Bodies /\ d.kind = "data" /\ rx_sem[s] = 1
               /\ rx_sem' = [rx_sem EXCEPT ![s] = 0] /\ uart' = Consumed(s, d)
               /\ UNCHANGED <<g_wait_seq, ack_sem, sent, result>>
               /\ taken' = [taken EXCEPT ![s] = @ \cup {[msg |-> d.msg, pkg |-> d.pkg]}]
               /\ taken \in [Stations -> SUBSET Nodes]
               /\ send_buf'[s].kind = "ack" /\ send_buf'[p] = send_buf[p]
               /\ snd'[p] = snd[p] /\ snd'[s].pc = snd[s].pc
               /\ snd'[s].pkg = snd[s].pkg /\ snd'[s].size = snd[s].size
               /\ line'[s] = line[s] /\ line[p] \in Seq(Transmissions)
               /\ \/ snd[s].pc = "sending" /\ line'[p] = line[p]
                  \/ \E t : /\ Only(t, Ack(d.seq)) /\ line'[p] = Append(line[p], t)
                            /\ snd[s].pc # "sending" => t = Frame(Ack(d.seq))
<1> DEFINE d == Slot(s)
           p == Peer(s)
           a == Ack(d.seq)
<1>1. /\ d.kind = "data" /\ usip_send_ack(s, d.seq) /\ rx_sem[s] = 1
      /\ rx_sem' = [rx_sem EXCEPT ![s] = 0] /\ uart' = Consumed(s, d)
      /\ UNCHANGED <<g_wait_seq, ack_sem, sent, result>>
      /\ taken' = [taken EXCEPT ![s] = @ \cup {[msg |-> d.msg, pkg |-> d.pkg]}]
  BY DEF read_data, TakeToken, AckSeq, history
<1>2. d \in Bodies /\ taken \in [Stations -> SUBSET Nodes]
  BY DEF Basics, Types, Uarts, Slot
<1>3. d.seq \in 0 .. USIP_SEQ_MAX /\ a.kind = "ack"
  BY <1>1, <1>2, DataBody
<1>4. p \in Stations \ {s} /\ line \in [Stations -> Seq(Transmissions)]
  BY Peers DEF Basics, Lines
<1>5. /\ send_buf'[s] = a /\ send_buf'[p] = send_buf[p] /\ snd'[p] = snd[p]
      /\ snd'[s].pc = snd[s].pc /\ snd'[s].size = snd[s].size
      /\ snd'[s].pkg = snd[s].pkg
      /\ \/ snd[s].pc = "sending" /\ line' = line
         \/ \E t : /\ Only(t, a) /\ (snd[s].pc # "sending" => t = Frame(a))
                   /\ line' = [line EXCEPT ![p] = Append(@, t)]
  BY <1>1, <1>3, <1>4, Acking DEF Basics
<1> HIDE DEF d, p, a
<1>6. CASE snd[s].pc = "sending" /\ line' = line
  BY <1>1, <1>2, <1>3, <1>4, <1>5, <1>6 DEF d, p
<1>7. ASSUME NEW t, Only(t, a), snd[s].pc # "sending" => t = Frame(a),
             line' = [line EXCEPT ![p] = Append(@, t)]
      PROVE  /\ line'[s] = line[s]
             /\ \E tt : /\ Only(tt, a) /\ line'[p] = Append(line[p], tt)
                        /\ snd[s].pc # "sending" => tt = Frame(a)
  <2>1. line'[s] = line[s] /\ line'[p] = Append(line[p], t)
    BY <1>4, <1>7
  <2> QED
    BY <1>7, <2>1
<1>8. /\ line'[s] = line[s]
      /\ \/ snd[s].pc = "sending" /\ line'[p] = line[p]
         \/ \E t : /\ Only(t, a) /\ line'[p] = Append(line[p], t)
                   /\ snd[s].pc # "sending" => t = Frame(a)
  BY <1>5, <1>7
<1> QED
  BY <1>1, <1>2, <1>3, <1>4, <1>5, <1>8 DEF d, p, a

\* The package that is read is the current one, and its ack goes out.
LEMMA ReadDataGoing ==
    ASSUME Basics, NEW s \in Stations, read_data(s),
           Window(s), Going(s), Going(Peer(s))
    PROVE  Window(s)' /\ Going(s)' /\ Going(Peer(s))'
<1> DEFINE d == Slot(s)
           p == Peer(s)
           a == Ack(d.seq)
<1>1. /\ d \in Bodies /\ d.kind = "data" /\ rx_sem[s] = 1
      /\ rx_sem' = [rx_sem EXCEPT ![s] = 0] /\ uart' = Consumed(s, d)
      /\ UNCHANGED <<g_wait_seq, ack_sem, sent, result>>
      /\ taken' = [taken EXCEPT ![s] = @ \cup {[msg |-> d.msg, pkg |-> d.pkg]}]
      /\ taken \in [Stations -> SUBSET Nodes]
      /\ send_buf'[s].kind = "ack" /\ send_buf'[p] = send_buf[p]
      /\ snd'[p] = snd[p] /\ snd'[s].pc = snd[s].pc
      /\ snd'[s].pkg = snd[s].pkg /\ snd'[s].size = snd[s].size
      /\ line'[s] = line[s] /\ line[p] \in Seq(Transmissions)
  BY ReadData
<1>2. \/ line'[p] = line[p]
      \/ \E t : Only(t, a) /\ line'[p] = Append(line[p], t)
  BY ReadData
<1>3. p \in Stations /\ p # s /\ Peer(p) = s
  BY Peers
<1>4. /\ Window(s)' /\ ~AckInSlot(s)'
      /\ uart'[p] = uart[p] /\ rx_sem'[p] = rx_sem[p] /\ rx_sem'[s] = 0
  BY <1>1, <1>3, ReadWindow
<1>5. DataInSlot(p) /\ ~AckInSlot(s) /\ ~DataInSlot(p)'
  BY <1>1, <1>3, <1>4 DEF DataInSlot, AckInSlot
<1>6. /\ d = Package(p) /\ snd[p].pc = "wait" /\ ~DataOnLine(p)
      /\ ~AckOnLine(p) /\ ~AckInSlot(p) /\ ~AckSeen(p)
  BY <1>3, <1>5 DEF Going, OneOfThem, RightOnes, Acked
<1>7. a = Ack(g_wait_seq[p]) /\ a.kind = "ack"
      /\ [msg |-> d.msg, pkg |-> d.pkg] = Current(p, snd[p].pkg)
  BY <1>6, BodyKinds DEF Package, Data, Current
<1>8. /\ Some(line'[p], "data") <=> Some(line[p], "data")
      /\ Once(line[p], "data") => Once(line'[p], "data")
      /\ \A x : AllAre(line[p], "data", x) => AllAre(line'[p], "data", x)
      /\ Once(line[p], "ack") /\ ~Some(line[p], "ack") => Once(line'[p], "ack")
      /\ AllAre(line[p], "ack", a) => AllAre(line'[p], "ack", a)
  <2>1. CASE line'[p] = line[p]
    BY <2>1
  <2>2. ASSUME NEW t, Only(t, a), line'[p] = Append(line[p], t)
        PROVE  /\ Some(line'[p], "data") <=> Some(line[p], "data")
               /\ Once(line[p], "data") => Once(line'[p], "data")
               /\ \A x : AllAre(line[p], "data", x) => AllAre(line'[p], "data", x)
               /\ Once(line[p], "ack") /\ ~Some(line[p], "ack") => Once(line'[p], "ack")
               /\ AllAre(line[p], "ack", a) => AllAre(line'[p], "ack", a)
    <3>1. /\ t \in Transmissions /\ ~Carries(t, "data")
          /\ \A j \in DOMAIN t : t[j].kind = "ack" => t[j] = a
      BY <1>7, <2>2, Readable
    <3>2. \A j \in DOMAIN t : t[j].kind # "data"
      BY <3>1 DEF Carries
    <3> HIDE DEF a, p
    <3> QED
      BY <1>1, <2>2, <3>1, <3>2, Queued
  <2> QED
    BY <1>2, <2>1, <2>2
<1>9. Going(p)'
  <2>1. /\ DataOnLine(p)' <=> DataOnLine(p)
        /\ AckInSlot(p)' <=> AckInSlot(p)
        /\ AckSeen(p)' <=> AckSeen(p)
    BY <1>1, <1>3, <1>4 DEF DataOnLine, AckInSlot, AckSeen, Slot
  <2>2. Package(p)' = Package(p) /\ Slot(p)' = Slot(p)
    BY <1>1, <1>4 DEF Package, Slot
  <2>3. Once(line'[s], "data") /\ Once(line'[p], "ack") /\ AllAre(line'[p], "ack", a)
    <3>1. Once(line[s], "data") /\ Once(line[p], "ack") /\ AllAre(line[p], "ack", a)
      BY <1>3, <1>7 DEF Going, OneOfThem, RightOnes
    <3>2. ~Some(line[p], "ack")
      BY <1>6 DEF AckOnLine
    <3> QED
      BY <1>1, <1>8, <3>1, <3>2
  <2>4. OneOfThem(p)'
    BY <1>1, <1>3, <1>5, <1>6, <2>1, <2>3 DEF OneOfThem, Acked
  <2>5. RightOnes(p)'
    BY <1>1, <1>3, <1>5, <1>6, <1>7, <2>1, <2>2, <2>3 DEF Going, RightOnes
  <2>6. Received(p)'
    <3>1. /\ \A k : Current(p, k)' = Current(p, k)
          /\ \A m : Packages(p, m)' = Packages(p, m)
      BY <1>1 DEF Current, Packages
    <3>2. taken[s] \subseteq taken'[s] /\ Current(p, snd[p].pkg) \in taken'[s]
      BY <1>1, <1>7
    <3> QED
      BY <1>1, <1>3, <3>1, <3>2 DEF Going, Received
  <2> QED
    BY <2>4, <2>5, <2>6 DEF Going
<1>10. Going(s)'
  <2>1. /\ DataOnLine(s)' <=> DataOnLine(s)
        /\ DataInSlot(s)' <=> DataInSlot(s)
        /\ AckOnLine(s)' <=> AckOnLine(s)
        /\ AckSeen(s)' <=> AckSeen(s)
        /\ Acked(s)' <=> Acked(s)
    BY <1>1, <1>4, <1>5, <1>8 DEF DataOnLine, DataInSlot, AckOnLine, AckSeen, Acked, Slot
  <2>2. Package(s)' = Package(s) /\ Slot(p)' = Slot(p)
    BY <1>1, <1>4 DEF Package, Slot
  <2>3. OneOfThem(s)'
    BY <1>1, <1>4, <1>5, <1>8, <2>1 DEF Going, OneOfThem
  <2>4. RightOnes(s)'
    BY <1>1, <1>4, <1>8, <2>1, <2>2 DEF Going, RightOnes
  <2>5. Received(s)'
    <3>1. /\ \A k : Current(s, k)' = Current(s, k)
          /\ \A m : Packages(s, m)' = Packages(s, m)
      BY <1>1 DEF Current, Packages
    <3>2. taken'[p] = taken[p]
      BY <1>1, <1>3
    <3> QED
      BY <1>1, <2>1, <3>1, <3>2 DEF Going, Received
  <2> QED
    BY <2>3, <2>4, <2>5 DEF Going
<1> QED
  BY <1>4, <1>9, <1>10

\* What went wrong stays wrong.
LEMMA TroubleStays == [Next]_vars => trouble \subseteq trouble'
<1> SUFFICES ASSUME [Next]_vars PROVE trouble \subseteq trouble'
  OBVIOUS
<1>1. ASSUME NEW s \in Stations, NEW size \in Sizes, usip_send_data(s, size)
      PROVE  trouble \subseteq trouble'
  BY <1>1 DEF usip_send_data
<1>2. ASSUME NEW s \in Stations, usip_send_tlv(s) PROVE trouble \subseteq trouble'
  BY <1>2 DEF usip_send_tlv, convert_tlv_to_usip_frame, send_one_frame, frame_sent,
              wait_ack, wait_timeout
<1>3. ASSUME NEW s \in Stations, receive_one_byte(s) PROVE trouble \subseteq trouble'
  BY <1>3 DEF receive_one_byte, receive_transmission
<1>4. ASSUME NEW s \in Stations, NEW x, line_fault(s, x) PROVE trouble \subseteq trouble'
  BY <1>4 DEF line_fault, receive_transmission
<1>5. ASSUME NEW s \in Stations, usip_rec_task(s) PROVE trouble \subseteq trouble'
  BY <1>5 DEF usip_rec_task, read_bad_frame, read_ack, read_data
<1> QED
  BY <1>1, <1>2, <1>3, <1>4, <1>5 DEF Next, vars

\* The window of a station whose interrupt and receive task do nothing.
LEMMA WindowKept ==
    ASSUME NEW s \in Stations, uart'[s] = uart[s], rx_sem'[s] = rx_sem[s], Window(s)
    PROVE  Window(s)'
BY DEF Window

\* What comes over the line keeps Exchange.
LEMMA ArrivalExchange ==
    ASSUME Basics, Exchange, NEW s \in Stations, line[s] # << >>,
           NEW t \in Transmissions, NEW what, receive_transmission(s, t, what),
           t = Head(line[s]) \/ Only(t, Noise)
    PROVE  Exchange'
<1> SUFFICES ASSUME Awaited' PROVE \A p \in Stations : Window(p)' /\ Going(p)'
  BY DEF Exchange
<1>1. trouble \subseteq trouble'
  BY DEF receive_transmission
<1>2. /\ \A p \in Stations : Window(p) /\ Going(p)
      /\ "token" \notin trouble'
  BY <1>1 DEF Exchange, Awaited
<1>3. Peer(s) \in Stations \ {s} /\ \A p \in Stations : p = s \/ p = Peer(s)
  BY Peers
<1>4. Window(s)' /\ Going(s)' /\ Going(Peer(s))'
  BY <1>2, <1>3, ArrivalGoing
<1>5. uart'[Peer(s)] = uart[Peer(s)] /\ rx_sem'[Peer(s)] = rx_sem[Peer(s)]
  BY <1>3, TransmissionItems, Arrival DEF Basics
<1>6. Window(Peer(s))'
  BY <1>2, <1>3, <1>5, WindowKept
<1> QED
  BY <1>3, <1>4, <1>6

\* So every step does.
LEMMA StepExchange ==
    ASSUME Basics, Exchange, [Next]_vars
    PROVE  Exchange'
<1> SUFFICES ASSUME Awaited' PROVE \A p \in Stations : Window(p)' /\ Going(p)'
  BY DEF Exchange
<1>1. Awaited /\ \A p \in Stations : Window(p) /\ Going(p)
  BY TroubleStays DEF Exchange, Awaited
<1>2. \A s \in Stations : /\ Peer(s) \in Stations \ {s} /\ Peer(Peer(s)) = s
                          /\ \A p \in Stations : p = s \/ p = Peer(s)
  BY Peers
<1>3. ASSUME UNCHANGED vars PROVE \A p \in Stations : Window(p)' /\ Going(p)'
  <2> TAKE p \in Stations
  <2>1. UNCHANGED <<snd, g_wait_seq, send_buf, ack_sem, line, uart, rx_sem, taken,
                    sent, result>>
    BY <1>3 DEF vars, sender, receiver, history
  <2> QED
    BY <1>1, <2>1, GoingElsewhere, WindowKept
<1>4. ASSUME NEW s \in Stations, NEW size \in Sizes, usip_send_data(s, size)
      PROVE  \A p \in Stations : Window(p)' /\ Going(p)'
  <2>1. Going(s)'
    BY <1>1, <1>4, SendDataGoing
  <2>2. /\ UNCHANGED <<send_buf, ack_sem, line, uart, rx_sem, taken, result>>
        /\ \A p \in Stations \ {s} : snd'[p] = snd[p] /\ sent'[p] = sent[p]
                                     /\ g_wait_seq'[p] = g_wait_seq[p]
    BY <1>4 DEF usip_send_data, receiver, Basics, Types
  <2>3. \A p \in Stations \ {s} : Going(p)'
    BY <1>1, <2>2, GoingElsewhere
  <2>4. \A p \in Stations : Window(p)'
    BY <1>1, <2>2, WindowKept
  <2> QED
    BY <2>1, <2>3, <2>4
<1>5. ASSUME NEW s \in Stations, usip_send_tlv(s)
      PROVE  \A p \in Stations : Window(p)' /\ Going(p)'
  <2>1. CASE \/ convert_tlv_to_usip_frame(s)
             \/ send_one_frame(s)
             \/ wait_timeout(s)
    <3>1. Nothing(s)
      <4>1. CASE wait_timeout(s)
        BY <1>1, <4>1, NoneLate DEF Awaited, Basics
      <4>2. CASE convert_tlv_to_usip_frame(s) \/ send_one_frame(s)
        BY <1>1, <4>2, NothingWhile
           DEF convert_tlv_to_usip_frame, send_one_frame, Going, Basics
      <4> QED
        BY <2>1, <4>1, <4>2
    <3>2. Going(s)'
      BY <1>1, <2>1, <3>1, ConvertGoing
    <3>3. /\ UNCHANGED <<g_wait_seq, ack_sem, line, uart, rx_sem, taken, sent, result>>
          /\ \A p \in Stations \ {s} : snd'[p] = snd[p] /\ send_buf'[p] = send_buf[p]
      BY <2>1 DEF convert_tlv_to_usip_frame, send_one_frame, wait_timeout, receiver,
                  history, Basics, Types
    <3>4. \A p \in Stations \ {s} : Going(p)'
      BY <1>1, <3>3, GoingElsewhere
    <3>5. \A p \in Stations : Window(p)'
      BY <1>1, <3>3, WindowKept
    <3> QED
      BY <3>2, <3>4, <3>5
  <2>2. CASE frame_sent(s)
    <3>1. ~LastTry(s) /\ UNCHANGED <<uart, rx_sem>>
      BY <2>2 DEF frame_sent, Awaited
    <3>2. Going(s)' /\ Going(Peer(s))'
      BY <1>1, <1>2, <2>2, <3>1, FrameSentGoing
    <3>3. \A p \in Stations : Window(p)'
      BY <1>1, <3>1, WindowKept
    <3> QED
      BY <1>2, <3>2, <3>3
  <2>3. CASE wait_ack(s)
    <3>1. Going(s)'
      BY <1>1, <2>3, WaitAckGoing
    <3>2. /\ UNCHANGED <<g_wait_seq, send_buf, line, uart, rx_sem, taken, sent>>
          /\ \A p \in Stations \ {s} : snd'[p] = snd[p] /\ result'[p] = result[p]
                                       /\ ack_sem'[p] = ack_sem[p]
      BY <2>3 DEF wait_ack, Return, receiver, Basics, Types
    <3>3. \A p \in Stations \ {s} : Going(p)'
      BY <1>1, <3>2, GoingElsewhere
    <3>4. \A p \in Stations : Window(p)'
      BY <1>1, <3>2, WindowKept
    <3> QED
      BY <3>1, <3>3, <3>4
  <2> QED
    BY <1>5, <2>1, <2>2, <2>3 DEF usip_send_tlv
<1>6. ASSUME NEW s \in Stations, receive_one_byte(s) PROVE Exchange'
  <2>1. line[s] # << >> /\ receive_transmission(s, Head(line[s]), {})
    BY <1>6 DEF receive_one_byte
  <2>2. Head(line[s]) \in Transmissions
    BY <2>1, HeadOfLine
  <2> QED
    BY <2>1, <2>2, ArrivalExchange
<1>7. ASSUME NEW s \in Stations, NEW x \in {Noise, BadEsc, End}, line_fault(s, x)
      PROVE  Exchange'
  <2> DEFINE h == Head(line[s])
             what == IF x # Noise THEN {"framing"}
                     ELSE IF \E i \in DOMAIN h : h[i].kind = "ack"
                     THEN {"ack"} ELSE {"data"}
  <2>1. line[s] # << >> /\ receive_transmission(s, Damaged(h, x), what)
    BY <1>7 DEF line_fault
  <2>2. what \subseteq trouble'
    BY <2>1 DEF receive_transmission
  <2>3. x = Noise
    BY <2>2 DEF Awaited
  <2>4. h \in Transmissions
    BY <2>1, HeadOfLine
  <2>5. Only(Damaged(h, x), Noise) /\ Damaged(h, x) \in Transmissions
    BY <2>3, <2>4, DamagedBodies DEF Only
  <2> HIDE DEF h, what
  <2> QED
    BY <2>1, <2>5, ArrivalExchange
<1>8. ASSUME NEW s \in Stations, usip_rec_task(s)
      PROVE  \A p \in Stations : Window(p)' /\ Going(p)'
  <2>1. Window(s)' /\ Going(s)' /\ Going(Peer(s))'
    BY <1>1, <1>2, <1>8, ReadBadGoing, ReadAckGoing, ReadDataGoing DEF usip_rec_task
  <2>2. uart'[Peer(s)] = uart[Peer(s)] /\ rx_sem'[Peer(s)] = rx_sem[Peer(s)]
    <3>1. /\ rx_sem' = [rx_sem EXCEPT ![s] = 0]
          /\ \/ uart' = uart
             \/ \E slot \in Bodies : uart' = Consumed(s, slot)
      <4>1. Slot(s) \in Bodies /\ None \in Bodies
        BY BodyKinds DEF Basics, Types, Uarts, Slot
      <4> QED
        BY <1>8, <4>1 DEF usip_rec_task, read_bad_frame, read_ack, read_data, TakeToken
    <3> QED
      BY <1>2, <3>1, Consuming DEF Basics, Types
  <2>3. Window(Peer(s))'
    BY <1>1, <1>2, <2>2, WindowKept
  <2> QED
    BY <1>2, <2>1, <2>3
<1>9. Exchange' => \A p \in Stations : Window(p)' /\ Going(p)'
  BY DEF Exchange
<1> QED
  BY <1>3, <1>4, <1>5, <1>6, <1>7, <1>8, <1>9 DEF Next

-----------------------------------------------------------------------------
(* Each message once, whole and in order *)

\* The messages that were sent before stay what they were.
LEMMA SameMessages ==
    ASSUME NEW s \in Stations, sent'[s] = sent[s]
    PROVE  /\ \A m : Message(s, m)' = Message(s, m)
           /\ \A k : Current(s, k)' = Current(s, k)
BY DEF Message, Current

\* A step that delivers and lists nothing for the peer of s.
LEMMA OrderMoves ==
    ASSUME NEW s \in Stations, InOrder(s), sent'[s] = sent[s],
           got'[Peer(s)] = got[Peer(s)], ~last_rcvd'[Peer(s)],
           get_data_frame_list(list'[Peer(s)]) = get_data_frame_list(list[Peer(s)]),
           Listing(s)' = Listing(s), Delivered(s)' = Delivered(s)
    PROVE  InOrder(s)'
<1> DEFINE a == [i \in 1 .. Listing(s) |-> Current(s, i - 1)]
           b == [m \in 1 .. Delivered(s) |-> Message(s, m)]
<1>1. /\ \A m : Message(s, m)' = Message(s, m)
      /\ \A k : Current(s, k)' = Current(s, k)
  BY SameMessages
<1>2. a' = a /\ b' = b
  BY <1>1
<1> QED
  BY <1>2 DEF InOrder

\* What a step leaves as it was when the call goes on and no ack comes or goes.
LEMMA OrderStays ==
    ASSUME NEW s \in Stations, InOrder(s), sent'[s] = sent[s],
           got'[Peer(s)] = got[Peer(s)], ~last_rcvd'[Peer(s)],
           get_data_frame_list(list'[Peer(s)]) = get_data_frame_list(list[Peer(s)]),
           snd'[s].pc = "idle" <=> snd[s].pc = "idle",
           snd'[s].pkg = snd[s].pkg, snd'[s].size = snd[s].size,
           Acked(s)' <=> Acked(s)
    PROVE  InOrder(s)'
<1>1. Through(s)' <=> Through(s)
  BY DEF Through
<1>2. Listing(s)' = Listing(s) /\ Delivered(s)' = Delivered(s)
  BY <1>1 DEF Listing, Delivered
<1> QED
  BY <1>2, OrderMoves

\* An ack is where it was.
LEMMA AckedStays ==
    ASSUME NEW s \in Stations, line'[s] = line[s], uart'[s] = uart[s],
           ack_sem'[s] = ack_sem[s]
    PROVE  Acked(s)' <=> Acked(s)
BY DEF Acked, AckOnLine, AckInSlot, AckSeen, Slot

\* A station none of whose variables change, and whose peer receives nothing.
LEMMA OrderElsewhere ==
    ASSUME NEW s \in Stations, InOrder(s), line'[s] = line[s], uart'[s] = uart[s],
           ack_sem'[s] = ack_sem[s], sent'[s] = sent[s], snd'[s] = snd[s],
           got'[Peer(s)] = got[Peer(s)], last_rcvd'[Peer(s)] = last_rcvd[Peer(s)],
           list'[Peer(s)] = list[Peer(s)]
    PROVE  InOrder(s)'
<1>1. ~last_rcvd'[Peer(s)]
  BY DEF InOrder
<1> QED
  BY <1>1, AckedStays, OrderStays

\* A message begins: the peer lists nothing of it yet.
LEMMA SendDataOrder ==
    ASSUME Basics, NEW s \in Stations, NEW size \in Sizes, usip_send_data(s, size),
           Going(s), InOrder(s), "empty" \notin trouble'
    PROVE  InOrder(s)'
<1> USE DEF Basics
<1> DEFINE n == Len(sent[s])
<1>1. /\ snd' = [snd EXCEPT ![s] = [pc |-> "convert", size |-> size, pkg |-> 0,
                                    loop_cnt |-> 0, broken |-> FALSE]]
      /\ sent' = [sent EXCEPT ![s] = Append(@, size)]
      /\ snd[s].pc = "idle" /\ size # 0
      /\ UNCHANGED <<ack_sem, line, uart, rx_sem, list, last_rcvd, got>>
  BY DEF usip_send_data, receiver
<1>2. Nothing(s)
  BY <1>1, NothingWhile DEF Going
<1>3. ~Acked(s)'
  BY <1>1, <1>2, NothingGoes
<1>4. /\ snd'[s].pc = "convert" /\ snd'[s].pkg = 0
      /\ sent[s] \in Seq(Sizes) /\ sent'[s] = Append(sent[s], size)
  BY <1>1 DEF Types
<1>5. /\ n \in Nat /\ Len(sent'[s]) = n + 1 /\ DOMAIN sent[s] = 1 .. n
      /\ DOMAIN sent'[s] = 1 .. n + 1
      /\ \A m \in 1 .. n : sent'[s][m] = sent[s][m]
      /\ sent'[s][n + 1] = size
  BY <1>4, AppendProperties, LenProperties
<1>6. Listing(s) = 0 /\ Delivered(s) = n
  BY <1>1 DEF Listing, Delivered
<1>7. Listing(s)' = 0 /\ Delivered(s)' = n
  BY <1>3, <1>4, <1>5 DEF Listing, Delivered, Through
<1>8. \A m \in 1 .. n : Message(s, m)' = Message(s, m)
  BY <1>5 DEF Message
<1>9. /\ get_data_frame_list(list[Peer(s)]) = [i \in 1 .. 0 |-> Current(s, i - 1)]
      /\ got[Peer(s)] = [m \in 1 .. n |-> Message(s, m)] /\ ~last_rcvd[Peer(s)]
  BY <1>6 DEF InOrder
<1>10. [i \in 1 .. 0 |-> Current(s, i - 1)]' = [i \in 1 .. 0 |-> Current(s, i - 1)]
  BY \A i \in 1 .. 0 : FALSE
<1>11. [m \in 1 .. n |-> Message(s, m)] = [m \in 1 .. n |-> Message(s, m)']
  BY <1>8
<1>12. \A m \in DOMAIN sent'[s] : sent'[s][m] # 0
  <2> HIDE DEF n
  <2> QED
    BY <1>1, <1>5 DEF InOrder
<1> HIDE DEF n
<1> QED
  BY <1>1, <1>7, <1>9, <1>10, <1>11, <1>12 DEF InOrder

\* Nothing of the sending task is under way, and it goes on.
LEMMA ConvertOrder ==
    ASSUME Basics, NEW s \in Stations, Nothing(s), InOrder(s),
           convert_tlv_to_usip_frame(s) \/ send_one_frame(s) \/ wait_timeout(s)
    PROVE  InOrder(s)'
<1>1. UNCHANGED <<ack_sem, line, uart, rx_sem, sent, list, last_rcvd, got>>
  BY DEF convert_tlv_to_usip_frame, send_one_frame, wait_timeout, receiver, history
<1>2. /\ snd'[s].pc = "idle" <=> snd[s].pc = "idle"
      /\ snd'[s].pkg = snd[s].pkg /\ snd'[s].size = snd[s].size
  BY DEF convert_tlv_to_usip_frame, send_one_frame, wait_timeout, Basics, Types, Senders
<1>3. Acked(s)' <=> Acked(s)
  BY <1>1, AckedStays
<1>4. ~last_rcvd'[Peer(s)]
  BY <1>1 DEF InOrder
<1> QED
  BY <1>1, <1>2, <1>3, <1>4, OrderStays

\* A frame with data goes out: the acks on that line are for the peer.
LEMMA FrameSentOrder ==
    ASSUME Basics, NEW s \in Stations, frame_sent(s), ~LastTry(s),
           send_buf[s].kind = "data", InOrder(s), InOrder(Peer(s))
    PROVE  InOrder(s)' /\ InOrder(Peer(s))'
<1> USE DEF Basics
<1> DEFINE p == Peer(s)
           t == Transmission(s)
<1>1. /\ UNCHANGED <<ack_sem, uart, sent, list, last_rcvd, got>>
      /\ line' = [line EXCEPT ![p] = Append(@, t)]
      /\ snd[s].pc = "sending" /\ snd' = [snd EXCEPT ![s].pc = "wait"]
  BY DEF frame_sent, receiver
<1>2. /\ p \in Stations /\ p # s /\ Peer(p) = s
      /\ send_buf[s] \in Bodies \ {None} /\ snd \in [Stations -> Senders]
      /\ line \in [Stations -> Seq(Transmissions)]
  BY <1>1, Peers DEF Types, Lines, Calls, Call
<1>3. /\ snd'[s].pc = "wait" /\ snd'[s].pkg = snd[s].pkg /\ snd'[s].size = snd[s].size
      /\ snd'[p] = snd[p]
      /\ line'[p] = Append(line[p], t) /\ line'[s] = line[s]
  BY <1>1, <1>2 DEF Senders
<1>4. t \in Transmissions /\ Only(t, send_buf[s])
  BY <1>2, Transmitted
<1>5. ~Carries(t, "ack")
  BY <1>4, Readable
<1>6. Some(line'[p], "ack") <=> Some(line[p], "ack")
  <2> HIDE DEF p, t
  <2> QED
    BY <1>2, <1>3, <1>4, <1>5, Queued
<1>7. (Acked(s)' <=> Acked(s)) /\ (Acked(p)' <=> Acked(p))
  BY <1>1, <1>3, <1>6 DEF Acked, AckOnLine, AckInSlot, AckSeen, Slot
<1>8. ~last_rcvd'[s] /\ ~last_rcvd'[p]
  BY <1>1, <1>2 DEF InOrder
<1>9. InOrder(s)'
  BY <1>1, <1>3, <1>7, <1>8, OrderStays
<1>10. InOrder(p)'
  BY <1>1, <1>2, <1>3, <1>7, <1>8, OrderStays
<1> QED
  BY <1>9, <1>10

\* The ack is taken: the next package, which the peer does not have yet, or the
\* call returns, whose message the peer has delivered.
LEMMA WaitAckOrder ==
    ASSUME Basics, NEW s \in Stations, wait_ack(s), Going(s), InOrder(s)
    PROVE  InOrder(s)'
<1> USE DEF Basics
<1>1. /\ UNCHANGED <<line, uart, sent, list, last_rcvd, got>>
      /\ ack_sem' = [ack_sem EXCEPT ![s] = 0]
      /\ snd[s].pc = "wait" /\ ack_sem[s] = 1
      /\ IF snd[s].pkg = LastPackage(snd[s].size) THEN Return(s, "ok")
         ELSE snd' = [snd EXCEPT ![s].pc = "convert", ![s].pkg = @ + 1,
                                 ![s].loop_cnt = 0]
  BY DEF wait_ack, receiver
<1>2. snd \in [Stations -> Senders] /\ ack_sem'[s] = 0
  BY <1>1 DEF Types
<1>3. Acked(s) /\ ~AckOnLine(s) /\ ~AckInSlot(s)
  BY <1>1 DEF Going, OneOfThem, AckSeen, Acked
<1>4. ~Acked(s)'
  BY <1>1, <1>2, <1>3 DEF Acked, AckOnLine, AckInSlot, AckSeen, Slot
<1>5. ~last_rcvd'[Peer(s)]
  BY <1>1 DEF InOrder
<1>6. Listing(s)' = Listing(s) /\ Delivered(s)' = Delivered(s)
  <2>1. CASE snd[s].pkg = LastPackage(snd[s].size)
    <3>1. snd'[s].pc = "idle" /\ Through(s)
      BY <1>1, <1>2, <1>3, <2>1 DEF Return, Through
    <3> QED
      BY <1>1, <3>1 DEF Listing, Delivered
  <2>2. CASE snd[s].pkg # LastPackage(snd[s].size)
    <3>1. snd'[s].pc = "convert" /\ snd'[s].pkg = snd[s].pkg + 1
      BY <1>1, <1>2, <2>2 DEF Senders
    <3>2. ~Through(s) /\ ~Through(s)'
      BY <1>4, <2>2 DEF Through
    <3> QED
      BY <1>1, <1>3, <1>4, <3>1, <3>2 DEF Listing, Delivered
  <2> QED
    BY <2>1, <2>2
<1> QED
  BY <1>1, <1>5, <1>6, OrderMoves

\* A frame comes whole into the slot that is read next: an ack that was on the
\* line is in the slot.
LEMMA ArrivalOrder ==
    ASSUME Basics, NEW s \in Stations, line[s] # << >>, Window(s), ~uart[s].head,
           Going(s), InOrder(s), InOrder(Peer(s)),
           NEW x \in Bodies \ {None}, NEW y \in Bodies \ {None},
           Head(line[s]) = Frame(y), x.kind = "ack" <=> y.kind = "ack",
           NEW what, receive_transmission(s, Frame(x), what), "token" \notin trouble'
    PROVE  InOrder(s)' /\ InOrder(Peer(s))'
<1> USE DEF Basics
<1> DEFINE p == Peer(s)
           t == Frame(x)
           h == Head(line[s])
<1>1. UNCHANGED <<snd, ack_sem, list, last_rcvd, got, sent>>
  BY DEF receive_transmission, sender, receiver, history
<1>2. rx_sem[s] = 0 /\ Slot(s)' = x
  BY ArrivalInStep
<1>3. /\ p \in Stations /\ p # s /\ Peer(p) = s
      /\ line \in [Stations -> Seq(Transmissions)]
  BY Peers DEF Lines
<1>4. line' = [line EXCEPT ![s] = Tail(@)] /\ uart'[p] = uart[p]
  <2>1. t \in Seq(Items)
    BY Sendable, TransmissionItems DEF Only
  <2> HIDE DEF t
  <2> QED
    BY <1>3, <2>1, Arrival DEF t
<1>5. line'[s] = Tail(line[s]) /\ line'[p] = line[p]
  BY <1>3, <1>4
<1>6. Carries(h, "ack") <=> y.kind = "ack"
  BY Sendable, Readable
<1>7. /\ Some(line[s], "ack") <=> Carries(h, "ack") \/ Some(line'[s], "ack")
      /\ Once(line[s], "ack") => ~(Carries(h, "ack") /\ Some(line'[s], "ack"))
  <2> HIDE DEF h
  <2> QED
    BY <1>3, <1>5, Dequeued DEF h
<1>8. ~AckInSlot(s)
  <2>1. uart[s].r \in Slots
    BY DEF Types, Uarts
  <2> QED
    BY <1>2, <2>1 DEF AckInSlot, Slot, Window
<1>9. /\ AckInSlot(s)' <=> x.kind = "ack"
      /\ AckSeen(s)' <=> AckSeen(s)
      /\ AckOnLine(s) <=> Carries(h, "ack") \/ AckOnLine(s)'
  BY <1>1, <1>2, <1>7 DEF AckInSlot, AckSeen, AckOnLine
<1>10. Acked(s)' <=> Acked(s)
  BY <1>6, <1>8, <1>9 DEF Acked
<1>11. Acked(p)' <=> Acked(p)
  BY <1>1, <1>3, <1>4, <1>5, AckedStays
<1>12. ~last_rcvd'[s] /\ ~last_rcvd'[p]
  BY <1>1, <1>3 DEF InOrder
<1>13. InOrder(s)'
  BY <1>1, <1>10, <1>12, OrderStays
<1>14. InOrder(p)'
  BY <1>1, <1>3, <1>11, <1>12, OrderStays
<1> QED
  BY <1>13, <1>14

\* The blank node of a frame that is ignored holds no data.
LEMMA ReadBadOrder ==
    ASSUME Basics, NEW s \in Stations, read_bad_frame(s), Window(s),
           InOrder(s), InOrder(Peer(s))
    PROVE  InOrder(s)' /\ InOrder(Peer(s))'
<1> USE DEF Basics
<1> DEFINE p == Peer(s)
<1>1. /\ Slot(s) \in {None, Noise} /\ rx_sem[s] = 1
      /\ rx_sem' = [rx_sem EXCEPT ![s] = 0] /\ uart' = Consumed(s, None)
      /\ Listed(s, Blank, last_rcvd[s])
      /\ UNCHANGED <<snd, ack_sem, line, sent>>
  BY DEF read_bad_frame, TakeToken, sender, history
<1>2. /\ p \in Stations /\ p # s /\ Peer(p) = s /\ None \in Bodies
      /\ None.kind \notin {"ack", "data"} /\ Noise.kind \notin {"ack", "data"}
  BY Peers, BodyKinds
<1>3. ~AckInSlot(s)' /\ uart'[p] = uart[p]
  BY <1>1, <1>2, ReadWindow
<1>4. ~AckInSlot(s)
  BY <1>1, <1>2 DEF AckInSlot
<1>5. Acked(s)' <=> Acked(s)
  BY <1>1, <1>3, <1>4 DEF Acked, AckOnLine, AckSeen
<1>6. last_rcvd[s] = FALSE /\ ~last_rcvd[p] /\ list[s] \in Seq(Nodes) /\ Blank \in Nodes
  BY <1>2 DEF InOrder, Types, Blank, Nodes
<1>7. /\ list'[p] = list[p] /\ last_rcvd'[p] = last_rcvd[p] /\ got'[p] = got[p]
      /\ ~last_rcvd'[s] /\ list'[s] = Append(list[s], Blank) /\ got'[s] = got[s]
  BY <1>1, <1>2, <1>6, Listings
<1>8. get_data_frame_list(list'[s]) = get_data_frame_list(list[s])
  BY <1>6, <1>7, DataOfList
<1>9. InOrder(s)'
  BY <1>1, <1>5, <1>6, <1>7, OrderStays
<1>10. InOrder(p)'
  BY <1>1, <1>2, <1>3, <1>7, <1>8, AckedStays, OrderStays
<1> QED
  BY <1>9, <1>10

\* An ack changes neither list nor deliveries.
LEMMA ReadAckOrder ==
    ASSUME Basics, NEW s \in Stations, read_ack(s), Window(s), Going(s),
           InOrder(s), InOrder(Peer(s))
    PROVE  InOrder(s)' /\ InOrder(Peer(s))'
<1> USE DEF Basics
<1> DEFINE p == Peer(s)
<1>1. AckInSlot(s) /\ Slot(s) = Ack(g_wait_seq[s])
  BY DEF read_ack, AckInSlot, Going, RightOnes
<1>2. Slot(s).seq = g_wait_seq[s]
  BY <1>1 DEF Ack
<1>3. /\ rx_sem[s] = 1 /\ rx_sem' = [rx_sem EXCEPT ![s] = 0]
      /\ uart' = Consumed(s, None) /\ ack_sem' = [ack_sem EXCEPT ![s] = 1]
      /\ last_rcvd' = [last_rcvd EXCEPT ![s] = FALSE]
      /\ UNCHANGED <<snd, line, sent, list, got>>
  BY <1>2 DEF read_ack, TakeToken, sender, history
<1>4. /\ p \in Stations /\ p # s /\ Peer(p) = s /\ None \in Bodies
      /\ None.kind \notin {"ack", "data"}
  BY Peers, BodyKinds
<1>5. uart'[p] = uart[p]
  BY <1>3, <1>4, ReadWindow
<1>6. ack_sem'[s] = 1 /\ ack_sem'[p] = ack_sem[p]
  BY <1>3, <1>4 DEF Types
<1>7. Acked(s)' /\ Acked(s)
  BY <1>1, <1>6 DEF Acked, AckSeen
<1>8. ~last_rcvd'[s] /\ last_rcvd'[p] = last_rcvd[p] /\ ~last_rcvd[p]
  BY <1>3, <1>4 DEF Types, InOrder
<1>9. InOrder(s)'
  BY <1>3, <1>7, <1>8, OrderStays
<1>10. InOrder(p)'
  BY <1>3, <1>4, <1>5, <1>6, <1>8, AckedStays, OrderStays
<1> QED
  BY <1>9, <1>10

\* A sequence that is made from a function, one longer.
LEMMA OneMore ==
    ASSUME NEW n \in Nat, NEW S, NEW g \in [1 .. n + 1 -> S]
    PROVE  Append([i \in 1 .. n |-> g[i]], g[n + 1]) = [i \in 1 .. n + 1 |-> g[i]]
<1> DEFINE a == [i \in 1 .. n |-> g[i]]
           b == [i \in 1 .. n + 1 |-> g[i]]
           c == Append(a, g[n + 1])
<1>1. a \in Seq(S) /\ Len(a) = n /\ b \in Seq(S) /\ Len(b) = n + 1 /\ g[n + 1] \in S
  OBVIOUS
<1>2. \A i \in 1 .. n : a[i] = g[i]
  OBVIOUS
<1>3. \A i \in 1 .. n + 1 : b[i] = g[i]
  OBVIOUS
<1> HIDE DEF a, b
<1>4. /\ c \in Seq(S) /\ Len(c) = n + 1 /\ c[n + 1] = g[n + 1]
      /\ \A i \in 1 .. n : c[i] = a[i]
  BY <1>1, AppendProperties
<1> HIDE DEF c
<1>5. \A i \in 1 .. n + 1 : c[i] = b[i]
  BY <1>2, <1>3, <1>4
<1>6. DOMAIN c = 1 .. n + 1 /\ DOMAIN b = 1 .. n + 1
  BY <1>1, <1>4, LenProperties
<1>7. c = [i \in 1 .. n + 1 |-> c[i]] /\ b = [i \in 1 .. n + 1 |-> b[i]]
  BY <1>1, <1>4, <1>6
<1>8. c = b
  BY <1>5, <1>7
<1> QED
  BY <1>8 DEF a, b, c

\* The list with one package more, as usip_rec_task joins it.
LEMMA JoinedData ==
    ASSUME Basics, NEW s \in Stations, NEW p \in Stations, NEW k \in Nat,
           get_data_frame_list(list[s]) = [i \in 1 .. k |-> Current(p, i - 1)],
           Current(p, k) # Blank
    PROVE  /\ Current(p, k) \in Nodes
           /\ get_data_frame_list(Append(list[s], Current(p, k)))
                = [i \in 1 .. k + 1 |-> Current(p, i - 1)]
<1> USE DEF Basics
<1> DEFINE g == [i \in 1 .. k + 1 |-> Current(p, i - 1)]
           q == list[s]
           x == Current(p, k)
           n == Len(sent[p])
<1>1. q \in Seq(Nodes) /\ n \in Nat
  BY LenProperties DEF Types
<1>2. \A i \in Nat : Current(p, i) \in Nodes
  <2>1. \A i \in Nat : Current(p, i) = [msg |-> n, pkg |-> i]
    BY DEF Current
  <2> HIDE DEF n
  <2> QED
    BY <1>1, <2>1 DEF Nodes
<1>3. g \in [1 .. k + 1 -> Nodes] /\ g[k + 1] = x
  <2>1. \A i \in 1 .. k + 1 : i - 1 \in Nat
    OBVIOUS
  <2>2. k + 1 \in 1 .. k + 1 /\ (k + 1) - 1 = k
    OBVIOUS
  <2>3. g[k + 1] = Current(p, (k + 1) - 1)
    BY <2>2
  <2> QED
    BY <1>2, <2>1, <2>2, <2>3
<1>4. [i \in 1 .. k |-> Current(p, i - 1)] = [i \in 1 .. k |-> g[i]]
  OBVIOUS
<1>5. g = [i \in 1 .. k + 1 |-> g[i]]
  OBVIOUS
<1>6. x \in Nodes
  BY <1>2
<1>7. get_data_frame_list(Append(q, x)) = Append(get_data_frame_list(q), x)
  <2> HIDE DEF q, x
  <2> QED
    BY <1>1, <1>6, DataOfList DEF x
<1> HIDE DEF g
<1>8. Append([i \in 1 .. k |-> g[i]], g[k + 1]) = [i \in 1 .. k + 1 |-> g[i]]
  BY <1>3, OneMore
<1> QED
  BY <1>3, <1>4, <1>5, <1>6, <1>7, <1>8 DEF g

\* The package that the peer awaits the ack of is the next of its message: it
\* is listed, or the message that it ends is delivered.
LEMMA ReadDataOrder ==
    ASSUME Basics, NEW s \in Stations, read_data(s), Window(s),
           Going(Peer(s)), InOrder(s), InOrder(Peer(s)),
           "shared" \notin trouble'
    PROVE  InOrder(s)' /\ InOrder(Peer(s))'
<1> USE DEF Basics
<1> DEFINE d == Slot(s)
           p == Peer(s)
           a == Ack(d.seq)
           n == Len(sent[p])
           k == snd[p].pkg
           size == snd[p].size
           node == Current(p, k)
<1>1. /\ d \in Bodies /\ d.kind = "data" /\ rx_sem[s] = 1
      /\ rx_sem' = [rx_sem EXCEPT ![s] = 0] /\ uart' = Consumed(s, d)
      /\ UNCHANGED <<ack_sem, sent>>
      /\ snd'[p] = snd[p] /\ snd'[s].pc = snd[s].pc
      /\ snd'[s].pkg = snd[s].pkg /\ snd'[s].size = snd[s].size
      /\ line'[s] = line[s] /\ line[p] \in Seq(Transmissions)
  BY ReadData
<1>2. snd[s].pc # "sending"
  BY DEF read_data
<1>3. line'[p] = Append(line[p], Frame(a))
  BY <1>2, ReadData
<1>4. p \in Stations /\ p # s /\ Peer(p) = s
  BY Peers
<1>5. ~AckInSlot(s)' /\ uart'[p] = uart[p]
  BY <1>1, <1>4, ReadWindow
<1>6. DataInSlot(p) /\ ~AckInSlot(s)
  BY <1>1, <1>4 DEF DataInSlot, AckInSlot
<1>7. d = Package(p) /\ snd[p].pc = "wait" /\ ~Acked(p)
  BY <1>4, <1>6 DEF Going, OneOfThem, RightOnes
<1>8. Acked(s)' <=> Acked(s)
  BY <1>1, <1>5, <1>6 DEF Acked, AckOnLine, AckSeen
<1>9. Acked(p)'
  <2>1. a \in Bodies \ {None} /\ a.kind = "ack"
    BY <1>1, DataBody
  <2>2. Carries(Frame(a), "ack") /\ Frame(a) \in Transmissions
    <3> HIDE DEF a
    <3> QED
      BY <2>1, Sendable DEF Only
  <2>3. Some(line'[p], "ack")
    <3> HIDE DEF a, p
    <3> QED
      BY <1>1, <1>3, <2>2, Queued
  <2> QED
    BY <2>3 DEF Acked, AckOnLine
<1>10. /\ n \in Nat \ {0} /\ k \in Nat /\ size \in Nat \ {0} /\ sent[p][n] = size
       /\ k <= LastPackage(size)
  <2>1. /\ Len(sent[p]) \in 1 .. MaxSent /\ size \in Sizes /\ sent[p][n] = size
    BY <1>4, <1>7, CurrentCall
  <2>2. n \in DOMAIN sent[p] /\ k \in Nat
    BY <1>4, <2>1, LenProperties DEF Types, Senders
  <2>3. size # 0
    BY <2>1, <2>2 DEF InOrder
  <2>4. k <= LastPackage(size)
    BY <1>4 DEF Calls, Call
  <2>5. size \in Nat /\ MaxSent \in Nat
    BY <2>1, Bounds
  <2> HIDE DEF n, k, size
  <2>6. n \in 1 .. MaxSent
    BY <2>1 DEF n
  <2>7. n \in Nat \ {0}
    BY <2>5, <2>6
  <2> QED
    BY <2>1, <2>2, <2>3, <2>4, <2>5, <2>7
<1>11. /\ d.bytes = TRUE /\ (d.last <=> k = LastPackage(size))
       /\ [msg |-> d.msg, pkg |-> d.pkg] = node
  <2> HIDE DEF n, k, size
  <2>1. d = Data(g_wait_seq[p], n, k, k = LastPackage(size), size > 0)
    BY <1>7 DEF Package, n, k, size
  <2>2. size > 0
    BY <1>10
  <2>3. node = [msg |-> n, pkg |-> k]
    BY DEF Current, n, k
  <2> HIDE DEF d, node
  <2> QED
    BY <2>1, <2>2, <2>3 DEF Data
<1>12. node # Blank /\ d.last \in BOOLEAN
  BY <1>1, <1>11, DataBody
<1>13. ~last_rcvd[s] /\ ~last_rcvd[p]
  BY <1>4 DEF InOrder
<1>14. Listed(s, node, d.last)
  <2>1. (d.last \/ last_rcvd[s]) = d.last
    BY <1>12, <1>13
  <2> QED
    BY <1>11, <2>1 DEF read_data
<1>15. ~Through(p) /\ Listing(p) = k /\ Delivered(p) = n - 1
  BY <1>7 DEF Through, Listing, Delivered
<1>16. /\ get_data_frame_list(list[s]) = [i \in 1 .. k |-> Current(p, i - 1)]
       /\ got[s] = [m \in 1 .. n - 1 |-> Message(p, m)]
       /\ \A m \in DOMAIN sent[p] : sent[p][m] # 0
  BY <1>4, <1>15 DEF InOrder
<1>17. /\ node \in Nodes
       /\ get_data_frame_list(Append(list[s], node))
            = [i \in 1 .. k + 1 |-> Current(p, i - 1)]
  <2> HIDE DEF k, p
  <2> QED
    BY <1>4, <1>10, <1>12, <1>16, JoinedData
<1>18. /\ list'[p] = list[p] /\ last_rcvd'[p] = last_rcvd[p] /\ got'[p] = got[p]
       /\ ~last_rcvd'[s]
       /\ list'[s] = IF d.last THEN << >> ELSE Append(list[s], node)
       /\ got'[s] = IF d.last
                    THEN Append(got[s], get_data_frame_list(Append(list[s], node)))
                    ELSE got[s]
  <2> HIDE DEF d, p, node
  <2> QED
    BY <1>4, <1>12, <1>14, <1>17, Listings
<1>19. InOrder(s)'
  BY <1>1, <1>8, <1>13, <1>18, OrderStays
<1>20. /\ \A m : Message(p, m)' = Message(p, m)
       /\ \A i : Current(p, i)' = Current(p, i)
       /\ (snd'[p].pc = "wait" /\ snd'[p].pkg = k /\ snd'[p].size = size)
       /\ Len(sent'[p]) = n /\ sent'[p] = sent[p]
  BY <1>1, <1>4, <1>7, SameMessages
<1>21. InOrder(p)'
  <2>1. CASE ~d.last
    <3>1. ~Through(p)'
      BY <1>11, <1>20, <2>1 DEF Through
    <3>2. Listing(p)' = k + 1 /\ Delivered(p)' = n - 1
      BY <1>9, <1>20, <3>1 DEF Listing, Delivered
    <3>3. get_data_frame_list(list'[s]) = [i \in 1 .. k + 1 |-> Current(p, i - 1)']
      BY <1>17, <1>18, <1>20, <2>1
    <3>4. got'[s] = [m \in 1 .. n - 1 |-> Message(p, m)']
      BY <1>16, <1>18, <1>20, <2>1
    <3> HIDE DEF k, n, d, size, node
    <3> QED
      BY <1>4, <1>16, <1>18, <1>20, <3>2, <3>3, <3>4 DEF InOrder
  <2>2. CASE d.last
    <3>1. Through(p)'
      BY <1>9, <1>11, <1>20, <2>2 DEF Through
    <3>2. Listing(p)' = 0 /\ Delivered(p)' = n
      BY <1>20, <3>1 DEF Listing, Delivered
    <3>3. get_data_frame_list(list'[s]) = [i \in 1 .. 0 |-> Current(p, i - 1)']
      <4>1. [i \in 1 .. 0 |-> Current(p, i - 1)'] = << >>
        BY \A i \in 1 .. 0 : FALSE
      <4> QED
        BY <1>18, <2>2, <4>1, DataOfList
    <3>4. [i \in 1 .. k + 1 |-> Current(p, i - 1)] = Message(p, n)
      <4>1. k + 1 = size
        BY <1>10, <1>11, <2>2 DEF LastPackage
      <4> HIDE DEF k, size
      <4> QED
        BY <1>10, <4>1 DEF Message, Current
    <3>5. got'[s] = [m \in 1 .. n |-> Message(p, m)']
      <4>1. got'[s] = Append(got[s], Message(p, n))
        BY <1>17, <1>18, <2>2, <3>4
      <4> DEFINE g == [m \in 1 .. n |-> Message(p, m)]
                 S == {Message(p, m) : m \in 1 .. n}
                 j == n - 1
      <4>2. j \in Nat /\ j + 1 = n
        BY <1>10
      <4>3. g \in [1 .. j + 1 -> S] /\ g[j + 1] = Message(p, n)
        <5> HIDE DEF n, j
        <5> QED
          BY <1>10, <4>2
      <4>4. got[s] = [m \in 1 .. j |-> g[m]]
        <5> HIDE DEF n
        <5> QED
          BY <1>10, <1>16
      <4>5. g = [m \in 1 .. j + 1 |-> g[m]]
        <5> HIDE DEF n, j
        <5> QED
          BY <4>2
      <4>6. got'[s] = g
        <5> HIDE DEF g, j, S, n
        <5> QED
          BY <4>1, <4>2, <4>3, <4>4, <4>5, OneMore
      <4> QED
        BY <1>20, <4>6
    <3> HIDE DEF k, n, d, size, node
    <3> QED
      BY <1>4, <1>16, <1>18, <1>20, <3>2, <3>3, <3>5 DEF InOrder
  <2> QED
    BY <2>1, <2>2
<1> QED
  BY <1>19, <1>21

\* Every step keeps the order of deliveries.
LEMMA StepOrdered ==
    ASSUME Basics, Exchange, Ordered, [Next]_vars
    PROVE  Ordered'
<1> SUFFICES ASSUME trouble' \subseteq {"data"} PROVE \A p \in Stations : InOrder(p)'
  BY DEF Ordered
<1>1. trouble \subseteq {"data"}
  BY TroubleStays
<1>2. \A p \in Stations : Window(p) /\ Going(p) /\ InOrder(p)
  BY <1>1 DEF Exchange, Awaited, Ordered
<1>3. \A s \in Stations : /\ Peer(s) \in Stations \ {s} /\ Peer(Peer(s)) = s
                          /\ \A p \in Stations : p = s \/ p = Peer(s)
  BY Peers
<1>4. /\ \A p \in Stations : ~uart[p].head
      /\ \A p \in Stations : \A i \in DOMAIN line[p] :
           \E y \in Bodies \ {None} : line[p][i] = Frame(y)
  BY <1>1 DEF Basics, Framed
<1>5. ASSUME UNCHANGED vars PROVE \A p \in Stations : InOrder(p)'
  <2>1. UNCHANGED <<snd, ack_sem, line, uart, sent, list, last_rcvd, got>>
    BY <1>5 DEF vars, sender, receiver, history
  <2> QED
    BY <1>2, <2>1, OrderElsewhere
<1>6. ASSUME NEW s \in Stations, NEW size \in Sizes, usip_send_data(s, size)
      PROVE  \A p \in Stations : InOrder(p)'
  <2>1. InOrder(s)'
    BY <1>2, <1>6, SendDataOrder
  <2>2. /\ UNCHANGED <<ack_sem, line, uart, list, last_rcvd, got>>
        /\ \A p \in Stations \ {s} : snd'[p] = snd[p] /\ sent'[p] = sent[p]
    BY <1>6 DEF usip_send_data, receiver, Basics, Types
  <2>3. \A p \in Stations \ {s} : InOrder(p)'
    BY <1>2, <2>2, OrderElsewhere
  <2> QED
    BY <2>1, <2>3
<1>7. ASSUME NEW s \in Stations, usip_send_tlv(s)
      PROVE  \A p \in Stations : InOrder(p)'
  <2>1. CASE \/ convert_tlv_to_usip_frame(s)
             \/ send_one_frame(s)
             \/ wait_timeout(s)
    <3>1. Nothing(s)
      <4>1. CASE wait_timeout(s)
        BY <1>2, <4>1, NoneLate DEF Basics
      <4>2. CASE convert_tlv_to_usip_frame(s) \/ send_one_frame(s)
        BY <1>2, <4>2, NothingWhile
           DEF convert_tlv_to_usip_frame, send_one_frame, Going, Basics
      <4> QED
        BY <2>1, <4>1, <4>2
    <3>2. InOrder(s)'
      BY <1>2, <2>1, <3>1, ConvertOrder
    <3>3. /\ UNCHANGED <<ack_sem, line, uart, sent, list, last_rcvd, got>>
          /\ \A p \in Stations \ {s} : snd'[p] = snd[p]
      BY <2>1 DEF convert_tlv_to_usip_frame, send_one_frame, wait_timeout, receiver,
                  history, Basics, Types
    <3>4. \A p \in Stations \ {s} : InOrder(p)'
      BY <1>2, <3>3, OrderElsewhere
    <3> QED
      BY <3>2, <3>4
  <2>2. CASE frame_sent(s)
    <3>1. ~LastTry(s) /\ send_buf[s].kind = "data"
      BY <2>2 DEF frame_sent
    <3> QED
      BY <1>2, <1>3, <2>2, <3>1, FrameSentOrder
  <2>3. CASE wait_ack(s)
    <3>1. InOrder(s)'
      BY <1>2, <2>3, WaitAckOrder
    <3>2. /\ UNCHANGED <<line, uart, sent, list, last_rcvd, got>>
          /\ \A p \in Stations \ {s} : snd'[p] = snd[p] /\ ack_sem'[p] = ack_sem[p]
      BY <2>3 DEF wait_ack, Return, receiver, Basics, Types
    <3>3. \A p \in Stations \ {s} : InOrder(p)'
      BY <1>2, <3>2, OrderElsewhere
    <3> QED
      BY <3>1, <3>3
  <2> QED
    BY <1>7, <2>1, <2>2, <2>3 DEF usip_send_tlv
<1>8. ASSUME NEW s \in Stations, line[s] # << >>
      PROVE  \E y \in Bodies \ {None} : Head(line[s]) = Frame(y)
  <2>1. line[s] \in Seq(Transmissions)
    BY DEF Basics, Lines
  <2>2. 1 \in DOMAIN line[s] /\ Head(line[s]) = line[s][1]
    BY <1>8, <2>1
  <2> QED
    BY <1>4, <2>2
<1>9. ASSUME NEW s \in Stations, receive_one_byte(s)
      PROVE  \A p \in Stations : InOrder(p)'
  <2>1. line[s] # << >> /\ receive_transmission(s, Head(line[s]), {})
    BY <1>9 DEF receive_one_byte
  <2>2. PICK y \in Bodies \ {None} : Head(line[s]) = Frame(y)
    BY <1>8, <2>1
  <2>3. receive_transmission(s, Frame(y), {})
    BY <2>1, <2>2
  <2>4. InOrder(s)' /\ InOrder(Peer(s))'
    BY <1>2, <1>3, <1>4, <2>1, <2>2, <2>3, ArrivalOrder
  <2> QED
    BY <1>3, <2>4
<1>10. ASSUME NEW s \in Stations, NEW x \in {Noise, BadEsc, End}, line_fault(s, x)
       PROVE  \A p \in Stations : InOrder(p)'
  <2> DEFINE h == Head(line[s])
             ack == \E i \in DOMAIN h : h[i].kind = "ack"
             what == IF x # Noise THEN {"framing"}
                     ELSE IF ack THEN {"ack"} ELSE {"data"}
  <2>1. line[s] # << >> /\ receive_transmission(s, Damaged(h, x), what)
    BY <1>10 DEF line_fault
  <2>2. what \subseteq trouble'
    BY <2>1 DEF receive_transmission
  <2>3. x = Noise /\ ~ack
    BY <2>2
  <2>4. PICK y \in Bodies \ {None} : h = Frame(y)
    BY <1>8, <2>1
  <2>5. h \in Transmissions /\ Carries(h, y.kind)
    BY <2>4, Sendable DEF Only
  <2>6. y.kind # "ack" /\ Noise.kind # "ack" /\ Noise \in Bodies \ {None}
    BY <2>3, <2>5, BodyKinds DEF Carries
  <2>7. Damaged(h, x) = Frame(Noise)
    BY <2>3, <2>4, <2>5, DamagedBodies
  <2>8. receive_transmission(s, Frame(Noise), what)
    BY <2>1, <2>7
  <2>9. InOrder(s)' /\ InOrder(Peer(s))'
    <3> HIDE DEF what, h
    <3> QED
      BY <1>2, <1>3, <1>4, <2>1, <2>4, <2>6, <2>8, ArrivalOrder DEF h
  <2> QED
    BY <1>3, <2>9
<1>11. ASSUME NEW s \in Stations, usip_rec_task(s)
       PROVE  \A p \in Stations : InOrder(p)'
  <2>1. InOrder(s)' /\ InOrder(Peer(s))'
    BY <1>2, <1>3, <1>11, ReadBadOrder, ReadAckOrder, ReadDataOrder DEF usip_rec_task
  <2> QED
    BY <1>3, <2>1
<1> QED
  BY <1>5, <1>6, <1>7, <1>9, <1>10, <1>11 DEF Next

-----------------------------------------------------------------------------
(* The theorems *)

\* Types, framing, the exchange of packages and acks and the order of delivery
\* are kept by every step of both stations and of the line.
THEOREM Invariant == Spec => []UsipInv
<1>1. Init => UsipInv
  BY InitBasics
<1>2. UsipInv /\ [Next]_vars => UsipInv'
  <2> SUFFICES ASSUME UsipInv, [Next]_vars PROVE UsipInv'
    OBVIOUS
  <2>1. Basics /\ Exchange /\ Ordered
    BY DEF UsipInv, Basics
  <2>2. Basics' /\ Exchange' /\ Ordered'
    BY <2>1, StepBasics, StepExchange, StepOrdered
  <2> QED
    BY <2>2 DEF UsipInv, Basics
<1> QED
  BY <1>1, <1>2, PTL DEF Spec

\* Every variable keeps the type of the code's field, and between two
\* transmissions receive_one_byte waits for the head of a frame, for every number
\* of slots, sequence numbers and retransmissions.
THEOREM StaysInStep == Spec => []InStep
<1>1. UsipInv => InStep
  <2> SUFFICES ASSUME UsipInv PROVE InStep
    OBVIOUS
  <2>1. /\ {g_seq, g_wait_seq} \subseteq [Stations -> 0 .. USIP_SEQ_MAX]
        /\ {ack_sem, rx_sem} \subseteq [Stations -> 0 .. 1]
        /\ send_buf \in [Stations -> Bodies]
        /\ last_rcvd \in [Stations -> BOOLEAN]
    BY DEF UsipInv, Types
  <2>2. ASSUME NEW s \in Stations
        PROVE  /\ snd[s].pc \in {"idle", "convert", "send", "sending", "wait"}
               /\ snd[s].loop_cnt \in 0 .. USIP_MAX_ARQ_TIMES
               /\ snd[s].pkg \in 0 .. LastPackage(snd[s].size)
    <3>1. /\ snd[s] \in Senders /\ snd[s].loop_cnt <= USIP_MAX_ARQ_TIMES
          /\ snd[s].pkg <= LastPackage(snd[s].size)
      BY DEF UsipInv, Types, Calls, Call
    <3>2. LastPackage(snd[s].size) \in Nat /\ USIP_MAX_ARQ_TIMES \in Nat
      BY <3>1, Numbers, Bounds DEF Senders
    <3>3. snd[s].loop_cnt \in Nat /\ snd[s].pkg \in Nat
      BY <3>1 DEF Senders
    <3> DEFINE l == snd[s].loop_cnt
               k == snd[s].pkg
               last == LastPackage(snd[s].size)
    <3>4. l \in 0 .. USIP_MAX_ARQ_TIMES /\ k \in 0 .. last
      <4>1. /\ l \in Nat /\ k \in Nat /\ last \in Nat /\ l <= USIP_MAX_ARQ_TIMES
            /\ k <= last
        BY <3>1, <3>2, <3>3
      <4> HIDE DEF l, k, last
      <4> QED
        BY <3>2, <4>1
    <3> QED
      BY <3>1, <3>4 DEF Senders
  <2>3. ASSUME NEW s \in Stations
        PROVE  /\ uart[s].skb \in [0 .. USIP_UART_SKB_NUM - 1 -> Bodies]
               /\ {uart[s].w, uart[s].r} \subseteq 0 .. USIP_UART_SKB_NUM - 1
               /\ uart[s].bytes \in Bodies /\ (uart[s].bytes # None => uart[s].head)
    <3>1. uart[s] \in Uarts
      BY DEF UsipInv, Types
    <3> QED
      BY <3>1 DEF Uarts, Slots
  <2>4. \A s \in Stations : result[s] \in Seq(Codes)
    BY DEF UsipInv, Types
  <2>5. TypeOK
    BY <2>1, <2>2, <2>3, <2>4 DEF TypeOK
  <2>6. trouble \cap {"framing", "shared"} = {} => \A s \in Stations : ~uart[s].head
    BY DEF UsipInv, Framed
  <2> QED
    BY <2>5, <2>6 DEF InStep
<1> QED
  BY <1>1, Invariant, PTL

\* While every ack is awaited, a frame in g_skb has its token in the semaphore of
\* the receive task.
THEOREM NoFrameIsForgotten == Spec => []NoFrameForgotten
<1>1. UsipInv => NoFrameForgotten
  BY DEF UsipInv, Exchange, Window, NoFrameForgotten
<1> QED
  BY <1>1, Invariant, PTL

\* While every ack is awaited, the read index never stops at an ack of another
\* sequence number than the one usip_send_tlv waits for.
THEOREM NeverIsStuck == Spec => []NeverStuck
<1>1. UsipInv => NeverStuck
  <2>1. ASSUME UsipInv, Awaited, NEW s \in Stations, StaleAck(s) PROVE FALSE
    <3>1. Slot(s) = Ack(g_wait_seq[s])
      BY <2>1 DEF UsipInv, Exchange, Going, RightOnes, AckInSlot, StaleAck
    <3> QED
      BY <2>1, <3>1 DEF StaleAck, Ack
  <2> QED
    BY <2>1 DEF NeverStuck
<1> QED
  BY <1>1, Invariant, PTL

\* While every ack is awaited, usip_send_data returns 0 only for a message all of
\* whose packages the receive task of the peer took.
THEOREM OkMeansReceivedWhenAwaited == Spec => []AwaitedOkMeansReceived
<1>1. UsipInv => AwaitedOkMeansReceived
  BY DEF UsipInv, Exchange, Going, Received, AwaitedOkMeansReceived, OkMeansReceived
<1> QED
  BY <1>1, Invariant, PTL

\* While nothing but frames with data is damaged, the callback of the peer gets
\* the messages of usip_send_data each once, whole and in order.
THEOREM DeliversExactlyOnce == Spec => []ExactlyOnce
<1>1. UsipInv => ExactlyOnce
  <2> SUFFICES ASSUME UsipInv, trouble \subseteq {"data"}, NEW s \in Stations
               PROVE  got[Peer(s)] \in
                        {[m \in 1 .. k |-> Message(s, m)] : k \in 0 .. Len(sent[s])}
    BY DEF ExactlyOnce
  <2> DEFINE n == Len(sent[s])
  <2>1. got[Peer(s)] = [m \in 1 .. Delivered(s) |-> Message(s, m)]
    BY DEF UsipInv, Ordered, InOrder
  <2>2. Delivered(s) \in 0 .. n
    <3>1. n \in Nat
      BY LenProperties DEF UsipInv, Types
    <3>2. snd[s].pc # "idle" => n \in 1 .. MaxSent
      BY CurrentCall DEF UsipInv
    <3>3. Delivered(s) = IF snd[s].pc = "idle" \/ Through(s) THEN n ELSE n - 1
      BY DEF Delivered
    <3> HIDE DEF n
    <3> QED
      BY <3>1, <3>2, <3>3, Bounds
  <2> QED
    BY <2>1, <2>2
<1> QED
  BY <1>1, Invariant, PTL
=============================================================================
